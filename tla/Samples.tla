------------------------------- MODULE Samples -------------------------------
(* The programs the runs are given, as lists of declarations.                 *)
EXTENDS ProgramLib

-----------------------------------------------------------------------------
(* Code without branches or calls: every main of up to two statements drawn   *)
(* from one of each group compile_ast tells apart, and every one of three the *)
(* first of which pushes (any other first is refused at once or pushes        *)
(* nothing), then the 0 it returns; and every one of up to three with what    *)
(* makes, loads from or writes an address.                                    *)

Alphabet == {I(1), S, Name("c"), Name("x"), Bang("x"), SetVar("x"), Sys(0)}
            \union {Op(k) : k \in {"PLUS", "MINUS", "EQUAL", "LESS", "BNOT", "DUP", "DROP", "DOT"}}
Pushers == {I(1), S, Name("c"), Name("x"), Bang("x")}
StraightBodies == Bodies(Alphabet, 2) \union {<<p>> \o b : p \in Pushers, b \in [1 .. 2 -> Alphabet]}
Addressing == {<<DataOf("CONST", "t", <<S>>), Const("c", 3), Main(b \o <<I(0)>>)>> :
                  b \in Bodies({Name("t"), Name("c"), S, I(1), Op("PLUS"), Op("DOT")}, 3)}
Straight == {<<Var("x", 2), Const("c", 3), Main(b \o <<I(0)>>)>> : b \in StraightBodies}
            \union Addressing

-----------------------------------------------------------------------------
(* Calls: every body of up to two statements of a routine f, in its four      *)
(* forms, called from main; every body of up to three of a routine g that     *)
(* calls f, where either may be inline; externs, names declared twice or not  *)
(* at all.                                                                    *)

IntStr == <<Arg("int", "a"), Arg("str", "b")>>
Ints == <<Arg("int", "a"), Arg("int", "b")>>

FBody == {Name("a"), Name("b"), I(1), Bang("f"), Op("DUP"), Op("PLUS")}
Forms(body, args) == {Func("f", <<"int">>, args, body), Proc("f", args, body),
                      Func("f", <<"str", "int">>, args, body)}
Callees ==
    {<<Inline(d), Main(<<I(1), S, Bang("f"), I(0)>>)>> :
        d \in UNION {Forms(b, IntStr) : b \in Bodies(FBody, 2) \ {<<>>}}}
    \union
    {<<d, Main(<<I(1), S, Bang("f"), I(0)>>)>> :
        d \in UNION {Forms(b, IntStr) : b \in Bodies(FBody, 2)}}

GBody == {Name("a"), Name("b"), Bang("f"), Op("DROP")}
Less == Func("f", <<"int">>, <<Arg("int", "y")>>, <<Name("y"), I(1), Op("MINUS")>>)
F == {Less, Inline(Less), Func("f", <<"int">>, <<Arg("int", "y")>>, <<S, Name("y")>>),
      Inline(Proc("f", <<Arg("int", "y")>>, <<Name("y"), Op("DUP")>>))}
G(body) == {Proc("g", Ints, body), Func("g", <<"int", "int">>, Ints, body)}
Chains ==
    {<<f, g, Main(<<I(3), I(1), Bang("g"), I(0)>>)>> :
        f \in F,
        g \in UNION {G(b) \union {Inline(d) : d \in G(b)} :
                        b \in {x \in Bodies(GBody, 3) : Len(x) > 1}}}

Uses(body) == <<Var("x", 2), Const("c", 3), Proc("p", <<>>, <<>>),
                ExternFunc("e", <<"int">>, <<Arg("int", "n")>>),
                ExternFunc("two", <<"int", "int">>, <<Arg("int", "n")>>),
                ExternProc("q", <<Arg("str", "s")>>),
                Inline(Proc("nothing", <<>>, <<>>)), Main(body \o <<I(0)>>)>>
Names == {Uses(b) : b \in Bodies({I(1), S, Bang("e"), Bang("two"), Bang("q"), Name("e"),
                                  Name("p"), Bang("nothing"), Bang("none"), SetVar("none")}, 2)}
Wide == {<<ExternFunc("w", <<"int">>, [i \in 1 .. n |-> Arg("int", "n")]),
           Main([i \in 1 .. n |-> I(i)] \o <<Bang("w")>>)>> : n \in 2 .. 3}
Twice == {<<d, e, Main(<<I(0)>>)>> : d, e \in
            {Var("n", 1), Const("n", 1), Proc("n", <<>>, <<>>), ExternProc("n", <<>>)}}

Calls == Callees \union Chains \union Names \union Wide \union Twice

-----------------------------------------------------------------------------
(* Branches: an IF or a WHILE with every pair of short blocks, in main and in *)
(* a function whose argument is used on both sides of it, one inside the      *)
(* other, and loops that run a counter down.                                  *)

Ops == {I(0), Op("DUP"), Op("DROP"), Bang("x"), SetVar("x")}
Blocks == Bodies(Ops, 1) \union {<<Op("DUP"), Op("DROP")>>, <<Op("DUP"), SetVar("x")>>,
                                 <<Bang("x"), SetVar("x")>>}
Ifs == {If(t, e) : t, e \in Blocks}
Whiles == {While(c, b) : c \in Blocks \union {<<Op("DUP"), I(0), Op("GREATER")>>}, b \in Blocks}
Branching == Ifs \union Whiles

InMain == {<<Var("x", 1), Main(<<I(1), I(1), s, I(0)>>)>> : s \in Branching}

Takes(body) == <<Var("x", 1), Func("f", <<"int">>, <<Arg("int", "a")>>, body),
                 Main(<<I(2), Bang("f"), Bang("f")>>)>>
InFunction == {Takes(<<Name("a"), Name("a"), s, Name("a")>>) : s \in Branching}

Small == {If(<<Op("DUP"), SetVar("x")>>, <<>>), If(<<>>, <<I(1), Op("DROP")>>),
          While(<<Bang("x")>>, <<I(0), SetVar("x")>>), While(<<>>, <<Op("DUP"), Op("DROP")>>),
          If(<<Op("DROP")>>, <<>>), IfElses(<<>>, << <<>> >>)}
Around(s) == {If(<<I(1), s>>, <<I(1)>>), If(<<Op("DUP")>>, <<s>>), If(<<s, Op("DUP")>>, <<I(0)>>),
             While(<<Op("DUP"), s>>, <<I(1), Op("DROP")>>),
             While(<<Bang("x")>>, <<Op("DUP"), s, I(0), SetVar("x")>>),
             While(<<Bang("x")>>, <<I(0), SetVar("x"), s>>)}
Ends(s) == Proc("p", <<>>, <<I(1), s>>)
Nested == {<<Var("x", 1), Main(<<I(1), Op("DUP"), o, I(0)>>)>> : o \in UNION {Around(s) : s \in Small}}
          \union {<<Var("x", 1), d, Main(<<I(0), Bang("p")>>)>> :
                     d \in UNION {{Ends(s), Inline(Ends(s))} : s \in Small}}

Down(n) == <<I(n), While(<<Op("DUP"), I(0), Op("GREATER")>>, <<I(1), Op("MINUS")>>), Op("DROP")>>
Rec == <<Name("a"), I(1), Op("MINUS"), Op("DUP"), I(0), Op("GREATER"), If(<<Bang("r")>>, <<>>)>>
Loops == {<<Main(Down(1) \o Down(3) \o <<I(0)>>)>>,
          <<Inline(Proc("p", <<>>, Down(1))), Main(<<Bang("p"), Bang("p"), I(0)>>)>>,
          <<Proc("r", <<Arg("int", "a")>>, Rec), Main(<<I(3), Bang("r"), I(0)>>)>>}

Branches == InMain \union InFunction \union Nested \union Loops
=============================================================================
