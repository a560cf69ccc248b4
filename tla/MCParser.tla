------------------------------ MODULE MCParser ------------------------------
(* The parser on the texts of the programs the other runs compile, and on     *)
(* every text of a few tokens, of which it must accept those a grammar makes. *)
EXTENDS Parser, Samples

-----------------------------------------------------------------------------
(* The grammar: statements of n tokens from the alphabet A, given the bodies  *)
(* of fewer tokens.                                                           *)

Of(A, kind) == \E t \in A : t.kind = kind
LiteralsIn(A) == {t.str : t \in {u \in A : u.kind = "LITERAL"}}
TypesIn(A) == LiteralsIn(A) \intersect TypeWords
NamesIn(A) == LiteralsIn(A) \ TypeWords
Splits(n, k) == {s \in [1 .. k -> 0 .. n] : FoldSeq(LAMBDA a, b : a + b, 0, s) = n}

Simple(A) == (IF Of(A, "SINGLE") THEN {Op("DUP")} ELSE {}) \union {Name(w) : w \in LiteralsIn(A)}
WhilesOf(n, bodies) ==
    UNION {{While(c, b) : c \in bodies[s[1]], b \in bodies[s[2]]} : s \in Splits(n - 3, 2)}
IfsOf(n, bodies) ==
    UNION {UNION {{IfElses(b[1], Tail(b)) :
                     b \in {f \in [1 .. k -> UNION {bodies[s[i]] : i \in 1 .. k}] :
                              \A i \in 1 .. k : f[i] \in bodies[s[i]]}} :
                  s \in Splits(n - k - 1, k)} : k \in 1 .. n - 1}
DataIn(n, A, bodies) == {DataOf("VAR", w, b) : w \in LiteralsIn(A), b \in bodies[n - 3]}

ArgLists(A, k) == [1 .. k -> [kind : TypesIn(A), name : NamesIn(A)]]
RetLists(A, k) == [1 .. k -> TypesIn(A)]
ProcsIn(n, A, bodies) ==
    UNION {{Proc(w, args, b) : w \in NamesIn(A), args \in ArgLists(A, k), b \in bodies[n - 4 - 2 * k]} :
           k \in {j \in 0 .. n : 4 + 2 * j <= n}}
FuncsIn(n, A, bodies) ==
    UNION {{Func(w, rets, args, b) : w \in NamesIn(A), rets \in RetLists(A, s[1]),
                args \in ArgLists(A, s[2]), b \in bodies[n - 4 - s[1] - 2 * s[2]]} :
           s \in {r \in (1 .. n) \X (0 .. n) : (r[1] = 1 \/ r[2] > 0) /\ 4 + r[1] + 2 * r[2] <= n}}
ExternsIn(n, A) ==
    LET Named(t, e) == [e EXCEPT !.open[3] = t, !.ast.name = t.str]
    IN UNION {{Named(t, ExternProc("", args)) : t \in A, args \in ArgLists(A, k)} :
              k \in {j \in 0 .. n : Of(A, "PROC") /\ 4 + 2 * j = n}}
       \union
       UNION {{Named(t, ExternFunc("", rets, args)) :
                  t \in A, rets \in RetLists(A, s[1]), args \in ArgLists(A, s[2])} :
              s \in {r \in (1 .. n) \X (0 .. n) :
                        Of(A, "FUNC") /\ (r[1] = 1 \/ r[2] > 0) /\ 4 + r[1] + 2 * r[2] = n}}

StatementsOf(n, A, bodies) ==
    (IF n = 1 THEN Simple(A) ELSE {})
    \union (IF n >= 2 /\ Of(A, "IF") THEN IfsOf(n, bodies) ELSE {})
    \union (IF n >= 3 /\ Of(A, "WHILE") THEN WhilesOf(n, bodies) ELSE {})
    \union (IF n >= 3 /\ Of(A, "VAR") THEN DataIn(n, A, bodies) ELSE {})
    \union (IF Of(A, "PROC") THEN ProcsIn(n, A, bodies) ELSE {})
    \union (IF Of(A, "FUNC") THEN FuncsIn(n, A, bodies) ELSE {})
    \union (IF n >= 2 /\ Of(A, "INLINE")
            THEN {Inline(d) : d \in ProcsIn(n - 1, A, bodies) \union FuncsIn(n - 1, A, bodies)} ELSE {})
    \union (IF n >= 4 /\ Of(A, "EXTERN") THEN ExternsIn(n, A) ELSE {})
BodiesUpTo(max, A) ==
    LET bodies[n \in 0 .. max] ==
            IF n = 0 THEN {<< >>}
            ELSE UNION {{<<h>> \o t : h \in StatementsOf(k, A, [m \in 0 .. k - 1 |-> bodies[m]]),
                                      t \in bodies[n - k]} : k \in 1 .. n}
    IN UNION {bodies[n] : n \in 0 .. max}

(* The last extern may lack its END.                                          *)
Unclosed(p) == [p EXCEPT ![Len(p)].open = Front(@)]
Files(max, A) ==
    BodiesUpTo(max, A)
    \union {Unclosed(p) : p \in {q \in BodiesUpTo(max + 1, A) : q # <<>> /\ Last(q).ast.kind = "EXTERN"}}

(* An IF may have several ELSEs, as long as there were no more of them than   *)
(* IFs since the last IF at the top level.                                    *)
Before(text, i, kind) == Cardinality({j \in 1 .. i : text[j].kind = kind})
ElsesKept(p) ==
    \A j, k \in DOMAIN p :
        ((j = 1 \/ p[j].ast.kind = "IF") /\ \A i \in j + 1 .. k : p[i].ast.kind # "IF") =>
            LET text == Text(SubSeq(p, j, k))
            IN \A i \in DOMAIN text : Before(text, i, "ELSE") <= Before(text, i, "IF")

-----------------------------------------------------------------------------
Written(p) == [tokens |-> Text(p), asts |-> Asts(p), written |-> TRUE]
NotWritten(text) == [tokens |-> text, asts |-> <<>>, written |-> FALSE]

(* Every text of up to max tokens from A that begins with `before`.           *)
Texts(before, max, A) ==
    LET programs == {p \in Files(max + Len(before), A \union ToSet(before)) : ElsesKept(p)}
        right == {Written(p) : p \in programs}
    IN {r \in right : IsPrefix(before, r.tokens)}
       \union {NotWritten(t) : t \in {before \o t : t \in Bodies(A, max)} \ {r.tokens : r \in right}}

Dup == Op("DUP").open[1]
KeywordsIn(kinds) == {Keyword(k) : k \in kinds}
Signed(head, kinds) ==
    Texts(Keywords(head) \o <<LiteralOf("n")>>, 5,
          {LiteralOf("n"), LiteralOf("int")} \union KeywordsIn({"DO", "END"} \union kinds))

MCSources == {
    {Written(p) : p \in Calls \union Branches},
    Texts(<<>>, 5, {Dup} \union KeywordsIn({"IF", "ELSE", "WHILE", "DO", "END"})),
    Texts(<<>>, 6, {Dup} \union KeywordsIn({"IF", "ELSE", "END"})),
    Texts(<<>>, 5, {LiteralOf("p")} \union KeywordsIn({"PROC", "VAR", "DO", "END"})),
    Texts(<<>>, 4, {LiteralOf("p"), LiteralOf("int")}
                 \union KeywordsIn({"EXTERN", "INLINE", "PROC", "FUNC", "DO", "END"})),
    Texts(Keywords(<<"IF">>), 5, {Dup} \union KeywordsIn({"WHILE", "DO", "ELSE", "END"})),
    Texts(Keywords(<<"WHILE">>), 5, {Dup} \union KeywordsIn({"WHILE", "IF", "DO", "END"})),
    Signed(<<"PROC">>, {"PROC"}), Signed(<<"FUNC">>, {"FUNC"}),
    Signed(<<"EXTERN", "FUNC">>, {"EXTERN", "FUNC"}),
    {Written(<<Func("f", [i \in 1 .. 6 |-> "int"], IntStr, <<>>)>>),
     NotWritten(Text(<<Func("f", [i \in 1 .. 7 |-> "int"], IntStr, <<>>)>>)),
     NotWritten(<<[kind |-> "INVALID"]>>)}}
=============================================================================
