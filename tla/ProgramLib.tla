----------------------------- MODULE ProgramLib -----------------------------
(* Programs as nested bodies: their text, and the ASTs the parser makes of it *)
(* (see ParsesAsWritten in Parser).  A statement has the tokens it opens with,   *)
(* the AST it becomes, and its blocks, each with the field of the AST that    *)
(* points to it and the token that closes it.                                 *)
EXTENDS Integers, Sequences, SequencesExt, TLC

LiteralOf(w) == [kind |-> "LITERAL", str |-> w, ast |-> [kind |-> "LITERAL", name |-> w]]
Keyword(kind) == [kind |-> kind, str |-> kind]
Keywords(kinds) == [i \in DOMAIN kinds |-> Keyword(kinds[i])]

Single(ast) == [open |-> <<[kind |-> "SINGLE", str |-> "", ast |-> ast]>>, ast |-> ast, blocks |-> <<>>]
I(n) == Single([kind |-> "PUSH", of |-> "int", value |-> n])
S == Single([kind |-> "PUSH", of |-> "str", value |-> 0])
Op(k) == Single([kind |-> k])
Bang(n) == Single([kind |-> "CALL", name |-> n])          \* n!
SetVar(n) == Single([kind |-> "WRITE", name |-> n])       \* !n
Sys(n) == Single([kind |-> "SYSCALL", args |-> n])
Name(n) == [open |-> <<LiteralOf(n)>>, ast |-> LiteralOf(n).ast, blocks |-> <<>>]

BlockOf(field, body, until) == [field |-> field, body |-> body, until |-> until]
IfElses(then, elses) ==
    LET Until(i) == IF i < Len(elses) THEN "ELSE" ELSE "END"
    IN [open |-> Keywords(<<"IF">>), ast |-> [kind |-> "IF", then |-> -1, else |-> -1],
        blocks |-> <<BlockOf("then", then, Until(0))>>
                   \o [i \in DOMAIN elses |-> BlockOf("else", elses[i], Until(i))]]
If(then, else) == IfElses(then, IF else = <<>> THEN <<>> ELSE <<else>>)
While(cond, body) ==
    [open |-> Keywords(<<"WHILE">>), ast |-> [kind |-> "WHILE", cond |-> -1, body |-> -1],
     blocks |-> <<BlockOf("cond", cond, "DO"), BlockOf("body", body, "END")>>]

Arg(kind, name) == [kind |-> kind, name |-> name]
Words(ws) == [i \in DOMAIN ws |-> LiteralOf(ws[i])]
Signature(rets, args) ==
    Words(rets \o [i \in 1 .. 2 * Len(args) |->
                     IF i % 2 = 1 THEN args[(i + 1) \div 2].kind ELSE args[i \div 2].name])
Declaration(kind, name, rets, args, body) ==
    [open |-> Keywords(<<kind>>) \o <<LiteralOf(name)>> \o Signature(rets, args) \o Keywords(<<"DO">>),
     ast |-> [kind |-> kind, name |-> name, rets |-> rets, args |-> args, inlin |-> FALSE, body |-> -1],
     blocks |-> <<BlockOf("body", body, "END")>>]
Func(name, rets, args, body) == Declaration("FUNC", name, rets, args, body)
Proc(name, args, body) == Declaration("PROC", name, <<>>, args, body)
Inline(decl) == [decl EXCEPT !.ast.inlin = TRUE, !.open = Keywords(<<"INLINE">>) \o @]
ExternOf(keyword, name, rets, args) ==
    [open |-> Keywords(<<"EXTERN", keyword>>) \o <<LiteralOf(name)>> \o Signature(rets, args)
              \o Keywords(<<"END">>),
     ast |-> [kind |-> "EXTERN", proto |-> "EXTERN_" \o keyword, name |-> name,
              rets |-> rets, args |-> args],
     blocks |-> <<>>]
ExternFunc(name, rets, args) == ExternOf("FUNC", name, rets, args)
ExternProc(name, args) == ExternOf("PROC", name, <<>>, args)
DataOf(kind, name, body) ==
    [open |-> Keywords(<<kind>>) \o <<LiteralOf(name)>>, ast |-> [kind |-> kind, name |-> name, body |-> -1],
     blocks |-> <<BlockOf("body", body, "END")>>]
Var(name, value) == DataOf("VAR", name, <<I(value)>>)
Const(name, value) == DataOf("CONST", name, <<I(value)>>)

-----------------------------------------------------------------------------
RECURSIVE Text(_)
Text(body) ==
    FlattenSeq([i \in DOMAIN body |->
        body[i].open \o FlattenSeq([b \in DOMAIN body[i].blocks |->
            Text(body[i].blocks[b].body) \o Keywords(<<body[i].blocks[b].until>>)])])

RECURSIVE Size(_)
Size(body) ==
    FoldSeq(LAMBDA h, n : n + 1 + FoldSeq(LAMBDA b, m : m + Size(b.body), 0, h.blocks), 0, body)

(* The last statement h of a block of an AST of the kind `owner` ends the     *)
(* chain, unless it holds others and is neither followed by END nor in a      *)
(* place where the parser looks.                                              *)
EndsChain(h, owner, until) ==
    \/ Size(<<h>>) = 1
    \/ owner \in {"VAR", "CONST"}
    \/ until = "END" /\ (h.ast.kind = "IF" \/ (h.ast.kind = "WHILE" /\ owner # "IF"))

(* The ASTs of a body whose first one has the number id, in order.            *)
RECURSIVE Layout(_, _, _, _)
Layout(body, id, owner, until) ==
    IF body = <<>> THEN <<>>
    ELSE LET h == Head(body)
             start == [b \in 1 .. Len(h.blocks) + 1 |->
                         id + 1 + FoldSeq(LAMBDA c, n : n + Size(c.body), 0, SubSeq(h.blocks, 1, b - 1))]
             after == start[Len(h.blocks) + 1]
             Points(b) == h.blocks[b].field = "else" \/ h.blocks[b].body # <<>>
             fields == {h.blocks[b].field : b \in {c \in DOMAIN h.blocks : Points(c)}}
             links == [f \in fields |->
                         start[CHOOSE b \in DOMAIN h.blocks :
                                 /\ h.blocks[b].field = f
                                 /\ \A c \in DOMAIN h.blocks : h.blocks[c].field = f => c <= b]]
             chained == Tail(body) # <<>> \/ owner = "FILE" \/ ~EndsChain(h, owner, until)
         IN <<[next |-> IF chained THEN after ELSE -1] @@ links @@ h.ast>>
            \o FlattenSeq([b \in DOMAIN h.blocks |->
                 Layout(h.blocks[b].body, start[b], h.ast.kind, h.blocks[b].until)])
            \o Layout(Tail(body), after, owner, until)

(* The ASTs of a whole text, and what the driver hands to the compiler.       *)
Asts(decls) == Layout(decls, 0, "FILE", "EOF")
ProgramOf(nodes) ==
    LET n == Len(nodes)
        Of(kind) == {i \in 1 .. n : nodes[i].kind = kind}
        Ids(kind) == [x \in {nodes[i].name : i \in Of(kind)} |->
                        LET i == CHOOSE j \in Of(kind) : nodes[j].name = x /\ \A k \in Of(kind) : nodes[k].name = x => k <= j
                        IN [kind |-> nodes[nodes[i].body + 1].of, value |-> nodes[nodes[i].body + 1].value,
                            id |-> i - 1]]
    IN [asts |-> [i \in 0 .. n |-> IF i < n THEN nodes[i + 1] ELSE [kind |-> "POISONED", next |-> 0]],
        len |-> n, vars |-> Ids("VAR"), consts |-> Ids("CONST"),
        main |-> CHOOSE i \in 0 .. n - 1 : nodes[i + 1].kind = "FUNC" /\ nodes[i + 1].name = "main"]
ProgramsOf(texts) == {ProgramOf(nodes) : nodes \in {Asts(p) : p \in texts}}
Program(decls) == CHOOSE p \in ProgramsOf({decls}) : TRUE

Main(body) == Func("main", <<"int">>, <<>>, body)

(* Bodies of at most n statements.                                            *)
Bodies(alphabet, n) == UNION {[1 .. k -> alphabet] : k \in 0 .. n}
=============================================================================
