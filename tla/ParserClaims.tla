----------------------------- MODULE ParserClaims -----------------------------
(* What a comment of pracc says of the ASTs its parser makes, and the parser   *)
(* does not keep to, with a text that shows it.                               *)
EXTENDS Parser, ProgramLib

Texts(programs) == {[tokens |-> Text(p), asts |-> Asts(p), written |-> TRUE] : p \in programs}

(* compiler.c:82: a block ends where its AST says.  The chain of a block      *)
(* never leads to another block of its AST or to the statement after it.      *)
Chain(id) ==
    LET c[i \in -1 .. Len(ASTS)] ==
            IF i \in {-1, Len(ASTS)} THEN {i} ELSE {i} \union c[ASTS[i + 1].next]
    IN c[id]
BlocksEnd ==
    parse = "done" =>
        \A i \in DOMAIN ASTS : \A f, g \in {"next", "then", "else", "cond", "body"} \intersect DOMAIN ASTS[i] :
            (f # "next" /\ f # g) => ASTS[i][g] \notin Chain(ASTS[i][f]) \ {-1}
LoopInThen == {Texts({<<Main(<<I(1), If(<<While(<<I(0)>>, <<I(1)>>)>>, <<I(2)>>), I(0)>>)>>})}
=============================================================================
