------------------------------- MODULE MCDriver -------------------------------
(* The driver on the programs the other runs compile, on every body of up to  *)
(* three statements of a constant and a variable, and on texts that lack a    *)
(* main or have something beside it, or declare a name twice.  Programs of    *)
(* every kind of routine are followed through the assembler and the linker,   *)
(* after none or either of two earlier runs.                                  *)
EXTENDS Toolchain, Samples

Sample(p, on) == [asts |-> Asts(p), compiled |-> TRUE, prog |-> Program(p), assembled |-> on]
Other(p) == [asts |-> Asts(p), compiled |-> FALSE, prog |-> <<>>, assembled |-> FALSE]

Simulable == {I(1), I(7), I(4), S, Name("A"), Name("N"), Bang("A")}
             \union {Op(k) : k \in {"DUP", "DROP", "PLUS", "MINUS", "MUL", "DIV", "LESS", "BOR", "BNOT"}}
Constants == {<<Const("A", 2), DataOf("CONST", "N", b), DataOf("VAR", "v", b), Main(<<I(0)>>)>> :
                b \in Bodies(Simulable, 3)}
Redeclared == {<<first, Var("A", 3), Main(<<I(0)>>), second, third>> :
                first \in {Const("A", 1), Const("N", 1)}, second \in {Const("A", 2), Main(<<>>)},
                third \in {Const("N", 2), Var("A", 4)}}
Mains == {Main(<<>>), Func("main", <<"int">>, Ints, <<>>), Func("main", <<"str">>, <<>>, <<>>),
          Func("main", <<"int", "int">>, Ints, <<>>), Proc("main", <<>>, <<>>),
          Func("f", <<"int">>, <<>>, <<>>)}
Tops == {<<>>} \union {<<m>> : m \in Mains} \union {<<I(1), m>> : m \in Mains}
        \union {<<m, I(1)>> : m \in Mains} \union {<<Proc("p", <<>>, <<Var("y", 1)>>), m>> : m \in Mains}

MCFiles == {Sample(p, TRUE) : p \in Names \union Twice \union Loops}
           \union {Sample(p, FALSE) : p \in UNION {Addressing, Callees, Chains, Wide, InMain, InFunction, Nested}}
           \union {Other(p) : p \in Constants \union Redeclared \union Tops}
MCLeftovers == {{}, {"out.o", "out"}, {"out.tmp", "out.asm"}}
=============================================================================
