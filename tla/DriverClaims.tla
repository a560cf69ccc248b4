----------------------------- MODULE DriverClaims -----------------------------
(* What an example of pracc says of constants, and the driver does not keep   *)
(* to.                                                                        *)
EXTENDS Driver, ProgramLib

Files1(p) == {[asts |-> Asts(p), compiled |-> FALSE, prog |-> <<>>]}

(* prac/const.prac: `const A 69 end const N 10 A * end` (here 2 and 3) is a   *)
(* program of the language.                                                   *)
ExampleEvaluates == stage # "rejected"
Example == Files1(<<Const("A", 2), DataOf("CONST", "N", <<I(3), Name("A"), Op("MUL")>>), Main(<<I(0)>>)>>)
=============================================================================
