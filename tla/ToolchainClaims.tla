--------------------------- MODULE ToolchainClaims ---------------------------
(* What the documentation of pracc says of the files it makes, and its        *)
(* default build does not keep to.                                            *)
EXTENDS Toolchain, ProgramLib

(* README.md:50 and the rule for `out` in the Makefile: after a run of pracc, *)
(* out.o holds the program, and is linked.  (The tools succeed here.)         *)
ObjectIsThisProgram == (at = "exit0" /\ sound) => content["out.o"] = "own"
Smallest ==
    LET p == <<Main(<<I(0)>>)>>
    IN {[asts |-> Asts(p), compiled |-> TRUE, prog |-> Program(p), assembled |-> TRUE]}
NoLeftovers == {{}}
=============================================================================
