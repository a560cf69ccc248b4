---------------------------- MODULE MCPrograms ----------------------------
(* The compiler and the machine on the sample programs.                       *)
EXTENDS Safety, Compilation, Samples

MCPrograms == ProgramsOf(Straight \union Calls \union Branches)
=============================================================================
