------------------------------- MODULE MCMemory -------------------------------
(* Two vectors, one of words and one of half words, and strings, in arenas    *)
(* that hold a few growths of each.                                           *)
EXTENDS Memory, TLC
CONSTANTS args, rets
Sizes == (args :> 8) @@ (rets :> 4)
MCWords == {<<1>>, <<2, 1>>}
MCValues == {1, 2}
=============================================================================
