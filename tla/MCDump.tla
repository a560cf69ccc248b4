-------------------------------- MODULE MCDump --------------------------------
(* Every word of nine bits, three digits and a sign with it, and strings with *)
(* one zero, with two and with text behind the first.                         *)
EXTENDS Dump
MCStrings == {<<0>>, <<104, 105, 0>>, <<104, 0, 105, 0>>, <<0, 104, 0>>}
=============================================================================
