-------------------------------- MODULE Claims --------------------------------
(* What comments, messages and the documentation of pracc say of it and its   *)
(* code does not keep to, each with a program that shows it.                  *)
EXTENDS Pracc, ProgramLib

(* compiler.c:258, compile_inline: "Save old proc/func context and reset the  *)
(* current one".  While the body of an inline routine is compiled the current *)
(* context is that routine's.                                                 *)
InlineHasOwnContext ==
    (work # <<>> /\ work[Innermost].block = "inline") => Ctx.stmt = work[Innermost].node
FuncInProc ==
    {Program(<<Inline(Func("f", <<"int">>, <<Arg("int", "y")>>, <<Name("y")>>)),
               Proc("g", <<Arg("int", "a")>>, <<Name("a"), Bang("f")>>),
               Main(<<I(1), Bang("g"), I(0)>>)>>)}

(* README.md:77: "Functions do not have access to the global stack".  What a  *)
(* routine loads as an argument is one of its arguments.                      *)
LoadsOnlyArguments ==
    (machine = "running" /\ pc \in DOMAIN code /\ Ins.op = "loadarg") =>
        Slot \in Top(calls).base - Ins.nargs .. Top(calls).base - 1
TwoResults ==
    {Program(<<Func("f", <<"int">>, <<Arg("int", "a")>>,
                    <<Name("a"), If(<<I(2)>>, <<I(3)>>), Name("a")>>),
               Main(<<I(1), I(1), Bang("f")>>)>>)}
=============================================================================
