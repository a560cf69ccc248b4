------------------------------- MODULE Routines -------------------------------
(* What the language promises of routines (README.md, procs.md, funcs.md): a  *)
(* routine works on a stack of its own, gets at its caller's only through the *)
(* arguments it takes and the values it returns, and what it leaves behind is *)
(* dropped.                                                                   *)
EXTENDS Integers, Sequences

VARIABLE frames        \* the stacks of the open routines, the innermost last

Top(s) == s[Len(s)]
Front(s) == SubSeq(s, 1, Len(s) - 1)
IsPrefix(s, t) == Len(s) <= Len(t) /\ s = SubSeq(t, 1, Len(s))

RoutinesInit == frames = << <<>> >>

(* From the stacks f to the stacks g: the innermost routine works on its own. *)
Work(f, g) == /\ Len(g) = Len(f)
              /\ Front(g) = Front(f)

(* It calls another, which takes arguments off its stack.                     *)
Call(f, g) == /\ Len(g) = Len(f) + 1
              /\ Front(Front(g)) = Front(f)
              /\ IsPrefix(g[Len(f)], Top(f))
              /\ Top(g) = <<>>

(* It returns: its stack is gone, its caller's has the results on top.        *)
Return(f, g) == /\ Len(f) > 1
                /\ Len(g) = Len(f) - 1
                /\ Front(g) = Front(Front(f))
                /\ IsPrefix(f[Len(f) - 1], Top(g))

Step(f, g) == Work(f, g) \/ Call(f, g) \/ Return(f, g)

(* (Each list of stacks is worked out once.)                                  *)
RoutinesSpec == RoutinesInit /\ [][\E f \in {frames}, g \in {frames'} : Step(f, g)]_frames
=============================================================================
