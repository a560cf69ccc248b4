-------------------------------- MODULE Safety -------------------------------
(* The inductive invariant behind the safety of certified code: the view      *)
(* beside the instruction each open routine stands at describes that          *)
(* routine's part of the stack and of rsp_stack, not only the innermost's.    *)
EXTENDS Pracc

Depth == Len(calls)

(* The instruction routine k stands at, and where its part of each stack ends. *)
Site(k) == IF k = Depth THEN pc ELSE Caller(k)
EndOf(k) == IF k = Depth THEN Len(stack) ELSE Base(k + 1) - 1
RspEnd(k) == IF k = Depth THEN Len(rsp_stack) ELSE calls[k + 1].rsp

TypesOf(k) == code[Site(k)].types
MarksOf(k) == code[Site(k)].marks

Described(k) ==
    /\ Site(k) \in DOMAIN code
    /\ EndOf(k) = Base(k) + Len(TypesOf(k))
    /\ \A i \in 1 .. Len(TypesOf(k)) : TypesOf(k)[i] \in {"poisoned", stack[Base(k) + i].kind}
    /\ RspEnd(k) = calls[k].rsp + Len(MarksOf(k))
    /\ \A i \in 1 .. Len(MarksOf(k)) : rsp_stack[calls[k].rsp + i] = Base(k) + MarksOf(k)[i]

(* Routine k was called by routine k - 1, whose return address is its base.   *)
Called(k) ==
    /\ code[Site(k - 1)].ins.op = "call"
    /\ code[Site(k)].of = code[Site(k - 1)].ins.name
    /\ stack[Base(k)].kind = "return"
    /\ stack[Base(k)].value \in Nat

Stacks ==
    /\ IsSeq(stack)
    /\ rsp_stack \in Seq(Nat)
    /\ calls \in Seq([base : Nat, rsp : Nat]) /\ Depth >= 1
    /\ Base(1) = 0 /\ calls[1].rsp = 0
    /\ \A k \in 1 .. Depth : \A j \in 1 .. k - 1 :
          Base(j) < Base(k) /\ calls[j].rsp <= calls[k].rsp

Good == /\ Stacks
        /\ \A k \in 1 .. Depth : Described(k)
        /\ \A k \in 2 .. Depth : Called(k)
        /\ code[Site(1)].of = START

(* Before the program is loaded both stacks are empty.                        *)
NotLoaded == machine = "off" => stack = <<>> /\ rsp_stack = <<>>
CompiledFirst == machine # "off" => phase = "done"

Safe == Good /\ (machine = "fault" => Limit)

(* What holds of every state.                                                 *)
Inductive == /\ NotLoaded /\ CompiledFirst
             /\ (machine \in {"running", "fault"} /\ Certified) => Safe
=============================================================================
