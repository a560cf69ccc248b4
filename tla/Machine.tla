------------------------------- MODULE Machine -------------------------------
(* The program pracc emits, executed: one step is the group of instructions   *)
(* compiler.c writes for one AST, prologue, epilogue or branch.  `stack` is   *)
(* the processor's stack, deepest cell first, `rsp_stack` the array of saved  *)
(* stack pointers (a pointer is the depth it points at).  A cell has a value  *)
(* and, as history, the kind of thing it was pushed as; `calls` is history    *)
(* too: for _start and each routine entered since, the depth up to and with   *)
(* its return address and the rsp_stack entries that were open before it.     *)
EXTENDS Asm

CONSTANTS RSP_STACK_CAP,   \* quads reserved for rsp_stack
          STACK_CAP,       \* cells the system gives the stack
          FRAME            \* cells of it that dmp_i64 takes while it writes

ASSUME MachineAssumption == RSP_STACK_CAP \in Nat /\ STACK_CAP \in Nat /\ FRAME \in Nat

VARIABLES pc, stack, rsp_stack, mem,
          calls,
          machine          \* "off", "running", "exited", "fault"

machineVars == <<pc, stack, rsp_stack, mem, calls, machine>>

Cell(kind, value) == [kind |-> kind, value |-> value]
CellKinds == Kinds \union {"return"}

Ins == code[pc].ins
Running(ops) == machine = "running" /\ pc \in DOMAIN code /\ Ins.op \in ops

Fault == machine' = "fault" /\ UNCHANGED <<pc, stack, rsp_stack, mem, calls>>

Goto(target, s) == /\ pc' = target /\ stack' = s
                   /\ UNCHANGED <<rsp_stack, calls, machine>>

(* Pop, push and go on, if the cells to pop are there and the others fit.     *)
Sequel(pops, cells) ==
    IF Len(stack) >= pops /\ Len(stack) - pops + Len(cells) <= STACK_CAP
    THEN Goto(pc + 1, Drop(stack, pops) \o cells) /\ UNCHANGED mem
    ELSE Fault

-----------------------------------------------------------------------------
Push ==
    /\ Running({"push"})
    /\ Sequel(0, <<Cell(Ins.kind, Ins.value)>>)

LoadVariable ==
    /\ Running({"loadvar"})
    /\ Sequel(0, <<Cell(Ins.kind, mem[Ins.name])>>)

(* mov rax, [rsp + slot * WORD_SIZE]; push rax                                *)
SlotBelow == Len(stack) - Ins.slot - 1                     \* (faulty)
Slot == Len(stack) - Ins.slot
LoadArg ==
    /\ Running({"loadarg"})
    /\ IF Slot \in DOMAIN stack THEN Sequel(0, <<stack[Slot]>>) ELSE Fault

Binary ==
    /\ Running({"binary"})
    /\ IF Len(stack) >= 2 /\ ~Traps(Ins.f, Top(stack).value)
       THEN Sequel(2, <<Cell("int", Emitted(Ins.f, stack[Len(stack) - 1].value,
                                                   Top(stack).value))>>)
       ELSE Fault

(* A load is sure to succeed only from a literal (and, as each ends with a    *)
(* zero, one that goes on to the next zero), as long as no system call or C   *)
(* function has a hand in the memory.  Another address may be mapped or not:  *)
(* the sum of two operands, or where the compiler had the text of a constant. *)
Untouched == \A i \in DOMAIN code : code[i].ins.op \notin {"syscall", "ffi"}
Readable(address) == Untouched /\ address \in DATA .. DATA + DATA_SIZE - 1
WildLoad ==
    \/ /\ Ins.op = "index" /\ Len(stack) >= 2
       /\ ~Readable(Wrap(stack[Len(stack) - 1].value + Top(stack).value))
    \/ /\ Ins.op = "dot" /\ Ins.kind = "str" /\ stack # <<>>
       /\ ~Readable(Top(stack).value)

(* The byte may be anything.                                                  *)
Index ==
    /\ Running({"index"})
    /\ \/ \E byte \in {0, 1} : Sequel(2, <<Cell("byte", byte)>>)
       \/ WildLoad /\ Fault

Not ==
    /\ Running({"not"})
    /\ Sequel(1, <<Cell(IF Top(stack).kind = "byte" THEN "byte" ELSE "int",
                        BitNot(Wrap(Top(stack).value)))>>)

DupNothing == Running({"dup"}) /\ Sequel(1, <<Top(stack)>>)   \* (faulty)
Dup ==
    /\ Running({"dup"})
    /\ Sequel(1, <<Top(stack), Top(stack)>>)

PopTwo == Running({"drop"}) /\ Sequel(2, <<>>)                \* (faulty)
PopOne ==
    /\ Running({"drop"})
    /\ Sequel(1, <<>>)

(* A str is written up to the zero that strlen finds, from nothing but a      *)
(* return address; dmp_i64 writes every other value, from a frame.            *)
NoRoomToWrite ==
    Ins.op = "dot" /\ Len(stack) + (IF Ins.kind = "str" THEN 1 ELSE FRAME) > STACK_CAP
Dot ==
    /\ Running({"dot"})
    /\ \/ ~NoRoomToWrite /\ Sequel(1, <<Top(stack)>>)
       \/ (NoRoomToWrite \/ WildLoad) /\ Fault

Store ==
    /\ Running({"store"})
    /\ IF stack = <<>> THEN Fault
       ELSE /\ mem' = [mem EXCEPT ![Ins.name] = Top(stack).value]
            /\ Goto(pc + 1, Drop(stack, 1))

Syscall ==
    /\ Running({"syscall"})
    /\ Sequel(Ins.pops, <<>>)

(* The C function pops nothing; its result is whatever it returns in rax.     *)
Ffi ==
    /\ Running({"ffi"})
    /\ \E rax \in Word :
          Sequel(Len(Ins.args), [i \in DOMAIN Ins.rets |-> Cell(Ins.rets[i], rax)])

-----------------------------------------------------------------------------
Skip ==
    /\ Running({"label", "entry", "start"})
    /\ Sequel(0, <<>>)

Jmp ==
    /\ Running({"jmp"})
    /\ \E target \in Labels(Ins.l, Ins.n) : Goto(target, stack)
    /\ UNCHANGED mem

Jz ==
    /\ Running({"jz"})
    /\ IF stack = <<>> THEN Fault
       ELSE /\ IF Top(stack).value = 0
               THEN \E target \in Labels(Ins.l, Ins.n) : Goto(target, Drop(stack, 1))
               ELSE Goto(pc + 1, Drop(stack, 1))
            /\ UNCHANGED mem

Call ==
    /\ Running({"call"})
    /\ IF Len(stack) >= STACK_CAP THEN Fault
       ELSE /\ pc' \in Entries(Ins.name)
            /\ stack' = Append(stack, Cell("return", pc + 1))
            /\ calls' = Append(calls, [base |-> Len(stack) + 1, rsp |-> Len(rsp_stack)])
            /\ UNCHANGED <<rsp_stack, mem, machine>>

(* rsp_stack_mov_rsp: nothing tests the end of the array.                     *)
EnterFrame ==
    /\ Running({"enter"})
    /\ IF Len(rsp_stack) >= RSP_STACK_CAP THEN Fault
       ELSE /\ rsp_stack' = Append(rsp_stack, Len(stack))
            /\ pc' = pc + 1
            /\ UNCHANGED <<stack, mem, calls, machine>>

(* The return values go to registers, rsp back to where it was saved, and the *)
(* values come back in the order the registers were filled in.                *)
ResultsInOrder == TopN(stack, Len(Ins.rets))               \* (faulty)
Results == Reversed(TopN(stack, Len(Ins.rets)))

StillSaved == rsp_stack                                    \* (faulty)
Restored == Drop(rsp_stack, 1)

UnwoundTooFar(n) == SubSeq(stack, 1, Top(rsp_stack) - n - 1)   \* (faulty)
Unwound(n) == SubSeq(stack, 1, Top(rsp_stack) - n)

LeaveInline ==
    /\ Running({"leave"})
    /\ IF rsp_stack = <<>> \/ Len(stack) < Len(Ins.rets) THEN Fault
       ELSE LET saved == Top(rsp_stack)
            IN IF saved < Ins.nargs \/ saved > Len(stack) THEN Fault
               ELSE /\ stack' = Unwound(Ins.nargs) \o Results
                    /\ rsp_stack' = Restored
                    /\ pc' = pc + 1
                    /\ UNCHANGED <<mem, calls, machine>>

Ret ==
    /\ Running({"ret"})
    /\ IF rsp_stack = <<>> \/ Len(stack) < Len(Ins.rets) THEN Fault
       ELSE LET saved == Top(rsp_stack)
            IN IF \/ saved < Ins.nargs + 1 \/ saved > Len(stack) \/ Len(calls) < 2
                  \/ stack[saved].kind # "return"
               THEN Fault
               ELSE /\ stack' = Unwound(Ins.nargs + 1) \o Results
                    /\ rsp_stack' = Restored
                    /\ pc' = stack[saved].value
                    /\ calls' = Drop(calls, 1)
                    /\ mem' = IF Ins.main
                              THEN [mem EXCEPT !.ret_code = Top(Results).value] ELSE mem
                    /\ UNCHANGED machine

Exit ==
    /\ Running({"exit"})
    /\ machine' = "exited"
    /\ UNCHANGED <<pc, stack, rsp_stack, mem, calls>>

MachineInit ==
    /\ pc = 0 /\ stack = <<>> /\ rsp_stack = <<>> /\ mem = [x \in {} |-> 0]
    /\ calls = <<>> /\ machine = "off"

Execute ==
    \/ Push \/ LoadVariable \/ LoadArg \/ Binary \/ Index \/ Not \/ Dup \/ PopOne
    \/ Dot \/ Store \/ Syscall \/ Ffi \/ Skip \/ Jmp \/ Jz \/ Call
    \/ EnterFrame \/ LeaveInline \/ Ret \/ Exit
=============================================================================
