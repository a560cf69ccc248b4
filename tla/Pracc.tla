-------------------------------- MODULE Pracc --------------------------------
(* A program is compiled, and if the compiler accepts it, what was emitted    *)
(* runs.                                                                      *)
EXTENDS Codegen, Machine

vars == <<codegenVars, machineVars>>

Init == CodegenInit /\ MachineInit

(* The loader: the data section initialised, control at _start.               *)
Load ==
    /\ phase = "done" /\ machine = "off"
    /\ machine' = "running"
    /\ pc' \in {i \in DOMAIN code : code[i].ins.op = "start"}
    /\ mem' = [x \in DOMAIN prog.vars \union {"ret_code"} |->
                 IF x = "ret_code" THEN 0 ELSE Wrap(prog.vars[x].value)]
    /\ calls' = <<[base |-> 0, rsp |-> 0]>>
    /\ UNCHANGED <<codegenVars, stack, rsp_stack>>

Compiles == Compile /\ UNCHANGED machineVars
Executes == Execute /\ UNCHANGED codegenVars

(* The compiler has stopped without code to run, or the program has ended.    *)
Ended == \/ phase \in {"rejected", "crashed", "corrupt"}
         \/ machine \in {"exited", "fault"}
End == Ended /\ UNCHANGED vars

Next == Compiles \/ Load \/ Executes \/ End

Spec == Init /\ [][Next]_vars
FairSpec == Spec /\ WF_vars(Compiles)

-----------------------------------------------------------------------------
(* Shape of the state.                                                        *)

(* The state is made of what the C program and the processor can hold.        *)
TypeOK ==
    /\ phase \in {"fill", "main", "routines"} \union Halted
    /\ cursor \in Nat
    /\ \A c \in {proc_ctx, func_ctx} : c.types \in Seq(Kinds) /\ ~c.called_funcptr
    /\ DOMAIN code \subseteq Nat /\ \A i \in DOMAIN code : WellFormed(i)
    /\ machine \in {"off", "running", "exited", "fault"}
    /\ pc \in Int /\ rsp_stack \in Seq(Nat)
    /\ \A i \in DOMAIN stack : stack[i].kind \in CellKinds /\ stack[i].value \in Nat
    /\ \A i \in DOMAIN calls : calls[i].base \in Nat /\ calls[i].rsp \in Nat

-----------------------------------------------------------------------------
(* The compiler.                                                              *)

Accepted == phase = "done"

(* compile_ast: every check the compiler makes together amounts to the        *)
(* certificate.  Code it accepts takes each view of the stack to the next     *)
(* one, unless the program has used one of the constructs in `quirks`, which  *)
(* the compiler accepts without keeping track of the stack.                   *)
AcceptedIsCertified == (Accepted /\ quirks = {}) => Certified

(* label_counter, while_label_counter: every label an accepted program jumps  *)
(* to, at any nesting and inlined any number of times, is defined once.       *)
JumpsLand ==
    Accepted => \A i \in DOMAIN code :
        code[i].ins.op \in {"jmp", "jz"} =>
            Cardinality(Labels(code[i].ins.l, code[i].ins.n)) = 1

(* compile_inline, compile_proc, compile_func: the context code is compiled   *)
(* in is that of the innermost routine being expanded, and is gone when no    *)
(* routine is being compiled.                                                 *)
Expanding == {i \in DOMAIN work : work[i].block \in {"routine", "inline"}}
Innermost == CHOOSE i \in Expanding : \A j \in Expanding : j <= i
ContextOfTheBody ==
    IF work = <<>> THEN proc_ctx = NoCtx /\ func_ctx = NoCtx
    ELSE "inline_ctx" \notin quirks /\ phase \notin Halted => Ctx.stmt = work[Innermost].node

(* compiler_compile comes to an end, whatever the program.                    *)
CompilerStops == <>(phase \in Halted)

-----------------------------------------------------------------------------
(* The emitted code.                                                          *)

Sound == machine = "running" /\ Certified

(* The compiler's type stack is the machine's stack: at each instruction the  *)
(* running routine has as many cells as the compiler counted there, of the    *)
(* kinds it recorded.                                                         *)
StackIsTyped ==
    Sound => Covers(code[pc].types,
                    [i \in 1 .. Len(stack) - Top(calls).base |-> stack[Top(calls).base + i].kind])

(* compile_argument_push_or_call: [rsp + slot] is the cell the caller left    *)
(* for the argument, however deep the stack has grown and whether or not the  *)
(* routine was inlined.                                                       *)
ArgumentIsOwn ==
    (machine = "running" /\ Ins.op = "loadarg" /\ Certified) =>
        Slot = Ins.arg + (IF Len(code[pc].marks) = 1 THEN Top(calls).base - 1 ELSE Top(rsp_stack))
               - Ins.nargs

(* rsp_stack_mov_rsp, rsp_stack_mov_to_rsp: as many stack pointers are saved  *)
(* as routines and inlined bodies are open, and the last one is where the     *)
(* innermost of them was entered.                                             *)
SavedPointersNest ==
    Sound => /\ Len(rsp_stack) = Top(calls).rsp + Len(code[pc].marks)
             /\ code[pc].marks # <<>> => Top(rsp_stack) = Top(calls).base + Top(code[pc].marks)

(* Certified code faults only where the program itself asks for it (a         *)
(* division by zero, a load from an address that is not that of a literal) or *)
(* where a stack is full: never for what is, or is not, on the stack.         *)
Limit == \/ Ins.op = "binary" /\ Traps(Ins.f, Top(stack).value)
         \/ WildLoad
         \/ Len(stack) >= STACK_CAP \/ NoRoomToWrite
         \/ Ins.op = "enter" /\ Len(rsp_stack) >= RSP_STACK_CAP
FaultsAreLimits == (machine = "fault" /\ Certified) => Limit

(* README.md, on procedures: they "do not have access to the global stack",   *)
(* and leftovers "will be dropped at the end of the procedure automatically,  *)
(* so it won't corrupt the stack".  As a specification: see Routines.         *)
Base(k) == calls[k].base
Caller(k) == stack[Base(k + 1)].value - 1       \* the call that opened routine k + 1
Taken(k) == IF Base(k + 1) \in DOMAIN stack /\ Caller(k) \in {i \in DOMAIN code : code[i].ins.op = "call"}
            THEN Len(code[Caller(k)].ins.args) ELSE 0
Frames ==
    IF machine = "off" \/ ~Certified THEN << <<>> >>
    ELSE [k \in DOMAIN calls |->
            IF k = Len(calls) THEN SubSeq(stack, Base(k) + 1, Len(stack))
            ELSE SubSeq(stack, Base(k) + 1, Base(k + 1) - 1 - Taken(k))]

Promise == INSTANCE Routines WITH frames <- Frames
RoutinesKeepApart == Promise!RoutinesSpec
=============================================================================
