--------------------------------- MODULE Asm ---------------------------------
(* out.asm: what the compiler writes and the machine runs.  Beside each       *)
(* instruction stands, as history, the compiler's view of the stack just      *)
(* before it: `of`, the routine it belongs to, `types`, the kinds above that  *)
(* routine's return address, and `marks`, the depths, counted from the same   *)
(* address, that the routine's open rsp_stack entries were saved at.          *)
EXTENDS Lang

CONSTANTS REGISTERS,       \* registers the compiler has names for: 6
          DATA, DATA_SIZE  \* address and bytes of the string literals of out.asm

ASSUME RegistersAssumption == REGISTERS \in Nat
ASSUME DataAssumption == DATA \in Nat /\ DATA_SIZE \in Nat

VARIABLE code

START == ""                 \* the name `_start` goes by: no routine's

Labels(l, n) == {i \in DOMAIN code : code[i].ins = [op |-> "label", l |-> l, n |-> n]}
Entries(name) == {i \in DOMAIN code : code[i].ins = [op |-> "entry", name |-> name]}

-----------------------------------------------------------------------------
(* The certificate: every instruction finds what it needs in the view beside  *)
(* it, and takes that view to the view beside each instruction that may run   *)
(* next.  It is what the compiler's type checks are for, put as one condition *)
(* on the emitted code.                                                       *)

(* Where an instruction may go in its own routine.                            *)
Sequels(i) ==
    LET ins == code[i].ins
    IN CASE ins.op = "jmp"             -> Labels(ins.l, ins.n)
         [] ins.op = "jz"              -> Labels(ins.l, ins.n) \union {i + 1}
         [] ins.op \in {"ret", "exit"} -> {}
         [] OTHER                      -> {i + 1}

(* The types an instruction pops, and those it pushes.                        *)
Pops(ins) ==
    CASE ins.op \in {"binary", "index"}                 -> 2
      [] ins.op \in {"not", "drop", "dot", "store", "jz", "dup"} -> 1
      [] ins.op = "syscall"                             -> ins.pops
      [] ins.op \in {"call", "ffi"}                     -> Len(ins.args)
      [] OTHER                                          -> 0

Pushes(ins, s) ==
    CASE ins.op \in {"push", "loadarg", "loadvar"} -> <<ins.kind>>
      [] ins.op = "binary"                         -> <<"int">>
      [] ins.op = "index"                          -> <<"byte">>
      [] ins.op \in {"not", "dot"}                 -> <<Top(s)>>
      [] ins.op = "dup"                            -> <<Top(s), Top(s)>>
      [] ins.op \in {"call", "ffi"}                -> ins.rets
      [] OTHER                                     -> <<>>

TypesAfter(i) ==
    LET ins == code[i].ins
        s == code[i].types
    IN IF ins.op = "leave"
       THEN SubSeq(s, 1, Top(code[i].marks) - ins.nargs) \o ins.rets
       ELSE Drop(s, Pops(ins)) \o Pushes(ins, s)

MarksAfter(i) ==
    LET m == code[i].marks
    IN CASE code[i].ins.op = "enter" -> Append(m, Len(code[i].types))
         [] code[i].ins.op = "leave" -> Drop(m, 1)
         [] OTHER                    -> m

(* A view says "poisoned" where the compiler has lost the kind.               *)
Covers(view, types) == /\ Len(view) = Len(types)
                       /\ \A i \in DOMAIN view : view[i] \in {"poisoned", types[i]}

(* The argument a load names: the cell `slot` words below the top must be the *)
(* one its caller, or the code inlined around it, left for the argument.      *)
OwnSlot(i) ==
    LET ins == code[i].ins
        depth == Len(code[i].types)
        mark == Top(code[i].marks)
    IN IF Len(code[i].marks) = 1
       THEN ins.slot = depth + 1 + ins.nargs - ins.arg
       ELSE /\ ins.slot = depth - mark + ins.nargs - ins.arg
            /\ mark >= ins.nargs /\ mark <= depth
            /\ code[i].types[mark - ins.nargs + ins.arg] = ins.kind

WellFormed(i) ==
    LET ins == code[i].ins
    IN /\ code[i].types \in Seq(Kinds) /\ code[i].marks \in Seq(Nat)
       /\ ins.op \in {"push", "loadvar", "loadarg"} => ins.kind \in Kinds \ {"poisoned"}
       /\ ins.op \in {"loadarg", "leave", "ret"} => ins.nargs \in Nat
       /\ ins.op = "loadarg" => ins.arg \in 1 .. ins.nargs /\ ins.slot \in Nat
       /\ ins.op = "syscall" => ins.pops \in Nat
       /\ ins.op \in {"call", "ffi"} => ins.args \in Seq(Kinds)
       /\ ins.op \in {"call", "ffi", "leave", "ret"} => ins.rets \in Seq(Kinds)
       /\ ins.op = "ffi" => Len(ins.rets) <= 1

HasWhatItNeeds(i) ==
    LET ins == code[i].ins
        s == code[i].types
        m == code[i].marks
        rets == Len(ins.rets)
    IN /\ Len(s) >= Pops(ins)
       /\ code[i].of = START => ins.op \in {"start", "call", "exit"}
       /\ ins.op = "start" => s = <<>> /\ m = <<>> /\ code[i].of = START
       /\ ins.op = "entry" => s = <<>> /\ m = <<>> /\ code[i].of = ins.name
       /\ ins.op = "not" => Top(s) \in {"int", "byte"}
       /\ ins.op \in {"call", "ffi"} => TopN(s, Len(ins.args)) = ins.args
       /\ ins.op = "ffi" => Len(ins.args) <= REGISTERS
       /\ ins.op = "loadarg" => m # <<>> /\ OwnSlot(i)
       /\ ins.op = "leave" => Len(m) > 1 /\ Top(m) \in ins.nargs .. Len(s)
       /\ ins.op = "ret" => m = <<0>>
       /\ ins.op \in {"leave", "ret"} => /\ Len(s) >= Top(m) + rets
                                         /\ TopN(s, rets) = Reversed(ins.rets)

LeadsOn(i) ==
    \A j \in Sequels(i) : /\ j \in DOMAIN code
                          /\ code[j].of = code[i].of
                          /\ Covers(code[j].types, TypesAfter(i))
                          /\ code[j].marks = MarksAfter(i)

(* Caller and callee agree on what is handed over.                            *)
Agreed(i, j) ==
    (code[i].ins.op = "call" /\ code[j].of = code[i].ins.name) =>
        /\ code[j].ins.op = "ret" => /\ code[j].ins.nargs = Len(code[i].ins.args)
                                     /\ code[j].ins.rets = code[i].ins.rets
        /\ (code[j].ins.op = "loadarg" /\ Len(code[j].marks) = 1) =>
               /\ code[j].ins.nargs = Len(code[i].ins.args)
               /\ code[j].ins.kind = code[i].ins.args[code[j].ins.arg]

Certified == /\ DOMAIN code \subseteq Nat
             /\ \A i \in DOMAIN code : WellFormed(i) /\ HasWhatItNeeds(i) /\ LeadsOn(i)
             /\ \A i, j \in DOMAIN code : Agreed(i, j)
=============================================================================
