----------------------------- MODULE Compilation -----------------------------
(* The inductive invariant of the compiler: what the maps, the two contexts,  *)
(* the open blocks and the code written so far have to do with each other at  *)
(* every step, for the code of an accepted program to be certified.           *)
EXTENDS Pracc

-----------------------------------------------------------------------------
(* The maps: each name once, with a declaration of that name.                 *)

DeclaredAs(id, kinds) == id \in 0 .. asts_len - 1 /\ astid(id).kind \in kinds
IsMap(map, kinds) ==
    /\ IsSeq(map)
    /\ \A i \in DOMAIN map :
          /\ DeclaredAs(map[i].id, kinds) /\ astid(map[i].id).name = map[i].key
          /\ \A j \in DOMAIN map : map[j].key = map[i].key => j = i
Maps == /\ IsMap(values_map, {"FUNC", "PROC", "EXTERN"})
        /\ IsMap(externs_map, {"EXTERN"})

(* How far the compiler is.                                                   *)
Progress ==
    /\ IsProgram(prog) /\ check_for_main_function(prog)
    /\ phase \in {"fill", "main", "routines"} \union Halted
    /\ cursor \in Nat /\ label_counter \in Nat /\ while_label_counter \in Nat
    /\ phase = "fill" =>
          /\ work = <<>> /\ code = <<>> /\ cursor \in TopLevel(prog) \union {asts_len}
          /\ cursor > prog.main => Find(values_map, MAIN_FUNCTION) = prog.main
    /\ phase = "main" => work # <<>> /\ work[1].node = prog.main
    /\ phase = "routines" => cursor > 0
    /\ phase = "done" => work = <<>>

-----------------------------------------------------------------------------
(* The open blocks, and the two contexts.                                     *)

BranchBlocks == {"then", "else"}
LoopBlocks == {"cond", "body"}
Expands(k) == work[k].block \in {"routine", "inline"}
Decl(k) == astid(work[k].node)

IsContext(c) ==
    /\ c \in [stmt : -1 .. asts_len - 1, types : Seq(Kinds), called_funcptr : {FALSE}]
    /\ c.stmt = NULL => c = NoCtx

(* A block of a routine, of the body of one that is inlined, or of an IF or a *)
(* WHILE in the block that encloses it.                                       *)
IsActivation(f) ==
    /\ DOMAIN f = {"block", "of", "node", "cur", "label", "entry", "saved", "under", "marks"}
    /\ f.cur \in -1 .. asts_len /\ f.label \in Nat /\ f.entry \in Seq(Kinds)
    /\ f.under \in Seq(Kinds) /\ f.marks \in Seq(Nat) /\ f.marks # <<>>
    /\ DeclaredAs(f.node, {"FUNC", "PROC"})
    /\ IsContext(f.saved)
    /\ f.of # START /\ f.of = work[1].of /\ Find(values_map, f.of) = work[1].node
OfRoutine(f) ==
    /\ f.under = <<>> /\ f.marks = <<0>> /\ f.node = work[1].node
    /\ ~astid(f.node).inlin \/ astid(f.node).args = <<>>
OfInlined(f) ==
    LET args == astid(f.node).args
    IN /\ Len(f.marks) > 1 /\ Top(f.marks) = Len(f.under)
       /\ astid(f.node).inlin
       /\ Len(f.under) >= Len(args) /\ TopN(f.under, Len(args)) = ArgKinds(args)
Within(inner, outer) ==
    /\ inner.of = outer.of /\ inner.node = outer.node /\ inner.saved = outer.saved
    /\ inner.under = outer.under /\ inner.marks = outer.marks
Encloses(outer, inner) ==
    /\ outer.cur >= 0
    /\ inner.block \in BranchBlocks => astid(outer.cur).kind = "IF"
    /\ inner.block \in LoopBlocks => astid(outer.cur).kind = "WHILE"
IsBlock(k) ==
    /\ IsActivation(work[k])
    /\ IF Len(work[k].marks) = 1 THEN OfRoutine(work[k]) ELSE OfInlined(work[k])
    /\ work[k].block \in {"routine", "inline"} \union BranchBlocks \union LoopBlocks
    /\ work[k].block = "routine" <=> k = 1
    /\ work[k].block = "routine" => Len(work[k].marks) = 1
    /\ work[k].block = "inline" => Len(work[k].marks) > 1
    /\ k > 1 => Encloses(work[k - 1], work[k])
    /\ (k > 1 /\ ~Expands(k)) => Within(work[k], work[k - 1])
Activations == IsSeq(work) /\ \A k \in DOMAIN work : IsBlock(k)

(* The innermost of the first n blocks that expand a procedure, or a function,*)
(* expands id; NULL if none does.                                             *)
Expanded(k, kind) == Expands(k) /\ Decl(k).kind = kind
LastExpanded(kind, n, id) ==
    \/ id = NULL /\ \A k \in 1 .. n : ~Expanded(k, kind)
    \/ \E k \in 1 .. n : /\ Expanded(k, kind) /\ work[k].node = id
                         /\ \A j \in k + 1 .. n : ~Expanded(j, kind)
Contexts ==
    /\ IsContext(proc_ctx) /\ IsContext(func_ctx)
    /\ LastExpanded("PROC", Len(work), proc_ctx.stmt)
    /\ LastExpanded("FUNC", Len(work), func_ctx.stmt)
    /\ \A k \in DOMAIN work :
          work[k].block = "inline" => LastExpanded(Decl(k).kind, k - 1, work[k].saved.stmt)

(* Blocks of one body expand one declaration; functions are inlined in        *)
(* functions only.                                                            *)
OneBody == \A k \in DOMAIN work : \A j \in 1 .. k :
              (\A m \in j + 1 .. k : ~Expands(m)) => work[j].node = work[k].node
FunctionsFirst == \A k \in DOMAIN work : \A j \in 1 .. k :
                     (Expanded(j, "PROC") /\ Expands(k)) => Decl(k).kind = "PROC"

-----------------------------------------------------------------------------
(* Labels.                                                                    *)

Counter(l) == IF l \in {"else", "edon"} THEN label_counter ELSE while_label_counter
Awaited(block) == CASE block = "then" -> {"else", "edon"}
                    [] block = "else" -> {"edon"}
                    [] block \in LoopBlocks -> {"wdon"}
                    [] OTHER           -> {}
Awaits(k, l, n) == l \in Awaited(work[k].block) /\ n = work[k].label
Family(block) == IF block \in BranchBlocks THEN BranchBlocks ELSE IF block \in LoopBlocks THEN LoopBlocks ELSE {}
JumpsAt == {i \in DOMAIN code : code[i].ins.op \in {"jmp", "jz"}}
LabelsAt == {i \in DOMAIN code : code[i].ins.op = "label"}

LabelsInCode ==
    /\ IsSeq(code)
    /\ \A i \in LabelsAt :
          /\ code[i].ins = [op |-> "label", l |-> code[i].ins.l, n |-> code[i].ins.n]
          /\ code[i].ins.n \in 0 .. Counter(code[i].ins.l) - 1
          /\ \A j \in LabelsAt : code[j].ins = code[i].ins => j = i
    /\ \A i \in JumpsAt : \/ Labels(code[i].ins.l, code[i].ins.n) # {}
                          \/ \E k \in DOMAIN work : Awaits(k, code[i].ins.l, code[i].ins.n)
LabelsToCome ==
    \A k \in DOMAIN work :
        /\ work[k].block \in BranchBlocks => work[k].label < label_counter
        /\ work[k].block \in LoopBlocks => /\ work[k].label < while_label_counter
                                      /\ Labels("while", work[k].label) # {}
        /\ \A l \in Awaited(work[k].block) : Labels(l, work[k].label) = {}
        /\ \A j \in DOMAIN work : (work[j].block \in Family(work[k].block) /\ j # k) =>
                                      work[j].label # work[k].label

-----------------------------------------------------------------------------
(* The code so far, as long as no quirk was used: each instruction leads to   *)
(* the next, and what has still to be written will be written where the view  *)
(* that leads there says.                                                     *)

Falls(i) == code[i].ins.op \notin {"jmp", "ret", "exit"}
Joins(i, v) == /\ v.of = code[i].of /\ v.marks = MarksAfter(i)
               /\ Covers(v.types, TypesAfter(i))
Here == At([op |-> "next"], Types)
Entry(k) == View([op |-> "next"], work[k].of, work[k].under \o work[k].entry, work[k].marks)
SameView(v, w) == v.of = w.of /\ v.types = w.types /\ v.marks = w.marks

(* The types of the block that encloses an inlined body.                      *)
Outside(f) == IF f.saved.stmt # NULL THEN f.saved.types ELSE func_ctx.types
Resumable(outer, f) ==
    /\ f.under = outer.under \o Outside(f) \o ArgKinds(astid(f.node).args)
    /\ f.marks = Append(outer.marks, Len(f.under))

Declares(name) == astid(Find(values_map, name))
AsDeclared(i) ==
    LET ins == code[i].ins
    IN /\ ins.op = "call" => /\ Find(values_map, ins.name) # NULL
                             /\ ins.args = ArgKinds(Declares(ins.name).args)
                             /\ ins.rets = Reversed(Declares(ins.name).rets)
       /\ code[i].of # START => Find(values_map, code[i].of) # NULL
       /\ ins.op = "ret" => /\ ins.nargs = Len(Declares(code[i].of).args)
                            /\ ins.rets = Reversed(Declares(code[i].of).rets)
       /\ (ins.op = "loadarg" /\ Len(code[i].marks) = 1) =>
              /\ ins.nargs = Len(Declares(code[i].of).args)
              /\ ins.kind = Declares(code[i].of).args[ins.arg].kind

InstructionsFit == \A i \in DOMAIN code : WellFormed(i) /\ HasWhatItNeeds(i) /\ AsDeclared(i)
CodeFlows ==
    \A i \in DOMAIN code :
        Falls(i) => IF i < Len(code) THEN Joins(i, code[i + 1])
                    ELSE work # <<>> /\ Joins(i, Here)
JumpsMeet ==
    \A i \in JumpsAt :
        /\ \A j \in Labels(code[i].ins.l, code[i].ins.n) : Joins(i, code[j])
        /\ \A k \in DOMAIN work :
              Awaits(k, code[i].ins.l, code[i].ins.n) => Joins(i, Entry(k))
BlocksResume ==
    \A k \in DOMAIN work :
        /\ work[k].block \in LoopBlocks =>
              \A j \in Labels("while", work[k].label) : SameView(code[j], Entry(k))
        /\ work[k].block = "inline" => Resumable(work[k - 1], work[k])
Balanced == InstructionsFit /\ CodeFlows /\ JumpsMeet /\ BlocksResume

-----------------------------------------------------------------------------
CompilerShape ==
    /\ Maps /\ Progress /\ Activations /\ Contexts /\ OneBody
    /\ LabelsInCode /\ LabelsToCome
    /\ "inline_ctx" \notin quirks => FunctionsFirst

CompilerInductive == CompilerShape /\ (quirks = {} => Balanced)
=============================================================================
