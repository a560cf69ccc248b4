------------------------------- MODULE Codegen -------------------------------
(* compiler.c: one pass over the ASTs of a program that checks operand kinds  *)
(* against a stack of types and emits instructions as it goes.                *)
(*                                                                            *)
(* The C recursion compile_block -> compile_ast -> compile_block is the       *)
(* sequence `work` of block activations, innermost last; each step compiles   *)
(* one AST or returns from one block.  `entry`, `under` and `marks` of an     *)
(* activation and `quirks` are history: the compiler has no such variables.   *)
EXTENDS Asm, FiniteSets

CONSTANTS
    Programs,              \* the programs to compile: see check_for_main_function
    ArgReads,              \* what check_for_arg's result reads as: see there
    MAX_STACK_TYPES_CAP,   \* the bound stack_add_type tests
    CTX_STACK_TYPES_CAP,   \* the length of proc_ctx/func_ctx.stack_types
    MaxNesting             \* block activations the C stack has room for

ASSUME CodegenAssumption ==
    /\ ArgReads \subseteq {"declared", "poisoned", "fault"} /\ ArgReads # {}
    /\ MAX_STACK_TYPES_CAP \in Nat /\ CTX_STACK_TYPES_CAP \in Nat
    /\ MaxNesting \in Nat \ {0}

MAIN_FUNCTION == "main"

(* What the parser makes of a text: links lead to ASTs or nowhere (see        *)
(* ChainsGoForward in Parser), what is declared has a name and kinds.         *)
Declarable == Kinds \ {"poisoned"}
IsSignature(d) ==
    /\ d.name # START
    /\ IsSeq(d.args) /\ \A i \in DOMAIN d.args : d.args[i].kind \in Declarable
    /\ d.rets \in Seq(Declarable)
IsAst(a, links) ==
    /\ a.next \in links
    /\ a.kind \in {"FUNC", "PROC", "EXTERN"} => IsSignature(a)
    /\ a.kind \in {"FUNC", "PROC"} => a.inlin \in BOOLEAN /\ a.body \in links
    /\ a.kind = "PROC" => a.rets = <<>>
    /\ a.kind = "EXTERN" => (a.proto = "EXTERN_FUNC" <=> a.rets # <<>>)
    /\ a.kind = "IF" => a.then \in links /\ a.else \in links
    /\ a.kind = "WHILE" => a.cond \in links /\ a.body \in links
    /\ a.kind = "PUSH" => a.of \in Declarable /\ a.value \in Nat
    /\ a.kind = "SYSCALL" => a.args \in Nat

(* The chain of declarations, on which main.c has looked for main.            *)
TopLevel(p) ==
    LET chain[i \in 0 .. p.len] ==
            IF i = p.len THEN {} ELSE {i} \union chain[p.asts[i].next]
    IN chain[0]
check_for_main_function(p) ==
    LET main == p.asts[p.main]
    IN /\ p.main \in TopLevel(p) /\ main.kind = "FUNC" /\ main.name = MAIN_FUNCTION
       /\ main.args = <<>> /\ main.rets # <<>> /\ main.rets[1] = "int"

IsProgram(p) ==
    /\ p.len \in Nat /\ DOMAIN p.asts = 0 .. p.len
    /\ \A i \in 0 .. p.len : IsAst(p.asts[i], -1 .. p.len)
    /\ p.asts[p.len].next = 0
    /\ \A x \in DOMAIN p.consts : p.consts[x].kind \in Declarable /\ p.consts[x].value \in Int
    /\ \A x \in DOMAIN p.vars : p.vars[x].kind \in Declarable /\ p.vars[x].value \in Int
    /\ 0 \in TopLevel(p) /\ TopLevel(p) \subseteq 0 .. p.len - 1
    /\ \A i \in TopLevel(p) :
          /\ p.asts[i].next > i /\ p.asts[i].next \in TopLevel(p) \union {p.len}
          /\ i < p.main => p.asts[i].next <= p.main

(* main.c lets no other program through to the compiler.                      *)
ASSUME ProgramAssumption == \A p \in Programs : IsProgram(p)
ASSUME MainAssumption == \A p \in Programs : check_for_main_function(p)

VARIABLES
    prog,                  \* asts (0 .. len, the last the zeroed ASTS[len]),
                           \* len, main, consts and vars: what earlier stages left
    phase,
    cursor,                \* ast of fill_maps, then index into values_map
    values_map, externs_map,
    proc_ctx, func_ctx,
    work,
    label_counter, while_label_counter,
    quirks

maps == <<cursor, values_map, externs_map>>
ctx == <<proc_ctx, func_ctx>>
labels == <<label_counter, while_label_counter>>
codegenVars == <<prog, phase, maps, ctx, work, labels, code, quirks>>

NULL == -1
Halted == {"done", "rejected", "crashed", "corrupt"}

astid(i) == prog.asts[i]
asts_len == prog.len

(* A hash map that keeps the order in which its keys were added: shgeti/shput. *)
Find(map, key) ==
    IF \E i \in DOMAIN map : map[i].key = key
    THEN map[CHOOSE i \in DOMAIN map : map[i].key = key].id
    ELSE NULL
Put(map, key, id) ==
    IF Find(map, key) # NULL THEN map ELSE Append(map, [key |-> key, id |-> id])

-----------------------------------------------------------------------------
(* The type stack of the context being compiled: a procedure's goes first.    *)

NoCtx == [stmt |-> NULL, types |-> <<>>, called_funcptr |-> FALSE]
ClosedInPart(c) == [c EXCEPT !.types = <<>>]               \* (faulty)
Closed(c) == NoCtx                         \* what compile_proc, compile_func end with
InProc == proc_ctx.stmt # NULL
Ctx == IF InProc THEN proc_ctx ELSE func_ctx
Types == Ctx.types
Stmt == astid(Ctx.stmt)

Popped == Drop(Types, 1)                   \* stack_pop

SetTypes(ts) ==
    IF InProc
    THEN proc_ctx' = [proc_ctx EXCEPT !.types = ts] /\ UNCHANGED func_ctx
    ELSE func_ctx' = [func_ctx EXCEPT !.types = ts] /\ UNCHANGED proc_ctx

(* What becomes of the types the code pushes: stack_add_type stops the        *)
(* compiler at MAX_STACK_TYPES_CAP - 1; past the array it overwrites memory.  *)
Overflow(old, new) ==
    IF Len(new) <= Len(old) THEN "none"
    ELSE IF Len(new) >= MAX_STACK_TYPES_CAP /\ MAX_STACK_TYPES_CAP <= CTX_STACK_TYPES_CAP + 1
    THEN "crashed"
    ELSE IF Len(new) > CTX_STACK_TYPES_CAP THEN "corrupt" ELSE "none"

-----------------------------------------------------------------------------
(* Block activations and emission.                                            *)

Current == work[Len(work)]
Finished == Current.cur < 0                \* the zeroed ASTS[len] is no end: its id is 0
Node == astid(Current.cur)
Compiling(kinds) == /\ phase \in {"main", "routines"} /\ work # <<>>
                    /\ ~Finished /\ Node.kind \in kinds
Returning(block) == /\ phase \in {"main", "routines"} /\ work # <<>>
                    /\ Finished /\ Current.block = block

View(ins, of, types, marks) == [ins |-> ins, of |-> of, types |-> types, marks |-> marks]
At(ins, ts) == View(ins, Current.of, Current.under \o ts, Current.marks)
Emit(instructions) == code' = code \o instructions

(* The block that encloses the current one, moved past its current AST.       *)
Advanced(w) == [w EXCEPT ![Len(w)].cur = astid(w[Len(w)].cur).next]

(* A nested block of an IF or a WHILE, started with the types ts.             *)
Block(block, first, label, ts) ==
    [Current EXCEPT !.block = block, !.cur = first, !.label = label, !.entry = ts]

Stop(how) == phase' = how /\ UNCHANGED <<prog, maps, ctx, work, labels, code, quirks>>
Reject == Stop("rejected")        \* report_error: out.asm is removed
Crash == Stop("crashed")          \* UNREACHABLE, TODO, exit(1) or a signal: it stays

(* The C stack has room for one more nested block.                            *)
Fits == Len(work) < MaxNesting

(* The current AST is compiled: emit, leave the type stack at ts, go on.      *)
Continue(instructions, ts) ==
    IF Overflow(Types, ts) # "none" THEN Stop(Overflow(Types, ts))
    ELSE /\ Emit(instructions) /\ SetTypes(ts)
         /\ work' = Advanced(work)
         /\ UNCHANGED <<prog, phase, maps, labels, quirks>>

-----------------------------------------------------------------------------
(* fill_maps: the declarations, in the order of their top-level chain.        *)

Declared(key) ==
    IF Find(values_map, key) # NULL THEN Find(values_map, key)
    ELSE IF Find(externs_map, key) # NULL THEN Find(externs_map, key)
    ELSE IF key \in DOMAIN prog.consts THEN prog.consts[key].id
    ELSE IF key \in DOMAIN prog.vars THEN prog.vars[key].id
    ELSE NULL

report_if_redeclared(key, id) == Declared(key) \notin {NULL, id}

Declarations == {"FUNC", "PROC", "EXTERN", "VAR", "CONST"}
Filling == phase = "fill" /\ astid(cursor).next # 0 /\ astid(cursor).next <= asts_len

FillMaps ==
    /\ Filling
    /\ LET d == astid(cursor)
       IN IF d.kind \in Declarations /\ report_if_redeclared(d.name, cursor)
          THEN Reject
          ELSE /\ values_map' = IF d.kind \in {"FUNC", "PROC"}
                                THEN Put(values_map, d.name, cursor) ELSE values_map
               /\ externs_map' = IF d.kind = "EXTERN"
                                 THEN Put(externs_map, d.name, cursor) ELSE externs_map
               /\ cursor' = d.next
               /\ UNCHANGED <<prog, phase, ctx, work, labels, code, quirks>>

-----------------------------------------------------------------------------
(* The routines: main first, then `_start`, then the others that are not      *)
(* inline in the order of values_map.                                         *)

ArgKinds(args) == [i \in DOMAIN args |-> args[i].kind]

Routine(id) == [block |-> "routine", of |-> astid(id).name, node |-> id,
                cur |-> astid(id).body, label |-> 0, entry |-> <<>>,
                saved |-> NoCtx, under |-> <<>>, marks |-> <<0>>]

Prologue(id) ==
    LET name == astid(id).name
    IN << View([op |-> "entry", name |-> name], name, <<>>, <<>>),
          View([op |-> "enter"], name, <<>>, <<>>) >>

compile_routine(id) ==
    /\ Emit(Prologue(id))
    /\ work' = <<Routine(id)>>
    /\ IF astid(id).kind = "PROC"
       THEN proc_ctx' = [proc_ctx EXCEPT !.stmt = id] /\ UNCHANGED func_ctx
       ELSE func_ctx' = [func_ctx EXCEPT !.stmt = id] /\ UNCHANGED proc_ctx

CompileMain ==
    /\ phase = "fill" /\ ~Filling
    /\ compile_routine(prog.main)
    /\ phase' = "main"
    /\ UNCHANGED <<prog, maps, labels, quirks>>

(* The top n kinds of ts, deepest first, are the declared ret_types: the      *)
(* emitted pops and pushes then hand them back in the opposite order.         *)
CountedOnly(ts, rets) == Len(ts) >= Len(rets)              \* (faulty)
Returns(ts, rets) == Len(ts) >= Len(rets) /\ TopN(ts, Len(rets)) = rets

CallOf(d) == [op |-> "call", name |-> d.name,
              args |-> ArgKinds(d.args), rets |-> Reversed(d.rets)]

Start(d) ==      \* the code at _start: it calls main and exits with ret_code
    << View([op |-> "start"], START, <<>>, <<>>),
       View(CallOf(d), START, <<>>, <<>>),
       View([op |-> "exit"], START, Reversed(d.rets), <<>>) >>

EndRoutine ==
    /\ Returning("routine")
    /\ LET d == astid(Current.node)
       IN IF d.kind = "FUNC" /\ ~Returns(func_ctx.types, d.rets) THEN Reject
          ELSE /\ Emit(<<At([op |-> "ret", nargs |-> Len(d.args), rets |-> Reversed(d.rets),
                             main |-> d.kind = "FUNC" /\ d.name = MAIN_FUNCTION], Types)>>
                       \o (IF phase = "main" THEN Start(d) ELSE <<>>))
               /\ IF d.kind = "PROC" THEN proc_ctx' = Closed(proc_ctx) /\ UNCHANGED func_ctx
                                     ELSE func_ctx' = Closed(func_ctx) /\ UNCHANGED proc_ctx
               /\ work' = <<>>
               /\ phase' = "routines"
               /\ cursor' = IF phase = "main" THEN 1 ELSE cursor + 1
               /\ UNCHANGED <<prog, values_map, externs_map, labels, quirks>>

SameEntry == cursor                                        \* (faulty)
NextEntry == cursor + 1

CompileRoutine ==
    /\ phase = "routines" /\ work = <<>> /\ cursor <= Len(values_map)
    /\ LET d == astid(values_map[cursor].id)
       IN IF \/ d.kind = "PROC" /\ ~d.inlin
             \/ d.kind = "FUNC" /\ ~d.inlin /\ d.name # MAIN_FUNCTION
          THEN compile_routine(values_map[cursor].id) /\ UNCHANGED cursor
          ELSE cursor' = NextEntry /\ UNCHANGED <<ctx, work, code>>
    /\ UNCHANGED <<prog, phase, values_map, externs_map, labels, quirks>>

CompileDone ==
    /\ phase = "routines" /\ work = <<>> /\ cursor > Len(values_map)
    /\ Stop("done")

-----------------------------------------------------------------------------
(* Names.                                                                     *)

(* check_for_arg returns a pointer to its loop's copy of the argument, which  *)
(* is out of scope when compile_argument_push_or_call reads `kind` through    *)
(* it: the declared kind, a zero, or a fault, as the build has it.            *)
Arguments(name) == {i \in DOMAIN Stmt.args : Stmt.args[i].name = name}

stack_idx_not_inlined(i) == Len(Stmt.args) - (i - 1) + Len(Types)         \* (faulty)
stack_idx(i) == Len(Stmt.args) - (i - 1) + Len(Types) - (IF Stmt.inlin THEN 1 ELSE 0)

compile_argument_push(name) ==
    IF Arguments(name) = {} THEN Reject
    ELSE LET i == CHOOSE j \in Arguments(name) : \A k \in Arguments(name) : j <= k
             load == [op |-> "loadarg", slot |-> stack_idx(i), arg |-> i, kind |-> Stmt.args[i].kind,
                      nargs |-> Len(Stmt.args)]
         IN \E read \in ArgReads :
               IF read = "fault" THEN Crash
               ELSE Continue(<<At(load, Types)>>,
                             Append(Types, IF read = "declared" THEN Stmt.args[i].kind
                                                                ELSE "poisoned"))

PushOf(kind, value) == [op |-> "push", kind |-> kind, value |-> value]
LoadVar(name) == [op |-> "loadvar", name |-> name, kind |-> prog.vars[name].kind]

(* A name on its own.  The kind of a variable is read from const_map[-1], its *)
(* zeroed default element.                                                    *)
CompileLiteral ==
    /\ Compiling({"LITERAL"})
    /\ LET name == Node.name
           value == Find(values_map, name)
       IN IF name \in DOMAIN prog.consts
          THEN LET c == prog.consts[name]
               IN Continue(<<At(PushOf(c.kind, Wrap(c.value)), Types)>>, Append(Types, c.kind))
          ELSE IF name \in DOMAIN prog.vars
          THEN Continue(<<At(LoadVar(name), Types)>>, Append(Types, "poisoned"))
          ELSE IF value # NULL
          THEN IF astid(value).kind = "EXTERN" THEN Crash
               ELSE Continue(<<At(PushOf("funcptr", value), Types)>>, Append(Types, "funcptr"))
          ELSE compile_argument_push(name)

(* compile_inline, up to the block it compiles: the context of the callee's   *)
(* own sort is saved and reset, whichever context is current.                 *)
compile_inline(id, ts) ==
    LET d == astid(id)
        isProc == d.kind = "PROC"
        own == IF isProc THEN proc_ctx ELSE func_ctx
        saved == IF isProc = InProc THEN [own EXCEPT !.types = ts] ELSE own
        under == Current.under \o ts \o ArgKinds(d.args)
    IN IF ~Fits \/ d.body < 0 THEN Crash
       ELSE /\ work' = Append(work,
                 [block |-> "inline", of |-> Current.of, node |-> id, cur |-> d.body,
                  label |-> 0, entry |-> <<>>, saved |-> saved, under |-> under, marks |-> Append(Current.marks, Len(under))])
            /\ IF isProc
               THEN /\ proc_ctx' = [own EXCEPT !.stmt = id, !.types = <<>>]
                    /\ func_ctx' = IF InProc THEN func_ctx ELSE [func_ctx EXCEPT !.types = ts]
               ELSE /\ func_ctx' = [own EXCEPT !.stmt = id, !.types = <<>>]
                    /\ proc_ctx' = IF InProc THEN [proc_ctx EXCEPT !.types = ts] ELSE proc_ctx
            /\ Emit(<<View([op |-> "enter"], Current.of, under, Current.marks)>>)
            /\ quirks' = quirks \union {q \in {"inline_ctx"} : InProc /\ ~isProc}
            /\ UNCHANGED <<prog, phase, maps, labels>>

(* pre_ffi_call reads the name of a register for each argument of an extern.  *)
compile_function_call(id) ==
    LET d == astid(id)
        n == Len(d.args)
        ts == Drop(Types, n)
    IN IF Len(Types) < n \/ \E i \in 1 .. n : TopN(Types, n)[i] # d.args[i].kind THEN Reject
       ELSE IF d.kind = "EXTERN" /\ n > REGISTERS THEN Stop("corrupt")
       ELSE IF d.kind # "EXTERN" /\ d.inlin THEN compile_inline(id, ts)
       ELSE LET after == ts \o Reversed(d.rets)
                call == IF d.kind = "EXTERN"
                        THEN [op |-> "ffi", args |-> ArgKinds(d.args),
                              rets |-> IF d.proto = "EXTERN_FUNC" THEN <<d.rets[1]>> ELSE <<>>]
                        ELSE CallOf(d)
            IN IF Overflow(ts, after) # "none" THEN Stop(Overflow(ts, after))
               ELSE /\ Emit(<<At(call, Types)>>) /\ SetTypes(after)
                    /\ work' = Advanced(work)
                    /\ values_map' = Put(values_map, Node.name, id)
                    /\ quirks' = quirks \union
                           {q \in {"extern_rets"} : d.kind = "EXTERN" /\ Len(d.rets) > 1}
                    /\ UNCHANGED <<prog, phase, cursor, externs_map, labels>>

(* name! : a routine, an extern, a variable or an argument, in this order; an *)
(* argument is pushed, never called.                                          *)
CompileCall ==
    /\ Compiling({"CALL"})
    /\ LET name == Node.name
       IN IF Find(values_map, name) # NULL
          THEN compile_function_call(Find(values_map, name))
          ELSE IF Find(externs_map, name) # NULL
          THEN compile_function_call(Find(externs_map, name))
          ELSE IF name \in DOMAIN prog.vars
          THEN Continue(<<At(LoadVar(name), Types)>>, Append(Types, prog.vars[name].kind))
          ELSE compile_argument_push(name)

(* compile_inline after its block, then the rest of compile_function_call.    *)
EndInline ==
    /\ Returning("inline")
    /\ LET d == astid(Current.node)
           isProc == d.kind = "PROC"
           proc == IF isProc THEN Current.saved ELSE proc_ctx
           func == IF isProc THEN func_ctx ELSE Current.saved
           old == IF proc.stmt # NULL THEN proc.types ELSE func.types
           new == old \o Reversed(d.rets)
       IN IF Overflow(old, new) # "none" THEN Stop(Overflow(old, new))
          ELSE /\ Emit(<<At([op |-> "leave", nargs |-> Len(d.args), rets |-> Reversed(d.rets)], Types)>>)
               /\ proc_ctx' = IF proc.stmt # NULL THEN [proc EXCEPT !.types = new] ELSE proc
               /\ func_ctx' = IF proc.stmt # NULL THEN func ELSE [func EXCEPT !.types = new]
               /\ values_map' = Put(values_map, d.name, Current.node)
               /\ work' = Advanced(Drop(work, 1))
               /\ quirks' = quirks \union {q \in {"inline_rets"} : ~Returns(Types, d.rets)}
               /\ UNCHANGED <<prog, phase, cursor, externs_map, labels>>

-----------------------------------------------------------------------------
(* Operations on the stack.                                                   *)

TwoIntegers == Len(Types) >= 2 /\ \A i \in 0 .. 1 : Types[Len(Types) - i] = "int"
TwoOf(kinds) == Len(Types) >= 2 /\ \A i \in 0 .. 1 : Types[Len(Types) - i] \in kinds
Require(checked, instr, ts) == IF checked THEN Continue(<<At(instr, Types)>>, ts) ELSE Reject

(* The value of a str is where its text lies among the texts of the program.  *)
(* The compiler has it in its own memory, and out.asm in the data section,    *)
(* which is where a literal points.                                           *)
Operand(ast) == IF ast.of = "str" THEN Wrap(DATA + ast.value) ELSE ast.value
CompilePush ==
    /\ Compiling({"PUSH"})
    /\ Continue(<<At(PushOf(Node.of, Operand(Node)), Types)>>, Append(Types, Node.of))

CompileArith ==
    /\ Compiling({"BOR", "MINUS", "DIV", "MOD", "MUL"} \union OrderOps)
    /\ Require(TwoIntegers, [op |-> "binary", f |-> Node.kind], Append(Drop(Types, 2), "int"))

CompileEqual ==
    /\ Compiling({"EQUAL"})
    /\ Require(TwoOf({"int", "byte"}), [op |-> "binary", f |-> "EQUAL"],
               Append(Drop(Types, 2), "int"))

(* Two integers are added; else, unless the top is a byte (TODO), their sum is *)
(* taken for an address and the byte there is loaded.                         *)
CompilePlus ==
    /\ Compiling({"PLUS"})
    /\ IF ~TwoOf({"int", "byte", "str"}) THEN Reject
       ELSE IF TwoIntegers
       THEN Continue(<<At([op |-> "binary", f |-> "PLUS"], Types)>>, Popped)
       ELSE IF Top(Types) = "byte" THEN Crash
       ELSE Continue(<<At([op |-> "index"], Types)>>, Append(Drop(Types, 2), "byte"))

CompileBnot ==
    /\ Compiling({"BNOT"})
    /\ Require(Types # <<>> /\ Top(Types) \in {"int", "byte"}, [op |-> "not"], Types)

CompileDrop ==
    /\ Compiling({"DROP"})
    /\ Require(Types # <<>>, [op |-> "drop"], Popped)

CompileDup ==
    /\ Compiling({"DUP"})
    /\ IF Types = <<>> THEN Reject
       ELSE Continue(<<At([op |-> "dup"], Types)>>, Append(Types, Top(Types)))

CompileDot ==
    /\ Compiling({"DOT"})
    /\ IF Types = <<>> THEN Reject
       ELSE IF Top(Types) = "poisoned" THEN Crash
       ELSE Continue(<<At([op |-> "dot", kind |-> Top(Types)], Types)>>, Types)

CompileWrite ==
    /\ Compiling({"WRITE"})
    /\ IF \/ Types = <<>>
          \/ Node.name \notin DOMAIN prog.vars
          \/ Top(Types) # prog.vars[Node.name].kind
       THEN Reject
       ELSE Continue(<<At([op |-> "store", name |-> Node.name], Types)>>, Popped)

(* The number and the arguments are popped by the code, and not from the types. *)
CompileSyscall ==
    /\ Compiling({"SYSCALL"})
    /\ IF Len(Types) < Node.args + 1 THEN Reject
       ELSE /\ Emit(<<At([op |-> "syscall", pops |-> Node.args + 1], Types)>>)
            /\ work' = Advanced(work)
            /\ quirks' = quirks \union {"syscall"}
            /\ UNCHANGED <<prog, phase, maps, ctx, labels>>

(* case AST_VAR .. AST_PROC: break; the poisoned AST is UNREACHABLE.          *)
CompileNothing ==
    /\ Compiling(Declarations \union {"POISONED"})
    /\ IF Node.kind = "POISONED" THEN Crash ELSE Continue(<<>>, Types)

-----------------------------------------------------------------------------
(* Branches.  Both blocks of an IF are compiled on one type stack, the second *)
(* from where the first left it.                                              *)

Label(l, n) == [op |-> "label", l |-> l, n |-> n]
Jump(op, l, n) == [op |-> op, l |-> l, n |-> n]

LabelInUse(counter) == counter                             \* (faulty)
Increment(counter) == counter + 1

CompileIf ==
    /\ Compiling({"IF"})
    /\ LET ts == Popped
           jz == At(Jump("jz", "else", label_counter), Types)
       IN IF Types = <<>> \/ Top(Types) # "int" THEN Reject
          ELSE IF Node.then < 0 /\ Node.else < 0
          THEN Continue(<<At([op |-> "drop"], Types)>>, ts)
          ELSE IF ~Fits THEN Crash
          ELSE /\ label_counter' = Increment(label_counter)
               /\ SetTypes(ts)
               /\ IF Node.then >= 0
                  THEN /\ Emit(<<jz>>)
                       /\ work' = Append(work, Block("then", Node.then, label_counter, ts))
                  ELSE /\ Emit(<<jz, At(Label("else", label_counter), ts)>>)
                       /\ work' = Append(work, Block("else", Node.else, label_counter, ts))
               /\ UNCHANGED <<prog, phase, maps, while_label_counter, quirks>>

Unbalanced(q) == {x \in {q} : Types # Current.entry}

EndThen ==
    /\ Returning("then")
    /\ LET n == Current.label
           outer == Drop(work, 1)
           else == astid(Top(outer).cur).else
           split == <<At(Jump("jmp", "edon", n), Types), At(Label("else", n), Types)>>
       IN IF else >= 0
          THEN /\ Emit(split)
               /\ work' = Append(outer, Block("else", else, n, Current.entry))
          ELSE /\ Emit(Append(split, At(Label("edon", n), Types)))
               /\ work' = Advanced(outer)
    /\ quirks' = quirks \union Unbalanced("branch")
    /\ UNCHANGED <<prog, phase, maps, ctx, labels>>

EndElse ==
    /\ Returning("else")
    /\ Emit(<<At(Label("edon", Current.label), Types)>>)
    /\ work' = Advanced(Drop(work, 1))
    /\ quirks' = quirks \union Unbalanced("branch")
    /\ UNCHANGED <<prog, phase, maps, ctx, labels>>

(* A loop; without a condition it has no way out.                             *)
CompileWhile ==
    /\ Compiling({"WHILE"})
    /\ LET n == while_label_counter
       IN IF ~Fits THEN Crash
          ELSE /\ while_label_counter' = Increment(n)
               /\ Emit(<<At(Label("while", n), Types)>>)
               /\ work' = Append(work,
                     IF Node.cond >= 0 THEN Block("cond", Node.cond, n, Types)
                                       ELSE Block("body", Node.body, n, Types))
               /\ UNCHANGED <<prog, phase, maps, ctx, label_counter, quirks>>

EndCond ==
    /\ Returning("cond")
    /\ LET n == Current.label
           ts == Popped
           outer == Drop(work, 1)
       IN IF Types = <<>> \/ Top(Types) # "int" THEN Reject
          ELSE /\ Emit(<<At(Jump("jz", "wdon", n), Types)>>)
               /\ SetTypes(ts)
               /\ work' = Append(outer, Block("body", astid(Top(outer).cur).body, n, Current.entry))
               /\ quirks' = quirks \union {q \in {"loop"} : ts # Current.entry}
               /\ UNCHANGED <<prog, phase, maps, labels>>

(* The size of the stack is compared with the one at the start only when both *)
(* contexts have called a function pointer; no code ever sets called_funcptr. *)
SizeChecked == ~( \/ proc_ctx.stmt = NULL \/ ~proc_ctx.called_funcptr
                  \/ func_ctx.stmt = NULL \/ ~func_ctx.called_funcptr )

EndBody ==
    /\ Returning("body")
    /\ IF Len(Types) # Len(Current.entry) /\ SizeChecked THEN Reject
       ELSE /\ Emit(<<At(Jump("jmp", "while", Current.label), Types),
                      At(Label("wdon", Current.label), Types)>>)
            /\ work' = Advanced(Drop(work, 1))
            /\ quirks' = quirks \union Unbalanced("loop")
            /\ UNCHANGED <<prog, phase, maps, ctx, labels>>

-----------------------------------------------------------------------------
CodegenInit ==
    /\ prog \in Programs
    /\ phase = "fill" /\ cursor = 0
    /\ values_map = <<>> /\ externs_map = <<>>
    /\ proc_ctx = NoCtx /\ func_ctx = NoCtx
    /\ work = <<>>
    /\ label_counter = 0 /\ while_label_counter = 0
    /\ code = <<>> /\ quirks = {}

Compile ==
    \/ FillMaps \/ CompileMain \/ CompileRoutine \/ EndRoutine \/ CompileDone
    \/ CompilePush \/ CompileLiteral \/ CompileCall \/ EndInline
    \/ CompileArith \/ CompileEqual \/ CompilePlus \/ CompileBnot
    \/ CompileDrop \/ CompileDup \/ CompileDot
    \/ CompileWrite \/ CompileSyscall \/ CompileNothing
    \/ CompileIf \/ EndThen \/ EndElse
    \/ CompileWhile \/ EndCond \/ EndBody
=============================================================================
