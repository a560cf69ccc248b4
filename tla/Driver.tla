-------------------------------- MODULE Driver --------------------------------
(* main.c between the parser and the compiler: main is looked for along the   *)
(* top level (ast.c), then the body of every CONST and VAR is simulated on a  *)
(* stack of values (consteval.c), and its last value goes into a map.         *)
EXTENDS Lang, TLC

CONSTANTS
    Files,            \* [asts, compiled, prog]: the ASTs of a text, whether it is a program
                      \* the other runs compile, and what the compiler is then given
    Orders,           \* see `order`
    SIMULATION_STACK_CAP         \* CONSTEVAL_SIMULATION_STACK_CAP

(* What the parser hands over (ChainsGoForward of Parser): a list of ASTs     *)
(* whose links lead forward, at most to the slot behind the last one.         *)
Leads(link, i, asts) == link = -1 \/ link \in i .. Len(asts)
LinksForward(asts) ==
    /\ IsSeq(asts)
    /\ \A i \in DOMAIN asts :
          /\ Leads(asts[i].next, i, asts)
          /\ asts[i].kind \in {"CONST", "VAR"} => Leads(asts[i].body, i, asts)
ASSUME DriverAssumption ==
    /\ Orders \subseteq {"index", "call"} /\ SIMULATION_STACK_CAP \in Nat \ {0}
    /\ \A f \in Files : LinksForward(f.asts)

VARIABLES
    file,
    order,            \* stack[stack_size - 1].value = last_two_binop(..): what the build
                      \* evaluates first, the index or the call that changes stack_size
    stage,
    ast,              \* the AST the current loop has reached
    outer,            \* in a body: the CONST or VAR it belongs to
    stack,
    const_map, var_map, main_function

maps == <<const_map, var_map>>
driverVars == <<file, order, stage, ast, outer, stack, maps, main_function>>

NULL == -1
ASTS_SIZE == Len(file.asts)
astid(i) == IF i \in 0 .. ASTS_SIZE - 1 THEN file.asts[i + 1]
            ELSE [kind |-> "POISONED", next |-> 0]     \* memory that is still zero
Node == astid(ast)
Halted == {"nothing", "done", "rejected", "crashed", "corrupt"}
Stop(how) == stage' = how /\ UNCHANGED <<file, order, ast, outer, stack, maps, main_function>>

-----------------------------------------------------------------------------
(* check_for_main_function.                                                   *)

Declarations == {"FUNC", "PROC", "EXTERN", "VAR", "CONST"}
IsMain == Node.kind = "FUNC" /\ Node.name = "main"
RightSignature == Node.rets[1] = "int" /\ Node.args = <<>>

(* What follows main is not looked at; a text without ASTs is left alone.     *)
NoAsts == stage = "main" /\ ASTS_SIZE = 0 /\ Stop("nothing")
FindMain ==
    /\ stage = "main" /\ ASTS_SIZE > 0
    /\ IF IsMain /\ RightSignature
       THEN /\ main_function' = ast /\ stage' = "walk" /\ ast' = 0
            /\ UNCHANGED <<file, order, outer, stack, maps>>
       ELSE IF IsMain \/ Node.kind \notin Declarations \/ Node.next < 0 THEN Stop("rejected")
       ELSE /\ ast' = Node.next
            /\ UNCHANGED <<file, order, stage, outer, stack, maps, main_function>>

-----------------------------------------------------------------------------
(* consteval_step: along the top level, to the first slot that is still zero. *)

SameDeclaration(from) == from             \* (faulty)
NextDeclaration(from) == astid(from).next
Walking == stage = "walk" /\ Node.next # 0 /\ Node.next <= ASTS_SIZE
Walk ==
    /\ Walking /\ Node.kind \notin {"CONST", "VAR"}
    /\ ast' = NextDeclaration(ast)
    /\ UNCHANGED <<file, order, stage, outer, stack, maps, main_function>>
Evaluate ==
    /\ Walking /\ Node.kind \in {"CONST", "VAR"}
    /\ stage' = "eval" /\ outer' = ast /\ ast' = Node.body /\ stack' = <<>>
    /\ UNCHANGED <<file, order, maps, main_function>>
HandOver ==
    /\ stage = "walk" /\ ~Walking
    /\ Stop("done")

-----------------------------------------------------------------------------
(* last_two_binop: b below a, both signed; the result is 64 bits wide.        *)

Quotient(b, a) == LET q == (IF b < 0 THEN -b ELSE b) \div (IF a < 0 THEN -a ELSE a)
                  IN IF (b < 0) = (a < 0) THEN q ELSE -q
Rest(b, a) == b - a * Quotient(b, a)
last_two_binop(op, x, y) ==
    LET b == Signed(x)  a == Signed(y)
    IN CASE op = "PLUS" -> Wrap(a + b)
         [] op = "BOR" -> BitOr(x, y)
         [] op = "MINUS" -> 0                                  \* b - b
         [] op = "DIV" -> Wrap(Quotient(b, a))
         [] op = "MUL" -> Wrap(a * b)
         [] op = "MOD" -> Wrap(Rest(b, a))
         [] op = "GREATER" -> Truth(b > a)
         [] op = "GREATER_EQUAL" -> Truth(b >= a)
         [] op = "LESS" -> Truth(b < a)
         [] op = "LESS_EQUAL" -> Truth(b <= a)
         [] op = "EQUAL" -> Truth(b = a)
SignalsIn(op, x, y) == op \in {"DIV", "MOD"} /\
                       (y = 0 \/ (Signed(x) = -(2^(Width - 1)) /\ Signed(y) = -1))

(* simulate_ast, as [how, stack]: how it ends, and the stack it leaves.  An   *)
(* operator whose index is evaluated first writes its result above the top.   *)
On(s) == [how |-> "eval", stack |-> s]
Fails(how) == [how |-> how, stack |-> <<>>]
Pushed(s, v) == IF Len(s) < SIMULATION_STACK_CAP THEN On(Append(s, v)) ELSE Fails("corrupt")
UncheckedDup(s) == IF s = <<>> THEN Fails("corrupt") ELSE Pushed(s, Top(s))      \* (faulty)
Dup(s) == IF s = <<>> THEN Fails("rejected") ELSE Pushed(s, Top(s))
Operate(op, s) ==
    LET below == Drop(s, 1)
    IN IF Len(s) < 2 THEN Fails("rejected")
       ELSE IF SignalsIn(op, Top(below).value, Top(s).value) THEN Fails("crashed")
       ELSE On(IF order = "index" THEN below
               ELSE [below EXCEPT ![Len(below)].value =
                        last_two_binop(op, Top(below).value, Top(s).value)])
Known(name) == name \in DOMAIN const_map
Simulate(n, s) ==
    CASE n.kind = "PUSH" ->
            Pushed(s, [kind |-> n.of, value |-> Wrap(n.value), id |-> NULL])
      [] n.kind = "LITERAL" ->
            IF Known(n.name) THEN Pushed(s, const_map[n.name]) ELSE Fails("rejected")
      [] n.kind = "DUP" -> Dup(s)
      [] n.kind = "DROP" ->                                    \* stack_size wraps
            IF s = <<>> THEN Fails("corrupt") ELSE On(Drop(s, 1))
      [] n.kind = "BNOT" ->                                    \* falls through to AST_PUSH
            IF s = <<>> THEN Fails("rejected") ELSE Fails("crashed")
      [] n.kind \in BinaryOps -> Operate(n.kind, s)
      [] n.kind = "POISONED" -> Fails("crashed")
      [] OTHER -> Fails("rejected")

(* consteval_eval simulates the last AST of a body twice.                     *)
Simulated(s) ==
    LET once == Simulate(Node, s)
    IN IF once.how = "eval" /\ Node.next < 0 THEN Simulate(Node, once.stack) ELSE once

Unowned(s) == Top(s)                      \* (faulty)
FirstValue(s) == [s[1] EXCEPT !.id = outer]                \* (faulty)
Constant(s) == [Top(s) EXCEPT !.id = outer]
KeepsTheFirst(map, name, value) ==        \* (faulty)
    [x \in DOMAIN map \union {name} |-> IF x \in DOMAIN map THEN map[x] ELSE value]
MapTo(map, name, value) == [x \in DOMAIN map \union {name} |-> IF x = name THEN value ELSE map[x]]
EvalStep ==
    /\ stage = "eval"
    /\ LET now == Simulated(stack)
           last == Node.next < 0
           owner == astid(outer)
       IN IF now.how # "eval" THEN Stop(now.how)
          ELSE IF last /\ now.stack = <<>> THEN Stop("rejected")
          ELSE IF ~last
          THEN /\ stack' = now.stack /\ ast' = Node.next
               /\ UNCHANGED <<file, order, stage, outer, maps, main_function>>
          ELSE /\ stack' = now.stack /\ stage' = "walk" /\ ast' = NextDeclaration(outer)
               /\ const_map' = IF owner.kind = "CONST"
                               THEN MapTo(const_map, owner.name, Constant(now.stack)) ELSE const_map
               /\ var_map' = IF owner.kind = "VAR"
                             THEN MapTo(var_map, owner.name, Constant(now.stack)) ELSE var_map
               /\ UNCHANGED <<file, order, outer, main_function>>

DriverInit ==
    /\ file \in Files /\ order \in Orders
    /\ stage = "main" /\ ast = 0 /\ outer = NULL /\ stack = <<>>
    /\ const_map = <<>> /\ var_map = <<>> /\ main_function = NULL

Drives == NoAsts \/ FindMain \/ Walk \/ Evaluate \/ EvalStep \/ HandOver
Stopped == stage \in Halted /\ UNCHANGED driverVars
Next == Drives \/ Stopped
Spec == DriverInit /\ [][Next]_driverVars
FairSpec == Spec /\ WF_driverVars(Drives)

-----------------------------------------------------------------------------
(* Properties.                                                                *)

(* main.c: the compiler is given the main function of the text, its constants *)
(* and its variables, each with its value and the AST it was declared by.     *)
HandsOver ==
    (stage = "done" /\ file.compiled) =>
        /\ main_function = file.prog.main
        /\ const_map = file.prog.consts /\ var_map = file.prog.vars

(* The statements of the body that is evaluated.                              *)
BodyFrom(asts, id) ==
    LET from[i \in -1 .. Len(asts)] ==
            IF i \in 0 .. Len(asts) - 1 THEN <<asts[i + 1]>> \o from[asts[i + 1].next] ELSE <<>>
    IN from[id]
Body == BodyFrom(file.asts, astid(outer).body)

(* consteval_eval: although the last statement of a body is simulated twice,  *)
(* what is stored for a body that only pushes and duplicates is the value it  *)
(* would leave when run, the last one pushed.                                 *)
LastPushed(body) ==
    body[CHOOSE i \in DOMAIN body :
            body[i].kind # "DUP" /\ \A j \in i + 1 .. Len(body) : body[j].kind = "DUP"]
ValueOf(n) == IF n.kind = "PUSH" THEN Wrap(n.value) ELSE const_map[n.name].value
PushesOnly(body) == \A i \in DOMAIN body : body[i].kind \in {"PUSH", "LITERAL", "DUP"}
StoresWhatIsLeft ==
    (stage = "eval" /\ stage' = "walk" /\ PushesOnly(Body)) =>
        LET map == IF astid(outer).kind = "CONST" THEN const_map' ELSE var_map'
        IN map[astid(outer).name].value = ValueOf(LastPushed(Body))
PushedValuesAreExact == [][StoresWhatIsLeft]_driverVars

(* Whatever the text, the driver hands over the first main along the top      *)
(* level, and of each name that is declared there as a constant (a variable)  *)
(* one entry, by its last declaration: shput overwrites what an earlier       *)
(* declaration put, and none is missed or kept from elsewhere.                *)
TopLevel(asts) ==
    LET from[i \in -1 .. Len(asts)] ==
            IF i \in 0 .. Len(asts) - 1 THEN {i} \union from[asts[i + 1].next] ELSE {}
    IN from[0]
MainAt(i) == astid(i).kind = "FUNC" /\ astid(i).name = "main"
Declared(kind) == {i \in TopLevel(file.asts) : astid(i).kind = kind}
HoldsTheLast(map, kind) ==
    /\ DOMAIN map = {astid(i).name : i \in Declared(kind)}
    /\ \A i \in Declared(kind) :
          LET last == map[astid(i).name].id
          IN last \in Declared(kind) /\ astid(last).name = astid(i).name /\ i <= last
LastDeclarationsWin ==
    stage = "done" =>
        /\ main_function \in TopLevel(file.asts) /\ MainAt(main_function)
        /\ \A i \in TopLevel(file.asts) : MainAt(i) => main_function <= i
        /\ HoldsTheLast(const_map, "CONST") /\ HoldsTheLast(var_map, "VAR")

(* simulate_ast, "stack underflow bruv": whatever the body, the simulation    *)
(* stays within its stack unless the body drops a value or overfills it.      *)
OnlyDropsCorrupt ==
    stage = "corrupt" =>
        Len(Body) >= SIMULATION_STACK_CAP \/ \E i \in DOMAIN Body : Body[i].kind = "DROP"

(* The walk along the top level and the simulation of every body come to an   *)
(* end, whatever the text.                                                    *)
DriverStops == <>(stage \in Halted)
=============================================================================
