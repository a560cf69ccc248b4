------------------------------- MODULE Parser -------------------------------
(* parser.c: tokens become ASTs, numbered in the order in which they begin    *)
(* and chained by `next`, -1 after the last one of a block.                   *)
(*                                                                            *)
(* ast_token calls itself for what stands in a block; the calls under way are *)
(* `acts`, innermost last.  A step reads one token, or one declaration up to  *)
(* its DO.  A token that is a statement of its own carries its AST as `ast`.  *)
EXTENDS Integers, Sequences

CONSTANTS
    Sources,          \* sets of texts: [tokens, asts, written], whether each was written
                      \* as a program, and the ASTs it should become
    MaxRets           \* vec_size(ret_types) above which a FUNC is reported: 6

LinkFields == {"next", "then", "else", "cond", "body"}

(* The AST of a token that is a statement of its own has no links.            *)
ASSUME SourcesAssumption ==
    \A texts \in Sources : \A s \in texts :
        /\ Len(s.tokens) \in Nat
        /\ \A i \in 1 .. Len(s.tokens) :
              s.tokens[i].kind \in {"LITERAL", "SINGLE"} => DOMAIN s.tokens[i].ast \intersect LinkFields = {}

VARIABLES
    source,
    parse,            \* running, done, rejected, or past: a token is used that is not there
    token_idx,
    ASTS,             \* ASTS[id + 1] is the AST id; ASTS_SIZE is its length
    acts,
    if_count, else_count, cond_is_not_empty

counters == <<if_count, else_count, cond_is_not_empty>>
vars == <<source, parse, token_idx, ASTS, acts, counters>>

TypeWords == {"int", "str", "byte", "funcptr"}
Poisoned == [kind |-> "POISONED", next |-> 0]      \* a slot of ASTS not yet written

count == Len(source.tokens)
Tok(i) == IF i \in 0 .. count - 1 THEN source.tokens[i + 1] ELSE [kind |-> "past"]
Is(i, kinds) == Tok(i).kind \in kinds
IsType(i) == Is(i, {"LITERAL"}) /\ Tok(i).str \in TypeWords
IsName(i) == Is(i, {"LITERAL"}) /\ Tok(i).str \notin TypeWords

(* `next` and ASTS_SIZE are incremented by the same make_ast: they are equal. *)
next == Len(ASTS)
Allocated == Append(ASTS, Poisoned)
Linked(node, to) == [f \in DOMAIN node \union {"next"} |-> IF f = "next" THEN to ELSE node[f]]
LinkedToItself(node) == Linked(node, next)         \* (faulty)
make_ast(node) == Linked(node, next + 1)
last_ast(asts) == asts[Len(asts)]
Ending(asts) == [asts EXCEPT ![Len(asts)] = Linked(@, -1)]   \* last_ast.next = -1

-----------------------------------------------------------------------------
(* Signatures: pairs of a type and a name, to DO, or to END of an extern one. *)

Closer(extern) == IF extern THEN {"DO", "END"} ELSE {"DO"}
Least(S) == CHOOSE n \in S : \A m \in S : n <= m
Pairs(from, extern) ==
    Least({n \in 0 .. count : from + 2 * n >= count \/ Is(from + 2 * n, Closer(extern))})
SignatureOk(from, extern) ==
    LET n == Pairs(from, extern)
    IN /\ \A k \in 0 .. n - 1 : IsType(from + 2 * k) /\ IsName(from + 2 * k + 1)
       /\ ~(extern /\ Is(from + 2 * n, {"DO"}))
Args(from, extern) ==
    [k \in 1 .. Pairs(from, extern) |->
        [kind |-> Tok(from + 2 * k - 2).str, name |-> Tok(from + 2 * k - 1).str]]
Closing(from, extern) == from + 2 * Pairs(from, extern)

(* Result types after the first, at i: all but the last of a run of types,    *)
(* which is taken for the type of an argument.                                *)
MoreRets(i) ==
    Least({m \in 0 .. count : ~(i + m + 1 < count /\ IsType(i + m) /\ IsType(i + m + 1))})

(* What follows a routine's name at i: where its arguments start, its results. *)
ArgsFrom(keyword, i) == IF keyword = "PROC" THEN i + 1 ELSE i + 2 + MoreRets(i + 2)
Rets(keyword, i) ==
    IF keyword = "PROC" THEN <<>> ELSE [k \in 1 .. MoreRets(i + 2) + 1 |-> Tok(i + k).str]
RoutineOk(keyword, i, extern) ==
    /\ keyword = "FUNC" => IsType(i + 1)
    /\ SignatureOk(ArgsFrom(keyword, i), extern)

(* parse_func_signature compares the words of the token after the name and of *)
(* the second one after the results without a look at the number of tokens.   *)
Overreads(keyword, i) ==
    keyword = "FUNC" /\ (i + 1 >= count \/ (IsType(i + 1) /\ ArgsFrom(keyword, i) + 1 >= count))

-----------------------------------------------------------------------------
(* Blocks.                                                                    *)

Outermost == acts = <<>>
Top == acts[Len(acts)]
Outer == SubSeq(acts, 1, Len(acts) - 1)
Act(id, node, part, n) == [id |-> id, node |-> node, part |-> part, count |-> n]
Becomes(open, act) == [open EXCEPT ![Len(open)] = act]

(* The block of the innermost call begins with the AST about to be made.      *)
Beginning(part) == [Top.node EXCEPT ![part] = next]
Begun == IF Outermost \/ Top.count > 0 \/ Top.part = "else" THEN acts
         ELSE Becomes(acts, Act(Top.id, Beginning(Top.part), Top.part, 0))

(* The caller sees END after the statement it has been handed, and some       *)
(* callers then end the chain there and then.                                 *)
NeverCutShort(open, node, i) == FALSE        \* (faulty)
CutShort(open, node, i) ==
    /\ open # <<>> /\ Is(i, {"END"})
    /\ LET a == open[Len(open)]
       IN \/ a.node.kind \in {"VAR", "CONST"}
          \/ a.part = "body" /\ node.kind \in {"IF", "WHILE"}

(* ast_token returns `node`, whose last token is at i, to the calls in `open`.*)
Return(open, asts, id, node, i) ==
    /\ token_idx' = i + 1
    /\ ASTS' = [asts EXCEPT ![id + 1] = IF CutShort(open, node, i + 1) THEN Linked(node, -1) ELSE node]
    /\ acts' = IF open = <<>> THEN open
               ELSE LET a == open[Len(open)] IN Becomes(open, Act(a.id, a.node, a.part, a.count + 1))
    /\ UNCHANGED <<source, parse>>

(* ast_token goes on to read the block `part` of `node` from the token at i.  *)
Open(node, part, i) ==
    /\ token_idx' = i
    /\ ASTS' = Allocated
    /\ acts' = Append(Begun, Act(next, make_ast(node), part, 0))
    /\ UNCHANGED <<source, parse>>

Reading(kinds) == parse = "running" /\ token_idx < count /\ Is(token_idx, kinds)
In(kinds, parts) == ~Outermost /\ Top.node.kind \in kinds /\ Top.part \in parts

-----------------------------------------------------------------------------
(* ast_token.                                                                 *)

ParseStatement ==
    /\ Reading({"LITERAL", "SINGLE"})
    /\ Return(Begun, Allocated, next, make_ast(Tok(token_idx).ast), token_idx)
    /\ UNCHANGED counters

NamesData == Is(token_idx + 1, {"LITERAL"})
ParseData ==
    /\ Reading({"VAR", "CONST"}) /\ NamesData
    /\ Open([kind |-> Tok(token_idx).kind, name |-> Tok(token_idx + 1).str, body |-> -1],
            "body", token_idx + 2)
    /\ UNCHANGED counters

Inlined == Is(token_idx, {"INLINE"})
KeywordAt == IF Inlined THEN token_idx + 1 ELSE token_idx
RoutineKind == Tok(KeywordAt).kind
RoutineBegins == /\ Is(KeywordAt, {"PROC", "FUNC"}) /\ IsName(KeywordAt + 1)
                 /\ RoutineOk(RoutineKind, KeywordAt + 1, FALSE)
ParseRoutine ==
    /\ Reading({"INLINE", "PROC", "FUNC"}) /\ RoutineBegins
    /\ LET name == KeywordAt + 1
           args == ArgsFrom(RoutineKind, name)
       IN Open([kind |-> RoutineKind, name |-> Tok(name).str, rets |-> Rets(RoutineKind, name),
                args |-> Args(args, FALSE), inlin |-> Inlined, body |-> -1],
               "body", Closing(args, FALSE) + 1)
    /\ UNCHANGED counters

(* Without its END an extern is read to the last token; a procedure's name is *)
(* not looked at.                                                             *)
ExternKind == Tok(token_idx + 1).kind
Nameless == ExternKind = "PROC" /\ token_idx + 2 >= count
ExternBegins == /\ ExternKind \in {"PROC", "FUNC"} /\ token_idx + 2 < count
                /\ RoutineOk(ExternKind, token_idx + 2, TRUE)
ParseExtern ==
    /\ Reading({"EXTERN"}) /\ ExternBegins
    /\ LET name == token_idx + 2
           args == ArgsFrom(ExternKind, name)
           end == Closing(args, TRUE)
       IN Return(Begun, Allocated, next,
                 make_ast([kind |-> "EXTERN", proto |-> "EXTERN_" \o ExternKind,
                           name |-> Tok(name).str, rets |-> Rets(ExternKind, name),
                           args |-> Args(args, TRUE)]),
                 IF end < count THEN end ELSE count - 1)
    /\ UNCHANGED counters

(* A declaration is cut off by the end of the text: what is compared, or      *)
(* taken for a name, is not a token.  The test for the name (token_idx >      *)
(* count) lets its place be the one behind the last token.                    *)
PastTheEnd ==
    /\ \/ Reading({"VAR", "CONST"}) /\ token_idx + 1 >= count
       \/ /\ Reading({"INLINE", "PROC", "FUNC"}) /\ Is(KeywordAt, {"PROC", "FUNC"})
          /\ \/ KeywordAt + 1 >= count
             \/ IsName(KeywordAt + 1) /\ Overreads(RoutineKind, KeywordAt + 1)
       \/ /\ Reading({"EXTERN"}) /\ ExternKind \in {"PROC", "FUNC"}
          /\ Nameless \/ Overreads(ExternKind, token_idx + 2)
    /\ parse' = "past"
    /\ UNCHANGED <<source, token_idx, ASTS, acts, counters>>

ParseIf ==
    /\ Reading({"IF"})
    /\ if_count' = (IF Outermost THEN 0 ELSE if_count) + 1
    /\ else_count' = IF Outermost THEN 0 ELSE else_count
    /\ Open([kind |-> "IF", then |-> -1, else |-> -1], "then", token_idx + 1)
    /\ UNCHANGED cond_is_not_empty

CountedLate == if_count >= else_count      \* (faulty)
ElseAllowed == if_count >= else_count + 1
ParseElse ==
    /\ Reading({"ELSE"}) /\ In({"IF"}, {"then", "else"}) /\ ElseAllowed
    /\ else_count' = else_count + 1
    /\ token_idx' = token_idx + 1
    /\ ASTS' = IF Top.count > 0 THEN Ending(ASTS) ELSE ASTS
    /\ acts' = Becomes(acts, Act(Top.id, Beginning("else"), "else", Top.count))
    /\ UNCHANGED <<source, parse, if_count, cond_is_not_empty>>

ParseWhile ==
    /\ Reading({"WHILE"})
    /\ cond_is_not_empty' = (cond_is_not_empty /\ ~Outermost)
    /\ Open([kind |-> "WHILE", cond |-> -1, body |-> -1], "cond", token_idx + 1)
    /\ UNCHANGED <<if_count, else_count>>

ParseDo ==
    /\ Reading({"DO"}) /\ In({"WHILE"}, {"cond"})
    /\ cond_is_not_empty' = (cond_is_not_empty \/ Top.count > 0)
    /\ token_idx' = token_idx + 1
    /\ ASTS' = IF cond_is_not_empty' THEN Ending(ASTS) ELSE ASTS
    /\ acts' = Becomes(acts, Act(Top.id, Top.node, "body", 0))
    /\ UNCHANGED <<source, parse, if_count, else_count>>

(* The END of a block closes its call: the AST is linked to what follows it,  *)
(* and the last AST made, which stands last in the block, ends its chain.     *)
TooManyRets == Top.node.kind = "FUNC" /\ Len(Top.node.rets) > MaxRets
Follower ==
    IF Top.node.kind = "IF" /\ Is(token_idx + 1, {"END"}) THEN -1
    ELSE IF last_ast(ASTS).next > 0 THEN last_ast(ASTS).next ELSE next
Ended == IF Top.node.kind = "PROC" /\ Top.count = 0 THEN ASTS ELSE Ending(ASTS)
Closable == ~Outermost /\ Top.part # "cond"
ParseEnd ==
    /\ Reading({"END"}) /\ Closable /\ ~TooManyRets
    /\ Return(Outer, Ended, Top.id, Linked(Top.node, Follower), token_idx)
    /\ UNCHANGED counters

Misplaced ==
    \/ Reading({"VAR", "CONST"}) /\ ~NamesData
    \/ Reading({"INLINE", "PROC", "FUNC"}) /\ ~RoutineBegins
    \/ Reading({"EXTERN"}) /\ ~ExternBegins /\ ~Nameless
    \/ Reading({"ELSE"}) /\ ~(In({"IF"}, {"then", "else"}) /\ ElseAllowed)
    \/ Reading({"DO"}) /\ ~In({"WHILE"}, {"cond"})
    \/ Reading({"END"}) /\ ~(Closable /\ ~TooManyRets)
    \/ Reading({"INVALID"})                \* a lone `!`, an integer out of range
    \/ parse = "running" /\ token_idx >= count /\ ~Outermost
Report ==
    /\ Misplaced
    /\ parse' = "rejected"
    /\ UNCHANGED <<source, token_idx, ASTS, acts, counters>>

Finish ==
    /\ parse = "running" /\ token_idx >= count /\ Outermost
    /\ parse' = "done"
    /\ UNCHANGED <<source, token_idx, ASTS, acts, counters>>

ParserInit ==
    /\ \E texts \in Sources : source \in texts
    /\ parse = "running" /\ token_idx = 0 /\ ASTS = <<>> /\ acts = <<>>
    /\ if_count = 0 /\ else_count = 0 /\ cond_is_not_empty = FALSE

Parses == \/ ParseStatement \/ ParseData \/ ParseRoutine \/ ParseExtern \/ PastTheEnd
          \/ ParseIf \/ ParseElse \/ ParseWhile \/ ParseDo \/ ParseEnd \/ Report \/ Finish
Stopped == parse # "running" /\ UNCHANGED vars
Next == Parses \/ Stopped
Spec == ParserInit /\ [][Next]_vars
FairSpec == Spec /\ WF_vars(Parses)
-----------------------------------------------------------------------------
(* Properties.                                                                *)

(* parser.c as a whole: the ASTs of a program are those its text describes,   *)
(* whatever nests in what: the block each field points to begins there, and   *)
(* chains end or run on exactly where the reference layout says.              *)
ParsesAsWritten == (parse = "done" /\ source.written) => ASTS = source.asts

(* The reports of ast_token and of the signatures: a text is refused if and   *)
(* only if it is no program, and of the programs only those that end in an    *)
(* extern function without arguments are read past their last token.          *)
EndsInExtern(asts) ==
    last_ast(asts).kind = "EXTERN" /\ last_ast(asts).proto = "EXTERN_FUNC" /\ last_ast(asts).args = <<>>
AcceptsThePrograms ==
    /\ parse = "done" => source.written
    /\ parse = "rejected" => ~source.written
    /\ parse = "past" => ~source.written \/ EndsInExtern(source.asts)

(* compile_block, consteval_eval, fill_maps: following `next` and the fields  *)
(* of ASTs only ever goes forward, and at most one past the last AST, so      *)
(* every walk along a chain ends.                                             *)
Links(node) == {node[f] : f \in LinkFields \intersect DOMAIN node}
ChainsGoForward ==
    parse = "done" => \A i \in DOMAIN ASTS :
        \A l \in Links(ASTS[i]) : l = -1 \/ l \in i .. Len(ASTS)
=============================================================================
