----------------------------- MODULE FrontProof -----------------------------
(* From text to tokens to ASTs.  For every text, whether it is a program or   *)
(* not, and for every set of files: the locations of tokens name their words, *)
(* lines of few words keep the lexer within its buffers, and the links of the *)
(* ASTs the parser makes only go forward, at most one past the last AST.      *)
EXTENDS Parser, Lexer, SequenceTheorems, FiniteSetTheorems, WellFoundedInduction, TLAPS

-----------------------------------------------------------------------------
(* Sequences of whatever elements.                                            *)

IsSeq(s) == s \in Seq({s[i] : i \in DOMAIN s})

LEMMA SeqIsSeq ==
    ASSUME NEW S, NEW s \in Seq(S) PROVE IsSeq(s)
<1>1. s \in [1 .. Len(s) -> S] /\ Len(s) \in Nat
  OBVIOUS
<1>2. s \in [1 .. Len(s) -> {s[i] : i \in DOMAIN s}]
  BY <1>1
<1>. QED
  BY <1>1, <1>2 DEF IsSeq

LEMMA IsSeqProperties ==
    ASSUME NEW s, IsSeq(s) PROVE Len(s) \in Nat /\ DOMAIN s = 1 .. Len(s)
BY DEF IsSeq

LEMMA InASet ==
    ASSUME NEW s, IsSeq(s), NEW e
    PROVE  s \in Seq({s[i] : i \in DOMAIN s} \union {e})
<1>1. s \in [1 .. Len(s) -> {s[i] : i \in DOMAIN s} \union {e}] /\ Len(s) \in Nat
  BY IsSeqProperties DEF IsSeq
<1>. QED
  BY <1>1

LEMMA Appended ==
    ASSUME NEW s, IsSeq(s), NEW e
    PROVE  /\ IsSeq(Append(s, e)) /\ Len(Append(s, e)) = Len(s) + 1
           /\ Append(s, e)[Len(s) + 1] = e
           /\ \A i \in 1 .. Len(s) : Append(s, e)[i] = s[i]
<1>. DEFINE S == {s[i] : i \in DOMAIN s} \union {e}
<1>1. s \in Seq(S) /\ e \in S
  BY InASet
<1>. HIDE DEF S
<1>2. Append(s, e) \in Seq(S)
  BY <1>1
<1>3. /\ Len(Append(s, e)) = Len(s) + 1 /\ Append(s, e)[Len(s) + 1] = e
      /\ \A i \in 1 .. Len(s) : Append(s, e)[i] = s[i]
  BY <1>1
<1>. QED
  BY <1>2, <1>3, SeqIsSeq

Put(s, i, e) == [s EXCEPT ![i] = e]
LEMMA Replaced ==
    ASSUME NEW s, IsSeq(s), NEW i \in 1 .. Len(s), NEW e
    PROVE  /\ IsSeq(Put(s, i, e)) /\ Len(Put(s, i, e)) = Len(s)
           /\ Put(s, i, e)[i] = e
           /\ \A j \in 1 .. Len(s) : j # i => Put(s, i, e)[j] = s[j]
<1>. DEFINE S == {s[k] : k \in DOMAIN s} \union {e}
<1>1. s \in Seq(S) /\ e \in S
  BY InASet
<1>. HIDE DEF S
<1>2. Put(s, i, e) \in Seq(S) /\ Len(Put(s, i, e)) = Len(s)
  BY <1>1 DEF Put
<1>3. Put(s, i, e)[i] = e /\ \A j \in 1 .. Len(s) : j # i => Put(s, i, e)[j] = s[j]
  BY <1>1 DEF Put
<1>. QED
  BY <1>2, <1>3, SeqIsSeq

LEMMA NotEmpty ==
    ASSUME NEW s, IsSeq(s), s # <<>>
    PROVE  Len(s) \in Nat /\ Len(s) >= 1 /\ Len(s) \in 1 .. Len(s)
<1>1. Len(s) \in Nat /\ Len(s) # 0
  BY EmptySeq DEF IsSeq
<1>. QED
  BY <1>1

LEMMA Shortened ==
    ASSUME NEW s, IsSeq(s), s # <<>>
    PROVE  /\ IsSeq(SubSeq(s, 1, Len(s) - 1)) /\ Len(SubSeq(s, 1, Len(s) - 1)) = Len(s) - 1
           /\ \A i \in 1 .. Len(s) - 1 : SubSeq(s, 1, Len(s) - 1)[i] = s[i]
<1>. DEFINE S == {s[i] : i \in DOMAIN s}
            last == Len(s) - 1
<1>1. s \in Seq(S)
  BY DEF IsSeq
<1>. HIDE DEF S
<1>2. last \in Nat /\ \A i \in 1 .. last : s[i] \in S
  BY <1>1, NotEmpty, ElementOfSeq
<1>3. /\ SubSeq(s, 1, last) \in Seq(S)
      /\ Len(SubSeq(s, 1, last)) = IF 1 <= last THEN last - 1 + 1 ELSE 0
      /\ \A i \in 1 .. last - 1 + 1 : SubSeq(s, 1, last)[i] = s[1 + i - 1]
  <2>. HIDE DEF last
  <2>. QED
    BY <1>2, SubSeqProperties
<1>4. IsSeq(SubSeq(s, 1, last))
  BY <1>3, SeqIsSeq
<1>. HIDE DEF last
<1>5. Len(SubSeq(s, 1, last)) = last /\ \A i \in 1 .. last : SubSeq(s, 1, last)[i] = s[i]
  BY <1>2, <1>3
<1>. QED
  BY <1>4, <1>5 DEF last

-----------------------------------------------------------------------------
(* The invariant.  A slot of ASTS holds an AST whose links go forward, or is  *)
(* still to be written by a call under way, which holds such an AST.          *)

Fields(node) == DOMAIN node \intersect LinkFields
Forward(node, i, n) ==
    "next" \in DOMAIN node /\ \A f \in Fields(node) : node[f] = -1 \/ node[f] \in i .. n
Unwritten(node) == DOMAIN node = {"kind", "next"} /\ node.next \in {0, -1}

ActOk(act, n) == act.id \in 0 .. n - 1 /\ Forward(act.node, act.id + 1, n)
ActsOk(open, n) == IsSeq(open) /\ \A k \in 1 .. Len(open) : ActOk(open[k], n)
SlotOk(asts, open, i) ==
    \/ Forward(asts[i], i, Len(asts))
    \/ Unwritten(asts[i]) /\ \E k \in 1 .. Len(open) : open[k].id = i - 1
Chained(asts, open) ==
    /\ IsSeq(asts) /\ ActsOk(open, Len(asts))
    /\ \A i \in 1 .. Len(asts) : SlotOk(asts, open, i)

InvOfParser ==
    /\ \E texts \in Sources : source \in texts
    /\ Chained(ASTS, acts)
    /\ parse = "done" => acts = <<>>

LEMMA ForwardLonger ==
    ASSUME NEW node, NEW i \in Nat, NEW n \in Nat, NEW m \in Nat, n <= m, Forward(node, i, n)
    PROVE  Forward(node, i, m)
BY DEF Forward

LEMMA ForwardSet ==
    ASSUME NEW node, NEW i \in Nat, NEW n \in Nat, Forward(node, i, n), NEW f,
           NEW v \in Int, v = -1 \/ v \in i .. n
    PROVE  Forward([node EXCEPT ![f] = v], i, n)
BY DEF Forward, Fields

LEMMA ForwardLinked ==
    ASSUME NEW node, NEW i \in Nat, NEW n \in Nat, Forward(node, i, n),
           NEW v \in Int, v = -1 \/ v \in i .. n
    PROVE  Forward(Linked(node, v), i, n)
BY DEF Forward, Fields, Linked

(* make_ast of a node whose other links are not set.                          *)
Unlinked(node) == \A f \in Fields(node) : node[f] = -1
LEMMA ForwardMade ==
    ASSUME NEW node, Unlinked(node), NEW i \in Nat, NEW n \in Nat, next + 1 \in i .. n
    PROVE  Forward(make_ast(node), i, n)
BY DEF Forward, Fields, make_ast, Linked, Unlinked

(* A call that counts a statement, or goes on to another part.                *)
LEMMA BecomesProperties ==
    ASSUME NEW open, IsSeq(open), open # <<>>, NEW act
    PROVE  LET bs == Becomes(open, act)
           IN /\ IsSeq(bs) /\ Len(bs) = Len(open) /\ bs[Len(open)] = act
              /\ \A j \in 1 .. Len(open) : j # Len(open) => bs[j] = open[j]
<1>. DEFINE last == Len(open)
<1>1. last \in 1 .. Len(open) /\ Becomes(open, act) = Put(open, last, act)
  BY NotEmpty DEF Becomes, Put
<1>. HIDE DEF last
<1>2. LET bs == Put(open, last, act)
      IN /\ IsSeq(bs) /\ Len(bs) = Len(open) /\ bs[last] = act
         /\ \A j \in 1 .. Len(open) : j # last => bs[j] = open[j]
  BY <1>1, Replaced
<1>. QED
  BY <1>1, <1>2 DEF last

LEMMA ActsKept ==
    ASSUME NEW open, NEW n \in Nat, ActsOk(open, n), open # <<>>, NEW act, ActOk(act, n),
           act.id = open[Len(open)].id
    PROVE  /\ ActsOk(Becomes(open, act), n) /\ Len(Becomes(open, act)) = Len(open)
           /\ \A k \in 1 .. Len(open) : Becomes(open, act)[k].id = open[k].id
<1>. DEFINE bs == Becomes(open, act)
<1>1. IsSeq(open)
  BY DEF ActsOk
<1>2. /\ IsSeq(bs) /\ Len(bs) = Len(open) /\ bs[Len(open)] = act
      /\ \A j \in 1 .. Len(open) : j # Len(open) => bs[j] = open[j]
  BY <1>1, BecomesProperties, Zenon
<1>. HIDE DEF bs
<1>3. \A k \in 1 .. Len(open) : ActOk(bs[k], n) /\ bs[k].id = open[k].id
  BY <1>2, Zenon DEF ActsOk
<1>4. ActsOk(bs, n)
  BY <1>2, <1>3 DEF ActsOk
<1>. QED
  BY <1>2, <1>3, <1>4 DEF bs

(* An end put to the chain of the last AST, be it written or not.             *)
LEMMA EndingKeeps ==
    ASSUME NEW asts, NEW open, Chained(asts, open), asts # <<>>
    PROVE  Chained(Ending(asts), open) /\ Len(Ending(asts)) = Len(asts)
<1>. DEFINE n == Len(asts)
            end == Linked(asts[n], -1)
<1>1. IsSeq(asts) /\ n \in Nat /\ n \in 1 .. n
  BY NotEmpty DEF Chained
<1>2. Ending(asts) = Put(asts, n, end)
  BY DEF Ending, Put
<1>. HIDE DEF end, n
<1>3. /\ IsSeq(Ending(asts)) /\ Len(Ending(asts)) = n /\ Ending(asts)[n] = end
      /\ \A j \in 1 .. n : j # n => Ending(asts)[j] = asts[j]
  BY <1>1, <1>2, Replaced DEF n
<1>4. SlotOk(Ending(asts), open, n)
  <2>1. CASE Forward(asts[n], n, n)
    <3>1. Forward(end, n, n)
      BY <2>1, <1>1, ForwardLinked DEF end
    <3>. QED
      BY <3>1, <1>3 DEF SlotOk
  <2>2. CASE Unwritten(asts[n]) /\ \E k \in 1 .. Len(open) : open[k].id = n - 1
    <3>1. Unwritten(end)
      BY <2>2 DEF Unwritten, end, Linked
    <3>. QED
      BY <3>1, <2>2, <1>3 DEF SlotOk
  <2>. QED
    BY <2>1, <2>2, <1>1 DEF Chained, SlotOk, n
<1>. QED
  BY <1>1, <1>3, <1>4 DEF Chained, SlotOk, n

-----------------------------------------------------------------------------
(* What the actions are made of.                                              *)

(* The same calls, each with an AST whose links go forward.                   *)
LEMMA OtherActs ==
    ASSUME NEW asts, NEW open, Chained(asts, open), NEW others, ActsOk(others, Len(asts)),
           Len(others) = Len(open), \A k \in 1 .. Len(open) : others[k].id = open[k].id
    PROVE  Chained(asts, others)
<1>1. ASSUME NEW i \in 1 .. Len(asts) PROVE SlotOk(asts, others, i)
  <2>1. SlotOk(asts, open, i)
    BY DEF Chained
  <2>. QED
    BY <2>1 DEF SlotOk
<1>. QED
  BY <1>1 DEF Chained

(* The innermost call and its AST.                                            *)
LEMMA InnermostAct ==
    ASSUME NEW asts, NEW open, Chained(asts, open), open # <<>>
    PROVE  LET a == open[Len(open)]
           IN /\ Len(open) \in 1 .. Len(open) /\ IsSeq(open) /\ IsSeq(asts)
              /\ ActsOk(open, Len(asts)) /\ Len(asts) \in Nat /\ asts # <<>>
              /\ a.id \in 0 .. Len(asts) - 1 /\ Forward(a.node, a.id + 1, Len(asts))
<1>1. IsSeq(open) /\ IsSeq(asts) /\ ActsOk(open, Len(asts))
  BY DEF Chained, ActsOk
<1>2. Len(open) \in 1 .. Len(open) /\ Len(asts) \in Nat
  BY <1>1, NotEmpty, IsSeqProperties
<1>3. ActOk(open[Len(open)], Len(asts))
  BY <1>1, <1>2 DEF ActsOk
<1>4. open[Len(open)].id \in 0 .. Len(asts) - 1
  BY <1>3 DEF ActOk
<1>5. asts # <<>>
  BY <1>2, <1>4
<1>. QED
  BY <1>1, <1>2, <1>3, <1>5 DEF ActOk

(* A call goes on with its AST pointed to the next one, or as it was.         *)
LEMMA ActReplaced ==
    ASSUME Chained(ASTS, acts), acts # <<>>, NEW asts, Chained(asts, acts), Len(asts) = Len(ASTS),
           NEW node, NEW f, node \in {Top.node, Beginning(f)}, NEW part, NEW n
    PROVE  LET open == Becomes(acts, Act(Top.id, node, part, n))
           IN Chained(asts, open) /\ Len(open) = Len(acts)
<1>. DEFINE act == Act(Top.id, node, part, n)
<1>1. /\ Len(ASTS) \in Nat /\ ActsOk(acts, Len(ASTS))
      /\ Top.id \in 0 .. Len(ASTS) - 1 /\ Forward(Top.node, Top.id + 1, Len(ASTS))
  BY InnermostAct DEF Top
<1>2. Forward(node, Top.id + 1, Len(ASTS))
  <2>1. CASE node = Top.node
    BY <2>1, <1>1
  <2>2. CASE node = [Top.node EXCEPT ![f] = next]
    <3>1. next \in Int /\ next \in Top.id + 1 .. Len(ASTS) /\ Top.id + 1 \in Nat
      BY <1>1 DEF next
    <3>. QED
      BY <2>2, <3>1, <1>1, ForwardSet
  <2>. QED
    BY <2>1, <2>2 DEF Beginning
<1>3. act.id = Top.id /\ ActOk(act, Len(ASTS))
  BY <1>1, <1>2 DEF Act, ActOk
<1>4. act.id = acts[Len(acts)].id
  BY <1>3 DEF Top
<1>. HIDE DEF act
<1>5. /\ ActsOk(Becomes(acts, act), Len(ASTS)) /\ Len(Becomes(acts, act)) = Len(acts)
      /\ \A k \in 1 .. Len(acts) : Becomes(acts, act)[k].id = acts[k].id
  BY <1>1, <1>3, <1>4, ActsKept
<1>6. Chained(asts, Becomes(acts, act))
  BY <1>5, OtherActs
<1>. QED
  BY <1>5, <1>6 DEF act

(* A block begins, at most, with the AST that is about to be made.            *)
LEMMA BegunKeeps ==
    ASSUME Chained(ASTS, acts)
    PROVE  Chained(ASTS, Begun)
<1>1. CASE Outermost \/ Top.count > 0 \/ Top.part = "else"
  BY <1>1 DEF Begun
<1>2. CASE ~(Outermost \/ Top.count > 0 \/ Top.part = "else")
  <2>1. acts # <<>> /\ Begun = Becomes(acts, Act(Top.id, Beginning(Top.part), Top.part, 0))
    BY <1>2 DEF Begun, Outermost
  <2>. QED
    BY <2>1, ActReplaced
<1>. QED
  BY <1>1, <1>2

(* A slot for it is added at the end, for now poisoned.                       *)
LEMMA AllocatedKeeps ==
    ASSUME NEW open, Chained(ASTS, open)
    PROVE  /\ IsSeq(Allocated) /\ Len(ASTS) \in Nat /\ Len(Allocated) = Len(ASTS) + 1
           /\ Allocated[Len(ASTS) + 1] = Poisoned
           /\ ActsOk(open, Len(Allocated))
           /\ \A i \in 1 .. Len(ASTS) : SlotOk(Allocated, open, i)
<1>1. IsSeq(ASTS) /\ Len(ASTS) \in Nat
  BY IsSeqProperties DEF Chained
<1>2. /\ IsSeq(Allocated) /\ Len(Allocated) = Len(ASTS) + 1 /\ Allocated[Len(ASTS) + 1] = Poisoned
      /\ \A i \in 1 .. Len(ASTS) : Allocated[i] = ASTS[i]
  BY <1>1, Appended DEF Allocated
<1>. DEFINE n == Len(ASTS)
            m == Len(Allocated)
<1>3. n \in Nat /\ m \in Nat /\ n <= m
  BY <1>1, <1>2
<1>4. ASSUME NEW k \in 1 .. Len(open) PROVE ActOk(open[k], m)
  <2>1. open[k].id \in 0 .. n - 1 /\ Forward(open[k].node, open[k].id + 1, n)
    BY DEF Chained, ActsOk, ActOk
  <2>2. open[k].id + 1 \in Nat /\ open[k].id \in 0 .. m - 1
    BY <2>1, <1>3
  <2>3. Forward(open[k].node, open[k].id + 1, m)
    <3>. HIDE DEF n, m
    <3>. QED
      BY <2>1, <2>2, <1>3, ForwardLonger
  <2>. QED
    BY <2>2, <2>3 DEF ActOk
<1>5. ASSUME NEW i \in 1 .. n PROVE SlotOk(Allocated, open, i)
  <2>1. SlotOk(ASTS, open, i) /\ Allocated[i] = ASTS[i] /\ i \in Nat
    BY <1>2 DEF Chained
  <2>2. Forward(ASTS[i], i, n) => Forward(ASTS[i], i, m)
    <3>. HIDE DEF n, m
    <3>. QED
      BY <2>1, <1>3, ForwardLonger
  <2>. QED
    BY <2>1, <2>2 DEF SlotOk
<1>. QED
  BY <1>1, <1>2, <1>4, <1>5 DEF Chained, ActsOk

(* ast_token returns: the last slot that is not accounted for gets its AST.   *)
LEMMA ReturnKeeps ==
    ASSUME NEW open, NEW asts, NEW id, NEW node, NEW i, Return(open, asts, id, node, i),
           IsSeq(asts), Len(asts) \in Nat, ActsOk(open, Len(asts)), id \in 0 .. Len(asts) - 1,
           Forward(node, id + 1, Len(asts)),
           \A j \in 1 .. Len(asts) : j # id + 1 => SlotOk(asts, open, j)
    PROVE  Chained(ASTS, acts)'
<1>. DEFINE last == IF CutShort(open, node, i + 1) THEN Linked(node, -1) ELSE node
            slot == id + 1
            done == Put(asts, slot, last)
            back == IF open = <<>> THEN open
                    ELSE LET a == open[Len(open)]
                         IN Becomes(open, Act(a.id, a.node, a.part, a.count + 1))
<1>1. ASTS' = done /\ acts' = back
  BY DEF Return, Put
<1>2. slot \in Nat /\ slot \in 1 .. Len(asts)
  OBVIOUS
<1>3. Forward(last, slot, Len(asts))
  <2>1. Forward(Linked(node, -1), slot, Len(asts))
    BY <1>2, ForwardLinked
  <2>. QED
    BY <2>1
<1>. HIDE DEF last, slot
<1>4. /\ IsSeq(done) /\ Len(done) = Len(asts) /\ done[slot] = last
      /\ \A j \in 1 .. Len(asts) : j # slot => done[j] = asts[j]
  BY <1>2, Replaced
<1>. HIDE DEF done
<1>5. \A j \in 1 .. Len(asts) : SlotOk(done, open, j)
  <2>1. \A j \in 1 .. Len(asts) : j # slot => SlotOk(asts, open, j)
    BY DEF slot
  <2>. QED
    BY <1>3, <1>4, <2>1 DEF SlotOk
<1>6. Chained(done, open)
  BY <1>4, <1>5 DEF Chained
<1>7. Chained(done, back)
  <2>1. CASE open = <<>>
    BY <2>1, <1>6
  <2>2. CASE open # <<>>
    <3>. DEFINE a == open[Len(open)]
                act == Act(a.id, a.node, a.part, a.count + 1)
    <3>1. /\ ActsOk(open, Len(done)) /\ Len(done) \in Nat
          /\ a.id \in 0 .. Len(done) - 1 /\ Forward(a.node, a.id + 1, Len(done))
      BY <1>6, <2>2, InnermostAct
    <3>2. ActOk(act, Len(done)) /\ act.id = open[Len(open)].id
      BY <3>1 DEF Act, ActOk
    <3>. HIDE DEF act
    <3>3. /\ ActsOk(Becomes(open, act), Len(done)) /\ Len(Becomes(open, act)) = Len(open)
          /\ \A k \in 1 .. Len(open) : Becomes(open, act)[k].id = open[k].id
      BY <2>2, <3>1, <3>2, ActsKept
    <3>4. Chained(done, Becomes(open, act))
      BY <1>6, <3>3, OtherActs
    <3>. QED
      BY <2>2, <3>4 DEF act
  <2>. QED
    BY <2>1, <2>2
<1>. HIDE DEF back
<1>. QED
  BY <1>1, <1>7

(* A statement of one token.                                                  *)
LEMMA StatementKeeps ==
    ASSUME Chained(ASTS, acts), NEW node, Unlinked(node), NEW i,
           Return(Begun, Allocated, next, make_ast(node), i)
    PROVE  Chained(ASTS, acts)'
<1>1. Chained(ASTS, Begun)
  BY BegunKeeps
<1>2. /\ IsSeq(Allocated) /\ Len(ASTS) \in Nat /\ Len(Allocated) = Len(ASTS) + 1
      /\ ActsOk(Begun, Len(Allocated))
      /\ \A j \in 1 .. Len(ASTS) : SlotOk(Allocated, Begun, j)
  BY <1>1, AllocatedKeeps
<1>3. /\ Len(Allocated) \in Nat /\ next \in 0 .. Len(Allocated) - 1
      /\ next + 1 \in next + 1 .. Len(Allocated) /\ next + 1 \in Nat
  BY <1>2 DEF next
<1>4. Forward(make_ast(node), next + 1, Len(Allocated))
  BY <1>3, ForwardMade
<1>5. \A j \in 1 .. Len(Allocated) : j # next + 1 => SlotOk(Allocated, Begun, j)
  BY <1>2 DEF next
<1>. QED
  BY <1>2, <1>3, <1>4, <1>5, ReturnKeeps

(* A call for what has a block.                                               *)
LEMMA OpenKeeps ==
    ASSUME Chained(ASTS, acts), NEW node, Unlinked(node), NEW part, NEW i, Open(node, part, i)
    PROVE  Chained(ASTS, acts)'
<1>. DEFINE act == Act(next, make_ast(node), part, 0)
            more == Append(Begun, act)
<1>1. Chained(ASTS, Begun)
  BY BegunKeeps
<1>2. /\ IsSeq(Allocated) /\ Len(ASTS) \in Nat /\ Len(Allocated) = Len(ASTS) + 1
      /\ Allocated[Len(ASTS) + 1] = Poisoned /\ ActsOk(Begun, Len(Allocated))
      /\ \A j \in 1 .. Len(ASTS) : SlotOk(Allocated, Begun, j)
  BY <1>1, AllocatedKeeps
<1>3. act.id = next /\ ActOk(act, Len(Allocated))
  <2>1. /\ Len(Allocated) \in Nat /\ next \in 0 .. Len(Allocated) - 1
        /\ next + 1 \in next + 1 .. Len(Allocated) /\ next + 1 \in Nat
    BY <1>2 DEF next
  <2>2. Forward(make_ast(node), next + 1, Len(Allocated))
    BY <2>1, ForwardMade
  <2>. QED
    BY <2>1, <2>2 DEF Act, ActOk
<1>. HIDE DEF act
<1>4. IsSeq(Begun) /\ Len(Begun) \in Nat
  BY <1>2, IsSeqProperties DEF ActsOk
<1>5. /\ IsSeq(more) /\ Len(more) = Len(Begun) + 1 /\ more[Len(Begun) + 1] = act
      /\ \A k \in 1 .. Len(Begun) : more[k] = Begun[k]
  BY <1>4, Appended
<1>. HIDE DEF more
<1>6. ActsOk(more, Len(Allocated))
  <2>1. ASSUME NEW k \in 1 .. Len(more) PROVE ActOk(more[k], Len(Allocated))
    BY <1>2, <1>3, <1>4, <1>5 DEF ActsOk
  <2>. QED
    BY <1>5, <2>1 DEF ActsOk
<1>7. ASSUME NEW j \in 1 .. Len(Allocated) PROVE SlotOk(Allocated, more, j)
  <2>1. CASE j = Len(ASTS) + 1
    <3>1. Unwritten(Allocated[j])
      BY <2>1, <1>2 DEF Unwritten, Poisoned
    <3>2. Len(Begun) + 1 \in 1 .. Len(more) /\ more[Len(Begun) + 1].id = j - 1
      BY <2>1, <1>2, <1>3, <1>4, <1>5 DEF next
    <3>. QED
      BY <3>1, <3>2 DEF SlotOk
  <2>2. CASE j \in 1 .. Len(ASTS)
    <3>1. SlotOk(Allocated, Begun, j)
      BY <2>2, <1>2
    <3>2. \A k \in 1 .. Len(Begun) : k \in 1 .. Len(more) /\ more[k].id = Begun[k].id
      BY <1>4, <1>5
    <3>. QED
      BY <3>1, <3>2 DEF SlotOk
  <2>. QED
    BY <2>1, <2>2, <1>2
<1>8. Chained(Allocated, more)
  BY <1>2, <1>6, <1>7 DEF Chained
<1>9. ASTS' = Allocated /\ acts' = more
  BY DEF Open, more, act
<1>. QED
  BY <1>8, <1>9

(* A call ends: its AST takes its slot, and is linked to what follows it.     *)
LEMMA EndKeeps ==
    ASSUME Chained(ASTS, acts), ParseEnd
    PROVE  Chained(ASTS, acts)'
<1>. DEFINE n == Len(ASTS)
            node == Linked(Top.node, Follower)
<1>1. /\ acts # <<>> /\ parse = "running"
      /\ Return(Outer, Ended, Top.id, node, token_idx)
  BY DEF ParseEnd, Closable, Outermost, Reading
<1>2. /\ Len(acts) \in 1 .. Len(acts) /\ IsSeq(acts) /\ IsSeq(ASTS)
      /\ ActsOk(acts, n) /\ n \in Nat /\ ASTS # <<>>
      /\ Top.id \in 0 .. n - 1 /\ Forward(Top.node, Top.id + 1, n)
  BY <1>1, InnermostAct DEF Top
<1>3. Chained(Ended, acts) /\ Len(Ended) = n
  <2>1. Chained(Ending(ASTS), acts) /\ Len(Ending(ASTS)) = n
    BY <1>2, EndingKeeps
  <2>. QED
    BY <2>1 DEF Ended
<1>4. Follower \in Int /\ (Follower = -1 \/ Follower \in Top.id + 1 .. n)
  <2>1. n \in 1 .. n /\ n \in Top.id + 1 .. n
    BY <1>2, NotEmpty
  <2>2. ASTS[n].next > 0 => ASTS[n].next = n
    <3>1. SlotOk(ASTS, acts, n)
      BY <2>1 DEF Chained
    <3>2. Forward(ASTS[n], n, n) => ASTS[n].next \in {-1, n}
      <4>1. "next" \in LinkFields
        BY DEF LinkFields
      <4>. QED
        BY <4>1, <2>1 DEF Forward, Fields
    <3>. QED
      BY <3>1, <3>2, <2>1 DEF SlotOk, Unwritten
  <2>. QED
    BY <2>1, <2>2, <1>2 DEF Follower, last_ast, next
<1>5. Forward(node, Top.id + 1, n)
  <2>. HIDE DEF n
  <2>1. Top.id + 1 \in Nat
    BY <1>2
  <2>. QED
    BY <1>2, <1>4, <2>1, ForwardLinked
<1>6. /\ IsSeq(Outer) /\ Len(Outer) = Len(acts) - 1
      /\ \A k \in 1 .. Len(acts) - 1 : Outer[k] = acts[k]
  BY <1>1, <1>2, Shortened DEF Outer
<1>7. ActsOk(Outer, n)
  <2>1. ASSUME NEW k \in 1 .. Len(Outer) PROVE ActOk(Outer[k], n)
    BY <1>2, <1>6 DEF ActsOk
  <2>. QED
    BY <1>6, <2>1 DEF ActsOk
<1>8. ASSUME NEW j \in 1 .. n, j # Top.id + 1 PROVE SlotOk(Ended, Outer, j)
  <2>1. SlotOk(Ended, acts, j)
    BY <1>3 DEF Chained
  <2>2. ASSUME NEW k \in 1 .. Len(acts), acts[k].id = j - 1
        PROVE  k \in 1 .. Len(Outer) /\ Outer[k].id = j - 1
    <3>1. k # Len(acts)
      BY <2>2, <1>2, <1>8 DEF Top
    <3>. QED
      BY <3>1, <2>2, <1>2, <1>6
  <2>. QED
    BY <2>1, <2>2 DEF SlotOk
<1>. HIDE DEF node
<1>9. IsSeq(Ended)
  BY <1>3 DEF Chained
<1>. QED
  BY <1>1, <1>2, <1>3, <1>5, <1>7, <1>8, <1>9, ReturnKeeps

-----------------------------------------------------------------------------
(* Every action of the parser keeps the invariant.                            *)

(* What the text is does not change, and the parser is done only outside of   *)
(* all calls.                                                                 *)
LEMMA EndsOutermost ==
    ASSUME InvOfParser, [Next]_vars
    PROVE  source' = source /\ (parse' = "done" => acts' = <<>>)
<1>1. CASE Finish
  BY <1>1 DEF Finish, Outermost
<1>2. CASE Report \/ PastTheEnd
  BY <1>2 DEF Report, PastTheEnd
<1>3. CASE ParseStatement \/ ParseExtern \/ ParseEnd
  BY <1>3 DEF ParseStatement, ParseExtern, ParseEnd, Return, Reading
<1>4. CASE ParseData \/ ParseRoutine \/ ParseIf \/ ParseWhile
  BY <1>4 DEF ParseData, ParseRoutine, ParseIf, ParseWhile, Open, Reading
<1>5. CASE ParseElse \/ ParseDo
  BY <1>5 DEF ParseElse, ParseDo, Reading
<1>6. CASE UNCHANGED vars
  BY <1>6 DEF vars, InvOfParser
<1>. QED
  BY <1>1, <1>2, <1>3, <1>4, <1>5, <1>6 DEF Next, Parses, Stopped

(* The AST that a token carries has no links.                                 *)
LEMMA TokensUnlinked ==
    ASSUME InvOfParser, Reading({"LITERAL", "SINGLE"})
    PROVE  Unlinked(Tok(token_idx).ast)
<1>1. PICK texts \in Sources : source \in texts
  BY DEF InvOfParser
<1>2. Tok(token_idx).kind \in {"LITERAL", "SINGLE"}
  BY DEF Reading, Is
<1>3. token_idx \in 0 .. count - 1
  BY <1>2 DEF Tok
<1>4. Len(source.tokens) \in Nat
  BY <1>1, SourcesAssumption
<1>5. token_idx + 1 \in 1 .. Len(source.tokens) /\ Tok(token_idx) = source.tokens[token_idx + 1]
  BY <1>3, <1>4 DEF Tok, count
<1>6. DOMAIN source.tokens[token_idx + 1].ast \intersect LinkFields = {}
  BY <1>1, <1>2, <1>5, SourcesAssumption
<1>. QED
  BY <1>5, <1>6 DEF Unlinked, Fields

LEMMA ChainedKept ==
    ASSUME InvOfParser, [Next]_vars
    PROVE  Chained(ASTS, acts)'
<1>. USE DEF InvOfParser
<1>1. CASE ParseStatement
  <2>1. Unlinked(Tok(token_idx).ast)
    BY <1>1, TokensUnlinked DEF ParseStatement
  <2>. QED
    BY <1>1, <2>1, StatementKeeps DEF ParseStatement
<1>2. CASE ParseData
  <2>. DEFINE node == [kind |-> Tok(token_idx).kind, name |-> Tok(token_idx + 1).str, body |-> -1]
  <2>1. Unlinked(node)
    BY DEF Unlinked, Fields, LinkFields
  <2>2. Open(node, "body", token_idx + 2)
    BY <1>2 DEF ParseData
  <2>. HIDE DEF node
  <2>. QED
    BY <2>1, <2>2, OpenKeeps
<1>3. CASE ParseRoutine
  <2>. DEFINE name == KeywordAt + 1
              args == ArgsFrom(RoutineKind, name)
              node == [kind |-> RoutineKind, name |-> Tok(name).str, rets |-> Rets(RoutineKind, name),
                       args |-> Args(args, FALSE), inlin |-> Inlined, body |-> -1]
  <2>1. Unlinked(node)
    BY DEF Unlinked, Fields, LinkFields
  <2>2. Open(node, "body", Closing(args, FALSE) + 1)
    BY <1>3 DEF ParseRoutine
  <2>. HIDE DEF node
  <2>. QED
    BY <2>1, <2>2, OpenKeeps
<1>4. CASE ParseExtern
  <2>. DEFINE name == token_idx + 2
              args == ArgsFrom(ExternKind, name)
              end == Closing(args, TRUE)
              node == [kind |-> "EXTERN", proto |-> "EXTERN_" \o ExternKind,
                       name |-> Tok(name).str, rets |-> Rets(ExternKind, name), args |-> Args(args, TRUE)]
  <2>1. Unlinked(node)
    BY DEF Unlinked, Fields, LinkFields
  <2>2. Return(Begun, Allocated, next, make_ast(node), IF end < count THEN end ELSE count - 1)
    BY <1>4 DEF ParseExtern
  <2>. HIDE DEF node, end
  <2>. QED
    BY <2>1, <2>2, StatementKeeps
<1>5. CASE PastTheEnd \/ Report \/ Finish \/ UNCHANGED vars
  BY <1>5 DEF PastTheEnd, Report, Finish, vars
<1>6. CASE ParseIf
  <2>. DEFINE node == [kind |-> "IF", then |-> -1, else |-> -1]
  <2>1. Unlinked(node)
    BY DEF Unlinked, Fields, LinkFields
  <2>2. Open(node, "then", token_idx + 1)
    BY <1>6 DEF ParseIf
  <2>. HIDE DEF node
  <2>. QED
    BY <2>1, <2>2, OpenKeeps
<1>7. CASE ParseWhile
  <2>. DEFINE node == [kind |-> "WHILE", cond |-> -1, body |-> -1]
  <2>1. Unlinked(node)
    BY DEF Unlinked, Fields, LinkFields
  <2>2. Open(node, "cond", token_idx + 1)
    BY <1>7 DEF ParseWhile
  <2>. HIDE DEF node
  <2>. QED
    BY <2>1, <2>2, OpenKeeps
<1>8. ASSUME acts # <<>>, ASTS' \in {ASTS, Ending(ASTS)},
             NEW f, NEW node, node \in {Top.node, Beginning(f)}, NEW part, NEW n,
             acts' = Becomes(acts, Act(Top.id, node, part, n))
      PROVE  Chained(ASTS, acts)'
  <2>1. ASTS # <<>>
    BY <1>8, InnermostAct
  <2>2. Chained(Ending(ASTS), acts) /\ Len(Ending(ASTS)) = Len(ASTS)
    BY <2>1, EndingKeeps
  <2>3. Chained(ASTS', acts) /\ Len(ASTS') = Len(ASTS)
    BY <1>8, <2>2
  <2>4. Chained(ASTS', Becomes(acts, Act(Top.id, node, part, n)))
    BY <1>8, <2>3, ActReplaced
  <2>. QED
    BY <1>8, <2>4
<1>9. CASE ParseElse
  <2>1. acts # <<>> /\ ASTS' \in {ASTS, Ending(ASTS)}
    BY <1>9 DEF ParseElse, In, Outermost
  <2>2. acts' = Becomes(acts, Act(Top.id, Beginning("else"), "else", Top.count))
    BY <1>9 DEF ParseElse
  <2>. QED
    BY <1>8, <2>1, <2>2
<1>10. CASE ParseDo
  <2>1. acts # <<>> /\ ASTS' \in {ASTS, Ending(ASTS)}
    BY <1>10 DEF ParseDo, In, Outermost
  <2>2. acts' = Becomes(acts, Act(Top.id, Top.node, "body", 0))
    BY <1>10 DEF ParseDo
  <2>. QED
    BY <1>8, <2>1, <2>2
<1>11. CASE ParseEnd
  BY <1>11, EndKeeps
<1>. QED
  BY <1>1, <1>2, <1>3, <1>4, <1>5, <1>6, <1>7, <1>9, <1>10, <1>11 DEF Next, Parses, Stopped

LEMMA ParserStarts ==
    ASSUME ParserInit PROVE InvOfParser
<1>1. ASTS = <<>> /\ acts = <<>> /\ \E texts \in Sources : source \in texts
  BY DEF ParserInit
<1>2. IsSeq(<<>>) /\ Len(<<>>) = 0
  BY DEF IsSeq
<1>. QED
  BY <1>1, <1>2 DEF InvOfParser, Chained, ActsOk

(* compile_block, consteval_eval, main_function_check: in the ASTs of any     *)
(* text the parser accepts, `next` and the fields for blocks lead forward, to *)
(* an AST that is there or to the first slot behind the last, so that every   *)
(* walk along them ends.                                                      *)
THEOREM ChainsAlwaysGoForward == Spec => []ChainsGoForward
<1>1. InvOfParser => ChainsGoForward
  <2>. SUFFICES ASSUME InvOfParser, parse = "done", NEW i \in DOMAIN ASTS, NEW l \in Links(ASTS[i])
                PROVE  l = -1 \/ l \in i .. Len(ASTS)
    BY DEF ChainsGoForward
  <2>1. acts = <<>> /\ IsSeq(ASTS) /\ \A k \in 1 .. Len(ASTS) : SlotOk(ASTS, acts, k)
    BY DEF InvOfParser, Chained
  <2>2. i \in 1 .. Len(ASTS) /\ Len(acts) = 0
    BY <2>1, IsSeqProperties
  <2>3. Forward(ASTS[i], i, Len(ASTS))
    BY <2>1, <2>2 DEF SlotOk
  <2>4. PICK f \in Fields(ASTS[i]) : l = ASTS[i][f]
    BY DEF Links, Fields
  <2>. QED
    BY <2>3, <2>4 DEF Forward
<1>2. InvOfParser /\ [Next]_vars => InvOfParser'
  BY EndsOutermost, ChainedKept DEF InvOfParser
<1>. QED
  BY <1>1, <1>2, ParserStarts, PTL DEF Spec

-----------------------------------------------------------------------------
(* Sequences and numbers, for the lexer.                                      *)

LEMMA SameSeq ==
    ASSUME NEW s, IsSeq(s), NEW t, IsSeq(t), Len(s) = Len(t), \A i \in 1 .. Len(s) : s[i] = t[i]
    PROVE  s = t
<1>1. Len(s) \in Nat /\ DOMAIN s = 1 .. Len(s) /\ DOMAIN t = 1 .. Len(t) BY IsSeqProperties
<1>2. \A i \in DOMAIN s : s[i] = t[i] BY <1>1
<1>3. s \in Seq({s[i] : i \in DOMAIN s}) /\ t \in Seq({t[i] : i \in DOMAIN t}) BY DEF IsSeq
<1>4. {s[i] : i \in DOMAIN s} = {t[i] : i \in DOMAIN t} BY <1>1, <1>2
<1> QED BY <1>3, <1>4, SeqEqual


LEMMA LeastNatural ==
    ASSUME NEW T, T \subseteq Nat, T # {}
    PROVE  \E x \in T : \A y \in T : x <= y
<1> DEFINE R == {p \in Nat \X Nat : p[1] < p[2]}
<1>1. IsWellFoundedOn(R, Nat) BY NatLessThanWellFounded DEF OpToRel
<1>2. PICK x \in T : \A y \in T : <<y, x>> \notin R
  <2> HIDE DEF R
  <2> QED BY <1>1, WFMin
<1>3. ASSUME NEW y \in T PROVE x <= y
  <2>1. ~(y < x) BY <1>2
  <2> QED BY <2>1
<1> QED BY <1>3

(* A set of numbers that has 0, and the successor of what it has, has all.    *)
LEMMA Induction ==
    ASSUME NEW P, 0 \in P, \A n \in Nat : n \in P => n + 1 \in P
    PROVE  \A n \in Nat : n \in P
<1> DEFINE T == {n \in Nat : n \notin P}
<1>1. CASE T = {} BY <1>1
<1>2. CASE T # {}
  <2>1. T \subseteq Nat OBVIOUS
  <2> HIDE DEF T
  <2>2. PICK x \in T : \A y \in T : x <= y BY <1>2, <2>1, LeastNatural
  <2>3. x \in Nat /\ x \notin P BY DEF T
  <2>4. x - 1 \in Nat /\ x - 1 + 1 = x BY <2>3
  <2>5. x - 1 \notin T BY <2>2, <2>3
  <2>6. x - 1 \in P BY <2>4, <2>5 DEF T
  <2> QED BY <2>3, <2>4, <2>6
<1> QED BY <1>1, <1>2

-----------------------------------------------------------------------------
(* Parts of a text, counted from 0: the characters from a on, up to b.        *)
LEMMA PartIs ==
    ASSUME NEW s, IsSeq(s), NEW a \in 0 .. Len(s), NEW b \in a .. Len(s)
    PROVE  /\ IsSeq(SubSeq(s, a + 1, b)) /\ Len(SubSeq(s, a + 1, b)) = b - a
           /\ \A i \in 1 .. b - a : SubSeq(s, a + 1, b)[i] = s[a + i]
<1> DEFINE S == {s[i] : i \in DOMAIN s}
           m == a + 1
<1>1. Len(s) \in Nat /\ s \in Seq(S) BY IsSeqProperties DEF IsSeq
<1> HIDE DEF S
<1>2. m \in Int /\ b \in Int /\ \A i \in m .. b : s[i] \in S BY <1>1, ElementOfSeq
<1>3. /\ SubSeq(s, m, b) \in Seq(S)
      /\ Len(SubSeq(s, m, b)) = IF m <= b THEN b - m + 1 ELSE 0
      /\ \A i \in 1 .. b - m + 1 : SubSeq(s, m, b)[i] = s[m + i - 1]
  <2> HIDE DEF m
  <2> QED BY <1>2, SubSeqProperties
<1>4. IsSeq(SubSeq(s, m, b)) BY <1>3, SeqIsSeq
<1>5. b - m + 1 = b - a /\ \A i \in 1 .. b - a : m + i - 1 = a + i BY <1>1
<1>6. Len(SubSeq(s, m, b)) = b - a BY <1>1, <1>3
<1>7. \A i \in 1 .. b - a : SubSeq(s, m, b)[i] = s[a + i] BY <1>3, <1>5
<1> QED BY <1>4, <1>6, <1>7

LEMMA PartOfPart ==
    ASSUME NEW s, IsSeq(s), NEW a \in 0 .. Len(s), NEW b \in a .. Len(s),
           NEW c \in 0 .. b - a, NEW d \in c .. b - a
    PROVE  SubSeq(SubSeq(s, a + 1, b), c + 1, d) = SubSeq(s, a + c + 1, a + d)
<1> DEFINE t == SubSeq(s, a + 1, b)
           e == a + c
           f == a + d
<1>1. Len(s) \in Nat BY IsSeqProperties
<1>2. IsSeq(t) /\ Len(t) = b - a /\ \A i \in 1 .. b - a : t[i] = s[a + i] BY PartIs
<1>3. e \in 0 .. Len(s) /\ f \in e .. Len(s) /\ f - e = d - c BY <1>1
<1> HIDE DEF t, e, f
<1>4. c \in 0 .. Len(t) /\ d \in c .. Len(t) BY <1>2
<1>5. /\ IsSeq(SubSeq(t, c + 1, d)) /\ Len(SubSeq(t, c + 1, d)) = d - c
      /\ \A i \in 1 .. d - c : SubSeq(t, c + 1, d)[i] = t[c + i]
  BY <1>2, <1>4, PartIs
<1>6. /\ IsSeq(SubSeq(s, e + 1, f)) /\ Len(SubSeq(s, e + 1, f)) = f - e
      /\ \A i \in 1 .. f - e : SubSeq(s, e + 1, f)[i] = s[e + i]
  BY <1>3, PartIs
<1>7. \A i \in 1 .. d - c : SubSeq(t, c + 1, d)[i] = SubSeq(s, e + 1, f)[i]
  <2>1. TAKE i \in 1 .. d - c
  <2>2. c + i \in 1 .. b - a /\ a + (c + i) = e + i BY <1>1 DEF e
  <2> QED BY <1>2, <1>3, <1>5, <1>6, <2>2
<1>8. SubSeq(t, c + 1, d) = SubSeq(s, e + 1, f) BY <1>3, <1>5, <1>6, <1>7, SameSeq
<1> QED BY <1>8 DEF t, e, f

LEMMA FirstPart ==
    ASSUME NEW s, IsSeq(s), NEW b \in 0 .. Len(s)
    PROVE  /\ IsSeq(SubSeq(s, 1, b)) /\ Len(SubSeq(s, 1, b)) = b
           /\ \A i \in 1 .. b : SubSeq(s, 1, b)[i] = s[i]
           /\ \A c \in 0 .. b : SubSeq(SubSeq(s, 1, b), 1, c) = SubSeq(s, 1, c)
<1>1. Len(s) \in Nat BY IsSeqProperties
<1>2. 0 \in 0 .. Len(s) /\ 0 + 1 = 1 /\ b - 0 = b /\ 0 + 0 + 1 = 1 BY <1>1
<1>3. \A i \in 1 .. b : 0 + i = i BY <1>1
<1>4. /\ IsSeq(SubSeq(s, 0 + 1, b)) /\ Len(SubSeq(s, 0 + 1, b)) = b - 0
      /\ \A i \in 1 .. b - 0 : SubSeq(s, 0 + 1, b)[i] = s[0 + i]
  BY <1>2, PartIs
<1>5. ASSUME NEW c \in 0 .. b PROVE SubSeq(SubSeq(s, 1, b), 1, c) = SubSeq(s, 1, c)
  <2>1. 0 \in 0 .. b - 0 /\ c \in 0 .. b - 0 /\ 0 + c = c BY <1>1
  <2>2. SubSeq(SubSeq(s, 0 + 1, b), 0 + 1, c) = SubSeq(s, 0 + 0 + 1, 0 + c) BY <1>2, <2>1, PartOfPart
  <2> QED BY <1>2, <2>1, <2>2
<1> QED BY <1>2, <1>3, <1>4, <1>5

LEMMA WholePart == ASSUME NEW s, IsSeq(s) PROVE SubSeq(s, 1, Len(s)) = s
<1>1. s \in Seq({s[i] : i \in DOMAIN s}) BY DEF IsSeq
<1> QED BY <1>1, SubSeqFull

LEMMA MinIs ==
    ASSUME NEW S, S \subseteq Nat, S # {}
    PROVE  Min(S) \in S /\ \A y \in S : Min(S) <= y
<1>1. \E x \in S : \A y \in S : x <= y BY LeastNatural
<1> QED BY <1>1 DEF Min

LEMMA MaxIs ==
    ASSUME NEW S, NEW n \in Nat, S \subseteq 0 .. n, S # {}
    PROVE  Max(S) \in S /\ \A y \in S : Max(S) >= y
<1> DEFINE T == {n - x : x \in S}
<1>1. T \subseteq Nat /\ T # {}
  <2>1. \A x \in S : n - x \in Nat OBVIOUS
  <2> QED BY <2>1
<1>2. PICK t \in T : \A y \in T : t <= y
  <2> HIDE DEF T
  <2> QED BY <1>1, LeastNatural
<1>3. PICK x \in S : t = n - x BY DEF T
<1>4. \A y \in S : x >= y
  <2>1. TAKE y \in S
  <2>2. n - y \in T OBVIOUS
  <2>3. n - x <= n - y BY <1>2, <1>3, <2>2
  <2>4. x \in Nat /\ y \in Nat OBVIOUS
  <2> QED BY <2>3, <2>4
<1> QED BY <1>4 DEF Max

-----------------------------------------------------------------------------
(* The trims keep a part of the line.                                         *)
LEMMA HashesAre ==
    ASSUME NEW s, IsSeq(s), Hashes(s) # {}
    PROVE  Min(Hashes(s)) \in 1 .. Len(s)
<1>1. DOMAIN s = 1 .. Len(s) /\ Len(s) \in Nat BY IsSeqProperties
<1>2. Hashes(s) \subseteq Nat /\ Hashes(s) \subseteq 1 .. Len(s) BY <1>1 DEF Hashes
<1>3. Min(Hashes(s)) \in Hashes(s) BY <1>2, MinIs
<1> QED BY <1>2, <1>3

LEMMA TrailingSpaceIs ==
    ASSUME NEW s, IsSeq(s) PROVE TrailingSpace(s) \in 0 .. Len(s)
<1> DEFINE S == {0} \union {i \in DOMAIN s : ~isspace(s[i])}
<1>1. DOMAIN s = 1 .. Len(s) /\ Len(s) \in Nat BY IsSeqProperties
<1>2. S \subseteq 0 .. Len(s) /\ S # {} BY <1>1
<1>3. Max(S) \in 0 .. Len(s)
  <2> HIDE DEF S
  <2> QED BY <1>1, <1>2, MaxIs
<1> QED BY <1>1, <1>3 DEF TrailingSpace

LEMMA RightTrimmedIs ==
    ASSUME NEW s, IsSeq(s)
    PROVE  \E m \in 0 .. Len(s) : RightTrimmed(s) = SubSeq(s, 1, m)
<1>1. Len(s) \in Nat BY IsSeqProperties
<1>2. CASE Hashes(s) = {}
  <2>1. RightTrimmed(s) = SubSeq(s, 1, Len(s)) BY <1>2, WholePart DEF RightTrimmed
  <2> QED BY <1>1, <2>1
<1>3. CASE Hashes(s) # {}
  <2> DEFINE h == Min(Hashes(s)) - 1
             u == SubSeq(s, 1, h)
             m == Len(u) - TrailingSpace(u)
  <2>1. h \in 0 .. Len(s) BY <1>1, <1>3, HashesAre
  <2>2. RightTrimmed(s) = SubSeq(u, 1, m) BY <1>3 DEF RightTrimmed, Uncommented
  <2> HIDE DEF h
  <2>3. IsSeq(u) /\ Len(u) = h /\ \A c \in 0 .. h : SubSeq(u, 1, c) = SubSeq(s, 1, c)
    BY <2>1, FirstPart
  <2> HIDE DEF u
  <2>4. m \in 0 .. h
    <3>1. TrailingSpace(u) \in 0 .. h BY <2>3, TrailingSpaceIs
    <3> QED BY <2>1, <2>3, <3>1
  <2> HIDE DEF m
  <2>5. SubSeq(u, 1, m) = SubSeq(s, 1, m) BY <2>3, <2>4
  <2>6. m \in 0 .. Len(s) BY <1>1, <2>1, <2>4
  <2> QED BY <2>2, <2>5, <2>6
<1> QED BY <1>2, <1>3

LEMMA LeadingSpaceIs ==
    ASSUME NEW s, IsSeq(s) PROVE LeadingSpace(s) \in 0 .. Len(s)
<1> DEFINE S == {Len(s)} \union {i - 1 : i \in {j \in DOMAIN s : ~isspace(s[j])}}
<1>1. DOMAIN s = 1 .. Len(s) /\ Len(s) \in Nat BY IsSeqProperties
<1>2. S \subseteq 0 .. Len(s) /\ S # {} BY <1>1
<1>3. S \subseteq Nat BY <1>1, <1>2
<1>4. Min(S) \in 0 .. Len(s)
  <2> HIDE DEF S
  <2> QED BY <1>2, <1>3, MinIs
<1> QED BY <1>4 DEF LeadingSpace

-----------------------------------------------------------------------------
(* The scan.  The recursive function of WordsIn, one step of it, and what it  *)
(* keeps: the words so far are parts of the line, in front of what is left.   *)
First == [s |-> 0, e |-> 0, quote |-> "none", items |-> <<>>]
Scans(input, lspace, scan, n) ==
    scan = [i \in 0 .. n |-> IF i = 0 THEN First
                             ELSE The({Scanned(input, lspace, prior, i - 1) : prior \in {scan[i - 1]}})]

LEMMA ScanExists ==
    ASSUME NEW input, NEW lspace, NEW n \in Nat
    PROVE  \E scan : Scans(input, lspace, scan, n)
<1> DEFINE P == {m \in Nat : \E scan : Scans(input, lspace, scan, m)}
<1>1. 0 \in P
  <2> DEFINE g == [i \in 0 .. 0 |-> First]
  <2>1. g = [i \in 0 .. 0 |-> IF i = 0 THEN First
                             ELSE The({Scanned(input, lspace, prior, i - 1) : prior \in {g[i - 1]}})]
    <3>1. \A i \in 0 .. 0 : i = 0 OBVIOUS
    <3> QED BY <3>1
  <2> QED BY <2>1 DEF Scans
<1>2. ASSUME NEW m \in Nat, m \in P PROVE m + 1 \in P
  <2>1. PICK f : Scans(input, lspace, f, m) BY <1>2
  <2> DEFINE k == m + 1
             last == The({Scanned(input, lspace, prior, m) : prior \in {f[m]}})
             g == [i \in 0 .. k |-> IF i = k THEN last ELSE f[i]]
  <2>2. f = [i \in 0 .. m |-> IF i = 0 THEN First
                              ELSE The({Scanned(input, lspace, prior, i - 1) : prior \in {f[i - 1]}})]
    BY <2>1 DEF Scans
  <2>3. ASSUME NEW i \in 0 .. k
        PROVE  g[i] = IF i = 0 THEN First
                      ELSE The({Scanned(input, lspace, prior, i - 1) : prior \in {g[i - 1]}})
    <3> HIDE DEF last
    <3>1. CASE i = k
      <4>1. i # 0 /\ i - 1 = m /\ m \in 0 .. k /\ m # k BY <3>1
      <4>2. g[i] = last /\ g[i - 1] = f[m] BY <3>1, <4>1
      <4> QED BY <4>1, <4>2 DEF last
    <3>2. CASE i # k
      <4>1. i \in 0 .. m BY <3>2
      <4>2. g[i] = f[i] BY <3>2
      <4>3. CASE i = 0 BY <2>2, <4>1, <4>2, <4>3
      <4>4. CASE i # 0
        <5>1. i - 1 \in 0 .. k /\ i - 1 # k BY <4>1, <4>4
        <5>2. g[i - 1] = f[i - 1] BY <5>1
        <5> HIDE DEF g
        <5>3. f[i] = The({Scanned(input, lspace, prior, i - 1) : prior \in {f[i - 1]}})
          BY <2>2, <4>1, <4>4
        <5> QED BY <4>2, <4>4, <5>2, <5>3
      <4> QED BY <4>3, <4>4
    <3> QED BY <3>1, <3>2
  <2>4. g = [i \in 0 .. k |-> IF i = 0 THEN First
                    ELSE The({Scanned(input, lspace, prior, i - 1) : prior \in {g[i - 1]}})]
    <3>1. g = [i \in 0 .. k |-> g[i]] OBVIOUS
    <3> HIDE DEF g
    <3> QED BY <2>3, <3>1
  <2> HIDE DEF g
  <2>5. Scans(input, lspace, g, k) BY <2>4 DEF Scans
  <2> QED BY <2>5
<1> HIDE DEF P
<1>3. n \in P BY <1>1, <1>2, Induction
<1> QED BY <1>3 DEF P

LEMMA AfterDelimitersIs ==
    ASSUME NEW input, IsSeq(input), NEW i \in 0 .. Len(input) - 1
    PROVE  AfterDelimiters(input, i) \in i + 1 .. Len(input)
<1> DEFINE S == {Len(input)} \union {j \in i + 1 .. Len(input) - 1 : input[j + 1] # Blank}
<1>1. Len(input) \in Nat BY IsSeqProperties
<1>2. S \subseteq i + 1 .. Len(input) /\ S # {} /\ S \subseteq Nat BY <1>1
<1>3. Min(S) \in S
  <2> HIDE DEF S
  <2> QED BY <1>2, MinIs
<1> QED BY <1>2, <1>3 DEF AfterDelimiters

(* A word of the line: a part of it, at its column.                           *)
WordAt(w, text) ==
    /\ w.col \in Nat /\ IsSeq(w.str) /\ w.col + Len(w.str) <= Len(text)
    /\ SubSeq(text, w.col + 1, w.col + Len(w.str)) = w.str
Cuts(input, lspace) ==
    {Word(input, p[1], p[2], lspace) : p \in {q \in (0 .. Len(input)) \X (0 .. Len(input)) : q[1] <= q[2]}}
ScannedTo(input, lspace, at, i) ==
    /\ DOMAIN at = {"s", "e", "quote", "items"} /\ at.s \in 0 .. Len(input) /\ at.e \in 0 .. i
    /\ at.items \in Seq(Cuts(input, lspace)) /\ 2 * Len(at.items) <= at.s
    /\ at.items = <<>> => at.s = 0

LEMMA CutIs ==
    ASSUME NEW input, NEW lspace, NEW a \in 0 .. Len(input), NEW b \in 0 .. Len(input), a <= b
    PROVE  Word(input, a, b, lspace) \in Cuts(input, lspace)
<1>1. <<a, b>> \in {q \in (0 .. Len(input)) \X (0 .. Len(input)) : q[1] <= q[2]} OBVIOUS
<1> QED BY <1>1 DEF Cuts

LEMMA ScannedKeeps ==
    ASSUME NEW input, IsSeq(input), NEW lspace, NEW prior, NEW i \in 0 .. Len(input) - 1,
           ScannedTo(input, lspace, prior, i)
    PROVE  ScannedTo(input, lspace, Scanned(input, lspace, prior, i), i + 1)
<1> DEFINE c == input[i + 1]
           w == Word(input, prior.s, i, lspace)
           after == AfterDelimiters(input, i)
<1>1. Len(input) \in Nat /\ i \in Nat BY IsSeqProperties
<1>2. /\ prior.s \in 0 .. Len(input) /\ prior.e \in 0 .. i
      /\ prior.items \in Seq(Cuts(input, lspace)) /\ 2 * Len(prior.items) <= prior.s
      /\ prior.items = <<>> => prior.s = 0
  BY DEF ScannedTo
<1>3. ScannedTo(input, lspace, prior, i + 1) BY <1>1, <1>2 DEF ScannedTo
<1>4. CASE i < prior.s BY <1>3, <1>4 DEF Scanned
<1>5. CASE ~(i < prior.s) /\ TogglesQuote(prior, c)
  <2> DEFINE new == [prior EXCEPT !.quote = Toggled(@, c)]
  <2>1. Scanned(input, lspace, prior, i) = new BY <1>5 DEF Scanned
  <2>2. new.s = prior.s /\ new.e = prior.e /\ new.items = prior.items /\ DOMAIN new = DOMAIN prior BY <1>2
  <2> HIDE DEF new
  <2> QED BY <1>3, <2>1, <2>2 DEF ScannedTo
<1>6. CASE ~(i < prior.s) /\ ~TogglesQuote(prior, c) /\ c = Blank /\ prior.quote = "none"
  <2>1. CASE prior.s < i
    <3> DEFINE new == [prior EXCEPT !.items = Append(@, w), !.s = after]
    <3>1. Scanned(input, lspace, prior, i) = new BY <1>6, <2>1 DEF Scanned
    <3>2. after \in i + 1 .. Len(input) BY AfterDelimitersIs
    <3>3. w \in Cuts(input, lspace) BY <1>1, <1>2, <2>1, CutIs
    <3>4. /\ Append(prior.items, w) \in Seq(Cuts(input, lspace))
          /\ Len(Append(prior.items, w)) = Len(prior.items) + 1 /\ Len(prior.items) \in Nat
      <4> HIDE DEF w
      <4> QED BY <1>2, <3>3
    <3> HIDE DEF w, after
    <3>5. new.s = after /\ new.e = prior.e /\ new.items = Append(prior.items, w) /\ DOMAIN new = DOMAIN prior
      BY <1>2
    <3> HIDE DEF new
    <3>6. after \in 0 .. Len(input) /\ 2 * (Len(prior.items) + 1) <= after BY <1>1, <1>2, <2>1, <3>2, <3>4
    <3>7. Append(prior.items, w) # <<>> BY <3>4
    <3> QED BY <1>1, <1>2, <3>1, <3>4, <3>5, <3>6, <3>7 DEF ScannedTo
  <2>2. CASE ~(prior.s < i)
    <3> DEFINE new == [prior EXCEPT !.e = i + 1]
    <3>1. Scanned(input, lspace, prior, i) = new BY <1>6, <2>2 DEF Scanned
    <3>2. new.s = prior.s /\ new.e = i + 1 /\ new.items = prior.items /\ DOMAIN new = DOMAIN prior BY <1>2
    <3> HIDE DEF new
    <3>3. i + 1 \in 0 .. i + 1 BY <1>1
    <3> QED BY <1>2, <3>1, <3>2, <3>3 DEF ScannedTo
  <2> QED BY <2>1, <2>2
<1>7. CASE ~(i < prior.s) /\ ~TogglesQuote(prior, c) /\ ~(c = Blank /\ prior.quote = "none")
  BY <1>3, <1>7 DEF Scanned
<1> QED BY <1>4, <1>5, <1>6, <1>7

LEMMA ScanKeeps ==
    ASSUME NEW input, IsSeq(input), NEW lspace, NEW scan, Scans(input, lspace, scan, Len(input))
    PROVE  \A i \in 0 .. Len(input) : ScannedTo(input, lspace, scan[i], i)
<1> DEFINE n == Len(input)
           P == {m \in Nat : m <= n => ScannedTo(input, lspace, scan[m], m)}
<1>1. n \in Nat BY IsSeqProperties
<1>2. ASSUME NEW i \in 0 .. n
      PROVE  scan[i] = IF i = 0 THEN First
                       ELSE The({Scanned(input, lspace, prior, i - 1) : prior \in {scan[i - 1]}})
  BY DEF Scans
<1>3. 0 \in P
  <2>1. 0 \in 0 .. n BY <1>1
  <2>2. scan[0] = First BY <1>2, <2>1
  <2>3. <<>> \in Seq(Cuts(input, lspace)) /\ Len(<<>>) = 0 OBVIOUS
  <2>4. /\ DOMAIN First = {"s", "e", "quote", "items"}
        /\ First.s = 0 /\ First.e = 0 /\ First.items = <<>>
    BY DEF First
  <2>5. ScannedTo(input, lspace, First, 0) BY <1>1, <2>3, <2>4 DEF ScannedTo
  <2> QED BY <2>2, <2>5
<1>4. ASSUME NEW m \in Nat, m \in P PROVE m + 1 \in P
  <2>1. CASE m + 1 <= n
    <3> DEFINE k == m + 1
    <3>1. k \in 0 .. n /\ k # 0 /\ k - 1 = m /\ m \in 0 .. n - 1 BY <1>1, <2>1
    <3>2. scan[k] = The({Scanned(input, lspace, prior, m) : prior \in {scan[m]}})
      <4> HIDE DEF k
      <4> QED BY <1>2, <3>1
    <3>3. {Scanned(input, lspace, prior, m) : prior \in {scan[m]}} = {Scanned(input, lspace, scan[m], m)}
      OBVIOUS
    <3>4. scan[k] = Scanned(input, lspace, scan[m], m) BY <3>2, <3>3 DEF The
    <3>5. ScannedTo(input, lspace, scan[m], m) BY <1>4, <3>1
    <3>6. ScannedTo(input, lspace, Scanned(input, lspace, scan[m], m), m + 1) BY <3>1, <3>5, ScannedKeeps
    <3> QED BY <3>4, <3>6
  <2>2. CASE ~(m + 1 <= n) BY <2>2
  <2> QED BY <2>1, <2>2
<1> HIDE DEF P
<1>5. \A m \in Nat : m \in P BY <1>3, <1>4, Induction
<1> QED BY <1>1, <1>5 DEF P

Left(input, lspace, last) ==
    IF (last.s + last.e = 0 /\ input # <<>>) \/ last.s # last.e
    THEN <<Word(input, last.s, Len(input), lspace)>> ELSE <<>>

LEMMA LeftIs ==
    ASSUME NEW input, IsSeq(input), NEW lspace, NEW last, ScannedTo(input, lspace, last, Len(input))
    PROVE  /\ last.items \o Left(input, lspace, last) \in Seq(Cuts(input, lspace))
           /\ Len(last.items \o Left(input, lspace, last)) <= Len(input)
<1> DEFINE W == Cuts(input, lspace)
           w == Word(input, last.s, Len(input), lspace)
           t == Left(input, lspace, last)
<1>1. Len(input) \in Nat /\ (input # <<>> => Len(input) # 0) BY IsSeqProperties, NotEmpty
<1>2. /\ last.s \in 0 .. Len(input) /\ last.e \in 0 .. Len(input) /\ last.items \in Seq(W)
      /\ 2 * Len(last.items) <= last.s /\ (last.items = <<>> => last.s = 0)
  BY DEF ScannedTo
<1>3. w \in W
  <2>1. Len(input) \in 0 .. Len(input) /\ last.s <= Len(input) BY <1>1, <1>2
  <2> QED BY <1>2, <2>1, CutIs
<1> HIDE DEF w, W
<1>4. t \in Seq(W) /\ Len(t) \in {0, 1} /\ (Len(t) = 1 => (last.s + last.e = 0 /\ input # <<>>) \/ last.s # last.e)
  BY <1>3 DEF Left, w
<1> HIDE DEF t
<1>5. last.items \o t \in Seq(W) /\ Len(last.items \o t) = Len(last.items) + Len(t)
  BY <1>2, <1>4, ConcatProperties
<1>6. Len(last.items) \in Nat /\ (last.items # <<>> => Len(last.items) >= 1) BY <1>2, EmptySeq
<1>7. Len(last.items) + Len(t) <= Len(input)
  <2>1. CASE Len(t) = 0 BY <1>1, <1>2, <1>6, <2>1
  <2>2. CASE Len(t) = 1
    <3>1. CASE last.items = <<>>
      <4>1. last.s = 0 /\ Len(last.items) = 0 BY <1>2, <3>1
      <4>2. Len(input) >= 1 BY <1>1, <1>2, <1>4, <2>2, <4>1
      <4> QED BY <2>2, <4>1, <4>2
    <3>2. CASE last.items # <<>>
      <4>1. Len(last.items) + 1 <= last.s BY <1>2, <1>6, <3>2
      <4> QED BY <1>1, <1>2, <1>6, <2>2, <4>1
    <3> QED BY <3>1, <3>2
  <2> QED BY <1>4, <2>1, <2>2
<1> QED BY <1>5, <1>7 DEF W, t

LEMMA WordsInAre ==
    ASSUME NEW input, IsSeq(input), NEW lspace
    PROVE  WordsIn(input, lspace) \in Seq(Cuts(input, lspace)) /\ Len(WordsIn(input, lspace)) <= Len(input)
<1> DEFINE n == Len(input)
           scan == CHOOSE f : f = [i \in 0 .. n |->
               IF i = 0 THEN [s |-> 0, e |-> 0, quote |-> "none", items |-> <<>>]
               ELSE The({Scanned(input, lspace, prior, i - 1) : prior \in {f[i - 1]}})]
           words == {last.items \o Left(input, lspace, last) : last \in {scan[n]}}
<1>1. n \in Nat BY IsSeqProperties
<1>2. Scans(input, lspace, scan, n)
  <2>1. \E f : f = [i \in 0 .. n |->
               IF i = 0 THEN [s |-> 0, e |-> 0, quote |-> "none", items |-> <<>>]
               ELSE The({Scanned(input, lspace, prior, i - 1) : prior \in {f[i - 1]}})]
    <3>1. PICK g : Scans(input, lspace, g, n) BY <1>1, ScanExists
    <3> QED BY <3>1 DEF Scans, First
  <2>2. scan = [i \in 0 .. n |->
               IF i = 0 THEN [s |-> 0, e |-> 0, quote |-> "none", items |-> <<>>]
               ELSE The({Scanned(input, lspace, prior, i - 1) : prior \in {scan[i - 1]}})]
    BY <2>1
  <2> HIDE DEF scan
  <2> QED BY <2>2 DEF Scans, First
<1>3. WordsIn(input, lspace) = The(words) BY Zenon DEF WordsIn, Left
<1> HIDE DEF scan
<1>4. n \in 0 .. n BY <1>1
<1>5. ScannedTo(input, lspace, scan[n], n) BY <1>2, <1>4, ScanKeeps
<1>6. The(words) = scan[n].items \o Left(input, lspace, scan[n]) BY DEF The
<1> HIDE DEF words
<1> QED BY <1>3, <1>5, <1>6, LeftIs

LEMMA ChompedIs ==
    ASSUME NEW s, IsSeq(s)
    PROVE  /\ IsSeq(Chomped(s)) /\ Len(Chomped(s)) <= Len(s)
           /\ Chomped(s) = IF s # <<>> /\ s[Len(s)] = Newline THEN SubSeq(s, 1, Len(s) - 1) ELSE SubSeq(s, 1, Len(s))
<1>1. Len(s) \in Nat /\ SubSeq(s, 1, Len(s)) = s BY IsSeqProperties, WholePart
<1>2. CASE s # <<>> /\ s[Len(s)] = Newline
  <2>1. Chomped(s) = SubSeq(s, 1, Len(s) - 1) BY <1>2 DEF Chomped, Last, Front
  <2>2. IsSeq(SubSeq(s, 1, Len(s) - 1)) /\ Len(SubSeq(s, 1, Len(s) - 1)) = Len(s) - 1 BY <1>2, Shortened
  <2> QED BY <1>1, <1>2, <2>1, <2>2
<1>3. CASE ~(s # <<>> /\ s[Len(s)] = Newline)
  <2>1. Chomped(s) = s BY <1>3 DEF Chomped, Last
  <2>2. (IF s # <<>> /\ s[Len(s)] = Newline THEN SubSeq(s, 1, Len(s) - 1) ELSE SubSeq(s, 1, Len(s))) = s
    BY <1>1, <1>3
  <2>3. IsSeq(Chomped(s)) /\ Len(Chomped(s)) <= Len(s) BY <1>1, <2>1
  <2> QED BY <2>1, <2>2, <2>3, Zenon
<1> QED BY <1>2, <1>3

LEMMA CutIsWord ==
    ASSUME NEW text, IsSeq(text), NEW m \in 0 .. Len(text), NEW n \in 0 .. m,
           NEW w \in Cuts(SubSeq(SubSeq(text, 1, m), n + 1, m), n)
    PROVE  WordAt(w, text)
<1> DEFINE prefix == SubSeq(text, 1, m)
           input == SubSeq(prefix, n + 1, m)
<1>1. IsSeq(prefix) /\ Len(prefix) = m /\ \A i \in 1 .. m : prefix[i] = text[i] BY FirstPart
<1>2. n \in 0 .. m /\ m \in n .. m /\ m \in Nat /\ n \in Nat /\ Len(text) \in Nat BY IsSeqProperties
<1>3. input = SubSeq(text, n + 1, m)
  <2>1. 0 \in 0 .. Len(text) /\ m \in 0 .. Len(text) /\ n \in 0 .. m - 0 /\ m \in n .. m - 0 BY <1>2
  <2>2. SubSeq(SubSeq(text, 0 + 1, m), n + 1, m) = SubSeq(text, 0 + n + 1, 0 + m) BY <2>1, PartOfPart
  <2>3. 0 + 1 = 1 /\ 0 + n + 1 = n + 1 /\ 0 + m = m BY <1>2
  <2> QED BY <2>2, <2>3
<1>4. n \in 0 .. Len(text) /\ m \in n .. Len(text) BY <1>2
<1>5. IsSeq(input) /\ Len(input) = m - n BY <1>3, <1>4, PartIs
<1> HIDE DEF prefix, input
<1>6. PICK a \in 0 .. m - n, b \in 0 .. m - n : a <= b /\ w = Word(input, a, b, n)
  <2>1. w \in Cuts(input, n) BY DEF input, prefix
  <2>2. PICK p \in {q \in (0 .. Len(input)) \X (0 .. Len(input)) : q[1] <= q[2]} : w = Word(input, p[1], p[2], n)
    BY <2>1 DEF Cuts
  <2>3. p[1] \in 0 .. m - n /\ p[2] \in 0 .. m - n /\ p[1] <= p[2] BY <1>5, <2>2
  <2> QED BY <2>2, <2>3
<1>7. w.col = a + n /\ w.str = SubSeq(input, a + 1, b) BY <1>6 DEF Word
<1>8. a \in 0 .. Len(input) /\ b \in a .. Len(input) BY <1>5, <1>6
<1>9. IsSeq(w.str) /\ Len(w.str) = b - a
  <2>1. IsSeq(SubSeq(input, a + 1, b)) /\ Len(SubSeq(input, a + 1, b)) = b - a BY <1>5, <1>8, PartIs
  <2> QED BY <1>7, <2>1
<1>10. SubSeq(input, a + 1, b) = SubSeq(text, n + a + 1, n + b)
  <2>1. a \in 0 .. m - n /\ b \in a .. m - n BY <1>5, <1>8
  <2> QED BY <1>3, <1>4, <2>1, PartOfPart
<1>11. /\ w.col \in Nat /\ w.col + Len(w.str) <= Len(text)
       /\ w.col + 1 = n + a + 1 /\ w.col + Len(w.str) = n + b
  BY <1>2, <1>6, <1>7, <1>9
<1> QED BY <1>7, <1>9, <1>10, <1>11 DEF WordAt

LEMMA SplitIs ==
    ASSUME NEW s, IsSeq(s)
    PROVE  /\ IsSeq(split(s)) /\ Len(split(s)) <= Len(Chomped(s))
           /\ \A j \in 1 .. Len(split(s)) : WordAt(split(s)[j], Chomped(s))
<1> DEFINE text == Chomped(s)
           trim == RightTrimmed(text)
           n == LeadingSpace(trim)
           input == SubSeq(trim, n + 1, Len(trim))
<1>1. IsSeq(text) BY ChompedIs
<1>2. split(s) = WordsIn(input, n) BY DEF split, The
<1> HIDE DEF text
<1>3. PICK m \in 0 .. Len(text) : trim = SubSeq(text, 1, m) BY <1>1, RightTrimmedIs
<1>4. IsSeq(trim) /\ Len(trim) = m BY <1>1, <1>3, FirstPart
<1> HIDE DEF trim
<1>5. n \in 0 .. m BY <1>4, LeadingSpaceIs
<1>6. Len(text) \in Nat /\ m \in Nat BY <1>1, IsSeqProperties
<1> HIDE DEF n
<1>7. IsSeq(input) /\ Len(input) = m - n
  <2>1. n \in 0 .. Len(trim) /\ Len(trim) \in n .. Len(trim) BY <1>4, <1>5, <1>6
  <2> QED BY <1>4, <2>1, PartIs
<1>8. input = SubSeq(SubSeq(text, 1, m), n + 1, m) BY <1>3, <1>4
<1> HIDE DEF input
<1>9. WordsIn(input, n) \in Seq(Cuts(input, n)) /\ Len(WordsIn(input, n)) <= m - n BY <1>7, WordsInAre
<1>10. \A w \in Cuts(input, n) : WordAt(w, text) BY <1>1, <1>5, <1>8, CutIsWord
<1>11. IsSeq(split(s)) BY <1>2, <1>9, SeqIsSeq
<1>12. Len(split(s)) <= Len(text)
  <2>1. Len(split(s)) \in Nat BY <1>11, IsSeqProperties
  <2> QED BY <1>2, <1>5, <1>6, <1>9, <2>1
<1>13. \A j \in 1 .. Len(split(s)) : WordAt(split(s)[j], text) BY <1>2, <1>9, <1>10, ElementOfSeq
<1> QED BY <1>11, <1>12, <1>13 DEF text

-----------------------------------------------------------------------------
(* Where the lines of a text start, and which of the lines is read next.      *)
Starts(text) == {i \in 0 .. Len(text) - 1 : i = 0 \/ text[i] = Newline}
Before(text, n) == {i \in Starts(text) : i < n}
EndOf(text, n) == Min({Len(text) + 1} \union {i \in n + 1 .. Len(text) : text[i] = Newline})

LEMMA LinesOfIs ==
    ASSUME NEW text
    PROVE  LinesOf(text) = [k \in 1 .. Cardinality(Starts(text)) |->
               SubSeq(text, Ascending(Starts(text))[k] + 1, EndOf(text, Ascending(Starts(text))[k]) - 1)]
<1>1. DOMAIN Ascending(Starts(text)) = 1 .. Cardinality(Starts(text)) BY DEF Ascending
<1> QED BY <1>1 DEF LinesOf, Starts, EndOf

LEMMA StartsAreFinite ==
    ASSUME NEW text, IsSeq(text), NEW n
    PROVE  /\ IsFiniteSet(Starts(text)) /\ Cardinality(Starts(text)) \in Nat
           /\ IsFiniteSet(Before(text, n)) /\ Cardinality(Before(text, n)) \in Nat
           /\ Cardinality(Before(text, n)) <= Cardinality(Starts(text))
<1>1. Len(text) \in Nat /\ Len(text) - 1 \in Int BY IsSeqProperties
<1>2. IsFiniteSet(0 .. Len(text) - 1) BY <1>1, FS_Interval
<1>3. Starts(text) \in SUBSET (0 .. Len(text) - 1) BY DEF Starts
<1>4. IsFiniteSet(Starts(text)) BY <1>2, <1>3, FS_Subset
<1>5. Before(text, n) \in SUBSET Starts(text) BY DEF Before
<1>6. IsFiniteSet(Before(text, n)) /\ Cardinality(Before(text, n)) <= Cardinality(Starts(text))
  BY <1>4, <1>5, FS_Subset
<1> QED BY <1>4, <1>6, FS_CardinalityType

LEMMA NthStart ==
    ASSUME NEW text, IsSeq(text), NEW n \in Starts(text)
    PROVE  LET k == Cardinality(Before(text, n)) + 1
           IN /\ k \in 1 .. Cardinality(Starts(text)) /\ Ascending(Starts(text))[k] = n
              /\ LinesOf(text)[k] = SubSeq(text, n + 1, EndOf(text, n) - 1)
<1> DEFINE S == Starts(text)
           B == Before(text, n)
           k == Cardinality(B) + 1
           UpTo(x) == {y \in S : y <= x}
<1>1. S \subseteq Nat BY IsSeqProperties DEF Starts
<1>2. IsFiniteSet(S) /\ Cardinality(S) \in Nat /\ IsFiniteSet(B) /\ Cardinality(B) \in Nat BY StartsAreFinite
<1>3. UpTo(n) = B \union {n} /\ n \notin B
  <2>1. \A y \in S : y <= n <=> (y < n \/ y = n) BY <1>1
  <2> QED BY <1>1, <2>1 DEF Before
<1>4. Cardinality(UpTo(n)) = k BY <1>2, <1>3, FS_AddElement
<1>5. \A x \in S : IsFiniteSet(UpTo(x)) /\ Cardinality(UpTo(x)) \in Nat /\ Cardinality(UpTo(x)) <= Cardinality(S)
  <2>1. TAKE x \in S
  <2>2. UpTo(x) \in SUBSET S OBVIOUS
  <2>3. IsFiniteSet(UpTo(x)) /\ Cardinality(UpTo(x)) <= Cardinality(S) BY <1>2, <2>2, FS_Subset
  <2> QED BY <2>3, FS_CardinalityType
<1>6. \A x \in S, y \in S : Cardinality(UpTo(x)) = Cardinality(UpTo(y)) /\ x <= y => x = y
  <2>1. SUFFICES ASSUME NEW x \in S, NEW y \in S, Cardinality(UpTo(x)) = Cardinality(UpTo(y)), x <= y PROVE x = y
    OBVIOUS
  <2>2. UpTo(x) \in SUBSET UpTo(y)
    <3>1. \A z \in S : z <= x => z <= y BY <1>1, <2>1
    <3> QED BY <3>1
  <2>3. UpTo(x) = UpTo(y) BY <1>5, <2>1, <2>2, FS_Subset
  <2>4. y \in UpTo(x) BY <1>1, <2>3
  <2> QED BY <1>1, <2>1, <2>4
<1>7. k \in 1 .. Cardinality(S)
  <2>1. Cardinality(UpTo(n)) <= Cardinality(S) BY <1>5
  <2> HIDE DEF UpTo, S, B
  <2> QED BY <1>2, <1>4, <2>1
<1>8. Ascending(S)[k] = CHOOSE x \in S : Cardinality(UpTo(x)) = k BY <1>7 DEF Ascending
<1> HIDE DEF k
<1>9. \A x \in S : Cardinality(UpTo(x)) = k => x = n
  <2>1. TAKE x \in S
  <2>2. x <= n \/ n <= x BY <1>1
  <2> HIDE DEF UpTo, S
  <2> QED BY <1>4, <1>6, <2>2 DEF S
<1>10. Ascending(S)[k] = n
  <2> HIDE DEF UpTo, S
  <2>1. n \in S BY DEF S
  <2> QED BY <1>4, <1>8, <1>9, <2>1
<1>11. LinesOf(text)[k] = SubSeq(text, n + 1, EndOf(text, n) - 1) BY <1>7, <1>10, LinesOfIs
<1> QED BY <1>7, <1>10, <1>11 DEF k

(* fgets takes a part of what is left, and a line of it if the buffer is long *)
(* enough for that line, its newline and the terminator.                      *)
LEMMA GetsIs ==
    ASSUME NEW text, IsSeq(text), text # <<>>, NEW cap \in Nat \ {0, 1}
    PROVE  \E r \in 1 .. Len(text) :
               /\ Gets(text, cap) = SubSeq(text, 1, r) /\ IsSeq(Gets(text, cap)) /\ Len(Gets(text, cap)) = r
               /\ r <= cap - 1 /\ \A i \in 1 .. r - 1 : text[i] # Newline
               /\ r = cap - 1 \/ r = Len(text) \/ text[r] = Newline
<1> DEFINE N == {i \in DOMAIN text : text[i] = Newline}
           S == {Len(text)} \union N
           l == Min(S)
           r == Min({l, cap - 1})
<1>1. DOMAIN text = 1 .. Len(text) /\ Len(text) \in Nat /\ Len(text) >= 1 BY IsSeqProperties, NotEmpty
<1>2. S \subseteq Nat /\ S # {} /\ S \subseteq 1 .. Len(text) BY <1>1
<1>3. l \in S /\ \A y \in S : l <= y
  <2> HIDE DEF S
  <2> QED BY <1>2, MinIs
<1>4. l \in 1 .. Len(text) /\ (l = Len(text) \/ text[l] = Newline) /\ \A i \in 1 .. l - 1 : text[i] # Newline
  <2>1. l \in 1 .. Len(text) /\ (l = Len(text) \/ text[l] = Newline) BY <1>2, <1>3
  <2>2. ASSUME NEW i \in 1 .. l - 1 PROVE text[i] # Newline
    <3>1. i \in DOMAIN text /\ ~(l <= i) BY <1>1, <2>1
    <3>2. i \notin S BY <1>3, <3>1
    <3> QED BY <3>1, <3>2
  <2> QED BY <2>1, <2>2
<1>11. l \in 1 .. Len(text) BY <1>4
<1>12. l \in Nat /\ l <= Len(text) /\ l >= 1
  <2> HIDE DEF l
  <2> QED BY <1>1, <1>11
<1>5. Gets(text, cap) = SubSeq(text, 1, r) BY DEF Gets
<1>0. cap - 1 \in Nat /\ cap - 1 >= 1 OBVIOUS
<1> HIDE DEF l
<1>6. r \in {l, cap - 1} /\ r <= l /\ r <= cap - 1
  <2> DEFINE k == cap - 1
  <2>1. l \in Nat /\ k \in Nat BY <1>0, <1>12
  <2> HIDE DEF k
  <2>2. {l, k} \subseteq Nat /\ {l, k} # {} BY <2>1
  <2>3. Min({l, k}) \in {l, k} /\ \A y \in {l, k} : Min({l, k}) <= y BY <2>2, MinIs
  <2> QED BY <2>3 DEF k
<1> HIDE DEF r
<1>7. r \in 1 .. Len(text)
  <2>1. CASE r = l BY <1>4, <2>1
  <2>2. CASE r = cap - 1
    <3>1. r \in Nat /\ r >= 1 BY <1>0, <2>2
    <3> QED BY <1>1, <1>6, <1>12, <3>1
  <2> QED BY <1>6, <2>1, <2>2
<1>8. \A i \in 1 .. r - 1 : text[i] # Newline
  <2>1. \A i \in 1 .. r - 1 : i \in 1 .. l - 1 BY <1>4, <1>6, <1>7
  <2> QED BY <1>4, <2>1
<1>9. r = cap - 1 \/ r = Len(text) \/ text[r] = Newline BY <1>4, <1>6
<1>10. IsSeq(SubSeq(text, 1, r)) /\ Len(SubSeq(text, 1, r)) = r
  <2>1. r \in 0 .. Len(text) BY <1>1, <1>7
  <2> QED BY <2>1, FirstPart
<1> QED BY <1>5, <1>6, <1>7, <1>8, <1>9, <1>10

LEMMA EndOfIs ==
    ASSUME NEW text, IsSeq(text), NEW n \in 0 .. Len(text)
    PROVE  LET e == EndOf(text, n)
           IN /\ e \in n + 1 .. Len(text) + 1
              /\ e = Len(text) + 1 \/ text[e] = Newline
              /\ \A i \in n + 1 .. e - 1 : text[i] # Newline
<1> DEFINE N == {i \in n + 1 .. Len(text) : text[i] = Newline}
           S == {Len(text) + 1} \union N
           e == EndOf(text, n)
<1>1. Len(text) \in Nat BY IsSeqProperties
<1>2. S \subseteq Nat /\ S # {} /\ S \subseteq n + 1 .. Len(text) + 1 BY <1>1
<1>3. e \in S /\ \A y \in S : e <= y
  <2>1. e = Min(S) BY DEF EndOf
  <2> HIDE DEF S, e
  <2> QED BY <1>2, <2>1, MinIs
<1> HIDE DEF e
<1>4. e \in n + 1 .. Len(text) + 1 /\ (e = Len(text) + 1 \/ text[e] = Newline) BY <1>2, <1>3
<1>5. ASSUME NEW i \in n + 1 .. e - 1 PROVE text[i] # Newline
  <2>1. i \in n + 1 .. Len(text) /\ ~(e <= i) BY <1>1, <1>4
  <2>2. i \notin S BY <1>3, <2>1
  <2> QED BY <2>1, <2>2
<1> QED BY <1>4, <1>5 DEF e

LEMMA GetsALine ==
    ASSUME NEW text, IsSeq(text), NEW n \in 0 .. Len(text) - 1, NEW cap \in Nat \ {0, 1},
           EndOf(text, n) - n <= cap - 1
    PROVE  LET read == Gets(SubSeq(text, n + 1, Len(text)), cap)
           IN /\ Chomped(read) = SubSeq(text, n + 1, EndOf(text, n) - 1)
              /\ n + Len(read) = IF EndOf(text, n) = Len(text) + 1 THEN Len(text) ELSE EndOf(text, n)
<1> DEFINE e == EndOf(text, n)
           rest == SubSeq(text, n + 1, Len(text))
           read == Gets(rest, cap)
           len == Len(text)
<1>1. len \in Nat /\ n \in 0 .. len /\ len \in n .. len BY IsSeqProperties
<1>2. IsSeq(rest) /\ Len(rest) = len - n /\ \A i \in 1 .. len - n : rest[i] = text[n + i] BY <1>1, PartIs
<1>3. /\ e \in n + 1 .. len + 1 /\ (e = len + 1 \/ text[e] = Newline)
      /\ \A i \in n + 1 .. e - 1 : text[i] # Newline
  BY <1>1, EndOfIs
<1>4. e - n <= cap - 1 OBVIOUS
<1>5. SubSeq(rest, 1, len - n) = rest BY <1>2, WholePart
<1>6. \A c \in 0 .. len - n : SubSeq(rest, 1, c) = SubSeq(text, n + 1, n + c)
  <2>1. TAKE c \in 0 .. len - n
  <2>2. 0 \in 0 .. len - n /\ c \in 0 .. len - n /\ 0 + 1 = 1 /\ n + 0 + 1 = n + 1 BY <1>1
  <2>3. SubSeq(SubSeq(text, n + 1, len), 0 + 1, c) = SubSeq(text, n + 0 + 1, n + c) BY <1>1, <2>2, PartOfPart
  <2> QED BY <2>2, <2>3
<1> HIDE DEF e, rest, len
<1>7. rest # <<>>
  <2>1. Len(rest) # 0 BY <1>1, <1>2 DEF len
  <2> QED BY <2>1
<1>8. PICK r \in 1 .. len - n :
          /\ read = SubSeq(rest, 1, r) /\ IsSeq(read) /\ Len(read) = r
          /\ r <= cap - 1 /\ \A i \in 1 .. r - 1 : rest[i] # Newline
          /\ r = cap - 1 \/ r = len - n \/ rest[r] = Newline
  <2>1. \E r \in 1 .. Len(rest) :
          /\ read = SubSeq(rest, 1, r) /\ IsSeq(read) /\ Len(read) = r
          /\ r <= cap - 1 /\ \A i \in 1 .. r - 1 : rest[i] # Newline
          /\ r = cap - 1 \/ r = Len(rest) \/ rest[r] = Newline
    BY <1>2, <1>7, GetsIs
  <2> HIDE DEF read
  <2> QED BY <1>2, <2>1
<1> HIDE DEF read
<1>9. read[r] = rest[r] /\ rest[r] = text[n + r] /\ read # <<>>
  <2>1. r \in 0 .. len - n /\ r \in 1 .. r BY <1>1, <1>8
  <2>2. read[r] = rest[r] BY <1>2, <1>8, <2>1, FirstPart
  <2>3. Len(read) # 0 BY <1>8
  <2> QED BY <1>2, <1>8, <2>2, <2>3
<1>10. \A c \in 0 .. r : SubSeq(read, 1, c) = SubSeq(text, n + 1, n + c)
  <2>1. TAKE c \in 0 .. r
  <2>2. r \in 0 .. len - n /\ c \in 0 .. len - n BY <1>1, <1>8
  <2>3. SubSeq(SubSeq(rest, 1, r), 1, c) = SubSeq(rest, 1, c) BY <1>2, <2>2, FirstPart
  <2> QED BY <1>6, <1>8, <2>2, <2>3
<1>11. Chomped(read) = IF read[r] = Newline THEN SubSeq(text, n + 1, n + (r - 1)) ELSE SubSeq(text, n + 1, n + r)
  <2>1. Chomped(read) = IF read # <<>> /\ read[Len(read)] = Newline
                        THEN SubSeq(read, 1, Len(read) - 1) ELSE SubSeq(read, 1, Len(read))
    BY <1>8, ChompedIs
  <2>2. Chomped(read) = IF read[r] = Newline THEN SubSeq(read, 1, r - 1) ELSE SubSeq(read, 1, r)
    BY <1>8, <1>9, <2>1
  <2>3. r \in 0 .. r /\ r - 1 \in 0 .. r BY <1>1, <1>8
  <2>4. SubSeq(read, 1, r - 1) = SubSeq(text, n + 1, n + (r - 1)) BY <1>10, <2>3
  <2>5. SubSeq(read, 1, r) = SubSeq(text, n + 1, n + r) BY <1>10, <2>3
  <2> QED BY <2>2, <2>4, <2>5
<1>12. CASE e = len + 1
  <2>1. \A i \in 1 .. len - n : rest[i] # Newline
    <3>1. \A i \in 1 .. len - n : n + i \in n + 1 .. e - 1 BY <1>1, <1>12
    <3> QED BY <1>2, <1>3, <3>1
  <2>2. r = len - n BY <1>1, <1>4, <1>8, <1>12, <2>1
  <2>3. n + r = e - 1 /\ read[r] # Newline BY <1>1, <1>8, <1>9, <1>12, <2>1, <2>2
  <2>4. Chomped(read) = SubSeq(text, n + 1, e - 1) BY <1>11, <2>3
  <2>5. n + Len(read) = len BY <1>1, <1>8, <2>2
  <2> QED BY <1>12, <2>4, <2>5 DEF e, read, rest, len
<1>13. CASE e # len + 1
  <2>1. text[e] = Newline /\ e \in n + 1 .. len /\ n + (e - n) = e /\ e - n \in 1 .. len - n BY <1>1, <1>3, <1>13
  <2>2. rest[e - n] = Newline BY <1>2, <2>1
  <2>3. r <= e - n
    <3>1. ~(e - n \in 1 .. r - 1) BY <1>8, <2>2
    <3> QED BY <1>1, <1>8, <2>1, <3>1
  <2>4. r >= e - n
    <3>1. CASE r = cap - 1 BY <1>1, <1>4, <2>1, <3>1
    <3>2. CASE r = len - n BY <1>1, <2>1, <3>2
    <3>3. CASE rest[r] = Newline
      <4>1. ~(n + r \in n + 1 .. e - 1) BY <1>3, <1>9, <3>3
      <4> QED BY <1>1, <1>8, <2>1, <4>1
    <3> QED BY <1>8, <3>1, <3>2, <3>3
  <2>5. r = e - n BY <1>1, <1>8, <2>1, <2>3, <2>4
  <2>6. read[r] = Newline /\ n + (r - 1) = e - 1 /\ n + Len(read) = e BY <1>1, <1>8, <1>9, <2>1, <2>2, <2>5
  <2>7. Chomped(read) = SubSeq(text, n + 1, e - 1) BY <1>11, <2>6
  <2> QED BY <1>13, <2>6, <2>7 DEF e, read, rest, len
<1> QED BY <1>12, <1>13

-----------------------------------------------------------------------------
(* What has been read of a text: the lines up to a place of it.  If the lines *)
(* fit the buffer, that place is a line's start, and the words that were cut  *)
(* out of a line stand in it.                                                 *)
FitsBuffer(text) == \A k \in DOMAIN LinesOf(text) : Len(LinesOf(text)[k]) + 2 <= LINE_CAP
ReadTo(text, lines, n) ==
    /\ n \in Starts(text) \union {Len(text)} /\ Len(lines) = Cardinality(Before(text, n))
    /\ Len(lines) <= Len(LinesOf(text))
    /\ \A k \in 1 .. Len(lines) :
          /\ Len(lines[k]) <= Len(LinesOf(text)[k])
          /\ \A j \in 1 .. Len(lines[k]) : WordAt(lines[k][j], LinesOf(text)[k])
ReadSoFar(text, lines, unread) ==
    /\ IsSeq(lines) /\ \A k \in 1 .. Len(lines) : IsSeq(lines[k])
    /\ \E n \in 0 .. Len(text) :
          unread = SubSeq(text, n + 1, Len(text)) /\ (FitsBuffer(text) => ReadTo(text, lines, n))

LEMMA LinesOfLength ==
    ASSUME NEW text, IsSeq(text)
    PROVE  /\ DOMAIN LinesOf(text) = 1 .. Cardinality(Starts(text))
           /\ Len(LinesOf(text)) = Cardinality(Starts(text)) /\ Len(LinesOf(text)) \in Nat
<1> DEFINE n == Cardinality(Starts(text))
           line_(k) == SubSeq(text, Ascending(Starts(text))[k] + 1, EndOf(text, Ascending(Starts(text))[k]) - 1)
<1>1. n \in Nat BY StartsAreFinite
<1>2. LinesOf(text) = [k \in 1 .. n |-> line_(k)] BY LinesOfIs
<1> HIDE DEF n, line_
<1>3. DOMAIN LinesOf(text) = 1 .. n BY <1>2
<1>4. LinesOf(text) \in Seq({line_(k) : k \in 1 .. n}) BY <1>1, <1>2
<1>5. Len(LinesOf(text)) = n BY <1>1, <1>2
<1> QED BY <1>1, <1>3, <1>5 DEF n

LEMMA NothingRead ==
    ASSUME NEW text, IsSeq(text) PROVE ReadSoFar(text, <<>>, text)
<1>1. Len(text) \in Nat /\ 0 \in 0 .. Len(text) /\ SubSeq(text, 0 + 1, Len(text)) = text
  <2>1. Len(text) \in Nat /\ 0 + 1 = 1 BY IsSeqProperties
  <2> QED BY <2>1, WholePart
<1>2. IsSeq(<<>>) /\ Len(<<>>) = 0 BY DEF IsSeq
<1>3. 0 \in Starts(text) \union {Len(text)}
  <2>1. CASE Len(text) = 0 BY <2>1
  <2>2. CASE Len(text) # 0 BY <1>1, <2>2 DEF Starts
  <2> QED BY <2>1, <2>2
<1>4. Before(text, 0) = {}
  <2>1. \A i \in Starts(text) : ~(i < 0) BY <1>1 DEF Starts
  <2> QED BY <2>1 DEF Before
<1>5. Cardinality(Before(text, 0)) = 0 BY <1>4, FS_EmptySet
<1>6. Len(LinesOf(text)) \in Nat BY LinesOfLength
<1>7. \A k : k \notin 1 .. Len(<<>>) BY <1>2
<1>8. ReadTo(text, <<>>, 0) BY <1>2, <1>3, <1>5, <1>6, <1>7 DEF ReadTo
<1> QED BY <1>1, <1>2, <1>7, <1>8 DEF ReadSoFar

LEMMA NextLineRead ==
    ASSUME NEW text, IsSeq(text), FitsBuffer(text), NEW lines, IsSeq(lines),
           NEW n \in 0 .. Len(text) - 1, ReadTo(text, lines, n),
           NEW read, read = Gets(SubSeq(text, n + 1, Len(text)), LINE_CAP), IsSeq(read)
    PROVE  ReadTo(text, Append(lines, split(read)), n + Len(read))
<1> DEFINE e == EndOf(text, n)
           k == Len(lines) + 1
           m == n + Len(read)
           all == LinesOf(text)
           items == split(read)
           more == Append(lines, items)
<1>1. Len(text) \in Nat /\ Len(lines) \in Nat /\ n \in 0 .. Len(text) /\ n \in Nat BY IsSeqProperties
<1>2. n \in Starts(text)
  <2>1. n # Len(text) BY <1>1
  <2> QED BY <2>1 DEF ReadTo
<1>3. Len(lines) = Cardinality(Before(text, n)) BY DEF ReadTo
<1>4. /\ k \in 1 .. Cardinality(Starts(text)) /\ all[k] = SubSeq(text, n + 1, e - 1)
  BY <1>2, <1>3, NthStart
<1>5. /\ e \in n + 1 .. Len(text) + 1 /\ (e = Len(text) + 1 \/ text[e] = Newline)
      /\ \A i \in n + 1 .. e - 1 : text[i] # Newline
  BY <1>1, EndOfIs
<1>6. DOMAIN all = 1 .. Cardinality(Starts(text)) /\ Len(all) = Cardinality(Starts(text)) /\ Len(all) \in Nat
  BY LinesOfLength
<1> HIDE DEF e, all
<1>7. Len(all[k]) = e - 1 - n
  <2> DEFINE f == e - 1
  <2>1. f \in n .. Len(text) BY <1>1, <1>5
  <2> HIDE DEF f
  <2>2. Len(SubSeq(text, n + 1, f)) = f - n BY <1>1, <2>1, PartIs
  <2> QED BY <1>4, <2>2 DEF f
<1>8. LINE_CAP \in Nat \ {0, 1} BY LexerAssumption
<1>9. e - n <= LINE_CAP - 1
  <2>1. Len(all[k]) + 2 <= LINE_CAP BY <1>4, <1>6 DEF FitsBuffer, all
  <2>2. LINE_CAP \in Nat BY <1>8
  <2> QED BY <1>1, <1>5, <1>7, <2>1, <2>2
<1>10. Chomped(read) = all[k] /\ m = (IF e = Len(text) + 1 THEN Len(text) ELSE e)
  BY <1>4, <1>8, <1>9, GetsALine DEF e
<1> HIDE DEF m
<1>11. m \in n + 1 .. Len(text) /\ \A i \in n + 1 .. m - 1 : text[i] # Newline BY <1>1, <1>5, <1>10
<1>12. m \in Starts(text) \union {Len(text)}
  <2>1. CASE e = Len(text) + 1 BY <1>10, <2>1
  <2>2. CASE e # Len(text) + 1
    <3>1. m = e /\ text[m] = Newline BY <1>5, <1>10, <2>2
    <3>2. m = Len(text) \/ m \in 0 .. Len(text) - 1 BY <1>1, <1>11
    <3> QED BY <3>1, <3>2 DEF Starts
  <2> QED BY <2>1, <2>2
<1>13. Before(text, m) = Before(text, n) \union {n} /\ n \notin Before(text, n)
  <2>1. \A i \in Starts(text) : i < m <=> (i < n \/ i = n)
    <3>1. TAKE i \in Starts(text)
    <3>2. i \in Nat /\ (i = 0 \/ text[i] = Newline) BY <1>1 DEF Starts
    <3>3. ~(i \in n + 1 .. m - 1)
      <4>1. SUFFICES ASSUME i \in n + 1 .. m - 1 PROVE FALSE OBVIOUS
      <4>2. text[i] # Newline /\ i # 0 BY <1>1, <1>11, <4>1
      <4> QED BY <3>2, <4>2
    <3> QED BY <1>1, <1>11, <3>2, <3>3
  <2>2. ~(n < n) BY <1>1
  <2> QED BY <1>2, <2>1, <2>2 DEF Before
<1>14. Cardinality(Before(text, m)) = Cardinality(Before(text, n)) + 1
  <2>1. IsFiniteSet(Before(text, n)) BY StartsAreFinite
  <2> QED BY <1>13, <2>1, FS_AddElement
<1>15. IsSeq(items) /\ Len(items) <= Len(all[k]) /\ \A j \in 1 .. Len(items) : WordAt(items[j], all[k])
  BY <1>10, SplitIs
<1> HIDE DEF items
<1>16. /\ Len(more) = k /\ more[k] = items /\ \A i \in 1 .. Len(lines) : more[i] = lines[i]
  BY Appended
<1> HIDE DEF more
<1>17. Len(more) = Cardinality(Before(text, m)) /\ Len(more) <= Len(all) BY <1>3, <1>4, <1>6, <1>14, <1>16
<1>18. ASSUME NEW i \in 1 .. Len(more)
       PROVE  Len(more[i]) <= Len(all[i]) /\ \A j \in 1 .. Len(more[i]) : WordAt(more[i][j], all[i])
  <2>1. CASE i = k BY <1>15, <1>16, <2>1
  <2>2. CASE i # k
    <3>1. i \in 1 .. Len(lines) BY <1>1, <1>16, <2>2
    <3> QED BY <1>16, <3>1 DEF ReadTo, all
  <2> QED BY <2>1, <2>2
<1>19. ReadTo(text, more, m) BY <1>12, <1>17, <1>18 DEF ReadTo, all
<1> QED BY <1>19 DEF more, m, items

LEMMA LineReadKeeps ==
    ASSUME NEW text, IsSeq(text), NEW lines, NEW unread, ReadSoFar(text, lines, unread), unread # <<>>,
           NEW read, read = Gets(unread, LINE_CAP)
    PROVE  /\ ReadSoFar(text, Append(lines, split(read)), SubSeq(unread, Len(read) + 1, Len(unread)))
           /\ Len(Append(lines, split(read))) = Len(lines) + 1
<1>1. PICK n \in 0 .. Len(text) :
          unread = SubSeq(text, n + 1, Len(text)) /\ (FitsBuffer(text) => ReadTo(text, lines, n))
  BY DEF ReadSoFar
<1>2. IsSeq(lines) /\ \A k \in 1 .. Len(lines) : IsSeq(lines[k]) BY DEF ReadSoFar
<1>3. Len(text) \in Nat /\ Len(lines) \in Nat BY <1>2, IsSeqProperties
<1>4. IsSeq(unread) /\ Len(unread) = Len(text) - n
  <2>1. n \in 0 .. Len(text) /\ Len(text) \in n .. Len(text) BY <1>3
  <2> QED BY <1>1, <2>1, PartIs
<1>5. Len(unread) \in Nat /\ Len(unread) >= 1 BY <1>4, NotEmpty
<1>6. n \in 0 .. Len(text) - 1 BY <1>3, <1>4, <1>5
<1>7. LINE_CAP \in Nat \ {0, 1} BY LexerAssumption
<1>8. IsSeq(read) /\ Len(read) \in 1 .. Len(unread) BY <1>4, <1>7, GetsIs
<1> DEFINE r == Len(read)
           m == n + r
           items == split(read)
<1>9. SubSeq(unread, r + 1, Len(unread)) = SubSeq(text, m + 1, Len(text))
  <2> DEFINE l == Len(text)
  <2>1. n \in 0 .. l /\ l \in n .. l /\ r \in 0 .. l - n /\ l - n \in r .. l - n BY <1>3, <1>4, <1>8
  <2>2. SubSeq(SubSeq(text, n + 1, l), r + 1, l - n) = SubSeq(text, n + r + 1, n + (l - n)) BY <2>1, PartOfPart
  <2>3. n + (l - n) = l /\ Len(unread) = l - n BY <1>3, <1>4
  <2> QED BY <1>1, <2>2, <2>3
<1>10. m \in 0 .. Len(text) BY <1>3, <1>4, <1>8
<1>11. FitsBuffer(text) => ReadTo(text, Append(lines, items), m) BY <1>1, <1>2, <1>6, <1>8, NextLineRead
<1>12. IsSeq(items) BY <1>8, SplitIs
<1> HIDE DEF items, m, r
<1>13. /\ IsSeq(Append(lines, items)) /\ Len(Append(lines, items)) = Len(lines) + 1
       /\ Append(lines, items)[Len(lines) + 1] = items
       /\ \A i \in 1 .. Len(lines) : Append(lines, items)[i] = lines[i]
  BY <1>2, Appended
<1>14. \A k \in 1 .. Len(Append(lines, items)) : IsSeq(Append(lines, items)[k])
  <2>1. TAKE k \in 1 .. Len(Append(lines, items))
  <2>2. k \in 1 .. Len(lines) \/ k = Len(lines) + 1 BY <1>3, <1>13
  <2> QED BY <1>2, <1>12, <1>13, <2>2
<1>15. ReadSoFar(text, Append(lines, items), SubSeq(unread, r + 1, Len(unread)))
  BY <1>9, <1>10, <1>11, <1>13, <1>14 DEF ReadSoFar
<1> QED BY <1>13, <1>15 DEF items, r

-----------------------------------------------------------------------------
(* The invariant of the lexer: each open file is read up to a place of it,    *)
(* and each token's location is that of its word.                             *)
TokenAt(d, files, locs, token) ==
    LET at == locs[token.loc_id + 1]
        lines == LinesOf(d[files[at.file_id + 1]])
    IN /\ token.loc_id + 1 \in 1 .. Len(locs) /\ at.file_id + 1 \in 1 .. Len(files)
       /\ FitsBuffer(d[files[at.file_id + 1]]) =>
             /\ at.row < Len(lines)
             /\ SubSeq(lines[at.row + 1], at.col + 1, at.col + Len(token.str)) = token.str
Tokens(d, files, locs, l) == \A p \in DOMAIN l.tokens : TokenAt(d, files, locs, l.tokens[p])
Reader(d, files, l) ==
    /\ DOMAIN l = {"file_id", "unread", "lines", "lexing", "row", "i", "tokens", "count"}
    /\ l.file_id \in Nat /\ l.file_id + 1 \in 1 .. Len(files)
    /\ ReadSoFar(d[files[l.file_id + 1]], l.lines, l.unread)
    /\ l.row \in 0 .. Len(l.lines) /\ l.i \in Nat \ {0}
    /\ l.i = 1 \/ (l.row < Len(l.lines) /\ l.i <= Len(l.lines[l.row + 1]) + 1)
InFront(ls) == \A k \in 1 .. Len(ls) - 1 : ls[k].row < Len(ls[k].lines)
Named(d, files) == IsSeq(files) /\ \A k \in 1 .. Len(files) : files[k] \in DOMAIN d
Readers(d, files, locs, ls) ==
    /\ IsSeq(ls) /\ InFront(ls)
    /\ \A k \in 1 .. Len(ls) : Reader(d, files, ls[k]) /\ Tokens(d, files, locs, ls[k])
InvOfLexer ==
    /\ disk \in Disks /\ Named(disk, FILES) /\ IsSeq(LOCS) /\ Readers(disk, FILES, LOCS, lexers)
    /\ Len(lexers) <= Len(FILES)
    /\ stage \in {"start", "lexing"} \union Halted /\ (stage = "start" => lexers = <<>>)
    /\ (stage = "lexing" => lexers # <<>>)

LEMMA TextIs ==
    ASSUME NEW d \in Disks, NEW files, Named(d, files), NEW k \in 1 .. Len(files)
    PROVE  IsSeq(d[files[k]])
<1>1. files[k] \in DOMAIN d BY DEF Named
<1> QED BY <1>1, LexerAssumption DEF IsSeq, IsText

(* FILES and LOCS only grow, and what points into them stays.                 *)
LEMMA FilesGrow ==
    ASSUME NEW d, NEW files, Named(d, files), NEW path \in DOMAIN d
    PROVE  /\ Named(d, Append(files, path)) /\ Len(Append(files, path)) = Len(files) + 1
           /\ Append(files, path)[Len(files) + 1] = path
           /\ \A l : Reader(d, files, l) => Reader(d, Append(files, path), l)
           /\ \A locs, l : Tokens(d, files, locs, l) => Tokens(d, Append(files, path), locs, l)
<1> DEFINE more == Append(files, path)
<1>1. IsSeq(files) /\ Len(files) \in Nat /\ \A k \in 1 .. Len(files) : files[k] \in DOMAIN d
  BY IsSeqProperties DEF Named
<1>2. /\ IsSeq(more) /\ Len(more) = Len(files) + 1 /\ more[Len(files) + 1] = path
      /\ \A i \in 1 .. Len(files) : more[i] = files[i]
  BY <1>1, Appended
<1> HIDE DEF more
<1>3. Named(d, more)
  <2>1. \A k \in 1 .. Len(more) : k \in 1 .. Len(files) \/ k = Len(files) + 1 BY <1>1, <1>2
  <2> QED BY <1>1, <1>2, <2>1 DEF Named
<1>4. \A k \in 1 .. Len(files) : k \in 1 .. Len(more) BY <1>1, <1>2
<1>5. ASSUME NEW l, Reader(d, files, l) PROVE Reader(d, more, l) BY <1>2, <1>4, <1>5 DEF Reader
<1>6. ASSUME NEW locs, NEW l, Tokens(d, files, locs, l) PROVE Tokens(d, more, locs, l)
  <2>1. SUFFICES ASSUME NEW p \in DOMAIN l.tokens PROVE TokenAt(d, more, locs, l.tokens[p]) BY DEF Tokens
  <2>2. TokenAt(d, files, locs, l.tokens[p]) BY <1>6 DEF Tokens
  <2>3. more[locs[l.tokens[p].loc_id + 1].file_id + 1] = files[locs[l.tokens[p].loc_id + 1].file_id + 1]
    BY <1>2, <2>2 DEF TokenAt
  <2> QED BY <1>4, <2>2, <2>3 DEF TokenAt
<1> QED BY <1>2, <1>3, <1>5, <1>6 DEF more

LEMMA LocsGrow ==
    ASSUME NEW d, NEW files, NEW locs, IsSeq(locs), NEW loc
    PROVE  \A l : Tokens(d, files, locs, l) => Tokens(d, files, Append(locs, loc), l)
<1> DEFINE more == Append(locs, loc)
<1>1. Len(locs) \in Nat BY IsSeqProperties
<1>2. Len(more) = Len(locs) + 1 /\ \A i \in 1 .. Len(locs) : more[i] = locs[i] BY Appended
<1> HIDE DEF more
<1>3. \A k \in 1 .. Len(locs) : k \in 1 .. Len(more) BY <1>1, <1>2
<1>4. ASSUME NEW l, Tokens(d, files, locs, l) PROVE Tokens(d, files, more, l)
  <2>1. SUFFICES ASSUME NEW p \in DOMAIN l.tokens PROVE TokenAt(d, files, more, l.tokens[p]) BY DEF Tokens
  <2>2. TokenAt(d, files, locs, l.tokens[p]) BY <1>4 DEF Tokens
  <2>3. more[l.tokens[p].loc_id + 1] = locs[l.tokens[p].loc_id + 1] BY <1>2, <2>2 DEF TokenAt
  <2> QED BY <1>3, <2>2, <2>3 DEF TokenAt
<1> QED BY <1>4 DEF more

LEMMA InnermostReader ==
    ASSUME NEW d, NEW files, NEW locs, NEW ls, Readers(d, files, locs, ls), ls # <<>>
    PROVE  /\ Len(ls) \in Nat /\ Len(ls) \in 1 .. Len(ls)
           /\ Reader(d, files, ls[Len(ls)]) /\ Tokens(d, files, locs, ls[Len(ls)])
<1>1. IsSeq(ls) BY DEF Readers
<1>2. Len(ls) \in Nat /\ Len(ls) \in 1 .. Len(ls) BY <1>1, NotEmpty
<1> QED BY <1>2 DEF Readers

LEMMA InnermostKeeps ==
    ASSUME NEW d, NEW files, NEW locs, NEW ls, Readers(d, files, locs, ls), ls # <<>>,
           NEW l, Reader(d, files, l), Tokens(d, files, locs, l)
    PROVE  Readers(d, files, locs, [ls EXCEPT ![Len(ls)] = l])
<1> DEFINE n == Len(ls)
           new == Put(ls, n, l)
<1>1. n \in Nat /\ n \in 1 .. n BY InnermostReader
<1>2. IsSeq(ls) BY DEF Readers
<1>3. IsSeq(new) /\ Len(new) = n /\ new[n] = l /\ \A k \in 1 .. n : k # n => new[k] = ls[k]
  BY <1>1, <1>2, Replaced
<1>4. new = [ls EXCEPT ![Len(ls)] = l] BY DEF Put
<1> HIDE DEF new
<1>5. InFront(new)
  <2>1. \A k \in 1 .. n - 1 : k \in 1 .. n /\ k # n BY <1>1
  <2> QED BY <1>3, <2>1 DEF InFront, Readers
<1>6. ASSUME NEW k \in 1 .. n PROVE Reader(d, files, new[k]) /\ Tokens(d, files, locs, new[k])
  <2>1. CASE k = n BY <1>3, <2>1
  <2>2. CASE k # n BY <1>3, <2>2 DEF Readers
  <2> QED BY <2>1, <2>2
<1> QED BY <1>3, <1>4, <1>5, <1>6 DEF Readers

LEMMA OpenedReader ==
    ASSUME NEW d, NEW files, NEW locs, NEW ls, Readers(d, files, locs, ls),
           ls # <<>> => ls[Len(ls)].row < Len(ls[Len(ls)].lines),
           NEW l, Reader(d, files, l), Tokens(d, files, locs, l)
    PROVE  Readers(d, files, locs, Append(ls, l)) /\ Append(ls, l) # <<>>
<1> DEFINE n == Len(ls)
           new == Append(ls, l)
<1>1. IsSeq(ls) /\ n \in Nat /\ (n # 0 => ls # <<>>) BY IsSeqProperties DEF Readers
<1>2. IsSeq(new) /\ Len(new) = n + 1 /\ new[n + 1] = l /\ \A k \in 1 .. n : new[k] = ls[k] BY <1>1, Appended
<1> HIDE DEF new
<1>3. new # <<>> BY <1>1, <1>2
<1>4. ASSUME NEW k \in 1 .. n PROVE new[k].row < Len(new[k].lines)
  <2>1. CASE k = n
    <3>1. ls # <<>> BY <1>1, <2>1
    <3> QED BY <1>2, <2>1, <3>1
  <2>2. CASE k # n
    <3>1. k \in 1 .. n - 1 BY <1>1, <2>2
    <3> QED BY <1>2, <3>1 DEF Readers, InFront
  <2> QED BY <2>1, <2>2
<1>5. InFront(new)
  <2>1. Len(new) - 1 = n BY <1>1, <1>2
  <2> QED BY <1>4, <2>1 DEF InFront
<1>6. ASSUME NEW k \in 1 .. n + 1 PROVE Reader(d, files, new[k]) /\ Tokens(d, files, locs, new[k])
  <2>1. CASE k = n + 1 BY <1>2, <2>1
  <2>2. CASE k # n + 1
    <3>1. k \in 1 .. n BY <1>1, <2>2
    <3> QED BY <1>2, <3>1 DEF Readers
  <2> QED BY <2>1, <2>2
<1> QED BY <1>2, <1>3, <1>5, <1>6 DEF Readers, new

-----------------------------------------------------------------------------
(* Every action of the lexer keeps the invariant.                             *)

LEMMA InnermostIs ==
    ASSUME InvOfLexer, stage = "lexing"
    PROVE  /\ Len(lexers) \in Nat /\ Len(lexers) \in 1 .. Len(lexers) /\ lexer = lexers[Len(lexers)]
           /\ Reader(disk, FILES, lexer) /\ Tokens(disk, FILES, LOCS, lexer)
<1>1. Readers(disk, FILES, LOCS, lexers) /\ lexers # <<>> BY DEF InvOfLexer
<1>2. lexer = lexers[Len(lexers)] BY DEF lexer, Last
<1> QED BY <1>1, <1>2, InnermostReader

LEMMA StoppingKeeps ==
    ASSUME InvOfLexer, UNCHANGED <<disk, FILES, LOCS, lexers>>, stage' \in Halted
    PROVE  InvOfLexer'
BY DEF InvOfLexer, Halted

LEMMA AdvanceAlong ==
    ASSUME InvOfLexer, stage = "lexing", UNCHANGED <<disk, FILES, stage>>,
           NEW locs, LOCS' = locs, IsSeq(locs), Readers(disk, FILES, locs, lexers),
           NEW l, Innermost(l), Reader(disk, FILES, l), Tokens(disk, FILES, locs, l)
    PROVE  InvOfLexer'
<1>1. /\ Readers(disk, FILES, LOCS, lexers) /\ lexers # <<>> /\ Len(lexers) <= Len(FILES)
      /\ disk \in Disks /\ Named(disk, FILES)
  BY DEF InvOfLexer
<1> DEFINE new == [lexers EXCEPT ![Len(lexers)] = l]
<1>2. Readers(disk, FILES, locs, new) BY <1>1, InnermostKeeps
<1>3. lexers' = new BY DEF Innermost
<1>4. Len(new) = Len(lexers) /\ new # <<>>
  <2>1. IsSeq(lexers) BY <1>1 DEF Readers
  <2>2. Len(lexers) \in 1 .. Len(lexers) BY <2>1, <1>1, NotEmpty
  <2>3. Len(Put(lexers, Len(lexers), l)) = Len(lexers) BY <2>1, <2>2, Replaced
  <2>4. Len(new) = Len(lexers) BY <2>3 DEF Put
  <2> HIDE DEF new
  <2>5. Len(new) # 0 BY <2>1, <1>1, <2>4, NotEmpty
  <2> QED BY <2>4, <2>5
<1> HIDE DEF new
<1> QED BY <1>1, <1>2, <1>3, <1>4 DEF InvOfLexer

LEMMA AdvanceKeeps ==
    ASSUME InvOfLexer, UNCHANGED <<disk, FILES, LOCS, stage>>, stage = "lexing",
           NEW l, Innermost(l), Reader(disk, FILES, l), Tokens(disk, FILES, LOCS, l)
    PROVE  InvOfLexer'
<1>1. IsSeq(LOCS) /\ Readers(disk, FILES, LOCS, lexers) BY DEF InvOfLexer
<1>2. LOCS' = LOCS OBVIOUS
<1> QED BY <1>1, <1>2, AdvanceAlong

LEMMA FileOpenKeeps ==
    ASSUME InvOfLexer, NEW path, OpenFile(path),
           lexers # <<>> => lexers[Len(lexers)].row < Len(lexers[Len(lexers)].lines)
    PROVE  InvOfLexer'
<1>1. CASE OpensHow(path) # "lexing" BY <1>1, StoppingKeeps DEF OpenFile, Stop, OpensHow, Halted
<1>2. CASE OpensHow(path) = "lexing"
  <2> DEFINE files == Append(FILES, path)
             l == Opened(path)
             new == Append(lexers, l)
  <2>1. disk' = disk /\ FILES' = files /\ lexers' = new /\ LOCS' = LOCS /\ stage' = "lexing" BY <1>2 DEF OpenFile, Grown
  <2>2. path \in DOMAIN disk BY <1>2 DEF OpensHow
  <2>3. /\ disk \in Disks /\ Named(disk, FILES) /\ IsSeq(LOCS) /\ Readers(disk, FILES, LOCS, lexers)
        /\ Len(lexers) <= Len(FILES)
    BY DEF InvOfLexer
  <2>4. IsSeq(FILES) /\ Len(FILES) \in Nat /\ IsSeq(lexers) /\ Len(lexers) \in Nat
    BY <2>3, IsSeqProperties DEF Named, Readers
  <2>5. /\ Named(disk, files) /\ Len(files) = Len(FILES) + 1 /\ files[Len(FILES) + 1] = path
        /\ \A k : Reader(disk, FILES, k) => Reader(disk, files, k)
        /\ \A k : Tokens(disk, FILES, LOCS, k) => Tokens(disk, files, LOCS, k)
    BY <2>2, <2>3, FilesGrow
  <2> HIDE DEF files
  <2>6. Readers(disk, files, LOCS, lexers) BY <2>3, <2>5 DEF Readers
  <2>7. IsSeq(disk[path])
    <3>1. Len(FILES) + 1 \in 1 .. Len(files) BY <2>4, <2>5
    <3> QED BY <2>3, <2>5, <3>1, TextIs
  <2>8. /\ DOMAIN l = {"file_id", "unread", "lines", "lexing", "row", "i", "tokens", "count"}
        /\ l.file_id = Len(FILES) /\ l.unread = disk[path] /\ l.lines = <<>> /\ l.row = 0 /\ l.i = 1 /\ l.tokens = <<>>
    BY DEF Opened
  <2> HIDE DEF l
  <2>9. Reader(disk, files, l)
    <3>1. ReadSoFar(disk[path], <<>>, disk[path]) BY <2>7, NothingRead
    <3>2. Len(<<>>) = 0 OBVIOUS
    <3> QED BY <2>4, <2>5, <2>8, <3>1, <3>2 DEF Reader
  <2>10. Tokens(disk, files, LOCS, l)
    <3>1. DOMAIN l.tokens = {} BY <2>8
    <3> QED BY <3>1 DEF Tokens
  <2>11. Readers(disk, files, LOCS, new) /\ new # <<>>
    <3> HIDE DEF new
    <3> QED BY <2>6, <2>9, <2>10, OpenedReader DEF new
  <2>12. Len(new) = Len(lexers) + 1 BY <2>4, Appended
  <2> HIDE DEF new
  <2> QED BY <2>1, <2>3, <2>4, <2>5, <2>11, <2>12 DEF InvOfLexer
<1> QED BY <1>1, <1>2

LEMMA StartKeeps == ASSUME InvOfLexer, Start PROVE InvOfLexer'
BY FileOpenKeeps DEF Start, InvOfLexer

LEMMA ReadLineKeeps == ASSUME InvOfLexer, ReadLine PROVE InvOfLexer'
<1> DEFINE read == Gets(lexer.unread, LINE_CAP)
           items == split(read)
           l == [lexer EXCEPT !.lines = Append(@, items), !.unread = SubSeq(@, Len(read) + 1, Len(@))]
           text == disk[FILES[lexer.file_id + 1]]
<1>1. stage = "lexing" /\ lexer.unread # <<>> BY DEF ReadLine
<1>2. \/ Stop("corrupt")
      \/ Innermost(l) /\ UNCHANGED <<disk, below, FILES, LOCS, stage>>
  BY DEF ReadLine
<1>3. Reader(disk, FILES, lexer) /\ Tokens(disk, FILES, LOCS, lexer) BY <1>1, InnermostIs
<1>4. /\ DOMAIN lexer = {"file_id", "unread", "lines", "lexing", "row", "i", "tokens", "count"}
      /\ lexer.file_id \in Nat /\ lexer.file_id + 1 \in 1 .. Len(FILES) /\ ReadSoFar(text, lexer.lines, lexer.unread)
      /\ lexer.row \in 0 .. Len(lexer.lines) /\ lexer.i \in Nat \ {0}
      /\ lexer.i = 1 \/ (lexer.row < Len(lexer.lines) /\ lexer.i <= Len(lexer.lines[lexer.row + 1]) + 1)
  BY <1>3 DEF Reader
<1>5. IsSeq(text)
  <2>1. disk \in Disks /\ Named(disk, FILES) BY DEF InvOfLexer
  <2> QED BY <1>4, <2>1, TextIs
<1>6. /\ l.lines = Append(lexer.lines, items) /\ l.unread = SubSeq(lexer.unread, Len(read) + 1, Len(lexer.unread))
      /\ DOMAIN l = DOMAIN lexer /\ l.file_id = lexer.file_id /\ l.row = lexer.row /\ l.i = lexer.i
      /\ l.tokens = lexer.tokens
  BY <1>4
<1> HIDE DEF l, text, items
<1>7. ReadSoFar(text, l.lines, l.unread)
  BY <1>1, <1>4, <1>5, <1>6, LineReadKeeps DEF items
<1>8. /\ IsSeq(lexer.lines) /\ Len(lexer.lines) \in Nat
      /\ Len(l.lines) = Len(lexer.lines) + 1 /\ \A k \in 1 .. Len(lexer.lines) : l.lines[k] = lexer.lines[k]
  <2>1. IsSeq(lexer.lines) BY <1>4 DEF ReadSoFar
  <2> QED BY <1>6, <2>1, IsSeqProperties, Appended
<1>9. l.row \in 0 .. Len(l.lines) BY <1>4, <1>6, <1>8
<1>10. l.i = 1 \/ (l.row < Len(l.lines) /\ l.i <= Len(l.lines[l.row + 1]) + 1)
  <2>1. CASE lexer.i = 1 BY <1>6, <2>1
  <2>2. CASE lexer.row < Len(lexer.lines) /\ lexer.i <= Len(lexer.lines[lexer.row + 1]) + 1
    <3>1. lexer.row + 1 \in 1 .. Len(lexer.lines) /\ l.row < Len(l.lines) BY <1>4, <1>6, <1>8, <2>2
    <3> QED BY <1>6, <1>8, <2>2, <3>1
  <2> QED BY <1>4, <2>1, <2>2
<1>11. Reader(disk, FILES, l) BY <1>4, <1>6, <1>7, <1>9, <1>10 DEF Reader, text
<1>12. Tokens(disk, FILES, LOCS, l) BY <1>3, <1>6 DEF Tokens
<1>13. CASE Stop("corrupt") BY <1>13, StoppingKeeps DEF Stop, Halted
<1>14. CASE Innermost(l) /\ UNCHANGED <<disk, below, FILES, LOCS, stage>>
  BY <1>1, <1>11, <1>12, <1>14, AdvanceKeeps
<1> QED BY <1>2, <1>13, <1>14

LEMMA LastLineReadKeeps == ASSUME InvOfLexer, LastLineRead PROVE InvOfLexer'
<1> DEFINE l == [lexer EXCEPT !.lexing = TRUE]
<1>1. stage = "lexing" /\ Innermost(l) /\ UNCHANGED <<disk, FILES, LOCS, stage>> BY DEF LastLineRead
<1>2. Reader(disk, FILES, lexer) /\ Tokens(disk, FILES, LOCS, lexer) BY <1>1, InnermostIs
<1>3. /\ DOMAIN l = DOMAIN lexer /\ l.file_id = lexer.file_id /\ l.row = lexer.row /\ l.i = lexer.i
      /\ l.tokens = lexer.tokens /\ l.lines = lexer.lines /\ l.unread = lexer.unread
  BY <1>2 DEF Reader
<1> HIDE DEF l
<1>4. Reader(disk, FILES, l) /\ Tokens(disk, FILES, LOCS, l) BY <1>2, <1>3 DEF Reader, Tokens
<1> QED BY <1>1, <1>4, AdvanceKeeps

(* The word that is next stands in the line that is next.                     *)
LEMMA WordIsNext ==
    ASSUME InvOfLexer, InLine
    PROVE  LET text == disk[FILES[lexer.file_id + 1]]
           IN /\ stage = "lexing" /\ lexer.row \in Nat /\ lexer.row < Len(lexer.lines) /\ Len(lexer.lines) \in Nat
              /\ lexer.i \in 1 .. Len(line) /\ Len(line) \in Nat
              /\ FitsBuffer(text) =>
                    /\ Len(lexer.lines) <= Len(LinesOf(text)) /\ Len(LinesOf(text)) \in Nat
                    /\ Len(line) <= Len(LinesOf(text)[lexer.row + 1])
                    /\ WordAt(ss, LinesOf(text)[lexer.row + 1])
<1> DEFINE text == disk[FILES[lexer.file_id + 1]]
           k == lexer.row + 1
<1>1. stage = "lexing" /\ lexer.row < Len(lexer.lines) /\ lexer.i <= Len(line) BY DEF InLine, Lexing
<1>2. Reader(disk, FILES, lexer) BY <1>1, InnermostIs
<1>3. /\ lexer.file_id + 1 \in 1 .. Len(FILES) /\ ReadSoFar(text, lexer.lines, lexer.unread)
      /\ lexer.row \in 0 .. Len(lexer.lines) /\ lexer.i \in Nat \ {0}
  BY <1>2 DEF Reader
<1>4. IsSeq(text)
  <2>1. disk \in Disks /\ Named(disk, FILES) BY DEF InvOfLexer
  <2> QED BY <1>3, <2>1, TextIs
<1> HIDE DEF text
<1>5. IsSeq(lexer.lines) /\ Len(lexer.lines) \in Nat /\ \A j \in 1 .. Len(lexer.lines) : IsSeq(lexer.lines[j])
  BY <1>3, IsSeqProperties DEF ReadSoFar
<1>6. k \in 1 .. Len(lexer.lines) /\ line = lexer.lines[k] BY <1>1, <1>3, <1>5 DEF line
<1>7. Len(line) \in Nat /\ lexer.i \in 1 .. Len(line) BY <1>1, <1>3, <1>5, <1>6, IsSeqProperties
<1>8. ASSUME FitsBuffer(text)
      PROVE  /\ Len(lexer.lines) <= Len(LinesOf(text)) /\ Len(line) <= Len(LinesOf(text)[k])
             /\ WordAt(ss, LinesOf(text)[k])
  <2>1. PICK n \in 0 .. Len(text) : ReadTo(text, lexer.lines, n) BY <1>3, <1>8 DEF ReadSoFar
  <2>2. /\ Len(lexer.lines) <= Len(LinesOf(text)) /\ Len(line) <= Len(LinesOf(text)[k])
        /\ \A j \in 1 .. Len(line) : WordAt(line[j], LinesOf(text)[k])
    BY <1>6, <2>1 DEF ReadTo
  <2> QED BY <1>7, <2>2 DEF ss
<1>9. Len(LinesOf(text)) \in Nat BY <1>4, LinesOfLength
<1>10. lexer.row \in Nat BY <1>3, <1>5
<1> QED BY <1>1, <1>5, <1>7, <1>8, <1>9, <1>10 DEF text

(* A step along the line, or to the line after it.                            *)
AlongTheLine(l) == [l EXCEPT !.i = @ + 1]
LEMMA ReaderGoesOn ==
    ASSUME NEW d, NEW files, NEW l, Reader(d, files, l), l.row < Len(l.lines)
    PROVE  /\ IsSeq(l.lines) /\ Len(l.lines) \in Nat /\ IsSeq(l.lines[l.row + 1]) /\ Len(l.lines[l.row + 1]) \in Nat
           /\ NextLine(l).tokens = l.tokens /\ NextLine(l).lines = l.lines /\ NextLine(l).row = l.row + 1
           /\ NextLine(l).count = l.count /\ DOMAIN NextLine(l) = DOMAIN l
           /\ Reader(d, files, NextLine(l))
           /\ \A m : /\ DOMAIN m = DOMAIN l /\ m.file_id = l.file_id /\ m.unread = l.unread /\ m.lines = l.lines
                     /\ m.row = l.row /\ m.i = l.i + 1 /\ l.i <= Len(l.lines[l.row + 1])
                     => Reader(d, files, m)
<1>1. /\ DOMAIN l = {"file_id", "unread", "lines", "lexing", "row", "i", "tokens", "count"}
      /\ l.file_id \in Nat /\ l.file_id + 1 \in 1 .. Len(files)
      /\ ReadSoFar(d[files[l.file_id + 1]], l.lines, l.unread)
      /\ l.row \in 0 .. Len(l.lines) /\ l.i \in Nat \ {0}
  BY DEF Reader
<1>2. IsSeq(l.lines) /\ Len(l.lines) \in Nat /\ \A k \in 1 .. Len(l.lines) : IsSeq(l.lines[k])
  BY <1>1, IsSeqProperties DEF ReadSoFar
<1>3. l.row + 1 \in 1 .. Len(l.lines) BY <1>1, <1>2
<1>4. IsSeq(l.lines[l.row + 1]) /\ Len(l.lines[l.row + 1]) \in Nat BY <1>2, <1>3, IsSeqProperties
<1> DEFINE n == NextLine(l)
<1>5. /\ DOMAIN n = DOMAIN l /\ n.file_id = l.file_id /\ n.unread = l.unread /\ n.lines = l.lines
      /\ n.row = l.row + 1 /\ n.i = 1 /\ n.tokens = l.tokens /\ n.count = l.count
  BY <1>1 DEF NextLine
<1> HIDE DEF n
<1>6. n.row \in 0 .. Len(n.lines) /\ n.i \in Nat \ {0} BY <1>1, <1>2, <1>3, <1>5
<1>7. Reader(d, files, n) BY <1>1, <1>5, <1>6 DEF Reader
<1>8. ASSUME NEW m, DOMAIN m = DOMAIN l, m.file_id = l.file_id, m.unread = l.unread, m.lines = l.lines,
             m.row = l.row, m.i = l.i + 1, l.i <= Len(l.lines[l.row + 1])
      PROVE  Reader(d, files, m)
  <2>1. m.i \in Nat \ {0} /\ m.i <= Len(m.lines[m.row + 1]) + 1 BY <1>1, <1>4, <1>8
  <2> QED BY <1>1, <1>8, <2>1 DEF Reader
<1> QED BY <1>2, <1>4, <1>5, <1>7, <1>8 DEF n

LEMMA SkipWordKeeps == ASSUME InvOfLexer, SkipWord PROVE InvOfLexer'
<1> DEFINE l == [lexer EXCEPT !.i = @ + 1]
<1>1. InLine /\ Innermost(l) /\ UNCHANGED <<disk, FILES, LOCS, stage>> BY DEF SkipWord
<1>2. stage = "lexing" /\ lexer.row < Len(lexer.lines) /\ lexer.i <= Len(lexer.lines[lexer.row + 1])
  BY <1>1 DEF InLine, Lexing, line
<1>3. Reader(disk, FILES, lexer) /\ Tokens(disk, FILES, LOCS, lexer) BY <1>2, InnermostIs
<1>4. /\ DOMAIN l = DOMAIN lexer /\ l.file_id = lexer.file_id /\ l.row = lexer.row /\ l.i = lexer.i + 1
      /\ l.tokens = lexer.tokens /\ l.lines = lexer.lines /\ l.unread = lexer.unread
  BY <1>3 DEF Reader
<1> HIDE DEF l
<1>5. Reader(disk, FILES, l) BY <1>2, <1>3, <1>4, ReaderGoesOn
<1>6. Tokens(disk, FILES, LOCS, l) BY <1>3, <1>4 DEF Tokens
<1> QED BY <1>1, <1>2, <1>5, <1>6, AdvanceKeeps

LEMMA BadWordKeeps == ASSUME InvOfLexer, BadWord PROVE InvOfLexer'
BY StoppingKeeps DEF BadWord, Stop, Halted

LEMMA PushTokenKeeps == ASSUME InvOfLexer, PushToken PROVE InvOfLexer'
<1> DEFINE tokens == Written(lexer.tokens, lexer.count, new_token)
           l == [lexer EXCEPT !.tokens = Written(@, lexer.count, new_token), !.count = @ + 1, !.i = @ + 1]
           locs == Append(LOCS, Here)
<1>1. InLine /\ (Stop("corrupt") \/ (LOCS' = locs /\ Innermost(l) /\ UNCHANGED <<disk, FILES, stage>>))
  BY DEF PushToken
<1>2. stage = "lexing" /\ lexer.row < Len(lexer.lines) /\ lexer.i <= Len(lexer.lines[lexer.row + 1])
  BY <1>1 DEF InLine, Lexing, line
<1>3. Reader(disk, FILES, lexer) /\ Tokens(disk, FILES, LOCS, lexer) BY <1>2, InnermostIs
<1>4. /\ DOMAIN l = DOMAIN lexer /\ l.file_id = lexer.file_id /\ l.row = lexer.row /\ l.i = lexer.i + 1
      /\ l.tokens = tokens /\ l.lines = lexer.lines /\ l.unread = lexer.unread
  BY <1>3 DEF Reader
<1>5. \A p \in DOMAIN tokens : tokens[p] = new_token \/ (p \in DOMAIN lexer.tokens /\ tokens[p] = lexer.tokens[p])
  BY DEF Written
<1> HIDE DEF l, tokens
<1>6. Reader(disk, FILES, l) BY <1>2, <1>3, <1>4, ReaderGoesOn
<1>7. IsSeq(LOCS) /\ Len(LOCS) \in Nat BY IsSeqProperties DEF InvOfLexer
<1>8. IsSeq(locs) /\ Len(locs) = Len(LOCS) + 1 /\ locs[Len(LOCS) + 1] = Here BY <1>7, Appended
<1>9. Tokens(disk, FILES, locs, lexer) BY <1>3, <1>7, LocsGrow
<1> HIDE DEF locs
<1>10. TokenAt(disk, FILES, locs, new_token)
  <2> DEFINE text == disk[FILES[lexer.file_id + 1]]
  <2>1. new_token.loc_id = Len(LOCS) /\ new_token.str = ss.str BY DEF new_token
  <2>2. Here.row = lexer.row /\ Here.col = ss.col /\ Here.file_id = lexer.file_id BY DEF Here
  <2>3. lexer.file_id + 1 \in 1 .. Len(FILES) /\ Len(LOCS) + 1 \in 1 .. Len(locs)
    BY <1>3, <1>7, <1>8 DEF Reader
  <2>4. ASSUME FitsBuffer(text)
        PROVE  /\ lexer.row < Len(LinesOf(text))
               /\ SubSeq(LinesOf(text)[lexer.row + 1], ss.col + 1, ss.col + Len(ss.str)) = ss.str
    <3>1. /\ lexer.row \in Nat /\ lexer.row < Len(lexer.lines) /\ Len(lexer.lines) \in Nat
          /\ Len(lexer.lines) <= Len(LinesOf(text)) /\ Len(LinesOf(text)) \in Nat
          /\ WordAt(ss, LinesOf(text)[lexer.row + 1])
      BY <1>1, <2>4, WordIsNext
    <3> QED BY <3>1 DEF WordAt
  <2> HIDE DEF text
  <2>5. text = disk[FILES[Here.file_id + 1]] BY <2>2 DEF text
  <2> QED BY <1>8, <2>1, <2>2, <2>3, <2>4, <2>5 DEF TokenAt
<1>11. Tokens(disk, FILES, locs, l) BY <1>4, <1>5, <1>9, <1>10 DEF Tokens
<1>12. CASE Stop("corrupt") BY <1>12, StoppingKeeps DEF Stop, Halted
<1>13. CASE LOCS' = locs /\ Innermost(l) /\ UNCHANGED <<disk, FILES, stage>>
  <2>1. Readers(disk, FILES, locs, lexers)
    <3>1. Readers(disk, FILES, LOCS, lexers) BY DEF InvOfLexer
    <3> QED BY <1>7, <3>1, LocsGrow DEF Readers, locs
  <2> QED BY <1>2, <1>6, <1>8, <1>11, <1>13, <2>1, AdvanceAlong
<1> QED BY <1>1, <1>12, <1>13

LEMMA BadIncludeKeeps == ASSUME InvOfLexer, BadInclude PROVE InvOfLexer'
BY StoppingKeeps DEF BadInclude, Stop, Halted

LEMMA IncludeKeeps == ASSUME InvOfLexer, Include PROVE InvOfLexer'
<1>1. InLine /\ OpenFile(Path(Quoted)) BY DEF Include
<1>2. stage = "lexing" /\ lexer.row < Len(lexer.lines) BY <1>1 DEF InLine, Lexing
<1>3. lexer = lexers[Len(lexers)] BY <1>2, InnermostIs
<1> QED BY <1>1, <1>2, <1>3, FileOpenKeeps

LEMMA EndLineKeeps == ASSUME InvOfLexer, EndLine PROVE InvOfLexer'
<1>1. /\ stage = "lexing" /\ lexer.row < Len(lexer.lines) /\ Innermost(NextLine(lexer))
      /\ UNCHANGED <<disk, FILES, LOCS, stage>>
  BY DEF EndLine, Lexing
<1>2. Reader(disk, FILES, lexer) /\ Tokens(disk, FILES, LOCS, lexer) BY <1>1, InnermostIs
<1>3. Reader(disk, FILES, NextLine(lexer)) /\ NextLine(lexer).tokens = lexer.tokens BY <1>1, <1>2, ReaderGoesOn
<1>4. Tokens(disk, FILES, LOCS, NextLine(lexer)) BY <1>2, <1>3 DEF Tokens
<1> QED BY <1>1, <1>3, <1>4, AdvanceKeeps

(* What the copy takes is the inner file's, and what it leaves the outer's.   *)
LEMMA CopiedTokens ==
    ASSUME NEW outer, NEW inner, NEW p \in DOMAIN Copied(outer, inner)
    PROVE  \/ \E q \in DOMAIN inner.tokens : Copied(outer, inner)[p] = inner.tokens[q]
           \/ p \in DOMAIN outer.tokens /\ Copied(outer, inner)[p] = outer.tokens[p]
<1> DEFINE at == Place(outer)
           places == at .. at + inner.count - 1
           filled == {q \in places : q - at \in DOMAIN inner.tokens}
           all == (DOMAIN outer.tokens \ places) \union filled
<1>1. Copied(outer, inner) = [q \in all |-> IF q \in filled THEN inner.tokens[q - at] ELSE outer.tokens[q]]
  BY DEF Copied
<1>2. p \in all BY <1>1
<1>3. CASE p \in filled BY <1>1, <1>2, <1>3
<1>4. CASE p \notin filled BY <1>1, <1>2, <1>4
<1> QED BY <1>3, <1>4

LEMMA IncludeReturnsKeeps == ASSUME InvOfLexer, IncludeReturns PROVE InvOfLexer'
<1> DEFINE n == Len(lexers)
           outer == lexers[n - 1]
           short == SubSeq(lexers, 1, n - 2)
           l == Splice(outer, lexer)
           new == Append(short, l)
<1>1. /\ stage = "lexing" /\ n > 1
      /\ Stop("corrupt") \/ (lexers' = new /\ UNCHANGED <<disk, below, FILES, LOCS, stage>>)
  BY DEF IncludeReturns, Returns
<1>2. /\ Readers(disk, FILES, LOCS, lexers) /\ Len(lexers) <= Len(FILES) /\ Named(disk, FILES)
  BY DEF InvOfLexer
<1>3. IsSeq(lexers) /\ n \in Nat /\ IsSeq(FILES) /\ Len(FILES) \in Nat BY <1>2, IsSeqProperties DEF Readers, Named
<1>4. Reader(disk, FILES, lexer) /\ Tokens(disk, FILES, LOCS, lexer) BY <1>1, InnermostIs
<1>5. n - 1 \in 1 .. n - 1 /\ n - 1 \in 1 .. n BY <1>1, <1>3
<1>6. Reader(disk, FILES, outer) /\ Tokens(disk, FILES, LOCS, outer) /\ outer.row < Len(outer.lines)
  BY <1>2, <1>5 DEF Readers, InFront
<1> HIDE DEF outer
<1>7. Reader(disk, FILES, NextLine(outer)) /\ NextLine(outer).tokens = outer.tokens
  BY <1>6, ReaderGoesOn
<1>8. l = [NextLine(outer) EXCEPT !.tokens = Copied(outer, lexer), !.count = @ + lexer.count]
  BY DEF Splice
<1> HIDE DEF l
<1>9. /\ DOMAIN l = DOMAIN NextLine(outer) /\ l.file_id = NextLine(outer).file_id /\ l.row = NextLine(outer).row
      /\ l.i = NextLine(outer).i /\ l.lines = NextLine(outer).lines /\ l.unread = NextLine(outer).unread
      /\ l.tokens = Copied(outer, lexer)
  BY <1>7, <1>8 DEF Reader
<1>10. Reader(disk, FILES, l) BY <1>7, <1>9 DEF Reader
<1>11. Tokens(disk, FILES, LOCS, l)
  <2>1. SUFFICES ASSUME NEW p \in DOMAIN Copied(outer, lexer)
                 PROVE  TokenAt(disk, FILES, LOCS, Copied(outer, lexer)[p])
    BY <1>9 DEF Tokens
  <2> QED BY <1>4, <1>6, CopiedTokens DEF Tokens
<1>12. /\ IsSeq(short) /\ Len(short) = n - 2 /\ \A k \in 1 .. n - 2 : short[k] = lexers[k]
  <2> DEFINE S == {lexers[i] : i \in DOMAIN lexers}
  <2>1. lexers \in Seq(S) BY <1>3 DEF IsSeq
  <2> HIDE DEF S
  <2>2. n - 2 \in Nat /\ \A i \in 1 .. n - 2 : lexers[i] \in S /\ i \in 1 .. n BY <1>1, <1>3, <2>1, ElementOfSeq
  <2>3. /\ SubSeq(lexers, 1, n - 2) \in Seq(S)
        /\ Len(SubSeq(lexers, 1, n - 2)) = IF 1 <= n - 2 THEN n - 2 - 1 + 1 ELSE 0
        /\ \A i \in 1 .. n - 2 - 1 + 1 : SubSeq(lexers, 1, n - 2)[i] = lexers[1 + i - 1]
    <3> DEFINE m == n - 2
    <3> HIDE DEF m
    <3>1. m \in Nat /\ \A i \in 1 .. m : lexers[i] \in S BY <2>2 DEF m
    <3>2. /\ SubSeq(lexers, 1, m) \in Seq(S)
          /\ Len(SubSeq(lexers, 1, m)) = IF 1 <= m THEN m - 1 + 1 ELSE 0
          /\ \A i \in 1 .. m - 1 + 1 : SubSeq(lexers, 1, m)[i] = lexers[1 + i - 1]
      BY <3>1, SubSeqProperties
    <3> QED BY <3>2 DEF m
  <2>4. IsSeq(short) BY <2>3, SeqIsSeq
  <2> HIDE DEF n
  <2>5. Len(short) = n - 2 BY <2>2, <2>3
  <2>6. \A k \in 1 .. n - 2 : short[k] = lexers[k] BY <2>2, <2>3
  <2> QED BY <2>4, <2>5, <2>6
<1> HIDE DEF short
<1>13. Readers(disk, FILES, LOCS, short)
  <2>1. \A k \in 1 .. n - 2 : k \in 1 .. n - 1 /\ k \in 1 .. n BY <1>3
  <2>2. \A k \in 1 .. n - 2 - 1 : k \in 1 .. n - 2 /\ k \in 1 .. n - 1 BY <1>3
  <2>3. InFront(short) BY <1>2, <1>12, <2>2 DEF InFront, Readers
  <2> QED BY <1>2, <1>12, <2>1, <2>3 DEF Readers
<1>14. short # <<>> => short[Len(short)].row < Len(short[Len(short)].lines)
  <2>1. SUFFICES ASSUME short # <<>> PROVE short[Len(short)].row < Len(short[Len(short)].lines) OBVIOUS
  <2>2. Len(short) \in 1 .. Len(short) BY <1>12, <2>1, NotEmpty
  <2>3. n - 2 \in 1 .. n - 2 /\ n - 2 \in 1 .. n - 1 /\ short[n - 2] = lexers[n - 2] BY <1>3, <1>12, <2>2
  <2> QED BY <1>2, <1>12, <2>3 DEF Readers, InFront
<1>15. Readers(disk, FILES, LOCS, new) /\ new # <<>> BY <1>10, <1>11, <1>13, <1>14, OpenedReader
<1>16. Len(new) <= Len(FILES)
  <2>1. Len(new) = Len(short) + 1 BY <1>12, Appended
  <2> HIDE DEF new
  <2> QED BY <1>2, <1>3, <1>12, <2>1
<1> HIDE DEF new
<1>17. CASE Stop("corrupt") BY <1>17, StoppingKeeps DEF Stop, Halted
<1>18. CASE lexers' = new /\ UNCHANGED <<disk, below, FILES, LOCS, stage>>
  BY <1>1, <1>15, <1>16, <1>18 DEF InvOfLexer
<1> QED BY <1>1, <1>17, <1>18

LEMMA LexerStarts == LexerInit => InvOfLexer
<1>1. ASSUME LexerInit PROVE InvOfLexer
  <2>1. IsSeq(<<>>) /\ Len(<<>>) = 0 BY DEF IsSeq
  <2>2. \A k \in 1 .. Len(<<>>) : FALSE BY <2>1
  <2>3. \A k \in 1 .. Len(<<>>) - 1 : FALSE BY <2>1
  <2>4. disk \in Disks /\ FILES = <<>> /\ LOCS = <<>> /\ lexers = <<>> /\ stage = "start" BY <1>1 DEF LexerInit
  <2>5. Named(disk, <<>>) BY <2>1, <2>2 DEF Named
  <2>6. Readers(disk, <<>>, <<>>, <<>>) BY <2>1, <2>2, <2>3 DEF Readers, InFront
  <2> QED BY <2>1, <2>4, <2>5, <2>6 DEF InvOfLexer
<1> QED BY <1>1

LEMMA LexerKeeps == InvOfLexer /\ [LexerNext]_lexerVars => InvOfLexer'
<1> SUFFICES ASSUME InvOfLexer, [LexerNext]_lexerVars PROVE InvOfLexer' OBVIOUS
<1>1. CASE Start BY <1>1, StartKeeps
<1>2. CASE ReadLine BY <1>2, ReadLineKeeps
<1>3. CASE LastLineRead BY <1>3, LastLineReadKeeps
<1>4. CASE SkipWord BY <1>4, SkipWordKeeps
<1>5. CASE BadWord BY <1>5, BadWordKeeps
<1>6. CASE PushToken BY <1>6, PushTokenKeeps
<1>7. CASE BadInclude BY <1>7, BadIncludeKeeps
<1>8. CASE Include BY <1>8, IncludeKeeps
<1>9. CASE EndLine BY <1>9, EndLineKeeps
<1>10. CASE IncludeReturns BY <1>10, IncludeReturnsKeeps
<1>11. CASE LexStepReturns BY <1>11, StoppingKeeps DEF LexStepReturns, Stop, Halted
<1>12. CASE UNCHANGED lexerVars BY <1>12 DEF InvOfLexer, lexerVars
<1> QED
  BY <1>1, <1>2, <1>3, <1>4, <1>5, <1>6, <1>7, <1>8, <1>9, <1>10, <1>11, <1>12 DEF LexerNext, Lexes, LexerStopped

(* file.c, lexer.c: at every step every open file is at a place of its text,  *)
(* and its tokens point to locations that are there, in files that are.       *)
THEOREM LexerInductive == LexerSpec => []InvOfLexer
BY LexerStarts, LexerKeeps, PTL DEF LexerSpec

LEMMA TokensPoint == InvOfLexer => LocationsPoint
<1>1. SUFFICES ASSUME InvOfLexer, NEW d \in DOMAIN lexers, NEW p \in DOMAIN lexers[d].tokens,
                      LinesFit(FILES[LOCS[lexers[d].tokens[p].loc_id + 1].file_id + 1])
               PROVE  StandsAt(lexers[d].tokens[p].str, LOCS[lexers[d].tokens[p].loc_id + 1])
  BY DEF LocationsPoint
<1>2. Readers(disk, FILES, LOCS, lexers) BY <1>1 DEF InvOfLexer
<1>3. d \in 1 .. Len(lexers) BY <1>1, <1>2, IsSeqProperties DEF Readers
<1>4. TokenAt(disk, FILES, LOCS, lexers[d].tokens[p]) BY <1>1, <1>2, <1>3 DEF Readers, Tokens
<1> QED BY <1>1, <1>4 DEF TokenAt, StandsAt, LinesFit, FitsBuffer

(* loc_t: whatever the files hold and however they include each other, and    *)
(* whatever an include copies where, the location of each token names the     *)
(* file, line and column its word stands at, if the lines of that file fit    *)
(* the buffer of fgets.                                                       *)
THEOREM LocationsPointHolds == LexerSpec => []LocationsPoint
BY LexerInductive, TokensPoint, PTL

-----------------------------------------------------------------------------
(* Each line of a text is a part of it.                                       *)
LEMMA EachStart ==
    ASSUME NEW S, S \subseteq Nat, IsFiniteSet(S), NEW k \in 1 .. Cardinality(S)
    PROVE  \E x \in S : Cardinality({y \in S : y <= x}) = k
<1> DEFINE UpTo(x) == {y \in S : y <= x}
           P == {n \in Nat : n + 1 <= Cardinality(S) => \E x \in S : Cardinality(UpTo(x)) = n + 1}
<1>1. Cardinality(S) \in Nat BY FS_CardinalityType
<1>2. \A x : IsFiniteSet(UpTo(x)) /\ UpTo(x) \subseteq S /\ Cardinality(UpTo(x)) \in Nat
  BY FS_Subset, FS_CardinalityType
<1>3. 0 \in P
  <2>1. SUFFICES ASSUME 0 + 1 <= Cardinality(S) PROVE \E x \in S : Cardinality(UpTo(x)) = 0 + 1 OBVIOUS
  <2>2. S # {} BY <2>1, FS_EmptySet
  <2>3. PICK x \in S : \A y \in S : x <= y BY <2>2, LeastNatural
  <2>4. UpTo(x) = {x}
    <3>1. \A y \in S : y <= x <=> y = x BY <2>3
    <3> QED BY <2>3, <3>1
  <2>5. Cardinality({x}) = 1 BY FS_Singleton
  <2> HIDE DEF UpTo
  <2> QED BY <2>3, <2>4, <2>5
<1>4. ASSUME NEW n \in Nat, n \in P PROVE n + 1 \in P
  <2>1. SUFFICES ASSUME n + 1 + 1 <= Cardinality(S) PROVE \E x \in S : Cardinality(UpTo(x)) = n + 1 + 1 OBVIOUS
  <2>2. n + 1 <= Cardinality(S) BY <1>1, <2>1
  <2>3. PICK x \in S : Cardinality(UpTo(x)) = n + 1 BY <1>4, <2>2
  <2> DEFINE T == {y \in S : x < y}
  <2>4. T # {}
    <3>1. SUFFICES ASSUME T = {} PROVE FALSE OBVIOUS
    <3>2. \A y \in S : y <= x BY <2>3, <3>1
    <3>3. UpTo(x) = S BY <3>2
    <3> HIDE DEF UpTo
    <3> QED BY <1>1, <2>1, <2>3, <3>3
  <2>5. T \subseteq Nat OBVIOUS
  <2>6. PICK z \in T : \A y \in T : z <= y
    <3> HIDE DEF T
    <3> QED BY <2>4, <2>5, LeastNatural
  <2>7. z \in S /\ x < z /\ z \in Nat /\ x \in Nat BY <2>3, <2>6
  <2>8. UpTo(z) = UpTo(x) \union {z} /\ z \notin UpTo(x)
    <3>1. ASSUME NEW y \in S PROVE y <= z <=> (y <= x \/ y = z)
      <4>1. CASE x < y
        <5>1. z <= y BY <2>6, <4>1
        <5> QED BY <2>7, <4>1, <5>1
      <4>2. CASE y <= x BY <2>7, <4>2
      <4> QED BY <2>7, <4>1, <4>2
    <3>2. UpTo(z) = UpTo(x) \union {z} BY <2>7, <3>1
    <3>3. ~(z <= x) BY <2>7
    <3> QED BY <3>2, <3>3
  <2> HIDE DEF UpTo, T
  <2>9. Cardinality(UpTo(z)) = Cardinality(UpTo(x)) + 1 BY <1>2, <2>8, FS_AddElement
  <2> QED BY <2>3, <2>7, <2>9
<1> HIDE DEF P
<1>5. \A n \in Nat : n \in P BY <1>3, <1>4, Induction
<1>6. k - 1 \in Nat /\ k - 1 + 1 = k /\ k <= Cardinality(S) BY <1>1
<1>7. k - 1 \in P BY <1>5, <1>6
<1> QED BY <1>6, <1>7 DEF P

LEMMA LineIsPart ==
    ASSUME NEW text, IsSeq(text), NEW k \in 1 .. Len(LinesOf(text))
    PROVE  /\ k \in DOMAIN LinesOf(text) /\ IsSeq(LinesOf(text)[k]) /\ Len(LinesOf(text)[k]) \in Nat
           /\ \A i \in 1 .. Len(LinesOf(text)[k]) : \E j \in DOMAIN text : text[j] = LinesOf(text)[k][i]
<1> DEFINE S == Starts(text)
           n == Ascending(S)[k]
           e == EndOf(text, n) - 1
<1>1. Len(text) \in Nat /\ DOMAIN text = 1 .. Len(text) BY IsSeqProperties
<1>2. S \subseteq Nat /\ IsFiniteSet(S) /\ S \subseteq 0 .. Len(text)
  <2>1. S \subseteq 0 .. Len(text) BY <1>1 DEF Starts
  <2>2. S \subseteq Nat BY <1>1, <2>1
  <2>3. IsFiniteSet(S) BY StartsAreFinite
  <2> QED BY <2>1, <2>2, <2>3
<1>3. k \in 1 .. Cardinality(S) /\ DOMAIN LinesOf(text) = 1 .. Cardinality(S) BY LinesOfLength
<1>4. n = CHOOSE x \in S : Cardinality({y \in S : y <= x}) = k
  <2> HIDE DEF S
  <2> QED BY <1>3 DEF Ascending
<1>5. n \in S
  <2>1. \E x \in S : Cardinality({y \in S : y <= x}) = k
    <3> HIDE DEF S
    <3> QED BY <1>2, <1>3, EachStart
  <2> HIDE DEF S
  <2>2. (CHOOSE x \in S : Cardinality({y \in S : y <= x}) = k) \in S BY <2>1
  <2> HIDE DEF n
  <2> QED BY <1>4, <2>2
<1>6. LinesOf(text)[k] = SubSeq(text, n + 1, e) BY <1>3, LinesOfIs
<1> HIDE DEF S, n
<1>7. n \in 0 .. Len(text) BY <1>2, <1>5
<1>8. e \in n .. Len(text)
  <2>1. EndOf(text, n) \in n + 1 .. Len(text) + 1 BY <1>7, EndOfIs
  <2> QED BY <1>1, <1>7, <2>1
<1> HIDE DEF e
<1>9. /\ IsSeq(SubSeq(text, n + 1, e)) /\ Len(SubSeq(text, n + 1, e)) = e - n
      /\ \A i \in 1 .. e - n : SubSeq(text, n + 1, e)[i] = text[n + i]
  BY <1>7, <1>8, PartIs
<1>10. e - n \in Nat /\ \A i \in 1 .. e - n : n + i \in 1 .. Len(text) BY <1>1, <1>7, <1>8
<1> QED BY <1>1, <1>3, <1>6, <1>9, <1>10

-----------------------------------------------------------------------------
(* As long as only the main file has been opened, its tokens and their        *)
(* locations are as many as the words that have been passed, which its lines  *)
(* bound.                                                                     *)
Bounds(text, m) == \A k \in DOMAIN LinesOf(text) : Len(LinesOf(text)[k]) <= m
OnlyMain == Len(FILES) = 1 /\ FewWords(MainPath)
CountsFit ==
    /\ FILES[1] = MainPath
    /\ OnlyMain =>
          /\ lexer.count = Len(LOCS)
          /\ \A m \in Nat : Bounds(disk[MainPath], m) => lexer.count <= m * lexer.row + lexer.i - 1
InvOfTexts ==
    /\ InvOfLexer /\ TextsAreSafe
    /\ stage = "start" => FILES = <<>> /\ LOCS = <<>>
    /\ stage = "lexing" => CountsFit

LEMMA TheCaps ==
    /\ LINES_CAP \in Nat /\ LinesRoom \in Nat /\ ITEMS_CAP \in Nat /\ LOCS_CAP \in Nat /\ FILES_CAP \in Nat \ {0}
    /\ MAXIMUM_TOKENS_AMOUNT_PER_LINE \in Nat /\ LINE_CAP \in Nat \ {0, 1} /\ PATH_CAP \in Nat
    /\ IsSeq(MainPath) /\ Len(MainPath) \in Nat
<1>1. /\ LINES_CAP \in Nat /\ ITEMS_CAP \in Nat /\ LOCS_CAP \in Nat /\ FILES_CAP \in Nat \ {0}
      /\ MAXIMUM_TOKENS_AMOUNT_PER_LINE \in Nat /\ LINE_CAP \in Nat \ {0, 1} /\ PATH_CAP \in Nat
  BY LexerAssumption
<1>2. LINES_CAP \div 2 \in Nat BY <1>1
<1>3. IsSeq(MainPath) BY LexerAssumption DEF IsSeq, IsText
<1> QED BY <1>1, <1>2, <1>3, IsSeqProperties DEF LinesRoom

(* What FewWords asks of a text that has a line.                              *)
LEMMA FewWordsAre ==
    ASSUME InvOfLexer, OnlyMain, FILES[1] = MainPath
    PROVE  LET text == disk[MainPath]
               n == Len(LinesOf(text))
           IN /\ IsSeq(text) /\ FitsBuffer(text) /\ n \in Nat /\ n <= LinesRoom
              /\ n > 0 => \E m \in Nat : /\ Bounds(text, m) /\ m <= ITEMS_CAP /\ m <= MAXIMUM_TOKENS_AMOUNT_PER_LINE
                                        /\ m * n <= LOCS_CAP
<1> DEFINE text == disk[MainPath]
           n == Len(LinesOf(text))
           S == {ITEMS_CAP, MAXIMUM_TOKENS_AMOUNT_PER_LINE, LOCS_CAP \div n}
<1>1. IsSeq(text)
  <2>1. disk \in Disks /\ Named(disk, FILES) /\ 1 \in 1 .. Len(FILES) BY DEF InvOfLexer, OnlyMain
  <2> QED BY <2>1, TextIs
<1>2. n \in Nat BY <1>1, LinesOfLength
<1>3. FitsBuffer(text) /\ n <= LinesRoom BY DEF OnlyMain, FewWords, LinesFit, FitsBuffer
<1>4. ASSUME n > 0
      PROVE  \E m \in Nat : /\ Bounds(text, m) /\ m <= ITEMS_CAP /\ m <= MAXIMUM_TOKENS_AMOUNT_PER_LINE
                            /\ m * n <= LOCS_CAP
  <2>1. Bounds(text, Min(S)) BY DEF OnlyMain, FewWords, Bounds
  <2> HIDE DEF text, n
  <2>2. LOCS_CAP \div n \in Nat /\ \A m \in Nat : m <= LOCS_CAP \div n => m * n <= LOCS_CAP
    <3> DEFINE q == LOCS_CAP \div n
    <3>1. q \in Nat /\ n * q <= LOCS_CAP BY <1>2, <1>4, TheCaps
    <3> HIDE DEF q
    <3>2. ASSUME NEW m \in Nat, m <= q PROVE m * n <= LOCS_CAP
      <4>1. m * n <= q * n BY <1>2, <3>1, <3>2
      <4> QED BY <1>2, <3>1, <4>1, TheCaps
    <3> QED BY <3>1, <3>2 DEF q
  <2>3. S \subseteq Nat /\ S # {} BY <2>2, TheCaps
  <2>4. Min(S) \in S /\ \A y \in S : Min(S) <= y
    <3> HIDE DEF S
    <3> QED BY <2>3, MinIs
  <2>5. ITEMS_CAP \in S /\ MAXIMUM_TOKENS_AMOUNT_PER_LINE \in S /\ LOCS_CAP \div n \in S OBVIOUS
  <2> HIDE DEF S
  <2>6. Min(S) \in Nat BY <2>3, <2>4
  <2> QED BY <2>1, <2>2, <2>4, <2>5, <2>6
<1> QED BY <1>1, <1>2, <1>3, <1>4

(* While only the main file is open, the innermost lexer reads it.            *)
LEMMA MainIsRead ==
    ASSUME InvOfLexer, stage = "lexing", OnlyMain, FILES[1] = MainPath
    PROVE  LET text == disk[MainPath]
           IN /\ lexer.file_id = 0 /\ disk[FILES[lexer.file_id + 1]] = text
              /\ Len(lexers) = 1 /\ ReadSoFar(text, lexer.lines, lexer.unread)
              /\ IsSeq(lexer.lines) /\ Len(lexer.lines) \in Nat /\ Len(lexer.lines) <= Len(LinesOf(text))
              /\ lexer.row \in Nat /\ lexer.row <= Len(lexer.lines) /\ lexer.i \in Nat \ {0}
              /\ \A m \in Nat : Bounds(text, m) /\ lexer.row < Len(lexer.lines) =>
                    Len(line) \in Nat /\ Len(line) <= m /\ lexer.i <= m + 1
<1> DEFINE text == disk[MainPath]
<1>1. Reader(disk, FILES, lexer) BY InnermostIs
<1>2. Len(FILES) = 1 BY DEF OnlyMain
<1>3. lexer.file_id = 0 BY <1>1, <1>2 DEF Reader
<1>4. Len(lexers) = 1
  <2>1. lexers # <<>> /\ IsSeq(lexers) /\ Len(lexers) <= 1 BY <1>2 DEF InvOfLexer, Readers
  <2> QED BY <2>1, NotEmpty
<1>5. disk[FILES[lexer.file_id + 1]] = text BY <1>3
<1>6. IsSeq(text) /\ FitsBuffer(text) /\ Len(LinesOf(text)) \in Nat BY FewWordsAre
<1>7. /\ ReadSoFar(text, lexer.lines, lexer.unread) /\ lexer.row \in 0 .. Len(lexer.lines) /\ lexer.i \in Nat \ {0}
      /\ lexer.i = 1 \/ (lexer.row < Len(lexer.lines) /\ lexer.i <= Len(lexer.lines[lexer.row + 1]) + 1)
  BY <1>1, <1>5 DEF Reader
<1> HIDE DEF text
<1>8. /\ IsSeq(lexer.lines) /\ Len(lexer.lines) \in Nat
      /\ \A k \in 1 .. Len(lexer.lines) : IsSeq(lexer.lines[k])
  BY <1>7, IsSeqProperties DEF ReadSoFar
<1>9. PICK n \in 0 .. Len(text) : ReadTo(text, lexer.lines, n) BY <1>6, <1>7 DEF ReadSoFar
<1>10. /\ Len(lexer.lines) <= Len(LinesOf(text))
       /\ \A k \in 1 .. Len(lexer.lines) : Len(lexer.lines[k]) <= Len(LinesOf(text)[k])
  BY <1>9 DEF ReadTo
<1>11. ASSUME NEW m \in Nat, Bounds(text, m), lexer.row < Len(lexer.lines)
       PROVE  Len(line) \in Nat /\ Len(line) <= m /\ lexer.i <= m + 1
  <2>1. lexer.row + 1 \in 1 .. Len(lexer.lines) /\ lexer.row + 1 \in 1 .. Len(LinesOf(text))
    BY <1>6, <1>7, <1>8, <1>10, <1>11
  <2>2. line = lexer.lines[lexer.row + 1] BY DEF line
  <2>3. Len(line) \in Nat BY <1>8, <2>1, <2>2, IsSeqProperties
  <2>4. /\ lexer.row + 1 \in DOMAIN LinesOf(text) /\ Len(LinesOf(text)[lexer.row + 1]) \in Nat
    BY <1>6, <2>1, LineIsPart
  <2>5. Len(line) <= m BY <1>10, <1>11, <2>1, <2>2, <2>3, <2>4 DEF Bounds
  <2>6. lexer.i <= Len(line) + 1 BY <1>7, <2>2, <2>3
  <2> QED BY <1>7, <2>3, <2>5, <2>6
<1> QED BY <1>3, <1>4, <1>5, <1>7, <1>8, <1>10, <1>11 DEF text

(* The word `include`, when it is read, is written in the text.               *)
LEMMA IncludeIsWritten ==
    ASSUME InvOfLexer, OnlyMain, FILES[1] = MainPath, InLine, Includes
    PROVE  \E k \in DOMAIN disk[MainPath] : disk[MainPath][k] = "include"
<1> DEFINE text == disk[MainPath]
           s == LinesOf(text)[lexer.row + 1]
<1>1. stage = "lexing" BY DEF InLine, Lexing
<1>2. IsSeq(text) /\ FitsBuffer(text) BY FewWordsAre
<1>3. text = disk[FILES[lexer.file_id + 1]] BY <1>1, MainIsRead
<1> HIDE DEF text
<1>4. /\ lexer.row \in Nat /\ lexer.row < Len(lexer.lines) /\ Len(lexer.lines) \in Nat
      /\ Len(lexer.lines) <= Len(LinesOf(text)) /\ Len(LinesOf(text)) \in Nat
      /\ WordAt(ss, s)
  BY <1>2, <1>3, WordIsNext
<1>5. lexer.row + 1 \in 1 .. Len(LinesOf(text)) BY <1>4
<1>6. IsSeq(s) /\ Len(s) \in Nat /\ \A i \in 1 .. Len(s) : \E j \in DOMAIN text : text[j] = s[i]
  BY <1>2, <1>5, LineIsPart
<1> HIDE DEF s
<1>7. ss.str = <<"include">> /\ Len(ss.str) = 1 /\ ss.str[1] = "include" BY DEF Includes
<1>8. ss.col \in Nat /\ ss.col + 1 <= Len(s) /\ SubSeq(s, ss.col + 1, ss.col + 1) = ss.str
  BY <1>4, <1>7 DEF WordAt
<1> DEFINE c == ss.col
<1>9. c \in Nat /\ c + 1 <= Len(s) /\ Len(s) \in Nat /\ SubSeq(s, c + 1, c + 1) = <<"include">>
  BY <1>6, <1>7, <1>8
<1> HIDE DEF c
<1>10. c + 1 \in 1 .. Len(s) /\ c \in 0 .. Len(s) /\ c + 1 \in c .. Len(s) /\ c + 1 - c = 1 BY <1>9
<1>11. SubSeq(s, c + 1, c + 1)[1] = s[c + 1]
  <2> DEFINE b == c + 1
  <2>1. b \in c .. Len(s) /\ 1 \in 1 .. b - c BY <1>10
  <2> HIDE DEF b
  <2>2. SubSeq(s, c + 1, b)[1] = s[c + 1] BY <1>6, <1>10, <2>1, PartIs
  <2> QED BY <2>2 DEF b
<1>12. s[c + 1] = "include"
  <2>1. <<"include">>[1] = "include" OBVIOUS
  <2> QED BY <1>9, <1>11, <2>1
<1> QED BY <1>6, <1>10, <1>12 DEF text

(* What TextsAreSafe excuses a crash with.                                    *)
Excused ==
    \/ Len(FILES) > 1 \/ Len(MainPath) >= PATH_CAP \/ ~FewWords(MainPath)
    \/ \E k \in DOMAIN lexer.unread : lexer.unread[k] = Hash /\ below = "blank"
    \/ \E k \in DOMAIN disk[MainPath] : disk[MainPath][k] = "include"

LEMMA FewWordsStay == ASSUME disk' = disk PROVE FewWords(MainPath)' = FewWords(MainPath)
BY DEF FewWords, LinesFit

LEMMA SafeStop ==
    ASSUME InvOfTexts, NEW how, Stop(how), how \in Halted, how \in {"crashed", "corrupt"} => Excused
    PROVE  InvOfTexts'
<1>1. InvOfLexer' BY StoppingKeeps DEF Stop, InvOfTexts
<1>2. UNCHANGED <<disk, below, FILES, LOCS, lexers>> /\ stage' = how BY DEF Stop
<1>3. FewWords(MainPath)' = FewWords(MainPath) BY <1>2, FewWordsStay
<1>4. lexer' = lexer BY <1>2 DEF lexer
<1>5. Excused => Excused' BY <1>2, <1>3, <1>4 DEF Excused
<1>6. TextsAreSafe' BY <1>2, <1>5 DEF TextsAreSafe, Excused
<1> QED BY <1>1, <1>2, <1>6 DEF InvOfTexts, Halted

LEMMA SafeStep ==
    ASSUME InvOfTexts, InvOfLexer', stage = "lexing", UNCHANGED <<disk, FILES, stage>>, NEW l, Innermost(l),
           OnlyMain /\ FILES[1] = MainPath =>
              /\ l.count = Len(LOCS)'
              /\ \A m \in Nat : Bounds(disk[MainPath], m) => l.count <= m * l.row + l.i - 1
    PROVE  InvOfTexts'
<1>1. IsSeq(lexers) /\ Len(lexers) \in 1 .. Len(lexers)
  <2>1. IsSeq(lexers) /\ lexers # <<>> BY DEF InvOfTexts, InvOfLexer, Readers
  <2> QED BY <2>1, NotEmpty
<1>2. lexers' = Put(lexers, Len(lexers), l) BY DEF Innermost, Put
<1>3. Len(lexers') = Len(lexers) /\ lexers'[Len(lexers)] = l BY <1>1, <1>2, Replaced
<1>4. lexer' = l BY <1>3 DEF lexer, Last
<1>5. FILES[1] = MainPath BY DEF InvOfTexts, CountsFit
<1>6. OnlyMain' = OnlyMain BY FewWordsStay DEF OnlyMain
<1>7. CountsFit' BY <1>4, <1>5, <1>6 DEF CountsFit
<1>8. TextsAreSafe' BY DEF TextsAreSafe
<1> QED BY <1>7, <1>8 DEF InvOfTexts

LEMMA SafeStart == ASSUME InvOfTexts, Start PROVE InvOfTexts'
<1>1. stage = "start" /\ OpenFile(MainPath) /\ InvOfLexer BY DEF Start, InvOfTexts
<1>2. InvOfLexer' BY <1>1, StartKeeps DEF Start
<1>3. FILES = <<>> /\ LOCS = <<>> /\ lexers = <<>> BY <1>1 DEF InvOfTexts, InvOfLexer
<1>4. Len(FILES) = 0 /\ Len(LOCS) = 0 BY <1>3
<1>5. CASE OpensHow(MainPath) # "lexing"
  <2>1. Stop(OpensHow(MainPath)) BY <1>1, <1>5 DEF OpenFile
  <2>2. OpensHow(MainPath) \in Halted BY <1>5 DEF OpensHow, Halted
  <2>3. OpensHow(MainPath) \in {"crashed", "corrupt"} => Len(MainPath) >= PATH_CAP
    BY <1>4, TheCaps DEF OpensHow
  <2> QED BY <2>1, <2>2, <2>3, SafeStop DEF Excused
<1>6. CASE OpensHow(MainPath) = "lexing"
  <2> DEFINE l == Opened(MainPath)
  <2>1. /\ FILES' = Append(FILES, MainPath) /\ lexers' = Append(lexers, l) /\ stage' = "lexing"
        /\ UNCHANGED <<disk, LOCS>>
    BY <1>1, <1>6 DEF OpenFile, Grown
  <2>2. l.count = 0 /\ l.row = 0 /\ l.i = 1 BY DEF Opened
  <2> HIDE DEF l
  <2>3. FILES' = <<MainPath>> /\ lexers' = <<l>> BY <1>3, <2>1
  <2>4. lexer' = l BY <2>3 DEF lexer, Last
  <2>5. FILES'[1] = MainPath BY <2>3
  <2>6. \A m \in Nat : 0 <= m * 0 + 1 - 1 OBVIOUS
  <2>7. CountsFit' BY <1>4, <2>1, <2>2, <2>4, <2>5, <2>6 DEF CountsFit
  <2>8. TextsAreSafe' BY <2>1 DEF TextsAreSafe
  <2> QED BY <1>2, <2>1, <2>7, <2>8 DEF InvOfTexts
<1> QED BY <1>5, <1>6

(* A comment that is read was still unread.                                   *)
LEMMA HashIsUnread ==
    ASSUME NEW unread, IsSeq(unread), unread # <<>>, Underreads(Gets(unread, LINE_CAP))
    PROVE  \E k \in DOMAIN unread : unread[k] = Hash
<1> DEFINE read == Gets(unread, LINE_CAP)
           cut == Chomped(read)
<1>1. PICK r \in 1 .. Len(unread) :
          read = SubSeq(unread, 1, r) /\ IsSeq(read) /\ Len(read) = r
  BY GetsIs, TheCaps
<1>2. Len(unread) \in Nat /\ DOMAIN unread = 1 .. Len(unread) BY IsSeqProperties
<1>3. r \in 0 .. Len(unread) /\ \A i \in 1 .. r : read[i] = unread[i]
  <2>1. r \in 0 .. Len(unread) BY <1>1, <1>2
  <2> HIDE DEF read
  <2> QED BY <1>1, <2>1, FirstPart
<1>4. Hashes(cut) # {} BY DEF Underreads
<1> HIDE DEF read
<1>5. \E c \in 0 .. r : cut = SubSeq(read, 1, c)
  <2>1. cut = IF read # <<>> /\ read[Len(read)] = Newline THEN SubSeq(read, 1, Len(read) - 1)
              ELSE SubSeq(read, 1, Len(read))
    BY <1>1, ChompedIs
  <2>2. Len(read) - 1 \in 0 .. r /\ Len(read) \in 0 .. r BY <1>1, <1>2
  <2> QED BY <2>1, <2>2
<1>6. PICK c \in 0 .. r : cut = SubSeq(read, 1, c) BY <1>5
<1>7. IsSeq(cut) /\ Len(cut) = c /\ \A i \in 1 .. c : cut[i] = read[i]
  <2>1. c \in 0 .. Len(read) BY <1>1, <1>6
  <2> HIDE DEF cut
  <2> QED BY <1>1, <1>6, <2>1, FirstPart
<1> HIDE DEF cut
<1>8. PICK i \in DOMAIN cut : cut[i] = Hash BY <1>4 DEF Hashes
<1>9. i \in 1 .. c /\ i \in 1 .. r /\ i \in DOMAIN unread
  <2>1. i \in 1 .. c BY <1>7, <1>8, IsSeqProperties
  <2> QED BY <1>1, <1>2, <1>6, <2>1
<1> QED BY <1>3, <1>7, <1>8, <1>9

LEMMA SafeReadLine == ASSUME InvOfTexts, ReadLine PROVE InvOfTexts'
<1> DEFINE read == Gets(lexer.unread, LINE_CAP)
           items == split(read)
           l == [lexer EXCEPT !.lines = Append(@, items), !.unread = SubSeq(@, Len(read) + 1, Len(@))]
           more == Append(lexer.lines, items)
           text == disk[MainPath]
<1>1. stage = "lexing" /\ lexer.unread # <<>> BY DEF ReadLine
<1>2. \/ /\ (Underreads(read) /\ below = "blank") \/ Len(lexer.lines) = LinesRoom \/ Len(items) > ITEMS_CAP
         /\ Stop("corrupt")
      \/ Innermost(l) /\ UNCHANGED <<disk, below, FILES, LOCS, stage>>
  BY DEF ReadLine
<1>3. InvOfLexer /\ InvOfLexer' BY ReadLineKeeps DEF InvOfTexts
<1>4. Reader(disk, FILES, lexer) BY <1>1, <1>3, InnermostIs
<1>5. FILES[1] = MainPath BY <1>1 DEF InvOfTexts, CountsFit
<1>6. IsSeq(lexer.unread)
  <2> DEFINE t == disk[FILES[lexer.file_id + 1]]
  <2>1. ReadSoFar(t, lexer.lines, lexer.unread) /\ lexer.file_id + 1 \in 1 .. Len(FILES) BY <1>4 DEF Reader
  <2>2. disk \in Disks /\ Named(disk, FILES) BY <1>3 DEF InvOfLexer
  <2>3. IsSeq(t) BY <2>1, <2>2, TextIs
  <2> HIDE DEF t
  <2>4. PICK n \in 0 .. Len(t) : lexer.unread = SubSeq(t, n + 1, Len(t)) BY <2>1 DEF ReadSoFar
  <2>5. Len(t) \in n .. Len(t) BY <2>3, <2>4, IsSeqProperties
  <2> QED BY <2>3, <2>4, <2>5, PartIs
<1>7. ASSUME OnlyMain PROVE Len(lexer.lines) # LinesRoom /\ ~(Len(items) > ITEMS_CAP)
  <2>1. /\ IsSeq(text) /\ FitsBuffer(text) /\ Len(LinesOf(text)) \in Nat /\ Len(LinesOf(text)) <= LinesRoom
        /\ Len(LinesOf(text)) > 0 => \E m \in Nat : Bounds(text, m) /\ m <= ITEMS_CAP
    BY <1>3, <1>5, <1>7, FewWordsAre
  <2>2. ReadSoFar(text, lexer.lines, lexer.unread) /\ IsSeq(lexer.lines) /\ Len(lexer.lines) \in Nat
    BY <1>1, <1>3, <1>5, <1>7, MainIsRead
  <2>3. more[Len(lexer.lines) + 1] = items BY <2>2, Appended
  <2> HIDE DEF text
  <2>4. /\ ReadSoFar(text, more, SubSeq(lexer.unread, Len(read) + 1, Len(lexer.unread)))
        /\ Len(more) = Len(lexer.lines) + 1
    BY <1>1, <2>1, <2>2, LineReadKeeps
  <2> HIDE DEF more, items, read
  <2>5. PICK n \in 0 .. Len(text) : ReadTo(text, more, n) BY <2>1, <2>4 DEF ReadSoFar
  <2>6. /\ Len(more) <= Len(LinesOf(text))
        /\ \A k \in 1 .. Len(more) : Len(more[k]) <= Len(LinesOf(text)[k])
    BY <2>5 DEF ReadTo
  <2> DEFINE k == Len(lexer.lines) + 1
  <2>7. k \in 1 .. Len(more) /\ k \in 1 .. Len(LinesOf(text)) BY <2>1, <2>2, <2>4, <2>6
  <2>8. PICK m \in Nat : Bounds(text, m) /\ m <= ITEMS_CAP BY <2>1, <2>7
  <2>9. Len(LinesOf(text)[k]) <= m /\ Len(LinesOf(text)[k]) \in Nat BY <2>1, <2>7, <2>8, LineIsPart DEF Bounds
  <2>10. Len(items) <= Len(LinesOf(text)[k]) BY <2>3, <2>6, <2>7
  <2>11. Len(items) \in Nat
    <3>1. IsSeq(items) BY <2>3, <2>4, <2>7 DEF ReadSoFar
    <3> QED BY <3>1, IsSeqProperties
  <2>12. Len(lexer.lines) # LinesRoom BY <2>1, <2>2, <2>4, <2>6, TheCaps
  <2>13. Len(items) <= ITEMS_CAP BY <2>8, <2>9, <2>10, <2>11, TheCaps
  <2> QED BY <2>11, <2>12, <2>13, TheCaps
<1>8. CASE /\ (Underreads(read) /\ below = "blank") \/ Len(lexer.lines) = LinesRoom \/ Len(items) > ITEMS_CAP
           /\ Stop("corrupt")
  <2>1. CASE Underreads(read) /\ below = "blank"
    <3>1. \E k \in DOMAIN lexer.unread : lexer.unread[k] = Hash BY <1>1, <1>6, <2>1, HashIsUnread
    <3> QED BY <1>8, <2>1, <3>1, SafeStop DEF Excused, Halted
  <2>2. CASE Len(lexer.lines) = LinesRoom \/ Len(items) > ITEMS_CAP
    <3>1. ~OnlyMain BY <1>7, <2>2
    <3>2. Len(FILES) >= 1 /\ Len(FILES) \in Nat
      <4>1. IsSeq(FILES) /\ lexer.file_id \in Nat /\ lexer.file_id + 1 \in 1 .. Len(FILES)
        BY <1>3, <1>4 DEF InvOfLexer, Named, Reader
      <4> QED BY <4>1, IsSeqProperties
    <3>3. Len(FILES) # 1 \/ ~FewWords(MainPath) BY <3>1 DEF OnlyMain
    <3>4. Len(FILES) # 1 => Len(FILES) > 1 BY <3>2
    <3> QED BY <1>8, <3>3, <3>4, SafeStop DEF Excused, Halted
  <2> QED BY <1>8, <2>1, <2>2
<1>9. CASE Innermost(l) /\ UNCHANGED <<disk, below, FILES, LOCS, stage>>
  <2>1. l.count = lexer.count /\ l.row = lexer.row /\ l.i = lexer.i BY <1>4 DEF Reader
  <2> HIDE DEF l
  <2> QED BY <1>1, <1>3, <1>9, <2>1, SafeStep DEF InvOfTexts, CountsFit
<1> QED BY <1>2, <1>8, <1>9

LEMMA MainIsFirst ==
    ASSUME InvOfTexts, stage = "lexing"
    PROVE  /\ InvOfLexer /\ FILES[1] = MainPath /\ Len(FILES) \in Nat /\ Len(FILES) >= 1
           /\ Len(FILES) = 1 \/ Len(FILES) > 1
           /\ Len(FILES) > 1 => ~OnlyMain
           /\ OnlyMain => lexer.count = Len(LOCS)
           /\ OnlyMain => \A m \in Nat : Bounds(disk[MainPath], m) => lexer.count <= m * lexer.row + lexer.i - 1
<1>1. InvOfLexer /\ CountsFit BY DEF InvOfTexts
<1>2. Reader(disk, FILES, lexer) BY <1>1, InnermostIs
<1>3. IsSeq(FILES) /\ lexer.file_id \in Nat /\ lexer.file_id + 1 \in 1 .. Len(FILES)
  BY <1>1, <1>2 DEF InvOfLexer, Named, Reader
<1>4. Len(FILES) \in Nat /\ Len(FILES) >= 1 BY <1>3, IsSeqProperties
<1>5. Len(FILES) = 1 \/ Len(FILES) > 1 BY <1>4
<1>6. Len(FILES) > 1 => Len(FILES) # 1
  <2> DEFINE n == Len(FILES)
  <2>1. n \in Nat BY <1>4
  <2> HIDE DEF n
  <2>2. n > 1 => n # 1 BY <2>1
  <2> QED BY <2>2 DEF n
<1>7. Len(FILES) > 1 => ~OnlyMain BY <1>6 DEF OnlyMain
<1> QED BY <1>1, <1>4, <1>5, <1>7 DEF CountsFit

LEMMA SafeLastLineRead == ASSUME InvOfTexts, LastLineRead PROVE InvOfTexts'
<1> DEFINE l == [lexer EXCEPT !.lexing = TRUE]
<1>1. stage = "lexing" /\ Innermost(l) /\ UNCHANGED <<disk, FILES, LOCS, stage>> BY DEF LastLineRead
<1>2. InvOfLexer' BY LastLineReadKeeps DEF InvOfTexts
<1>3. Reader(disk, FILES, lexer) BY <1>1, MainIsFirst, InnermostIs
<1>4. l.count = lexer.count /\ l.row = lexer.row /\ l.i = lexer.i BY <1>3 DEF Reader
<1> HIDE DEF l
<1> QED BY <1>1, <1>2, <1>4, MainIsFirst, SafeStep

LEMMA SafeSkipWord == ASSUME InvOfTexts, SkipWord PROVE InvOfTexts'
<1> DEFINE l == [lexer EXCEPT !.i = @ + 1]
<1>1. stage = "lexing" /\ Innermost(l) /\ UNCHANGED <<disk, FILES, LOCS, stage>> BY DEF SkipWord, InLine, Lexing
<1>2. InvOfLexer' BY SkipWordKeeps DEF InvOfTexts
<1>3. Reader(disk, FILES, lexer) BY <1>1, MainIsFirst, InnermostIs
<1>4. l.count = lexer.count /\ l.row = lexer.row /\ l.i = lexer.i + 1 BY <1>3 DEF Reader
<1> HIDE DEF l
<1>5. ASSUME OnlyMain, NEW m \in Nat, Bounds(disk[MainPath], m)
      PROVE  l.count <= m * l.row + l.i - 1
  <2>1. lexer.row \in Nat /\ lexer.i \in Nat BY <1>1, <1>5, MainIsFirst, MainIsRead
  <2>2. lexer.count = Len(LOCS) /\ Len(LOCS) \in Nat /\ lexer.count <= m * lexer.row + lexer.i - 1
    BY <1>1, <1>5, MainIsFirst, IsSeqProperties DEF InvOfLexer
  <2> DEFINE p == m * lexer.row
  <2>3. p \in Nat /\ m * l.row = p BY <1>4, <2>1
  <2>4. lexer.count <= p + lexer.i - 1 BY <2>2
  <2> HIDE DEF p
  <2>5. lexer.count <= p + (lexer.i + 1) - 1 BY <2>1, <2>2, <2>3, <2>4
  <2> QED BY <1>4, <2>3, <2>5
<1> QED BY <1>1, <1>2, <1>4, <1>5, MainIsFirst, SafeStep

LEMMA SafeBadWord == ASSUME InvOfTexts, BadWord PROVE InvOfTexts'
BY SafeStop DEF BadWord, Halted

(* There is room for a token of the line and for its location.                *)
LEMMA RoomForAToken ==
    ASSUME NEW m \in Nat, NEW n \in Nat, NEW lines \in Nat, NEW row \in Nat, NEW i \in Nat, NEW pushed \in Nat,
           NEW perline \in Nat, NEW locs \in Nat,
           row < lines, lines <= n, i <= m, pushed <= m * row + i - 1, m <= perline, m * n <= locs
    PROVE  pushed < perline * lines /\ pushed < locs
<1> DEFINE p == m * row
<1>1. p \in Nat /\ m * (row + 1) = p + m OBVIOUS
<1>2. m * (row + 1) <= m * lines
  <2> DEFINE k == row + 1
  <2>1. k \in Nat /\ k <= lines OBVIOUS
  <2> HIDE DEF k
  <2>2. m * k <= m * lines BY <2>1
  <2> QED BY <2>2 DEF k
<1>3. m * lines <= perline * lines OBVIOUS
<1>4. m * lines <= m * n OBVIOUS
<1>5. pushed <= p + i - 1 OBVIOUS
<1>6. m * (row + 1) \in Nat /\ m * lines \in Nat /\ perline * lines \in Nat /\ m * n \in Nat OBVIOUS
<1> HIDE DEF p
<1>7. pushed < m * (row + 1) BY <1>1, <1>5, <1>6
<1> DEFINE a == m * (row + 1)
           b == m * lines
           c == perline * lines
           d == m * n
<1>8. pushed < a /\ a <= b /\ b <= c /\ b <= d /\ d <= locs /\ a \in Nat /\ b \in Nat /\ c \in Nat /\ d \in Nat
  BY <1>2, <1>3, <1>4, <1>6, <1>7
<1> HIDE DEF a, b, c, d
<1>9. pushed < c /\ pushed < locs BY <1>8
<1> QED BY <1>9 DEF c

LEMMA SafePushToken == ASSUME InvOfTexts, PushToken PROVE InvOfTexts'
<1> DEFINE l == [lexer EXCEPT !.tokens = Written(@, lexer.count, new_token), !.count = @ + 1, !.i = @ + 1]
           text == disk[MainPath]
           n == Len(LinesOf(text))
<1>1. /\ InLine
      /\ \/ (Len(LOCS) = LOCS_CAP \/ lexer.count >= Capacity(lexer)) /\ Stop("corrupt")
         \/ LOCS' = Append(LOCS, Here) /\ Innermost(l) /\ UNCHANGED <<disk, below, FILES, stage>>
  BY DEF PushToken
<1>2. stage = "lexing" /\ lexer.row < Len(lexer.lines) /\ lexer.i <= Len(line) BY <1>1 DEF InLine, Lexing
<1>3. InvOfLexer' BY PushTokenKeeps DEF InvOfTexts
<1>4. Reader(disk, FILES, lexer) BY <1>2, MainIsFirst, InnermostIs
<1>5. IsSeq(LOCS) /\ Len(LOCS) \in Nat BY IsSeqProperties DEF InvOfTexts, InvOfLexer
<1>6. ASSUME OnlyMain PROVE Len(LOCS) < LOCS_CAP /\ lexer.count < Capacity(lexer)
  <2>1. /\ n \in Nat
        /\ n > 0 => \E m \in Nat : /\ Bounds(text, m) /\ m <= MAXIMUM_TOKENS_AMOUNT_PER_LINE /\ m * n <= LOCS_CAP
    BY <1>2, <1>6, MainIsFirst, FewWordsAre
  <2>2. /\ Len(lexer.lines) \in Nat /\ Len(lexer.lines) <= n /\ lexer.row \in Nat /\ lexer.i \in Nat \ {0}
        /\ \A m \in Nat : Bounds(text, m) /\ lexer.row < Len(lexer.lines) => Len(line) \in Nat /\ Len(line) <= m
    BY <1>2, <1>6, MainIsFirst, MainIsRead
  <2>3. lexer.count = Len(LOCS) /\ \A m \in Nat : Bounds(text, m) => lexer.count <= m * lexer.row + lexer.i - 1
    BY <1>2, <1>6, MainIsFirst
  <2> HIDE DEF text, n
  <2>4. n > 0 BY <1>2, <2>1, <2>2
  <2>5. PICK m \in Nat : Bounds(text, m) /\ m <= MAXIMUM_TOKENS_AMOUNT_PER_LINE /\ m * n <= LOCS_CAP BY <2>1, <2>4
  <2>6. Len(line) \in Nat /\ Len(line) <= m BY <1>2, <2>2, <2>5
  <2>7. lexer.i <= m BY <1>2, <2>2, <2>6
  <2>8. lexer.count <= m * lexer.row + lexer.i - 1 BY <2>3, <2>5
  <2>9. MAXIMUM_TOKENS_AMOUNT_PER_LINE \in Nat /\ LOCS_CAP \in Nat BY TheCaps
  <2>10. lexer.count < MAXIMUM_TOKENS_AMOUNT_PER_LINE * Len(lexer.lines) /\ lexer.count < LOCS_CAP
    <3> DEFINE lines == Len(lexer.lines)
               row == lexer.row
               i == lexer.i
               pushed == lexer.count
    <3>1. n \in Nat /\ lines \in Nat /\ row \in Nat /\ i \in Nat /\ pushed \in Nat
      BY <1>5, <2>1, <2>2, <2>3
    <3>2. row < lines /\ lines <= n /\ i <= m /\ pushed <= m * row + i - 1 BY <1>2, <2>2, <2>7, <2>8
    <3> HIDE DEF lines, row, i, pushed
    <3>3. pushed < MAXIMUM_TOKENS_AMOUNT_PER_LINE * lines /\ pushed < LOCS_CAP
      BY <2>5, <2>9, <3>1, <3>2, RoomForAToken
    <3> QED BY <3>3 DEF lines, pushed
  <2> QED BY <2>3, <2>10 DEF Capacity
<1>7. CASE (Len(LOCS) = LOCS_CAP \/ lexer.count >= Capacity(lexer)) /\ Stop("corrupt")
  <2>1. ~OnlyMain
    <3>1. SUFFICES ASSUME OnlyMain PROVE FALSE OBVIOUS
    <3>2. Len(LOCS) < LOCS_CAP /\ lexer.count < Capacity(lexer) /\ lexer.count = Len(LOCS)
      BY <1>2, <1>6, <3>1, MainIsFirst
    <3>3. Capacity(lexer) \in Nat
      <4>1. Len(lexer.lines) \in Nat BY <1>2, <3>1, MainIsFirst, MainIsRead
      <4> QED BY <4>1, TheCaps DEF Capacity
    <3> QED BY <1>5, <1>7, <3>2, <3>3, TheCaps
  <2>2. Len(FILES) # 1 \/ ~FewWords(MainPath) BY <2>1 DEF OnlyMain
  <2>3. Len(FILES) # 1 => Len(FILES) > 1 BY <1>2, MainIsFirst
  <2> QED BY <1>7, <2>2, <2>3, SafeStop DEF Excused, Halted
<1>8. CASE LOCS' = Append(LOCS, Here) /\ Innermost(l) /\ UNCHANGED <<disk, below, FILES, stage>>
  <2>1. l.count = lexer.count + 1 /\ l.row = lexer.row /\ l.i = lexer.i + 1 BY <1>4 DEF Reader
  <2> HIDE DEF l
  <2>2. Len(LOCS)' = Len(LOCS) + 1 BY <1>5, <1>8, Appended
  <2>3. ASSUME OnlyMain, NEW m \in Nat, Bounds(text, m)
        PROVE  l.count <= m * l.row + l.i - 1
    <3>1. lexer.row \in Nat /\ lexer.i \in Nat BY <1>2, <2>3, MainIsFirst, MainIsRead
    <3>2. lexer.count = Len(LOCS) /\ lexer.count <= m * lexer.row + lexer.i - 1 BY <1>2, <2>3, MainIsFirst
    <3> DEFINE p == m * lexer.row
    <3>3. p \in Nat /\ m * l.row = p BY <2>1, <3>1
    <3>4. lexer.count <= p + lexer.i - 1 BY <3>2
    <3> HIDE DEF p
    <3>5. lexer.count + 1 <= p + (lexer.i + 1) - 1 BY <1>5, <3>1, <3>2, <3>3, <3>4
    <3> QED BY <2>1, <3>3, <3>5
  <2>4. OnlyMain => l.count = Len(LOCS)' BY <1>2, <2>1, <2>2, MainIsFirst
  <2> QED BY <1>2, <1>3, <1>8, <2>3, <2>4, SafeStep
<1> QED BY <1>1, <1>7, <1>8

LEMMA IncludeIsExcused == ASSUME InvOfTexts, InLine, Includes PROVE Excused
<1>1. stage = "lexing" BY DEF InLine, Lexing
<1>2. Len(FILES) = 1 \/ Len(FILES) > 1 BY <1>1, MainIsFirst
<1>3. CASE OnlyMain BY <1>1, <1>3, MainIsFirst, IncludeIsWritten DEF Excused
<1>4. CASE ~OnlyMain BY <1>2, <1>4 DEF OnlyMain, Excused
<1> QED BY <1>3, <1>4

LEMMA SafeBadInclude == ASSUME InvOfTexts, BadInclude PROVE InvOfTexts'
BY SafeStop, IncludeIsExcused DEF BadInclude, Halted

LEMMA SafeInclude == ASSUME InvOfTexts, Include PROVE InvOfTexts'
<1> DEFINE path == Path(Quoted)
<1>1. InLine /\ Includes /\ OpenFile(path) BY DEF Include
<1>2. InvOfLexer' BY IncludeKeeps DEF InvOfTexts
<1>3. stage = "lexing" BY <1>1 DEF InLine, Lexing
<1> HIDE DEF path
<1>4. CASE OpensHow(path) # "lexing"
  <2>1. Stop(OpensHow(path)) BY <1>1, <1>4 DEF OpenFile
  <2>2. OpensHow(path) \in Halted BY <1>4 DEF OpensHow, Halted
  <2> QED BY <1>1, <2>1, <2>2, SafeStop, IncludeIsExcused
<1>5. CASE OpensHow(path) = "lexing"
  <2>1. FILES' = Append(FILES, path) /\ stage' = "lexing" BY <1>1, <1>5 DEF OpenFile, Grown
  <2>2. IsSeq(FILES) /\ Len(FILES) \in Nat /\ Len(FILES) >= 1 /\ FILES[1] = MainPath /\ 1 \in 1 .. Len(FILES)
    <3>1. IsSeq(FILES) BY DEF InvOfTexts, InvOfLexer, Named
    <3> QED BY <1>3, <3>1, MainIsFirst
  <2>3. Len(FILES') = Len(FILES) + 1 /\ FILES'[1] = MainPath BY <2>1, <2>2, Appended
  <2>4. ~OnlyMain' BY <2>2, <2>3 DEF OnlyMain
  <2>5. CountsFit' BY <2>3, <2>4 DEF CountsFit
  <2>6. TextsAreSafe' BY <2>1 DEF TextsAreSafe
  <2> QED BY <1>2, <2>1, <2>5, <2>6 DEF InvOfTexts
<1> QED BY <1>4, <1>5

LEMMA SafeEndLine == ASSUME InvOfTexts, EndLine PROVE InvOfTexts'
<1> DEFINE l == NextLine(lexer)
<1>1. /\ stage = "lexing" /\ lexer.row < Len(lexer.lines) /\ Innermost(l)
      /\ UNCHANGED <<disk, FILES, LOCS, stage>>
  BY DEF EndLine, Lexing
<1>2. InvOfLexer' BY EndLineKeeps DEF InvOfTexts
<1>3. Reader(disk, FILES, lexer) BY <1>1, MainIsFirst, InnermostIs
<1>4. l.count = lexer.count /\ l.row = lexer.row + 1 /\ l.i = 1 BY <1>3 DEF Reader, NextLine
<1> HIDE DEF l
<1>5. ASSUME OnlyMain, NEW m \in Nat, Bounds(disk[MainPath], m)
      PROVE  l.count <= m * l.row + l.i - 1
  <2>1. lexer.row \in Nat /\ lexer.i \in Nat /\ lexer.i <= m + 1 BY <1>1, <1>5, MainIsFirst, MainIsRead
  <2>2. lexer.count = Len(LOCS) /\ Len(LOCS) \in Nat /\ lexer.count <= m * lexer.row + lexer.i - 1
    BY <1>1, <1>5, MainIsFirst, IsSeqProperties DEF InvOfLexer
  <2> DEFINE p == m * lexer.row
  <2>3. p \in Nat /\ m * (lexer.row + 1) = p + m BY <2>1
  <2>4. lexer.count <= p + lexer.i - 1 BY <2>2
  <2> HIDE DEF p
  <2>5. lexer.count <= p + m + 1 - 1 BY <2>1, <2>2, <2>3, <2>4
  <2> QED BY <1>4, <2>3, <2>5
<1> QED BY <1>1, <1>2, <1>4, <1>5, MainIsFirst, SafeStep

LEMMA SafeIncludeReturns == ASSUME InvOfTexts, IncludeReturns PROVE InvOfTexts'
<1>1. stage = "lexing" /\ Len(lexers) > 1 BY DEF IncludeReturns, Returns
<1>2. InvOfLexer' BY IncludeReturnsKeeps DEF InvOfTexts
<1>3. Len(FILES) > 1
  <2>1. Len(lexers) <= Len(FILES) /\ IsSeq(lexers) BY DEF InvOfTexts, InvOfLexer, Readers
  <2>2. Len(lexers) \in Nat /\ Len(FILES) \in Nat BY <1>1, <2>1, MainIsFirst, IsSeqProperties
  <2> QED BY <1>1, <2>1, <2>2
<1>4. Stop("corrupt") \/ UNCHANGED <<disk, below, FILES, LOCS, stage>> BY DEF IncludeReturns
<1>5. CASE Stop("corrupt") BY <1>3, <1>5, SafeStop DEF Excused, Halted
<1>6. CASE UNCHANGED <<disk, below, FILES, LOCS, stage>>
  <2>1. ~OnlyMain'
    <3>1. ~OnlyMain BY <1>1, <1>3, MainIsFirst
    <3> QED BY <1>6, <3>1, FewWordsStay DEF OnlyMain
  <2>2. CountsFit' BY <1>1, <1>6, <2>1, MainIsFirst DEF CountsFit
  <2>3. TextsAreSafe' BY <1>1, <1>6 DEF TextsAreSafe
  <2> QED BY <1>1, <1>2, <1>6, <2>2, <2>3 DEF InvOfTexts
<1> QED BY <1>4, <1>5, <1>6

LEMMA SafeStutter == ASSUME InvOfTexts, UNCHANGED lexerVars PROVE InvOfTexts'
<1>1. UNCHANGED <<disk, below, FILES, LOCS, lexers, stage>> BY DEF lexerVars
<1>2. InvOfLexer' BY LexerKeeps DEF InvOfTexts
<1>3. FewWords(MainPath)' = FewWords(MainPath) BY <1>1, FewWordsStay
<1>4. lexer' = lexer BY <1>1 DEF lexer
<1>5. TextsAreSafe' BY <1>1, <1>3, <1>4 DEF TextsAreSafe, InvOfTexts
<1>6. OnlyMain' = OnlyMain BY <1>1, <1>3 DEF OnlyMain
<1>7. CountsFit => CountsFit' BY <1>1, <1>4, <1>6 DEF CountsFit
<1> QED BY <1>1, <1>2, <1>5, <1>7 DEF InvOfTexts

LEMMA TextsKeepSafe == InvOfTexts /\ [LexerNext]_lexerVars => InvOfTexts'
<1> SUFFICES ASSUME InvOfTexts, [LexerNext]_lexerVars PROVE InvOfTexts' OBVIOUS
<1>1. CASE Start BY <1>1, SafeStart
<1>2. CASE ReadLine BY <1>2, SafeReadLine
<1>3. CASE LastLineRead BY <1>3, SafeLastLineRead
<1>4. CASE SkipWord BY <1>4, SafeSkipWord
<1>5. CASE BadWord BY <1>5, SafeBadWord
<1>6. CASE PushToken BY <1>6, SafePushToken
<1>7. CASE BadInclude BY <1>7, SafeBadInclude
<1>8. CASE Include BY <1>8, SafeInclude
<1>9. CASE EndLine BY <1>9, SafeEndLine
<1>10. CASE IncludeReturns BY <1>10, SafeIncludeReturns
<1>11. CASE LexStepReturns BY <1>11, SafeStop DEF LexStepReturns, Halted
<1>12. CASE UNCHANGED lexerVars BY <1>12, SafeStutter
<1> QED
  BY <1>1, <1>2, <1>3, <1>4, <1>5, <1>6, <1>7, <1>8, <1>9, <1>10, <1>11, <1>12 DEF LexerNext, Lexes, LexerStopped

(* split, lexer_lex: a text without includes, with few lines of few symbols   *)
(* each, none of which begins with a comment, neither kills the lexer nor     *)
(* makes it write outside the pools and buffers.                              *)
THEOREM TextsAreSafeHolds == LexerSpec => []TextsAreSafe
<1>1. LexerInit => InvOfTexts BY LexerStarts DEF LexerInit, InvOfTexts, TextsAreSafe
<1>2. InvOfTexts => TextsAreSafe BY DEF InvOfTexts
<1> QED BY <1>1, <1>2, TextsKeepSafe, PTL DEF LexerSpec
=============================================================================
