------------------------------ MODULE PraccProof ------------------------------
(* Certified code is safe on any run of any program: the inductive invariant  *)
(* of Safety holds of every state; and the emitted code implements Routines. *)
EXTENDS Safety, SeqFacts

Bases == [base : Nat, rsp : Nat]

(* What the stacks and the views are made of.                                 *)
LEMMA StacksProperties ==
    ASSUME Stacks
    PROVE  /\ Len(stack) \in Nat /\ DOMAIN stack = 1 .. Len(stack)
           /\ Len(rsp_stack) \in Nat
           /\ Depth \in Nat \ {0} /\ DOMAIN calls = 1 .. Depth
           /\ \A k \in 1 .. Depth : Base(k) \in Nat /\ calls[k].rsp \in Nat
           /\ Top(calls) = calls[Depth] /\ Top(calls).base = Base(Depth)
<1>1. calls \in Seq(Bases) /\ rsp_stack \in Seq(Nat) /\ IsSeq(stack) /\ Depth >= 1
  BY DEF Stacks, Bases
<1>2. Depth \in Nat \ {0} /\ DOMAIN calls = 1 .. Depth BY <1>1, LenProperties DEF Depth
<1>3. \A k \in 1 .. Depth : calls[k] \in Bases BY <1>1, ElementOfSeq DEF Depth
<1>4. \A k \in 1 .. Depth : Base(k) \in Nat /\ calls[k].rsp \in Nat BY <1>3 DEF Bases, Base
<1>5. Len(stack) \in Nat /\ DOMAIN stack = 1 .. Len(stack) BY <1>1, IsSeqProperties
<1>6. Len(rsp_stack) \in Nat BY <1>1, LenProperties
<1> QED BY <1>2, <1>4, <1>5, <1>6 DEF Top, Depth, Base

LEMMA Nesting ==
    ASSUME Stacks, NEW j \in 1 .. Depth, NEW k \in 1 .. Depth, j <= k
    PROVE  /\ Base(j) <= Base(k) /\ calls[j].rsp <= calls[k].rsp
           /\ j < k => Base(j) < Base(k)
<1>1. Depth \in Nat \ {0} /\ Base(j) \in Nat /\ Base(k) \in Nat /\ calls[k].rsp \in Nat
  BY StacksProperties
<1>2. CASE j = k BY <1>1, <1>2
<1>3. CASE j < k
  <2>1. j \in 1 .. k - 1 BY <1>1, <1>3
  <2>2. Base(j) < Base(k) /\ calls[j].rsp <= calls[k].rsp BY <2>1 DEF Stacks
  <2> QED BY <1>1, <2>2
<1> QED BY <1>1, <1>2, <1>3

LEMMA ViewProperties ==
    ASSUME Certified, NEW i \in DOMAIN code
    PROVE  /\ i \in Nat
           /\ code[i].types \in Seq(Kinds) /\ Len(code[i].types) \in Nat
           /\ DOMAIN code[i].types = 1 .. Len(code[i].types)
           /\ code[i].marks \in Seq(Nat) /\ Len(code[i].marks) \in Nat
           /\ DOMAIN code[i].marks = 1 .. Len(code[i].marks)
           /\ \A n \in 1 .. Len(code[i].marks) : code[i].marks[n] \in Nat
           /\ HasWhatItNeeds(i) /\ LeadsOn(i) /\ WellFormed(i)
<1>1. i \in Nat /\ WellFormed(i) /\ HasWhatItNeeds(i) /\ LeadsOn(i) BY DEF Certified
<1>2. code[i].types \in Seq(Kinds) /\ code[i].marks \in Seq(Nat) BY <1>1 DEF WellFormed
<1> QED BY <1>1, <1>2, LenProperties, ElementOfSeq

(* Nothing below the part of routine d has changed: the routines before it    *)
(* stand where they stood.                                                    *)
Below(d) == /\ code' = code /\ d <= Depth'
            /\ \A k \in 1 .. d : calls'[k] = calls[k]
            /\ \A i \in 1 .. Base(d) : stack'[i] = stack[i]
            /\ \A i \in 1 .. calls[d].rsp : rsp_stack'[i] = rsp_stack[i]

LEMMA LowerRoutine ==
    ASSUME Certified, Good, Depth' \in Nat,
           NEW d \in 1 .. Depth, Below(d), NEW k \in 1 .. Depth, k < d
    PROVE  Site(k)' = Site(k) /\ Described(k)'
<1>1. Stacks BY DEF Good
<1>2. /\ Depth \in Nat \ {0}
      /\ \A j \in 1 .. Depth : Base(j) \in Nat /\ calls[j].rsp \in Nat
  BY <1>1, StacksProperties
<1>3. /\ k + 1 \in 1 .. Depth /\ k # Depth /\ k + 1 \in 1 .. d /\ k \in 1 .. d /\ k + 1 <= d
      /\ k # Depth'
  BY <1>2 DEF Below
<1>4. /\ Base(k)' = Base(k) /\ Base(k + 1)' = Base(k + 1)
      /\ calls'[k].rsp = calls[k].rsp /\ calls'[k + 1].rsp = calls[k + 1].rsp
  BY <1>3 DEF Below, Base
<1>5. Base(k + 1) <= Base(d) /\ calls[k + 1].rsp <= calls[d].rsp
  BY <1>1, <1>3, Nesting
<1>6. Base(k + 1) >= 1 BY <1>1, <1>2, <1>3, Nesting
<1>7. stack'[Base(k + 1)] = stack[Base(k + 1)] BY <1>2, <1>3, <1>5, <1>6 DEF Below
<1>8. Site(k)' = Site(k) BY <1>3, <1>4, <1>7 DEF Site, Caller
<1>9. /\ EndOf(k) = Base(k + 1) - 1 /\ RspEnd(k) = calls[k + 1].rsp
      /\ EndOf(k)' = EndOf(k) /\ RspEnd(k)' = RspEnd(k)
  BY <1>3, <1>4 DEF EndOf, RspEnd
<1>10. Described(k)'
  <2>1. Described(k) BY DEF Good
  <2>2. /\ EndOf(k) = Base(k) + Len(TypesOf(k))
        /\ RspEnd(k) = calls[k].rsp + Len(MarksOf(k)) BY <2>1 DEF Described
  <2>3. TypesOf(k)' = TypesOf(k) /\ MarksOf(k)' = MarksOf(k)
    BY <1>8 DEF TypesOf, MarksOf, Below
  <2>4. Len(TypesOf(k)) \in Nat /\ Len(MarksOf(k)) \in Nat
    BY <2>1, ViewProperties DEF Described, TypesOf, MarksOf
  <2>5. ASSUME NEW i \in 1 .. Len(TypesOf(k)) PROVE stack'[Base(k) + i] = stack[Base(k) + i]
    <3>1. Base(k) + i \in 1 .. Base(d)
      <4>1. Base(k) + Len(TypesOf(k)) < Base(d) /\ Base(k) \in Nat /\ Base(d) \in Nat
        BY <1>2, <1>3, <1>5, <1>9, <2>2
      <4> QED BY <2>4, <4>1
    <3> QED BY <3>1 DEF Below
  <2>6. ASSUME NEW i \in 1 .. Len(MarksOf(k))
        PROVE  rsp_stack'[calls[k].rsp + i] = rsp_stack[calls[k].rsp + i]
    <3>1. calls[k].rsp + i \in 1 .. calls[d].rsp
      <4>1. /\ calls[k].rsp \in Nat /\ calls[d].rsp \in Nat
            /\ calls[k].rsp + Len(MarksOf(k)) <= calls[d].rsp
        BY <1>2, <1>5, <1>9, <2>2
      <4> QED BY <2>4, <4>1
    <3> QED BY <3>1 DEF Below
  <2>7. Site(k)' \in DOMAIN code' BY <1>8, <2>1 DEF Described, Below
  <2> QED BY <1>4, <1>9, <2>1, <2>2, <2>3, <2>5, <2>6, <2>7 DEF Described
<1> QED BY <1>8, <1>10

(* The innermost routine has gone from pc to pc' and nothing below its part   *)
(* of the stacks has changed.                                                 *)
Local == /\ code' = code /\ calls' = calls
         /\ pc' \in Sequels(pc)
         /\ IsSeq(stack')
         /\ Len(stack') = Base(Depth) + Len(TypesAfter(pc))
         /\ \A i \in 1 .. Base(Depth) : stack'[i] = stack[i]
         /\ \A i \in 1 .. Len(TypesAfter(pc)) :
               TypesAfter(pc)[i] \in {"poisoned", stack'[Base(Depth) + i].kind}
         /\ rsp_stack' \in Seq(Nat)
         /\ Len(rsp_stack') = calls[Depth].rsp + Len(MarksAfter(pc))
         /\ \A i \in 1 .. calls[Depth].rsp : rsp_stack'[i] = rsp_stack[i]
         /\ \A i \in 1 .. Len(MarksAfter(pc)) :
               rsp_stack'[calls[Depth].rsp + i] = Base(Depth) + MarksAfter(pc)[i]

LEMMA LocalStep ==
    ASSUME Certified, Good, Local PROVE Good'
<1> USE DEF Local
<1>1. Stacks BY DEF Good
<1>2. /\ Depth \in Nat \ {0}
      /\ \A k \in 1 .. Depth : Base(k) \in Nat /\ calls[k].rsp \in Nat
  BY <1>1, StacksProperties
<1>3. Depth' = Depth /\ \A k : Base(k)' = Base(k) BY DEF Depth, Base
<1>4. Stacks' BY <1>1, <1>3 DEF Stacks
<1>5. pc \in DOMAIN code /\ pc = Site(Depth) BY <1>2 DEF Good, Described, Site
<1>6. /\ pc' \in DOMAIN code
      /\ code[pc'].of = code[pc].of
      /\ Covers(code[pc'].types, TypesAfter(pc))
      /\ code[pc'].marks = MarksAfter(pc)
  BY <1>5, ViewProperties DEF LeadsOn
<1>7. Len(code[pc'].types) \in Nat /\ DOMAIN code[pc'].types = 1 .. Len(code[pc'].types)
  BY <1>6, ViewProperties
<1>8. \A k : k = Depth => Site(k)' = pc' BY <1>3 DEF Site
<1>9. ASSUME NEW k, k = Depth PROVE Described(k)'
  <2>0. Site(k)' = pc' BY <1>8, <1>9
  <2>1. EndOf(k)' = Base(k)' + Len(TypesOf(k)')
    BY <1>3, <1>6, <1>9, <2>0 DEF EndOf, TypesOf, Covers
  <2>2. ASSUME NEW i \in 1 .. Len(TypesOf(k)')
        PROVE  TypesOf(k)'[i] \in {"poisoned", stack'[Base(k)' + i].kind}
    BY <1>3, <1>6, <1>7, <1>9, <2>0, <2>2 DEF TypesOf, Covers
  <2>3. RspEnd(k)' = calls'[k].rsp + Len(MarksOf(k)')
    BY <1>3, <1>6, <1>9, <2>0 DEF RspEnd, MarksOf
  <2>4. ASSUME NEW i \in 1 .. Len(MarksOf(k)')
        PROVE  rsp_stack'[calls'[k].rsp + i] = Base(k)' + MarksOf(k)'[i]
    BY <1>3, <1>6, <1>9, <2>0, <2>4 DEF MarksOf
  <2> QED BY <1>3, <1>6, <2>0, <2>1, <2>2, <2>3, <2>4 DEF Described
<1> HIDE DEF Local
<1>10. Below(Depth) BY <1>2, <1>3 DEF Below, Local
<1>11. ASSUME NEW k \in 1 .. Depth, k < Depth PROVE Site(k)' = Site(k) /\ Described(k)'
  BY <1>2, <1>3, <1>10, <1>11, LowerRoutine
<1>12. ASSUME NEW k \in 2 .. Depth PROVE Called(k)'
  <2>1. Called(k) BY DEF Good
  <2>2. /\ k - 1 \in 1 .. Depth /\ k - 1 < Depth /\ k \in 1 .. Depth /\ (k - 1) + 1 = k
    BY <1>2
  <2>3. Site(k - 1)' = Site(k - 1) BY <1>11, <2>2
  <2>4. code[Site(k)'].of = code[Site(k)].of
    <3>1. CASE k = Depth BY <1>5, <1>6, <1>8, <3>1 DEF Site
    <3>2. CASE k # Depth
      <4>1. k < Depth BY <1>2, <2>2, <3>2
      <4> QED BY <1>11, <2>2, <4>1
    <3> QED BY <3>1, <3>2
  <2>5. Base(k) \in 1 .. Base(Depth)
    <3>1. Base(k) <= Base(Depth) BY <1>1, <1>2, <2>2, Nesting
    <3>2. Base(k - 1) < Base(k) BY <1>1, <1>2, <2>2, Nesting
    <3> QED BY <1>2, <2>2, <3>1, <3>2
  <2> QED BY <1>3, <2>1, <2>3, <2>4, <2>5 DEF Called, Local
<1>13. code[Site(1)'].of = START
  <2>1. code[Site(1)].of = START BY DEF Good
  <2>2. CASE 1 = Depth BY <1>5, <1>6, <1>8, <2>1, <2>2 DEF Site
  <2>3. CASE 1 # Depth
    <3>1. 1 \in 1 .. Depth /\ 1 < Depth BY <1>2, <2>3
    <3> QED BY <1>11, <2>1, <3>1
  <2> QED BY <2>2, <2>3
<1>14. \A k \in 1 .. Depth : Described(k)'
  <2> TAKE k \in 1 .. Depth
  <2> QED BY <1>2, <1>9, <1>11
<1> QED BY <1>3, <1>4, <1>12, <1>13, <1>14 DEF Good, Local

(* What the innermost routine finds.                                          *)
LEMMA TopView ==
    ASSUME Certified, Good
    PROVE  /\ pc \in DOMAIN code
           /\ Len(stack) = Base(Depth) + Len(code[pc].types)
           /\ \A i \in 1 .. Len(code[pc].types) :
                 code[pc].types[i] \in {"poisoned", stack[Base(Depth) + i].kind}
           /\ Len(rsp_stack) = calls[Depth].rsp + Len(code[pc].marks)
           /\ \A i \in 1 .. Len(code[pc].marks) :
                 rsp_stack[calls[Depth].rsp + i] = Base(Depth) + code[pc].marks[i]
<1>1. Depth \in 1 .. Depth BY StacksProperties DEF Good
<1>2. Described(Depth) BY <1>1 DEF Good
<1>3. Site(Depth) = pc BY DEF Site
<1> QED BY <1>2, <1>3 DEF Described, EndOf, RspEnd, TypesOf, MarksOf

LEMMA PopsProperties ==
    ASSUME Certified, NEW i \in DOMAIN code
    PROVE  /\ Pops(code[i].ins) \in 0 .. Len(code[i].types)
           /\ IsSeq(Pushes(code[i].ins, code[i].types))
<1> DEFINE ins == code[i].ins
<1>1. HasWhatItNeeds(i) /\ WellFormed(i) BY ViewProperties
<1>2. Len(code[i].types) \in Nat BY ViewProperties
<1>3. Pops(ins) <= Len(code[i].types) BY <1>1, <1>2 DEF HasWhatItNeeds
<1>4. Pops(ins) \in Nat
  <2>1. ins.op = "syscall" => ins.pops \in Nat BY <1>1 DEF WellFormed
  <2>2. ins.op \in {"call", "ffi"} => Len(ins.args) \in Nat
    BY <1>1, LenProperties DEF WellFormed
  <2> QED BY <2>1, <2>2 DEF Pops
<1>5. IsSeq(Pushes(ins, code[i].types))
  <2>1. ins.op \in {"call", "ffi"} => IsSeq(ins.rets) BY <1>1, SeqIsSeq DEF WellFormed
  <2> QED BY <2>1, SmallSeqs DEF Pushes
<1> QED BY <1>2, <1>3, <1>4, <1>5

(* An instruction that neither opens nor closes a routine or an inlined body  *)
(* pops what the view says and pushes cells of the kinds it says.             *)
Plain == Ins.op \notin {"enter", "leave", "call", "ret"}
Pushed == Pushes(Ins, code[pc].types)
Advance(cells) ==
    /\ code' = code /\ calls' = calls /\ rsp_stack' = rsp_stack
    /\ pc' \in Sequels(pc)
    /\ stack' = Drop(stack, Pops(Ins)) \o cells
    /\ IsSeq(cells) /\ Len(cells) = Len(Pushed)
    /\ \A i \in 1 .. Len(Pushed) : Pushed[i] \in {"poisoned", cells[i].kind}

LEMMA PlainStep ==
    ASSUME Certified, Good, Plain, NEW cells, Advance(cells) PROVE Good'
<1> DEFINE pops == Pops(Ins)
           types == code[pc].types
<1>1. Stacks /\ pc \in DOMAIN code BY TopView DEF Good
<1>2. /\ Base(Depth) \in Nat /\ Len(stack) \in Nat /\ IsSeq(stack)
      /\ Depth \in 1 .. Depth
  BY <1>1, StacksProperties DEF Stacks
<1>3. Len(types) \in Nat /\ IsSeq(types) BY <1>1, ViewProperties, SeqIsSeq
<1>4. pops \in 0 .. Len(types) /\ IsSeq(Pushed) BY <1>1, PopsProperties DEF Pushed, Ins
<1>5. Len(stack) = Base(Depth) + Len(types) BY TopView
<1>6. pops \in Nat /\ pops <= Len(stack) /\ pops <= Len(types) BY <1>2, <1>3, <1>4, <1>5
<1>7. Len(Pushed) \in Nat BY <1>4, IsSeqProperties
<1> DEFINE left == Len(types) - pops
           kept == Len(stack) - pops
<1>8. TypesAfter(pc) = Onto(types, left, Pushed) /\ stack' = Onto(stack, kept, cells)
  BY DEF TypesAfter, Plain, Pushed, Ins, Advance, Onto, Drop
<1>0. /\ left \in Nat /\ left <= Len(types) /\ kept \in Nat /\ kept <= Len(stack)
      /\ kept = Base(Depth) + left
  <2>1. left \in Nat /\ left <= Len(types) BY <1>3, <1>6
  <2>2. kept \in Nat /\ kept <= Len(stack) BY <1>2, <1>6
  <2>3. kept = Base(Depth) + left
    <3>1. /\ Base(Depth) \in Nat /\ Len(types) \in Nat /\ pops \in Nat
          /\ Len(stack) = Base(Depth) + Len(types)
      BY <1>2, <1>3, <1>5, <1>6
    <3> HIDE DEF types, pops
    <3> QED BY <3>1
  <2> QED BY <2>1, <2>2, <2>3
<1> HIDE DEF pops, types, left, kept
<1>9. /\ Len(TypesAfter(pc)) = left + Len(Pushed)
      /\ \A i \in 1 .. left : TypesAfter(pc)[i] = types[i]
      /\ \A i \in 1 .. Len(Pushed) : TypesAfter(pc)[left + i] = Pushed[i]
  <2>1. IsSeq(types) /\ IsSeq(Pushed) /\ left \in Nat /\ left <= Len(types) BY <1>0, <1>3, <1>4
  <2>2. /\ Len(Onto(types, left, Pushed)) = left + Len(Pushed)
        /\ \A i \in 1 .. left : Onto(types, left, Pushed)[i] = types[i]
        /\ \A i \in 1 .. Len(Pushed) : Onto(types, left, Pushed)[left + i] = Pushed[i]
    BY <2>1, OntoProperties
  <2> QED BY <1>8, <2>2, Zenon
<1>10. /\ IsSeq(stack')
       /\ Len(stack') = kept + Len(Pushed)
       /\ \A i \in 1 .. kept : stack'[i] = stack[i]
       /\ \A i \in 1 .. Len(Pushed) : stack'[kept + i] = cells[i]
  <2>1. IsSeq(cells) /\ Len(cells) = Len(Pushed) BY DEF Advance
  <2>6. IsSeq(cells) /\ IsSeq(stack) /\ kept \in Nat /\ kept <= Len(stack) BY <1>0, <1>2, <2>1
  <2>2. /\ IsSeq(Onto(stack, kept, cells))
        /\ Len(Onto(stack, kept, cells)) = kept + Len(cells)
        /\ \A i \in 1 .. kept : Onto(stack, kept, cells)[i] = stack[i]
        /\ \A i \in 1 .. Len(cells) : Onto(stack, kept, cells)[kept + i] = cells[i]
    BY <2>6, OntoProperties
  <2> QED BY <1>8, <2>1, <2>2, Zenon
<1>11. Len(stack') = Base(Depth) + Len(TypesAfter(pc))
  BY <1>0, <1>2, <1>7, <1>9, <1>10
<1>12. ASSUME NEW i \in 1 .. Base(Depth) PROVE stack'[i] = stack[i]
  <2>1. i \in 1 .. kept BY <1>0, <1>2
  <2> QED BY <1>10, <2>1
<1>13. ASSUME NEW i \in 1 .. Len(TypesAfter(pc))
       PROVE  TypesAfter(pc)[i] \in {"poisoned", stack'[Base(Depth) + i].kind}
  <2>1. CASE i <= left
    <3>1. i \in 1 .. left /\ i \in 1 .. Len(types) /\ Base(Depth) + i \in 1 .. kept
      BY <1>0, <1>2, <1>3, <1>7, <1>9, <2>1
    <3>2. types[i] \in {"poisoned", stack[Base(Depth) + i].kind} BY <3>1, TopView DEF types
    <3> QED BY <1>9, <1>10, <3>1, <3>2
  <2>2. CASE i > left
    <3> DEFINE j == i - left
    <3>0. /\ i \in Nat /\ i <= left + Len(Pushed) /\ left \in Nat /\ Len(Pushed) \in Nat
          /\ kept = Base(Depth) + left /\ Base(Depth) \in Nat
      BY <1>0, <1>2, <1>7, <1>9
    <3>1. j \in 1 .. Len(Pushed) /\ i = left + j /\ Base(Depth) + i = kept + j
      BY <2>2, <3>0
    <3> HIDE DEF j
    <3>2. TypesAfter(pc)[i] = Pushed[j] /\ stack'[Base(Depth) + i] = cells[j]
      BY <1>9, <1>10, <3>1
    <3> QED BY <3>1, <3>2 DEF Advance
  <2> QED BY <1>0, <1>7, <1>9, <2>1, <2>2
<1>14. MarksAfter(pc) = code[pc].marks BY DEF MarksAfter, Plain, Ins
<1>15. Local
  BY <1>1, <1>10, <1>11, <1>12, <1>13, <1>14, TopView DEF Local, Advance, Stacks
<1> QED BY <1>15, LocalStep

(* rsp_stack ends with the depth the innermost open body was entered at.      *)
LEMMA TopSaved ==
    ASSUME Certified, Good, code[pc].marks # <<>>
    PROVE  /\ Top(rsp_stack) = Base(Depth) + Top(code[pc].marks)
           /\ Len(code[pc].marks) \in Nat \ {0} /\ rsp_stack # <<>>
           /\ Top(code[pc].marks) \in Nat
<1> DEFINE marks == code[pc].marks
           rsp == calls[Depth].rsp
<1>1. pc \in DOMAIN code /\ Len(rsp_stack) = rsp + Len(marks) BY TopView
<1>2. marks \in Seq(Nat) /\ Len(marks) \in Nat /\ \A n \in 1 .. Len(marks) : marks[n] \in Nat
  BY <1>1, ViewProperties
<1>3. Len(marks) \in Nat \ {0} BY <1>2, EmptySeq
<1>4. rsp \in Nat BY StacksProperties DEF Good
<1>5. rsp_stack[rsp + Len(marks)] = Base(Depth) + marks[Len(marks)] BY <1>3, TopView
<1>6. rsp_stack \in Seq(Nat) /\ Len(rsp_stack) # 0
  <2>1. rsp_stack \in Seq(Nat) BY DEF Good, Stacks
  <2>2. Len(rsp_stack) # 0 BY <1>1, <1>3, <1>4
  <2> QED BY <2>1, <2>2
<1>7. rsp_stack # <<>> BY <1>6, EmptySeq
<1> QED BY <1>1, <1>2, <1>3, <1>5, <1>7 DEF Top

LEMMA ResultsProperties ==
    ASSUME Certified, Good, Ins.op \in {"leave", "ret"}
    PROVE  /\ IsSeq(Results) /\ IsSeq(Ins.rets) /\ Len(Results) = Len(Ins.rets)
           /\ Len(Ins.rets) \in Nat /\ Len(Ins.rets) <= Len(stack)
           /\ \A i \in 1 .. Len(Ins.rets) : Ins.rets[i] \in {"poisoned", Results[i].kind}
<1> DEFINE types == code[pc].types
           rets == Ins.rets
<1>1. pc \in DOMAIN code BY TopView
<1>2. WellFormed(pc) /\ HasWhatItNeeds(pc) /\ types \in Seq(Kinds) /\ Len(types) \in Nat
  BY <1>1, ViewProperties
<1>3. rets \in Seq(Kinds) BY <1>2 DEF WellFormed, Ins
<1>4. IsSeq(rets) /\ Len(rets) \in Nat /\ IsSeq(types) BY <1>2, <1>3, SeqIsSeq, LenProperties
<1>5. TopN(types, Len(rets)) = Reversed(rets) BY <1>2 DEF HasWhatItNeeds, Ins
<1>6. code[pc].marks # <<>>
  <2>1. Ins.op = "ret" => code[pc].marks = <<0>> BY <1>2 DEF HasWhatItNeeds, Ins
  <2>2. Ins.op = "leave" => Len(code[pc].marks) > 1 BY <1>2 DEF HasWhatItNeeds, Ins
  <2>3. Len(<<>>) = 0 /\ <<0>> # <<>> BY SmallSeqs
  <2> QED BY <2>1, <2>2, <2>3
<1>7. Top(code[pc].marks) \in Nat BY <1>6, TopSaved
<1>8. Len(types) >= Top(code[pc].marks) + Len(rets) BY <1>2 DEF HasWhatItNeeds, Ins
<1>9. Len(rets) <= Len(types) BY <1>2, <1>4, <1>7, <1>8
<1>10. /\ Len(stack) = Base(Depth) + Len(types) /\ Base(Depth) \in Nat /\ Len(stack) \in Nat
       /\ IsSeq(stack)
  BY TopView, StacksProperties DEF Good, Stacks
<1>11. Len(rets) <= Len(stack) BY <1>2, <1>4, <1>9, <1>10
<1> HIDE DEF types, rets
<1>12. /\ IsSeq(Results) /\ Len(Results) = Len(rets)
       /\ \A i \in 1 .. Len(rets) : Results[i] = stack[Len(stack) + 1 - i]
  BY <1>4, <1>10, <1>11, ReversedTopN DEF Results, rets
<1>13. ASSUME NEW i \in 1 .. Len(rets) PROVE rets[i] \in {"poisoned", Results[i].kind}
  <2>1. types[Len(types) + 1 - i] = rets[i] BY <1>4, <1>5, <1>9, TopNIsReversed
  <2>2. /\ Len(types) + 1 - i \in 1 .. Len(types)
        /\ Base(Depth) + (Len(types) + 1 - i) = Len(stack) + 1 - i
    <3>1. Len(rets) \in Nat /\ Len(types) \in Nat /\ Base(Depth) \in Nat BY <1>2, <1>4, <1>10
    <3>2. Len(types) + 1 - i \in 1 .. Len(types) BY <1>9, <3>1
    <3>3. Base(Depth) + (Len(types) + 1 - i) = Len(stack) + 1 - i BY <1>10, <3>1
    <3> QED BY <3>2, <3>3
  <2>3. types[Len(types) + 1 - i] \in {"poisoned", stack[Len(stack) + 1 - i].kind}
    BY <2>2, TopView DEF types
  <2> QED BY <1>12, <2>1, <2>3
<1> QED BY <1>4, <1>11, <1>12, <1>13 DEF rets

(* rsp_stack_mov_rsp: another body opens at the present depth.                *)
LEMMA EnterStep ==
    ASSUME Certified, Good, Ins.op = "enter",
           code' = code, calls' = calls, stack' = stack, pc' = pc + 1,
           rsp_stack' = Append(rsp_stack, Len(stack))
    PROVE  Good'
<1> DEFINE types == code[pc].types
           marks == code[pc].marks
           rsp == calls[Depth].rsp
<1>1. pc \in DOMAIN code /\ Stacks BY TopView DEF Good
<1>2. /\ Len(stack) \in Nat /\ Base(Depth) \in Nat /\ rsp \in Nat /\ IsSeq(stack)
      /\ rsp_stack \in Seq(Nat) /\ Len(rsp_stack) \in Nat
  BY <1>1, StacksProperties DEF Stacks
<1>3. IsSeq(types) /\ marks \in Seq(Nat) /\ Len(marks) \in Nat /\ Len(types) \in Nat
  BY <1>1, ViewProperties, SeqIsSeq
<1>4. TypesAfter(pc) = types
  <2>1. TypesAfter(pc) = Drop(types, 0) \o <<>> BY DEF TypesAfter, Ins, Pops, Pushes
  <2>2. TypesAfter(pc) = Onto(types, Len(types), <<>>) BY <1>3, <2>1 DEF Onto, Drop
  <2> QED BY <1>3, <2>2, OntoAll
<1>5. MarksAfter(pc) = Append(marks, Len(types)) BY DEF MarksAfter, Ins
<1>6. /\ rsp_stack' \in Seq(Nat) /\ Len(rsp_stack') = Len(rsp_stack) + 1
      /\ rsp_stack'[Len(rsp_stack) + 1] = Len(stack)
      /\ \A i \in 1 .. Len(rsp_stack) : rsp_stack'[i] = rsp_stack[i]
  BY <1>2, AppendIs
<1>7. /\ Len(MarksAfter(pc)) = Len(marks) + 1
      /\ MarksAfter(pc)[Len(marks) + 1] = Len(types)
      /\ \A i \in 1 .. Len(marks) : MarksAfter(pc)[i] = marks[i]
  BY <1>3, <1>5, AppendIs
<1>8. /\ Len(stack) = Base(Depth) + Len(types)
      /\ \A i \in 1 .. Len(types) : types[i] \in {"poisoned", stack[Base(Depth) + i].kind}
      /\ Len(rsp_stack) = rsp + Len(marks)
      /\ \A i \in 1 .. Len(marks) : rsp_stack[rsp + i] = Base(Depth) + marks[i]
  BY TopView
<1> HIDE DEF types, marks, rsp
<1>9. Len(rsp_stack') = rsp + Len(MarksAfter(pc)) BY <1>2, <1>3, <1>6, <1>7, <1>8
<1>10. ASSUME NEW i \in 1 .. rsp PROVE rsp_stack'[i] = rsp_stack[i]
  <2>1. i \in 1 .. Len(rsp_stack) BY <1>2, <1>3, <1>8
  <2> QED BY <1>6, <2>1
<1>11. ASSUME NEW i \in 1 .. Len(MarksAfter(pc))
       PROVE  rsp_stack'[rsp + i] = Base(Depth) + MarksAfter(pc)[i]
  <2>1. CASE i = Len(marks) + 1
    <3>1. rsp + i = Len(rsp_stack) + 1 BY <1>2, <1>3, <1>8, <2>1
    <3> QED BY <1>6, <1>7, <1>8, <2>1, <3>1
  <2>2. CASE i # Len(marks) + 1
    <3>1. i \in 1 .. Len(marks) /\ rsp + i \in 1 .. Len(rsp_stack)
      <4>1. Len(MarksAfter(pc)) = Len(marks) + 1 BY <1>7
      <4>2. i \in 1 .. Len(marks) BY <1>3, <2>2, <4>1
      <4>3. Len(rsp_stack) = rsp + Len(marks) BY <1>8
      <4> QED BY <1>2, <1>3, <4>2, <4>3
    <3> QED BY <1>6, <1>7, <1>8, <3>1
  <2> QED BY <2>1, <2>2
<1>12. pc' \in Sequels(pc) BY DEF Sequels, Ins
<1>13. Local
  BY <1>2, <1>4, <1>6, <1>8, <1>9, <1>10, <1>11, <1>12 DEF Local, rsp, types
<1> QED BY <1>13, LocalStep

(* rsp_stack_mov_to_rsp: what the inlined body left and its arguments give    *)
(* way to its results.                                                        *)
LEMMA LeaveStep ==
    ASSUME Certified, Good, Ins.op = "leave",
           code' = code, calls' = calls, pc' = pc + 1,
           stack' = Unwound(Ins.nargs) \o Results, rsp_stack' = Restored
    PROVE  Good'
<1> DEFINE types == code[pc].types
           marks == code[pc].marks
           rsp == calls[Depth].rsp
           left == Top(marks) - Ins.nargs
           kept == Top(rsp_stack) - Ins.nargs
           rets == Ins.rets
<1>1. pc \in DOMAIN code /\ Stacks BY TopView DEF Good
<1>2. /\ Len(stack) \in Nat /\ Base(Depth) \in Nat /\ rsp \in Nat /\ IsSeq(stack)
      /\ rsp_stack \in Seq(Nat) /\ Len(rsp_stack) \in Nat
  BY <1>1, StacksProperties DEF Stacks
<1>3. /\ IsSeq(types) /\ marks \in Seq(Nat) /\ Len(marks) \in Nat /\ Len(types) \in Nat
      /\ WellFormed(pc) /\ HasWhatItNeeds(pc)
  BY <1>1, ViewProperties, SeqIsSeq
<1>4. Ins.nargs \in Nat BY <1>3 DEF WellFormed, Ins
<1>5. Len(marks) > 1 /\ Top(marks) \in Ins.nargs .. Len(types)
  BY <1>3 DEF HasWhatItNeeds, Ins
<1>6. Top(rsp_stack) = Base(Depth) + Top(marks) /\ Top(marks) \in Nat
  <2>1. marks # <<>> BY <1>3, <1>5, EmptySeq
  <2> QED BY <2>1, TopSaved
<1>7. /\ IsSeq(Results) /\ IsSeq(rets) /\ Len(Results) = Len(rets) /\ Len(rets) \in Nat
      /\ \A i \in 1 .. Len(rets) : rets[i] \in {"poisoned", Results[i].kind}
  BY ResultsProperties
<1>8. /\ Len(stack) = Base(Depth) + Len(types)
      /\ \A i \in 1 .. Len(types) : types[i] \in {"poisoned", stack[Base(Depth) + i].kind}
      /\ Len(rsp_stack) = rsp + Len(marks)
      /\ \A i \in 1 .. Len(marks) : rsp_stack[rsp + i] = Base(Depth) + marks[i]
  BY TopView
<1>9. TypesAfter(pc) = Onto(types, left, rets) BY DEF TypesAfter, Ins, Onto
<1>10. stack' = Onto(stack, kept, Results) BY DEF Unwound, Onto
<1>11. MarksAfter(pc) = Drop(marks, 1) BY DEF MarksAfter, Ins
<1>12. rsp_stack' = Drop(rsp_stack, 1) BY DEF Restored
<1>13. left \in Nat /\ left <= Len(types) BY <1>3, <1>4, <1>5, <1>6
<1>14. kept \in Nat /\ kept <= Len(stack) /\ kept = Base(Depth) + left
  <2>1. /\ Top(rsp_stack) = Base(Depth) + Top(marks) /\ Top(marks) \in Nat
        /\ Ins.nargs \in Nat /\ Base(Depth) \in Nat
    BY <1>2, <1>4, <1>6
  <2>2. Top(rsp_stack) - Ins.nargs = Base(Depth) + (Top(marks) - Ins.nargs) BY <2>1, SMT
  <2>3. kept = Base(Depth) + left BY <2>2
  <2> HIDE DEF left, kept, types
  <2>4. kept \in Nat BY <1>2, <1>13, <2>3
  <2>5. Base(Depth) + left <= Base(Depth) + Len(types) BY <1>2, <1>3, <1>13
  <2> QED BY <1>8, <2>3, <2>4, <2>5
<1> HIDE DEF types, marks, rsp, left, kept, rets
<1>15. /\ Drop(marks, 1) \in Seq(Nat) /\ Len(Drop(marks, 1)) = Len(marks) - 1
       /\ \A i \in 1 .. Len(marks) - 1 : Drop(marks, 1)[i] = marks[i]
  BY <1>3, <1>5, DropOne
<1>16. Len(rsp_stack) >= 1 BY <1>2, <1>3, <1>5, <1>8
<1>17. /\ rsp_stack' \in Seq(Nat) /\ Len(rsp_stack') = Len(rsp_stack) - 1
       /\ \A i \in 1 .. Len(rsp_stack) - 1 : rsp_stack'[i] = rsp_stack[i]
  <2>1. /\ Drop(rsp_stack, 1) \in Seq(Nat) /\ Len(Drop(rsp_stack, 1)) = Len(rsp_stack) - 1
        /\ \A i \in 1 .. Len(rsp_stack) - 1 : Drop(rsp_stack, 1)[i] = rsp_stack[i]
    BY <1>2, <1>16, DropOne
  <2> QED BY <1>12, <2>1, Zenon
<1>0. Len(MarksAfter(pc)) = Len(marks) - 1 /\ Len(rsp_stack) = rsp + Len(marks)
  BY <1>8, <1>11, <1>15
<1>18. Len(rsp_stack') = rsp + Len(MarksAfter(pc))
  <2>1. Len(rsp_stack') = (rsp + Len(marks)) - 1 BY <1>0, <1>17
  <2>2. rsp \in Nat /\ Len(marks) \in Nat BY <1>2, <1>3
  <2> QED BY <1>0, <2>1, <2>2
<1>19. ASSUME NEW i \in 1 .. rsp PROVE rsp_stack'[i] = rsp_stack[i]
  <2>1. i \in 1 .. Len(rsp_stack) - 1 BY <1>2, <1>3, <1>5, <1>8
  <2> QED BY <1>17, <2>1
<1>20. ASSUME NEW i \in 1 .. Len(MarksAfter(pc))
       PROVE  rsp_stack'[rsp + i] = Base(Depth) + MarksAfter(pc)[i]
  <2>0. Len(marks) \in Nat /\ rsp \in Nat BY <1>2, <1>3
  <2>1. /\ i \in 1 .. Len(marks) - 1 /\ i \in 1 .. Len(marks)
        /\ rsp + i \in 1 .. Len(rsp_stack) - 1
    <3>1. i \in 1 .. Len(marks) - 1 BY <1>0
    <3>2. i \in 1 .. Len(marks) BY <2>0, <3>1
    <3>3. rsp + i \in 1 .. (rsp + Len(marks)) - 1 BY <2>0, <3>1
    <3> QED BY <1>0, <3>1, <3>2, <3>3
  <2> QED BY <1>8, <1>11, <1>15, <1>17, <2>1
<1>21. /\ Len(TypesAfter(pc)) = left + Len(rets)
       /\ \A i \in 1 .. left : TypesAfter(pc)[i] = types[i]
       /\ \A i \in 1 .. Len(rets) : TypesAfter(pc)[left + i] = rets[i]
  <2>1. IsSeq(types) /\ IsSeq(rets) /\ left \in Nat /\ left <= Len(types) BY <1>3, <1>7, <1>13
  <2>2. /\ Len(Onto(types, left, rets)) = left + Len(rets)
        /\ \A i \in 1 .. left : Onto(types, left, rets)[i] = types[i]
        /\ \A i \in 1 .. Len(rets) : Onto(types, left, rets)[left + i] = rets[i]
    BY <2>1, OntoProperties
  <2> QED BY <1>9, <2>2, Zenon
<1>24. /\ IsSeq(stack') /\ Len(stack') = kept + Len(rets)
       /\ \A i \in 1 .. kept : stack'[i] = stack[i]
       /\ \A i \in 1 .. Len(rets) : stack'[kept + i] = Results[i]
  <2>1. IsSeq(stack) /\ IsSeq(Results) /\ kept \in Nat /\ kept <= Len(stack) BY <1>2, <1>7, <1>14
  <2>2. /\ IsSeq(Onto(stack, kept, Results))
        /\ Len(Onto(stack, kept, Results)) = kept + Len(Results)
        /\ \A i \in 1 .. kept : Onto(stack, kept, Results)[i] = stack[i]
        /\ \A i \in 1 .. Len(Results) : Onto(stack, kept, Results)[kept + i] = Results[i]
    BY <2>1, OntoProperties
  <2>3. Len(Results) = Len(rets) BY <1>7
  <2> QED BY <1>10, <2>2, <2>3, Zenon
<1>25. Len(stack') = Base(Depth) + Len(TypesAfter(pc))
  <2>1. Len(stack') = kept + Len(rets) /\ Len(TypesAfter(pc)) = left + Len(rets) BY <1>21, <1>24
  <2>2. /\ kept = Base(Depth) + left /\ Base(Depth) \in Nat /\ left \in Nat
        /\ Len(rets) \in Nat
    BY <1>2, <1>7, <1>13, <1>14
  <2>3. kept + Len(rets) = Base(Depth) + (left + Len(rets)) BY <2>2
  <2> QED BY <2>1, <2>3
<1>26. ASSUME NEW i \in 1 .. kept PROVE stack'[i] = stack[i] BY <1>24
<1>27. ASSUME NEW i \in 1 .. Base(Depth) PROVE stack'[i] = stack[i]
  <2>1. i \in 1 .. kept BY <1>2, <1>13, <1>14
  <2> QED BY <1>26, <2>1
<1>28. ASSUME NEW i \in 1 .. Len(TypesAfter(pc))
       PROVE  TypesAfter(pc)[i] \in {"poisoned", stack'[Base(Depth) + i].kind}
  <2>1. CASE i <= left
    <3>1. i \in 1 .. left /\ i \in 1 .. Len(types) /\ Base(Depth) + i \in 1 .. kept
      <4>1. i \in 1 .. left BY <1>13, <2>1
      <4>2. i \in 1 .. Len(types) BY <1>3, <1>13, <4>1
      <4>3. Base(Depth) + i \in 1 .. Base(Depth) + left BY <1>2, <1>13, <4>1
      <4> QED BY <1>14, <4>1, <4>2, <4>3
    <3>2. TypesAfter(pc)[i] = types[i] BY <1>21, <3>1
    <3> QED BY <1>8, <1>26, <3>1, <3>2
  <2>2. CASE i > left
    <3> DEFINE j == i - left
    <3>1. j \in 1 .. Len(rets) /\ i = left + j /\ Base(Depth) + i = kept + j
      BY <1>2, <1>7, <1>13, <1>14, <1>21, <2>2
    <3> HIDE DEF j
    <3>2. TypesAfter(pc)[left + j] = rets[j] BY <1>21, <3>1
    <3>3. stack'[kept + j] = Results[j] BY <1>24, <3>1
    <3> QED BY <1>7, <3>1, <3>2, <3>3
  <2>3. i <= left \/ i > left
    <3>1. Len(TypesAfter(pc)) \in Int BY <1>7, <1>13, <1>21
    <3> QED BY <1>13, <3>1
  <2> QED BY <2>1, <2>2, <2>3, Zenon
<1>29. pc' \in Sequels(pc) BY DEF Sequels, Ins
<1>30. Local
  BY <1>17, <1>18, <1>19, <1>20, <1>24, <1>25, <1>27, <1>28, <1>29 DEF Local, rsp
<1> QED BY <1>30, LocalStep

(* A routine is called: its part of the stacks begins where they end.         *)
LEMMA CallStep ==
    ASSUME Certified, Good, Ins.op = "call",
           code' = code, rsp_stack' = rsp_stack, pc' \in Entries(Ins.name),
           stack' = Append(stack, Cell("return", pc + 1)),
           calls' = Append(calls, [base |-> Len(stack) + 1, rsp |-> Len(rsp_stack)])
    PROVE  Good'
<1>1. pc \in DOMAIN code /\ Stacks /\ pc \in Nat BY TopView, ViewProperties DEF Good
<1>2. /\ Len(stack) \in Nat /\ IsSeq(stack)
      /\ Depth \in Nat \ {0} /\ \A k \in 1 .. Depth : Base(k) \in Nat /\ calls[k].rsp \in Nat
      /\ rsp_stack \in Seq(Nat) /\ Len(rsp_stack) \in Nat /\ calls \in Seq(Bases)
  BY <1>1, StacksProperties DEF Stacks, Bases
<1>3. /\ IsSeq(stack') /\ Len(stack') = Len(stack) + 1
      /\ stack'[Len(stack) + 1] = Cell("return", pc + 1)
      /\ \A i \in 1 .. Len(stack) : stack'[i] = stack[i]
  BY <1>2, AppendSeq
<1> DEFINE entry == [base |-> Len(stack) + 1, rsp |-> Len(rsp_stack)]
<1>4. entry \in Bases /\ entry.base = Len(stack) + 1 /\ entry.rsp = Len(rsp_stack)
  BY <1>2 DEF Bases
<1> HIDE DEF entry
<1>5. PICK d \in Nat : d = Depth BY <1>2
<1>6. /\ calls' \in Seq(Bases) /\ Depth' = d + 1 /\ calls'[d + 1] = entry
      /\ \A k \in 1 .. d : calls'[k] = calls[k]
  BY <1>2, <1>4, <1>5, AppendIs DEF Depth, entry
<1>7. /\ Base(d + 1)' = Len(stack) + 1 /\ calls'[d + 1].rsp = Len(rsp_stack)
      /\ \A k \in 1 .. d : Base(k)' = Base(k) /\ calls'[k].rsp = calls[k].rsp
  BY <1>4, <1>6 DEF Base
<1>0. d \in Nat /\ d # Depth' BY <1>5, <1>6
<1>8. /\ Base(d) \in Nat /\ calls[d].rsp \in Nat /\ d >= 1
      /\ Len(stack) = Base(d) + Len(code[pc].types)
      /\ Len(rsp_stack) = calls[d].rsp + Len(code[pc].marks)
      /\ Len(code[pc].types) \in Nat /\ Len(code[pc].marks) \in Nat
  <2>1. d \in 1 .. Depth /\ d >= 1 BY <1>2, <1>5
  <2>2. Base(d) \in Nat /\ calls[d].rsp \in Nat BY <1>2, <2>1
  <2>3. Len(code[pc].types) \in Nat /\ Len(code[pc].marks) \in Nat BY <1>1, ViewProperties
  <2>4. /\ Len(stack) = Base(Depth) + Len(code[pc].types)
        /\ Len(rsp_stack) = calls[Depth].rsp + Len(code[pc].marks)
    BY TopView
  <2> QED BY <1>5, <2>1, <2>2, <2>3, <2>4
<1>9. Base(d) <= Len(stack) /\ calls[d].rsp <= Len(rsp_stack)
  <2>1. Len(stack) = Base(d) + Len(code[pc].types) /\ Base(d) \in Nat /\ Len(code[pc].types) \in Nat
    BY <1>8
  <2>2. Base(d) <= Len(stack) BY <2>1
  <2>3. /\ Len(rsp_stack) = calls[d].rsp + Len(code[pc].marks)
        /\ calls[d].rsp \in Nat /\ Len(code[pc].marks) \in Nat
    BY <1>8
  <2>4. calls[d].rsp <= Len(rsp_stack) BY <2>3
  <2> QED BY <2>2, <2>4
<1>10. Below(d)
  <2>1. ASSUME NEW i \in 1 .. Base(d) PROVE stack'[i] = stack[i]
    <3>0. Base(d) <= Len(stack) /\ Base(d) \in Nat /\ Len(stack) \in Nat BY <1>2, <1>8, <1>9
    <3>1. i \in 1 .. Len(stack) BY <3>0
    <3> QED BY <1>3, <3>1
  <2>2. d <= Depth' BY <1>6
  <2> QED BY <1>6, <2>1, <2>2 DEF Below
<1>11. Site(d) = pc /\ Site(d)' = pc
  <2>1. stack'[Base(d + 1)'].value = pc + 1 BY <1>2, <1>3, <1>7 DEF Cell
  <2>2. Site(d)' = stack'[Base(d + 1)'].value - 1 BY <1>0 DEF Site, Caller
  <2>3. Site(d) = pc BY <1>5 DEF Site
  <2> QED BY <1>1, <2>1, <2>2, <2>3
<1>12. ASSUME NEW k \in 1 .. d PROVE Site(k)' = Site(k) /\ Described(k)'
  <2>1. CASE k < d
    <3>1. /\ Depth' \in Nat /\ d \in 1 .. Depth /\ k \in 1 .. Depth BY <1>5, <1>6, <1>8
    <3> QED BY <1>10, <2>1, <3>1, LowerRoutine
  <2>2. CASE k = d
    <3>1. /\ EndOf(d)' = Len(stack) /\ RspEnd(d)' = Len(rsp_stack)
      <4>1. EndOf(d)' = Base(d + 1)' - 1 /\ RspEnd(d)' = calls'[d + 1].rsp
        BY <1>0 DEF EndOf, RspEnd
      <4> QED BY <1>2, <1>7, <4>1
    <3>2. TypesOf(d)' = code[pc].types /\ MarksOf(d)' = code[pc].marks
      BY <1>11 DEF TypesOf, MarksOf
    <3>3. Base(d)' = Base(d) /\ calls'[d].rsp = calls[d].rsp
      <4>1. d \in 1 .. d BY <1>8
      <4> QED BY <1>7, <4>1
    <3>4. ASSUME NEW i \in 1 .. Len(code[pc].types)
          PROVE  code[pc].types[i] \in {"poisoned", stack'[Base(d) + i].kind}
      <4>1. Base(d) + i \in 1 .. Len(stack)
        <5> DEFINE n == Len(code[pc].types)
        <5>1. n \in Nat /\ Base(d) \in Nat /\ Len(stack) = Base(d) + n /\ i \in 1 .. n BY <1>8
        <5> HIDE DEF n
        <5> QED BY <5>1
      <4>2. code[pc].types[i] \in {"poisoned", stack[Base(d) + i].kind} BY <1>5, TopView
      <4> QED BY <1>3, <4>1, <4>2
    <3>5. \A i \in 1 .. Len(code[pc].marks) :
             rsp_stack'[calls[d].rsp + i] = Base(d) + code[pc].marks[i]
      BY <1>5, TopView
    <3>6. Described(d)'
      BY <1>1, <1>8, <1>11, <3>1, <3>2, <3>3, <3>4, <3>5 DEF Described
    <3> QED BY <1>11, <2>2, <3>6
  <2> QED BY <2>1, <2>2
<1>13. /\ pc' \in DOMAIN code /\ code[pc'].types = <<>> /\ code[pc'].marks = <<>>
       /\ code[pc'].of = Ins.name
  <2>1. pc' \in DOMAIN code /\ code[pc'].ins = [op |-> "entry", name |-> Ins.name]
    BY DEF Entries
  <2>2. code[pc'].ins.op = "entry" /\ code[pc'].ins.name = Ins.name BY <2>1
  <2>3. HasWhatItNeeds(pc') BY <2>1, ViewProperties
  <2> QED BY <2>1, <2>2, <2>3 DEF HasWhatItNeeds
<1>14. Site(d + 1)' = pc' BY <1>6 DEF Site
<1>15. Described(d + 1)'
  <2>1. EndOf(d + 1)' = Len(stack) + 1 /\ RspEnd(d + 1)' = Len(rsp_stack)
    BY <1>3, <1>6 DEF EndOf, RspEnd
  <2>2. TypesOf(d + 1)' = <<>> /\ MarksOf(d + 1)' = <<>> BY <1>13, <1>14 DEF TypesOf, MarksOf
  <2>3. Len(<<>>) = 0 BY SmallSeqs
  <2>4. Base(d + 1)' = Len(stack) + 1 /\ calls'[d + 1].rsp = Len(rsp_stack) BY <1>7
  <2>5. Site(d + 1)' \in DOMAIN code' BY <1>13, <1>14
  <2>6. Len(stack) + 1 = (Len(stack) + 1) + 0 /\ Len(rsp_stack) = Len(rsp_stack) + 0 BY <1>2
  <2>7. 1 .. 0 = {} OBVIOUS
  <2> QED BY <2>1, <2>2, <2>3, <2>4, <2>5, <2>6, <2>7 DEF Described
<1>16. ASSUME NEW k \in 2 .. d PROVE Called(k)'
  <2>1. Called(k) BY <1>5 DEF Good
  <2>2. k - 1 \in 1 .. d /\ k \in 1 .. d BY <1>5
  <2>3. /\ Site(k - 1)' = Site(k - 1) /\ Site(k)' = Site(k) /\ Base(k)' = Base(k)
    BY <1>7, <1>12, <2>2
  <2>4. Base(k) \in 1 .. Len(stack)
    <3>1. k - 1 \in 1 .. Depth /\ k \in 1 .. Depth /\ d \in 1 .. Depth /\ k - 1 < k /\ k <= d
      BY <1>5, <2>2
    <3>2. Base(k - 1) < Base(k) /\ Base(k) <= Base(d) BY <1>1, <3>1, Nesting
    <3> QED BY <1>2, <1>9, <3>1, <3>2
  <2> QED BY <1>3, <2>1, <2>3, <2>4 DEF Called
<1>17. Called(d + 1)'
  <2>1. Site((d + 1) - 1)' = pc BY <1>5, <1>11
  <2>2. stack'[Base(d + 1)'] = Cell("return", pc + 1) BY <1>3, <1>7
  <2>3. /\ stack'[Base(d + 1)'].kind = "return" /\ stack'[Base(d + 1)'].value = pc + 1
    <3>1. Cell("return", pc + 1).kind = "return" /\ Cell("return", pc + 1).value = pc + 1
      BY DEF Cell
    <3> QED BY <2>2, <3>1, Zenon
  <2>4. pc + 1 \in Nat BY <1>1
  <2>5. code'[Site((d + 1) - 1)'].ins = Ins BY <2>1 DEF Ins
  <2>6. code'[Site(d + 1)'].of = Ins.name BY <1>13, <1>14
  <2> QED BY <2>3, <2>4, <2>5, <2>6 DEF Called
<1>18. Stacks'
  <2>1. Base(1)' = 0 /\ calls'[1].rsp = 0
    <3>1. 1 \in 1 .. d BY <1>8
    <3>2. Base(1) = 0 /\ calls[1].rsp = 0 BY <1>1 DEF Stacks
    <3> QED BY <1>7, <3>1, <3>2
  <2>2. ASSUME NEW k \in 1 .. d + 1, NEW j \in 1 .. k - 1
        PROVE  Base(j)' < Base(k)' /\ calls'[j].rsp <= calls'[k].rsp
    <3>0. j \in Nat /\ j >= 1 /\ j <= d /\ d >= 1 BY <1>5
    <3>1. j \in 1 .. d /\ j \in 1 .. Depth /\ d \in 1 .. Depth /\ j <= d BY <1>5, <3>0
    <3>2. CASE k = d + 1
      <4>1. Base(j) <= Base(d) /\ calls[j].rsp <= calls[d].rsp BY <1>1, <3>1, Nesting
      <4>2. Base(j) \in Nat /\ calls[j].rsp \in Nat BY <1>2, <3>1
      <4>3. Base(j)' = Base(j) /\ calls'[j].rsp = calls[j].rsp BY <1>7, <3>1
      <4>4. Base(j) < Len(stack) + 1 /\ calls[j].rsp <= Len(rsp_stack)
        <5>1. Base(d) \in Nat /\ calls[d].rsp \in Nat BY <1>8
        <5>2. Len(stack) \in Nat /\ Len(rsp_stack) \in Nat BY <1>2
        <5> QED BY <1>9, <4>1, <4>2, <5>1, <5>2
      <4> QED BY <1>7, <3>2, <4>3, <4>4
    <3>3. CASE k # d + 1
      <4>1. k \in 1 .. d /\ k \in 1 .. Depth /\ j < k BY <1>5, <3>3
      <4>2. Base(j) < Base(k) /\ calls[j].rsp <= calls[k].rsp BY <1>1, <3>1, <4>1, Nesting
      <4> QED BY <1>7, <3>1, <4>1, <4>2
    <3> QED BY <3>2, <3>3
  <2>3. rsp_stack' \in Seq(Nat) BY <1>2
  <2>4. Depth' = d + 1 /\ d + 1 >= 1 /\ calls' \in Seq(Bases) BY <1>6, <1>8
  <2> QED BY <1>3, <2>1, <2>2, <2>3, <2>4 DEF Stacks, Bases
<1>19. code[Site(1)'].of = START BY <1>8, <1>12 DEF Good
<1>20. \A k \in 1 .. d + 1 : Described(k)' BY <1>5, <1>12, <1>15
<1>21. \A k \in 2 .. d + 1 : Called(k)' BY <1>5, <1>16, <1>17
<1> QED BY <1>6, <1>18, <1>19, <1>20, <1>21 DEF Good

(* A routine that returns was called, by an instruction that agrees with it   *)
(* on what is handed over.                                                    *)
LEMMA ReturnSite ==
    ASSUME Certified, Good, Ins.op = "ret", NEW c, c = Site(Depth - 1)
    PROVE  /\ Depth >= 2 /\ Top(rsp_stack) = Base(Depth) /\ code[pc].marks = <<0>>
           /\ c \in DOMAIN code /\ code[c].ins.op = "call" /\ code[c].ins.rets = Ins.rets
           /\ Len(code[c].ins.args) = Ins.nargs /\ Ins.nargs \in Nat
           /\ Ins.nargs <= Len(code[c].types)
           /\ stack[Base(Depth)].kind = "return" /\ stack[Base(Depth)].value = c + 1
           /\ Base(Depth) = Base(Depth - 1) + Len(code[c].types) + 1
<1>1. pc \in DOMAIN code /\ Stacks BY TopView DEF Good
<1>2. HasWhatItNeeds(pc) /\ WellFormed(pc) BY <1>1, ViewProperties
<1>3. PICK d \in Nat : d = Depth BY <1>1, StacksProperties
<1>4. d >= 1 BY <1>1, <1>3, StacksProperties
<1>5. code[pc].of # START BY <1>2 DEF HasWhatItNeeds, Ins
<1>6. d >= 2
  <2>1. Site(d) = pc BY <1>3 DEF Site
  <2>2. d # 1 BY <1>5, <2>1 DEF Good
  <2>3. d >= 1 BY <1>1, <1>3, StacksProperties
  <2> QED BY <1>3, <2>2, <2>3
<1>7. Called(d) /\ Described(d - 1)
  <2>1. d \in 2 .. Depth /\ d - 1 \in 1 .. Depth BY <1>3, <1>6
  <2> QED BY <2>1 DEF Good
<1>8. Site(d - 1) = c /\ Site(d) = pc BY <1>3 DEF Site
<1>9. /\ c \in DOMAIN code /\ code[c].ins.op = "call" /\ code[pc].of = code[c].ins.name
      /\ stack[Base(d)].kind = "return" /\ stack[Base(d)].value \in Nat
  BY <1>7, <1>8 DEF Called, Described
<1>10. Agreed(c, pc) BY <1>1, <1>9 DEF Certified
<1>11. Ins.nargs = Len(code[c].ins.args) /\ Ins.rets = code[c].ins.rets
  BY <1>9, <1>10 DEF Agreed, Ins
<1>12. Ins.nargs \in Nat BY <1>2 DEF WellFormed, Ins
<1>13. Ins.nargs <= Len(code[c].types)
  <2>1. HasWhatItNeeds(c) BY <1>9, ViewProperties
  <2>2. Len(code[c].types) >= Pops(code[c].ins) BY <2>1 DEF HasWhatItNeeds
  <2>3. Pops(code[c].ins) = Ins.nargs BY <1>9, <1>11 DEF Pops
  <2>4. Len(code[c].types) \in Nat BY <1>9, ViewProperties
  <2> QED BY <1>12, <2>2, <2>3, <2>4
<1>14. code[pc].marks = <<0>> BY <1>2 DEF HasWhatItNeeds, Ins
<1>15. Top(rsp_stack) = Base(d)
  <2>1. Len(<<0>>) = 1 /\ <<0>>[1] = 0 BY SmallSeqs
  <2>2. code[pc].marks # <<>> /\ Top(code[pc].marks) = 0
    <3>1. Len(<<>>) = 0 BY SmallSeqs
    <3> QED BY <1>14, <2>1, <3>1 DEF Top
  <2>3. Base(d) \in Nat BY <1>1, <1>3, <1>4, StacksProperties
  <2> QED BY <1>3, <2>2, <2>3, TopSaved
<1>16. stack[Base(d)].value = c + 1
  <2>1. c = stack[Base(d)].value - 1
    <3>1. d - 1 # Depth /\ (d - 1) + 1 = d BY <1>3
    <3> QED BY <1>8, <3>1 DEF Site, Caller
  <2> QED BY <1>9, <2>1
<1>17. Base(d) = Base(d - 1) + Len(code[c].types) + 1
  <2>1. EndOf(d - 1) = Base(d - 1) + Len(code[c].types)
    BY <1>7, <1>8 DEF Described, TypesOf
  <2>2. EndOf(d - 1) = Base(d) - 1
    <3>1. d - 1 # Depth /\ (d - 1) + 1 = d BY <1>3
    <3> QED BY <3>1 DEF EndOf
  <2>3. Base(d) \in Nat /\ Base(d - 1) \in Nat
    <3>1. d \in 1 .. Depth /\ d - 1 \in 1 .. Depth BY <1>3, <1>6
    <3> QED BY <1>1, <3>1, StacksProperties
  <2>4. Len(code[c].types) \in Nat BY <1>9, ViewProperties
  <2> QED BY <2>1, <2>2, <2>3, <2>4
<1> QED BY <1>3, <1>6, <1>9, <1>11, <1>12, <1>13, <1>14, <1>15, <1>16, <1>17

(* A routine returns: its part of the stacks and its arguments give way to    *)
(* its results.                                                               *)
LEMMA RetStep ==
    ASSUME Certified, Good, Ins.op = "ret",
           code' = code, pc' = stack[Top(rsp_stack)].value, calls' = Drop(calls, 1),
           stack' = Unwound(Ins.nargs + 1) \o Results, rsp_stack' = Restored
    PROVE  Good'
<1> DEFINE c == Site(Depth - 1)
           types == code[c].types
           rets == Ins.rets
           left == Len(types) - Ins.nargs
           kept == Base(Depth) - (Ins.nargs + 1)
<1>1. /\ Depth >= 2 /\ Top(rsp_stack) = Base(Depth) /\ code[pc].marks = <<0>>
      /\ c \in DOMAIN code /\ code[c].ins.op = "call" /\ code[c].ins.rets = rets
      /\ Len(code[c].ins.args) = Ins.nargs /\ Ins.nargs \in Nat /\ Ins.nargs <= Len(types)
      /\ stack[Base(Depth)].value = c + 1
      /\ Base(Depth) = Base(Depth - 1) + Len(types) + 1
  BY ReturnSite
<1>2. PICK p \in Nat : p = Depth - 1 BY <1>1, StacksProperties DEF Good
<1>3. /\ Stacks /\ IsSeq(stack) /\ Len(stack) \in Nat /\ calls \in Seq(Bases)
      /\ rsp_stack \in Seq(Nat) /\ Len(rsp_stack) \in Nat /\ pc \in DOMAIN code
  BY TopView, StacksProperties DEF Good, Stacks, Bases
<1>4. /\ p >= 1 /\ Depth = p + 1 /\ p \in 1 .. Depth /\ p + 1 \in 1 .. Depth
      /\ Base(p) \in Nat /\ calls[p].rsp \in Nat /\ Base(p + 1) \in Nat /\ calls[p + 1].rsp \in Nat
  BY <1>1, <1>2, <1>3, StacksProperties
<1>5. c = Site(p) /\ Base(p + 1) = Base(p) + Len(types) + 1 BY <1>1, <1>2, <1>4
<1>6. /\ IsSeq(types) /\ Len(types) \in Nat /\ c \in Nat /\ LeadsOn(c)
  BY <1>1, ViewProperties, SeqIsSeq
<1>7. /\ IsSeq(Results) /\ IsSeq(rets) /\ Len(Results) = Len(rets) /\ Len(rets) \in Nat
      /\ \A i \in 1 .. Len(rets) : rets[i] \in {"poisoned", Results[i].kind}
  BY ResultsProperties
<1>8. TypesAfter(c) = Onto(types, left, rets)
  <2>1. Pops(code[c].ins) = Ins.nargs BY <1>1 DEF Pops
  <2>2. Pushes(code[c].ins, types) = rets BY <1>1 DEF Pushes
  <2> QED BY <1>1, <2>1, <2>2 DEF TypesAfter, Onto, Drop
<1>9. stack' = Onto(stack, kept, Results) BY <1>1 DEF Unwound, Onto
<1>10. left \in Nat /\ left <= Len(types) BY <1>1, <1>6
<1>11. kept \in Nat /\ kept = Base(p) + left /\ kept <= Base(p + 1)
  <2>1. kept = Base(p + 1) - (Ins.nargs + 1) BY <1>4
  <2>2. /\ Ins.nargs \in Nat /\ Ins.nargs <= Len(types) /\ Len(types) \in Nat
        /\ Base(p) \in Nat /\ Base(p + 1) = Base(p) + Len(types) + 1
    BY <1>1, <1>4, <1>5, <1>6
  <2> HIDE DEF kept, types
  <2> QED BY <2>1, <2>2 DEF left
<1>12. Len(stack) >= Base(p + 1) /\ Len(rsp_stack) = calls[p + 1].rsp + 1
  <2>1. /\ Len(stack) = Base(Depth) + Len(code[pc].types)
        /\ Len(rsp_stack) = calls[Depth].rsp + Len(code[pc].marks)
        /\ Len(code[pc].types) \in Nat
    BY <1>3, TopView, ViewProperties
  <2>2. Len(code[pc].marks) = 1 BY <1>1, SmallSeqs
  <2> QED BY <1>3, <1>4, <2>1, <2>2
<1> HIDE DEF c, types, rets, left, kept
<1>13. kept <= Len(stack) BY <1>3, <1>4, <1>11, <1>12
<1>0. /\ IsSeq(stack) /\ IsSeq(Results) /\ kept \in Nat /\ kept <= Len(stack)
      /\ IsSeq(types) /\ IsSeq(rets) /\ left \in Nat /\ left <= Len(types)
  BY <1>3, <1>6, <1>7, <1>10, <1>11, <1>13
<1>14. /\ calls' \in Seq(Bases) /\ Depth' = p /\ \A k \in 1 .. p : calls'[k] = calls[k]
  <2>1. Len(calls) >= 1 /\ Len(calls) - 1 = p BY <1>4 DEF Depth
  <2>2. /\ Drop(calls, 1) \in Seq(Bases) /\ Len(Drop(calls, 1)) = Len(calls) - 1
        /\ \A i \in 1 .. Len(calls) - 1 : Drop(calls, 1)[i] = calls[i]
    BY <1>3, <2>1, DropOne
  <2> QED BY <2>1, <2>2 DEF Depth
<1>15. \A k \in 1 .. p : Base(k)' = Base(k) /\ calls'[k].rsp = calls[k].rsp
  BY <1>14 DEF Base
<1>16. /\ rsp_stack' \in Seq(Nat) /\ Len(rsp_stack') = calls[p + 1].rsp
       /\ \A i \in 1 .. calls[p + 1].rsp : rsp_stack'[i] = rsp_stack[i]
  <2>0. Len(rsp_stack) = calls[p + 1].rsp + 1 /\ calls[p + 1].rsp \in Nat BY <1>4, <1>12
  <2>1. Len(rsp_stack) >= 1 /\ Len(rsp_stack) - 1 = calls[p + 1].rsp BY <2>0
  <2>2. /\ Drop(rsp_stack, 1) \in Seq(Nat) /\ Len(Drop(rsp_stack, 1)) = Len(rsp_stack) - 1
        /\ \A i \in 1 .. Len(rsp_stack) - 1 : Drop(rsp_stack, 1)[i] = rsp_stack[i]
    BY <1>3, <2>1, DropOne
  <2> QED BY <2>1, <2>2, Zenon DEF Restored
<1>17. /\ IsSeq(stack') /\ Len(stack') = kept + Len(rets)
       /\ \A i \in 1 .. kept : stack'[i] = stack[i]
       /\ \A i \in 1 .. Len(rets) : stack'[kept + i] = Results[i]
  <2>1. IsSeq(stack) /\ IsSeq(Results) /\ kept \in Nat /\ kept <= Len(stack) BY <1>0
  <2>2. /\ IsSeq(Onto(stack, kept, Results))
        /\ Len(Onto(stack, kept, Results)) = kept + Len(Results)
        /\ \A i \in 1 .. kept : Onto(stack, kept, Results)[i] = stack[i]
        /\ \A i \in 1 .. Len(Results) : Onto(stack, kept, Results)[kept + i] = Results[i]
    BY <2>1, OntoProperties
  <2>3. Len(Results) = Len(rets) BY <1>7
  <2> QED BY <1>9, <2>2, <2>3, Zenon
<1>18. ASSUME NEW i \in 1 .. kept PROVE stack'[i] = stack[i] BY <1>17
<1>19. Below(p)
  <2>1. ASSUME NEW i \in 1 .. Base(p) PROVE stack'[i] = stack[i]
    <3>1. i \in 1 .. kept BY <1>4, <1>10, <1>11
    <3> QED BY <1>18, <3>1
  <2>2. ASSUME NEW i \in 1 .. calls[p].rsp PROVE rsp_stack'[i] = rsp_stack[i]
    <3>1. calls[p].rsp <= calls[p + 1].rsp BY <1>3, <1>4, Nesting
    <3>2. i \in 1 .. calls[p + 1].rsp BY <1>4, <3>1
    <3> QED BY <1>16, <3>2
  <2>3. p <= Depth' BY <1>14
  <2> QED BY <1>14, <2>1, <2>2, <2>3 DEF Below
<1>20. /\ pc' = c + 1 /\ pc' \in DOMAIN code /\ code[pc'].of = code[c].of
       /\ Covers(code[pc'].types, TypesAfter(c)) /\ code[pc'].marks = code[c].marks
  <2>1. pc' = c + 1 BY <1>1 DEF c, types
  <2>2. c + 1 \in Sequels(c) BY <1>1 DEF Sequels
  <2>3. MarksAfter(c) = code[c].marks BY <1>1 DEF MarksAfter
  <2> QED BY <1>6, <2>1, <2>2, <2>3 DEF LeadsOn
<1>21. Site(p)' = pc' BY <1>14 DEF Site
<1>40. /\ Len(TypesAfter(c)) = left + Len(rets)
       /\ \A i \in 1 .. left : TypesAfter(c)[i] = types[i]
       /\ \A i \in 1 .. Len(rets) : TypesAfter(c)[left + i] = rets[i]
  <2>1. IsSeq(types) /\ IsSeq(rets) /\ left \in Nat /\ left <= Len(types) BY <1>0
  <2>2. /\ Len(Onto(types, left, rets)) = left + Len(rets)
        /\ \A i \in 1 .. left : Onto(types, left, rets)[i] = types[i]
        /\ \A i \in 1 .. Len(rets) : Onto(types, left, rets)[left + i] = rets[i]
    BY <2>1, OntoProperties
  <2> QED BY <1>8, <2>2, Zenon
<1>22. Described(p)'
  <2>1. EndOf(p)' = Base(p) + Len(TypesAfter(c))
    <3>1. EndOf(p)' = Len(stack') BY <1>14 DEF EndOf
    <3>2. Len(TypesAfter(c)) = left + Len(rets) BY <1>40
    <3> QED BY <1>4, <1>7, <1>10, <1>11, <1>17, <3>1, <3>2
  <2>2. RspEnd(p)' = calls[p].rsp + Len(code[c].marks)
    <3>1. RspEnd(p)' = Len(rsp_stack') BY <1>14 DEF RspEnd
    <3>2. RspEnd(p) = calls[p + 1].rsp BY <1>4 DEF RspEnd
    <3>3. Described(p) BY <1>4 DEF Good
    <3> QED BY <1>5, <1>16, <3>1, <3>2, <3>3 DEF Described, MarksOf
  <2>3. ASSUME NEW i \in 1 .. Len(TypesAfter(c))
        PROVE  TypesAfter(c)[i] \in {"poisoned", stack'[Base(p) + i].kind}
    <3>0. Len(TypesAfter(c)) = left + Len(rets) BY <1>40
    <3>1. CASE i <= left
      <4>1. i \in 1 .. left /\ i \in 1 .. Len(types) /\ Base(p) + i \in 1 .. kept
        <5>1. i \in 1 .. left BY <1>10, <3>1
        <5>2. i \in 1 .. Len(types) BY <1>6, <1>10, <5>1
        <5>3. Base(p) + i \in 1 .. Base(p) + left BY <1>4, <1>10, <5>1
        <5> QED BY <1>11, <5>1, <5>2, <5>3
      <4>2. TypesAfter(c)[i] = types[i] BY <1>40, <4>1
      <4>3. Described(p) BY <1>4 DEF Good
      <4>4. types[i] \in {"poisoned", stack[Base(p) + i].kind}
        BY <1>5, <4>1, <4>3 DEF Described, TypesOf, types
      <4> QED BY <1>18, <4>1, <4>2, <4>4
    <3>2. CASE i > left
      <4> DEFINE j == i - left
      <4>0. i \in Nat /\ left \in Nat /\ i <= left + Len(rets) /\ Len(rets) \in Nat
        BY <1>7, <1>10, <3>0
      <4>1. j \in 1 .. Len(rets) /\ i = left + j /\ Base(p) + i = kept + j
        <5>1. j \in 1 .. Len(rets) /\ i = left + j BY <3>2, <4>0
        <5>2. kept = Base(p) + left /\ Base(p) \in Nat BY <1>4, <1>11
        <5> HIDE DEF j
        <5>3. Base(p) + (left + j) = kept + j BY <4>0, <5>1, <5>2
        <5> QED BY <5>1, <5>3
      <4> HIDE DEF j
      <4>2. TypesAfter(c)[left + j] = rets[j] BY <1>40, <4>1
      <4>3. stack'[kept + j] = Results[j] BY <1>17, <4>1
      <4> QED BY <1>7, <4>1, <4>2, <4>3
    <3>3. i <= left \/ i > left
      <4>1. Len(TypesAfter(c)) \in Int BY <1>7, <1>10, <3>0
      <4> QED BY <1>10, <4>1
    <3> QED BY <3>1, <3>2, <3>3, Zenon
  <2>4. ASSUME NEW i \in 1 .. Len(code[c].marks)
        PROVE  rsp_stack'[calls[p].rsp + i] = Base(p) + code[c].marks[i]
    <3>1. Described(p) BY <1>4 DEF Good
    <3>2. rsp_stack[calls[p].rsp + i] = Base(p) + code[c].marks[i]
      BY <1>5, <3>1 DEF Described, MarksOf
    <3>3. calls[p + 1].rsp = calls[p].rsp + Len(code[c].marks)
      BY <1>4, <1>5, <3>1 DEF Described, MarksOf, RspEnd
    <3>4. calls[p].rsp + i \in 1 .. calls[p + 1].rsp
      <4>1. Len(code[c].marks) \in Nat BY <1>1, ViewProperties
      <4>2. calls[p].rsp \in Nat BY <1>4
      <4>3. calls[p].rsp + i \in 1 .. calls[p].rsp + Len(code[c].marks) BY <4>1, <4>2
      <4> QED BY <3>3, <4>3
    <3> QED BY <1>16, <3>2, <3>4
  <2>5. /\ TypesOf(p)' = code[pc'].types /\ MarksOf(p)' = code[c].marks
    BY <1>20, <1>21 DEF TypesOf, MarksOf
  <2>6. Base(p)' = Base(p) /\ calls'[p].rsp = calls[p].rsp
    <3>1. p \in 1 .. p BY <1>4
    <3> QED BY <1>15, <3>1
  <2>7. /\ Len(code[pc'].types) = Len(TypesAfter(c))
        /\ \A i \in 1 .. Len(code[pc'].types) : code[pc'].types[i] \in {"poisoned", TypesAfter(c)[i]}
    <3>1. DOMAIN code[pc'].types = 1 .. Len(code[pc'].types) BY <1>20, ViewProperties
    <3> QED BY <1>20, <3>1 DEF Covers
  <2>8. ASSUME NEW i \in 1 .. Len(code[pc'].types)
        PROVE  code[pc'].types[i] \in {"poisoned", stack'[Base(p) + i].kind}
    BY <2>3, <2>7
  <2>9. Site(p)' \in DOMAIN code' BY <1>20, <1>21
  <2> QED BY <2>1, <2>2, <2>4, <2>5, <2>6, <2>7, <2>8, <2>9 DEF Described
<1>23. ASSUME NEW k \in 1 .. p, k < p PROVE Site(k)' = Site(k) /\ Described(k)'
  <2>1. Depth' \in Nat /\ k \in 1 .. Depth BY <1>4, <1>14
  <2> QED BY <1>4, <1>19, <1>23, <2>1, LowerRoutine
<1>24. ASSUME NEW k \in 1 .. p PROVE code[Site(k)'].of = code[Site(k)].of
  <2>1. CASE k < p BY <1>23, <2>1
  <2>2. CASE k = p BY <1>5, <1>20, <1>21, <2>2
  <2> QED BY <1>4, <2>1, <2>2
<1>25. ASSUME NEW k \in 2 .. p PROVE Called(k)'
  <2>1. k \in 2 .. Depth /\ k - 1 \in 1 .. p /\ k - 1 < p /\ k \in 1 .. p BY <1>4
  <2>2. Called(k) BY <2>1 DEF Good
  <2>3. Site(k - 1)' = Site(k - 1) /\ code[Site(k)'].of = code[Site(k)].of /\ Base(k)' = Base(k)
    BY <1>15, <1>23, <1>24, <2>1
  <2>4. Base(k) \in 1 .. kept
    <3>1. k - 1 \in 1 .. Depth /\ k \in 1 .. Depth /\ k - 1 < k /\ k <= p BY <1>4, <2>1
    <3>2. Base(k - 1) < Base(k) /\ Base(k) <= Base(p) BY <1>3, <1>4, <3>1, Nesting
    <3>3. Base(k) \in Nat /\ Base(k - 1) \in Nat BY <1>3, <3>1, StacksProperties
    <3>4. Base(p) <= kept /\ Base(p) \in Nat /\ kept \in Nat BY <1>4, <1>10, <1>11
    <3> QED BY <3>2, <3>3, <3>4
  <2>5. stack'[Base(k)] = stack[Base(k)] BY <1>18, <2>4
  <2> QED BY <2>2, <2>3, <2>5 DEF Called
<1>26. Stacks'
  <2>1. Base(1)' = 0 /\ calls'[1].rsp = 0
    <3>1. 1 \in 1 .. p BY <1>4
    <3> QED BY <1>3, <1>15, <3>1 DEF Stacks
  <2>2. ASSUME NEW k \in 1 .. p, NEW j \in 1 .. k - 1
        PROVE  Base(j)' < Base(k)' /\ calls'[j].rsp <= calls'[k].rsp
    <3>1. j \in 1 .. p /\ j \in 1 .. Depth /\ k \in 1 .. Depth /\ j < k BY <1>4
    <3>2. Base(j) < Base(k) /\ calls[j].rsp <= calls[k].rsp BY <1>3, <3>1, Nesting
    <3> QED BY <1>15, <3>1, <3>2
  <2> QED BY <1>4, <1>14, <1>16, <1>17, <2>1, <2>2 DEF Stacks, Bases
<1>27. code[Site(1)'].of = START
  <2>1. 1 \in 1 .. p BY <1>4
  <2> QED BY <1>24, <2>1 DEF Good
<1>28. \A k \in 1 .. p : Described(k)'
  <2> TAKE k \in 1 .. p
  <2>1. k < p \/ k = p BY <1>4
  <2> QED BY <1>22, <1>23, <2>1
<1> QED BY <1>14, <1>25, <1>26, <1>27, <1>28 DEF Good

-----------------------------------------------------------------------------
(* The steps of the machine.                                                  *)

(* Whether a limit is met is read off the code and the stacks.                *)
LEMMA LimitStays ==
    ASSUME code' = code, pc' = pc, stack' = stack, rsp_stack' = rsp_stack
    PROVE  Limit' <=> Limit
<1>1. Ins' = Ins /\ (Untouched' <=> Untouched) BY DEF Ins, Untouched
<1>2. \A address : Readable(address)' <=> Readable(address) BY <1>1 DEF Readable
<1>3. (WildLoad' <=> WildLoad) /\ (NoRoomToWrite' <=> NoRoomToWrite)
  BY <1>1, <1>2 DEF WildLoad, NoRoomToWrite
<1> QED BY <1>1, <1>3 DEF Limit

(* A fault leaves everything as it is.                                        *)
LEMMA FaultStep ==
    ASSUME Certified, Good, Limit, Fault, code' = code PROVE Safe'
<1>1. Good'
  <2>1. Stacks' BY DEF Good, Fault, Stacks, Depth, Base
  <2>2. \A k \in 1 .. Depth : Site(k)' = Site(k) BY DEF Fault, Depth, Base, Site, Caller
  <2>3. \A k \in 1 .. Depth : Described(k)'
    BY <2>2 DEF Good, Fault, Described, Depth, Base, EndOf, RspEnd, TypesOf, MarksOf
  <2>4. \A k \in 2 .. Depth : Called(k)'
    <3>1. Depth \in Nat BY StacksProperties DEF Good
    <3>2. ASSUME NEW k \in 2 .. Depth PROVE Called(k)'
      <4>1. k \in 1 .. Depth /\ k - 1 \in 1 .. Depth BY <3>1
      <4>2. Called(k) BY DEF Good
      <4> QED BY <2>2, <4>1, <4>2 DEF Fault, Called, Base
    <3> QED BY <3>2
  <2>5. code'[Site(1)'].of = START
    <3>1. 1 \in 1 .. Depth BY StacksProperties DEF Good
    <3> QED BY <2>2, <3>1 DEF Good
  <2>6. Depth' = Depth BY DEF Fault, Depth
  <2> QED BY <2>1, <2>3, <2>4, <2>5, <2>6 DEF Good
<1>2. Limit' BY LimitStays DEF Fault
<1> QED BY <1>1, <1>2 DEF Safe

LEMMA SequelStep ==
    ASSUME Certified, Good, machine = "running", Plain, code' = code,
           Sequels(pc) = {pc + 1},
           NEW cells, Sequel(Pops(Ins), cells),
           IsSeq(cells), Len(cells) = Len(Pushed), Len(cells) <= Pops(Ins) + 1,
           \A i \in 1 .. Len(Pushed) : Pushed[i] \in {"poisoned", cells[i].kind}
    PROVE  Safe'
<1> DEFINE pops == Pops(Ins)
           fits == Len(stack) >= pops /\ Len(stack) - pops + Len(cells) <= STACK_CAP
<1>1. CASE fits
  <2>1. Goto(pc + 1, Drop(stack, pops) \o cells) BY <1>1 DEF Sequel
  <2>2. Advance(cells) BY <2>1 DEF Goto, Advance
  <2>3. machine' = "running" BY <2>1 DEF Goto
  <2> QED BY <2>2, <2>3, PlainStep DEF Safe
<1>2. CASE ~fits
  <2>1. Fault BY <1>2 DEF Sequel
  <2>2. pops \in Nat /\ pops <= Len(stack) /\ Len(stack) \in Nat
    <3>1. pc \in DOMAIN code /\ Len(stack) = Base(Depth) + Len(code[pc].types)
      BY TopView
    <3>2. Base(Depth) \in Nat BY StacksProperties DEF Good
    <3>3. Len(code[pc].types) \in Nat BY <3>1, ViewProperties
    <3>4. pops \in 0 .. Len(code[pc].types) BY <3>1, PopsProperties DEF Ins
    <3> HIDE DEF pops
    <3> QED BY <3>1, <3>2, <3>3, <3>4
  <2>3. Len(cells) \in Nat BY IsSeqProperties
  <2>4. STACK_CAP \in Nat BY MachineAssumption
  <2>5. Len(cells) <= pops + 1 OBVIOUS
  <2>6. Len(stack) >= STACK_CAP
    <3>1. ~(Len(stack) - pops + Len(cells) <= STACK_CAP) BY <1>2, <2>2
    <3> HIDE DEF pops
    <3> QED BY <2>2, <2>3, <2>4, <2>5, <3>1
  <2> QED BY <2>1, <2>6, FaultStep DEF Limit
<1> QED BY <1>1, <1>2

(* The topmost cell is of the topmost kind of the view.                       *)
LEMMA TopCell ==
    ASSUME Certified, Good, Len(code[pc].types) >= 1
    PROVE  /\ Top(code[pc].types) \in {"poisoned", Top(stack).kind}
           /\ Len(stack) >= Len(code[pc].types) /\ Len(stack) >= 1
<1> DEFINE n == Len(code[pc].types)
<1>1. pc \in DOMAIN code /\ Len(stack) = Base(Depth) + n BY TopView
<1>2. n \in Nat /\ Base(Depth) \in Nat BY <1>1, ViewProperties, StacksProperties DEF Good
<1>3. n \in 1 .. n BY <1>2
<1>4. code[pc].types[n] \in {"poisoned", stack[Base(Depth) + n].kind} BY <1>3, TopView
<1>5. n >= 1 OBVIOUS
<1> HIDE DEF n
<1>6. Len(stack) >= n /\ Len(stack) >= 1 BY <1>1, <1>2, <1>5
<1> QED BY <1>1, <1>4, <1>6 DEF Top, n


(* The same of an instruction that pushes one cell, and of one that pushes    *)
(* none.                                                                      *)
LEMMA OneCell ==
    ASSUME Certified, Good, machine = "running", Plain, code' = code,
           Sequels(pc) = {pc + 1},
           NEW cell, Sequel(Pops(Ins), <<cell>>),
           NEW kind, Pushed = <<kind>>, kind \in {"poisoned", cell.kind}
    PROVE  Safe'
<1> DEFINE cells == <<cell>>
<1>1. IsSeq(cells) /\ Len(cells) = 1 /\ cells[1] = cell BY SmallSeqs
<1>2. Len(Pushed) = 1 /\ Pushed[1] = kind BY SmallSeqs
<1>3. pc \in DOMAIN code BY TopView
<1>4. Pops(Ins) \in Nat
  <2>1. Pops(Ins) \in 0 .. Len(code[pc].types) BY <1>3, PopsProperties DEF Ins
  <2> QED BY <2>1
<1>5. Len(cells) = Len(Pushed) /\ Len(cells) <= Pops(Ins) + 1 BY <1>1, <1>2, <1>4
<1>6. \A i \in 1 .. Len(Pushed) : Pushed[i] \in {"poisoned", cells[i].kind} BY <1>1, <1>2
<1>7. Sequel(Pops(Ins), cells) OBVIOUS
<1> HIDE DEF cells
<1> QED BY <1>1, <1>5, <1>6, <1>7, SequelStep

LEMMA NoCell ==
    ASSUME Certified, Good, machine = "running", Plain, code' = code,
           Sequels(pc) = {pc + 1}, Sequel(Pops(Ins), <<>>), Pushed = <<>>
    PROVE  Safe'
<1>1. IsSeq(<<>>) /\ Len(<<>>) = 0 BY SmallSeqs
<1>2. pc \in DOMAIN code BY TopView
<1>3. Pops(Ins) \in Nat
  <2>1. Pops(Ins) \in 0 .. Len(code[pc].types) BY <1>2, PopsProperties DEF Ins
  <2> QED BY <2>1
<1>4. Len(<<>>) = Len(Pushed) /\ Len(<<>>) <= Pops(Ins) + 1 BY <1>1, <1>3
<1>5. \A i \in 1 .. Len(Pushed) : Pushed[i] \in {"poisoned", <<>>[i].kind} BY <1>1
<1> QED BY <1>1, <1>4, <1>5, SequelStep

LEMMA PushStep ==
    ASSUME Certified, Good, code' = code, Push \/ LoadVariable PROVE Safe'
<1>1. Ins.op \in {"push", "loadvar"} /\ machine = "running" BY DEF Push, LoadVariable, Running
<1>2. Plain /\ Sequels(pc) = {pc + 1} BY <1>1 DEF Plain, Sequels, Ins
<1>3. Pops(Ins) = 0 /\ Pushed = <<Ins.kind>> BY <1>1 DEF Pops, Pushed, Pushes
<1>4. CASE Push
  <2>1. Sequel(Pops(Ins), <<Cell(Ins.kind, Ins.value)>>) BY <1>3, <1>4 DEF Push
  <2>2. Cell(Ins.kind, Ins.value).kind = Ins.kind BY DEF Cell
  <2> QED BY <1>1, <1>2, <1>3, <2>1, <2>2, OneCell
<1>5. CASE LoadVariable
  <2>1. Sequel(Pops(Ins), <<Cell(Ins.kind, mem[Ins.name])>>) BY <1>3, <1>5 DEF LoadVariable
  <2>2. Cell(Ins.kind, mem[Ins.name]).kind = Ins.kind BY DEF Cell
  <2> QED BY <1>1, <1>2, <1>3, <2>1, <2>2, OneCell
<1> QED BY <1>4, <1>5

LEMMA IndexStep ==
    ASSUME Certified, Good, code' = code, Index PROVE Safe'
<1>1. Ins.op = "index" /\ machine = "running" BY DEF Index, Running
<1>2. Plain /\ Sequels(pc) = {pc + 1} BY <1>1 DEF Plain, Sequels, Ins
<1>3. Pops(Ins) = 2 /\ Pushed = <<"byte">> BY <1>1 DEF Pops, Pushed, Pushes
<1>4. CASE WildLoad /\ Fault BY <1>4, FaultStep DEF Limit
<1>5. CASE \E byte \in {0, 1} : Sequel(2, <<Cell("byte", byte)>>)
  <2>1. PICK byte \in {0, 1} : Sequel(Pops(Ins), <<Cell("byte", byte)>>) BY <1>3, <1>5
  <2>2. Cell("byte", byte).kind = "byte" BY DEF Cell
  <2> QED BY <1>1, <1>2, <1>3, <2>1, <2>2, OneCell
<1> QED BY <1>4, <1>5 DEF Index

LEMMA BinaryStep ==
    ASSUME Certified, Good, code' = code, Binary PROVE Safe'
<1>1. Ins.op = "binary" /\ machine = "running" /\ pc \in DOMAIN code BY DEF Binary, Running
<1>2. Plain /\ Sequels(pc) = {pc + 1} BY <1>1 DEF Plain, Sequels, Ins
<1>3. Pops(Ins) = 2 /\ Pushed = <<"int">> BY <1>1 DEF Pops, Pushed, Pushes
<1>4. Len(stack) >= 2
  <2>1. Len(code[pc].types) >= 2 /\ Len(code[pc].types) \in Nat
    BY <1>1, <1>3, ViewProperties DEF HasWhatItNeeds, Ins
  <2>2. Len(stack) = Base(Depth) + Len(code[pc].types) BY TopView
  <2>3. Base(Depth) \in Nat BY StacksProperties DEF Good
  <2> QED BY <2>1, <2>2, <2>3
<1>5. CASE Traps(Ins.f, Top(stack).value)
  <2>1. Limit BY <1>1, <1>5 DEF Limit
  <2>2. Fault BY <1>5 DEF Binary
  <2> QED BY <2>1, <2>2, FaultStep
<1>6. CASE ~Traps(Ins.f, Top(stack).value)
  <2> DEFINE result == Emitted(Ins.f, stack[Len(stack) - 1].value, Top(stack).value)
  <2>1. Sequel(Pops(Ins), <<Cell("int", result)>>) BY <1>3, <1>4, <1>6 DEF Binary
  <2> HIDE DEF result
  <2>2. Cell("int", result).kind = "int" BY DEF Cell
  <2> QED BY <1>1, <1>2, <1>3, <2>1, <2>2, OneCell
<1> QED BY <1>5, <1>6


LEMMA NotStep ==
    ASSUME Certified, Good, code' = code, Not PROVE Safe'
<1>1. Ins.op = "not" /\ machine = "running" /\ pc \in DOMAIN code BY DEF Not, Running
<1>2. Plain /\ Sequels(pc) = {pc + 1} BY <1>1 DEF Plain, Sequels, Ins
<1> DEFINE kind == Top(code[pc].types)
           cell == Cell(IF Top(stack).kind = "byte" THEN "byte" ELSE "int",
                        BitNot(Wrap(Top(stack).value)))
<1>3. Pops(Ins) = 1 /\ Pushed = <<kind>> BY <1>1 DEF Pops, Pushed, Pushes
<1>4. Len(code[pc].types) >= 1 /\ kind \in {"int", "byte"}
  BY <1>1, <1>3, ViewProperties DEF HasWhatItNeeds, Ins
<1>5. kind = Top(stack).kind BY <1>4, TopCell
<1>6. kind \in {"poisoned", cell.kind} BY <1>4, <1>5 DEF Cell
<1>7. Sequel(Pops(Ins), <<cell>>) BY <1>3 DEF Not
<1> HIDE DEF cell, kind
<1> QED BY <1>1, <1>2, <1>3, <1>6, <1>7, OneCell

LEMMA DotStep ==
    ASSUME Certified, Good, code' = code, Dot PROVE Safe'
<1>1. Ins.op = "dot" /\ machine = "running" /\ pc \in DOMAIN code BY DEF Dot, Running
<1>2. Plain /\ Sequels(pc) = {pc + 1} BY <1>1 DEF Plain, Sequels, Ins
<1> DEFINE kind == Top(code[pc].types)
<1>3. Pops(Ins) = 1 /\ Pushed = <<kind>> BY <1>1 DEF Pops, Pushed, Pushes
<1>4. Len(code[pc].types) >= 1 BY <1>1, <1>3, ViewProperties DEF HasWhatItNeeds, Ins
<1>5. kind \in {"poisoned", Top(stack).kind} BY <1>4, TopCell
<1>6. CASE (NoRoomToWrite \/ WildLoad) /\ Fault BY <1>6, FaultStep DEF Limit
<1>7. CASE Sequel(1, <<Top(stack)>>)
  <2>1. Sequel(Pops(Ins), <<Top(stack)>>) BY <1>3, <1>7
  <2> HIDE DEF kind
  <2> QED BY <1>1, <1>2, <1>3, <1>5, <2>1, OneCell
<1> QED BY <1>6, <1>7 DEF Dot

LEMMA DupStep ==
    ASSUME Certified, Good, code' = code, Dup PROVE Safe'
<1>1. Ins.op = "dup" /\ machine = "running" /\ pc \in DOMAIN code BY DEF Dup, Running
<1>2. Plain /\ Sequels(pc) = {pc + 1} BY <1>1 DEF Plain, Sequels, Ins
<1> DEFINE kind == Top(code[pc].types)
           cell == Top(stack)
           cells == <<cell, cell>>
<1>3. Pops(Ins) = 1 /\ Pushed = <<kind, kind>> BY <1>1 DEF Pops, Pushed, Pushes
<1>4. Len(code[pc].types) >= 1 BY <1>1, <1>3, ViewProperties DEF HasWhatItNeeds, Ins
<1>5. kind \in {"poisoned", cell.kind} BY <1>4, TopCell
<1>6. Sequel(Pops(Ins), cells) BY <1>3 DEF Dup
<1> HIDE DEF kind, cell
<1>7. IsSeq(cells) /\ Len(cells) = 2 /\ cells[1] = cell /\ cells[2] = cell BY SmallSeqs
<1>8. Len(Pushed) = 2 /\ Pushed[1] = kind /\ Pushed[2] = kind BY <1>3, SmallSeqs
<1>9. Len(cells) = Len(Pushed) /\ Len(cells) <= Pops(Ins) + 1 BY <1>3, <1>7, <1>8
<1>10. \A i \in 1 .. Len(Pushed) : Pushed[i] \in {"poisoned", cells[i].kind}
  <2> SUFFICES ASSUME NEW i \in 1 .. Len(Pushed)
               PROVE  Pushed[i] \in {"poisoned", cells[i].kind}
    OBVIOUS
  <2>1. i \in {1, 2} BY <1>8
  <2> QED BY <1>5, <1>7, <1>8, <2>1
<1> HIDE DEF cells
<1> QED BY <1>1, <1>2, <1>6, <1>7, <1>9, <1>10, SequelStep

(* drop, the syscall's pops, and the steps that leave both stacks alone.      *)
LEMMA PopStep ==
    ASSUME Certified, Good, code' = code, PopOne \/ Syscall \/ Skip PROVE Safe'
<1>1. Ins.op \in {"drop", "syscall", "label", "entry", "start"} /\ machine = "running"
  BY DEF PopOne, Syscall, Skip, Running
<1>2. Plain /\ Sequels(pc) = {pc + 1} BY <1>1 DEF Plain, Sequels, Ins
<1>3. Pushed = <<>> BY <1>1 DEF Pushed, Pushes
<1>4. Sequel(Pops(Ins), <<>>)
  <2>1. CASE PopOne BY <2>1 DEF PopOne, Running, Pops
  <2>2. CASE Syscall BY <2>2 DEF Syscall, Running, Pops
  <2>3. CASE Skip
    <3>1. Ins.op \in {"label", "entry", "start"} /\ Sequel(0, <<>>)
      BY <2>3 DEF Skip, Running
    <3>2. Pops(Ins) = 0 BY <3>1 DEF Pops
    <3> QED BY <3>1, <3>2
  <2> QED BY <2>1, <2>2, <2>3
<1> QED BY <1>1, <1>2, <1>3, <1>4, NoCell

LEMMA FfiStep ==
    ASSUME Certified, Good, code' = code, Ffi PROVE Safe'
<1>1. Ins.op = "ffi" /\ machine = "running" /\ pc \in DOMAIN code BY DEF Ffi, Running
<1>2. Plain /\ Sequels(pc) = {pc + 1} BY <1>1 DEF Plain, Sequels, Ins
<1>3. Pops(Ins) = Len(Ins.args) /\ Pushed = Ins.rets BY <1>1 DEF Pops, Pushed, Pushes
<1>4. /\ Ins.rets \in Seq(Kinds) /\ Len(Ins.rets) <= 1 /\ Len(Ins.rets) \in Nat
      /\ DOMAIN Ins.rets = 1 .. Len(Ins.rets) /\ Pops(Ins) \in Nat
  <2>1. WellFormed(pc) BY <1>1, ViewProperties
  <2>2. Ins.rets \in Seq(Kinds) /\ Len(Ins.rets) <= 1 BY <1>1, <2>1 DEF WellFormed, Ins
  <2>3. Pops(Ins) \in 0 .. Len(code[pc].types) BY <1>1, PopsProperties DEF Ins
  <2> QED BY <2>2, <2>3, LenProperties
<1>5. PICK rax \in Word :
         Sequel(Pops(Ins), [i \in DOMAIN Ins.rets |-> Cell(Ins.rets[i], rax)])
  BY <1>3 DEF Ffi
<1> DEFINE rets == Ins.rets
           cells == [i \in DOMAIN rets |-> Cell(rets[i], rax)]
<1>6. Sequel(Pops(Ins), cells) BY <1>5
<1>7. \A i \in 1 .. Len(rets) : cells[i].kind = rets[i]
  BY <1>4 DEF Cell
<1>8. IsSeq(cells) /\ Len(cells) = Len(rets)
  <2> DEFINE S == {Cell(rets[i], rax) : i \in DOMAIN rets}
  <2>1. cells \in [1 .. Len(rets) -> S] BY <1>4
  <2>2. cells \in Seq(S) /\ Len(cells) = Len(rets)
    <3> HIDE DEF cells, S
    <3> QED BY <1>4, <2>1
  <2> QED BY <2>2, SeqIsSeq
<1> HIDE DEF cells
<1>9. Len(cells) <= Pops(Ins) + 1 BY <1>4, <1>8
<1>10. \A i \in 1 .. Len(Pushed) : Pushed[i] \in {"poisoned", cells[i].kind}
  BY <1>3, <1>7
<1> QED BY <1>1, <1>2, <1>3, <1>6, <1>8, <1>9, <1>10, SequelStep


(* [rsp + slot] is the argument's own cell, of its kind: the one its caller   *)
(* left, or the one left by the code around the inlined body.                 *)
LEMMA CallersArgument ==
    ASSUME Certified, Good, Ins.op = "loadarg", Len(code[pc].marks) = 1
    PROVE  /\ Slot = Ins.arg + (Base(Depth) - 1) - Ins.nargs
           /\ Slot \in 1 .. Len(stack)
           /\ Ins.kind \in {"poisoned", stack[Slot].kind}
<1>1. pc \in DOMAIN code /\ Stacks BY TopView DEF Good
<1>2. PICK d \in Nat : d = Depth BY <1>1, StacksProperties
<1>3. HasWhatItNeeds(pc) /\ WellFormed(pc) BY <1>1, ViewProperties
<1>4. d >= 2
  <2>1. SUFFICES ASSUME d = 1 PROVE FALSE BY <1>1, <1>2, StacksProperties
  <2>2. Site(1) = pc BY <1>2, <2>1 DEF Site
  <2>3. code[pc].of = START BY <2>2 DEF Good
  <2> QED BY <1>3, <2>3 DEF HasWhatItNeeds, Ins
<1>5. PICK p \in Nat : d = p + 1 /\ p >= 1 /\ p = d - 1
  <2>1. d - 1 \in Nat /\ d - 1 >= 1 /\ d = (d - 1) + 1 BY <1>2, <1>4
  <2> QED BY <2>1
<1>6. /\ p \in 1 .. Depth /\ p + 1 \in 1 .. Depth /\ p + 1 \in 2 .. Depth
      /\ p # Depth /\ p + 1 = Depth
  BY <1>2, <1>5
<1>7. Base(p) \in Nat /\ Base(Depth) \in Nat BY <1>1, <1>6, StacksProperties
<1>8. PICK c : c = Site(p) OBVIOUS
<1> DEFINE types == code[c].types
           args == code[c].ins.args
           n == Ins.nargs
           a == Ins.arg
<1>9. Described(p) BY <1>6 DEF Good
<1>10. c \in DOMAIN code BY <1>8, <1>9 DEF Described
<1>11. code[c].ins.op = "call" /\ code[pc].of = code[c].ins.name
  <2>1. Called(p + 1) BY <1>6 DEF Good
  <2>2. (p + 1) - 1 = p BY <1>5
  <2>3. Site(p + 1) = pc BY <1>6 DEF Site
  <2> QED BY <1>8, <2>1, <2>2, <2>3 DEF Called
<1>12. n = Len(args) /\ Ins.kind = args[a]
  <2>1. Agreed(c, pc) BY <1>1, <1>10 DEF Certified
  <2> QED BY <1>11, <2>1 DEF Agreed, Ins
<1>13. n \in Nat /\ a \in 1 .. n BY <1>3 DEF WellFormed, Ins
<1>14. /\ HasWhatItNeeds(c) /\ Len(types) \in Nat /\ IsSeq(types)
  BY <1>10, ViewProperties, SeqIsSeq
<1>15. n <= Len(types) /\ TopN(types, n) = args
  <2>1. Pops(code[c].ins) = n BY <1>11, <1>12 DEF Pops
  <2>2. Len(types) >= Pops(code[c].ins) BY <1>14 DEF HasWhatItNeeds
  <2>3. TopN(types, Len(args)) = args BY <1>11, <1>14 DEF HasWhatItNeeds
  <2> QED BY <1>12, <1>13, <1>14, <2>1, <2>2, <2>3
<1>16. /\ Base(Depth) - 1 = Base(p) + Len(types)
       /\ \A i \in 1 .. Len(types) : types[i] \in {"poisoned", stack[Base(p) + i].kind}
  <2>1. EndOf(p) = Base(p + 1) - 1 BY <1>6 DEF EndOf
  <2> QED BY <1>6, <1>8, <1>9, <2>1 DEF Described, TypesOf
<1>17. Ins.slot = Len(code[pc].types) + 1 + n - a
  BY <1>3 DEF HasWhatItNeeds, OwnSlot, Ins
<1>18. Len(stack) = Base(Depth) + Len(code[pc].types) /\ Len(code[pc].types) \in Nat
  BY <1>1, TopView, ViewProperties
<1> HIDE DEF types, args, n, a
<1>19. Slot = a + (Base(Depth) - 1) - n
  <2>1. /\ Slot = Len(stack) - (Len(code[pc].types) + 1 + n - a)
        /\ Len(stack) = Base(Depth) + Len(code[pc].types)
    BY <1>17, <1>18 DEF Slot
  <2>2. /\ a \in Nat /\ n \in Nat /\ Base(Depth) \in Nat /\ Len(code[pc].types) \in Nat
    BY <1>7, <1>13, <1>18
  <2> QED BY <2>1, <2>2
<1> DEFINE j == Len(types) - n + a
<1>20. j \in 1 .. Len(types) /\ Slot = Base(p) + j
  BY <1>7, <1>13, <1>14, <1>15, <1>16, <1>19
<1>21. types[j] = Ins.kind
  <2>1. TopN(types, n)[a] = types[j] BY <1>13, <1>14, <1>15, TopNProperties
  <2> QED BY <1>12, <1>15, <2>1
<1> HIDE DEF j
<1>22. types[j] \in {"poisoned", stack[Base(p) + j].kind} BY <1>16, <1>20
<1>23. Slot \in 1 .. Len(stack)
  <2>1. /\ Slot = Base(p) + j /\ j \in 1 .. Len(types) /\ Len(types) \in Nat
        /\ Base(p) \in Nat
    BY <1>7, <1>14, <1>20
  <2>2. Slot >= 1 /\ Slot <= Base(p) + Len(types) /\ Slot \in Nat BY <2>1
  <2>3. Base(p) + Len(types) <= Len(stack) BY <1>7, <1>16, <1>18
  <2>4. Len(stack) \in Nat BY <1>7, <1>18
  <2> QED BY <2>1, <2>2, <2>3, <2>4
<1> QED BY <1>19, <1>20, <1>21, <1>22, <1>23 DEF n, a

LEMMA InlinedArgument ==
    ASSUME Certified, Good, Ins.op = "loadarg", Len(code[pc].marks) # 1
    PROVE  /\ Slot = Ins.arg + Top(rsp_stack) - Ins.nargs
           /\ Slot \in 1 .. Len(stack)
           /\ Ins.kind \in {"poisoned", stack[Slot].kind}
<1>1. pc \in DOMAIN code /\ Stacks BY TopView DEF Good
<1>2. HasWhatItNeeds(pc) /\ WellFormed(pc) BY <1>1, ViewProperties
<1> DEFINE types == code[pc].types
           mark == Top(code[pc].marks)
           n == Ins.nargs
           a == Ins.arg
           j == mark - n + a
<1>3. code[pc].marks # <<>> /\ OwnSlot(pc) BY <1>2 DEF HasWhatItNeeds, Ins
<1>4. /\ Ins.slot = Len(types) - mark + n - a /\ mark >= n /\ mark <= Len(types)
      /\ types[j] = Ins.kind
  BY <1>3 DEF OwnSlot, Ins
<1>5. n \in Nat /\ a \in 1 .. n BY <1>2 DEF WellFormed, Ins
<1>6. Top(rsp_stack) = Base(Depth) + mark /\ mark \in Nat BY <1>3, TopSaved
<1>7. Base(Depth) \in Nat BY <1>1, StacksProperties
<1>8. Len(stack) = Base(Depth) + Len(types) /\ Len(types) \in Nat
  BY <1>1, TopView, ViewProperties
<1>9. \A i \in 1 .. Len(types) : types[i] \in {"poisoned", stack[Base(Depth) + i].kind}
  BY TopView
<1> HIDE DEF types, mark, n, a, j
<1>10. Slot = Len(stack) - Ins.slot BY DEF Slot
<1>11. j \in 1 .. Len(types) BY <1>4, <1>5, <1>6, <1>8 DEF j
<1>12. Slot = a + Top(rsp_stack) - n /\ Slot = Base(Depth) + j
  BY <1>4, <1>5, <1>6, <1>7, <1>8, <1>10 DEF j
<1>13. Slot \in 1 .. Len(stack) BY <1>7, <1>8, <1>11, <1>12
<1>14. types[j] \in {"poisoned", stack[Base(Depth) + j].kind} BY <1>9, <1>11
<1> QED BY <1>4, <1>12, <1>13, <1>14 DEF n, a

LEMMA ArgumentSlot ==
    ASSUME Certified, Good, Ins.op = "loadarg"
    PROVE  /\ Slot = Ins.arg + (IF Len(code[pc].marks) = 1 THEN Top(calls).base - 1
                                                           ELSE Top(rsp_stack)) - Ins.nargs
           /\ Slot \in DOMAIN stack
           /\ Ins.kind \in {"poisoned", stack[Slot].kind}
<1>1. DOMAIN stack = 1 .. Len(stack) /\ Top(calls).base = Base(Depth)
  BY StacksProperties DEF Good
<1>2. CASE Len(code[pc].marks) = 1 BY <1>1, <1>2, CallersArgument
<1>3. CASE Len(code[pc].marks) # 1 BY <1>1, <1>3, InlinedArgument
<1> QED BY <1>2, <1>3

LEMMA LoadArgStep ==
    ASSUME Certified, Good, code' = code, LoadArg PROVE Safe'
<1>1. Ins.op = "loadarg" /\ machine = "running" /\ pc \in DOMAIN code BY DEF LoadArg, Running
<1>2. Plain /\ Sequels(pc) = {pc + 1} BY <1>1 DEF Plain, Sequels, Ins
<1>3. Pops(Ins) = 0 /\ Pushed = <<Ins.kind>> BY <1>1 DEF Pops, Pushed, Pushes
<1>4. Slot \in DOMAIN stack /\ Ins.kind \in {"poisoned", stack[Slot].kind}
  BY <1>1, ArgumentSlot
<1>5. Sequel(Pops(Ins), <<stack[Slot]>>) BY <1>3, <1>4 DEF LoadArg
<1> QED BY <1>1, <1>2, <1>3, <1>4, <1>5, OneCell


(* Going to an instruction that may follow, with what it pops popped.         *)
LEMMA GotoStep ==
    ASSUME Certified, Good, machine = "running", Plain, code' = code, Pushed = <<>>,
           NEW target \in Sequels(pc), NEW s, Goto(target, s),
           s = Drop(stack, Pops(Ins))
    PROVE  Safe'
<1>1. Stacks BY DEF Good
<1>2. IsSeq(<<>>) /\ Len(<<>>) = 0 BY SmallSeqs
<1>3. IsSeq(s) /\ stack' = Drop(stack, Pops(Ins)) \o <<>>
  <2>1. pc \in DOMAIN code /\ Len(stack) = Base(Depth) + Len(code[pc].types) BY TopView
  <2>2. Base(Depth) \in Nat /\ IsSeq(stack)
    <3>1. Base(Depth) \in Nat BY <1>1, StacksProperties
    <3>2. IsSeq(stack) BY <1>1 DEF Stacks
    <3> QED BY <3>1, <3>2
  <2>3. Pops(Ins) \in 0 .. Len(code[pc].types) /\ Len(code[pc].types) \in Nat
    BY <2>1, PopsProperties, ViewProperties DEF Ins
  <2> DEFINE n == Len(stack) - Pops(Ins)
  <2>4. n \in Nat /\ n <= Len(stack) BY <2>1, <2>2, <2>3
  <2>5. s = SubSeq(stack, 1, n) BY DEF Drop
  <2> HIDE DEF n
  <2>6. stack \in Seq({stack[i] : i \in DOMAIN stack}) BY <2>2 DEF IsSeq
  <2>7. s \in Seq({stack[i] : i \in DOMAIN stack})
    <3>1. \A i \in 1 .. n : stack[i] \in {stack[k] : k \in DOMAIN stack}
      BY <2>2, <2>4, IsSeqProperties
    <3> QED BY <2>4, <2>5, <3>1, SubSeqProperties
  <2>8. s \o <<>> = s BY <2>7, ConcatEmptySeq
  <2>9. IsSeq(s) BY <2>7, SeqIsSeq
  <2>10. stack' = s BY DEF Goto
  <2> QED BY <2>8, <2>9, <2>10
<1>4. \A i \in 1 .. Len(Pushed) : Pushed[i] \in {"poisoned", <<>>[i].kind} BY <1>2
<1>5. Advance(<<>>) BY <1>2, <1>3, <1>4 DEF Advance, Goto
<1>6. machine' = "running" BY DEF Goto
<1> QED BY <1>5, <1>6, PlainStep DEF Safe

LEMMA StoreStep ==
    ASSUME Certified, Good, code' = code, Store PROVE Safe'
<1>1. Ins.op = "store" /\ machine = "running" /\ pc \in DOMAIN code BY DEF Store, Running
<1>2. Plain /\ Sequels(pc) = {pc + 1} BY <1>1 DEF Plain, Sequels, Ins
<1>3. Pops(Ins) = 1 /\ Pushed = <<>> BY <1>1 DEF Pops, Pushed, Pushes
<1>4. Len(code[pc].types) >= 1 BY <1>1, <1>3, ViewProperties DEF HasWhatItNeeds, Ins
<1>5. stack # <<>>
  <2>1. Len(stack) >= 1 BY <1>4, TopCell
  <2>2. Len(<<>>) = 0 BY SmallSeqs
  <2> QED BY <2>1, <2>2
<1>6. Goto(pc + 1, Drop(stack, 1)) BY <1>5 DEF Store
<1> QED BY <1>1, <1>2, <1>3, <1>6, GotoStep

LEMMA JzStep ==
    ASSUME Certified, Good, code' = code, Jz PROVE Safe'
<1>1. Ins.op = "jz" /\ machine = "running" /\ pc \in DOMAIN code BY DEF Jz, Running
<1>2. Plain /\ Sequels(pc) = Labels(Ins.l, Ins.n) \union {pc + 1}
  BY <1>1 DEF Plain, Sequels, Ins
<1>3. Pops(Ins) = 1 /\ Pushed = <<>> BY <1>1 DEF Pops, Pushed, Pushes
<1>4. Len(code[pc].types) >= 1 BY <1>1, <1>3, ViewProperties DEF HasWhatItNeeds, Ins
<1>5. stack # <<>>
  <2>1. Len(stack) >= 1 BY <1>4, TopCell
  <2>2. Len(<<>>) = 0 BY SmallSeqs
  <2> QED BY <2>1, <2>2
<1>6. \E target \in Sequels(pc) : Goto(target, Drop(stack, 1)) BY <1>2, <1>5 DEF Jz
<1> QED BY <1>1, <1>2, <1>3, <1>6, GotoStep

LEMMA JmpStep ==
    ASSUME Certified, Good, code' = code, Jmp PROVE Safe'
<1>1. Ins.op = "jmp" /\ machine = "running" /\ pc \in DOMAIN code BY DEF Jmp, Running
<1>2. Plain /\ Sequels(pc) = Labels(Ins.l, Ins.n) BY <1>1 DEF Plain, Sequels, Ins
<1>3. Pops(Ins) = 0 /\ Pushed = <<>> BY <1>1 DEF Pops, Pushed, Pushes
<1>4. PICK target \in Sequels(pc) : Goto(target, stack) BY <1>2 DEF Jmp
<1>5. stack = Drop(stack, 0)
  <2>1. IsSeq(stack) BY DEF Good, Stacks
  <2>2. stack \in Seq({stack[i] : i \in DOMAIN stack}) /\ Len(stack) - 0 = Len(stack)
    BY <2>1, IsSeqProperties DEF IsSeq
  <2> QED BY <2>2, SubSeqFull DEF Drop
<1> QED BY <1>1, <1>2, <1>3, <1>4, <1>5, GotoStep

LEMMA CallsStep ==
    ASSUME Certified, Good, code' = code, Call PROVE Safe'
<1>1. Ins.op = "call" /\ machine = "running" BY DEF Call, Running
<1>2. CASE Len(stack) >= STACK_CAP
  <2>1. Fault BY <1>2 DEF Call
  <2> QED BY <1>2, <2>1, FaultStep DEF Limit
<1>3. CASE ~(Len(stack) >= STACK_CAP)
  <2>1. Good' BY <1>1, <1>3, CallStep DEF Call
  <2>2. machine' = "running" BY <1>1, <1>3 DEF Call
  <2> QED BY <2>1, <2>2 DEF Safe
<1> QED BY <1>2, <1>3

LEMMA EnterFrameStep ==
    ASSUME Certified, Good, code' = code, EnterFrame PROVE Safe'
<1>1. Ins.op = "enter" /\ machine = "running" BY DEF EnterFrame, Running
<1>2. CASE Len(rsp_stack) >= RSP_STACK_CAP
  <2>1. Fault BY <1>2 DEF EnterFrame
  <2> QED BY <1>1, <1>2, <2>1, FaultStep DEF Limit
<1>3. CASE ~(Len(rsp_stack) >= RSP_STACK_CAP)
  <2>1. Good' BY <1>1, <1>3, EnterStep DEF EnterFrame
  <2>2. machine' = "running" BY <1>1, <1>3 DEF EnterFrame
  <2> QED BY <2>1, <2>2 DEF Safe
<1> QED BY <1>2, <1>3

(* The restored pointer is in place: neither kind of return can fault.        *)
LEMMA LeaveInlineStep ==
    ASSUME Certified, Good, code' = code, LeaveInline PROVE Safe'
<1>1. Ins.op = "leave" /\ machine = "running" /\ pc \in DOMAIN code
  BY DEF LeaveInline, Running
<1>2. HasWhatItNeeds(pc) /\ Len(code[pc].types) \in Nat BY <1>1, ViewProperties
<1>3. /\ Top(code[pc].marks) \in Ins.nargs .. Len(code[pc].types)
      /\ code[pc].marks # <<>>
  <2>1. Len(code[pc].marks) > 1 BY <1>1, <1>2 DEF HasWhatItNeeds, Ins
  <2>2. Len(<<>>) = 0 BY SmallSeqs
  <2>3. code[pc].marks # <<>> BY <2>1, <2>2
  <2> QED BY <1>1, <1>2, <2>3 DEF HasWhatItNeeds, Ins
<1>4. Ins.nargs \in Nat BY <1>1, ViewProperties DEF WellFormed, Ins
<1>5. /\ rsp_stack # <<>> /\ Top(rsp_stack) = Base(Depth) + Top(code[pc].marks)
  BY <1>3, TopSaved
<1>6. Len(stack) = Base(Depth) + Len(code[pc].types) /\ Base(Depth) \in Nat
  BY TopView, StacksProperties DEF Good
<1>7. Len(Ins.rets) \in Nat /\ Len(Ins.rets) <= Len(stack) BY <1>1, ResultsProperties
<1>8. Top(code[pc].marks) \in Int /\ Top(rsp_stack) \in Int BY <1>3, <1>5, <1>6
<1>9. Top(rsp_stack) >= Ins.nargs /\ Top(rsp_stack) <= Len(stack)
  BY <1>2, <1>3, <1>4, <1>5, <1>6
<1>10. /\ ~(rsp_stack = <<>> \/ Len(stack) < Len(Ins.rets))
       /\ ~(Top(rsp_stack) < Ins.nargs \/ Top(rsp_stack) > Len(stack))
  <2>1. Len(stack) \in Int BY <1>2, <1>6
  <2>2. ~(Len(stack) < Len(Ins.rets)) BY <1>7, <2>1
  <2>3. ~(Top(rsp_stack) < Ins.nargs \/ Top(rsp_stack) > Len(stack))
    BY <1>4, <1>8, <1>9, <2>1
  <2> QED BY <1>5, <2>2, <2>3
<1>11. /\ stack' = Unwound(Ins.nargs) \o Results /\ rsp_stack' = Restored
       /\ pc' = pc + 1 /\ calls' = calls /\ machine' = machine
  BY <1>10 DEF LeaveInline
<1>12. Good' BY <1>1, <1>11, LeaveStep
<1> QED BY <1>1, <1>11, <1>12 DEF Safe

LEMMA ReturnStep ==
    ASSUME Certified, Good, code' = code, Ret PROVE Safe'
<1>1. Ins.op = "ret" /\ machine = "running" /\ pc \in DOMAIN code BY DEF Ret, Running
<1>2. PICK c : c = Site(Depth - 1) OBVIOUS
<1>3. /\ Depth >= 2 /\ Top(rsp_stack) = Base(Depth) /\ code[pc].marks = <<0>>
      /\ c \in DOMAIN code /\ Ins.nargs \in Nat
      /\ Ins.nargs <= Len(code[c].types)
      /\ stack[Base(Depth)].kind = "return"
      /\ Base(Depth) = Base(Depth - 1) + Len(code[c].types) + 1
  BY <1>1, <1>2, ReturnSite
<1>4. rsp_stack # <<>>
  <2>1. Len(<<0>>) = 1 /\ Len(<<>>) = 0 BY SmallSeqs
  <2>2. code[pc].marks # <<>> BY <1>3, <2>1
  <2> QED BY <2>2, TopSaved
<1>5. PICK d \in Nat : d = Depth BY StacksProperties DEF Good
<1>6. Base(d) \in Nat /\ Base(d - 1) \in Nat /\ Len(code[c].types) \in Nat
  <2>1. d \in 1 .. Depth /\ d - 1 \in 1 .. Depth BY <1>3, <1>5
  <2> QED BY <1>3, <2>1, StacksProperties, ViewProperties DEF Good
<1>7. Base(d) = Base(d - 1) + Len(code[c].types) + 1 BY <1>3, <1>5
<1>8. Len(stack) = Base(d) + Len(code[pc].types) /\ Len(code[pc].types) \in Nat
  BY <1>1, <1>5, TopView, ViewProperties
<1>9. Len(Ins.rets) \in Nat /\ Len(Ins.rets) <= Len(stack) BY <1>1, ResultsProperties
<1>10. Top(rsp_stack) = Base(d) /\ stack[Base(d)].kind = "return" BY <1>3, <1>5
<1>11. Base(d) >= Ins.nargs + 1 /\ Base(d) <= Len(stack) /\ Len(stack) \in Nat
  <2>1. Ins.nargs \in Nat /\ Ins.nargs <= Len(code[c].types) BY <1>3
  <2>2. Base(d) >= Ins.nargs + 1 BY <1>6, <1>7, <2>1
  <2> QED BY <1>6, <1>8, <2>2
<1>12. Len(calls) >= 2 BY <1>3 DEF Depth
<1>13. /\ ~(rsp_stack = <<>> \/ Len(stack) < Len(Ins.rets))
       /\ ~(Top(rsp_stack) < Ins.nargs + 1 \/ Top(rsp_stack) > Len(stack))
       /\ ~(Len(calls) < 2) /\ stack[Top(rsp_stack)].kind = "return"
  <2>1. ~(Len(calls) < 2)
    <3>1. Len(calls) \in Nat BY StacksProperties DEF Good, Depth
    <3> QED BY <1>12, <3>1
  <2>2. ~(Len(stack) < Len(Ins.rets)) BY <1>9, <1>11
  <2>3. ~(Base(d) < Ins.nargs + 1 \/ Base(d) > Len(stack))
    <3>1. Ins.nargs \in Nat BY <1>3
    <3> QED BY <1>6, <1>11, <3>1
  <2> QED BY <1>4, <1>10, <2>1, <2>2, <2>3
<1>14. /\ stack' = Unwound(Ins.nargs + 1) \o Results /\ rsp_stack' = Restored
       /\ pc' = stack[Top(rsp_stack)].value /\ calls' = Drop(calls, 1)
       /\ machine' = machine
  BY <1>13 DEF Ret
<1>15. Good' BY <1>1, <1>14, RetStep
<1> QED BY <1>1, <1>14, <1>15 DEF Safe


-----------------------------------------------------------------------------
(* The steps of the whole.                                                    *)

LEMMA ExecuteStep ==
    ASSUME Certified, Good, code' = code, Execute PROVE Safe' \/ machine' = "exited"
<1>1. CASE Exit BY <1>1 DEF Exit
<1>2. CASE Push \/ LoadVariable BY <1>2, PushStep
<1>3. CASE LoadArg BY <1>3, LoadArgStep
<1>4. CASE Binary BY <1>4, BinaryStep
<1>5. CASE Index BY <1>5, IndexStep
<1>6. CASE Not BY <1>6, NotStep
<1>7. CASE Dup BY <1>7, DupStep
<1>8. CASE PopOne \/ Syscall \/ Skip BY <1>8, PopStep
<1>9. CASE Dot BY <1>9, DotStep
<1>10. CASE Store BY <1>10, StoreStep
<1>11. CASE Ffi BY <1>11, FfiStep
<1>12. CASE Jmp BY <1>12, JmpStep
<1>13. CASE Jz BY <1>13, JzStep
<1>14. CASE Call BY <1>14, CallsStep
<1>15. CASE EnterFrame BY <1>15, EnterFrameStep
<1>16. CASE LeaveInline BY <1>16, LeaveInlineStep
<1>17. CASE Ret BY <1>17, ReturnStep
<1> QED
  BY <1>1, <1>2, <1>3, <1>4, <1>5, <1>6, <1>7, <1>8, <1>9, <1>10, <1>11, <1>12, <1>13,
     <1>14, <1>15, <1>16, <1>17 DEF Execute

LEMMA ExecuteRuns ==
    ASSUME Execute PROVE machine = "running" /\ machine' \in {"running", "fault", "exited"}
<1>1. machine = "running"
  BY DEF Execute, Push, LoadVariable, LoadArg, Binary, Index, Not, Dup, PopOne, Dot, Store,
         Syscall, Ffi, Skip, Jmp, Jz, Call, EnterFrame, LeaveInline, Ret, Exit, Running
<1>2. ASSUME NEW pops, NEW cells, Sequel(pops, cells)
      PROVE  machine' \in {"running", "fault"}
  BY <1>1, <1>2 DEF Sequel, Goto, Fault
<1>3. CASE Push \/ LoadVariable \/ Not \/ Dup \/ PopOne \/ Syscall \/ Skip
  BY <1>1, <1>2, <1>3 DEF Push, LoadVariable, Not, Dup, PopOne, Syscall, Skip
<1>4. CASE LoadArg \/ Binary \/ Index \/ Dot \/ Ffi
  BY <1>1, <1>2, <1>4 DEF LoadArg, Binary, Index, Dot, Ffi, Fault
<1>5. CASE Store \/ Jmp \/ Jz BY <1>1, <1>5 DEF Store, Jmp, Jz, Goto, Fault
<1>6. CASE Call \/ EnterFrame BY <1>1, <1>6 DEF Call, EnterFrame, Fault
<1>7. CASE LeaveInline BY <1>1, <1>7 DEF LeaveInline, Fault
<1>8. CASE Ret BY <1>1, <1>8 DEF Ret, Fault
<1>9. CASE Exit BY <1>1, <1>9 DEF Exit
<1> QED BY <1>1, <1>3, <1>4, <1>5, <1>6, <1>7, <1>8, <1>9 DEF Execute

LEMMA CompileBusy == ASSUME Compile PROVE phase # "done"
BY DEF Compile, FillMaps, Filling, CompileMain, CompileRoutine, EndRoutine, CompileDone,
       CompilePush, CompileLiteral, CompileCall, EndInline, CompileArith, CompileEqual,
       CompilePlus, CompileBnot, CompileDrop, CompileDup, CompileDot, CompileWrite,
       CompileSyscall, CompileNothing, CompileIf, EndThen, EndElse, CompileWhile, EndCond,
       EndBody, Compiling, Returning

LEMMA CertifiedAgain == ASSUME code' = code PROVE Certified' <=> Certified
BY DEF Certified, WellFormed, HasWhatItNeeds, LeadsOn, Agreed, Sequels, Labels, TypesAfter,
       MarksAfter, OwnSlot

(* _start finds both stacks empty.                                            *)
LEMMA LoadStep ==
    ASSUME Certified, NotLoaded, Load PROVE Safe'
<1>1. PICK i \in DOMAIN code : code[i].ins.op = "start" /\ pc' = i BY DEF Load
<1>2. /\ machine' = "running" /\ code' = code
      /\ calls' = <<[base |-> 0, rsp |-> 0]>>
      /\ stack' = <<>> /\ rsp_stack' = <<>>
  BY DEF Load, NotLoaded, codegenVars
<1>3. code[i].types = <<>> /\ code[i].marks = <<>> /\ code[i].of = START
  BY <1>1, ViewProperties DEF HasWhatItNeeds
<1>4. Depth' = 1 /\ calls'[1] = [base |-> 0, rsp |-> 0] BY <1>2, SmallSeqs DEF Depth
<1>5. Base(1)' = 0 /\ calls'[1].rsp = 0 BY <1>4 DEF Base
<1>6. Site(1)' = i BY <1>1, <1>4 DEF Site
<1>7. Stacks'
  <2>1. calls' \in Seq([base : Nat, rsp : Nat])
    <3>1. [base |-> 0, rsp |-> 0] \in [base : Nat, rsp : Nat] OBVIOUS
    <3> QED BY <1>2, <3>1
  <2>2. IsSeq(stack') /\ rsp_stack' \in Seq(Nat)
    <3>1. IsSeq(<<>>) BY SmallSeqs
    <3>2. <<>> \in Seq(Nat) OBVIOUS
    <3> QED BY <1>2, <3>1, <3>2
  <2> QED BY <1>4, <1>5, <2>1, <2>2 DEF Stacks
<1>8. Described(1)'
  <2>1. EndOf(1)' = 0 /\ RspEnd(1)' = 0
    BY <1>2, <1>4, SmallSeqs DEF EndOf, RspEnd
  <2>2. TypesOf(1)' = <<>> /\ MarksOf(1)' = <<>> BY <1>2, <1>3, <1>6 DEF TypesOf, MarksOf
  <2>3. Len(<<>>) = 0 BY SmallSeqs
  <2>4. Site(1)' \in DOMAIN code' BY <1>2, <1>6
  <2> QED BY <1>5, <2>1, <2>2, <2>3, <2>4 DEF Described
<1>9. code'[Site(1)'].of = START BY <1>2, <1>3, <1>6
<1>10. Good' BY <1>4, <1>8, <1>7, <1>9 DEF Good
<1> QED BY <1>2, <1>10 DEF Safe

LEMMA InductiveStep ==
    ASSUME Inductive, [Next]_vars PROVE Inductive'
<1>1. CASE Compiles
  <2>1. /\ machine' = machine /\ stack' = stack /\ rsp_stack' = rsp_stack
    BY <1>1 DEF Compiles, machineVars
  <2>2. machine = "off" BY <1>1, CompileBusy DEF Compiles, Inductive, CompiledFirst
  <2> QED BY <2>1, <2>2 DEF Inductive, NotLoaded, CompiledFirst
<1>2. CASE Load
  <2>1. code' = code /\ phase' = phase /\ machine' = "running" /\ phase = "done"
    BY <1>2 DEF Load, codegenVars
  <2>2. Certified' => Safe'
    BY <1>2, <2>1, CertifiedAgain, LoadStep DEF Inductive
  <2> QED BY <2>1, <2>2 DEF Inductive, NotLoaded, CompiledFirst
<1>3. CASE Executes
  <2>1. code' = code /\ phase' = phase BY <1>3 DEF Executes, codegenVars
  <2>2. machine = "running" /\ machine' \in {"running", "fault", "exited"}
    BY <1>3, ExecuteRuns DEF Executes
  <2>3. (machine' \in {"running", "fault"} /\ Certified') => Safe'
    BY <1>3, <2>1, <2>2, CertifiedAgain, ExecuteStep DEF Executes, Inductive, Safe
  <2> QED BY <2>1, <2>2, <2>3 DEF Inductive, NotLoaded, CompiledFirst
<1>4. CASE UNCHANGED vars
  <2>1. UNCHANGED <<code, phase, machine, pc, stack, rsp_stack, mem, calls>>
    BY <1>4 DEF vars, codegenVars, machineVars
  <2>2. Certified' <=> Certified BY <2>1, CertifiedAgain
  <2>3. Safe' <=> Safe
    <3>1. Good' <=> Good
      BY <2>1 DEF Good, Stacks, Described, Called, Depth, Base, Site, Caller,
                  EndOf, RspEnd, TypesOf, MarksOf
    <3>2. Limit' <=> Limit BY <2>1, LimitStays
    <3> QED BY <2>1, <3>1, <3>2 DEF Safe
  <2> QED BY <2>1, <2>2, <2>3 DEF Inductive, NotLoaded, CompiledFirst
<1> QED BY <1>1, <1>2, <1>3, <1>4 DEF Next, End

(* Every program and every run: while a program runs whose code carries the   *)
(* certificate, each open routine's part of the stacks is what the view       *)
(* beside the instruction it stands at says, and it faults at a limit only.   *)
THEOREM InductiveHolds == Spec => []Inductive
<1>1. Init => Inductive
  BY DEF Init, CodegenInit, MachineInit, Inductive, NotLoaded, CompiledFirst
<1>2. Inductive /\ [Next]_vars => Inductive' BY InductiveStep
<1> QED BY <1>1, <1>2, PTL DEF Spec


-----------------------------------------------------------------------------
(* What the invariant says of the innermost routine.                          *)

LEMMA RunningIsGood ==
    ASSUME Inductive, Sound PROVE Certified /\ Good /\ pc \in DOMAIN code
<1>1. Certified /\ Good BY DEF Inductive, Sound, Safe
<1> QED BY <1>1, TopView

LEMMA TypedStack == ASSUME Inductive PROVE StackIsTyped
<1> SUFFICES ASSUME Sound
             PROVE  Covers(code[pc].types,
                           [i \in 1 .. Len(stack) - Top(calls).base |->
                               stack[Top(calls).base + i].kind])
    BY DEF StackIsTyped
<1>1. Certified /\ Good /\ pc \in DOMAIN code BY RunningIsGood
<1>2. PICK b \in Nat : b = Base(Depth) BY <1>1, StacksProperties DEF Good
<1>3. Top(calls).base = b BY <1>1, <1>2, StacksProperties DEF Good
<1> DEFINE types == code[pc].types
           n == Len(stack) - b
           kinds == [i \in 1 .. n |-> stack[b + i].kind]
<1>4. Len(types) \in Nat /\ DOMAIN types = 1 .. Len(types) BY <1>1, ViewProperties
<1>5. Len(stack) = b + Len(types) BY <1>1, <1>2, TopView
<1>6. \A i \in 1 .. Len(types) : types[i] \in {"poisoned", stack[b + i].kind}
  BY <1>1, <1>2, TopView
<1> HIDE DEF types
<1>7. n = Len(types) BY <1>4, <1>5
<1> HIDE DEF n
<1>8. \A i \in 1 .. Len(types) : kinds[i] = stack[b + i].kind BY <1>7
<1>9. Len(kinds) = Len(types)
  <2>1. kinds \in [1 .. n -> {stack[b + i].kind : i \in 1 .. n}] OBVIOUS
  <2>2. kinds \in Seq({stack[b + i].kind : i \in 1 .. n}) /\ Len(kinds) = n
    <3> HIDE DEF kinds
    <3> QED BY <1>4, <1>7, <2>1
  <2> QED BY <1>7, <2>2
<1> HIDE DEF kinds
<1>10. Covers(types, kinds) BY <1>4, <1>6, <1>8, <1>9 DEF Covers
<1> QED BY <1>3, <1>10 DEF types, kinds, n

LEMMA NestedPointers == ASSUME Inductive PROVE SavedPointersNest
<1> SUFFICES ASSUME Sound
             PROVE  /\ Len(rsp_stack) = Top(calls).rsp + Len(code[pc].marks)
                    /\ code[pc].marks # <<>> =>
                          Top(rsp_stack) = Top(calls).base + Top(code[pc].marks)
    BY DEF SavedPointersNest
<1>1. Certified /\ Good BY RunningIsGood
<1>2. Top(calls) = calls[Depth] /\ Top(calls).base = Base(Depth)
  BY <1>1, StacksProperties DEF Good
<1>3. Len(rsp_stack) = calls[Depth].rsp + Len(code[pc].marks) BY <1>1, TopView
<1> QED BY <1>1, <1>2, <1>3, TopSaved

(* compile_ast: wherever a certified program is, the innermost routine has as *)
(* many cells as the compiler counted there, each of the kind it recorded.    *)
THEOREM StackIsTypedHolds == Spec => []StackIsTyped
<1>1. Inductive => StackIsTyped BY TypedStack
<1> QED BY <1>1, InductiveHolds, PTL

(* compile_argument_push_or_call: the slot a load is given is the argument's  *)
(* own cell, in a routine called or inlined, whatever lies above it.          *)
THEOREM ArgumentIsOwnHolds == Spec => []ArgumentIsOwn
<1>1. Inductive => ArgumentIsOwn BY RunningIsGood, ArgumentSlot DEF ArgumentIsOwn, Sound
<1> QED BY <1>1, InductiveHolds, PTL

(* rsp_stack: saved pointers are those of the open routines and inlined       *)
(* bodies, the innermost last.                                                *)
THEOREM SavedPointersNestHolds == Spec => []SavedPointersNest
<1>1. Inductive => SavedPointersNest BY NestedPointers
<1> QED BY <1>1, InductiveHolds, PTL

(* Certified code never pops an empty stack, loads past its end or returns to *)
(* what is not a return address: it faults on a division by zero and on a     *)
(* full stack only.                                                           *)
THEOREM FaultsAreLimitsHolds == Spec => []FaultsAreLimits
<1>1. Inductive => FaultsAreLimits BY DEF Inductive, Safe, FaultsAreLimits
<1> QED BY <1>1, InductiveHolds, PTL

-----------------------------------------------------------------------------
(* The emitted code implements Routines: whatever certified code does, each   *)
(* step is work of the innermost routine on its own stack, a call or a return *)
(* of the abstract specification, or changes no routine's stack.              *)

(* What routine k has, as Frames shows it.                                    *)
PartEnd(k) == IF k = Depth THEN Len(stack) ELSE Base(k + 1) - 1 - Taken(k)
Part(k) == SubSeq(stack, Base(k) + 1, PartEnd(k))

-----------------------------------------------------------------------------
(* Sequences.                                                                 *)

(* The same elements at the same places make the same part.                   *)
LEMMA SamePart ==
    ASSUME NEW s, IsSeq(s), NEW t, IsSeq(t), NEW m \in Nat \ {0}, NEW n \in Int,
           n <= Len(s), n <= Len(t), \A i \in m .. n : t[i] = s[i]
    PROVE  SubSeq(t, m, n) = SubSeq(s, m, n)
<1> DEFINE S == {s[i] : i \in DOMAIN s}
<1>1. Len(s) \in Nat /\ DOMAIN s = 1 .. Len(s) BY IsSeqProperties
<1>2. \A i \in m .. n : s[i] \in S /\ t[i] \in S BY <1>1
<1> HIDE DEF S
<1>3. /\ SubSeq(s, m, n) \in Seq(S) /\ Len(SubSeq(s, m, n)) = IF m <= n THEN n - m + 1 ELSE 0
      /\ \A i \in 1 .. n - m + 1 : SubSeq(s, m, n)[i] = s[m + i - 1]
  BY <1>2, SubSeqProperties
<1>4. /\ SubSeq(t, m, n) \in Seq(S) /\ Len(SubSeq(t, m, n)) = IF m <= n THEN n - m + 1 ELSE 0
      /\ \A i \in 1 .. n - m + 1 : SubSeq(t, m, n)[i] = t[m + i - 1]
  BY <1>2, SubSeqProperties
<1>5. Len(SubSeq(s, m, n)) = Len(SubSeq(t, m, n)) BY <1>3, <1>4
<1>6. ASSUME NEW i \in 1 .. Len(SubSeq(s, m, n)) PROVE SubSeq(s, m, n)[i] = SubSeq(t, m, n)[i]
  <2>1. m <= n /\ i \in 1 .. n - m + 1 BY <1>3
  <2>2. m + i - 1 \in m .. n BY <2>1
  <2> QED BY <1>3, <1>4, <2>1, <2>2
<1> QED BY <1>3, <1>4, <1>5, <1>6, SeqEqual

(* The first elements of a part are a prefix of it.                           *)
LEMMA PrefixOfPart ==
    ASSUME NEW s, IsSeq(s), NEW m \in Nat \ {0}, NEW n \in Int, NEW l \in Int,
           n <= l, l <= Len(s), m <= n + 1
    PROVE  Promise!IsPrefix(SubSeq(s, m, n), SubSeq(s, m, l))
<1> DEFINE S == {s[i] : i \in DOMAIN s}
           p == SubSeq(s, m, n)
           q == SubSeq(s, m, l)
<1>1. Len(s) \in Nat /\ DOMAIN s = 1 .. Len(s) BY IsSeqProperties
<1>2. \A i \in m .. l : s[i] \in S BY <1>1
<1>3. \A i \in m .. n : s[i] \in S BY <1>2
<1> HIDE DEF S
<1>4. /\ q \in Seq(S) /\ Len(q) = (IF m <= l THEN l - m + 1 ELSE 0)
      /\ \A i \in 1 .. l - m + 1 : q[i] = s[m + i - 1]
  BY <1>2, SubSeqProperties
<1>5. /\ p \in Seq(S) /\ Len(p) = (IF m <= n THEN n - m + 1 ELSE 0)
      /\ \A i \in 1 .. n - m + 1 : p[i] = s[m + i - 1]
  BY <1>3, SubSeqProperties
<1> HIDE DEF p, q
<1>6. Len(p) \in Nat /\ Len(q) \in Nat /\ Len(p) = n - m + 1 /\ Len(q) = l - m + 1 BY <1>4, <1>5
<1>7. Len(p) <= Len(q) BY <1>6
<1>8. \A i \in 1 .. Len(p) : q[i] \in S /\ q[i] = p[i]
  <2> TAKE i \in 1 .. Len(p)
  <2>1. i \in 1 .. n - m + 1 /\ i \in 1 .. l - m + 1 BY <1>6
  <2>2. q[i] = p[i] BY <1>4, <1>5, <2>1
  <2>3. p[i] \in S BY <1>5, ElementOfSeq
  <2> QED BY <2>2, <2>3
<1>9. /\ SubSeq(q, 1, Len(p)) \in Seq(S) /\ Len(SubSeq(q, 1, Len(p))) = Len(p)
      /\ \A i \in 1 .. Len(p) : SubSeq(q, 1, Len(p))[i] = q[i]
  <2>1. 1 \in Int /\ Len(p) \in Int BY <1>6
  <2>2. /\ SubSeq(q, 1, Len(p)) \in Seq(S)
        /\ Len(SubSeq(q, 1, Len(p))) = IF 1 <= Len(p) THEN Len(p) - 1 + 1 ELSE 0
        /\ \A i \in 1 .. Len(p) - 1 + 1 : SubSeq(q, 1, Len(p))[i] = q[1 + i - 1]
    BY <1>8, <2>1, SubSeqProperties
  <2> QED BY <1>6, <2>2
<1>10. p = SubSeq(q, 1, Len(p)) BY <1>5, <1>8, <1>9, SeqEqual
<1> QED BY <1>7, <1>10 DEF Promise!IsPrefix, p, q

(* All but the last.                                                          *)
LEMMA FrontOf ==
    ASSUME NEW s, IsSeq(s), Len(s) >= 1
    PROVE  /\ IsSeq(Promise!Front(s)) /\ Len(Promise!Front(s)) = Len(s) - 1
           /\ \A i \in 1 .. Len(s) - 1 : Promise!Front(s)[i] = s[i]
<1>1. s \in Seq({s[i] : i \in DOMAIN s}) BY DEF IsSeq
<1>2. /\ Drop(s, 1) \in Seq({s[i] : i \in DOMAIN s}) /\ Len(Drop(s, 1)) = Len(s) - 1
      /\ \A i \in 1 .. Len(s) - 1 : Drop(s, 1)[i] = s[i]
  BY <1>1, DropOne
<1>3. Promise!Front(s) = Drop(s, 1) BY DEF Promise!Front, Drop
<1> QED BY <1>2, <1>3, SeqIsSeq

(* A list given by its first n elements.                                      *)
LEMMA ListOf ==
    ASSUME NEW n \in Nat, NEW s, DOMAIN s = 1 .. n, s = [k \in 1 .. n |-> s[k]]
    PROVE  IsSeq(s) /\ Len(s) = n
<1>1. s \in [1 .. n -> {s[k] : k \in DOMAIN s}] OBVIOUS
<1>2. s \in Seq({s[k] : k \in DOMAIN s}) /\ Len(s) = n BY <1>1
<1> QED BY <1>2 DEF IsSeq

-----------------------------------------------------------------------------
(* What Frames is while certified code runs.                                  *)

LEMMA FramesAre ==
    ASSUME Certified, machine # "off", Stacks
    PROVE  /\ IsSeq(Frames) /\ Len(Frames) = Depth /\ Depth \in Nat \ {0}
           /\ \A k \in 1 .. Depth : Frames[k] = Part(k)
<1>1. Depth \in Nat \ {0} /\ DOMAIN calls = 1 .. Depth BY StacksProperties
<1>2. Frames = [k \in 1 .. Depth |->
                  IF k = Depth THEN SubSeq(stack, Base(k) + 1, Len(stack))
                  ELSE SubSeq(stack, Base(k) + 1, Base(k + 1) - 1 - Taken(k))]
  BY <1>1 DEF Frames, Depth
<1>3. \A k \in 1 .. Depth : Frames[k] = Part(k) BY <1>2 DEF Part, PartEnd
<1>4. DOMAIN Frames = 1 .. Depth /\ Frames = [k \in 1 .. Depth |-> Frames[k]] BY <1>2
<1>5. IsSeq(Frames) /\ Len(Frames) = Depth BY <1>1, <1>4, ListOf
<1> QED BY <1>1, <1>3, <1>5

(* The same of the next state.                                                *)
LEMMA FramesBecome ==
    ASSUME Certified', machine' # "off", Depth' \in Nat \ {0}, DOMAIN calls' = 1 .. Depth'
    PROVE  /\ IsSeq(Frames') /\ Len(Frames') = Depth'
           /\ \A k \in 1 .. Depth' : Frames'[k] = Part(k)'
<1>2. Frames' = [k \in 1 .. Depth' |->
                  IF k = Depth' THEN SubSeq(stack', Base(k)' + 1, Len(stack'))
                  ELSE SubSeq(stack', Base(k)' + 1, Base(k + 1)' - 1 - Taken(k)')]
  BY DEF Frames, Depth
<1>3. \A k \in 1 .. Depth' : Frames'[k] = Part(k)' BY <1>2 DEF Part, PartEnd
<1>4. DOMAIN Frames' = 1 .. Depth' /\ Frames' = [k \in 1 .. Depth' |-> Frames'[k]] BY <1>2
<1>5. IsSeq(Frames') /\ Len(Frames') = Depth' BY <1>4, ListOf
<1> QED BY <1>3, <1>5

(* An open call has taken as many cells as its instruction names arguments.   *)
LEMMA TakenOf ==
    ASSUME Certified, Good, NEW k \in 1 .. Depth, k # Depth
    PROVE  /\ Taken(k) \in Nat /\ Taken(k) = Len(code[Site(k)].ins.args)
           /\ k + 1 \in 1 .. Depth /\ Base(k) \in Nat /\ Base(k + 1) \in Nat
           /\ Base(k) < Base(k + 1) /\ Base(k) + Taken(k) <= Base(k + 1) - 1
           /\ Base(k + 1) <= Base(Depth)
<1>1. Stacks /\ Depth \in Nat \ {0} /\ DOMAIN stack = 1 .. Len(stack) /\ Len(stack) \in Nat
  BY StacksProperties DEF Good
<1>2. PICK d \in Nat : d = Depth BY <1>1
<1>3. k \in 1 .. d /\ k # d BY <1>2
<1>4. k + 1 \in 1 .. Depth /\ k + 1 \in 2 .. Depth /\ Depth \in 1 .. Depth /\ (k + 1) - 1 = k /\ k < k + 1
      /\ k + 1 <= Depth
  BY <1>2, <1>3
<1>5. Base(k) \in Nat /\ Base(k + 1) \in Nat /\ Base(Depth) \in Nat BY <1>1, <1>4, StacksProperties
<1>6. Base(k) < Base(k + 1) /\ Base(k + 1) <= Base(Depth) BY <1>1, <1>4, Nesting
<1>7. Called(k + 1) /\ Described(k) BY <1>4 DEF Good
<1>8. Site(k) = Caller(k) BY DEF Site
<1>9. Caller(k) \in DOMAIN code /\ code[Caller(k)].ins.op = "call"
  BY <1>4, <1>7, <1>8 DEF Called, Described
<1>10. Base(k + 1) \in DOMAIN stack
  <2>1. Len(stack) = Base(Depth) + Len(code[pc].types) /\ pc \in DOMAIN code BY TopView
  <2>2. Len(code[pc].types) \in Nat BY <2>1, ViewProperties
  <2> QED BY <1>1, <1>5, <1>6, <2>1, <2>2
<1>11. Taken(k) = Len(code[Site(k)].ins.args) BY <1>8, <1>9, <1>10 DEF Taken
<1>12. Pops(code[Site(k)].ins) = Taken(k) BY <1>8, <1>9, <1>11 DEF Pops
<1>13. Taken(k) \in 0 .. Len(TypesOf(k)) /\ Len(TypesOf(k)) \in Nat
  BY <1>8, <1>9, <1>12, PopsProperties, ViewProperties DEF TypesOf
<1>14. Base(k + 1) - 1 = Base(k) + Len(TypesOf(k))
  <2>1. EndOf(k) = Base(k + 1) - 1 BY DEF EndOf
  <2> QED BY <1>7, <2>1 DEF Described
<1> QED BY <1>4, <1>5, <1>6, <1>11, <1>13, <1>14

(* The stack is the same up to the base of routine d: the routines before it  *)
(* have what they had.                                                        *)
Kept(d) == /\ code' = code /\ d <= Depth'
           /\ \A k \in 1 .. d : calls'[k] = calls[k]
           /\ IsSeq(stack') /\ Len(stack') >= Base(d)
           /\ \A i \in 1 .. Base(d) : stack'[i] = stack[i]

LEMMA PartBelow ==
    ASSUME Certified, Good, Depth' \in Nat, NEW d \in 1 .. Depth, Kept(d),
           NEW k \in 1 .. Depth, k < d
    PROVE  Part(k)' = Part(k)
<1>1. /\ Stacks /\ Depth \in Nat /\ IsSeq(stack) /\ DOMAIN stack = 1 .. Len(stack)
      /\ Len(stack) \in Nat
  BY StacksProperties DEF Good, Stacks
<1>2. PICK D \in Nat : D = Depth BY <1>1
<1>3. /\ k \in 1 .. d /\ k + 1 \in 1 .. d /\ k + 1 \in 1 .. Depth /\ k # Depth /\ k # Depth'
      /\ k + 1 <= d
  BY <1>2 DEF Kept
<1>4. /\ Taken(k) \in Nat /\ Base(k) \in Nat /\ Base(k + 1) \in Nat
      /\ Base(k) + Taken(k) <= Base(k + 1) - 1
  BY <1>3, TakenOf
<1>5. Base(k)' = Base(k) /\ Base(k + 1)' = Base(k + 1) BY <1>3 DEF Kept, Base
<1>6. Base(k + 1) <= Base(d) /\ Base(d) \in Nat BY <1>1, <1>3, Nesting, StacksProperties
<1>7. Base(d) <= Len(stack)
  <2>1. Len(stack) = Base(Depth) + Len(code[pc].types) /\ pc \in DOMAIN code BY TopView
  <2>2. Len(code[pc].types) \in Nat BY <2>1, ViewProperties
  <2>3. Base(d) <= Base(Depth) /\ Base(Depth) \in Nat
    <3>1. Depth \in 1 .. Depth /\ d <= Depth BY <1>2
    <3> QED BY <1>1, <3>1, Nesting, StacksProperties
  <2> QED BY <1>6, <2>1, <2>2, <2>3
<1>8. Len(stack') \in Nat /\ DOMAIN stack' = 1 .. Len(stack') /\ Len(stack') >= Base(d)
  BY IsSeqProperties DEF Kept
<1>9. Base(k + 1) \in 1 .. Base(d) BY <1>4, <1>6
<1>10. Base(k + 1) \in DOMAIN stack /\ Base(k + 1) \in DOMAIN stack'
  BY <1>1, <1>6, <1>7, <1>8, <1>9
<1>11. Caller(k)' = Caller(k) BY <1>5, <1>9 DEF Caller, Kept
<1>12. Taken(k)' = Taken(k) BY <1>5, <1>10, <1>11 DEF Taken, Kept
<1> DEFINE m == Base(k) + 1
           n == Base(k + 1) - 1 - Taken(k)
<1>13. m \in Nat \ {0} /\ n \in Int /\ n <= Len(stack) /\ n <= Len(stack') /\ n <= Base(d)
  BY <1>1, <1>4, <1>6, <1>7, <1>8
<1>14. \A i \in m .. n : stack'[i] = stack[i]
  <2>1. \A i \in m .. n : i \in 1 .. Base(d) BY <1>4, <1>6, <1>13
  <2> QED BY <2>1 DEF Kept
<1>15. Part(k) = SubSeq(stack, m, n) BY <1>3 DEF Part, PartEnd
<1>16. Part(k)' = SubSeq(stack', m, n) BY <1>3, <1>5, <1>12 DEF Part, PartEnd
<1> HIDE DEF m, n
<1>17. IsSeq(stack') BY DEF Kept
<1> QED BY <1>1, <1>13, <1>14, <1>15, <1>16, <1>17, SamePart

(* A part of t cells from depth b, cut short by a of them.                    *)
LEMMA StaysWithin ==
    ASSUME NEW b \in Nat, NEW t \in Nat, NEW a \in Nat, a <= t, NEW l, l = b + t
    PROVE  /\ b + 1 \in Nat \ {0} /\ l - a \in Int /\ l - a <= l /\ l - a <= l + 1
           /\ b + 1 <= (l - a) + 1 /\ b <= l - a
OBVIOUS

-----------------------------------------------------------------------------
(* The three ways the stacks change.                                          *)

Keeps == /\ code' = code /\ calls' = calls
         /\ IsSeq(stack') /\ Len(stack') >= Base(Depth)
         /\ \A i \in 1 .. Base(Depth) : stack'[i] = stack[i]

LEMMA KeepsIsWork ==
    ASSUME Certified, Good, machine # "off", machine' # "off", Keeps
    PROVE  Promise!Work(Frames, Frames')
<1>1. /\ Stacks /\ Depth \in Nat \ {0} /\ Depth \in 1 .. Depth /\ DOMAIN calls = 1 .. Depth
  BY StacksProperties DEF Good
<1>2. Certified' BY CertifiedAgain DEF Keeps
<1>3. Depth' = Depth /\ DOMAIN calls' = 1 .. Depth' BY <1>1 DEF Keeps, Depth
<1>4. IsSeq(Frames) /\ Len(Frames) = Depth /\ \A k \in 1 .. Depth : Frames[k] = Part(k)
  BY <1>1, FramesAre
<1>5. IsSeq(Frames') /\ Len(Frames') = Depth /\ \A k \in 1 .. Depth : Frames'[k] = Part(k)'
  BY <1>1, <1>2, <1>3, FramesBecome
<1>6. Kept(Depth) BY <1>1, <1>3 DEF Kept, Keeps
<1>7. PICK d \in Nat \ {0} : d = Depth BY <1>1
<1>8. ASSUME NEW k \in 1 .. d - 1 PROVE Frames'[k] = Frames[k]
  <2>1. k \in 1 .. Depth /\ k < Depth BY <1>7
  <2>2. Part(k)' = Part(k) BY <1>1, <1>3, <1>6, <2>1, PartBelow
  <2> QED BY <1>4, <1>5, <2>1, <2>2
<1>9. Promise!Front(Frames') = Promise!Front(Frames)
  <2>1. /\ IsSeq(Promise!Front(Frames)) /\ Len(Promise!Front(Frames)) = d - 1
        /\ \A i \in 1 .. d - 1 : Promise!Front(Frames)[i] = Frames[i]
    BY <1>4, <1>7, FrontOf
  <2>2. /\ IsSeq(Promise!Front(Frames')) /\ Len(Promise!Front(Frames')) = d - 1
        /\ \A i \in 1 .. d - 1 : Promise!Front(Frames')[i] = Frames'[i]
    BY <1>5, <1>7, FrontOf
  <2> QED BY <1>8, <2>1, <2>2, SameSeq
<1> QED BY <1>4, <1>5, <1>9 DEF Promise!Work

(* A call leaves its caller all but the arguments.                            *)
LEMMA CallIsCall ==
    ASSUME Certified, Good, machine # "off", machine' # "off", Ins.op = "call", code' = code,
           stack' = Append(stack, Cell("return", pc + 1)),
           calls' = Append(calls, [base |-> Len(stack) + 1, rsp |-> Len(rsp_stack)])
    PROVE  Promise!Call(Frames, Frames')
<1>1. pc \in DOMAIN code /\ Stacks /\ pc \in Nat BY TopView, ViewProperties DEF Good
<1>2. /\ Len(stack) \in Nat /\ IsSeq(stack) /\ Len(rsp_stack) \in Nat
      /\ Depth \in Nat \ {0} /\ Base(Depth) \in Nat /\ calls \in Seq(Bases)
  BY <1>1, StacksProperties DEF Stacks, Bases
<1>3. /\ IsSeq(stack') /\ Len(stack') = Len(stack) + 1
      /\ stack'[Len(stack) + 1] = Cell("return", pc + 1)
      /\ \A i \in 1 .. Len(stack) : stack'[i] = stack[i]
  BY <1>2, AppendSeq
<1> DEFINE entry == [base |-> Len(stack) + 1, rsp |-> Len(rsp_stack)]
<1>4. entry \in Bases /\ entry.base = Len(stack) + 1 BY <1>2 DEF Bases
<1> HIDE DEF entry
<1>5. PICK d \in Nat \ {0} : d = Depth BY <1>2
<1>6. /\ calls' \in Seq(Bases) /\ Depth' = d + 1 /\ calls'[d + 1] = entry
      /\ \A k \in 1 .. d : calls'[k] = calls[k]
  BY <1>2, <1>4, <1>5, AppendIs DEF Depth, entry
<1>0. d \in Nat /\ d >= 1 /\ d \in 1 .. d /\ d \in 1 .. d + 1 /\ d + 1 \in 1 .. d + 1 /\ Depth = d /\ d <= d + 1
  BY <1>5
<1>7. Base(d + 1)' = Len(stack) + 1 /\ Base(d)' = Base(d)
  <2>1. calls'[d + 1].base = Len(stack) + 1 /\ calls'[d] = calls[d] BY <1>0, <1>4, <1>6
  <2> QED BY <2>1 DEF Base
<1>8. DOMAIN calls' = 1 .. Depth' BY <1>6, LenProperties DEF Depth
<1>9. Certified' BY CertifiedAgain
<1>10. IsSeq(Frames) /\ Len(Frames) = d /\ \A k \in 1 .. d : Frames[k] = Part(k)
  BY <1>1, <1>5, FramesAre
<1>11. IsSeq(Frames') /\ Len(Frames') = d + 1 /\ \A k \in 1 .. d + 1 : Frames'[k] = Part(k)'
  <2>1. Depth' \in Nat \ {0} BY <1>6
  <2> QED BY <1>6, <1>8, <1>9, <2>1, FramesBecome
<1>12. Len(stack) = Base(d) + Len(code[pc].types) /\ Len(code[pc].types) \in Nat /\ Base(d) \in Nat
  BY <1>1, <1>2, <1>5, TopView, ViewProperties
<1>13. Kept(d)
  <2>1. Base(d) <= Len(stack) BY <1>12
  <2>0. Base(d) \in Nat /\ Len(stack) \in Nat /\ Len(stack') = Len(stack) + 1 BY <1>2, <1>3, <1>12
  <2>2. Len(stack') >= Base(d) BY <2>0, <2>1
  <2>3. \A i \in 1 .. Base(d) : i \in 1 .. Len(stack) BY <2>0, <2>1
  <2>4. \A i \in 1 .. Base(d) : stack'[i] = stack[i] BY <1>3, <2>3
  <2>5. d <= Depth' BY <1>0, <1>6
  <2> QED BY <1>3, <1>6, <2>2, <2>4, <2>5 DEF Kept
<1>14. ASSUME NEW k \in 1 .. d - 1 PROVE Frames'[k] = Frames[k]
  <2>1. k \in 1 .. Depth /\ k < d /\ d \in 1 .. Depth /\ k \in 1 .. d /\ k \in 1 .. d + 1 BY <1>5
  <2>2. Depth' \in Nat BY <1>6
  <2>3. Part(k)' = Part(k) BY <1>13, <2>1, <2>2, PartBelow
  <2> QED BY <1>10, <1>11, <2>1, <2>3
<1>15. Promise!Front(Promise!Front(Frames')) = Promise!Front(Frames)
  <2>1. /\ IsSeq(Promise!Front(Frames)) /\ Len(Promise!Front(Frames)) = d - 1
        /\ \A i \in 1 .. d - 1 : Promise!Front(Frames)[i] = Frames[i]
    BY <1>0, <1>10, FrontOf
  <2> DEFINE f == Promise!Front(Frames')
  <2>2. IsSeq(f) /\ Len(f) = d /\ \A i \in 1 .. d : f[i] = Frames'[i]
    <3>1. Len(Frames') >= 1 /\ Len(Frames') - 1 = d BY <1>0, <1>11
    <3> QED BY <1>11, <3>1, FrontOf
  <2> HIDE DEF f
  <2>3. /\ IsSeq(Promise!Front(f)) /\ Len(Promise!Front(f)) = d - 1
        /\ \A i \in 1 .. d - 1 : Promise!Front(f)[i] = f[i]
    BY <1>0, <2>2, FrontOf
  <2>4. \A i \in 1 .. d - 1 : Promise!Front(f)[i] = Promise!Front(Frames)[i]
    BY <1>14, <2>1, <2>2, <2>3
  <2>5. Promise!Front(f) = Promise!Front(Frames) BY <2>1, <2>3, <2>4, SameSeq
  <2> QED BY <2>5 DEF f
<1>16. Taken(d)' = Len(Ins.args) /\ Len(Ins.args) \in 0 .. Len(code[pc].types)
  <2>1. Base(d + 1)' \in DOMAIN stack' BY <1>2, <1>3, <1>7, IsSeqProperties
  <2>2. Caller(d)' = pc
    <3>1. Caller(d)' = stack'[Len(stack) + 1].value - 1 BY <1>7 DEF Caller
    <3>2. Cell("return", pc + 1).value = pc + 1 BY DEF Cell
    <3>3. Caller(d)' = (pc + 1) - 1 BY <1>3, <3>1, <3>2
    <3> QED BY <1>1, <3>3
  <2>3. Taken(d)' = Len(Ins.args) BY <1>1, <2>1, <2>2 DEF Taken, Ins
  <2>4. Pops(Ins) = Len(Ins.args) BY DEF Pops
  <2>5. Pops(Ins) \in 0 .. Len(code[pc].types) BY <1>1, PopsProperties DEF Ins
  <2> QED BY <2>3, <2>4, <2>5
<1> DEFINE m == Base(d) + 1
           n == Len(stack) - Len(Ins.args)
<1>17. Promise!IsPrefix(Frames'[d], Promise!Top(Frames))
  <2>1. Promise!Top(Frames) = Part(d) BY <1>10 DEF Promise!Top
  <2>2. Part(d) = SubSeq(stack, m, Len(stack)) BY <1>5 DEF Part, PartEnd
  <2>3. Frames'[d] = SubSeq(stack', m, n)
    <3>1. d \in 1 .. d + 1 /\ d # Depth' BY <1>6
    <3>2. PartEnd(d)' = (Len(stack) + 1) - 1 - Len(Ins.args) BY <1>7, <1>16, <3>1 DEF PartEnd
    <3>3. PartEnd(d)' = n BY <1>2, <1>12, <1>16, <3>2
    <3> HIDE DEF n
    <3> QED BY <1>7, <1>11, <3>1, <3>3 DEF Part
  <2>4. m \in Nat \ {0} /\ n \in Int /\ n <= Len(stack) /\ n <= Len(stack') /\ m <= n + 1
    <3>1. Len(Ins.args) \in Nat /\ Len(Ins.args) <= Len(code[pc].types) BY <1>12, <1>16
    <3>2. /\ Base(d) \in Nat /\ Len(stack) \in Nat /\ Len(stack') = Len(stack) + 1
          /\ Len(code[pc].types) \in Nat /\ Len(stack) = Base(d) + Len(code[pc].types)
      BY <1>2, <1>3, <1>12
    <3> DEFINE a == Len(Ins.args)
               t == Len(code[pc].types)
    <3>3. a \in Nat /\ a <= t /\ t \in Nat /\ Base(d) \in Nat /\ Len(stack) = Base(d) + t BY <3>1, <3>2
    <3>4. m = Base(d) + 1 /\ n = Len(stack) - a OBVIOUS
    <3> HIDE DEF a, t, m, n
    <3>5. /\ Base(d) + 1 \in Nat \ {0} /\ Len(stack) - a \in Int /\ Len(stack) - a <= Len(stack)
          /\ Len(stack) - a <= Len(stack) + 1 /\ Base(d) + 1 <= (Len(stack) - a) + 1
      BY <3>3, StaysWithin
    <3> QED BY <3>2, <3>4, <3>5
  <2>5. \A i \in m .. n : i \in 1 .. Len(stack)
    <3>1. m >= 1 /\ n <= Len(stack) /\ m \in Int BY <2>4
    <3> HIDE DEF m, n
    <3> QED BY <1>2, <2>4, <3>1
  <2> HIDE DEF m, n
  <2>6. \A i \in m .. n : stack'[i] = stack[i] BY <1>3, <2>5
  <2>7. SubSeq(stack', m, n) = SubSeq(stack, m, n) BY <1>2, <1>3, <2>4, <2>6, SamePart
  <2>8. Promise!IsPrefix(SubSeq(stack, m, n), SubSeq(stack, m, Len(stack)))
    <3>1. Len(stack) \in Int /\ Len(stack) <= Len(stack) BY <1>2
    <3> QED BY <1>2, <2>4, <3>1, PrefixOfPart
  <2> QED BY <2>1, <2>2, <2>3, <2>7, <2>8
<1>18. Promise!Top(Frames') = <<>>
  <2> DEFINE a == Len(stack) + 2
             b == Len(stack) + 1
             part == SubSeq(stack', a, b)
  <2>1. Promise!Top(Frames') = Part(d + 1)' BY <1>11 DEF Promise!Top
  <2>2. PartEnd(d + 1)' = b BY <1>3, <1>6 DEF PartEnd
  <2>3. Base(d + 1)' + 1 = a BY <1>2, <1>7
  <2> HIDE DEF a
  <2>4. Part(d + 1)' = part BY <2>2, <2>3 DEF Part
  <2>5. a \in Int /\ b \in Int /\ ~(a <= b) BY <1>2 DEF a
  <2> HIDE DEF b
  <2>6. \A i \in a .. b : stack'[i] \in {} BY <2>5
  <2>7. part \in Seq({}) /\ Len(part) = 0 BY <2>5, <2>6, SubSeqProperties
  <2> HIDE DEF part
  <2>8. part = <<>> BY <2>7, EmptySeq
  <2> QED BY <2>1, <2>4, <2>8
<1> QED BY <1>10, <1>11, <1>15, <1>17, <1>18 DEF Promise!Call

(* What a return keeps of the stack: b is the base of the callee, which stands *)
(* above the t cells of a caller with base a, and n cells of it are taken.    *)
LEMMA KeptIs ==
    ASSUME NEW a \in Nat, NEW t \in Nat, NEW n \in Nat, NEW b, n <= t, b = a + t + 1
    PROVE  /\ b - (n + 1) = a + (t - n)
           /\ t - n \in Nat /\ a + (t - n) \in Nat /\ a + (t - n) <= b
OBVIOUS

(* A return leaves the caller what the call left it, and the results on top.  *)
LEMMA RetIsReturn ==
    ASSUME Certified, Good, machine # "off", machine' # "off", Ins.op = "ret", code' = code,
           stack' = Unwound(Ins.nargs + 1) \o Results, calls' = Drop(calls, 1)
    PROVE  Promise!Return(Frames, Frames')
<1> DEFINE c == Site(Depth - 1)
           t == Len(code[c].types)
           left == t - Ins.nargs
           kept == Base(Depth) - (Ins.nargs + 1)
<1>1. /\ Depth >= 2 /\ Top(rsp_stack) = Base(Depth)
      /\ c \in DOMAIN code /\ code[c].ins.op = "call"
      /\ Len(code[c].ins.args) = Ins.nargs /\ Ins.nargs \in Nat /\ Ins.nargs <= t
      /\ Base(Depth) = Base(Depth - 1) + t + 1
  BY ReturnSite
<1>2. PICK p \in Nat : p = Depth - 1 BY <1>1, StacksProperties DEF Good
<1>3. /\ Stacks /\ IsSeq(stack) /\ Len(stack) \in Nat /\ calls \in Seq(Bases)
      /\ pc \in DOMAIN code
  BY TopView, StacksProperties DEF Good, Stacks, Bases
<1>4. /\ p >= 1 /\ Depth = p + 1 /\ p \in 1 .. Depth /\ p + 1 \in 1 .. Depth
      /\ Base(p) \in Nat /\ Base(p + 1) \in Nat
  BY <1>1, <1>2, <1>3, StacksProperties
<1>5. c = Site(p) /\ Base(p + 1) = Base(p) + t + 1 BY <1>1, <1>2, <1>4
<1>6. t \in Nat BY <1>1, ViewProperties
<1>7. IsSeq(Results) /\ Len(Results) \in Nat BY ResultsProperties, IsSeqProperties
<1>8. stack' = Onto(stack, kept, Results) BY <1>1 DEF Unwound, Onto
<1>9. kept \in Nat /\ kept = Base(p) + left /\ left \in Nat /\ kept <= Base(p + 1)
  <2> DEFINE a == Base(p)
             b == Base(p + 1)
             n == Ins.nargs
  <2>1. kept = b - (n + 1) /\ left = t - n BY <1>4
  <2>2. n \in Nat /\ n <= t /\ a \in Nat /\ b = a + t + 1 BY <1>1, <1>4, <1>5
  <2> HIDE DEF kept, left, t, a, b, n
  <2>3. b - (n + 1) = a + (t - n) /\ t - n \in Nat /\ a + (t - n) \in Nat /\ a + (t - n) <= b
    BY <1>6, <2>2, KeptIs
  <2>4. kept \in Nat /\ kept = a + left /\ left \in Nat /\ kept <= b
    BY <2>1, <2>3, Zenon
  <2> QED BY <2>4 DEF a, b
<1>10. kept <= Len(stack)
  <2>1. Len(stack) = Base(Depth) + Len(code[pc].types) /\ Len(code[pc].types) \in Nat
    BY <1>3, TopView, ViewProperties
  <2>2. Base(p + 1) <= Len(stack) BY <1>4, <2>1
  <2> HIDE DEF kept
  <2> QED BY <1>3, <1>4, <1>9, <2>2
<1>11. Taken(p) = Ins.nargs
  <2>1. p \in 1 .. Depth /\ p # Depth BY <1>4
  <2> QED BY <1>1, <1>5, <2>1, TakenOf
<1> HIDE DEF kept, left
<1>12. /\ IsSeq(stack') /\ Len(stack') = kept + Len(Results)
       /\ \A i \in 1 .. kept : stack'[i] = stack[i]
  <2>0. IsSeq(stack) /\ IsSeq(Results) /\ kept \in Nat /\ kept <= Len(stack) BY <1>3, <1>7, <1>9, <1>10
  <2>1. /\ IsSeq(Onto(stack, kept, Results))
        /\ Len(Onto(stack, kept, Results)) = kept + Len(Results)
        /\ \A i \in 1 .. kept : Onto(stack, kept, Results)[i] = stack[i]
    BY <2>0, OntoProperties
  <2> QED BY <1>8, <2>1, Zenon
<1>13. /\ calls' \in Seq(Bases) /\ Depth' = p /\ \A k \in 1 .. p : calls'[k] = calls[k]
  <2>1. Len(calls) >= 1 /\ Len(calls) - 1 = p BY <1>4 DEF Depth
  <2>2. /\ Drop(calls, 1) \in Seq(Bases) /\ Len(Drop(calls, 1)) = Len(calls) - 1
        /\ \A i \in 1 .. Len(calls) - 1 : Drop(calls, 1)[i] = calls[i]
    BY <1>3, <2>1, DropOne
  <2> QED BY <2>1, <2>2 DEF Depth
<1>14. DOMAIN calls' = 1 .. Depth' BY <1>13, LenProperties DEF Depth
<1>15. Certified' BY CertifiedAgain
<1>16. IsSeq(Frames) /\ Len(Frames) = p + 1 /\ \A k \in 1 .. p + 1 : Frames[k] = Part(k)
  BY <1>3, <1>4, FramesAre
<1>17. IsSeq(Frames') /\ Len(Frames') = p /\ \A k \in 1 .. p : Frames'[k] = Part(k)'
  <2>1. Depth' \in Nat \ {0} BY <1>4, <1>13
  <2> QED BY <1>13, <1>14, <1>15, <2>1, FramesBecome
<1>18. Kept(p)
  <2>1. Base(p) <= kept BY <1>4, <1>9
  <2>2. Len(stack') >= Base(p) BY <1>4, <1>7, <1>9, <1>12, <2>1
  <2>3. \A i \in 1 .. Base(p) : i \in 1 .. kept BY <1>4, <1>9, <2>1
  <2>4. \A i \in 1 .. Base(p) : stack'[i] = stack[i] BY <1>12, <2>3
  <2>5. p <= Depth' BY <1>4, <1>13
  <2> QED BY <1>12, <1>13, <2>2, <2>4, <2>5 DEF Kept
<1>19. ASSUME NEW k \in 1 .. p - 1 PROVE Frames'[k] = Frames[k]
  <2>1. k \in 1 .. Depth /\ k < p /\ k \in 1 .. p /\ k \in 1 .. p + 1 BY <1>4
  <2>2. Depth' \in Nat BY <1>13
  <2>3. Part(k)' = Part(k) BY <1>4, <1>18, <2>1, <2>2, PartBelow
  <2> QED BY <1>16, <1>17, <2>1, <2>3
<1>20. Promise!Front(Frames') = Promise!Front(Promise!Front(Frames))
  <2>1. /\ IsSeq(Promise!Front(Frames')) /\ Len(Promise!Front(Frames')) = p - 1
        /\ \A i \in 1 .. p - 1 : Promise!Front(Frames')[i] = Frames'[i]
    BY <1>4, <1>17, FrontOf
  <2> DEFINE f == Promise!Front(Frames)
  <2>2. IsSeq(f) /\ Len(f) = p /\ \A i \in 1 .. p : f[i] = Frames[i]
    <3>1. Len(Frames) >= 1 /\ Len(Frames) - 1 = p BY <1>4, <1>16
    <3> QED BY <1>16, <3>1, FrontOf
  <2> HIDE DEF f
  <2>3. /\ IsSeq(Promise!Front(f)) /\ Len(Promise!Front(f)) = p - 1
        /\ \A i \in 1 .. p - 1 : Promise!Front(f)[i] = f[i]
    BY <1>4, <2>2, FrontOf
  <2>4. \A i \in 1 .. p - 1 : Promise!Front(f)[i] = Promise!Front(Frames')[i]
    BY <1>19, <2>1, <2>2, <2>3
  <2>5. Promise!Front(f) = Promise!Front(Frames') BY <2>1, <2>3, <2>4, SameSeq
  <2> QED BY <2>5 DEF f
<1> DEFINE m == Base(p) + 1
<1>21. Promise!IsPrefix(Frames[p], Promise!Top(Frames'))
  <2>0. p \in 1 .. p /\ p \in 1 .. p + 1 BY <1>4
  <2>1. Promise!Top(Frames') = SubSeq(stack', m, Len(stack'))
    <3>1. Promise!Top(Frames') = Part(p)' BY <1>17, <2>0 DEF Promise!Top
    <3>2. PartEnd(p)' = Len(stack') BY <1>13 DEF PartEnd
    <3>3. Base(p)' = Base(p) BY <1>13, <2>0 DEF Base
    <3> QED BY <3>1, <3>2, <3>3 DEF Part
  <2>2. Frames[p] = SubSeq(stack, m, kept)
    <3>1. p # Depth BY <1>4
    <3>2. PartEnd(p) = Base(p + 1) - 1 - Ins.nargs BY <1>11, <3>1 DEF PartEnd
    <3>3. Base(p + 1) - 1 - Ins.nargs = kept
      <4>1. Base(p + 1) \in Nat /\ Ins.nargs \in Nat BY <1>1, <1>4
      <4>2. kept = Base(p + 1) - (Ins.nargs + 1) BY <1>4 DEF kept
      <4> QED BY <4>1, <4>2
    <3> QED BY <1>16, <2>0, <3>2, <3>3 DEF Part
  <2>3. /\ m \in Nat \ {0} /\ kept \in Int /\ kept <= Len(stack) /\ kept <= Len(stack')
        /\ m <= kept + 1 /\ m >= 1 /\ Len(stack') \in Int
    BY <1>4, <1>7, <1>9, <1>10, <1>12
  <2> HIDE DEF m
  <2>4. \A i \in m .. kept : i \in 1 .. kept BY <2>3
  <2>5. \A i \in m .. kept : stack'[i] = stack[i] BY <1>12, <2>4
  <2>6. SubSeq(stack', m, kept) = SubSeq(stack, m, kept) BY <1>3, <1>12, <2>3, <2>5, SamePart
  <2>7. Promise!IsPrefix(SubSeq(stack', m, kept), SubSeq(stack', m, Len(stack')))
    <3>1. Len(stack') <= Len(stack') BY <2>3
    <3> QED BY <1>12, <2>3, <3>1, PrefixOfPart
  <2> QED BY <2>1, <2>2, <2>6, <2>7
<1>22. Len(Frames) > 1 /\ Len(Frames') = Len(Frames) - 1 /\ Len(Frames) - 1 = p
  BY <1>4, <1>16, <1>17
<1> QED BY <1>20, <1>21, <1>22 DEF Promise!Return

-----------------------------------------------------------------------------
(* Which way each instruction changes them.                                   *)

LEMMA SameKeeps ==
    ASSUME Certified, Good, code' = code, calls' = calls, stack' = stack PROVE Keeps
<1>1. Stacks /\ pc \in DOMAIN code /\ Len(stack) = Base(Depth) + Len(code[pc].types)
  BY TopView DEF Good
<1>2. IsSeq(stack) /\ Base(Depth) \in Nat /\ Len(code[pc].types) \in Nat
  BY <1>1, StacksProperties, ViewProperties DEF Stacks
<1>3. Len(stack) >= Base(Depth) BY <1>1, <1>2
<1> QED BY <1>2, <1>3 DEF Keeps

LEMMA OntoKeeps ==
    ASSUME Certified, Good, code' = code, calls' = calls,
           NEW cells, IsSeq(cells), NEW n \in Nat, Base(Depth) <= n, n <= Len(stack),
           stack' = Onto(stack, n, cells)
    PROVE  Keeps
<1>1. IsSeq(stack) /\ Base(Depth) \in Nat BY StacksProperties DEF Good, Stacks
<1>2. Len(cells) \in Nat BY IsSeqProperties
<1>3. /\ IsSeq(stack') /\ Len(stack') = n + Len(cells)
      /\ \A i \in 1 .. n : stack'[i] = stack[i]
  <2>1. /\ IsSeq(Onto(stack, n, cells)) /\ Len(Onto(stack, n, cells)) = n + Len(cells)
        /\ \A i \in 1 .. n : Onto(stack, n, cells)[i] = stack[i]
    BY <1>1, OntoProperties
  <2> QED BY <2>1, Zenon
<1>4. Len(stack') >= Base(Depth) BY <1>1, <1>2, <1>3
<1>5. \A i \in 1 .. Base(Depth) : i \in 1 .. n BY <1>1
<1> QED BY <1>3, <1>4, <1>5 DEF Keeps

(* What an instruction pops is its own routine's.                             *)
LEMMA OwnCells ==
    ASSUME Certified, Good
    PROVE  /\ Pops(Ins) \in Nat /\ Len(stack) - Pops(Ins) \in Nat
           /\ Base(Depth) <= Len(stack) - Pops(Ins) /\ Len(stack) - Pops(Ins) <= Len(stack)
<1>1. Stacks /\ pc \in DOMAIN code /\ Len(stack) = Base(Depth) + Len(code[pc].types)
  BY TopView DEF Good
<1>2. Base(Depth) \in Nat /\ Len(code[pc].types) \in Nat
  BY <1>1, StacksProperties, ViewProperties
<1>3. Pops(Ins) \in 0 .. Len(code[pc].types) BY <1>1, PopsProperties DEF Ins
<1>4. Pops(Ins) \in Nat /\ Pops(Ins) <= Len(code[pc].types) BY <1>2, <1>3
<1>5. /\ Len(stack) - Pops(Ins) \in Int /\ Len(stack) - Pops(Ins) <= Len(stack)
      /\ Base(Depth) <= Len(stack) - Pops(Ins)
  BY <1>1, <1>2, <1>4, StaysWithin
<1>6. Len(stack) - Pops(Ins) \in Nat BY <1>2, <1>5
<1> QED BY <1>4, <1>5, <1>6

LEMMA SequelKeeps ==
    ASSUME Certified, Good, code' = code, NEW cells, IsSeq(cells), Sequel(Pops(Ins), cells)
    PROVE  Keeps
<1>1. CASE Fault BY <1>1, SameKeeps DEF Fault
<1>2. CASE Goto(pc + 1, Drop(stack, Pops(Ins)) \o cells)
  <2>1. calls' = calls /\ stack' = Onto(stack, Len(stack) - Pops(Ins), cells)
    BY <1>2 DEF Goto, Onto, Drop
  <2> QED BY <2>1, OwnCells, OntoKeeps
<1> QED BY <1>1, <1>2 DEF Sequel

LEMMA GotoKeeps ==
    ASSUME Certified, Good, code' = code, NEW target, Goto(target, Drop(stack, Pops(Ins)))
    PROVE  Keeps
<1>1. IsSeq(stack) BY DEF Good, Stacks
<1>2. stack \in Seq({stack[i] : i \in DOMAIN stack}) BY <1>1 DEF IsSeq
<1> DEFINE n == Len(stack) - Pops(Ins)
<1>3. n \in Nat /\ n <= Len(stack) BY OwnCells
<1>4. SubSeq(stack, 1, n) \in Seq({stack[i] : i \in DOMAIN stack})
  <2> HIDE DEF n
  <2>1. \A i \in 1 .. n : stack[i] \in {stack[k] : k \in DOMAIN stack}
    BY <1>1, <1>3, IsSeqProperties
  <2> QED BY <1>3, <2>1, SubSeqProperties
<1>5. SubSeq(stack, 1, n) \o <<>> = SubSeq(stack, 1, n)
  <2> HIDE DEF n
  <2> QED BY <1>4, ConcatEmptySeq
<1>6. calls' = calls /\ stack' = Onto(stack, n, <<>>) BY <1>5 DEF Goto, Onto, Drop
<1>7. IsSeq(<<>>) BY SmallSeqs
<1> QED BY <1>6, <1>7, OwnCells, OntoKeeps

LEMMA PushesKeep ==
    ASSUME Certified, Good, code' = code,
           Push \/ LoadVariable \/ LoadArg \/ Binary \/ Index \/ Not \/ Dup \/ Dot
    PROVE  Keeps
<1>1. \A x, y : IsSeq(<<x>>) /\ IsSeq(<<x, y>>) BY SmallSeqs
<1>2. ASSUME Fault PROVE Keeps BY <1>2, SameKeeps DEF Fault
<1>3. ASSUME NEW x, Sequel(Pops(Ins), <<x>>) PROVE Keeps BY <1>1, <1>3, SequelKeeps
<1>4. CASE Push \/ LoadVariable
  <2>1. Pops(Ins) = 0 BY <1>4 DEF Push, LoadVariable, Running, Pops
  <2> QED BY <1>3, <1>4, <2>1 DEF Push, LoadVariable
<1>5. CASE LoadArg
  <2>1. Pops(Ins) = 0 BY <1>5 DEF LoadArg, Running, Pops
  <2> QED BY <1>2, <1>3, <1>5, <2>1 DEF LoadArg
<1>6. CASE Binary
  <2>1. Pops(Ins) = 2 BY <1>6 DEF Binary, Running, Pops
  <2> QED BY <1>2, <1>3, <1>6, <2>1 DEF Binary
<1>7. CASE Index
  <2>1. Pops(Ins) = 2 BY <1>7 DEF Index, Running, Pops
  <2> QED BY <1>2, <1>3, <1>7, <2>1 DEF Index
<1>8. CASE Not
  <2>1. Pops(Ins) = 1 BY <1>8 DEF Not, Running, Pops
  <2> QED BY <1>3, <1>8, <2>1 DEF Not
<1>9. CASE Dot
  <2>1. Pops(Ins) = 1 BY <1>9 DEF Dot, Running, Pops
  <2> QED BY <1>2, <1>3, <1>9, <2>1 DEF Dot
<1>10. CASE Dup
  <2>1. Pops(Ins) = 1 BY <1>10 DEF Dup, Running, Pops
  <2>2. Sequel(Pops(Ins), <<Top(stack), Top(stack)>>) BY <1>10, <2>1 DEF Dup
  <2> QED BY <1>1, <2>2, SequelKeeps
<1> QED BY <1>4, <1>5, <1>6, <1>7, <1>8, <1>9, <1>10

LEMMA PopsKeep ==
    ASSUME Certified, Good, code' = code,
           PopOne \/ Syscall \/ Skip \/ Ffi \/ Store \/ Jz \/ Jmp
    PROVE  Keeps
<1>1. IsSeq(<<>>) BY SmallSeqs
<1>2. ASSUME Fault PROVE Keeps BY <1>2, SameKeeps DEF Fault
<1>3. ASSUME Sequel(Pops(Ins), <<>>) PROVE Keeps BY <1>1, <1>3, SequelKeeps
<1>4. CASE PopOne
  <2>1. Pops(Ins) = 1 BY <1>4 DEF PopOne, Running, Pops
  <2> QED BY <1>3, <1>4, <2>1 DEF PopOne
<1>5. CASE Syscall
  <2>1. Pops(Ins) = Ins.pops BY <1>5 DEF Syscall, Running, Pops
  <2> QED BY <1>3, <1>5, <2>1 DEF Syscall
<1>6. CASE Skip
  <2>1. Pops(Ins) = 0 BY <1>6 DEF Skip, Running, Pops
  <2> QED BY <1>3, <1>6, <2>1 DEF Skip
<1>7. CASE Ffi
  <2>1. Pops(Ins) = Len(Ins.args) /\ pc \in DOMAIN code BY <1>7 DEF Ffi, Running, Pops
  <2>2. PICK rax \in Word : Sequel(Pops(Ins), [i \in DOMAIN Ins.rets |-> Cell(Ins.rets[i], rax)])
    BY <1>7, <2>1 DEF Ffi
  <2>3. WellFormed(pc) /\ Ins.op = "ffi" BY <1>7, <2>1, ViewProperties DEF Ffi, Running
  <2>4. Len(Ins.rets) \in Nat /\ DOMAIN Ins.rets = 1 .. Len(Ins.rets)
    BY <2>3, LenProperties DEF WellFormed, Ins
  <2> DEFINE cells == [i \in DOMAIN Ins.rets |-> Cell(Ins.rets[i], rax)]
  <2>5. DOMAIN cells = 1 .. Len(Ins.rets) /\ cells = [k \in 1 .. Len(Ins.rets) |-> cells[k]]
    BY <2>4
  <2>6. Sequel(Pops(Ins), cells) BY <2>2
  <2> HIDE DEF cells
  <2>7. IsSeq(cells) BY <2>4, <2>5, ListOf
  <2> QED BY <2>6, <2>7, SequelKeeps
<1>8. CASE Store
  <2>1. Pops(Ins) = 1 BY <1>8 DEF Store, Running, Pops
  <2>2. Fault \/ Goto(pc + 1, Drop(stack, Pops(Ins))) BY <1>8, <2>1 DEF Store
  <2> QED BY <1>2, <2>2, GotoKeeps
<1>9. CASE Jz
  <2>1. Pops(Ins) = 1 BY <1>9 DEF Jz, Running, Pops
  <2>2. Fault \/ \E target : Goto(target, Drop(stack, Pops(Ins))) BY <1>9, <2>1 DEF Jz
  <2> QED BY <1>2, <2>2, GotoKeeps
<1>10. CASE Jmp
  <2>1. calls' = calls /\ stack' = stack BY <1>10 DEF Jmp, Goto
  <2> QED BY <2>1, SameKeeps
<1> QED BY <1>4, <1>5, <1>6, <1>7, <1>8, <1>9, <1>10

(* The end of an inlined body goes no deeper than its caller's arguments.     *)
LEMMA LeaveKeeps ==
    ASSUME Certified, Good, code' = code, LeaveInline PROVE Keeps
<1>1. Ins.op = "leave" /\ pc \in DOMAIN code BY DEF LeaveInline, Running
<1>2. HasWhatItNeeds(pc) /\ Len(code[pc].types) \in Nat BY <1>1, ViewProperties
<1>3. Ins.nargs \in Nat BY <1>1, ViewProperties DEF WellFormed, Ins
<1>4. /\ Top(code[pc].marks) \in Ins.nargs .. Len(code[pc].types)
      /\ code[pc].marks # <<>>
  <2>1. Len(code[pc].marks) > 1 BY <1>1, <1>2 DEF HasWhatItNeeds, Ins
  <2>2. Len(<<>>) = 0 BY SmallSeqs
  <2>3. code[pc].marks # <<>> BY <2>1, <2>2
  <2> QED BY <1>1, <1>2, <2>3 DEF HasWhatItNeeds, Ins
<1>5. Top(rsp_stack) = Base(Depth) + Top(code[pc].marks) BY <1>4, TopSaved
<1>6. Len(stack) = Base(Depth) + Len(code[pc].types) /\ Base(Depth) \in Nat
  BY TopView, StacksProperties DEF Good
<1> DEFINE mark == Top(code[pc].marks)
           n == Top(rsp_stack) - Ins.nargs
<1>7. mark \in Int /\ Ins.nargs <= mark /\ mark <= Len(code[pc].types) BY <1>2, <1>3, <1>4
<1>8. n = (Base(Depth) + mark) - Ins.nargs BY <1>5
<1> HIDE DEF mark, n
<1>9. n \in Nat /\ Base(Depth) <= n /\ n <= Len(stack) BY <1>2, <1>3, <1>6, <1>7, <1>8
<1>10. CASE Fault BY <1>10, SameKeeps DEF Fault
<1>11. CASE stack' = Unwound(Ins.nargs) \o Results /\ calls' = calls
  <2>1. stack' = Onto(stack, n, Results) BY <1>11 DEF Unwound, Onto, n
  <2>2. IsSeq(Results) BY <1>1, ResultsProperties
  <2> QED BY <1>9, <1>11, <2>1, <2>2, OntoKeeps
<1> QED BY <1>10, <1>11 DEF LeaveInline

(* Every instruction of certified code.                                       *)
LEMMA ExecuteKinds ==
    ASSUME Certified, Good, machine # "off", machine' # "off", code' = code, Execute
    PROVE  Promise!Step(Frames, Frames')
<1>1. ASSUME Keeps PROVE Promise!Step(Frames, Frames')
  BY <1>1, KeepsIsWork DEF Promise!Step
<1>2. ASSUME calls' = calls, stack' = stack PROVE Keeps BY <1>2, SameKeeps
<1>3. CASE Call
  <2>1. CASE Fault BY <1>1, <1>2, <2>1 DEF Fault
  <2>2. CASE ~Fault
    <3>1. Ins.op = "call" BY <1>3 DEF Call, Running
    <3>2. /\ stack' = Append(stack, Cell("return", pc + 1))
          /\ calls' = Append(calls, [base |-> Len(stack) + 1, rsp |-> Len(rsp_stack)])
      BY <1>3, <2>2 DEF Call
    <3> QED BY <3>1, <3>2, CallIsCall DEF Promise!Step
  <2> QED BY <2>1, <2>2
<1>4. CASE Ret
  <2>1. CASE Fault BY <1>1, <1>2, <2>1 DEF Fault
  <2>2. CASE ~Fault
    <3>1. Ins.op = "ret" BY <1>4 DEF Ret, Running
    <3>2. stack' = Unwound(Ins.nargs + 1) \o Results /\ calls' = Drop(calls, 1)
      BY <1>4, <2>2 DEF Ret
    <3> QED BY <3>1, <3>2, RetIsReturn DEF Promise!Step
  <2> QED BY <2>1, <2>2
<1>5. CASE EnterFrame BY <1>1, <1>2, <1>5 DEF EnterFrame, Fault
<1>6. CASE Exit BY <1>1, <1>2, <1>6 DEF Exit
<1>7. CASE LeaveInline BY <1>1, <1>7, LeaveKeeps
<1>8. CASE Push \/ LoadVariable \/ LoadArg \/ Binary \/ Index \/ Not \/ Dup \/ Dot
  BY <1>1, <1>8, PushesKeep
<1>9. CASE PopOne \/ Syscall \/ Skip \/ Ffi \/ Store \/ Jz \/ Jmp BY <1>1, <1>9, PopsKeep
<1> QED BY <1>3, <1>4, <1>5, <1>6, <1>7, <1>8, <1>9 DEF Execute

-----------------------------------------------------------------------------
(* The whole.                                                                 *)

Follows == \E f \in {Frames}, g \in {Frames'} : Promise!Step(f, g)

(* Before the program runs there is one empty stack.                          *)
LEMMA NoFrames == ASSUME machine = "off" \/ ~Certified PROVE Frames = << <<>> >>
BY DEF Frames

LEMMA RoutinesStep ==
    ASSUME Inductive, [Next]_vars PROVE [Follows]_Frames
<1>1. CASE Compiles
  <2>1. machine' = machine BY <1>1 DEF Compiles, machineVars
  <2>2. machine = "off" BY <1>1, CompileBusy DEF Compiles, Inductive, CompiledFirst
  <2>3. Frames = << <<>> >> /\ Frames' = << <<>> >> BY <2>1, <2>2 DEF Frames
  <2> QED BY <2>3
<1>2. CASE Load
  <2>1. machine = "off" /\ calls' = <<[base |-> 0, rsp |-> 0]>> /\ machine' = "running"
    BY <1>2 DEF Load
  <2>2. Frames = << <<>> >> BY <2>1, NoFrames
  <2>3. CASE ~Certified'
    <3>1. Frames' = << <<>> >> BY <2>3 DEF Frames
    <3> QED BY <2>2, <3>1
  <2>4. CASE Certified'
    <3>1. Len(calls') = 1 /\ DOMAIN calls' = 1 .. 1
      <4> DEFINE entry == [base |-> 0, rsp |-> 0]
      <4> HIDE DEF entry
      <4>1. <<entry>> \in Seq({entry}) OBVIOUS
      <4>2. Len(<<entry>>) = 1 /\ DOMAIN <<entry>> = 1 .. Len(<<entry>>)
        BY <4>1, SmallSeqs, LenProperties
      <4> QED BY <2>1, <4>2 DEF entry
    <3>2. Depth' = 1 BY <3>1 DEF Depth
    <3>3. IsSeq(Frames') /\ Len(Frames') = 1
      BY <2>1, <2>4, <3>1, <3>2, FramesBecome
    <3>4. IsSeq(Frames) /\ Len(Frames) = 1 BY <2>2, SmallSeqs
    <3>5. /\ IsSeq(Promise!Front(Frames')) /\ Len(Promise!Front(Frames')) = 0
          /\ IsSeq(Promise!Front(Frames)) /\ Len(Promise!Front(Frames)) = 0
      <4>1. Len(Frames') >= 1 /\ Len(Frames') - 1 = 0 /\ Len(Frames) >= 1 /\ Len(Frames) - 1 = 0
        BY <3>3, <3>4
      <4> QED BY <3>3, <3>4, <4>1, FrontOf
    <3>6. Promise!Front(Frames') = Promise!Front(Frames)
      <4>1. \A i \in 1 .. 0 : Promise!Front(Frames')[i] = Promise!Front(Frames)[i] OBVIOUS
      <4> QED BY <3>5, <4>1, SameSeq
    <3> QED BY <3>3, <3>4, <3>6 DEF Follows, Promise!Step, Promise!Work
  <2> QED BY <2>3, <2>4
<1>3. CASE Executes
  <2>1. code' = code /\ Execute BY <1>3 DEF Executes, codegenVars
  <2>2. machine = "running" /\ machine' \in {"running", "fault", "exited"}
    BY <2>1, ExecuteRuns
  <2>3. Certified' <=> Certified BY <2>1, CertifiedAgain
  <2>4. CASE Certified
    <3>1. Good BY <2>2, <2>4 DEF Inductive, Safe
    <3>2. Promise!Step(Frames, Frames') BY <2>1, <2>2, <2>4, <3>1, ExecuteKinds
    <3> QED BY <3>2 DEF Follows
  <2>5. CASE ~Certified
    <3>1. Frames = << <<>> >> /\ Frames' = << <<>> >> BY <2>3, <2>5 DEF Frames
    <3> QED BY <3>1
  <2> QED BY <2>4, <2>5
<1>4. CASE UNCHANGED vars
  <2>1. UNCHANGED <<code, machine, stack, calls>> BY <1>4 DEF vars, codegenVars, machineVars
  <2>2. Certified' <=> Certified BY <2>1, CertifiedAgain
  <2>3. Frames' = Frames BY <2>1, <2>2 DEF Frames, Base, Taken, Caller
  <2> QED BY <2>3
<1> QED BY <1>1, <1>2, <1>3, <1>4 DEF Next, End

(* README.md: whatever certified code does to the processor's stack, each     *)
(* routine keeps the stack the language promises it: a call takes arguments   *)
(* off its caller's and nothing else, a return leaves its results there and   *)
(* nothing else, and in between the callers' stacks do not change.            *)
THEOREM RoutinesAlwaysKeepApart == Spec => RoutinesKeepApart
<1>1. Init => Frames = << <<>> >> BY DEF Init, MachineInit, Frames
<1>2. Inductive /\ [Next]_vars => [Follows]_Frames BY RoutinesStep
<1> QED
  BY <1>1, <1>2, InductiveHolds, PTL
  DEF Spec, RoutinesKeepApart, Promise!RoutinesSpec, Promise!RoutinesInit, Follows
=============================================================================
