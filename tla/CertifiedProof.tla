---------------------------- MODULE CertifiedProof ----------------------------
(* What the compiler accepts without a quirk is certified: each step leaves   *)
(* the code so far, and what has still to be written, in balance.             *)
EXTENDS CompilationProof, PraccProof

-----------------------------------------------------------------------------
(* Stacks of kinds, one on top of the other.                                  *)

LEMMA Stacked ==
    ASSUME NEW S, NEW u \in Seq(S), NEW t \in Seq(S), NEW p \in Nat, p <= Len(t)
    PROVE  /\ Drop(t, p) \in Seq(S) /\ Len(Drop(t, p)) = Len(t) - p
           /\ Drop(u \o t, p) = u \o Drop(t, p)
           /\ TopN(u \o t, p) = TopN(t, p)
           /\ Len(t) >= 1 => Top(u \o t) = Top(t)
<1>1. /\ u \o t \in Seq(S) /\ Len(u \o t) = Len(u) + Len(t) /\ Len(u) \in Nat /\ Len(t) \in Nat
      /\ \A i \in 1 .. Len(u) + Len(t) : (u \o t)[i] = IF i <= Len(u) THEN u[i] ELSE t[i - Len(u)]
  BY ConcatProperties, LenProperties
<1>2. /\ Drop(t, p) \in Seq(S) /\ Len(Drop(t, p)) = Len(t) - p
      /\ \A i \in 1 .. Len(t) - p : Drop(t, p)[i] = t[i]
  BY DropProperties
<1>3. PICK ut \in Seq(S) : ut = u \o t BY <1>1
<1>4. /\ Drop(ut, p) \in Seq(S) /\ Len(Drop(ut, p)) = Len(u) + Len(t) - p
      /\ \A i \in 1 .. Len(u) + Len(t) - p : Drop(ut, p)[i] = ut[i]
  <2>1. Len(ut) = Len(u) + Len(t) /\ p <= Len(ut) BY <1>1, <1>3
  <2>2. /\ Drop(ut, p) \in Seq(S) /\ Len(Drop(ut, p)) = Len(ut) - p
        /\ \A i \in 1 .. Len(ut) - p : Drop(ut, p)[i] = ut[i]
    BY <2>1, DropProperties
  <2> QED BY <2>1, <2>2
<1>5. /\ u \o Drop(t, p) \in Seq(S) /\ Len(u \o Drop(t, p)) = Len(u) + (Len(t) - p)
      /\ \A i \in 1 .. Len(u) + (Len(t) - p) :
            (u \o Drop(t, p))[i] = IF i <= Len(u) THEN u[i] ELSE Drop(t, p)[i - Len(u)]
  <2>1. \A d \in Seq(S) : /\ u \o d \in Seq(S) /\ Len(u \o d) = Len(u) + Len(d)
                          /\ \A i \in 1 .. Len(u) + Len(d) :
                                (u \o d)[i] = IF i <= Len(u) THEN u[i] ELSE d[i - Len(u)]
    BY ConcatProperties
  <2> QED BY <2>1, <1>2
<1> DEFINE a == Len(u)
           b == Len(t)
           d == Drop(t, p)
<1>6. Drop(ut, p) = u \o d
  <2>1. \A i \in 1 .. a + b - p : Drop(ut, p)[i] = (u \o d)[i]
    <3> SUFFICES ASSUME NEW i \in 1 .. a + b - p PROVE Drop(ut, p)[i] = (u \o d)[i]
      OBVIOUS
    <3>1. i \in 1 .. a + (b - p) /\ i \in 1 .. a + b /\ (i > a => i - a \in 1 .. b - p) BY <1>1
    <3>2. ut[i] = IF i <= a THEN u[i] ELSE t[i - a] BY <3>1, <1>1, <1>3
    <3>3. (u \o d)[i] = IF i <= a THEN u[i] ELSE d[i - a] BY <3>1, <1>5
    <3>4. Drop(ut, p)[i] = ut[i] BY <1>4
    <3>5. i > a => d[i - a] = t[i - a] BY <3>1, <1>2
    <3> QED BY <3>2, <3>3, <3>4, <3>5, <1>1
  <2>2. Len(Drop(ut, p)) = Len(u \o d) /\ Len(Drop(ut, p)) = a + b - p BY <1>1, <1>4, <1>5
  <2>3. IsSeq(Drop(ut, p)) /\ IsSeq(u \o d) BY <1>4, <1>5, SeqIsSeq
  <2> HIDE DEF a, b, d
  <2> QED BY <2>1, <2>2, <2>3, SameSeq
<1>7. TopN(ut, p) = TopN(t, p)
  <2>0. IsSeq(ut) /\ IsSeq(t) BY SeqIsSeq
  <2>1. IsSeq(ut) /\ IsSeq(t) /\ Len(ut) = Len(u) + Len(t) /\ p <= Len(ut) BY <2>0, <1>1, <1>3
  <2>2. /\ IsSeq(TopN(ut, p)) /\ Len(TopN(ut, p)) = p
        /\ \A i \in 1 .. p : TopN(ut, p)[i] = ut[Len(ut) - p + i]
    BY <2>1, TopNProperties
  <2>3. /\ IsSeq(TopN(t, p)) /\ Len(TopN(t, p)) = p
        /\ \A i \in 1 .. p : TopN(t, p)[i] = t[Len(t) - p + i]
    BY <2>1, TopNProperties
  <2>4. \A i \in 1 .. p : TopN(ut, p)[i] = TopN(t, p)[i]
    <3> SUFFICES ASSUME NEW i \in 1 .. p PROVE TopN(ut, p)[i] = TopN(t, p)[i]
      OBVIOUS
    <3>1. a + b - p + i \in 1 .. a + b /\ a + b - p + i > a /\ (a + b - p + i) - a = b - p + i
      BY <1>1
    <3>2. ut[a + b - p + i] = t[(a + b - p + i) - a] BY <3>1, <1>1, <1>3
    <3> QED BY <3>1, <3>2, <2>1, <2>2, <2>3, <1>1
  <2> QED BY <2>2, <2>3, <2>4, SameSeq
<1>8. Len(t) >= 1 => Top(ut) = Top(t)
  <2>1. Len(t) >= 1 => a + b \in 1 .. a + b /\ a + b > a /\ (a + b) - a = b BY <1>1
  <2> QED BY <2>1, <1>1, <1>3 DEF Top
<1> QED BY <1>2, <1>3, <1>6, <1>7, <1>8

LEMMA ConcatAssoc ==
    ASSUME NEW s \in Seq(Kinds), NEW t \in Seq(Kinds), NEW u \in Seq(Kinds), NEW tu, tu = t \o u
    PROVE  (s \o t) \o u = s \o tu
BY ConcatAssociative

LEMMA CoversItself ==
    ASSUME NEW t \in Seq(Kinds) PROVE Covers(t, t)
BY DEF Covers

(* The same kinds under both.                                                 *)
LEMMA CoversOnto ==
    ASSUME NEW u \in Seq(Kinds), NEW t \in Seq(Kinds), NEW w \in Seq(Kinds), Covers(t, w)
    PROVE  Covers(u \o t, u \o w)
<1>1. /\ u \o t \in Seq(Kinds) /\ Len(u \o t) = Len(u) + Len(t) /\ Len(u) \in Nat /\ Len(t) \in Nat
      /\ \A i \in 1 .. Len(u) + Len(t) : (u \o t)[i] = IF i <= Len(u) THEN u[i] ELSE t[i - Len(u)]
  BY ConcatProperties, LenProperties
<1>2. /\ Len(u \o w) = Len(u) + Len(w)
      /\ \A i \in 1 .. Len(u) + Len(w) : (u \o w)[i] = IF i <= Len(u) THEN u[i] ELSE w[i - Len(u)]
  BY ConcatProperties
<1>3. Len(t) = Len(w) /\ DOMAIN t = 1 .. Len(t) /\ \A i \in 1 .. Len(t) : t[i] \in {"poisoned", w[i]}
  BY DEF Covers
<1>4. DOMAIN (u \o t) = 1 .. Len(u) + Len(t) BY <1>1
<1>5. \A i \in 1 .. Len(u) + Len(t) : (u \o t)[i] \in {"poisoned", (u \o w)[i]}
  <2> SUFFICES ASSUME NEW i \in 1 .. Len(u) + Len(t) PROVE (u \o t)[i] \in {"poisoned", (u \o w)[i]}
    OBVIOUS
  <2>1. i > Len(u) => i - Len(u) \in 1 .. Len(t) BY <1>1
  <2> QED BY <2>1, <1>1, <1>2, <1>3
<1> QED BY <1>1, <1>2, <1>3, <1>4, <1>5 DEF Covers

-----------------------------------------------------------------------------
(* Instructions that stay, and new ones.                                      *)

Sits(i) == WellFormed(i) /\ HasWhatItNeeds(i) /\ AsDeclared(i)

LEMMA SameInstruction ==
    ASSUME NEW i, code'[i] = code[i]
    PROVE  /\ WellFormed(i)' <=> WellFormed(i)
           /\ HasWhatItNeeds(i)' <=> HasWhatItNeeds(i)
           /\ Falls(i)' <=> Falls(i)
           /\ \A v : Joins(i, v)' <=> Joins(i, v)
<1>1. WellFormed(i)' <=> WellFormed(i) BY Zenon DEF WellFormed
<1>2. OwnSlot(i)' <=> OwnSlot(i) BY Zenon DEF OwnSlot
<1>3. HasWhatItNeeds(i)' <=> HasWhatItNeeds(i) BY <1>2, ZenonT(40) DEF HasWhatItNeeds
<1>4. Falls(i)' <=> Falls(i) BY Zenon DEF Falls
<1>5. TypesAfter(i)' = TypesAfter(i) BY Zenon DEF TypesAfter
<1>6. MarksAfter(i)' = MarksAfter(i) BY Zenon DEF MarksAfter
<1>7. \A v : Joins(i, v)' <=> Joins(i, v) BY <1>5, <1>6, Zenon DEF Joins
<1> QED BY <1>1, <1>3, <1>4, <1>7

LEMMA DeclaredAgain ==
    ASSUME KeepsMaps, NEW i, code'[i] = code[i], Sits(i) PROVE Sits(i)'
<1>1. WellFormed(i)' /\ HasWhatItNeeds(i)' BY SameInstruction DEF Sits
<1>2. AsDeclared(i) /\ (code[i].of = START => code[i].ins.op \in {"start", "call", "exit"})
  BY DEF Sits, HasWhatItNeeds
<1>3. \A key : Find(values_map, key) # NULL =>
          Find(values_map, key)' = Find(values_map, key) /\ Declares(key)' = Declares(key)
  BY SameAsts DEF KeepsMaps, Declares
<1>4. code[i].ins.op = "call" =>
          /\ Find(values_map, code[i].ins.name)' # NULL
          /\ code[i].ins.args = ArgKinds(Declares(code[i].ins.name)'.args)
          /\ code[i].ins.rets = Reversed(Declares(code[i].ins.name)'.rets)
  BY <1>2, <1>3 DEF AsDeclared
<1>5. code[i].of # START => /\ Find(values_map, code[i].of)' # NULL
                            /\ Declares(code[i].of)' = Declares(code[i].of)
  BY <1>2, <1>3 DEF AsDeclared
<1>6. code[i].ins.op = "ret" =>
          /\ code[i].ins.nargs = Len(Declares(code[i].of)'.args)
          /\ code[i].ins.rets = Reversed(Declares(code[i].of)'.rets)
  BY <1>2, <1>5 DEF AsDeclared
<1>7. (code[i].ins.op = "loadarg" /\ Len(code[i].marks) = 1) =>
          /\ code[i].ins.nargs = Len(Declares(code[i].of)'.args)
          /\ code[i].ins.kind = Declares(code[i].of)'.args[code[i].ins.arg].kind
  BY <1>2, <1>5 DEF AsDeclared
<1>8. AsDeclared(i)' BY <1>4, <1>5, <1>6, <1>7 DEF AsDeclared
<1> QED BY <1>1, <1>8 DEF Sits

(* An instruction of a routine that neither calls nor returns.                *)
Ordinary == {"push", "loadvar", "binary", "index", "not", "drop", "dup", "dot", "store",
             "jmp", "jz", "label"}

LEMMA OrdinarySits ==
    ASSUME NEW i, NEW ins, ins.op \in Ordinary, NEW of, of # START, Find(values_map, of)' # NULL,
           NEW s \in Seq(Kinds), NEW ms \in Seq(Nat), code'[i] = View(ins, of, s, ms),
           ins.op \in {"push", "loadvar"} => ins.kind \in Kinds \ {"poisoned"},
           Len(s) >= Pops(ins), ins.op = "not" => Top(s) \in {"int", "byte"}
    PROVE  /\ Sits(i)'
           /\ TypesAfter(i)' = Drop(s, Pops(ins)) \o Pushes(ins, s) /\ MarksAfter(i)' = ms
<1>1. code'[i].ins = ins /\ code'[i].of = of /\ code'[i].types = s /\ code'[i].marks = ms
  BY DEF View
<1>2. ins.op \notin {"loadarg", "leave", "ret", "syscall", "call", "ffi", "start", "entry", "enter", "exit"}
  BY DEF Ordinary
<1>3. WellFormed(i)' BY <1>1, <1>2 DEF WellFormed
<1>4. HasWhatItNeeds(i)' BY <1>1, <1>2 DEF HasWhatItNeeds
<1>5. AsDeclared(i)' BY <1>1, <1>2 DEF AsDeclared
<1>6. TypesAfter(i)' = Drop(s, Pops(ins)) \o Pushes(ins, s) BY <1>1, <1>2 DEF TypesAfter
<1>7. MarksAfter(i)' = ms BY <1>1, <1>2 DEF MarksAfter
<1> QED BY <1>3, <1>4, <1>5, <1>6, <1>7 DEF Sits

-----------------------------------------------------------------------------
(* The parts of Balanced, one step on: the first n instructions are as they   *)
(* were, those up to m are new.                                               *)

Grown(n, m) ==
    /\ n \in Nat /\ m \in Nat /\ n <= m
    /\ Len(code) = n /\ DOMAIN code = 1 .. n /\ Len(code)' = m /\ DOMAIN code' = 1 .. m
    /\ \A i \in 1 .. n : code'[i] = code[i]

LEMMA AppendsGrows ==
    ASSUME NEW s, Appends(s), NEW n, n = Len(code), NEW m, m = Len(code) + Len(s)
    PROVE  Grown(n, m) /\ \A j \in 1 .. Len(s) : code'[n + j] = s[j]
<1>1. /\ Len(code') = Len(code) + Len(s)
      /\ Len(code) \in Nat /\ Len(s) \in Nat
      /\ DOMAIN code = 1 .. Len(code) /\ DOMAIN code' = 1 .. Len(code')
      /\ \A i \in DOMAIN code : i \in DOMAIN code' /\ code'[i] = code[i]
      /\ \A j \in 1 .. Len(s) : code'[Len(code) + j] = s[j]
  BY CodeGrows
<1> QED BY <1>1 DEF Grown

LEMMA FitGrows ==
    ASSUME InstructionsFit, KeepsMaps, NEW n, NEW m, Grown(n, m), \A i \in n + 1 .. m : Sits(i)'
    PROVE  InstructionsFit'
<1>1. /\ n \in Nat /\ m \in Nat /\ DOMAIN code = 1 .. n /\ DOMAIN code' = 1 .. m
      /\ \A i \in 1 .. n : code'[i] = code[i]
  BY DEF Grown
<1>2. \A i \in 1 .. n : Sits(i) BY <1>1 DEF InstructionsFit, Sits
<1>3. \A i \in 1 .. n : Sits(i)' BY <1>1, <1>2, DeclaredAgain
<1>4. \A i \in 1 .. m : i \in 1 .. n \/ i \in n + 1 .. m BY <1>1
<1>5. \A i \in 1 .. m : Sits(i)' BY <1>3, <1>4
<1> QED BY <1>1, <1>5 DEF InstructionsFit, Sits

LEMMA JoinsAlike ==
    ASSUME NEW i, NEW v, NEW w, SameView(v, w)
    PROVE  (Joins(i, v) <=> Joins(i, w)) /\ (Joins(i, v)' <=> Joins(i, w)')
BY DEF Joins, SameView

LEMMA FlowGrows ==
    ASSUME CodeFlows, NEW n, NEW m, Grown(n, m), NEW here, here = Here, NEW after, after = Here',
           work # <<>> => IF n < m THEN SameView(here, code'[n + 1])
                          ELSE work' # <<>> /\ SameView(here, after),
           \A i \in n + 1 .. m : Falls(i)' => IF i < m THEN Joins(i, code[i + 1])'
                                              ELSE work' # <<>> /\ Joins(i, after)'
    PROVE  CodeFlows'
<1>1. /\ n \in Nat /\ m \in Nat /\ n <= m /\ Len(code) = n /\ Len(code)' = m
      /\ DOMAIN code = 1 .. n /\ DOMAIN code' = 1 .. m
      /\ \A i \in 1 .. n : code'[i] = code[i]
  BY DEF Grown
<1>2. ASSUME NEW i \in 1 .. m, Falls(i)'
      PROVE  IF i < m THEN Joins(i, code[i + 1])' ELSE work' # <<>> /\ Joins(i, after)'
  <2>1. CASE i > n
    <3>1. i \in n + 1 .. m BY <2>1, <1>1
    <3> QED BY <3>1, <1>2
  <2>2. CASE i <= n
    <3>1. i \in 1 .. n /\ code'[i] = code[i] BY <2>2, <1>1
    <3>2. Falls(i) BY <3>1, <1>2, SameInstruction
    <3>3. CASE i < n
      <4>1. i < m /\ i + 1 \in 1 .. n BY <3>3, <3>1, <1>1
      <4>2. PICK v : v = code[i + 1] OBVIOUS
      <4>3. code'[i + 1] = v BY <4>1, <4>2, <1>1
      <4>4. Joins(i, v) BY <3>1, <3>2, <3>3, <4>2, <1>1 DEF CodeFlows
      <4>5. Joins(i, v)' BY <4>4, <3>1, SameInstruction
      <4>6. Joins(i, code[i + 1])' BY <4>3, <4>5
      <4> QED BY <4>1, <4>6
    <3>4. CASE i = n
      <4>1. work # <<>> /\ Joins(i, here) BY <3>1, <3>2, <3>4, <1>1 DEF CodeFlows
      <4>2. Joins(i, here)' BY <4>1, <3>1, SameInstruction
      <4>3. CASE n < m
        <5>1. PICK v : v = code'[n + 1] OBVIOUS
        <5>2. Joins(i, v)' BY <4>1, <4>2, <4>3, <5>1, JoinsAlike
        <5>3. Joins(i, code[i + 1])' BY <5>1, <5>2, <3>4
        <5> QED BY <5>3, <4>3, <3>4
      <4>4. CASE n = m
        <5>1. work' # <<>> /\ SameView(here, after) BY <4>1, <4>4, <1>1
        <5>2. Joins(i, after)' BY <4>2, <5>1, JoinsAlike
        <5> QED BY <5>1, <5>2, <4>4, <3>4, <1>1
      <4> QED BY <4>3, <4>4, <1>1
    <3> QED BY <3>3, <3>4, <2>2, <1>1
  <2> QED BY <2>1, <2>2, <1>1
<1>3. \A i : Joins(i, after)' => Joins(i, Here)' BY DEF Joins
<1> QED BY <1>1, <1>2, <1>3 DEF CodeFlows

(* Labels and jumps of the sorts fam with the number num meet in the view v.  *)
JumpsTo(fam, num, v) ==
    \A i \in JumpsAt : (code[i].ins.l \in fam /\ code[i].ins.n = num) => Joins(i, v)
NewFor(n, m, fam, num, v) ==
    \A i \in n + 1 .. m :
        /\ code'[i].ins.op \in {"jmp", "jz"} =>
              code'[i].ins.l \in fam /\ code'[i].ins.n = num /\ Joins(i, v)'
        /\ code'[i].ins.op = "label" => code'[i].ins.l \in fam /\ code'[i].ins.n = num
LabelsAre(m, fam, num, v) ==
    \A i \in 1 .. m : \A l \in fam : code'[i].ins = Label(l, num) => SameView(v, code'[i])
AwaitedAt(fam, num, v) ==
    \A k \in DOMAIN work' : \A l \in Awaited(work'[k].block) :
        IF l \in fam /\ work'[k].label = num THEN SameView(v, Entry(k)')
        ELSE /\ k \in DOMAIN work /\ l \in Awaited(work[k].block)
             /\ work'[k].label = work[k].label /\ SameView(Entry(k), Entry(k)')

LEMMA JumpsMeetStep ==
    ASSUME JumpsMeet, NEW n, NEW m, Grown(n, m), NEW fam, NEW num, NEW v,
           JumpsTo(fam, num, v), NewFor(n, m, fam, num, v), LabelsAre(m, fam, num, v),
           AwaitedAt(fam, num, v)
    PROVE  JumpsMeet'
<1> USE DEF JumpsTo, NewFor, LabelsAre, AwaitedAt
<1>1. /\ n \in Nat /\ m \in Nat /\ DOMAIN code = 1 .. n /\ DOMAIN code' = 1 .. m
      /\ \A i \in 1 .. n : code'[i] = code[i]
  BY DEF Grown
<1>2. \A i \in 1 .. m : i \in 1 .. n \/ i \in n + 1 .. m BY <1>1
<1> SUFFICES ASSUME NEW i \in JumpsAt'
             PROVE  /\ \A j \in Labels(code[i].ins.l, code[i].ins.n)' : Joins(i, code[j])'
                    /\ \A k \in DOMAIN work' :
                          Awaits(k, code[i].ins.l, code[i].ins.n)' => Joins(i, Entry(k))'
  BY DEF JumpsMeet
<1>3. i \in 1 .. m /\ code'[i].ins.op \in {"jmp", "jz"} BY <1>1 DEF JumpsAt
<1>4. PICK l, x : l = code'[i].ins.l /\ x = code'[i].ins.n OBVIOUS
<1>5. ASSUME NEW j \in Labels(l, x)' PROVE j \in 1 .. m /\ code'[j].ins = Label(l, x)
  BY <1>1 DEF Labels, Label
<1>6. ASSUME NEW k \in DOMAIN work', Awaits(k, l, x)'
      PROVE  l \in Awaited(work'[k].block) /\ work'[k].label = x
  BY <1>6 DEF Awaits
<1>7. CASE l \in fam /\ x = num
  <2>1. Joins(i, v)'
    <3>1. CASE i \in n + 1 .. m BY <3>1, <1>3
    <3>2. CASE i \in 1 .. n
      <4>1. code'[i] = code[i] /\ i \in JumpsAt BY <3>2, <1>1, <1>3 DEF JumpsAt
      <4>2. Joins(i, v) BY <4>1, <1>4, <1>7
      <4> QED BY <4>1, <4>2, SameInstruction
    <3> QED BY <3>1, <3>2, <1>2, <1>3
  <2>2. ASSUME NEW j \in Labels(l, x)' PROVE Joins(i, code[j])'
    <3>1. PICK w : w = code'[j] OBVIOUS
    <3>2. SameView(v, w) BY <3>1, <1>5, <1>7
    <3>3. Joins(i, w)' BY <2>1, <3>2, JoinsAlike
    <3> QED BY <3>1, <3>3
  <2>3. ASSUME NEW k \in DOMAIN work', Awaits(k, l, x)' PROVE Joins(i, Entry(k))'
    <3>1. PICK w : w = Entry(k)' OBVIOUS
    <3>2. SameView(v, w) BY <3>1, <1>6, <1>7, <2>3
    <3>3. Joins(i, w)' BY <2>1, <3>2, JoinsAlike
    <3> QED BY <3>1, <3>3 DEF Joins
  <2> QED BY <2>2, <2>3, <1>4
<1>8. CASE ~(l \in fam /\ x = num)
  <2>1. i \in 1 .. n /\ code'[i] = code[i] /\ i \in JumpsAt BY <1>1, <1>2, <1>3, <1>4, <1>8 DEF JumpsAt
  <2>2. code[i].ins.l = l /\ code[i].ins.n = x BY <2>1, <1>4
  <2>3. ASSUME NEW j \in Labels(l, x)' PROVE Joins(i, code[j])'
    <3>1. j \in 1 .. m /\ code'[j].ins = Label(l, x) BY <1>5
    <3>2. code'[j].ins.op = "label" /\ code'[j].ins.l = l /\ code'[j].ins.n = x BY <3>1 DEF Label
    <3>3. j \in 1 .. n /\ code'[j] = code[j] BY <3>1, <3>2, <1>1, <1>2, <1>8
    <3>4. j \in Labels(l, x) BY <3>1, <3>3, <1>1 DEF Labels, Label
    <3>5. PICK w : w = code[j] OBVIOUS
    <3>6. Joins(i, w) BY <2>1, <2>2, <3>4, <3>5 DEF JumpsMeet
    <3>7. Joins(i, w)' BY <2>1, <3>6, SameInstruction
    <3> QED BY <3>3, <3>5, <3>7
  <2>4. ASSUME NEW k \in DOMAIN work', Awaits(k, l, x)' PROVE Joins(i, Entry(k))'
    <3>1. l \in Awaited(work'[k].block) /\ work'[k].label = x BY <2>4, <1>6
    <3>2. /\ k \in DOMAIN work /\ l \in Awaited(work[k].block)
          /\ work'[k].label = work[k].label /\ SameView(Entry(k), Entry(k)')
      BY <3>1, <1>8
    <3>3. PICK u, w : u = Entry(k) /\ w = Entry(k)' OBVIOUS
    <3>4. Awaits(k, l, x) BY <3>1, <3>2 DEF Awaits
    <3>5. Joins(i, u) BY <2>1, <2>2, <3>2, <3>3, <3>4 DEF JumpsMeet
    <3>6. Joins(i, u)' BY <2>1, <3>5, SameInstruction
    <3>7. Joins(i, w)' BY <3>6, <3>2, <3>3, JoinsAlike
    <3> QED BY <3>3, <3>7 DEF Joins
  <2> QED BY <2>3, <2>4, <1>4
<1> QED BY <1>7, <1>8

LEMMA EntriesStay ==
    ASSUME NEW b, Moved(b) \/ Opened(b), NEW k \in 1 .. b
    PROVE  /\ Entry(k)' = Entry(k) /\ work'[k].block = work[k].block /\ work'[k].label = work[k].label
           /\ work'[k].node = work[k].node /\ work'[k].saved = work[k].saved
           /\ work'[k].under = work[k].under /\ work'[k].marks = work[k].marks
           /\ work'[k].of = work[k].of
<1>1. Alike(work'[k], work[k]) BY AlikeItself DEF Moved, Opened
<1> QED BY <1>1 DEF Alike, Entry

LEMMA BlocksResumeStep ==
    ASSUME BlocksResume, Activations, prog' = prog, NEW n, NEW m, Grown(n, m), NEW b, Moved(b) \/ Opened(b),
           \A k \in 1 .. b : (work[k].block = "inline" /\ work[k].saved.stmt = NULL) =>
               func_ctx'.types = func_ctx.types,
           \A k \in 1 .. b : work[k].block \in LoopBlocks =>
               \A j \in n + 1 .. m : code'[j].ins # Label("while", work[k].label),
           NEW c, c = b + 1,
           Opened(b) =>
               /\ work'[c].block \in LoopBlocks =>
                     \A j \in 1 .. m : code'[j].ins = Label("while", work'[c].label) =>
                         SameView(code'[j], Entry(c)')
               /\ work'[c].block = "inline" => Resumable(work[b], work[c])'
    PROVE  BlocksResume'
<1>1. /\ n \in Nat /\ m \in Nat /\ DOMAIN code = 1 .. n /\ DOMAIN code' = 1 .. m
      /\ \A i \in 1 .. n : code'[i] = code[i]
  BY DEF Grown
<1>2. \A i \in 1 .. m : i \in 1 .. n \/ i \in n + 1 .. m BY <1>1
<1>3. /\ b \in 1 .. Len(work) /\ Len(work) \in Nat /\ b \in Nat /\ DOMAIN work = 1 .. Len(work)
      /\ 1 .. b \subseteq DOMAIN work /\ IsSeq(work') /\ Len(work') \in {b, c}
  <2>1. Len(work) \in Nat /\ DOMAIN work = 1 .. Len(work) BY IsSeqProperties DEF Activations
  <2>2. b \in 1 .. Len(work) BY DEF Moved, Opened
  <2>3. IsSeq(work') /\ Len(work') \in {b, c} BY DEF Moved, Opened
  <2> QED BY <2>1, <2>2, <2>3
<1>4. \A k \in DOMAIN work' : k \in 1 .. b \/ (Opened(b) /\ k = c)
  <2>1. DOMAIN work' = 1 .. Len(work') BY <1>3, IsSeqProperties
  <2>2. Moved(b) => Len(work') = b BY DEF Moved
  <2> QED BY <2>1, <2>2, <1>3
<1>5. ASSUME NEW k \in 1 .. b
      PROVE  /\ work'[k].block \in LoopBlocks =>
                    \A j \in Labels("while", work[k].label)' : SameView(code'[j], Entry(k)')
             /\ work'[k].block = "inline" => Resumable(work[k - 1], work[k])'
  <2>1. /\ Entry(k)' = Entry(k) /\ work'[k].block = work[k].block /\ work'[k].label = work[k].label
        /\ work'[k].node = work[k].node /\ work'[k].saved = work[k].saved
        /\ work'[k].under = work[k].under /\ work'[k].marks = work[k].marks
    BY EntriesStay
  <2>2. k \in DOMAIN work /\ IsBlock(k) BY <1>3 DEF Activations
  <2>3. ASSUME work'[k].block \in LoopBlocks, NEW j \in Labels("while", work[k].label)'
        PROVE  SameView(code'[j], Entry(k)')
    <3>1. j \in 1 .. m /\ code'[j].ins = Label("while", work[k].label)
      BY <2>1, <1>1 DEF Labels, Label
    <3>2. j \in 1 .. n /\ code'[j] = code[j] BY <3>1, <2>1, <2>3, <1>1, <1>2
    <3>3. j \in Labels("while", work[k].label) BY <3>1, <3>2, <1>1 DEF Labels, Label
    <3>4. SameView(code[j], Entry(k)) BY <2>1, <2>2, <2>3, <3>3 DEF BlocksResume
    <3> QED BY <3>2, <3>4, <2>1
  <2>4. ASSUME work'[k].block = "inline" PROVE Resumable(work[k - 1], work[k])'
    <3>1. k # 1 BY <2>1, <2>2, <2>4 DEF IsBlock
    <3>2. PICK j : j = k - 1 OBVIOUS
    <3>3. j \in 1 .. b BY <3>1, <3>2, <1>3
    <3>4. work'[j].under = work[j].under /\ work'[j].marks = work[j].marks BY <3>3, EntriesStay
    <3>5. Resumable(work[j], work[k]) BY <3>2, <2>1, <2>2, <2>4 DEF BlocksResume
    <3>6. Outside(work[k])' = Outside(work[k]) BY <2>1, <2>4 DEF Outside
    <3>7. astid(work[k].node)' = astid(work[k].node) BY <2>1, SameAsts
    <3>8. Resumable(work[j], work[k])' BY <3>4, <3>5, <3>6, <3>7, <2>1 DEF Resumable
    <3> QED BY <3>2, <3>8
  <2> QED BY <2>3, <2>4
<1>6. ASSUME Opened(b)
      PROVE  /\ work'[c].block \in LoopBlocks =>
                    \A j \in Labels("while", work[c].label)' : SameView(code'[j], Entry(c)')
             /\ work'[c].block = "inline" => Resumable(work[c - 1], work[c])'
  <2>1. b = c - 1 BY <1>3
  <2>2. \A j \in Labels("while", work[c].label)' : j \in 1 .. m /\ code'[j].ins = Label("while", work'[c].label)
    BY <1>1 DEF Labels, Label
  <2> QED BY <2>1, <2>2, <1>6
<1>7. ASSUME NEW k \in DOMAIN work'
      PROVE  /\ work'[k].block \in LoopBlocks =>
                    \A j \in Labels("while", work[k].label)' : SameView(code'[j], Entry(k)')
             /\ work'[k].block = "inline" => Resumable(work[k - 1], work[k])'
  BY <1>4, <1>5, <1>6
<1> QED BY <1>7 DEF BlocksResume

-----------------------------------------------------------------------------
(* Steps of a routine.                                                        *)

LEMMA HereFacts ==
    ASSUME CompilerShape, work # <<>>
    PROVE  /\ Current = work[Len(work)] /\ Len(work) \in Nat \ {0} /\ DOMAIN work = 1 .. Len(work)
           /\ Current.of # START /\ Current.of = work[1].of
           /\ Find(values_map, Current.of) = work[1].node /\ work[1].node # NULL
           /\ Current.under \in Seq(Kinds) /\ Current.marks \in Seq(Nat) /\ Current.marks # <<>>
           /\ Types \in Seq(Kinds) /\ Len(Types) \in Nat
           /\ Current.under \o Types \in Seq(Kinds)
           /\ Here.of = Current.of /\ Here.types = Current.under \o Types /\ Here.marks = Current.marks
<1>1. Activations /\ Contexts BY ShapeFacts
<1>2. /\ Current = work[Len(work)] /\ Len(work) \in Nat \ {0} /\ DOMAIN work = 1 .. Len(work)
      /\ IsActivation(Current)
  BY <1>1, BlocksAre
<1>3. work[1].node # NULL BY <1>1, OutermostIs
<1>4. Types \in Seq(Kinds) /\ Len(Types) \in Nat BY <1>1, CurrentContext
<1>5. Current.under \in Seq(Kinds) /\ Current.marks \in Seq(Nat) /\ Current.marks # <<>>
  BY <1>2 DEF IsActivation
<1>6. Current.under \o Types \in Seq(Kinds) BY <1>4, <1>5, ConcatProperties
<1> QED BY <1>2, <1>3, <1>4, <1>5, <1>6 DEF IsActivation, Here, At, View

(* A procedure inlined in a function leaves the function's types alone, and   *)
(* is the outermost procedure.                                                *)
LEMMA OutermostProc ==
    ASSUME CompilerShape, quirks = {}, work # <<>>, NEW k \in DOMAIN work,
           work[k].block = "inline", work[k].saved.stmt = NULL
    PROVE  /\ InProc /\ Expanded(k, "PROC") /\ k > 1
           /\ \A j \in 1 .. k - 1 : ~Expanded(j, "PROC")
<1>1. Activations /\ Contexts BY ShapeFacts
<1>2. FunctionsFirst BY DEF CompilerShape
<1>3. Len(work) \in Nat \ {0} /\ DOMAIN work = 1 .. Len(work) BY <1>1, BlocksAre
<1>4. IsBlock(k) /\ Expands(k) /\ k \in 1 .. Len(work) BY <1>1, <1>3 DEF Activations, Expands
<1>5. k # 1 BY <1>4 DEF IsBlock
<1>6. Decl(k).kind \in {"FUNC", "PROC"} BY <1>4 DEF IsBlock, IsActivation, DeclaredAs, Decl
<1>7. PICK n \in 0 .. Len(work) : n = k - 1 BY <1>3, <1>4
<1>8. n \in Nat \ {0} /\ 1 \in 1 .. n /\ 1 \in 1 .. k BY <1>3, <1>4, <1>5, <1>7
<1>9. PICK kind \in {"FUNC", "PROC"} : kind = Decl(k).kind BY <1>6
<1>10. LastExpanded(kind, n, NULL) BY <1>1, <1>7, <1>9 DEF Contexts
<1>11. \A j \in 1 .. n : ~Expanded(j, kind) BY <1>1, <1>10, NoneExpanded
<1>12. Expanded(1, "PROC") \/ Expanded(1, "FUNC") BY <1>1, OutermostExpands
<1>13. kind = "PROC" BY <1>2, <1>4, <1>8, <1>9, <1>11, <1>12 DEF FunctionsFirst
<1>14. Expanded(k, "PROC") BY <1>4, <1>9, <1>13 DEF Expanded
<1>15. InProc
  <2>1. SUFFICES ASSUME proc_ctx.stmt = NULL PROVE FALSE BY DEF InProc
  <2>0. Len(work) \in 0 .. Len(work) BY <1>3
  <2>2. PICK w \in 0 .. Len(work) : w = Len(work) BY <2>0
  <2>3. LastExpanded("PROC", w, NULL) BY <1>1, <2>1, <2>2 DEF Contexts
  <2>4. \A j \in 1 .. w : ~Expanded(j, "PROC") BY <1>1, <2>3, NoneExpanded
  <2> QED BY <1>4, <1>14, <2>2, <2>4
<1> QED BY <1>5, <1>7, <1>8, <1>11, <1>13, <1>14, <1>15, <1>4

(* The function's types stay where a procedure inlined in it left them.       *)
FuncKept(n) ==
    \A k \in 1 .. n : (work[k].block = "inline" /\ work[k].saved.stmt = NULL) =>
                          func_ctx'.types = func_ctx.types

LEMMA SetTypesKeepsFunc ==
    ASSUME CompilerShape, quirks = {}, work # <<>>, NEW ts, SetTypes(ts) \/ UNCHANGED func_ctx
    PROVE  FuncKept(Len(work))
<1> SUFFICES ASSUME NEW k \in 1 .. Len(work), work[k].block = "inline", work[k].saved.stmt = NULL
             PROVE  func_ctx'.types = func_ctx.types
  BY DEF FuncKept
<1>1. k \in DOMAIN work BY HereFacts
<1>2. InProc BY <1>1, OutermostProc
<1> QED BY <1>2 DEF SetTypes

LEMMA BalancedUnchanged ==
    ASSUME CompilerShape, Balanced, UNCHANGED <<prog, maps, ctx, work, code>> PROVE Balanced'
<1>1. \A i : code'[i] = code[i] OBVIOUS
<1>2. KeepsMaps BY ShapeFacts, MapsStay DEF maps
<1>3. InstructionsFit'
  <2>1. \A i \in DOMAIN code : Sits(i) BY DEF Balanced, InstructionsFit, Sits
  <2>2. \A i \in DOMAIN code : Sits(i)' BY <2>1, <1>1, <1>2, DeclaredAgain
  <2> QED BY <2>2 DEF InstructionsFit, Sits
<1>4. \A i, v : (Joins(i, v)' <=> Joins(i, v)) /\ (Falls(i)' <=> Falls(i)) BY <1>1, SameInstruction
<1>5. Here' = Here BY DEF Here, At, View, Current, Types, Ctx, InProc, ctx
<1>6. \A k : Entry(k)' = Entry(k) BY DEF Entry
<1>7. \A l, n : Labels(l, n)' = Labels(l, n) BY DEF Labels
<1>8. CodeFlows'
  <2>1. PICK h : h = Here OBVIOUS
  <2>2. \A i : Joins(i, Here)' <=> Joins(i, Here)
    <3>1. \A i : Joins(i, h)' <=> Joins(i, h) BY <1>4
    <3>2. \A i : Joins(i, Here)' <=> Joins(i, h)' BY <1>5, <2>1 DEF Joins
    <3> QED BY <3>1, <3>2, <2>1
  <2>3. \A i, j : Joins(i, code[j])' <=> Joins(i, code[j])
    <3> SUFFICES ASSUME NEW i, NEW j PROVE Joins(i, code[j])' <=> Joins(i, code[j]) OBVIOUS
    <3>1. PICK v : v = code[j] OBVIOUS
    <3>2. Joins(i, v)' <=> Joins(i, v) BY <1>4
    <3>3. Joins(i, code[j])' <=> Joins(i, v)' BY <3>1 DEF Joins
    <3> QED BY <3>1, <3>2, <3>3
  <2> QED BY <1>4, <2>2, <2>3 DEF Balanced, CodeFlows
<1>9. JumpsMeet'
  <2>1. \A i, j : Joins(i, code[j])' <=> Joins(i, code[j])
    <3> SUFFICES ASSUME NEW i, NEW j PROVE Joins(i, code[j])' <=> Joins(i, code[j]) OBVIOUS
    <3>1. PICK v : v = code[j] OBVIOUS
    <3>2. Joins(i, v)' <=> Joins(i, v) BY <1>4
    <3>3. Joins(i, code[j])' <=> Joins(i, v)' BY <3>1 DEF Joins
    <3> QED BY <3>1, <3>2, <3>3
  <2>2. \A i, k : Joins(i, Entry(k))' <=> Joins(i, Entry(k))
    <3> SUFFICES ASSUME NEW i, NEW k PROVE Joins(i, Entry(k))' <=> Joins(i, Entry(k)) OBVIOUS
    <3>1. PICK v : v = Entry(k) OBVIOUS
    <3>2. Joins(i, v)' <=> Joins(i, v) BY <1>4
    <3>3. Joins(i, Entry(k))' <=> Joins(i, v)' BY <3>1, <1>6 DEF Joins
    <3> QED BY <3>1, <3>2, <3>3
  <2>3. \A k, l, n : Awaits(k, l, n)' <=> Awaits(k, l, n) BY DEF Awaits
  <2>4. JumpsAt' = JumpsAt BY DEF JumpsAt
  <2>5. ASSUME NEW i \in JumpsAt
        PROVE  /\ \A j \in Labels(code[i].ins.l, code[i].ins.n)' : Joins(i, code[j])'
               /\ \A k \in DOMAIN work' :
                      Awaits(k, code[i].ins.l, code[i].ins.n)' => Joins(i, Entry(k))'
    <3>1. PICK l, n : l = code[i].ins.l /\ n = code[i].ins.n OBVIOUS
    <3>2. /\ \A j \in Labels(l, n) : Joins(i, code[j])
          /\ \A k \in DOMAIN work : Awaits(k, l, n) => Joins(i, Entry(k))
      BY <3>1 DEF Balanced, JumpsMeet
    <3>3. code'[i].ins.l = l /\ code'[i].ins.n = n BY <3>1
    <3>4. \A j \in Labels(l, n)' : Joins(i, code[j])' BY <3>2, <2>1, <1>7
    <3>5. \A k \in DOMAIN work' : Awaits(k, l, n)' => Joins(i, Entry(k))' BY <3>2, <2>2, <2>3
    <3> QED BY <3>3, <3>4, <3>5
  <2> QED BY <2>4, <2>5 DEF JumpsMeet
<1>10. BlocksResume'
  <2>1. \A f, g : Resumable(f, g)' <=> Resumable(f, g)
    BY <1>2, SameAsts DEF KeepsMaps, Resumable, Outside, ctx
  <2> QED BY <1>6, <1>7, <2>1 DEF Balanced, BlocksResume, Resumable, Outside, astid, ctx
<1> QED BY <1>3, <1>8, <1>9, <1>10 DEF Balanced

LEMMA BalancedStops ==
    ASSUME CompilerShape, Balanced, NEW how, Stop(how) PROVE Balanced'
BY BalancedUnchanged DEF Stop

-----------------------------------------------------------------------------
(* Where the next instruction will go.                                        *)
LEMMA HereMoves ==
    ASSUME NEW m \in Nat \ {0}, Moved(m), NEW ts, Types' = ts
    PROVE  /\ work' # <<>> /\ Here'.of = work[m].of /\ Here'.types = work[m].under \o ts
           /\ Here'.marks = work[m].marks
<1>1. IsSeq(work') /\ Len(work') = m /\ Alike(work'[m], work[m]) BY DEF Moved
<1>2. work' # <<>>
  <2> SUFFICES ASSUME work' = <<>> PROVE FALSE OBVIOUS
  <2> QED BY <1>1, SmallSeqs
<1>3. PICK f : f = work'[m] OBVIOUS
<1>4. Current' = f BY <1>1, <1>3 DEF Current
<1>5. Here' = View([op |-> "next"], f.of, f.under \o ts, f.marks) BY <1>4 DEF Here, At, View
<1> QED BY <1>1, <1>2, <1>3, <1>5 DEF Alike, View

LEMMA HereOpens ==
    ASSUME NEW m \in Nat, Opened(m), NEW f, f = work'[m + 1], NEW ts, Types' = ts
    PROVE  work' # <<>> /\ Here'.of = f.of /\ Here'.types = f.under \o ts /\ Here'.marks = f.marks
<1>1. IsSeq(work') /\ Len(work') = m + 1 BY DEF Opened
<1>2. work' # <<>>
  <2> SUFFICES ASSUME work' = <<>> PROVE FALSE OBVIOUS
  <2> QED BY <1>1, SmallSeqs
<1>3. Current' = f BY <1>1 DEF Current
<1>4. Here' = View([op |-> "next"], f.of, f.under \o ts, f.marks) BY <1>3 DEF Here, At, View
<1> QED BY <1>2, <1>4 DEF View

(* Steps that write no label and no jump, and open no block.                  *)
LEMMA BalancedMovesTo ==
    ASSUME CompilerShape, Balanced, KeepsMaps, work # <<>>, NEW b, Moved(b), FuncKept(b),
           NEW s, Appends(s), Straight(s), NEW n, n = Len(code), NEW m, m = n + Len(s),
           NEW here, here = Here, NEW after, after = Here',
           IF n < m THEN SameView(here, code'[n + 1]) ELSE SameView(here, after),
           \A i \in n + 1 .. m : Sits(i)' /\ (Falls(i)' => IF i < m THEN Joins(i, code[i + 1])'
                                                         ELSE Joins(i, after)')
    PROVE  Balanced'
<1>1. Grown(n, m) /\ \A j \in 1 .. Len(s) : code'[n + j] = s[j] BY AppendsGrows
<1>2. n \in Nat /\ m \in Nat /\ Len(s) \in Nat BY <1>1, CodeGrows DEF Grown
<1>3. ASSUME NEW i \in n + 1 .. m PROVE code'[i].ins.op \notin {"jmp", "jz", "label"}
  <2>1. PICK j : j = i - n OBVIOUS
  <2>2. j \in 1 .. Len(s) /\ i = n + j BY <1>2, <2>1
  <2>3. code'[i] = s[j] BY <1>1, <2>2
  <2> QED BY <2>2, <2>3 DEF Straight
<1>4. /\ b \in 1 .. Len(work) /\ b \in Nat \ {0} /\ DOMAIN work = 1 .. Len(work) /\ Activations
      /\ prog' = prog /\ 1 .. b \subseteq DOMAIN work
  <2>1. /\ Len(work) \in Nat \ {0} /\ DOMAIN work = 1 .. Len(work) /\ Activations /\ prog' = prog
    BY ShapeFacts, BlocksAre DEF KeepsMaps
  <2>2. b \in 1 .. Len(work) BY DEF Moved
  <2> QED BY <2>1, <2>2
<1>5. work' # <<>> BY <1>4, HereMoves
<1>6. InstructionsFit' BY <1>1, FitGrows DEF Balanced
<1>7. CodeFlows' BY <1>1, <1>5, FlowGrows DEF Balanced
<1>8. IsSeq(work') /\ Len(work') = b /\ DOMAIN work' = 1 .. b
  BY IsSeqProperties DEF Moved
<1>9. JumpsMeet'
  <2>1. \A k \in DOMAIN work' : \A l \in Awaited(work'[k].block) :
            /\ k \in DOMAIN work /\ l \in Awaited(work[k].block)
            /\ work'[k].label = work[k].label /\ SameView(Entry(k), Entry(k)')
    <3> SUFFICES ASSUME NEW k \in 1 .. b, NEW l \in Awaited(work'[k].block)
                 PROVE  /\ k \in DOMAIN work /\ l \in Awaited(work[k].block)
                        /\ work'[k].label = work[k].label /\ SameView(Entry(k), Entry(k)')
      BY <1>8
    <3>2. /\ Entry(k)' = Entry(k) /\ work'[k].block = work[k].block
          /\ work'[k].label = work[k].label
      BY EntriesStay
    <3> QED BY <3>2, <1>4 DEF SameView
  <2>2. JumpsMeet BY DEF Balanced
  <2>3. PICK fam, num, v : fam = {} /\ num = 0 /\ v = here OBVIOUS
  <2>4. AwaitedAt(fam, num, v) BY <2>1, <2>3 DEF AwaitedAt
  <2>5. JumpsTo(fam, num, v) BY <2>3 DEF JumpsTo
  <2>6. NewFor(n, m, fam, num, v) BY <1>3 DEF NewFor
  <2>7. LabelsAre(m, fam, num, v) BY <2>3 DEF LabelsAre
  <2> QED BY <1>1, <2>2, <2>4, <2>5, <2>6, <2>7, JumpsMeetStep
<1>10. BlocksResume'
  <2>2. PICK c : c = b + 1 OBVIOUS
  <2>3. ~Opened(b) BY <1>4, <1>8 DEF Opened
  <2>4. \A k \in 1 .. b : (work[k].block = "inline" /\ work[k].saved.stmt = NULL) =>
               func_ctx'.types = func_ctx.types
    BY DEF FuncKept
  <2>5. \A k \in 1 .. b : work[k].block \in LoopBlocks =>
               \A j \in n + 1 .. m : code'[j].ins # Label("while", work[k].label)
    <3>1. \A x : Label("while", x).op = "label" BY DEF Label
    <3> QED BY <1>3, <3>1
  <2> QED BY <1>1, <1>4, <2>2, <2>3, <2>4, <2>5, BlocksResumeStep DEF Balanced
<1> QED BY <1>6, <1>7, <1>9, <1>10 DEF Balanced

LEMMA BalancedOneTo ==
    ASSUME CompilerShape, Balanced, KeepsMaps, work # <<>>, NEW b, Moved(b), FuncKept(b),
           NEW ins, Harmless(ins), Emit(<<At(ins, Types)>>), NEW n, n = Len(code) + 1,
           NEW ts, Types' = ts, NEW after, after = Here',
           code'[n] = View(ins, Current.of, Current.under \o Types, Current.marks) =>
               Sits(n)' /\ (Falls(n)' => Joins(n, after)')
    PROVE  Balanced'
<1>1. PICK x : x = At(ins, Types) OBVIOUS
<1>2. PICK s : s = <<x>> OBVIOUS
<1>3. /\ x.ins = ins /\ x.of = Here.of /\ x.types = Here.types /\ x.marks = Here.marks
      /\ x = View(ins, Current.of, Current.under \o Types, Current.marks)
  BY <1>1 DEF At, View, Here
<1>4. IsSeq(s) /\ Len(s) = 1 /\ s[1] = x /\ Straight(s) BY <1>2, <1>3, SmallSeqs, OneStraight DEF Harmless
<1>5. Appends(s) BY <1>1, <1>2, <1>4, ShapeFacts DEF Emit, Appends
<1>6. PICK l : l = Len(code) OBVIOUS
<1>7. l \in Nat /\ n = l + 1 /\ code'[n] = x
  <2>1. l \in Nat /\ \A j \in 1 .. Len(s) : code'[l + j] = s[j] BY <1>5, <1>6, CodeGrows
  <2>2. 1 \in 1 .. Len(s) BY <1>4
  <2> QED BY <2>1, <2>2, <1>4, <1>6
<1>8. PICK here : here = Here OBVIOUS
<1>9. l < n /\ n = l + Len(s) /\ SameView(here, code'[l + 1]) BY <1>3, <1>4, <1>7, <1>8 DEF SameView
<1>10. ASSUME NEW i \in l + 1 .. n
       PROVE  Sits(i)' /\ (Falls(i)' => IF i < n THEN Joins(i, code[i + 1])' ELSE Joins(i, after)')
  <2>1. i = n /\ ~(i < n) BY <1>7
  <2>2. Sits(n)' /\ (Falls(n)' => Joins(n, after)') BY <1>3, <1>7
  <2> QED BY <2>1, <2>2
<1> QED BY <1>4, <1>5, <1>6, <1>8, <1>9, <1>10, BalancedMovesTo

(* The same in the same blocks.                                               *)
LEMMA BalancedMoves ==
    ASSUME CompilerShape, Balanced, KeepsMaps, work # <<>>, Moved(Len(work)), FuncKept(Len(work)),
           NEW s, Appends(s), Straight(s), NEW n, n = Len(code), NEW m, m = n + Len(s),
           NEW here, here = Here, NEW after, after = Here',
           IF n < m THEN SameView(here, code'[n + 1]) ELSE SameView(here, after),
           \A i \in n + 1 .. m : Sits(i)' /\ (Falls(i)' => IF i < m THEN Joins(i, code[i + 1])'
                                                         ELSE Joins(i, after)')
    PROVE  Balanced'
<1>1. PICK b : b = Len(work) OBVIOUS
<1>2. Moved(b) /\ FuncKept(b) BY <1>1
<1> QED BY ONLY <1>2, BalancedMovesTo, CompilerShape, Balanced, KeepsMaps, work # <<>>, Appends(s), Straight(s), n = Len(code), m = n + Len(s), here = Here, after = Here',
     IF n < m THEN SameView(here, code'[n + 1]) ELSE SameView(here, after),
           \A i \in n + 1 .. m : Sits(i)' /\ (Falls(i)' => IF i < m THEN Joins(i, code[i + 1])'
                                                         ELSE Joins(i, after)')

LEMMA BalancedOne ==
    ASSUME CompilerShape, Balanced, KeepsMaps, work # <<>>, Moved(Len(work)), FuncKept(Len(work)),
           NEW ins, Harmless(ins), Emit(<<At(ins, Types)>>), NEW n, n = Len(code) + 1,
           NEW ts, Types' = ts, NEW after, after = Here',
           code'[n] = View(ins, Current.of, Current.under \o Types, Current.marks) =>
               Sits(n)' /\ (Falls(n)' => Joins(n, after)')
    PROVE  Balanced'
<1>1. PICK b : b = Len(work) OBVIOUS
<1>2. Moved(b) /\ FuncKept(b) BY <1>1
<1> QED BY <1>2, BalancedOneTo

(* Nothing is written, and the types stay.                                    *)
LEMMA BalancedNone ==
    ASSUME CompilerShape, Balanced, KeepsMaps, work # <<>>, Moved(Len(work)), FuncKept(Len(work)),
           Emit(<<>>), Types' = Types
    PROVE  Balanced'
<1>1. PICK s : s = <<>> OBVIOUS
<1>2. IsSeq(s) /\ Len(s) = 0 /\ Straight(s) BY <1>1, SmallSeqs, NoneStraight
<1>3. Appends(s) BY <1>1, <1>2, ShapeFacts DEF Emit, Appends
<1>4. PICK l : l = Len(code) OBVIOUS
<1>5. l \in Nat BY <1>3, <1>4, CodeGrows
<1>6. l = l + Len(s) BY <1>2, <1>5
<1>7. PICK here, after : here = Here /\ after = Here' OBVIOUS
<1>8. PICK ts : ts = Types OBVIOUS
<1>9. Len(work) \in Nat \ {0} /\ Current = work[Len(work)] BY ShapeFacts, BlocksAre
<1>10. Here' .of = Current.of /\ Here'.types = Current.under \o ts /\ Here'.marks = Current.marks
  BY <1>8, <1>9, HereMoves
<1>11. SameView(here, after) BY <1>7, <1>8, <1>10 DEF SameView, Here, At, View
<1>12. ~(l < l) /\ \A i \in l + 1 .. l : FALSE BY <1>5
<1> QED BY <1>2, <1>3, <1>4, <1>6, <1>7, <1>11, <1>12, BalancedMoves

-----------------------------------------------------------------------------
(* What an instruction leaves on the types of its block, it leaves on what is *)
(* under them.                                                                *)
LEMMA AfterOnto ==
    ASSUME NEW u \in Seq(Kinds), NEW t \in Seq(Kinds), NEW ts \in Seq(Kinds), NEW p \in Nat, p <= Len(t),
           NEW d \in Seq(Kinds), d = Drop(t, p), NEW q \in Seq(Kinds), NEW w \in Seq(Kinds), w = d \o q,
           Covers(ts, w)
    PROVE  Covers(u \o ts, Drop(u \o t, p) \o q) /\ Len(u \o t) >= p
<1>1. d = Drop(t, p) OBVIOUS
<1>2. w = d \o q OBVIOUS
<1>3. Covers(u \o ts, u \o w) BY CoversOnto
<1>4. (u \o d) \o q = u \o w BY ONLY ConcatAssoc, <1>2, u \in Seq(Kinds), d \in Seq(Kinds), q \in Seq(Kinds), w \in Seq(Kinds), SMTT(30)
<1>5. Drop(u \o t, p) = u \o d
  <2>1. Drop(u \o t, p) = u \o Drop(t, p)
    BY ONLY Stacked, u \in Seq(Kinds), t \in Seq(Kinds), p \in Nat, p <= Len(t), SMTT(30)
  <2> QED BY ONLY <2>1, <1>1
<1>6. Len(u \o t) = Len(u) + Len(t) /\ Len(u) \in Nat /\ Len(t) \in Nat BY ConcatProperties, LenProperties
<1>7. Covers(u \o ts, Drop(u \o t, p) \o q) BY ONLY <1>3, <1>4, <1>5
<1>8. Len(u \o t) >= p BY ONLY <1>6, p \in Nat, p <= Len(t)
<1> QED BY ONLY <1>7, <1>8

LEMMA OrdinaryPushes ==
    ASSUME NEW u \in Seq(Kinds), NEW t \in Seq(Kinds), NEW ins, ins.op \in Ordinary, Len(t) >= Pops(ins),
           ins.op \in {"push", "loadvar"} => ins.kind \in Kinds
    PROVE  /\ Pops(ins) \in Nat /\ Pushes(ins, u \o t) = Pushes(ins, t) /\ Pushes(ins, t) \in Seq(Kinds)
           /\ ins.op = "not" => Top(u \o t) = Top(t)
<1>1. ins.op \notin {"syscall", "call", "ffi", "loadarg"} BY DEF Ordinary
<1>2. Pops(ins) \in {0, 1, 2} /\ (ins.op \in {"not", "dot", "dup"} => Pops(ins) = 1) BY <1>1 DEF Pops
<1>3. Pops(ins) \in Nat BY <1>2
<1>4. Len(t) \in Nat BY LenProperties
<1>5. ASSUME ins.op \in {"not", "dot", "dup"} PROVE Top(u \o t) = Top(t) /\ Top(t) \in Kinds
  <2>1. Len(t) >= 1 /\ Len(t) \in 1 .. Len(t) /\ 1 \in Nat /\ 1 <= Len(t) BY <1>2, <1>4, <1>5
  <2>2. Top(u \o t) = Top(t) BY <2>1, Stacked
  <2>3. Top(t) \in Kinds BY <2>1, ElementOfSeq DEF Top
  <2> QED BY <2>2, <2>3
<1>6. Pushes(ins, u \o t) = Pushes(ins, t) BY <1>1, <1>5 DEF Pushes
<1>7. "int" \in Kinds /\ "byte" \in Kinds BY PoisonedIsAKind
<1>8. \A x \in Kinds : <<x>> \in Seq(Kinds) /\ <<x, x>> \in Seq(Kinds) /\ <<>> \in Seq(Kinds) OBVIOUS
<1>9. Pushes(ins, t) \in Seq(Kinds) BY <1>1, <1>5, <1>7, <1>8 DEF Pushes
<1> QED BY <1>3, <1>5, <1>6, <1>9

(* A statement that is one instruction.                                       *)
LEMMA BalancedOrdinary ==
    ASSUME CompilerShape, Balanced, quirks = {}, NEW kinds, Compiling(kinds),
           NEW ins, ins.op \in Ordinary, Harmless(ins), Len(Types) >= Pops(ins),
           ins.op \in {"push", "loadvar"} => ins.kind \in Kinds \ {"poisoned"},
           ins.op = "not" => Top(Types) \in {"int", "byte"},
           NEW ts \in Seq(Kinds), Covers(ts, Drop(Types, Pops(ins)) \o Pushes(ins, Types)),
           Continue(<<At(ins, Types)>>, ts)
    PROVE  Balanced'
<1>1. CASE Overflow(Types, ts) # "none" BY <1>1, BalancedStops DEF Continue
<1>2. CASE Overflow(Types, ts) = "none"
  <2>1. /\ Emit(<<At(ins, Types)>>) /\ SetTypes(ts) /\ work' = Advanced(work)
        /\ UNCHANGED <<prog, phase, maps, labels, quirks>>
    BY <1>2 DEF Continue
  <2>2. work # <<>> /\ ~Finished BY Statement
  <2>3. Activations /\ Contexts /\ IsProgram(prog) /\ Maps BY ShapeFacts
  <2>4. Moved(Len(work)) BY <2>1, <2>2, <2>3, AdvancedMoves
  <2>5. KeepsMaps BY <2>1, <2>3, MapsStay DEF maps
  <2>6. FuncKept(Len(work)) BY <2>1, <2>2, SetTypesKeepsFunc
  <2>7. Types' = ts BY <2>1, <2>2, <2>3, SetTypesKeeps
  <2>8. PICK after : after = Here' OBVIOUS
  <2>9. PICK n : n = Len(code) + 1 OBVIOUS
  <2>10. PICK of, u, t, ms : of = Current.of /\ u = Current.under /\ t = Types /\ ms = Current.marks OBVIOUS
  <2>11. /\ Len(work) \in Nat \ {0} /\ Current = work[Len(work)]
         /\ of # START /\ Find(values_map, of) # NULL /\ u \in Seq(Kinds) /\ t \in Seq(Kinds)
         /\ ms \in Seq(Nat) /\ u \o t \in Seq(Kinds)
    BY <2>2, <2>10, HereFacts
  <2>12. after.of = of /\ after.types = u \o ts /\ after.marks = ms
    BY <2>4, <2>7, <2>8, <2>10, <2>11, HereMoves
  <2>13. Find(values_map, of)' # NULL BY <2>5, <2>11 DEF KeepsMaps
  <2>14. PICK p, q : p = Pops(ins) /\ q = Pushes(ins, t) OBVIOUS
  <2>15. /\ p \in Nat /\ p <= Len(t) /\ q \in Seq(Kinds) /\ Pushes(ins, u \o t) = q
         /\ (ins.op = "not" => Top(u \o t) \in {"int", "byte"})
    BY <2>10, <2>11, <2>14, OrdinaryPushes
  <2>16. Covers(u \o ts, Drop(u \o t, p) \o q) /\ Len(u \o t) >= p
    <3>1. PICK d \in Seq(Kinds) : d = Drop(t, p) BY <2>11, <2>15, Stacked
    <3>2. PICK w \in Seq(Kinds) : w = d \o q BY <2>15, ConcatProperties
    <3>3. Covers(ts, w) BY <2>10, <2>14, <3>1, <3>2
    <3> QED BY <2>11, <2>15, <3>1, <3>2, <3>3, AfterOnto
  <2>17. ASSUME code'[n] = View(ins, of, u \o t, ms) PROVE Sits(n)' /\ (Falls(n)' => Joins(n, after)')
    <3>1. PICK s \in Seq(Kinds) : s = u \o t BY <2>11
    <3>2. /\ Sits(n)'
          /\ TypesAfter(n)' = Drop(s, Pops(ins)) \o Pushes(ins, s) /\ MarksAfter(n)' = ms
      BY <2>11, <2>13, <2>14, <2>15, <2>16, <2>17, <3>1, OrdinarySits, ZenonT(40)
    <3>3. code'[n].of = of BY <2>17 DEF View
    <3>4. Covers(after.types, TypesAfter(n)') BY <2>12, <2>14, <2>15, <2>16, <3>1, <3>2
    <3> QED BY <2>12, <3>2, <3>3, <3>4 DEF Joins
  <2> QED BY <2>1, <2>2, <2>4, <2>5, <2>6, <2>7, <2>8, <2>9, <2>10, <2>17, BalancedOne
<1> QED BY <1>1, <1>2

LEMMA SmallStacks ==
    /\ <<>> \in Seq(Kinds)
    /\ \A x \in Kinds : <<x>> \in Seq(Kinds) /\ <<x, x>> \in Seq(Kinds)
OBVIOUS

LEMMA CoversBy ==
    ASSUME NEW t \in Seq(Kinds), NEW d \in Seq(Kinds), NEW q \in Seq(Kinds),
           Len(t) = Len(d) + Len(q), \A i \in 1 .. Len(d) : t[i] = d[i],
           \A i \in 1 .. Len(q) : t[Len(d) + i] \in {"poisoned", q[i]}
    PROVE  Covers(t, d \o q)
<1>1. /\ Len(d \o q) = Len(d) + Len(q) /\ Len(d) \in Nat /\ Len(q) \in Nat
      /\ \A i \in 1 .. Len(d) + Len(q) : (d \o q)[i] = IF i <= Len(d) THEN d[i] ELSE q[i - Len(d)]
  BY ConcatProperties, LenProperties
<1>2. DOMAIN t = 1 .. Len(d) + Len(q) BY LenProperties
<1>3. ASSUME NEW i \in 1 .. Len(d) + Len(q) PROVE t[i] \in {"poisoned", (d \o q)[i]}
  <2>1. CASE i <= Len(d)
    <3>1. i \in 1 .. Len(d) BY <1>1, <2>1
    <3> QED BY <1>1, <2>1, <3>1
  <2>2. CASE ~(i <= Len(d))
    <3>1. PICK j : j = i - Len(d) OBVIOUS
    <3>2. j \in 1 .. Len(q) /\ i = Len(d) + j BY <1>1, <2>2, <3>1
    <3>3. (d \o q)[i] = q[j] BY <1>1, <2>2, <3>1
    <3> QED BY <3>2, <3>3
  <2> QED BY <2>1, <2>2
<1> QED BY <1>1, <1>2, <1>3 DEF Covers

LEMMA PushCovers ==
    ASSUME NEW d \in Seq(Kinds), NEW k \in Kinds, NEW q \in Kinds, k \in {"poisoned", q}
    PROVE  Append(d, k) \in Seq(Kinds) /\ Covers(Append(d, k), d \o <<q>>)
<1>1. PICK t : t = Append(d, k) OBVIOUS
<1>2. /\ t \in Seq(Kinds) /\ Len(t) = Len(d) + 1 /\ Len(d) \in Nat
      /\ \A i \in 1 .. Len(d) : t[i] = d[i]
      /\ t[Len(d) + 1] = k
  BY <1>1, AppendIs
<1>3. PICK s \in Seq(Kinds) : s = <<q>> BY SmallStacks, Zenon
<1>4. Len(s) = 1 /\ s[1] = q BY <1>3
<1>5. \A i \in 1 .. Len(s) : t[Len(d) + i] \in {"poisoned", s[i]}
  <2>1. \A i \in 1 .. Len(s) : i = 1 BY <1>4
  <2> QED BY <2>1, <1>2, <1>4
<1>6. Covers(t, d \o s) BY <1>2, <1>4, <1>5, CoversBy
<1> QED BY <1>1, <1>2, <1>3, <1>6

LEMMA DropNone ==
    ASSUME NEW t \in Seq(Kinds) PROVE Drop(t, 0) = t
<1>1. Len(t) \in Nat BY LenProperties
<1>2. Len(t) - 0 = Len(t) BY <1>1
<1> QED BY <1>2, SubSeqFull DEF Drop

LEMMA StayCovers ==
    ASSUME NEW t \in Seq(Kinds), Len(t) >= 1
    PROVE  Covers(t, Drop(t, 1) \o <<Top(t)>>)
<1>1. Len(t) \in Nat /\ 1 \in Nat /\ 1 <= Len(t) /\ Len(t) \in 1 .. Len(t) BY LenProperties
<1>2. PICK d \in Seq(Kinds) : d = Drop(t, 1) BY <1>1, DropProperties
<1>3. Len(d) = Len(t) - 1 /\ \A i \in 1 .. Len(t) - 1 : t[i] = d[i] BY <1>1, <1>2, DropProperties
<1>4. Top(t) \in Kinds BY <1>1, ElementOfSeq DEF Top
<1>5. PICK s \in Seq(Kinds) : s = <<Top(t)>> BY <1>4, SmallStacks, Zenon
<1>6. Len(s) = 1 /\ s[1] = Top(t) BY <1>5
<1>7. Len(t) = Len(d) + Len(s) /\ Len(d) + 1 = Len(t) BY <1>1, <1>3, <1>6
<1>8. \A i \in 1 .. Len(s) : t[Len(d) + i] \in {"poisoned", s[i]}
  <2>1. \A i \in 1 .. Len(s) : i = 1 BY <1>6
  <2> QED BY <2>1, <1>6, <1>7 DEF Top
<1>9. Covers(t, d \o s) BY <1>3, <1>7, <1>8, CoversBy
<1> QED BY <1>2, <1>5, <1>9

LEMMA DropCovers ==
    ASSUME NEW d \in Seq(Kinds) PROVE Covers(d, d \o <<>>)
<1>1. PICK s \in Seq(Kinds) : s = <<>> BY SmallStacks, Zenon
<1>2. Len(s) = 0 /\ Len(d) \in Nat BY <1>1, LenProperties
<1>3. Len(d) = Len(d) + Len(s) /\ \A i \in 1 .. Len(s) : FALSE BY <1>2
<1>4. Covers(d, d \o s) BY <1>3, CoversBy
<1> QED BY <1>1, <1>4

LEMMA DupCovers ==
    ASSUME NEW t \in Seq(Kinds), Len(t) >= 1
    PROVE  /\ Append(t, Top(t)) \in Seq(Kinds)
           /\ Covers(Append(t, Top(t)), Drop(t, 1) \o <<Top(t), Top(t)>>)
<1>1. Len(t) \in Nat /\ 1 \in Nat /\ 1 <= Len(t) /\ Len(t) \in 1 .. Len(t) BY LenProperties
<1>2. PICK d \in Seq(Kinds) : d = Drop(t, 1) BY <1>1, DropProperties
<1>3. Len(d) = Len(t) - 1 /\ \A i \in 1 .. Len(t) - 1 : t[i] = d[i] BY <1>1, <1>2, DropProperties
<1>4. PICK k \in Kinds : k = Top(t) BY <1>1, ElementOfSeq DEF Top
<1>5. PICK u : u = Append(t, k) OBVIOUS
<1>6. /\ u \in Seq(Kinds) /\ Len(u) = Len(t) + 1
      /\ \A i \in 1 .. Len(t) : u[i] = t[i]
      /\ u[Len(t) + 1] = k
  BY <1>5, AppendIs
<1>7. PICK s \in Seq(Kinds) : s = <<k, k>> BY SmallStacks, Zenon
<1>8. Len(s) = 2 /\ s[1] = k /\ s[2] = k BY <1>7
<1>9. Len(u) = Len(d) + Len(s) /\ Len(d) + 1 = Len(t) /\ Len(d) + 2 = Len(t) + 1 BY <1>1, <1>3, <1>6, <1>8
<1>10. \A i \in 1 .. Len(d) : u[i] = d[i]
  <2>1. \A i \in 1 .. Len(d) : i \in 1 .. Len(t) - 1 /\ i \in 1 .. Len(t) BY <1>1, <1>3
  <2> QED BY <2>1, <1>3, <1>6
<1>11. \A i \in 1 .. Len(s) : u[Len(d) + i] \in {"poisoned", s[i]}
  <2>1. \A i \in 1 .. Len(s) : i = 1 \/ i = 2 BY <1>8
  <2>2. u[Len(t)] = k BY <1>1, <1>4, <1>6 DEF Top
  <2> QED BY <2>1, <2>2, <1>6, <1>8, <1>9
<1>12. Covers(u, d \o s) BY <1>6, <1>9, <1>10, <1>11, CoversBy
<1> QED BY <1>2, <1>4, <1>5, <1>6, <1>7, <1>12

LEMMA SumCovers ==
    ASSUME NEW t \in Seq(Kinds), Len(t) >= 2, t[Len(t) - 1] = "int"
    PROVE  Covers(Drop(t, 1), Drop(t, 2) \o <<"int">>)
<1>1. Len(t) \in Nat /\ 1 \in Nat /\ 1 <= Len(t) /\ 2 \in Nat /\ 2 <= Len(t) BY LenProperties
<1>2. PICK d \in Seq(Kinds) : d = Drop(t, 2) BY <1>1, DropProperties
<1>3. Len(d) = Len(t) - 2 /\ \A i \in 1 .. Len(t) - 2 : t[i] = d[i] BY <1>1, <1>2, DropProperties
<1>4. PICK u \in Seq(Kinds) : u = Drop(t, 1) BY <1>1, DropProperties
<1>5. Len(u) = Len(t) - 1 /\ \A i \in 1 .. Len(t) - 1 : t[i] = u[i] BY <1>1, <1>4, DropProperties
<1>6. PICK s \in Seq(Kinds) : s = <<"int">> BY PoisonedIsAKind, SmallStacks, Zenon
<1>7. Len(s) = 1 /\ s[1] = "int" BY <1>6
<1>8. Len(u) = Len(d) + Len(s) /\ Len(d) + 1 = Len(t) - 1 /\ Len(t) - 1 \in 1 .. Len(t) - 1 BY <1>1, <1>3, <1>5, <1>7
<1>9. \A i \in 1 .. Len(d) : u[i] = d[i]
  <2>1. \A i \in 1 .. Len(d) : i \in 1 .. Len(t) - 1 /\ i \in 1 .. Len(t) - 2 BY <1>1, <1>3
  <2> QED BY <2>1, <1>3, <1>5
<1>10. \A i \in 1 .. Len(s) : u[Len(d) + i] \in {"poisoned", s[i]}
  <2>1. \A i \in 1 .. Len(s) : i = 1 BY <1>7
  <2> QED BY <2>1, <1>5, <1>7, <1>8
<1>11. Covers(u, d \o s) BY <1>8, <1>9, <1>10, CoversBy
<1> QED BY <1>2, <1>4, <1>6, <1>11

-----------------------------------------------------------------------------
(* Statements of one instruction, and of none.                                *)
LEMMA BalancedRequires ==
    ASSUME CompilerShape, Balanced, quirks = {}, NEW kinds, Compiling(kinds), NEW checked, NEW ins, NEW ts,
           Require(checked, ins, ts),
           checked => /\ ins.op \in Ordinary /\ Harmless(ins) /\ Len(Types) >= Pops(ins)
                      /\ ins.op \in {"push", "loadvar"} => ins.kind \in Kinds \ {"poisoned"}
                      /\ ins.op = "not" => Top(Types) \in {"int", "byte"}
                      /\ ts \in Seq(Kinds) /\ Covers(ts, Drop(Types, Pops(ins)) \o Pushes(ins, Types))
    PROVE  Balanced'
<1>1. CASE checked
  <2>1. Continue(<<At(ins, Types)>>, ts) BY <1>1 DEF Require
  <2> QED BY <1>1, <2>1, BalancedOrdinary
<1>2. CASE ~checked BY <1>2, BalancedStops DEF Require, Reject
<1> QED BY <1>1, <1>2

LEMMA BalancedPushOf ==
    ASSUME CompilerShape, Balanced, quirks = {}, NEW kinds, Compiling(kinds), NEW ins,
           ins.op \in {"push", "loadvar"}, ins.kind \in Declarable, NEW k \in {"poisoned", ins.kind},
           Continue(<<At(ins, Types)>>, Append(Types, k))
    PROVE  Balanced'
<1>1. PICK t \in Seq(Kinds) : t = Types BY Statement
<1>2. ins.kind \in Kinds \ {"poisoned"} /\ k \in Kinds BY PoisonedIsAKind DEF Declarable
<1>3. Append(t, k) \in Seq(Kinds) /\ Covers(Append(t, k), t \o <<ins.kind>>) BY <1>2, PushCovers
<1>4. Pops(ins) = 0 /\ Pushes(ins, t) = <<ins.kind>> BY DEF Pops, Pushes
<1>5. Drop(t, 0) = t BY DropNone
<1>6. Covers(Append(t, k), Drop(t, Pops(ins)) \o Pushes(ins, t)) BY <1>3, <1>4, <1>5
<1>7. ins.op \in Ordinary /\ Harmless(ins) BY DEF Ordinary, Harmless
<1>8. Len(t) >= Pops(ins) BY <1>4, LenProperties
<1>9. PICK ts \in Seq(Kinds) : ts = Append(t, k) BY <1>3
<1>10. Continue(<<At(ins, Types)>>, ts) BY <1>1, <1>9
<1>11. Covers(ts, Drop(Types, Pops(ins)) \o Pushes(ins, Types)) BY <1>1, <1>6, <1>9
<1>12. Len(Types) >= Pops(ins) BY <1>1, <1>8
<1> QED BY <1>2, <1>7, <1>10, <1>11, <1>12, BalancedOrdinary

LEMMA BalancedPush == ASSUME CompilerShape, Balanced, quirks = {}, CompilePush PROVE Balanced'
<1>1. PICK ins : ins = PushOf(Node.of, Operand(Node)) OBVIOUS
<1>2. Compiling({"PUSH"}) /\ Continue(<<At(ins, Types)>>, Append(Types, Node.of)) BY <1>1 DEF CompilePush
<1>3. Node.of \in Declarable BY <1>2, Statement DEF IsAst
<1>4. ins.op = "push" /\ ins.kind = Node.of BY <1>1 DEF PushOf
<1> QED BY <1>2, <1>3, <1>4, BalancedPushOf

LEMMA BalancedArith ==
    ASSUME CompilerShape, Balanced, quirks = {}, CompileArith \/ CompileEqual PROVE Balanced'
<1>1. PICK kinds : Compiling(kinds) BY DEF CompileArith, CompileEqual
<1>2. PICK f, checked : /\ checked => Len(Types) >= 2
                        /\ Require(checked, [op |-> "binary", f |-> f], Append(Drop(Types, 2), "int"))
  BY DEF CompileArith, CompileEqual, TwoIntegers, TwoOf
<1>3. PICK ins : ins = [op |-> "binary", f |-> f] OBVIOUS
<1>4. ins.op = "binary" /\ ins.op \in Ordinary /\ Harmless(ins) BY <1>3 DEF Ordinary, Harmless
<1>5. PICK t \in Seq(Kinds) : t = Types BY <1>1, Statement
<1>6. Pops(ins) = 2 /\ Pushes(ins, t) = <<"int">> BY <1>4 DEF Pops, Pushes
<1>7. PICK ts : ts = Append(Drop(Types, 2), "int") OBVIOUS
<1>8. ASSUME checked PROVE ts \in Seq(Kinds) /\ Covers(ts, Drop(t, 2) \o <<"int">>)
  <2>1. Len(t) >= 2 BY <1>2, <1>5, <1>8
  <2>2. Drop(t, 2) \in Seq(Kinds) BY <2>1, DropProperties
  <2> QED BY <2>2, <1>5, <1>7, PushCovers, PoisonedIsAKind
<1>9. Require(checked, ins, ts) BY <1>2, <1>3, <1>7
<1>10. checked => /\ ins.op \in Ordinary /\ Harmless(ins) /\ Len(Types) >= Pops(ins)
                  /\ ins.op \in {"push", "loadvar"} => ins.kind \in Kinds \ {"poisoned"}
                  /\ ins.op = "not" => Top(Types) \in {"int", "byte"}
                  /\ ts \in Seq(Kinds) /\ Covers(ts, Drop(Types, Pops(ins)) \o Pushes(ins, Types))
  BY <1>2, <1>4, <1>5, <1>6, <1>8
<1> QED BY <1>1, <1>9, <1>10, BalancedRequires

LEMMA BalancedPlus == ASSUME CompilerShape, Balanced, quirks = {}, CompilePlus PROVE Balanced'
<1>1. Compiling({"PLUS"}) BY DEF CompilePlus
<1>2. PICK t \in Seq(Kinds) : t = Types BY <1>1, Statement
<1>3. CASE ~TwoOf({"int", "byte", "str"}) BY <1>3, BalancedStops DEF CompilePlus, Reject
<1>4. CASE TwoOf({"int", "byte", "str"})
  <2>1. Len(t) >= 2 /\ Len(t) \in Nat BY <1>2, <1>4, LenProperties DEF TwoOf
  <2>2. CASE TwoIntegers
    <3>1. PICK ins : ins = [op |-> "binary", f |-> "PLUS"] OBVIOUS
    <3>2. ins.op = "binary" /\ ins.op \in Ordinary /\ Harmless(ins) BY <3>1 DEF Ordinary, Harmless
    <3>3. Pops(ins) = 2 /\ Pushes(ins, t) = <<"int">> BY <3>2 DEF Pops, Pushes
    <3>4. t[Len(t) - 1] = "int"
      <4>1. 1 \in 0 .. 1 OBVIOUS
      <4> QED BY <4>1, <1>2, <2>2 DEF TwoIntegers
    <3>5. PICK ts \in Seq(Kinds) : ts = Drop(t, 1) BY <2>1, DropProperties
    <3>6. Covers(ts, Drop(t, 2) \o <<"int">>) BY <2>1, <3>4, <3>5, SumCovers
    <3>7. Continue(<<At(ins, Types)>>, ts) BY <1>2, <1>4, <2>2, <3>1, <3>5 DEF CompilePlus, Popped
    <3> QED BY <1>1, <1>2, <2>1, <3>2, <3>3, <3>6, <3>7, BalancedOrdinary
  <2>3. CASE ~TwoIntegers /\ Top(Types) = "byte" BY <1>4, <2>3, BalancedStops DEF CompilePlus, Crash
  <2>4. CASE ~TwoIntegers /\ Top(Types) # "byte"
    <3>1. PICK ins : ins = [op |-> "index"] OBVIOUS
    <3>2. ins.op = "index" /\ ins.op \in Ordinary /\ Harmless(ins) BY <3>1 DEF Ordinary, Harmless
    <3>3. Pops(ins) = 2 /\ Pushes(ins, t) = <<"byte">> BY <3>2 DEF Pops, Pushes
    <3>4. Drop(t, 2) \in Seq(Kinds) BY <2>1, DropProperties
    <3>5. PICK ts \in Seq(Kinds) : ts = Append(Drop(t, 2), "byte") /\ Covers(ts, Drop(t, 2) \o <<"byte">>)
      BY <3>4, PushCovers, PoisonedIsAKind
    <3>6. Continue(<<At(ins, Types)>>, ts) BY <1>2, <1>4, <2>4, <3>1, <3>5 DEF CompilePlus
    <3> QED BY <1>1, <1>2, <2>1, <3>2, <3>3, <3>5, <3>6, BalancedOrdinary
  <2> QED BY <2>2, <2>3, <2>4
<1> QED BY <1>3, <1>4

LEMMA BalancedUnary ==
    ASSUME CompilerShape, Balanced, quirks = {}, CompileBnot \/ CompileDrop \/ CompileDup \/ CompileDot \/ CompileWrite
    PROVE  Balanced'
<1>1. PICK kinds : Compiling(kinds) BY DEF CompileBnot, CompileDrop, CompileDup, CompileDot, CompileWrite
<1>2. PICK t \in Seq(Kinds) : t = Types BY <1>1, Statement
<1>3. Len(t) \in Nat /\ (t # <<>> => Len(t) >= 1) BY LenProperties
<1>4. CASE \/ Reject \/ Crash BY <1>4, BalancedStops DEF Reject, Crash
<1>5. ASSUME t # <<>>, NEW ins, ins.op \in {"not", "drop", "dot", "store", "dup"},
             NEW ts \in Seq(Kinds), Covers(ts, Drop(t, 1) \o Pushes(ins, t)),
             ins.op = "not" => Top(t) \in {"int", "byte"}, Continue(<<At(ins, Types)>>, ts)
      PROVE  Balanced'
  <2>1. ins.op \in Ordinary /\ Harmless(ins) BY <1>5 DEF Ordinary, Harmless
  <2>2. Pops(ins) = 1 BY <1>5 DEF Pops
  <2>3. ins.op \notin {"push", "loadvar"} BY <1>5
  <2> QED BY <1>1, <1>2, <1>3, <1>5, <2>1, <2>2, <2>3, BalancedOrdinary
<1>6. ASSUME t # <<>>, NEW ins, ins.op \in {"not", "dot"}, ins.op = "not" => Top(t) \in {"int", "byte"},
             Continue(<<At(ins, Types)>>, Types)
      PROVE  Balanced'
  <2>1. Pushes(ins, t) = <<Top(t)>> BY <1>6 DEF Pushes
  <2>2. Covers(t, Drop(t, 1) \o <<Top(t)>>) BY <1>3, <1>6, StayCovers
  <2>3. Covers(t, Drop(t, 1) \o Pushes(ins, t)) BY <2>1, <2>2
  <2>4. PICK ts \in Seq(Kinds) : ts = t /\ Continue(<<At(ins, Types)>>, ts) BY <1>2, <1>6
  <2>5. ins.op \in {"not", "drop", "dot", "store", "dup"} BY <1>6
  <2> QED BY <1>5, <1>6, <2>3, <2>4, <2>5
<1>7. ASSUME t # <<>>, NEW ins, ins.op \in {"drop", "store"}, Continue(<<At(ins, Types)>>, Popped)
      PROVE  Balanced'
  <2>1. Pushes(ins, t) = <<>> BY <1>7 DEF Pushes
  <2>2. PICK d \in Seq(Kinds) : d = Drop(t, 1) BY <1>3, <1>7, DropProperties
  <2>3. Covers(d, d \o <<>>) BY DropCovers
  <2>4. Continue(<<At(ins, Types)>>, d) BY <1>2, <1>7, <2>2 DEF Popped
  <2>5. Covers(d, Drop(t, 1) \o Pushes(ins, t)) BY <2>1, <2>2, <2>3
  <2>6. ins.op \in {"not", "drop", "dot", "store", "dup"} /\ ins.op # "not" BY <1>7
  <2> QED BY <1>5, <1>7, <2>4, <2>5, <2>6
<1>8. CASE CompileBnot
  <2>1. PICK ins : ins = [op |-> "not"] OBVIOUS
  <2>2. ins.op = "not" BY <2>1
  <2>3. CASE Types # <<>> /\ Top(Types) \in {"int", "byte"}
    <3>1. Continue(<<At(ins, Types)>>, Types) BY <1>8, <2>1, <2>3 DEF CompileBnot, Require
    <3> QED BY <1>2, <1>6, <2>2, <2>3, <3>1
  <2>4. CASE ~(Types # <<>> /\ Top(Types) \in {"int", "byte"})
    <3>1. Reject BY <1>8, <2>4 DEF CompileBnot, Require
    <3> QED BY <1>4, <3>1
  <2> QED BY <2>3, <2>4
<1>9. CASE CompileDrop
  <2>1. PICK ins : ins = [op |-> "drop"] OBVIOUS
  <2>2. ins.op = "drop" BY <2>1
  <2>3. CASE Types # <<>>
    <3>1. Continue(<<At(ins, Types)>>, Popped) BY <1>9, <2>1, <2>3 DEF CompileDrop, Require
    <3> QED BY <1>2, <1>7, <2>2, <2>3, <3>1
  <2>4. CASE Types = <<>>
    <3>1. Reject BY <1>9, <2>4 DEF CompileDrop, Require
    <3> QED BY <1>4, <3>1
  <2> QED BY <2>3, <2>4
<1>10. CASE CompileDup
  <2>1. PICK ins : ins = [op |-> "dup"] OBVIOUS
  <2>2. ins.op = "dup" BY <2>1
  <2>3. CASE Types = <<>> BY <1>4, <1>10, <2>3 DEF CompileDup
  <2>4. CASE Types # <<>>
    <3>1. Pushes(ins, t) = <<Top(t), Top(t)>> BY <2>2 DEF Pushes
    <3>2. PICK ts \in Seq(Kinds) : ts = Append(t, Top(t)) /\ Covers(ts, Drop(t, 1) \o <<Top(t), Top(t)>>)
      BY <1>2, <1>3, <2>4, DupCovers
    <3>3. Continue(<<At(ins, Types)>>, ts) BY <1>2, <1>10, <2>1, <2>4, <3>2 DEF CompileDup
    <3>4. Covers(ts, Drop(t, 1) \o Pushes(ins, t)) BY <3>1, <3>2
    <3>5. ins.op \in {"not", "drop", "dot", "store", "dup"} /\ ins.op # "not" BY <2>2
    <3> QED BY <1>2, <1>5, <2>4, <3>3, <3>4, <3>5
  <2> QED BY <2>3, <2>4
<1>11. CASE CompileDot
  <2>1. CASE Types = <<>> \/ Top(Types) = "poisoned" BY <1>4, <1>11, <2>1 DEF CompileDot
  <2>2. CASE Types # <<>> /\ Top(Types) # "poisoned"
    <3>1. PICK ins : ins = [op |-> "dot", kind |-> Top(Types)] OBVIOUS
    <3>2. ins.op = "dot" BY <3>1
    <3>3. Continue(<<At(ins, Types)>>, Types) BY <1>11, <2>2, <3>1 DEF CompileDot
    <3> QED BY <1>2, <1>6, <2>2, <3>2, <3>3
  <2> QED BY <2>1, <2>2
<1>12. CASE CompileWrite
  <2>1. CASE Types = <<>> BY <1>4, <1>12, <2>1 DEF CompileWrite
  <2>2. CASE Types # <<>>
    <3>1. PICK ins : ins = [op |-> "store", name |-> Node.name] OBVIOUS
    <3>2. ins.op = "store" BY <3>1
    <3>3. Reject \/ Continue(<<At(ins, Types)>>, Popped) BY <1>12, <3>1 DEF CompileWrite
    <3> QED BY <1>2, <1>4, <1>7, <2>2, <3>2, <3>3
  <2> QED BY <2>1, <2>2
<1> QED BY <1>8, <1>9, <1>10, <1>11, <1>12

-----------------------------------------------------------------------------
(* Arguments.                                                                 *)
LEMMA StmtIsCurrent ==
    ASSUME CompilerShape, quirks = {}, work # <<>>
    PROVE  Ctx.stmt = Current.node
<1>1. Activations /\ Contexts /\ OneBody BY ShapeFacts
<1>2. FunctionsFirst BY DEF CompilerShape
<1>3. /\ Len(work) \in Nat \ {0} /\ DOMAIN work = 1 .. Len(work) /\ Current = work[Len(work)]
      /\ Len(work) \in DOMAIN work
      /\ \A k \in DOMAIN work : IsActivation(work[k])
  BY <1>1, BlocksAre
<1>4. \A k \in DOMAIN work : Decl(k).kind \in {"FUNC", "PROC"}
  BY <1>3 DEF IsActivation, DeclaredAs, Decl
<1>5. /\ LastExpanded("PROC", Len(work), proc_ctx.stmt)
      /\ LastExpanded("FUNC", Len(work), func_ctx.stmt)
  BY <1>1 DEF Contexts
<1>6. ASSUME NEW k \in 1 .. Len(work), \A j \in k + 1 .. Len(work) : ~Expands(j)
      PROVE  work[k].node = Current.node
  BY <1>1, <1>3, <1>6 DEF OneBody
<1>7. CASE InProc
  <2>1. PICK k \in 1 .. Len(work) : /\ Expanded(k, "PROC") /\ work[k].node = proc_ctx.stmt
                                    /\ \A j \in k + 1 .. Len(work) : ~Expanded(j, "PROC")
    BY <1>5, <1>7 DEF LastExpanded, InProc
  <2>2. ASSUME NEW j \in k + 1 .. Len(work), Expands(j) PROVE FALSE
    <3>1. j \in DOMAIN work /\ k \in 1 .. j BY <1>3
    <3>2. Decl(j).kind = "PROC" BY <1>2, <2>1, <2>2, <3>1 DEF FunctionsFirst
    <3> QED BY <2>1, <2>2, <3>2 DEF Expanded
  <2> QED BY <1>6, <1>7, <2>1, <2>2 DEF Ctx
<1>8. CASE ~InProc
  <2>1. func_ctx.stmt # NULL /\ \A k \in DOMAIN work : ~Expanded(k, "PROC")
    BY <1>1, <1>8, CurrentContext
  <2>2. PICK k \in 1 .. Len(work) : /\ Expanded(k, "FUNC") /\ work[k].node = func_ctx.stmt
                                    /\ \A j \in k + 1 .. Len(work) : ~Expanded(j, "FUNC")
    BY <1>5, <2>1 DEF LastExpanded
  <2>3. ASSUME NEW j \in k + 1 .. Len(work), Expands(j) PROVE FALSE
    <3>1. j \in DOMAIN work BY <1>3
    <3> QED BY <1>4, <2>1, <2>2, <2>3, <3>1 DEF Expanded
  <2> QED BY <1>6, <1>8, <2>2, <2>3 DEF Ctx
<1> QED BY <1>7, <1>8

(* The cell a load names, counted from the top of the types of its block.     *)
LEMMA SlotIsOwn ==
    ASSUME CompilerShape, quirks = {}, NEW kinds, Compiling(kinds), NEW i \in 1 .. Len(Stmt.args),
           NEW n, NEW load,
           load = [op |-> "loadarg", slot |-> stack_idx(i), arg |-> i, kind |-> Stmt.args[i].kind,
                   nargs |-> Len(Stmt.args)],
           code'[n] = View(load, Current.of, Current.under \o Types, Current.marks)
    PROVE  /\ OwnSlot(n)' /\ stack_idx(i) \in Nat
           /\ Len(Current.marks) = 1 => work[1].node = Ctx.stmt
<1>1. work # <<>> /\ IsProgram(prog) /\ Activations /\ Contexts BY ShapeFacts, Statement
<1>2. Ctx.stmt = Current.node BY <1>1, StmtIsCurrent
<1>3. IsBlock(Len(work)) /\ Current = work[Len(work)] BY <1>1, BlocksAre
<1>4. DeclaredAs(Ctx.stmt, {"FUNC", "PROC", "EXTERN"}) BY <1>1, StmtIsDeclared DEF DeclaredAs
<1>5. PICK args : args = Stmt.args OBVIOUS
<1>6. /\ IsSeq(args) /\ Len(args) \in Nat /\ DOMAIN args = 1 .. Len(args)
      /\ ArgKinds(args) \in Seq(Kinds) /\ Len(ArgKinds(args)) = Len(args)
  BY <1>1, <1>4, <1>5, SignatureOf, IsSeqProperties DEF Stmt
<1>7. args = astid(Current.node).args /\ Stmt.inlin = astid(Current.node).inlin BY <1>2, <1>5 DEF Stmt
<1>8. PICK u, t, ms : u = Current.under /\ t = Types /\ ms = Current.marks OBVIOUS
<1>9. u \in Seq(Kinds) /\ t \in Seq(Kinds) /\ ms \in Seq(Nat) /\ ms # <<>> BY <1>1, <1>8, HereFacts
<1>10. PICK a, b, c : a = Len(u) /\ b = Len(t) /\ c = Len(args) OBVIOUS
<1>11. a \in Nat /\ b \in Nat /\ c \in Nat /\ i \in 1 .. c BY <1>5, <1>6, <1>9, <1>10, LenProperties
<1>12. PICK s : s = u \o t OBVIOUS
<1>13. Len(s) = a + b /\ \A j \in 1 .. a : s[j] = u[j]
  <2>1. Len(s) = a + b /\ \A j \in 1 .. a + b : s[j] = IF j <= a THEN u[j] ELSE t[j - a]
    BY <1>9, <1>10, <1>12, ConcatProperties
  <2>2. \A j \in 1 .. a : j \in 1 .. a + b /\ j <= a BY <1>11
  <2> QED BY <2>1, <2>2
<1>14. /\ code'[n].ins = load /\ code'[n].types = s /\ code'[n].marks = ms
  BY <1>8, <1>12 DEF View
<1>15. load.slot = c - (i - 1) + b - (IF Stmt.inlin THEN 1 ELSE 0) /\ load.nargs = c /\ load.arg = i
  BY <1>5, <1>8, <1>10 DEF stack_idx
<1>16. load.slot = stack_idx(i) OBVIOUS
<1>17. CASE Len(ms) = 1
  <2>1. OfRoutine(Current) BY <1>3, <1>8, <1>17 DEF IsBlock
  <2>2. Current.under = <<>> /\ work[1].node = Current.node /\ (~Stmt.inlin \/ args = <<>>)
    BY <2>1, <1>7 DEF OfRoutine
  <2>3. a = 0 BY <1>8, <1>10, <2>2, SmallSeqs
  <2>4. ~Stmt.inlin
    <3> SUFFICES ASSUME args = <<>> PROVE FALSE BY <2>2
    <3>1. c = 0 BY <1>10, SmallSeqs
    <3> QED BY <3>1, <1>11
  <2>5. load.slot = c - (i - 1) + b BY <1>11, <1>15, <2>4
  <2>6. load.slot = Len(s) + 1 + c - i /\ load.slot \in Nat BY <2>3, <2>5, <1>11, <1>13, SMTT(30)
  <2>7. OwnSlot(n)' BY <1>14, <1>15, <1>17, <2>6 DEF OwnSlot
  <2> QED BY <1>2, <1>16, <2>2, <2>6, <2>7
<1>18. CASE Len(ms) # 1
  <2>1. OfInlined(Current) BY <1>3, <1>8, <1>18 DEF IsBlock
  <2>2. Top(ms) = a /\ Stmt.inlin /\ a >= c /\ TopN(u, c) = ArgKinds(args)
    BY <2>1, <1>7, <1>8, <1>10 DEF OfInlined
  <2>3. load.slot = c - (i - 1) + b - 1 BY <1>15, <2>2
  <2>4. load.slot = Len(s) - a + c - i /\ load.slot \in Nat /\ a <= Len(s) BY <2>3, <1>11, <1>13
  <2>5. a - c + i \in 1 .. a BY <2>2, <1>11
  <2>6. s[a - c + i] = u[a - c + i] BY <2>5, <1>13
  <2>7. TopN(u, c)[i] = u[a - c + i]
    <3>1. IsSeq(u) BY <1>9, SeqIsSeq
    <3> QED BY <3>1, <2>2, <1>10, <1>11, TopNProperties, ZenonT(40)
  <2>8. ArgKinds(args)[i] = args[i].kind BY <1>6, <1>10, <1>11 DEF ArgKinds
  <2>9. s[a - c + i] = load.kind BY <2>2, <2>6, <2>7, <2>8, <1>5, SMTT(30)
  <2>10. OwnSlot(n)' BY <1>14, <1>15, <1>18, <2>2, <2>4, <2>9 DEF OwnSlot
  <2> QED BY <1>8, <1>16, <1>18, <2>4, <2>10
<1> QED BY <1>17, <1>18

LoadOf(i) == [op |-> "loadarg", slot |-> stack_idx(i), arg |-> i, kind |-> Stmt.args[i].kind,
              nargs |-> Len(Stmt.args)]

LEMMA ArgumentSits ==
    ASSUME CompilerShape, quirks = {}, NEW kinds, Compiling(kinds), KeepsMaps,
           NEW i \in 1 .. Len(Stmt.args), Stmt.args[i].kind \in Declarable, NEW n, NEW load,
           load = LoadOf(i), NEW s \in Seq(Kinds), s = Here.types, NEW ms, ms = Current.marks,
           code'[n] = View(load, Current.of, s, ms)
    PROVE  Sits(n)' /\ TypesAfter(n)' = Drop(s, 0) \o <<load.kind>> /\ MarksAfter(n)' = ms
<1>1. work # <<>> /\ IsProgram(prog) /\ Activations /\ Contexts BY ShapeFacts, Statement
<1>2. /\ OwnSlot(n)' /\ stack_idx(i) \in Nat
      /\ Len(Current.marks) = 1 => work[1].node = Ctx.stmt
  <2>1. load = [op |-> "loadarg", slot |-> stack_idx(i), arg |-> i, kind |-> Stmt.args[i].kind,
                nargs |-> Len(Stmt.args)]
    BY DEF LoadOf
  <2>2. code'[n] = View(load, Current.of, Current.under \o Types, Current.marks) BY DEF Here, At, View
  <2> QED BY <2>1, <2>2, SlotIsOwn
<1>3. PICK of : of = Current.of OBVIOUS
<1>4. of # START /\ Find(values_map, of) = work[1].node /\ work[1].node # NULL
      /\ ms \in Seq(Nat) /\ ms # <<>>
  BY <1>1, <1>3, HereFacts
<1>5. Find(values_map, of)' = work[1].node BY <1>3, <1>4 DEF KeepsMaps
<1>6. /\ code'[n].ins = load /\ code'[n].of = of /\ code'[n].types = s /\ code'[n].marks = ms
  BY <1>3 DEF View
<1>7. /\ load.op = "loadarg" /\ load.slot \in Nat /\ load.arg \in 1 .. load.nargs
      /\ load.kind \in Kinds \ {"poisoned"} /\ load.nargs = Len(Stmt.args) /\ load.arg = i
      /\ load.kind = Stmt.args[i].kind
  BY <1>2 DEF Declarable, LoadOf
<1>8. load.nargs \in Nat
  <2>1. DeclaredAs(Ctx.stmt, {"FUNC", "PROC", "EXTERN"}) BY <1>1, StmtIsDeclared DEF DeclaredAs
  <2> QED BY <1>1, <1>7, <2>1, SignatureOf DEF Stmt
<1>9. WellFormed(n)' BY <1>4, <1>6, <1>7, <1>8 DEF WellFormed
<1>10. Pops(load) = 0 /\ Pushes(load, s) = <<load.kind>> BY <1>7 DEF Pops, Pushes
<1>11. HasWhatItNeeds(n)'
  <2>1. Len(s) >= 0 BY LenProperties
  <2> QED BY <1>2, <1>4, <1>6, <1>7, <1>10, <2>1 DEF HasWhatItNeeds
<1>12. AsDeclared(n)'
  <2>1. Len(ms) = 1 => Declares(of)' = Stmt
    <3>1. Declares(of)' = astid(work[1].node) BY <1>5, SameAsts DEF KeepsMaps, Declares
    <3> QED BY <3>1, <1>2 DEF Stmt
  <2> QED BY <1>4, <1>5, <1>6, <1>7, <2>1 DEF AsDeclared
<1>13. TypesAfter(n)' = Drop(s, 0) \o <<load.kind>> /\ MarksAfter(n)' = ms
  BY <1>6, <1>7, <1>10 DEF TypesAfter, MarksAfter
<1> QED BY <1>9, <1>11, <1>12, <1>13 DEF Sits

LEMMA BalancedArgument ==
    ASSUME CompilerShape, Balanced, quirks = {}, NEW kinds, Compiling(kinds), NEW name, compile_argument_push(name)
    PROVE  Balanced'
<1>1. CASE Arguments(name) = {} BY <1>1, BalancedStops DEF compile_argument_push, Reject
<1>2. CASE Arguments(name) # {}
  <2> DEFINE i == CHOOSE j \in Arguments(name) : \A k \in Arguments(name) : j <= k
             load == [op |-> "loadarg", slot |-> stack_idx(i), arg |-> i, kind |-> Stmt.args[i].kind,
                      nargs |-> Len(Stmt.args)]
  <2>1. PICK read \in ArgReads :
           IF read = "fault" THEN Crash
           ELSE Continue(<<At(load, Types)>>,
                         Append(Types, IF read = "declared" THEN Stmt.args[i].kind ELSE "poisoned"))
    BY <1>2 DEF compile_argument_push
  <2>2. CASE read = "fault" BY <2>1, <2>2, BalancedStops DEF Crash
  <2>3. CASE read # "fault"
    <3>1. PICK a \in 1 .. Len(Stmt.args) : a = i /\ Stmt.args[a].kind \in Declarable BY <1>2, FirstArgument
    <3>2. PICK ins : ins = LoadOf(a) OBVIOUS
    <3>3. PICK k : k = (IF read = "declared" THEN Stmt.args[a].kind ELSE "poisoned") OBVIOUS
    <3>4. Continue(<<At(ins, Types)>>, Append(Types, k)) BY <2>1, <2>3, <3>1, <3>2, <3>3 DEF LoadOf
    <3> HIDE DEF i, load
    <3>5. ins.kind \in Kinds /\ k \in Kinds /\ k \in {"poisoned", ins.kind} /\ ins.op = "loadarg"
          /\ ins.kind \in Declarable
      BY <3>1, <3>2, <3>3, PoisonedIsAKind DEF Declarable, LoadOf
    <3>6. PICK u, t, of, ms : u = Current.under /\ t = Types /\ of = Current.of /\ ms = Current.marks OBVIOUS
    <3>7. work # <<>> /\ ~Finished BY Statement
    <3>8. u \in Seq(Kinds) /\ t \in Seq(Kinds) /\ u \o t \in Seq(Kinds) BY <3>6, <3>7, HereFacts
    <3>9. PICK ts \in Seq(Kinds) : ts = Append(t, k) /\ Covers(ts, t \o <<ins.kind>>)
      BY <3>5, <3>8, PushCovers
    <3>10. Continue(<<At(ins, Types)>>, ts) BY <3>4, <3>6, <3>9
    <3>11. CASE Overflow(Types, ts) # "none" BY <3>10, <3>11, BalancedStops DEF Continue
    <3>12. CASE Overflow(Types, ts) = "none"
      <4>1. /\ Emit(<<At(ins, Types)>>) /\ SetTypes(ts) /\ work' = Advanced(work)
            /\ UNCHANGED <<prog, phase, maps, labels, quirks>>
        BY <3>10, <3>12 DEF Continue
      <4>2. Activations /\ Contexts /\ IsProgram(prog) /\ Maps BY ShapeFacts
      <4>3. Moved(Len(work)) BY <4>1, <4>2, <3>7, AdvancedMoves
      <4>4. KeepsMaps BY <4>1, <4>2, MapsStay DEF maps
      <4>5. FuncKept(Len(work)) BY <4>1, <3>7, SetTypesKeepsFunc
      <4>6. Types' = ts BY <4>1, <4>2, <3>7, SetTypesKeeps
      <4>7. PICK after : after = Here' OBVIOUS
      <4>8. PICK n : n = Len(code) + 1 OBVIOUS
      <4>9. Len(work) \in Nat \ {0} /\ Current = work[Len(work)] BY <3>7, HereFacts
      <4>10. after.of = of /\ after.types = u \o ts /\ after.marks = ms
        BY <4>3, <4>6, <4>7, <4>9, <3>6, HereMoves
      <4>11. ASSUME code'[n] = View(ins, of, u \o t, ms) PROVE Sits(n)' /\ (Falls(n)' => Joins(n, after)')
        <5>1. PICK s \in Seq(Kinds) : s = u \o t BY <3>8
        <5>2. Sits(n)' /\ TypesAfter(n)' = Drop(s, 0) \o <<ins.kind>> /\ MarksAfter(n)' = ms
          <6>1. s = Here.types /\ ms = Current.marks BY <3>6, <5>1 DEF Here, At, View
          <6>2. code'[n] = View(ins, Current.of, s, ms) BY <3>6, <4>11, <5>1
          <6>3. Stmt.args[a].kind \in Declarable BY <3>1
          <6> QED BY <3>2, <4>4, <6>1, <6>2, <6>3, ArgumentSits, ZenonT(40)
        <5>3. Covers(u \o ts, s \o <<ins.kind>>)
          <6>1. PICK q \in Seq(Kinds) : q = <<ins.kind>> BY <3>5, SmallStacks, Zenon
          <6>2. PICK w \in Seq(Kinds) : w = t \o q BY <3>8, ConcatProperties
          <6>3. Covers(u \o ts, u \o w) BY <3>8, <3>9, <6>1, <6>2, CoversOnto
          <6>4. (u \o t) \o q = u \o w BY ONLY ConcatAssoc, <3>8, <6>2, SMTT(30)
          <6> QED BY <5>1, <6>1, <6>3, <6>4
        <5>4. Drop(s, 0) = s BY DropNone
        <5>5. code'[n].of = of BY <4>11 DEF View
        <5> QED BY <4>10, <5>2, <5>3, <5>4, <5>5 DEF Joins
      <4>12. Harmless(ins) BY <3>5 DEF Harmless
      <4> QED BY <3>6, <3>7, <4>1, <4>3, <4>4, <4>5, <4>6, <4>7, <4>8, <4>11, <4>12, BalancedOne
    <3> QED BY <3>11, <3>12
  <2> QED BY <2>2, <2>3
<1> QED BY <1>1, <1>2

LEMMA BalancedLiteral == ASSUME CompilerShape, Balanced, quirks = {}, CompileLiteral PROVE Balanced'
<1>1. Compiling({"LITERAL"}) BY DEF CompileLiteral
<1>2. PICK name, value : name = Node.name /\ value = Find(values_map, name) OBVIOUS
<1>3. IsProgram(prog) BY ShapeFacts
<1>4. CASE name \in DOMAIN prog.consts
  <2>1. PICK ins : ins = PushOf(prog.consts[name].kind, Wrap(prog.consts[name].value)) OBVIOUS
  <2>2. ins.op = "push" /\ ins.kind = prog.consts[name].kind BY <2>1 DEF PushOf
  <2>3. Continue(<<At(ins, Types)>>, Append(Types, ins.kind)) BY <1>2, <1>4, <2>1, <2>2 DEF CompileLiteral
  <2>4. ins.kind \in Declarable BY <1>3, <1>4, <2>2 DEF IsProgram
  <2> QED BY <1>1, <2>2, <2>3, <2>4, BalancedPushOf
<1>5. CASE name \notin DOMAIN prog.consts /\ name \in DOMAIN prog.vars
  <2>1. PICK ins : ins = LoadVar(name) OBVIOUS
  <2>2. ins.op = "loadvar" /\ ins.kind = prog.vars[name].kind BY <2>1 DEF LoadVar
  <2>3. Continue(<<At(ins, Types)>>, Append(Types, "poisoned")) BY <1>2, <1>5, <2>1 DEF CompileLiteral
  <2>4. ins.kind \in Declarable BY <1>3, <1>5, <2>2 DEF IsProgram
  <2> QED BY <1>1, <2>2, <2>3, <2>4, BalancedPushOf
<1>6. CASE name \notin DOMAIN prog.consts /\ name \notin DOMAIN prog.vars /\ value # NULL
  <2>1. CASE astid(value).kind = "EXTERN" BY <1>2, <1>6, <2>1, BalancedStops DEF CompileLiteral, Crash
  <2>2. CASE astid(value).kind # "EXTERN"
    <3>1. PICK ins : ins = PushOf("funcptr", value) OBVIOUS
    <3>2. ins.op = "push" /\ ins.kind = "funcptr" BY <3>1 DEF PushOf
    <3>3. Continue(<<At(ins, Types)>>, Append(Types, "funcptr")) BY <1>2, <1>6, <2>2, <3>1 DEF CompileLiteral
    <3>4. ins.kind \in Declarable BY <3>2 DEF Declarable, Kinds
    <3> QED BY <1>1, <3>2, <3>3, <3>4, BalancedPushOf
  <2> QED BY <2>1, <2>2
<1>7. CASE name \notin DOMAIN prog.consts /\ name \notin DOMAIN prog.vars /\ value = NULL
  <2>1. compile_argument_push(name) BY <1>2, <1>7 DEF CompileLiteral
  <2> QED BY <1>1, <2>1, BalancedArgument
<1> QED BY <1>4, <1>5, <1>6, <1>7

LEMMA BalancedNothing == ASSUME CompilerShape, Balanced, quirks = {}, CompileNothing PROVE Balanced'
<1>1. PICK kinds : Compiling(kinds) BY DEF CompileNothing
<1>2. CASE Node.kind = "POISONED" BY <1>2, BalancedStops DEF CompileNothing, Crash
<1>3. CASE Node.kind # "POISONED"
  <2>1. PICK ts \in Seq(Kinds) : ts = Types BY <1>1, Statement
  <2>2. Continue(<<>>, ts) BY <1>3, <2>1 DEF CompileNothing
  <2>3. CASE Overflow(Types, ts) # "none" BY <2>2, <2>3, BalancedStops DEF Continue
  <2>4. CASE Overflow(Types, ts) = "none"
    <3>1. /\ Emit(<<>>) /\ SetTypes(ts) /\ work' = Advanced(work)
          /\ UNCHANGED <<prog, phase, maps, labels, quirks>>
      BY <2>2, <2>4 DEF Continue
    <3>2. work # <<>> /\ ~Finished BY <1>1, Statement
    <3>3. Activations /\ Contexts /\ IsProgram(prog) /\ Maps BY ShapeFacts
    <3>4. Moved(Len(work)) BY <3>1, <3>2, <3>3, AdvancedMoves
    <3>5. KeepsMaps BY <3>1, <3>3, MapsStay DEF maps
    <3>6. FuncKept(Len(work)) BY <3>1, <3>2, SetTypesKeepsFunc
    <3>7. Types' = Types BY <3>1, <3>2, <3>3, <2>1, SetTypesKeeps
    <3> QED BY <3>1, <3>2, <3>4, <3>5, <3>6, <3>7, BalancedNone
  <2> QED BY <2>3, <2>4
<1> QED BY <1>2, <1>3

LEMMA BalancedSyscall ==
    ASSUME CompilerShape, Balanced, CompileSyscall, quirks' = {} PROVE Balanced'
<1>1. CASE Len(Types) < Node.args + 1 BY <1>1, BalancedStops DEF CompileSyscall, Reject
<1>2. CASE ~(Len(Types) < Node.args + 1) BY <1>2 DEF CompileSyscall
<1> QED BY <1>1, <1>2

-----------------------------------------------------------------------------
(* Calls.                                                                     *)
IsCall(ins) ==
    /\ ins.op \in {"call", "ffi"} /\ ins.args \in Seq(Kinds) /\ ins.rets \in Seq(Kinds)
    /\ ins.op = "ffi" => Len(ins.rets) <= 1 /\ Len(ins.args) <= REGISTERS
CalleeKnown(ins) ==
    ins.op = "call" => /\ Find(values_map, ins.name) # NULL
                       /\ ins.args = ArgKinds(Declares(ins.name).args)
                       /\ ins.rets = Reversed(Declares(ins.name).rets)

LEMMA CallSits ==
    ASSUME NEW i, NEW ins, IsCall(ins), CalleeKnown(ins)', NEW of, of # START => Find(values_map, of)' # NULL,
           ins.op = "ffi" => of # START,
           NEW s \in Seq(Kinds), NEW ms \in Seq(Nat), code'[i] = View(ins, of, s, ms),
           Len(s) >= Len(ins.args), TopN(s, Len(ins.args)) = ins.args
    PROVE  /\ Sits(i)' /\ Falls(i)'
           /\ TypesAfter(i)' = Drop(s, Len(ins.args)) \o ins.rets /\ MarksAfter(i)' = ms
<1> USE DEF IsCall, CalleeKnown
<1>1. code'[i].ins = ins /\ code'[i].of = of /\ code'[i].types = s /\ code'[i].marks = ms
  BY DEF View
<1>2. Pops(ins) = Len(ins.args) /\ Pushes(ins, s) = ins.rets BY DEF Pops, Pushes
<1>3. WellFormed(i)' BY <1>1 DEF WellFormed
<1>4. HasWhatItNeeds(i)' BY <1>1, <1>2 DEF HasWhatItNeeds
<1>5. AsDeclared(i)' BY <1>1 DEF AsDeclared
<1>6. TypesAfter(i)' = Drop(s, Len(ins.args)) \o ins.rets BY <1>1, <1>2 DEF TypesAfter
<1>7. MarksAfter(i)' = ms BY <1>1 DEF MarksAfter
<1>8. Falls(i)' BY <1>1 DEF Falls
<1> QED BY <1>3, <1>4, <1>5, <1>6, <1>7, <1>8 DEF Sits

(* The kinds on top of the stack are those of the declared arguments.         *)
LEMMA ArgumentsOnTop ==
    ASSUME NEW t \in Seq(Kinds), NEW args, IsSeq(args), ArgKinds(args) \in Seq(Kinds),
           Len(ArgKinds(args)) = Len(args), NEW p \in Nat, p = Len(args), p <= Len(t),
           \A i \in 1 .. p : TopN(t, p)[i] = args[i].kind
    PROVE  TopN(t, p) = ArgKinds(args)
<1>1. IsSeq(t) /\ IsSeq(ArgKinds(args)) BY SeqIsSeq
<1>2. IsSeq(TopN(t, p)) /\ Len(TopN(t, p)) = p BY <1>1, TopNProperties
<1>3. DOMAIN args = 1 .. p BY IsSeqProperties
<1>4. \A i \in 1 .. p : ArgKinds(args)[i] = args[i].kind BY <1>3 DEF ArgKinds
<1> QED BY <1>1, <1>2, <1>4, SameSeq

LEMMA OneReversed ==
    ASSUME NEW rets \in Seq(Kinds), Len(rets) <= 1
    PROVE  Reversed(rets) = IF rets # <<>> THEN <<rets[1]>> ELSE <<>>
<1>1. IsSeq(rets) /\ Len(rets) \in Nat BY LenProperties, SeqIsSeq
<1>2. /\ IsSeq(Reversed(rets)) /\ Len(Reversed(rets)) = Len(rets)
      /\ \A i \in 1 .. Len(rets) : Reversed(rets)[i] = rets[Len(rets) + 1 - i]
  BY <1>1, ReversedProperties
<1>3. CASE rets = <<>>
  <2>1. PICK e : e = <<>> OBVIOUS
  <2>2. IsSeq(e) /\ Len(e) = 0 /\ \A i : i \notin 1 .. Len(e) BY <2>1, EmptySequence
  <2>3. Len(rets) = Len(e) BY <1>3, <2>1
  <2>4. Reversed(rets) = e BY <1>2, <2>2, <2>3, SameSeq
  <2> QED BY <1>3, <2>1, <2>4
<1>4. CASE rets # <<>>
  <2>1. Len(rets) = 1
    <3>1. Len(rets) >= 1 BY <1>4, LenProperties
    <3>2. PICK k : k = Len(rets) OBVIOUS
    <3>3. k \in Nat /\ k >= 1 /\ k <= 1 BY <1>1, <3>1, <3>2
    <3>4. k = 1 BY <3>3
    <3> QED BY <3>2, <3>4
  <2>2. Reversed(rets)[1] = rets[1] BY <1>2, <2>1
  <2>3. PICK s : s = <<rets[1]>> OBVIOUS
  <2>4. IsSeq(s) /\ Len(s) = 1 /\ s[1] = rets[1] BY <2>3, SmallSeqs
  <2>5. \A i \in 1 .. 1 : i = 1 OBVIOUS
  <2>6. Reversed(rets) = s BY <1>2, <2>1, <2>2, <2>4, <2>5, SameSeq
  <2> QED BY <1>4, <2>3, <2>6
<1> QED BY <1>3, <1>4

(* A call that is written as an instruction.                                  *)
LEMMA BalancedCalled ==
    ASSUME CompilerShape, Balanced, quirks = {}, work # <<>>, ~Finished, KeepsMaps,
           NEW ins, IsCall(ins), CalleeKnown(ins)',
           Len(Types) >= Len(ins.args), TopN(Types, Len(ins.args)) = ins.args,
           NEW ts \in Seq(Kinds), ts = Drop(Types, Len(ins.args)) \o ins.rets,
           Emit(<<At(ins, Types)>>), SetTypes(ts), work' = Advanced(work), prog' = prog
    PROVE  Balanced'
<1>1. Activations /\ Contexts /\ IsProgram(prog) BY ShapeFacts
<1>2. Moved(Len(work)) BY <1>1, AdvancedMoves
<1>3. FuncKept(Len(work)) BY SetTypesKeepsFunc
<1>4. Types' = ts BY <1>1, SetTypesKeeps
<1>5. PICK after : after = Here' OBVIOUS
<1>6. PICK n : n = Len(code) + 1 OBVIOUS
<1>7. PICK of, u, t, ms : of = Current.of /\ u = Current.under /\ t = Types /\ ms = Current.marks OBVIOUS
<1>8. /\ Len(work) \in Nat \ {0} /\ Current = work[Len(work)]
      /\ of # START /\ Find(values_map, of) # NULL /\ u \in Seq(Kinds) /\ t \in Seq(Kinds)
      /\ ms \in Seq(Nat) /\ u \o t \in Seq(Kinds)
  BY <1>7, HereFacts
<1>9. after.of = of /\ after.types = u \o ts /\ after.marks = ms
  BY <1>2, <1>4, <1>5, <1>7, <1>8, HereMoves
<1>10. Find(values_map, of)' # NULL BY <1>8 DEF KeepsMaps
<1>11. PICK p, q : p = Len(ins.args) /\ q = ins.rets OBVIOUS
<1>12. p \in Nat /\ p <= Len(t) /\ q \in Seq(Kinds) /\ TopN(t, p) = ins.args
  <2>1. Len(ins.args) \in Nat /\ ins.rets \in Seq(Kinds) BY LenProperties DEF IsCall
  <2>2. Len(t) >= Len(ins.args) /\ TopN(t, Len(ins.args)) = ins.args BY <1>7
  <2>3. Len(t) \in Nat BY <1>8, LenProperties
  <2> QED BY <1>11, <2>1, <2>2, <2>3
<1>13. TopN(u \o t, p) = ins.args BY <1>8, <1>12, Stacked
<1>14. Covers(u \o ts, Drop(u \o t, p) \o q) /\ Len(u \o t) >= p
  <2>1. PICK d \in Seq(Kinds) : d = Drop(t, p) BY <1>8, <1>12, Stacked
  <2>2. ts = d \o q BY <1>7, <1>11, <2>1
  <2>3. PICK w \in Seq(Kinds) : w = d \o q BY <2>2
  <2>4. Covers(ts, w) BY <2>2, <2>3, CoversItself
  <2>5. PICK r \in Seq(Kinds) : r = ts BY <2>3
  <2>6. Covers(r, w) BY <2>4, <2>5
  <2>7. Covers(u \o r, Drop(u \o t, p) \o q) /\ Len(u \o t) >= p
    BY <1>8, <1>12, <2>1, <2>3, <2>6, AfterOnto
  <2> QED BY <2>5, <2>7
<1>15. ASSUME code'[n] = View(ins, of, u \o t, ms) PROVE Sits(n)' /\ (Falls(n)' => Joins(n, after)')
  <2>1. PICK s \in Seq(Kinds) : s = u \o t BY <1>8
  <2>2. /\ Sits(n)' /\ TypesAfter(n)' = Drop(s, Len(ins.args)) \o ins.rets /\ MarksAfter(n)' = ms
    <3>1. code'[n] = View(ins, of, s, ms) /\ Len(s) >= Len(ins.args) /\ TopN(s, Len(ins.args)) = ins.args
      BY <1>11, <1>13, <1>14, <1>15, <2>1
    <3>2. of # START => Find(values_map, of)' # NULL BY <1>10
    <3>3. ins.op = "ffi" => of # START BY <1>8
    <3>4. s \in Seq(Kinds) /\ ms \in Seq(Nat) BY <1>8, <2>1
    <3> QED BY ONLY <3>1, <3>2, <3>3, <3>4, CallSits, IsCall(ins), CalleeKnown(ins)', ZenonT(40)
  <2>3. code'[n].of = of BY <1>15 DEF View
  <2>4. Covers(after.types, TypesAfter(n)') BY <1>9, <1>11, <1>14, <2>1, <2>2
  <2> QED BY <1>9, <2>2, <2>3, <2>4 DEF Joins
<1>16. Harmless(ins) BY DEF Harmless, IsCall
<1> QED BY <1>2, <1>3, <1>4, <1>5, <1>6, <1>7, <1>15, <1>16, BalancedOne

LEMMA DropAndTop ==
    ASSUME NEW t \in Seq(Kinds), NEW p \in Nat, p <= Len(t)
    PROVE  TopN(t, p) \in Seq(Kinds) /\ Drop(t, p) \o TopN(t, p) = t
<1>1. PICK d \in Seq(Kinds) : d = Drop(t, p) BY DropProperties
<1>2. Len(t) \in Nat /\ Len(d) = Len(t) - p /\ \A i \in 1 .. Len(t) - p : d[i] = t[i]
  BY <1>1, DropProperties, LenProperties
<1>3. IsSeq(t) BY SeqIsSeq
<1>4. PICK q : q = TopN(t, p) OBVIOUS
<1>5. /\ IsSeq(q) /\ Len(q) = p
      /\ \A i \in 1 .. p : q[i] = t[Len(t) - p + i]
  BY <1>3, <1>4, TopNProperties
<1>6. q \in Seq(Kinds)
  <2>1. DOMAIN q = 1 .. p BY <1>5, IsSeqProperties
  <2>2. \A i \in 1 .. p : Len(t) - p + i \in 1 .. Len(t) BY <1>2
  <2>3. \A i \in 1 .. p : q[i] \in Kinds BY <1>5, <2>2, ElementOfSeq
  <2>4. q \in Seq({q[i] : i \in DOMAIN q}) BY <1>5 DEF IsSeq
  <2>5. q \in [1 .. p -> Kinds] BY <1>5, <2>1, <2>3, <2>4
  <2> QED BY <2>5
<1>7. /\ Len(d \o q) = Len(d) + Len(q) /\ d \o q \in Seq(Kinds)
      /\ \A i \in 1 .. Len(d) + Len(q) : (d \o q)[i] = IF i <= Len(d) THEN d[i] ELSE q[i - Len(d)]
  BY <1>6, ConcatProperties
<1>8. PICK w \in Seq(Kinds) : w = d \o q BY <1>7
<1>9. Len(w) = Len(t)
  <2>1. Len(w) = Len(d) + Len(q) BY <1>7, <1>8
  <2>2. Len(d) + Len(q) = Len(t) BY <1>2, <1>5
  <2> QED BY <2>1, <2>2
<1>10. ASSUME NEW i \in 1 .. Len(t) PROVE w[i] = t[i]
  <2>1. i \in 1 .. Len(d) + Len(q) BY <1>2, <1>5
  <2>2. w[i] = IF i <= Len(d) THEN d[i] ELSE q[i - Len(d)] BY <1>7, <1>8, <2>1
  <2>3. CASE i <= Len(d)
    <3>1. i \in 1 .. Len(t) - p BY <1>2, <2>3
    <3> QED BY <1>2, <2>2, <2>3, <3>1
  <2>4. CASE ~(i <= Len(d))
    <3>1. PICK j : j = i - Len(d) OBVIOUS
    <3>2. j \in 1 .. p /\ Len(t) - p + j = i BY <1>2, <2>4, <3>1
    <3> QED BY <1>5, <2>2, <2>4, <3>1, <3>2
  <2> QED BY <2>3, <2>4
<1>11. IsSeq(w) BY <1>8, SeqIsSeq
<1>12. w = t BY <1>3, <1>9, <1>10, <1>11, SameSeq
<1> QED BY <1>1, <1>4, <1>6, <1>8, <1>12

(* The types a body starts with, and those that wait for its end.             *)
LEMMA InlinedTypes ==
    ASSUME Activations, Contexts, work # <<>>, prog' = prog,
           NEW id \in 0 .. asts_len - 1, NEW ts \in Seq(Kinds), NEW isProc \in BOOLEAN,
           NEW own, own = IF isProc THEN proc_ctx ELSE func_ctx,
           NEW saved, saved = IF isProc = InProc THEN WithTypes(own, ts) ELSE own,
           IF isProc
           THEN /\ proc_ctx' = ForBody(own, id)
                /\ func_ctx' = IF InProc THEN func_ctx ELSE WithTypes(func_ctx, ts)
           ELSE /\ func_ctx' = ForBody(own, id)
                /\ proc_ctx' = IF InProc THEN WithTypes(proc_ctx, ts) ELSE proc_ctx,
           isProc \/ ~InProc
    PROVE  /\ Types' = <<>>
           /\ (IF saved.stmt # NULL THEN saved.types ELSE func_ctx'.types) = ts
           /\ InProc => func_ctx' = func_ctx
<1>1. /\ saved.stmt = own.stmt
      /\ IF isProc THEN proc_ctx'.stmt = id /\ func_ctx'.stmt = func_ctx.stmt
                   ELSE func_ctx'.stmt = id /\ proc_ctx'.stmt = proc_ctx.stmt
      /\ isProc => proc_ctx'.types = <<>>
      /\ ~isProc => func_ctx'.types = <<>>
  BY InlinedContexts
<1>2. /\ IsContext(proc_ctx) /\ IsContext(func_ctx) /\ InProc \in BOOLEAN
      /\ (~InProc => func_ctx.stmt # NULL) /\ (InProc => proc_ctx.stmt # NULL)
  BY CurrentContext DEF InProc
<1>3. id # NULL BY DEF NULL
<1>4. ASSUME NEW c, IsContext(c), c.stmt # NULL PROVE WithTypes(c, ts).types = ts /\ WithTypes(c, ts).stmt = c.stmt
  BY <1>4, ContextWith
<1>5. CASE isProc
  <2>1. InProc' /\ Types' = <<>> BY <1>1, <1>3, <1>5 DEF InProc, Ctx, Types
  <2>2. CASE InProc
    <3>1. saved = WithTypes(own, ts) /\ own = proc_ctx /\ func_ctx' = func_ctx BY <1>5, <2>2
    <3>2. saved.types = ts /\ saved.stmt # NULL BY <1>2, <1>4, <2>2, <3>1
    <3> QED BY <2>1, <3>1, <3>2
  <2>3. CASE ~InProc
    <3>1. saved = own /\ own = proc_ctx /\ func_ctx' = WithTypes(func_ctx, ts) BY <1>5, <2>3
    <3>2. saved.stmt = NULL BY <2>3, <3>1 DEF InProc
    <3>3. func_ctx'.types = ts BY <1>2, <1>4, <2>3, <3>1
    <3> QED BY <2>1, <2>3, <3>2, <3>3
  <2> QED BY <2>2, <2>3
<1>6. CASE ~isProc
  <2>1. ~InProc BY <1>6
  <2>2. ~InProc' /\ Types' = <<>> BY <1>1, <1>6, <2>1 DEF InProc, Ctx, Types
  <2>3. saved = WithTypes(own, ts) /\ own = func_ctx
    <3>1. isProc = InProc BY <1>2, <1>6, <2>1
    <3> QED BY <1>6, <3>1
  <2>4. saved.types = ts /\ saved.stmt # NULL BY <1>2, <1>4, <2>1, <2>3
  <2> QED BY <2>1, <2>2, <2>4
<1> QED BY <1>5, <1>6

(* A body is entered: one instruction, and one more block.                    *)
LEMMA EnterSits ==
    ASSUME NEW i, NEW of, of # START, Find(values_map, of)' # NULL,
           NEW s \in Seq(Kinds), NEW ms \in Seq(Nat), code'[i] = View([op |-> "enter"], of, s, ms)
    PROVE  Sits(i)' /\ TypesAfter(i)' = s /\ MarksAfter(i)' = Append(ms, Len(s))
<1>1. /\ code'[i].ins.op = "enter" /\ code'[i].of = of /\ code'[i].types = s /\ code'[i].marks = ms
  BY DEF View
<1>2. PICK ins : ins = code'[i].ins OBVIOUS
<1>3. Pops(ins) = 0 /\ Pushes(ins, s) = <<>> BY <1>1, <1>2 DEF Pops, Pushes
<1>4. WellFormed(i)' BY <1>1 DEF WellFormed
<1>5. Len(s) >= 0 BY LenProperties
<1>6. HasWhatItNeeds(i)' BY <1>1, <1>2, <1>3, <1>5 DEF HasWhatItNeeds
<1>7. AsDeclared(i)' BY <1>1 DEF AsDeclared
<1>8. s \o <<>> = s BY ConcatEmptySeq
<1>9. TypesAfter(i)' = s BY <1>1, <1>2, <1>3, <1>8, DropNone DEF TypesAfter
<1>10. MarksAfter(i)' = Append(ms, Len(s)) BY <1>1 DEF MarksAfter
<1> QED BY <1>4, <1>6, <1>7, <1>9, <1>10 DEF Sits

LEMMA BalancedInline ==
    ASSUME CompilerShape, Balanced, quirks = {}, quirks' = {}, Compiling({"CALL"}),
           NEW id, DeclaredAs(id, {"FUNC", "PROC"}), astid(id).inlin,
           NEW ts \in Seq(Kinds), NEW t, t = Types, ts \o ArgKinds(astid(id).args) = t, compile_inline(id, ts)
    PROVE  Balanced'
<1>1. CASE ~Fits \/ astid(id).body < 0 BY <1>1, BalancedStops DEF compile_inline, Crash
<1>2. CASE ~(~Fits \/ astid(id).body < 0)
  <2> DEFINE isProcedure == astid(id).kind = "PROC"
  <2>1. PICK m, c, isProc, own, saved, under, marks, of, ms :
           /\ m = Len(work) /\ c = m + 1
           /\ isProc = isProcedure /\ own = (IF isProcedure THEN proc_ctx ELSE func_ctx)
           /\ saved = (IF isProcedure = InProc THEN WithTypes(own, ts) ELSE own)
           /\ under = UnderBody(id, ts) /\ marks = MarksOfBody(id, ts)
           /\ of = Current.of /\ ms = Current.marks
    OBVIOUS
  <2> DEFINE enter == View([op |-> "enter"], of, under, ms)
             f == [block |-> "inline", of |-> of, node |-> id, cur |-> astid(id).body,
                   label |-> 0, entry |-> <<>>, saved |-> saved, under |-> under, marks |-> marks]
  <2>2. /\ work' = Append(work, f)
        /\ IF isProc
           THEN /\ proc_ctx' = ForBody(own, id)
                /\ func_ctx' = IF InProc THEN func_ctx ELSE WithTypes(func_ctx, ts)
           ELSE /\ func_ctx' = ForBody(own, id)
                /\ proc_ctx' = IF InProc THEN WithTypes(proc_ctx, ts) ELSE proc_ctx
        /\ Emit(<<enter>>)
        /\ quirks' = quirks \union {q \in {"inline_ctx"} : InProc /\ ~isProc}
        /\ UNCHANGED <<prog, phase, maps, labels>>
    BY <1>2, <2>1 DEF compile_inline, WithTypes, ForBody, UnderBody, MarksOfBody
  <2>3. isProc \/ ~InProc BY <2>2
  <2>4. work # <<>> BY Statement
  <2>5. Activations /\ Contexts /\ IsProgram(prog) /\ Maps /\ IsSeq(code) /\ IsSeq(work) BY ShapeFacts
  <2>6. Opened(Len(work)) /\ work'[c] = f BY <2>1, <2>2, <2>4, <2>5, AppendOpens
  <2>7. /\ f.block = "inline" /\ f.of = of /\ f.node = id /\ f.saved = saved /\ f.under = under /\ f.marks = marks
    OBVIOUS
  <2> HIDE DEF f
  <2>8. PICK g : g = f OBVIOUS
  <2>9. /\ Opened(m) /\ work'[c] = g /\ work'[m + 1] = g
        /\ g.block = "inline" /\ g.of = of /\ g.node = id /\ g.saved = saved /\ g.under = under /\ g.marks = marks
    BY <2>1, <2>6, <2>7, <2>8
  <2>10. isProc \in BOOLEAN /\ prog' = prog /\ id \in 0 .. asts_len - 1 BY <2>1, <2>2 DEF DeclaredAs
  <2>11. /\ own = (IF isProc THEN proc_ctx ELSE func_ctx)
         /\ saved = (IF isProc = InProc THEN WithTypes(own, ts) ELSE own)
    BY <2>1
  <2> HIDE DEF isProcedure
  <2>12. /\ Types' = <<>> /\ (InProc => func_ctx' = func_ctx)
         /\ (IF saved.stmt # NULL THEN saved.types ELSE func_ctx'.types) = ts
    BY <2>2, <2>3, <2>4, <2>5, <2>10, <2>11, InlinedTypes
  <2>13. KeepsMaps BY <2>2, <2>5, MapsStay DEF maps
  <2>14. /\ m \in Nat \ {0} /\ DOMAIN work = 1 .. m /\ Current = work[m] /\ c = m + 1 /\ Current.under \in Seq(Kinds)
         /\ of # START /\ Find(values_map, of) # NULL /\ ms \in Seq(Nat) /\ t \in Seq(Kinds)
         /\ Here.of = of /\ Here.types = Current.under \o t /\ Here.marks = ms
    BY <2>1, <2>4, HereFacts
  <2>15. under \in Seq(Kinds) /\ under = Here.types /\ marks = Append(ms, Len(under))
    <3>1. UnderBody(id, ts) \in Seq(Kinds) BY <2>4, <2>5, InlinedUnder
    <3>2. DeclaredAs(id, {"FUNC", "PROC", "EXTERN"}) BY DEF DeclaredAs
    <3>3. ArgKinds(astid(id).args) \in Seq(Kinds) BY <2>5, <3>2, SignatureOf
    <3>4. PICK u, a : u = Current.under /\ a = ArgKinds(astid(id).args) OBVIOUS
    <3>5. u \in Seq(Kinds) /\ a \in Seq(Kinds) /\ t = ts \o a BY <2>14, <3>3, <3>4
    <3>6. (u \o ts) \o a = u \o t BY ONLY <3>5, ConcatAssoc, ts \in Seq(Kinds), SMTT(30)
    <3>7. under = Here.types BY <2>1, <2>14, <3>4, <3>6 DEF UnderBody
    <3> QED BY <2>1, <3>1, <3>7 DEF MarksOfBody
  <2>16. PICK x : x = enter OBVIOUS
  <2>17. PICK s : s = <<x>> OBVIOUS
  <2>18. PICK n, k : n = Len(code) /\ k = n + 1 OBVIOUS
  <2>19. /\ Grown(n, k) /\ code'[k] = x
    <3>1. IsSeq(s) /\ Len(s) = 1 /\ s[1] = x BY <2>17, SmallSeqs
    <3>2. Appends(s) BY <2>2, <2>5, <2>16, <2>17, <3>1 DEF Emit, Appends
    <3>3. k = Len(code) + Len(s) BY <2>18, <3>1
    <3>4. Grown(n, k) /\ \A j \in 1 .. Len(s) : code'[n + j] = s[j] BY <2>18, <3>2, <3>3, AppendsGrows
    <3>5. 1 \in 1 .. Len(s) BY <3>1
    <3> QED BY <2>18, <3>1, <3>4, <3>5
  <2>20. n \in Nat /\ k = n + 1 BY <2>18, <2>19 DEF Grown
  <2>21. \A i \in n + 1 .. k : i = k BY <2>20
  <2>22. code'[k].ins.op = "enter" BY <2>16, <2>19 DEF View
  <2>23. Sits(k)' /\ TypesAfter(k)' = under /\ MarksAfter(k)' = marks
    <3>1. code'[k] = View([op |-> "enter"], of, under, ms) BY <2>16, <2>19
    <3>2. Find(values_map, of)' # NULL BY <2>13, <2>14 DEF KeepsMaps
    <3>3. of # START /\ under \in Seq(Kinds) /\ ms \in Seq(Nat) BY <2>14, <2>15
    <3>4. Sits(k)' /\ TypesAfter(k)' = under /\ MarksAfter(k)' = Append(ms, Len(under))
      BY ONLY <3>1, <3>2, <3>3, EnterSits
    <3> QED BY <2>15, <3>4
  <2>24. PICK here, after : here = Here /\ after = Here' OBVIOUS
  <2>25. work' # <<>> /\ after.of = of /\ after.types = under /\ after.marks = marks
    <3>1. PICK e : e = <<>> OBVIOUS
    <3>2. Types' = e BY <2>12, <3>1
    <3>3. work' # <<>> /\ Here'.of = g.of /\ Here'.types = g.under \o e /\ Here'.marks = g.marks
      BY <2>9, <2>14, <3>2, HereOpens
    <3>4. under \o e = under BY <2>15, <3>1, ConcatEmptySeq
    <3> QED BY <2>9, <2>24, <3>3, <3>4
  <2>26. InstructionsFit' BY <2>13, <2>19, <2>21, <2>23, FitGrows DEF Balanced
  <2>27. SameView(here, code'[n + 1])
    <3>1. x.of = of /\ x.types = under /\ x.marks = ms BY <2>16 DEF View
    <3>2. here.of = of /\ here.types = under /\ here.marks = ms BY <2>14, <2>15, <2>24
    <3>3. code'[n + 1] = x BY <2>18, <2>19
    <3> QED BY ONLY <3>1, <3>2, <3>3 DEF SameView
  <2>28. Joins(k, after)'
    <3>1. code'[k].of = of BY <2>16, <2>19 DEF View
    <3>2. Covers(under, under) BY <2>15, CoversItself
    <3> QED BY <2>23, <2>25, <3>1, <3>2 DEF Joins
  <2>29. CodeFlows'
    <3>1. n < k /\ ~(k < k) BY <2>20
    <3>2. \A i \in n + 1 .. k : Falls(i)' => IF i < k THEN Joins(i, code[i + 1])' ELSE work' # <<>> /\ Joins(i, after)'
      BY <2>21, <2>25, <2>28, <3>1
    <3> QED BY <2>19, <2>24, <2>27, <3>1, <3>2, FlowGrows DEF Balanced
  <2>30. IsSeq(work') /\ Len(work') = c /\ DOMAIN work' = 1 .. c /\ \A i \in 1 .. c : i \in 1 .. m \/ i = c
    <3>1. IsSeq(work') /\ Len(work') = c BY <2>1, <2>9 DEF Opened
    <3> QED BY <2>14, <3>1, IsSeqProperties
  <2>31. JumpsMeet'
    <3>1. PICK fam, num, v : fam = {} /\ num = 0 /\ v = here OBVIOUS
    <3>2. ASSUME NEW i \in 1 .. c, NEW l \in Awaited(work'[i].block)
          PROVE  /\ i \in DOMAIN work /\ l \in Awaited(work[i].block)
                 /\ work'[i].label = work[i].label /\ SameView(Entry(i), Entry(i)')
      <4>1. i # c BY <2>9, <3>2 DEF Awaited, LoopBlocks
      <4>2. i \in 1 .. m BY <2>30, <4>1
      <4>3. Entry(i)' = Entry(i) /\ work'[i].block = work[i].block /\ work'[i].label = work[i].label
        BY <2>9, <4>2, EntriesStay
      <4> QED BY <2>14, <3>2, <4>2, <4>3 DEF SameView
    <3>3. AwaitedAt(fam, num, v) BY <2>30, <3>1, <3>2 DEF AwaitedAt
    <3>4. JumpsTo(fam, num, v) BY <3>1 DEF JumpsTo
    <3>5. NewFor(n, k, fam, num, v) BY <2>21, <2>22 DEF NewFor
    <3>6. LabelsAre(k, fam, num, v) BY <3>1 DEF LabelsAre
    <3>7. JumpsMeet BY DEF Balanced
    <3> QED BY <2>19, <3>3, <3>4, <3>5, <3>6, <3>7, JumpsMeetStep
  <2>32. BlocksResume'
    <3>1. \A i \in 1 .. m : (work[i].block = "inline" /\ work[i].saved.stmt = NULL) =>
              func_ctx'.types = func_ctx.types
      BY <2>4, <2>12, <2>14, OutermostProc
    <3>2. \A i \in 1 .. m : work[i].block \in LoopBlocks =>
              \A j \in n + 1 .. k : code'[j].ins # Label("while", work[i].label)
      BY <2>21, <2>22 DEF Label
    <3>3. work'[c].block \notin LoopBlocks BY <2>9 DEF LoopBlocks
    <3>4. Resumable(work[m], work[c])'
      <4>1. work'[m] = work[m] BY <2>9, <2>14 DEF Opened
      <4>2. work'[m].under = Current.under /\ work'[m].marks = ms BY <2>1, <2>14, <4>1
      <4>3. Outside(work[c])' = ts BY <2>9, <2>12 DEF Outside
      <4>4. astid(work[c].node)' = astid(id) BY <2>9, <2>10, SameAsts
      <4>5. under = Current.under \o ts \o ArgKinds(astid(id).args) BY <2>1 DEF UnderBody
      <4> QED BY <2>9, <2>15, <4>2, <4>3, <4>4, <4>5 DEF Resumable
    <3>5. BlocksResume BY DEF Balanced
    <3> QED BY <2>5, <2>9, <2>10, <2>14, <2>19, <3>1, <3>2, <3>3, <3>4, <3>5, BlocksResumeStep
  <2> QED BY <2>26, <2>29, <2>31, <2>32 DEF Balanced
<1> QED BY <1>1, <1>2

(* A call, whatever is called.                                                *)
LEMMA CalleeOf ==
    ASSUME IsProgram(prog), KeepsMaps, NEW id, DeclaredAs(id, {"FUNC", "PROC", "EXTERN"}),
           NEW ins, ins = CallOf(astid(id)), Find(values_map, astid(id).name) = id
    PROVE  IsCall(ins) /\ CalleeKnown(ins)' /\ Len(ins.args) = Len(astid(id).args)
           /\ ins.args = ArgKinds(astid(id).args) /\ ins.rets = Reversed(astid(id).rets)
<1>1. /\ ArgKinds(astid(id).args) \in Seq(Kinds) /\ Reversed(astid(id).rets) \in Seq(Kinds)
      /\ Len(ArgKinds(astid(id).args)) = Len(astid(id).args) /\ id # NULL
  BY SignatureOf
<1>2. /\ ins.op = "call" /\ ins.name = astid(id).name /\ ins.args = ArgKinds(astid(id).args)
      /\ ins.rets = Reversed(astid(id).rets)
  BY DEF CallOf
<1>3. IsCall(ins) BY <1>1, <1>2 DEF IsCall
<1>4. Find(values_map, ins.name)' = id BY <1>1, <1>2 DEF KeepsMaps
<1>5. Declares(ins.name)' = astid(id)
  <2>1. astid(id)' = astid(id) BY SameAsts DEF KeepsMaps
  <2> QED BY <1>4, <2>1 DEF Declares, astid
<1>6. CalleeKnown(ins)' BY <1>1, <1>2, <1>4, <1>5 DEF CalleeKnown
<1> QED BY <1>1, <1>2, <1>3, <1>6

LEMMA ExternOf ==
    ASSUME IsProgram(prog), NEW id, DeclaredAs(id, {"FUNC", "PROC", "EXTERN"}), astid(id).kind = "EXTERN",
           Len(astid(id).args) <= REGISTERS, Len(astid(id).rets) <= 1,
           NEW ins,
           ins = [op |-> "ffi", args |-> ArgKinds(astid(id).args),
                  rets |-> IF astid(id).proto = "EXTERN_FUNC" THEN <<astid(id).rets[1]>> ELSE <<>>]
    PROVE  IsCall(ins) /\ CalleeKnown(ins)' /\ Len(ins.args) = Len(astid(id).args)
           /\ ins.args = ArgKinds(astid(id).args) /\ ins.rets = Reversed(astid(id).rets)
<1>1. /\ ArgKinds(astid(id).args) \in Seq(Kinds) /\ Reversed(astid(id).rets) \in Seq(Kinds)
      /\ Len(ArgKinds(astid(id).args)) = Len(astid(id).args) /\ id # NULL
      /\ Len(Reversed(astid(id).rets)) = Len(astid(id).rets)
      /\ astid(id).rets \in Seq(Kinds)
  BY SignatureOf
<1>2. asts_len \in Nat /\ IsAst(astid(id), -1 .. asts_len)
  <2>1. asts_len \in Nat BY AstOf
  <2>2. id \in 0 .. asts_len BY <2>1 DEF DeclaredAs
  <2> QED BY <2>1, <2>2, AstOf
<1>3. astid(id).proto = "EXTERN_FUNC" <=> astid(id).rets # <<>> BY <1>2 DEF IsAst
<1>4. ins.op = "ffi" /\ ins.args = ArgKinds(astid(id).args)
      /\ ins.rets = IF astid(id).proto = "EXTERN_FUNC" THEN <<astid(id).rets[1]>> ELSE <<>>
  OBVIOUS
<1>5. ins.rets = Reversed(astid(id).rets) BY <1>1, <1>3, <1>4, OneReversed
<1>6. IsCall(ins) BY <1>1, <1>4, <1>5 DEF IsCall
<1>7. CalleeKnown(ins)' BY <1>4 DEF CalleeKnown
<1> QED BY <1>1, <1>4, <1>5, <1>6, <1>7

LEMMA BalancedFunctionCall ==
    ASSUME CompilerShape, Balanced, quirks = {}, quirks' = {}, Compiling({"CALL"}),
           NEW id, DeclaredAs(id, {"FUNC", "PROC", "EXTERN"}), astid(id).name = Node.name,
           astid(id).kind # "EXTERN" => Find(values_map, Node.name) = id, compile_function_call(id)
    PROVE  Balanced'
<1>1. /\ phase \in {"main", "routines"} /\ work # <<>> /\ ~Finished /\ Types \in Seq(Kinds)
      /\ Len(Types) \in Nat
  BY Statement
<1>2. Maps /\ Activations /\ Contexts /\ IsProgram(prog) /\ IsSeq(code) BY ShapeFacts
<1>3. /\ Len(astid(id).args) \in Nat /\ Reversed(astid(id).rets) \in Seq(Kinds) /\ IsSeq(astid(id).args)
      /\ ArgKinds(astid(id).args) \in Seq(Kinds) /\ Len(ArgKinds(astid(id).args)) = Len(astid(id).args)
  BY <1>2, SignatureOf
<1> DEFINE d == astid(id)
           nargs == Len(d.args)
           ts == Drop(Types, nargs)
           after == ts \o Reversed(d.rets)
           call == IF d.kind = "EXTERN"
                   THEN [op |-> "ffi", args |-> ArgKinds(d.args),
                         rets |-> IF d.proto = "EXTERN_FUNC" THEN <<d.rets[1]>> ELSE <<>>]
                   ELSE CallOf(d)
<1>4. CASE Len(Types) < nargs \/ \E i \in 1 .. nargs : TopN(Types, nargs)[i] # d.args[i].kind
  BY <1>4, BalancedStops DEF compile_function_call, Reject
<1>5. CASE ~(Len(Types) < nargs \/ \E i \in 1 .. nargs : TopN(Types, nargs)[i] # d.args[i].kind)
  <2>1. nargs \in Nat /\ nargs <= Len(Types) BY <1>1, <1>3, <1>5
  <2>2. PICK p : p = nargs OBVIOUS
  <2>3. p \in Nat /\ p = Len(astid(id).args) /\ \A i \in 1 .. p : TopN(Types, p)[i] = astid(id).args[i].kind
    BY <1>3, <1>5, <2>2
  <2> HIDE DEF nargs
  <2>4. PICK t \in Seq(Kinds) : t = Types BY <1>1
  <2>5. p <= Len(t) /\ \A i \in 1 .. p : TopN(t, p)[i] = astid(id).args[i].kind BY <2>1, <2>2, <2>3, <2>4
  <2>6. PICK args : args = astid(id).args OBVIOUS
  <2>7. TopN(t, p) = ArgKinds(args) BY <1>3, <2>3, <2>5, <2>6, ArgumentsOnTop
  <2>8. PICK s \in Seq(Kinds) : s = Drop(t, p) BY <2>3, <2>5, DropProperties
  <2>9. s = ts BY <2>2, <2>4, <2>8
  <2>10. s \o ArgKinds(args) = t BY <2>3, <2>5, <2>7, <2>8, DropAndTop
  <2>11. CASE d.kind = "EXTERN" /\ nargs > REGISTERS
    <3>1. Stop("corrupt") BY <1>5, <2>11 DEF compile_function_call, nargs
    <3> QED BY <3>1, BalancedStops
  <2>12. CASE d.kind # "EXTERN" /\ d.inlin
    <3>1. compile_inline(id, ts) BY <1>5, <2>12 DEF compile_function_call, nargs
    <3>2. DeclaredAs(id, {"FUNC", "PROC"}) BY <2>12 DEF DeclaredAs
    <3>3. compile_inline(id, s) BY <2>9, <3>1
    <3> HIDE DEF ts
    <3>4. s \o ArgKinds(astid(id).args) = t /\ astid(id).inlin BY <2>6, <2>10, <2>12
    <3> QED BY ONLY CompilerShape, Balanced, quirks = {}, quirks' = {}, Compiling({"CALL"}),
          <3>2, <3>3, <3>4, <2>4, s \in Seq(Kinds), BalancedInline
  <2>13. CASE ~(d.kind = "EXTERN" /\ nargs > REGISTERS) /\ ~(d.kind # "EXTERN" /\ d.inlin)
    <3>1. IF Overflow(ts, after) # "none" THEN Stop(Overflow(ts, after))
          ELSE /\ Emit(<<At(call, Types)>>) /\ SetTypes(after)
               /\ work' = Advanced(work)
               /\ values_map' = Put(values_map, Node.name, id)
               /\ quirks' = quirks \union
                      {q \in {"extern_rets"} : d.kind = "EXTERN" /\ Len(d.rets) > 1}
               /\ UNCHANGED <<prog, phase, cursor, externs_map, labels>>
      BY <1>5, <2>13 DEF compile_function_call, nargs
    <3>2. CASE Overflow(ts, after) # "none" BY <3>1, <3>2, BalancedStops
    <3>3. CASE Overflow(ts, after) = "none"
      <4>1. PICK ins : ins = call OBVIOUS
      <4>2. PICK r : r = Reversed(d.rets) OBVIOUS
      <4>3. /\ Emit(<<At(ins, Types)>>) /\ SetTypes(after)
            /\ work' = Advanced(work) /\ values_map' = Put(values_map, astid(id).name, id)
            /\ UNCHANGED <<prog, phase, cursor, externs_map, labels>>
        BY <3>1, <3>3, <4>1
      <4>4. ~(d.kind = "EXTERN" /\ Len(d.rets) > 1) BY <3>1, <3>3
      <4>5. after = s \o r BY <2>9, <4>2
      <4>6. KeepsMaps BY <1>2, <4>3, MapsGrow
      <4>7. /\ IsCall(ins) /\ CalleeKnown(ins)' /\ Len(ins.args) = Len(astid(id).args)
            /\ ins.args = ArgKinds(astid(id).args) /\ ins.rets = Reversed(astid(id).rets)
        <5>1. CASE d.kind = "EXTERN"
          <6>1. Len(astid(id).args) <= REGISTERS
            <7>1. ~(p > REGISTERS) BY <2>2, <2>13, <5>1
            <7>2. REGISTERS \in Nat BY RegistersAssumption
            <7>3. p <= REGISTERS BY <2>3, <7>1, <7>2
            <7> QED BY <2>3, <7>3
          <6>2. Len(astid(id).rets) <= 1
            <7>1. astid(id).rets \in Seq(Kinds) BY <1>2, SignatureOf
            <7>2. Len(astid(id).rets) \in Nat BY <7>1, LenProperties
            <7>3. ~(Len(astid(id).rets) > 1) BY <4>4, <5>1
            <7> QED BY <7>2, <7>3
          <6>3. ins = [op |-> "ffi", args |-> ArgKinds(astid(id).args),
                       rets |-> IF astid(id).proto = "EXTERN_FUNC" THEN <<astid(id).rets[1]>> ELSE <<>>]
            BY <4>1, <5>1
          <6>4. astid(id).kind = "EXTERN" BY <5>1
          <6> QED BY ONLY <1>2, DeclaredAs(id, {"FUNC", "PROC", "EXTERN"}), <6>1, <6>2, <6>3, <6>4, ExternOf
        <5>2. CASE d.kind # "EXTERN"
          <6>1. ins = CallOf(astid(id)) BY <4>1, <5>2
          <6>2. Find(values_map, astid(id).name) = id BY <5>2
          <6> QED BY <1>2, <4>6, <6>1, <6>2, CalleeOf
        <5> QED BY <5>1, <5>2
      <4>8. Len(ins.args) = p /\ ins.args = ArgKinds(args) /\ ins.rets = r /\ r \in Seq(Kinds)
        BY <1>3, <2>3, <2>6, <4>2, <4>7
      <4>9. PICK w \in Seq(Kinds) : w = s \o r BY <4>8, ConcatProperties
      <4>10. SetTypes(w) BY <4>3, <4>5, <4>9
      <4> HIDE DEF call, after, ts, d
      <4>11. w = Drop(Types, Len(ins.args)) \o ins.rets BY <2>4, <2>8, <4>8, <4>9
      <4>12. Len(Types) >= Len(ins.args)
        <5>1. Len(Types) >= p BY <2>4, <2>5
        <5> QED BY <4>8, <5>1
      <4>13. TopN(Types, Len(ins.args)) = ins.args BY <2>4, <2>7, <4>8
      <4>14. Emit(<<At(ins, Types)>>) /\ work' = Advanced(work) /\ prog' = prog BY <4>3
      <4> QED BY ONLY CompilerShape, Balanced, quirks = {}, <1>1, <4>6, <4>7, <4>10, <4>11, <4>12, <4>13, <4>14,
             w \in Seq(Kinds), BalancedCalled
    <3> QED BY <3>2, <3>3
  <2> QED BY <2>11, <2>12, <2>13
<1> QED BY <1>4, <1>5

LEMMA BalancedCall == ASSUME CompilerShape, Balanced, quirks = {}, quirks' = {}, CompileCall PROVE Balanced'
<1> DEFINE name == Node.name
<1>1. Compiling({"CALL"}) BY DEF CompileCall
<1>2. IsMap(values_map, {"FUNC", "PROC", "EXTERN"}) /\ IsMap(externs_map, {"EXTERN"}) /\ IsProgram(prog)
  BY ShapeFacts DEF Maps
<1>3. CASE Find(values_map, name) # NULL
  <2>1. PICK id : id = Find(values_map, name) OBVIOUS
  <2>2. compile_function_call(id) BY <1>3, <2>1 DEF CompileCall
  <2>3. DeclaredAs(id, {"FUNC", "PROC", "EXTERN"}) /\ astid(id).name = Node.name
    BY <1>2, <1>3, <2>1, FindIsDeclared
  <2> QED BY <1>1, <2>1, <2>2, <2>3, BalancedFunctionCall
<1>4. CASE Find(values_map, name) = NULL /\ Find(externs_map, name) # NULL
  <2>1. PICK id : id = Find(externs_map, name) OBVIOUS
  <2>2. compile_function_call(id) BY <1>4, <2>1 DEF CompileCall
  <2>3. DeclaredAs(id, {"EXTERN"}) /\ astid(id).name = Node.name
    BY <1>2, <1>4, <2>1, FindIsDeclared
  <2>4. DeclaredAs(id, {"FUNC", "PROC", "EXTERN"}) /\ astid(id).kind = "EXTERN" BY <2>3 DEF DeclaredAs
  <2> QED BY <1>1, <2>2, <2>3, <2>4, BalancedFunctionCall
<1>5. CASE Find(values_map, name) = NULL /\ Find(externs_map, name) = NULL /\ name \in DOMAIN prog.vars
  <2>1. PICK ins : ins = LoadVar(name) OBVIOUS
  <2>2. ins.op = "loadvar" /\ ins.kind = prog.vars[name].kind BY <2>1 DEF LoadVar
  <2>3. Continue(<<At(ins, Types)>>, Append(Types, ins.kind)) BY <1>5, <2>1, <2>2 DEF CompileCall
  <2>4. ins.kind \in Declarable BY <1>2, <1>5, <2>2 DEF IsProgram
  <2> QED BY <1>1, <2>2, <2>3, <2>4, BalancedPushOf
<1>6. CASE Find(values_map, name) = NULL /\ Find(externs_map, name) = NULL /\ name \notin DOMAIN prog.vars
  <2>1. compile_argument_push(name) BY <1>6 DEF CompileCall
  <2> QED BY <1>1, <2>1, BalancedArgument
<1> QED BY <1>3, <1>4, <1>5, <1>6

-----------------------------------------------------------------------------
(* The end of an inlined body.                                                *)

(* What is under a body, what it leaves on that, and what it hands back.      *)
LEMMA BackOutside ==
    ASSUME NEW u \in Seq(Kinds), NEW o \in Seq(Kinds), NEW a \in Seq(Kinds), NEW t \in Seq(Kinds),
           NEW w, w = u \o o \o a, NEW k, k = Len(w) - Len(a)
    PROVE  w \in Seq(Kinds) /\ Len(w) >= Len(a) /\ SubSeq(w \o t, 1, k) = u \o o
<1>1. PICK x \in Seq(Kinds) : x = u \o o BY ConcatProperties
<1>2. w = x \o a BY <1>1
<1>3. w \in Seq(Kinds) /\ Len(w) = Len(x) + Len(a) /\ Len(x) \in Nat /\ Len(a) \in Nat
  BY <1>2, ConcatProperties, LenProperties
<1>4. k = Len(x) BY <1>3
<1>5. PICK y \in Seq(Kinds) : y = a \o t BY ConcatProperties
<1>6. (x \o a) \o t = x \o y BY ONLY ConcatAssoc, x \in Seq(Kinds), a \in Seq(Kinds), t \in Seq(Kinds), <1>5, SMTT(30)
<1>7. w \o t = x \o y BY ONLY <1>2, <1>6
<1>8. SubSeq(x \o y, 1, Len(x)) = x BY ONLY ConcatParts, x \in Seq(Kinds), y \in Seq(Kinds)
<1>9. SubSeq(w \o t, 1, k) = u \o o BY ONLY <1>1, <1>4, <1>7, <1>8
<1>10. Len(w) >= Len(a)
  <2>1. PICK p, q, r : p = Len(w) /\ q = Len(x) /\ r = Len(a) OBVIOUS
  <2>2. p = q + r /\ q \in Nat /\ r \in Nat BY <1>3, <2>1
  <2>3. p >= r BY <2>2
  <2> QED BY <2>1, <2>3
<1>11. w \in Seq(Kinds) BY <1>3
<1> QED BY ONLY <1>9, <1>10, <1>11

LEMMA LastIsDropped ==
    ASSUME NEW S, NEW ms \in Seq(S), NEW e \in S, NEW n, n = Append(ms, e)
    PROVE  n \in Seq(S) /\ Len(n) = Len(ms) + 1 /\ Top(n) = e /\ Drop(n, 1) = ms
<1>1. /\ n \in Seq(S) /\ Len(n) = Len(ms) + 1 /\ n[Len(ms) + 1] = e
      /\ \A i \in 1 .. Len(ms) : n[i] = ms[i] /\ Len(ms) \in Nat
  BY AppendIs, LenProperties
<1>2. Len(ms) \in Nat BY LenProperties
<1>3. /\ Drop(n, 1) \in Seq(S) /\ Len(Drop(n, 1)) = Len(n) - 1
      /\ \A i \in 1 .. Len(n) - 1 : Drop(n, 1)[i] = n[i]
  <2>1. n \in Seq(S) /\ Len(n) >= 1 BY <1>1, <1>2
  <2> QED BY ONLY <2>1, DropOne
<1>4. Len(n) - 1 = Len(ms) BY <1>1, <1>2
<1>5. IsSeq(Drop(n, 1)) /\ IsSeq(ms) BY <1>3, SeqIsSeq
<1>6. Drop(n, 1) = ms BY <1>1, <1>3, <1>4, <1>5, SameSeq
<1> QED BY <1>1, <1>6 DEF Top

LEMMA TwiceReversed ==
    ASSUME NEW s \in Seq(Kinds) PROVE Reversed(Reversed(s)) = s
<1>1. PICK r : r = Reversed(s) OBVIOUS
<1>2. IsSeq(s) /\ Len(s) \in Nat BY SeqIsSeq, LenProperties
<1>3. /\ IsSeq(r) /\ Len(r) = Len(s)
      /\ \A i \in 1 .. Len(s) : r[i] = s[Len(s) + 1 - i]
  BY <1>1, <1>2, ReversedProperties
<1>4. /\ IsSeq(Reversed(r)) /\ Len(Reversed(r)) = Len(s)
      /\ \A i \in 1 .. Len(s) : Reversed(r)[i] = r[Len(s) + 1 - i]
  BY <1>3, ReversedProperties
<1>5. ASSUME NEW i \in 1 .. Len(s) PROVE Reversed(r)[i] = s[i]
  <2>1. PICK j : j = Len(s) + 1 - i OBVIOUS
  <2>2. j \in 1 .. Len(s) /\ Len(s) + 1 - j = i BY <1>2, <2>1
  <2>3. Reversed(r)[i] = r[j] BY <1>4, <2>1
  <2>4. r[j] = s[Len(s) + 1 - j] BY <1>3, <2>2
  <2> QED BY <2>2, <2>3, <2>4
<1>6. Reversed(r) = s BY <1>2, <1>4, <1>5, SameSeq
<1> QED BY <1>1, <1>6

LeaveOf(n, back) == [op |-> "leave", nargs |-> n, rets |-> back]
TypesBack(s, n, back) == SubSeq(s, 1, n) \o back

(* The top of t is handed back past n arguments, the last kinds of w.         *)
Leaves(n, rets, w, t, ms) ==
    /\ n \in Nat /\ rets \in Seq(Kinds) /\ w \in Seq(Kinds) /\ t \in Seq(Kinds) /\ ms \in Seq(Nat)
    /\ Returns(t, rets) /\ Len(w) >= n /\ Len(ms) > 1 /\ Top(ms) = Len(w)

LEMMA LeaveSits ==
    ASSUME NEW i, NEW n, NEW rets, NEW w, NEW t, NEW ms, Leaves(n, rets, w, t, ms),
           NEW of, of # START, Find(values_map, of)' # NULL,
           NEW back, back = Reversed(rets), NEW ins, ins = LeaveOf(n, back), NEW s, s = w \o t,
           code'[i] = View(ins, of, s, ms)
    PROVE  /\ Sits(i)' /\ TypesAfter(i)' = TypesBack(s, Len(w) - n, back) /\ MarksAfter(i)' = Drop(ms, 1)
<1>0. /\ n \in Nat /\ rets \in Seq(Kinds) /\ w \in Seq(Kinds) /\ t \in Seq(Kinds) /\ ms \in Seq(Nat)
      /\ Returns(t, rets) /\ Len(w) >= n /\ Len(ms) > 1 /\ Top(ms) = Len(w)
  BY DEF Leaves
<1>1. /\ code'[i].ins = ins /\ code'[i].of = of /\ code'[i].types = s /\ code'[i].marks = ms
  BY DEF View
<1>2. ins.op = "leave" /\ ins.nargs = n /\ ins.rets = back BY DEF LeaveOf
<1>3. s \in Seq(Kinds) /\ Len(s) = Len(w) + Len(t) /\ Len(w) \in Nat /\ Len(t) \in Nat
  BY <1>0, ConcatProperties, LenProperties
<1>4. back \in Seq(Kinds) /\ Len(back) = Len(rets) /\ Len(rets) \in Nat BY <1>0, ReversedKinds
<1>5. Len(t) >= Len(rets) /\ TopN(t, Len(rets)) = rets BY <1>0 DEF Returns
<1>6. PICK p : p = Len(rets) OBVIOUS
<1>7. TopN(w \o t, p) = TopN(t, p) BY <1>0, <1>4, <1>5, <1>6, <1>3, Stacked
<1>8. TopN(s, Len(back)) = Reversed(back) BY <1>0, <1>4, <1>5, <1>6, <1>7, TwiceReversed
<1>9. Len(s) >= Top(ms) + Len(back) /\ Top(ms) \in n .. Len(s) /\ Len(s) >= 0
  <2>1. PICK a, b, c : a = Len(w) /\ b = Len(t) /\ c = Len(rets) OBVIOUS
  <2>2. /\ a \in Nat /\ b \in Nat /\ c \in Nat /\ n \in Nat /\ b >= c /\ a >= n
        /\ Len(s) = a + b /\ Len(back) = c /\ Top(ms) = a
    BY <1>0, <1>3, <1>4, <1>5, <2>1
  <2>3. a + b >= a + c /\ a \in n .. a + b /\ a + b >= 0 BY <2>2
  <2> QED BY <2>2, <2>3
<1>10. Pops(ins) = 0 BY <1>2 DEF Pops
<1>11. WellFormed(i)'
  <2>1. s \in Seq(Kinds) /\ ms \in Seq(Nat) /\ n \in Nat /\ back \in Seq(Kinds) BY <1>0, <1>3, <1>4
  <2> QED BY <1>1, <1>2, <2>1 DEF WellFormed
<1>12. HasWhatItNeeds(i)' BY <1>0, <1>1, <1>2, <1>8, <1>9, <1>10 DEF HasWhatItNeeds
<1>13. AsDeclared(i)' BY <1>1, <1>2 DEF AsDeclared
<1>14. TypesAfter(i)' = TypesBack(s, Len(w) - n, back) BY <1>0, <1>1, <1>2 DEF TypesAfter, TypesBack
<1>15. MarksAfter(i)' = Drop(ms, 1) BY <1>1, <1>2 DEF MarksAfter
<1> QED BY <1>11, <1>12, <1>13, <1>14, <1>15 DEF Sits

(* The contexts that go on when the body of an inlined routine ends.          *)
LEMMA OutsideIs ==
    ASSUME CompilerShape, quirks = {}, Returning("inline"), NEW isProc, isProc = (astid(Current.node).kind = "PROC"),
           NEW proc, proc = IF isProc THEN Current.saved ELSE proc_ctx,
           NEW func, func = IF isProc THEN func_ctx ELSE Current.saved,
           NEW old, old = IF proc.stmt # NULL THEN proc.types ELSE func.types
    PROVE  /\ old = Outside(Current) /\ IsContext(proc) /\ IsContext(func)
           /\ proc.stmt # NULL \/ func.stmt # NULL
           /\ \A k \in 1 .. Len(work) - 1 :
                  (work[k].block = "inline" /\ work[k].saved.stmt = NULL) => isProc /\ proc.stmt # NULL
<1>1. /\ phase \in {"main", "routines"} /\ work # <<>> /\ Current.block = "inline"
      /\ Current = work[Len(work)] /\ Len(work) > 1 /\ Len(work) \in Nat \ {0}
      /\ Len(work) - 1 \in 1 .. Len(work) /\ Len(work) - 1 \in Nat \ {0}
  BY Return
<1>2. Activations /\ Contexts BY ShapeFacts
<1>3. FunctionsFirst BY DEF CompilerShape
<1>4. PICK m \in 1 .. Len(work) : m = Len(work) - 1 /\ m \in Nat \ {0} BY <1>1
<1>5. DeclaredAs(Current.node, {"FUNC", "PROC"}) /\ IsContext(Current.saved)
  BY <1>1, <1>2, BlocksAre DEF IsActivation
<1>6. IsContext(proc) /\ IsContext(func) BY <1>2, <1>5 DEF Contexts
<1>7. PICK d : d = astid(Current.node) OBVIOUS
<1>8. Decl(Len(work)) = d /\ Expands(Len(work)) BY <1>1, <1>7 DEF Decl, Expands
<1>9. Len(work) \in DOMAIN work /\ Len(work) \in 0 .. Len(work) /\ DOMAIN work = 1 .. Len(work) BY <1>1, <1>2, BlocksAre
<1>10. LastExpanded("PROC", Len(work), proc_ctx.stmt) /\ LastExpanded("FUNC", Len(work), func_ctx.stmt)
  BY <1>2 DEF Contexts
<1>11. LastExpanded(d.kind, m, Current.saved.stmt)
  BY <1>1, <1>2, <1>4, <1>8, <1>9 DEF Contexts
<1>12. d.kind \in {"FUNC", "PROC"} BY <1>5, <1>7 DEF DeclaredAs
<1>13. LastExpanded("PROC", m, proc.stmt) /\ LastExpanded("FUNC", m, func.stmt)
  <2>1. CASE isProc
    <3>1. d.kind = "PROC" BY <1>7, <2>1
    <3>2. ~Expanded(Len(work), "FUNC") BY <1>8, <3>1 DEF Expanded
    <3>3. LastExpanded("FUNC", Len(work) - 1, func_ctx.stmt) BY <1>1, <1>10, <3>2, LastExpandedBelow
    <3> QED BY <1>4, <1>11, <2>1, <3>1, <3>3
  <2>2. CASE ~isProc
    <3>1. d.kind = "FUNC" BY <1>7, <1>12, <2>2
    <3>2. ~Expanded(Len(work), "PROC") BY <1>8, <3>1 DEF Expanded
    <3>3. LastExpanded("PROC", Len(work) - 1, proc_ctx.stmt) BY <1>1, <1>10, <3>2, LastExpandedBelow
    <3> QED BY <1>4, <1>11, <2>2, <3>1, <3>3
  <2> QED BY <2>1, <2>2
<1>14. proc.stmt # NULL \/ func.stmt # NULL
  <2>1. PICK x, y : x = proc.stmt /\ y = func.stmt OBVIOUS
  <2>2. LastExpanded("PROC", m, x) /\ LastExpanded("FUNC", m, y) BY <1>13, <2>1
  <2> QED BY <1>2, <2>1, <2>2, OneIsCurrent
<1>15. ~isProc => proc_ctx.stmt = NULL
  <2>1. SUFFICES ASSUME ~isProc, proc_ctx.stmt # NULL PROVE FALSE OBVIOUS
  <2>2. d.kind = "FUNC" BY <1>7, <1>12, <2>1
  <2>3. PICK k \in 1 .. Len(work) : Expanded(k, "PROC") BY <1>10, <2>1 DEF LastExpanded
  <2>4. d.kind = "PROC" BY <1>3, <1>8, <1>9, <2>3 DEF FunctionsFirst
  <2> QED BY <2>2, <2>4
<1>16. old = Outside(Current)
  <2>1. CASE isProc BY <2>1 DEF Outside
  <2>2. CASE ~isProc
    <3>1. proc.stmt = NULL /\ func = Current.saved BY <1>15, <2>2
    <3>2. Current.saved.stmt # NULL BY <1>14, <3>1
    <3> QED BY <3>1, <3>2 DEF Outside
  <2> QED BY <2>1, <2>2
<1>17. ASSUME NEW k \in 1 .. m, work[k].block = "inline", work[k].saved.stmt = NULL
       PROVE  isProc /\ proc.stmt # NULL
  <2>1. k \in DOMAIN work /\ k \in 1 .. Len(work) /\ k # Len(work) BY <1>1, <1>4, <1>9
  <2>2. Expanded(k, "PROC") BY <1>1, <1>17, <2>1, OutermostProc, SMTT(30)
  <2>3. d.kind = "PROC" BY <1>3, <1>8, <1>9, <2>1, <2>2 DEF FunctionsFirst
  <2>4. isProc BY <1>7, <2>3
  <2>5. ASSUME proc.stmt = NULL PROVE FALSE
    <3>1. LastExpanded("PROC", m, NULL) BY <1>13, <2>5
    <3>2. m \in 0 .. Len(work) BY <1>4
    <3>3. ~Expanded(k, "PROC") BY <1>2, <3>1, <3>2, NoneExpanded
    <3> QED BY <2>2, <3>3
  <2> QED BY <2>4, <2>5
<1> QED BY <1>4, <1>6, <1>14, <1>16, <1>17

LEMMA BalancedEndInline == ASSUME CompilerShape, Balanced, quirks = {}, quirks' = {}, EndInline PROVE Balanced'
<1>1. Returning("inline") BY SMTT(30) DEF EndInline
<1> DEFINE d == astid(Current.node)
           isProcedure == d.kind = "PROC"
           procedure == IF isProcedure THEN Current.saved ELSE proc_ctx
           function == IF isProcedure THEN func_ctx ELSE Current.saved
           before == IF procedure.stmt # NULL THEN procedure.types ELSE function.types
           afterwards == before \o Reversed(d.rets)
           leave == [op |-> "leave", nargs |-> Len(d.args), rets |-> Reversed(d.rets)]
<1>2. IF Overflow(before, afterwards) # "none" THEN Stop(Overflow(before, afterwards))
      ELSE /\ Emit(<<At(leave, Types)>>)
           /\ proc_ctx' = (IF procedure.stmt # NULL THEN WithTypes(procedure, afterwards) ELSE procedure)
           /\ func_ctx' = (IF procedure.stmt # NULL THEN function ELSE WithTypes(function, afterwards))
           /\ values_map' = Put(values_map, d.name, Current.node)
           /\ work' = Advanced(Drop(work, 1))
           /\ quirks' = quirks \union {q \in {"inline_rets"} : ~Returns(Types, d.rets)}
           /\ UNCHANGED <<prog, phase, cursor, externs_map, labels>>
  BY DEF EndInline, WithTypes
<1>3. /\ work # <<>> /\ Current.block = "inline"
      /\ Current = work[Len(work)] /\ Len(work) > 1 /\ Len(work) \in Nat \ {0}
      /\ Len(work) - 1 \in 1 .. Len(work) /\ Len(work) - 1 \in Nat \ {0}
  BY <1>1, Return
<1>4. Maps /\ Activations /\ Contexts /\ IsProgram(prog) /\ IsSeq(code) /\ IsSeq(work) BY ShapeFacts
<1>5. DeclaredAs(Current.node, {"FUNC", "PROC"}) /\ IsBlock(Len(work)) BY <1>3, <1>4, BlocksAre DEF IsActivation
<1>6. DeclaredAs(Current.node, {"FUNC", "PROC", "EXTERN"}) BY <1>5 DEF DeclaredAs
<1>7. PICK id, args, rets, back, n : /\ id = Current.node /\ args = ArgKinds(astid(id).args) /\ rets = astid(id).rets
                                     /\ back = Reversed(rets) /\ n = Len(astid(id).args)
  OBVIOUS
<1>8. args \in Seq(Kinds) /\ Len(args) = n /\ n \in Nat /\ rets \in Seq(Kinds) /\ back \in Seq(Kinds)
  BY <1>4, <1>6, <1>7, SignatureOf
<1>9. PICK isProc : isProc = isProcedure OBVIOUS
<1>10. PICK proc, func : /\ proc = (IF isProc THEN Current.saved ELSE proc_ctx)
                         /\ func = (IF isProc THEN func_ctx ELSE Current.saved)
  OBVIOUS
<1>11. PICK old : old = (IF proc.stmt # NULL THEN proc.types ELSE func.types) OBVIOUS
<1>12. /\ old = Outside(Current) /\ IsContext(proc) /\ IsContext(func)
       /\ proc.stmt # NULL \/ func.stmt # NULL
       /\ \A k \in 1 .. Len(work) - 1 :
              (work[k].block = "inline" /\ work[k].saved.stmt = NULL) => isProc /\ proc.stmt # NULL
  <2>1. isProc = (astid(Current.node).kind = "PROC") BY <1>9
  <2> QED BY <1>1, <1>10, <1>11, <2>1, OutsideIs
<1>13. PICK b, c : b = Len(work) - 1 /\ c = Len(work) OBVIOUS
<1>14. b \in 1 .. Len(work) /\ b \in Nat \ {0} /\ c \in DOMAIN work /\ c > 1 /\ b = c - 1 BY <1>3, <1>4, <1>13, BlocksAre
<1>15. PICK outer : outer = work[b] OBVIOUS
<1>16. PICK w, t, of, ms : w = Current.under /\ t = Types /\ of = Current.of /\ ms = Current.marks OBVIOUS
<1>17. /\ of # START /\ Find(values_map, of) # NULL /\ w \in Seq(Kinds) /\ t \in Seq(Kinds) /\ ms \in Seq(Nat)
       /\ Here.of = of /\ Here.types = w \o t /\ Here.marks = ms
  BY <1>3, <1>16, HereFacts
<1>18. IsActivation(outer) /\ outer.of = of /\ outer.under \in Seq(Kinds) /\ outer.marks \in Seq(Nat)
  <2>1. IsActivation(outer) BY <1>3, <1>4, <1>14, <1>15, BlocksAre
  <2>2. outer.of = work[1].of /\ Current.of = work[1].of BY <1>3, <2>1, HereFacts DEF IsActivation
  <2> QED BY <1>16, <2>1, <2>2 DEF IsActivation
<1>19. w = outer.under \o old \o args /\ ms = Append(outer.marks, Len(w)) /\ Len(ms) > 1
  <2>1. Resumable(work[c - 1], work[c]) BY <1>3, <1>13, <1>14 DEF Balanced, BlocksResume
  <2>2. Resumable(outer, Current) BY <1>3, <1>13, <1>14, <1>15, <2>1
  <2>3. Len(ms) > 1 BY <1>3, <1>5, <1>16 DEF IsBlock
  <2> QED BY <1>7, <1>12, <1>16, <2>2, <2>3 DEF Resumable
<1>20. old \in Seq(Kinds) BY <1>11, <1>12 DEF IsContext
<1>21. PICK new \in Seq(Kinds) : new = old \o back BY <1>8, <1>20, ConcatProperties
<1>22. before = old /\ afterwards = new /\ procedure = proc /\ function = func
  BY <1>7, <1>9, <1>10, <1>11, <1>21
<1>23. PICK ins : ins = LeaveOf(n, back) OBVIOUS
<1>24. ins = leave BY <1>7, <1>23 DEF LeaveOf
<1> HIDE DEF before, afterwards, procedure, function, isProcedure, leave
<1>25. CASE Overflow(old, new) # "none" BY <1>2, <1>22, <1>25, BalancedStops
<1>26. CASE Overflow(old, new) = "none"
  <2>1. /\ Emit(<<At(ins, Types)>>)
        /\ proc_ctx' = (IF proc.stmt # NULL THEN WithTypes(proc, new) ELSE proc)
        /\ func_ctx' = (IF proc.stmt # NULL THEN func ELSE WithTypes(func, new))
        /\ values_map' = Put(values_map, astid(id).name, id)
        /\ work' = Advanced(Drop(work, 1))
        /\ quirks' = quirks \union {q \in {"inline_rets"} : ~Returns(Types, rets)}
        /\ UNCHANGED <<prog, phase, cursor, externs_map, labels>>
    BY <1>2, <1>7, <1>22, <1>24, <1>26
  <2>2. Returns(t, rets) BY <1>16, <2>1
  <2>3. KeepsMaps BY <1>4, <1>6, <1>7, <2>1, MapsGrow
  <2>4. Moved(b) BY <1>3, <1>4, <1>13, <2>1, DropAdvancedMoves
  <2>5. Types' = new
    <3>1. CASE proc.stmt # NULL
      <4>1. proc_ctx'.stmt = proc.stmt /\ proc_ctx'.types = new BY <1>12, <2>1, <3>1, ContextWith
      <4> QED BY <3>1, <4>1 DEF Types, Ctx, InProc
    <3>2. CASE proc.stmt = NULL
      <4>1. proc_ctx'.stmt = NULL /\ func_ctx'.types = new BY <1>12, <2>1, <3>2, ContextWith
      <4> QED BY <4>1 DEF Types, Ctx, InProc
    <3> QED BY <3>1, <3>2
  <2>6. FuncKept(b)
    <3>1. \A k \in 1 .. b : (work[k].block = "inline" /\ work[k].saved.stmt = NULL) => isProc /\ proc.stmt # NULL
      BY <1>12, <1>13
    <3> QED BY <1>10, <2>1, <3>1 DEF FuncKept
  <2>7. PICK after : after = Here' OBVIOUS
  <2>8. PICK p : p = Len(code) + 1 OBVIOUS
  <2>9. after.of = of /\ after.types = outer.under \o new /\ after.marks = outer.marks
    BY <1>14, <1>15, <1>18, <2>4, <2>5, <2>7, HereMoves
  <2>10. PICK k : k = Len(w) - n OBVIOUS
  <2>11. Len(w) >= n /\ SubSeq(w \o t, 1, k) = outer.under \o old
    <3>1. PICK u \in Seq(Kinds) : u = outer.under BY <1>18
    <3>2. w = u \o old \o args BY <1>19, <3>1
    <3>3. k = Len(w) - Len(args) BY <1>8, <2>10
    <3>4. Len(w) >= Len(args) /\ SubSeq(w \o t, 1, k) = u \o old
      <4>1. args \in Seq(Kinds) BY <1>8
      <4>2. t \in Seq(Kinds) BY <1>17
      <4>3. u \in Seq(Kinds) BY <3>1
      <4> QED BY ONLY <3>2, <3>3, <4>1, <4>2, <4>3, <1>20, BackOutside, SMTT(30)
    <3> QED BY <1>8, <3>1, <3>4
  <2>12. Drop(ms, 1) = outer.marks /\ Top(ms) = Len(w)
    <3>1. PICK len, om : len = Len(w) /\ om = outer.marks OBVIOUS
    <3>2. len \in Nat BY <1>17, <3>1, LenProperties
    <3>3. om \in Seq(Nat) BY <1>18, <3>1
    <3>4. ms = Append(om, len) BY <1>19, <3>1
    <3>5. Top(ms) = len /\ Drop(ms, 1) = om BY ONLY <3>2, <3>3, <3>4, LastIsDropped
    <3> QED BY <3>1, <3>5
  <2>13. ASSUME code'[p] = View(ins, of, w \o t, ms) PROVE Sits(p)' /\ (Falls(p)' => Joins(p, after)')
    <3>1. PICK s \in Seq(Kinds) : s = w \o t BY <1>17, ConcatProperties
    <3>2. Find(values_map, of)' # NULL BY <1>17, <2>3 DEF KeepsMaps
    <3>3. Sits(p)' /\ TypesAfter(p)' = TypesBack(s, Len(w) - n, back) /\ MarksAfter(p)' = Drop(ms, 1)
      <4>1. code'[p] = View(ins, of, s, ms) BY <2>13, <3>1
      <4>2. Len(ms) > 1 /\ Top(ms) = Len(w) BY <1>19, <2>12
      <4>3. n \in Nat /\ rets \in Seq(Kinds) /\ w \in Seq(Kinds) BY <1>8, <1>17
      <4>4. back = Reversed(rets) BY <1>7
      <4>5. t \in Seq(Kinds) /\ ms \in Seq(Nat) /\ of # START BY <1>17
      <4>6. Len(w) >= n BY <2>11
      <4>7. s = w \o t BY <3>1
      <4>8. Leaves(n, rets, w, t, ms) BY <2>2, <4>2, <4>3, <4>5, <4>6 DEF Leaves
      <4>9. of # START BY <4>5
      <4> QED BY ONLY <1>23, <3>2, <4>1, <4>4, <4>7, <4>8, <4>9, LeaveSits
    <3>4. TypesAfter(p)' = outer.under \o new
      <4>1. TypesAfter(p)' = SubSeq(s, 1, k) \o back BY <2>10, <3>3 DEF TypesBack
      <4>2. TypesAfter(p)' = (outer.under \o old) \o back BY <2>11, <3>1, <4>1
      <4>3. PICK u \in Seq(Kinds) : u = outer.under BY <1>18
      <4>4. (u \o old) \o back = u \o new
        <5>1. back \in Seq(Kinds) BY <1>8
        <5>2. new = old \o back BY <1>21
        <5>3. u \in Seq(Kinds) BY <4>3
        <5> QED BY ONLY <5>1, <5>2, <5>3, <1>20, ConcatAssoc
      <4> QED BY <4>2, <4>3, <4>4
    <3>5. Covers(after.types, TypesAfter(p)')
      <4>1. PICK x : x = outer.under \o new OBVIOUS
      <4>2. x \in Seq(Kinds) BY <1>18, <4>1, ConcatProperties
      <4>3. Covers(x, x) BY <4>2, CoversItself
      <4> QED BY <2>9, <3>4, <4>1, <4>3
    <3>6. code'[p].of = of BY <2>13 DEF View
    <3> QED BY <2>9, <2>12, <3>3, <3>5, <3>6 DEF Joins
  <2>14. Harmless(ins) BY <1>23 DEF Harmless, LeaveOf
  <2>15. code'[p] = View(ins, Current.of, Current.under \o Types, Current.marks) =>
            Sits(p)' /\ (Falls(p)' => Joins(p, after)')
    BY <1>16, <2>13
  <2>16. Emit(<<At(ins, Types)>>) BY <2>1
  <2> QED BY ONLY CompilerShape, Balanced, <1>3, <2>3, <2>4, <2>5, <2>6, <2>7, <2>8, <2>14, <2>15, <2>16, BalancedOneTo
<1> QED BY <1>25, <1>26
-----------------------------------------------------------------------------
(* Branches and loops: all that bears one number meets in one view, the one   *)
(* the block of the IF or the WHILE starts with.                              *)
Flows(i, fam, num, v) ==
    /\ Sits(i) /\ Joins(i, v)
    /\ code[i].ins.op \in {"jmp", "jz", "label"} /\ code[i].ins.l \in fam /\ code[i].ins.n = num
    /\ code[i].ins.op = "label" => SameView(v, code[i])
MeetAt(fam, num, v) ==
    /\ JumpsTo(fam, num, v)
    /\ \A l \in fam : \A j \in Labels(l, num) : SameView(v, code[j])
Nested(c, kind, fam, num, v) ==
    /\ work[c].block \in Family(kind) /\ work[c].label = num
    /\ Awaited(work[c].block) \subseteq fam /\ SameView(v, Entry(c))
NumberIsFree(b, kind, num) == \A k \in 1 .. b : work[k].block \in Family(kind) => work[k].label # num

LEMMA LabelIs ==
    ASSUME NEW l, NEW n
    PROVE  /\ Label(l, n).op = "label" /\ Label(l, n).l = l /\ Label(l, n).n = n
           /\ \A i : i \in Labels(l, n) <=> i \in DOMAIN code /\ code[i].ins = Label(l, n)
BY DEF Label, Labels

LEMMA LoopLabels ==
    /\ \A kind \in BranchBlocks \union LoopBlocks : "while" \in LabelsFor(kind) => kind \in LoopBlocks
    /\ \A kind \in BranchBlocks \union LoopBlocks : \A block \in LoopBlocks :
           block \in Family(kind) => kind \in LoopBlocks
    /\ \A kind \in BranchBlocks \union LoopBlocks : "inline" \notin Family(kind)
    /\ \A kind \in LoopBlocks : Family(kind) = LoopBlocks
BY DEF BranchBlocks, LoopBlocks, Family, LabelsFor

LEMMA BalancedFlow ==
    ASSUME CompilerShape, Balanced, KeepsMaps, work # <<>>, NEW b, Moved(b) \/ Opened(b), FuncKept(b),
           NEW kind \in BranchBlocks \union LoopBlocks, NEW num, NumberIsFree(b, kind, num),
           NEW fam, fam \subseteq LabelsFor(kind), kind \in LoopBlocks => "while" \in fam,
           NEW v, MeetAt(fam, num, v),
           NEW s, Appends(s), NEW n, n = Len(code), NEW m, m = n + Len(s), n < m,
           \A i \in n + 1 .. m : Flows(i, fam, num, v)' /\ (i # n + 1 => SameView(v, code'[i])),
           NEW here, here = Here, SameView(here, code'[n + 1]),
           NEW after, after = Here', SameView(v, after), work' # <<>>,
           NEW c, c = b + 1, Opened(b) => Nested(c, kind, fam, num, v)'
    PROVE  Balanced'
<1>1. Grown(n, m) BY AppendsGrows
<1>2. n \in Nat /\ m \in Nat /\ Len(s) \in Nat BY <1>1, CodeGrows DEF Grown
<1>3. ASSUME NEW i \in n + 1 .. m
      PROVE  /\ Sits(i)' /\ Joins(i, v)' /\ code'[i].ins.l \in fam /\ code'[i].ins.n = num
             /\ (code'[i].ins.op = "label" \/ i # n + 1) => SameView(v, code'[i])
  BY DEF Flows
<1>4. /\ b \in 1 .. Len(work) /\ b \in Nat \ {0} /\ DOMAIN work = 1 .. Len(work) /\ Activations
      /\ prog' = prog /\ 1 .. b \subseteq DOMAIN work
  <2>1. /\ Len(work) \in Nat \ {0} /\ DOMAIN work = 1 .. Len(work) /\ Activations /\ prog' = prog
    BY ShapeFacts, BlocksAre DEF KeepsMaps
  <2>2. b \in 1 .. Len(work) BY DEF Moved, Opened
  <2> QED BY <2>1, <2>2
<1>5. InstructionsFit' BY <1>1, <1>3, FitGrows DEF Balanced
<1>6. CodeFlows'
  <2>1. ASSUME NEW i \in n + 1 .. m PROVE IF i < m THEN Joins(i, code[i + 1])' ELSE work' # <<>> /\ Joins(i, after)'
    <3>1. CASE i < m
      <4>1. PICK j : j = i + 1 OBVIOUS
      <4>2. j \in n + 1 .. m /\ j # n + 1 BY <1>2, <3>1, <4>1
      <4>3. PICK w : w = code'[j] OBVIOUS
      <4>4. SameView(v, w) BY <1>3, <4>2, <4>3
      <4>5. Joins(i, v)' BY <1>3
      <4>6. Joins(i, w)' BY <4>4, <4>5, JoinsAlike
      <4> QED BY <3>1, <4>1, <4>3, <4>6
    <3>2. CASE ~(i < m)
      <4>1. Joins(i, v)' BY <1>3
      <4>2. Joins(i, after)' BY <4>1, JoinsAlike
      <4> QED BY <3>2, <4>2
    <3> QED BY <3>1, <3>2
  <2>2. CodeFlows BY DEF Balanced
  <2> QED BY <1>1, <2>1, <2>2, FlowGrows
<1>7. LabelsAre(m, fam, num, v)
  <2> SUFFICES ASSUME NEW i \in 1 .. m, NEW l \in fam, code'[i].ins = Label(l, num)
               PROVE  SameView(v, code'[i])
    BY DEF LabelsAre
  <2>1. CASE i \in 1 .. n
    <3>1. code'[i] = code[i] /\ i \in DOMAIN code BY <1>1, <2>1 DEF Grown
    <3>2. i \in Labels(l, num) BY <3>1, LabelIs
    <3> QED BY <3>1, <3>2 DEF MeetAt
  <2>2. CASE i \notin 1 .. n
    <3>1. i \in n + 1 .. m BY <1>2, <2>2
    <3> QED BY <1>3, <3>1, LabelIs
  <2> QED BY <2>1, <2>2
<1>8. ASSUME NEW k \in 1 .. b
      PROVE  /\ Entry(k)' = Entry(k) /\ work'[k].block = work[k].block /\ work'[k].label = work[k].label
  BY EntriesStay
<1>9. IsSeq(work') /\ (Moved(b) => DOMAIN work' = 1 .. b)
      /\ (Opened(b) => DOMAIN work' = 1 .. c /\ \A k \in 1 .. c : k \in 1 .. b \/ k = c)
  <2>1. IsSeq(work') /\ (Moved(b) => Len(work') = b) /\ (Opened(b) => Len(work') = c) BY DEF Moved, Opened
  <2> QED BY <1>4, <2>1, IsSeqProperties
<1>10. JumpsMeet'
  <2>1. ASSUME NEW k \in 1 .. b, NEW l \in Awaited(work'[k].block)
        PROVE  IF l \in fam /\ work'[k].label = num THEN SameView(v, Entry(k)')
               ELSE /\ k \in DOMAIN work /\ l \in Awaited(work[k].block)
                    /\ work'[k].label = work[k].label /\ SameView(Entry(k), Entry(k)')
    <3>1. l \in Awaited(work[k].block) BY <1>8
    <3>2. ~(l \in fam /\ work'[k].label = num)
      <4>1. SUFFICES ASSUME l \in fam, work[k].label = num PROVE FALSE BY <1>8
      <4>2. l \in LabelsFor(kind) BY <4>1
      <4>3. work[k].block \in Family(kind) BY <3>1, <4>2, WrittenIsAwaited
      <4> QED BY <4>1, <4>3 DEF NumberIsFree
    <3>3. SameView(Entry(k), Entry(k)') BY <1>8 DEF SameView
    <3> QED BY <1>4, <1>8, <3>1, <3>2, <3>3
  <2>2. ASSUME Opened(b), NEW l \in Awaited(work'[c].block)
        PROVE  l \in fam /\ work'[c].label = num /\ SameView(v, Entry(c)')
    BY <2>2 DEF Nested
  <2>3. AwaitedAt(fam, num, v)
    <3>1. CASE Moved(b) BY <1>9, <2>1, <3>1 DEF AwaitedAt
    <3>2. CASE Opened(b)
      <4> SUFFICES ASSUME NEW k \in DOMAIN work', NEW l \in Awaited(work'[k].block)
                   PROVE  IF l \in fam /\ work'[k].label = num THEN SameView(v, Entry(k)')
                          ELSE /\ k \in DOMAIN work /\ l \in Awaited(work[k].block)
                               /\ work'[k].label = work[k].label /\ SameView(Entry(k), Entry(k)')
        BY DEF AwaitedAt
      <4>1. k \in 1 .. b \/ k = c BY <1>9, <3>2
      <4>2. CASE k = c BY <2>2, <3>2, <4>2
      <4> QED BY <2>1, <4>1, <4>2
    <3> QED BY <3>1, <3>2
  <2>4. NewFor(n, m, fam, num, v) BY <1>3 DEF NewFor
  <2>5. JumpsMeet /\ JumpsTo(fam, num, v) BY DEF Balanced, MeetAt
  <2> QED BY <1>1, <1>7, <2>3, <2>4, <2>5, JumpsMeetStep
<1>11. BlocksResume'
  <2>1. \A k \in 1 .. b : (work[k].block = "inline" /\ work[k].saved.stmt = NULL) =>
               func_ctx'.types = func_ctx.types
    BY DEF FuncKept
  <2>2. ASSUME NEW k \in 1 .. b, work[k].block \in LoopBlocks, NEW j \in n + 1 .. m,
               code'[j].ins = Label("while", work[k].label)
        PROVE  FALSE
    <3>1. "while" \in fam /\ work[k].label = num BY <1>3, <2>2, LabelIs
    <3>2. work[k].block \in Family(kind) BY <2>2, <3>1, LoopLabels
    <3> QED BY <3>1, <3>2 DEF NumberIsFree
  <2>3. ASSUME Opened(b)
        PROVE  /\ work'[c].block \in LoopBlocks =>
                     \A j \in 1 .. m : code'[j].ins = Label("while", work'[c].label) => SameView(code'[j], Entry(c)')
               /\ work'[c].block # "inline"
    <3>1. /\ work'[c].block \in Family(kind) /\ work'[c].label = num /\ SameView(v, Entry(c)')
      BY <2>3 DEF Nested
    <3>2. ASSUME work'[c].block \in LoopBlocks, NEW j \in 1 .. m, code'[j].ins = Label("while", num)
          PROVE  SameView(code'[j], Entry(c)')
      <4>1. "while" \in fam BY <3>1, <3>2, LoopLabels
      <4>2. SameView(v, code'[j]) BY <1>7, <3>2, <4>1 DEF LabelsAre
      <4> QED BY <3>1, <4>2 DEF SameView
    <3> QED BY <3>1, <3>2, LoopLabels
  <2>4. BlocksResume BY DEF Balanced
  <2> QED BY <1>1, <1>4, <2>1, <2>2, <2>3, <2>4, BlocksResumeStep
<1> QED BY <1>5, <1>6, <1>10, <1>11 DEF Balanced
(* Where the labels of a new number, or of the current block, meet.           *)
LEMMA FreshMeets ==
    ASSUME CompilerShape, NEW kind \in BranchBlocks \union LoopBlocks,
           NEW num, num = (IF kind \in BranchBlocks THEN label_counter ELSE while_label_counter),
           NEW fam, fam \subseteq LabelsFor(kind), NEW v
    PROVE  MeetAt(fam, num, v) /\ NumberIsFree(Len(work), kind, num)
<1>1. /\ \A l \in LabelsFor(kind) : Labels(l, num) = {}
      /\ \A k \in 1 .. Len(work) : work[k].block \in Family(kind) => work[k].label # num
  <2>1. CASE kind \in BranchBlocks BY <2>1, FreshLabels, BlockKinds
  <2>2. CASE kind \in LoopBlocks
    <3>1. kind \notin BranchBlocks BY <2>2 DEF BranchBlocks, LoopBlocks
    <3> QED BY <2>2, <3>1, FreshLabels, BlockKinds
  <2> QED BY <2>1, <2>2
<1>2. ASSUME NEW i \in JumpsAt, code[i].ins.l \in fam, code[i].ins.n = num PROVE FALSE
  <2>1. PICK l : l = code[i].ins.l OBVIOUS
  <2>2. l \in LabelsFor(kind) /\ Labels(l, num) = {} BY <1>1, <1>2, <2>1
  <2>3. PICK k \in DOMAIN work : Awaits(k, l, num)
    BY <1>2, <2>1, <2>2 DEF CompilerShape, LabelsInCode
  <2>4. l \in Awaited(work[k].block) /\ work[k].label = num BY <2>3 DEF Awaits
  <2>5. work[k].block \in Family(kind) BY <2>2, <2>4, WrittenIsAwaited
  <2>6. k \in 1 .. Len(work) BY ShapeFacts, IsSeqProperties
  <2> QED BY <1>1, <2>4, <2>5, <2>6
<1>3. MeetAt(fam, num, v)
  <2>1. JumpsTo(fam, num, v) BY <1>2 DEF JumpsTo
  <2>2. \A l \in fam : \A j \in Labels(l, num) : SameView(v, code[j]) BY <1>1
  <2> QED BY <2>1, <2>2 DEF MeetAt
<1> QED BY <1>1, <1>3 DEF NumberIsFree

LEMMA HereMeets ==
    ASSUME CompilerShape, Balanced, work # <<>>, Len(work) > 1, NEW kind \in BranchBlocks \union LoopBlocks,
           kind = Current.block, NEW num, num = Current.label,
           NEW fam, fam \subseteq Awaited(kind) \union (IF kind \in LoopBlocks THEN {"while"} ELSE {}),
           NEW v, v = Entry(Len(work)), NEW b, b = Len(work) - 1
    PROVE  MeetAt(fam, num, v) /\ NumberIsFree(b, kind, num)
<1>1. /\ Current = work[Len(work)] /\ \A l \in Awaited(kind) : Labels(l, num) = {}
      /\ kind \in LoopBlocks => Labels("while", num) # {}
      /\ \A k \in 1 .. b : work[k].block \in Family(kind) => work[k].label # num
  BY Enclosing
<1>2. PICK k : k = Len(work) OBVIOUS
<1>3. k \in DOMAIN work /\ work[k].block = kind /\ work[k].label = num
  BY <1>1, <1>2, ShapeFacts, BlocksAre
<1>4. JumpsMeet /\ BlocksResume BY DEF Balanced
<1>5. ASSUME kind \in LoopBlocks, NEW j \in Labels("while", num) PROVE SameView(v, code[j])
  <2>1. SameView(code[j], Entry(k)) BY <1>3, <1>4, <1>5 DEF BlocksResume
  <2> QED BY <1>2, <2>1 DEF SameView
<1>6. ASSUME NEW i \in JumpsAt, code[i].ins.l \in fam, code[i].ins.n = num PROVE Joins(i, v)
  <2>1. PICK l : l = code[i].ins.l OBVIOUS
  <2>2. CASE l \in Awaited(kind)
    <3>1. Awaits(k, l, num) BY <1>3, <2>2 DEF Awaits
    <3> QED BY <1>2, <1>3, <1>4, <1>6, <2>1, <3>1 DEF JumpsMeet
  <2>3. CASE l \notin Awaited(kind)
    <3>1. kind \in LoopBlocks /\ l = "while" BY <1>6, <2>1, <2>3
    <3>2. PICK j : j \in Labels(l, num) BY <1>1, <3>1
    <3>3. PICK w : w = code[j] OBVIOUS
    <3>4. Joins(i, w) BY <1>4, <1>6, <2>1, <3>2, <3>3 DEF JumpsMeet
    <3>5. SameView(v, w) BY <1>5, <3>1, <3>2, <3>3
    <3> QED BY <3>4, <3>5, JoinsAlike
  <2> QED BY <2>2, <2>3
<1>7. ASSUME NEW l \in fam, NEW j \in Labels(l, num) PROVE SameView(v, code[j])
  <2>1. CASE l \in Awaited(kind) BY <1>1, <1>7, <2>1
  <2>2. CASE l \notin Awaited(kind)
    <3>1. kind \in LoopBlocks /\ l = "while" BY <1>7, <2>2
    <3> QED BY <1>5, <1>7, <3>1
  <2> QED BY <2>1, <2>2
<1>8. MeetAt(fam, num, v)
  <2>1. JumpsTo(fam, num, v) BY <1>6 DEF JumpsTo
  <2> QED BY <1>7, <2>1 DEF MeetAt
<1> QED BY <1>1, <1>8 DEF NumberIsFree

(* A jump or a label in a block that has under below it the types u.          *)
Placed(of, u, ms) ==
    of # START /\ Find(values_map, of) # NULL /\ u \in Seq(Kinds) /\ ms \in Seq(Nat)
FlowIns(ins, fam, num) == ins.op \in {"jmp", "jz", "label"} /\ ins.l \in fam /\ ins.n = num
TakesTo(ins, t, ets) ==
    /\ t \in Seq(Kinds) /\ ets \in Seq(Kinds)
    /\ IF ins.op = "jz" THEN Len(t) >= 1 /\ ets = Drop(t, 1) ELSE ets = t
ViewOf(of, u, ts, ms) == View([op |-> "next"], of, u \o ts, ms)

LEMMA FlowSits ==
    ASSUME NEW of, NEW u, NEW ms, Placed(of, u, ms)', NEW ins, NEW fam, NEW num, FlowIns(ins, fam, num),
           NEW t, NEW ets, TakesTo(ins, t, ets), NEW i, code'[i] = View(ins, of, u \o t, ms),
           NEW v, v = ViewOf(of, u, ets, ms)
    PROVE  Flows(i, fam, num, v)' /\ (ins.op # "jz" => SameView(v, code'[i]))
<1>1. /\ of # START /\ Find(values_map, of)' # NULL /\ u \in Seq(Kinds) /\ ms \in Seq(Nat)
      /\ ins.op \in {"jmp", "jz", "label"} /\ ins.l \in fam /\ ins.n = num
      /\ t \in Seq(Kinds) /\ ets \in Seq(Kinds)
      /\ IF ins.op = "jz" THEN Len(t) >= 1 /\ ets = Drop(t, 1) ELSE ets = t
  BY DEF Placed, FlowIns, TakesTo
<1>2. v.of = of /\ v.types = u \o ets /\ v.marks = ms BY DEF ViewOf, View
<1>3. /\ code'[i].ins = ins /\ code'[i].of = of /\ code'[i].types = u \o t /\ code'[i].marks = ms
  BY DEF View
<1>4. PICK p : p = Pops(ins) OBVIOUS
<1>5. p = (IF ins.op = "jz" THEN 1 ELSE 0) /\ Pushes(ins, u \o t) = <<>> BY <1>1, <1>4 DEF Pops, Pushes
<1>6. ins.op \in Ordinary /\ ins.op \notin {"push", "loadvar", "not"} BY <1>1 DEF Ordinary
<1>7. PICK s \in Seq(Kinds) : s = u \o t BY <1>1, ConcatProperties
<1>8. p \in Nat /\ p <= Len(t) BY <1>1, <1>5, LenProperties
<1>9. Drop(t, p) = ets /\ Drop(s, p) = u \o Drop(t, p) /\ Len(s) >= p
  <2>1. Drop(s, p) = u \o Drop(t, p)
    <3>1. u \in Seq(Kinds) /\ t \in Seq(Kinds) BY <1>1
    <3>2. Drop(u \o t, p) = u \o Drop(t, p) BY ONLY <1>8, <3>1, Stacked
    <3> QED BY <1>7, <3>2
  <2>2. Drop(t, p) = ets BY <1>1, <1>5, DropNone
  <2>3. Len(s) = Len(u) + Len(t) /\ Len(u) \in Nat /\ Len(t) \in Nat BY <1>1, <1>7, ConcatProperties, LenProperties
  <2> QED BY <1>8, <2>1, <2>2, <2>3
<1>10. PICK w \in Seq(Kinds) : w = u \o ets BY <1>1, ConcatProperties
<1>11. Sits(i)' /\ TypesAfter(i)' = Drop(s, p) \o <<>> /\ MarksAfter(i)' = ms
  <2>1. /\ Sits(i)' /\ TypesAfter(i)' = Drop(s, Pops(ins)) \o Pushes(ins, s) /\ MarksAfter(i)' = ms
    <3>1. code'[i] = View(ins, of, s, ms) BY <1>7
    <3>2. of # START /\ Find(values_map, of)' # NULL /\ ms \in Seq(Nat) BY <1>1
    <3>3. ins.op \in {"push", "loadvar"} => ins.kind \in Kinds \ {"poisoned"} BY <1>6
    <3>4. ins.op = "not" => Top(s) \in {"int", "byte"} BY <1>6
    <3>5. Len(s) >= Pops(ins) BY <1>4, <1>9
    <3>6. ins.op \in Ordinary BY <1>6
    <3> QED BY ONLY <3>1, <3>2, <3>3, <3>4, <3>5, <3>6, s \in Seq(Kinds), OrdinarySits
  <2> QED BY <1>4, <1>5, <1>7, <2>1
<1>12. TypesAfter(i)' = w BY <1>9, <1>10, <1>11, ConcatEmptySeq
<1>13. Joins(i, v)'
  <2>1. Covers(w, w) BY CoversItself
  <2> QED BY <1>2, <1>3, <1>10, <1>11, <1>12, <2>1 DEF Joins
<1>14. ins.op # "jz" => SameView(v, code'[i]) BY <1>1, <1>2, <1>3 DEF SameView
<1> QED BY <1>1, <1>3, <1>11, <1>13, <1>14 DEF Flows
(* What a step of a branch or a loop writes in the current block, which has   *)
(* the types t, and before all but the first instruction the types ets.       *)
Written(x, of, u, ms, fam, num, t, ets) ==
    x = View(x.ins, of, u \o t, ms) /\ FlowIns(x.ins, fam, num) /\ TakesTo(x.ins, t, ets)
AllWritten(s, of, u, ms, fam, num, t, ets) ==
    /\ s # <<>> /\ Written(s[1], of, u, ms, fam, num, t, ets)
    /\ \A j \in 2 .. Len(s) : Written(s[j], of, u, ms, fam, num, ets, ets) /\ s[j].ins.op # "jz"
(* The block that is current next, in which the types are ets.                *)
GoesOn(b, of, u, ms, kind, fam, num, ets) ==
    /\ Moved(b) => work[b].of = of /\ work[b].under = u /\ work[b].marks = ms
    /\ Opened(b) => \E block \in Family(kind) : \E first :
                        Awaited(block) \subseteq fam /\ work'[b + 1] = Block(block, first, num, ets)

LEMMA BlockFields ==
    ASSUME CompilerShape, work # <<>>, NEW block, NEW first, NEW label, NEW ts, NEW f, f = Block(block, first, label, ts)
    PROVE  /\ f.block = block /\ f.label = label /\ f.entry = ts /\ f.of = Current.of
           /\ f.under = Current.under /\ f.marks = Current.marks
<1>1. DOMAIN Current = Frame BY ShapeFacts, BlocksAre DEF IsActivation, Frame
<1>2. PICK g : g = Current OBVIOUS
<1>3. f = [g EXCEPT !.block = block, !.cur = first, !.label = label, !.entry = ts] BY <1>2 DEF Block
<1>4. DOMAIN g = Frame BY <1>1, <1>2
<1>5. /\ f.block = block /\ f.label = label /\ f.entry = ts /\ f.of = g.of /\ f.under = g.under /\ f.marks = g.marks
  BY <1>3, <1>4 DEF Frame
<1> QED BY <1>2, <1>5

LEMMA BalancedFlowStep ==
    ASSUME CompilerShape, Balanced, KeepsMaps, work # <<>>, NEW b, Moved(b) \/ Opened(b), FuncKept(b),
           NEW kind \in BranchBlocks \union LoopBlocks, NEW num, NumberIsFree(b, kind, num),
           NEW fam, fam \subseteq LabelsFor(kind), kind \in LoopBlocks => "while" \in fam,
           NEW of, of = Current.of, NEW u, u = Current.under, NEW ms, ms = Current.marks,
           NEW t, t = Types, NEW ets, Types' = ets, NEW v, v = ViewOf(of, u, ets, ms), MeetAt(fam, num, v),
           NEW s, Appends(s), AllWritten(s, of, u, ms, fam, num, t, ets),
           GoesOn(b, of, u, ms, kind, fam, num, ets)
    PROVE  Balanced'
<1>1. /\ Current = work[Len(work)] /\ Len(work) \in Nat \ {0} /\ DOMAIN work = 1 .. Len(work)
      /\ of # START /\ Find(values_map, of) # NULL /\ u \in Seq(Kinds) /\ ms \in Seq(Nat)
      /\ Here.of = of /\ Here.types = u \o t /\ Here.marks = ms
  BY HereFacts
<1>2. Placed(of, u, ms)' BY <1>1 DEF Placed, KeepsMaps
<1>3. PICK n, m : n = Len(code) /\ m = Len(code) + Len(s) OBVIOUS
<1>4. Grown(n, m) /\ \A j \in 1 .. Len(s) : code'[n + j] = s[j] BY <1>3, AppendsGrows
<1>5. n \in Nat /\ m \in Nat /\ Len(s) \in Nat /\ m = n + Len(s) /\ IsSeq(s)
  BY <1>3, <1>4, CodeGrows DEF Grown, Appends
<1>6. Len(s) >= 1 /\ n < m
  <2>1. s # <<>> BY DEF AllWritten
  <2>2. Len(s) # 0 BY <1>5, <2>1, IsSeqProperties, SMTT(30)
  <2> QED BY <1>5, <2>2
<1>7. 1 \in 1 .. Len(s) /\ code'[n + 1] = s[1] BY <1>4, <1>5, <1>6
<1>8. Written(s[1], of, u, ms, fam, num, t, ets) BY DEF AllWritten
<1>9. ASSUME NEW i \in n + 1 .. m PROVE Flows(i, fam, num, v)' /\ (i # n + 1 => SameView(v, code'[i]))
  <2>1. CASE i = n + 1
    <3>1. PICK x, ins : x = s[1] /\ ins = x.ins OBVIOUS
    <3>2. x = View(ins, of, u \o t, ms) /\ FlowIns(ins, fam, num) /\ TakesTo(ins, t, ets)
      BY <1>8, <3>1 DEF Written
    <3>3. code'[i] = View(ins, of, u \o t, ms) BY <1>7, <2>1, <3>1, <3>2
    <3>4. FlowIns(ins, fam, num) BY <3>2
    <3>5. TakesTo(ins, t, ets) BY <3>2
    <3>6. Flows(i, fam, num, v)' BY ONLY <1>2, <3>3, <3>4, <3>5, v = ViewOf(of, u, ets, ms), FlowSits
    <3> QED BY <2>1, <3>6
  <2>2. CASE i # n + 1
    <3>1. PICK j : j = i - n OBVIOUS
    <3>2. j \in 2 .. Len(s) /\ j \in 1 .. Len(s) /\ i = n + j BY <1>5, <2>2, <3>1
    <3>3. PICK x, ins : x = s[j] /\ ins = x.ins OBVIOUS
    <3>4. Written(x, of, u, ms, fam, num, ets, ets) /\ ins.op # "jz" BY <3>2, <3>3 DEF AllWritten
    <3>5. x = View(ins, of, u \o ets, ms) BY <3>3, <3>4 DEF Written
    <3>6. FlowIns(ins, fam, num) BY <3>3, <3>4 DEF Written
    <3>7. TakesTo(ins, ets, ets) BY <3>3, <3>4 DEF Written
    <3>8. code'[i] = View(ins, of, u \o ets, ms) BY <1>4, <3>2, <3>3, <3>5
    <3>9. ins.op # "jz" BY <3>4
    <3> QED BY ONLY <1>2, <3>6, <3>7, <3>8, <3>9, v = ViewOf(of, u, ets, ms), FlowSits
  <2> QED BY <2>1, <2>2
<1>10. PICK here, after : here = Here /\ after = Here' OBVIOUS
<1>11. SameView(here, code'[n + 1])
  <2>1. PICK x : x = s[1] OBVIOUS
  <2>2. x = View(x.ins, of, u \o t, ms) BY <1>8, <2>1 DEF Written
  <2>3. x.of = of /\ x.types = u \o t /\ x.marks = ms
    <3>1. PICK ins : ins = x.ins OBVIOUS
    <3>2. x = View(ins, of, u \o t, ms) BY <2>2, <3>1
    <3> QED BY <3>2 DEF View
  <2> QED BY <1>1, <1>7, <1>10, <2>1, <2>3 DEF SameView
<1>12. PICK c : c = b + 1 OBVIOUS
<1>13. v.of = of /\ v.types = u \o ets /\ v.marks = ms BY DEF ViewOf, View
<1>14. b \in 1 .. Len(work) BY DEF Moved, Opened
<1>15. b \in Nat \ {0} BY <1>1, <1>14
<1>16. work' # <<>> /\ SameView(v, after)
  <2>1. CASE Moved(b)
    <3>1. work[b].of = of /\ work[b].under = u /\ work[b].marks = ms BY <2>1 DEF GoesOn
    <3>2. /\ work' # <<>> /\ Here'.of = work[b].of /\ Here'.types = work[b].under \o ets
          /\ Here'.marks = work[b].marks
      BY <1>15, <2>1, HereMoves
    <3> QED BY <1>10, <1>13, <3>1, <3>2 DEF SameView
  <2>2. CASE Opened(b)
    <3>1. PICK f : f = work'[b + 1] OBVIOUS
    <3>2. PICK block, first : f = Block(block, first, num, ets) BY <2>2, <3>1 DEF GoesOn
    <3>3. f.of = of /\ f.under = u /\ f.marks = ms BY <3>2, BlockFields
    <3>4. work' # <<>> /\ Here'.of = f.of /\ Here'.types = f.under \o ets /\ Here'.marks = f.marks
      BY <1>15, <2>2, <3>1, HereOpens
    <3> QED BY <1>10, <1>13, <3>3, <3>4 DEF SameView
  <2> QED BY <2>1, <2>2
<1>17. Opened(b) => Nested(c, kind, fam, num, v)'
  <2> SUFFICES ASSUME Opened(b) PROVE Nested(c, kind, fam, num, v)' OBVIOUS
  <2>1. PICK f : f = work'[c] OBVIOUS
  <2>2. PICK block, first : /\ block \in Family(kind) /\ Awaited(block) \subseteq fam
                            /\ f = Block(block, first, num, ets)
    BY <1>12, <2>1 DEF GoesOn
  <2>3. /\ f.block = block /\ f.label = num /\ f.entry = ets /\ f.of = of /\ f.under = u /\ f.marks = ms
    BY <2>2, BlockFields
  <2>4. SameView(v, Entry(c)') BY <1>13, <2>1, <2>3 DEF SameView, Entry, View
  <2> QED BY <2>1, <2>2, <2>3, <2>4 DEF Nested
<1> QED
  BY ONLY CompilerShape, Balanced, KeepsMaps, work # <<>>, Moved(b) \/ Opened(b), FuncKept(b),
          kind \in BranchBlocks \union LoopBlocks, NumberIsFree(b, kind, num), fam \subseteq LabelsFor(kind),
          kind \in LoopBlocks => "while" \in fam, MeetAt(fam, num, v), Appends(s),
          <1>3, <1>6, <1>9, <1>10, <1>11, <1>12, <1>16, <1>17, BalancedFlow

(* Jumps and labels, one to three at a time.                                  *)
LEMMA JumpTakes ==
    ASSUME NEW ets \in Seq(Kinds), NEW l, NEW fam, l \in fam, NEW num
    PROVE  /\ FlowIns(Jump("jmp", l, num), fam, num) /\ TakesTo(Jump("jmp", l, num), ets, ets)
           /\ FlowIns(Label(l, num), fam, num) /\ TakesTo(Label(l, num), ets, ets)
           /\ FlowIns(Jump("jz", l, num), fam, num)
           /\ Jump("jmp", l, num).op # "jz" /\ Label(l, num).op # "jz"
           /\ \A t \in Seq(Kinds) : (Len(t) >= 1 /\ ets = Drop(t, 1)) => TakesTo(Jump("jz", l, num), t, ets)
BY DEF FlowIns, TakesTo, Jump, Label

LEMMA WrittenAt ==
    ASSUME NEW ins, NEW t, NEW x, x = At(ins, t), NEW of, of = Current.of, NEW u, u = Current.under,
           NEW ms, ms = Current.marks, NEW fam, NEW num, FlowIns(ins, fam, num), NEW ets, TakesTo(ins, t, ets)
    PROVE  Written(x, of, u, ms, fam, num, t, ets) /\ x.ins = ins
<1>1. x = View(ins, of, u \o t, ms) BY DEF At
<1>2. x.ins = ins BY <1>1 DEF View
<1> QED BY <1>1, <1>2 DEF Written

Three(x, y, z) == Append(<<x, y>>, z)
LEMMA ThreeInARow ==
    ASSUME NEW x, NEW y, NEW z, NEW q, q = Three(x, y, z)
    PROVE  IsSeq(q) /\ Len(q) = 3 /\ q[1] = x /\ q[2] = y /\ q[3] = z /\ q # <<>>
<1>0. PICK p : p = <<x, y>> OBVIOUS
<1>1. p \in Seq({x, y, z}) /\ Len(p) = 2 /\ p[1] = x /\ p[2] = y BY <1>0
<1>2. z \in {x, y, z} OBVIOUS
<1>3. PICK S : S = {x, y, z} OBVIOUS
<1>4. p \in Seq(S) /\ z \in S BY <1>1, <1>2, <1>3
<1>5. q \in Seq(S) /\ Len(q) = Len(p) + 1 /\ q[Len(p) + 1] = z /\ q # <<>> /\ \A i \in 1 .. Len(p) : q[i] = p[i]
  BY <1>0, <1>4, AppendProperties DEF Three
<1>6. Len(q) = 3 /\ q[1] = x /\ q[2] = y /\ q[3] = z BY <1>1, <1>5
<1>7. IsSeq(q) BY <1>5, SeqIsSeq
<1> QED BY <1>5, <1>6, <1>7

LEMMA AllWrittenOne ==
    ASSUME NEW x, NEW s, s = <<x>>, NEW of, NEW u, NEW ms, NEW fam, NEW num, NEW t, NEW ets,
           Written(x, of, u, ms, fam, num, t, ets)
    PROVE  IsSeq(s) /\ AllWritten(s, of, u, ms, fam, num, t, ets)
<1>1. IsSeq(s) /\ Len(s) = 1 /\ s[1] = x /\ s # <<>> BY SmallSeqs
<1>2. \A j : j \notin 2 .. Len(s) BY <1>1
<1> QED BY <1>1, <1>2 DEF AllWritten

LEMMA AllWrittenTwo ==
    ASSUME NEW x, NEW y, NEW s, s = <<x, y>>, NEW of, NEW u, NEW ms, NEW fam, NEW num, NEW t, NEW ets,
           Written(x, of, u, ms, fam, num, t, ets), Written(y, of, u, ms, fam, num, ets, ets), y.ins.op # "jz"
    PROVE  IsSeq(s) /\ AllWritten(s, of, u, ms, fam, num, t, ets)
<1>1. IsSeq(s) /\ Len(s) = 2 /\ s[1] = x /\ s[2] = y /\ s # <<>> BY SmallSeqs
<1>2. \A j \in 2 .. Len(s) : j = 2 BY <1>1
<1> QED BY <1>1, <1>2 DEF AllWritten

LEMMA AllWrittenThree ==
    ASSUME NEW x, NEW y, NEW z, NEW s, s = Three(x, y, z),
           NEW of, NEW u, NEW ms, NEW fam, NEW num, NEW t, NEW ets,
           Written(x, of, u, ms, fam, num, t, ets), Written(y, of, u, ms, fam, num, ets, ets), y.ins.op # "jz",
           Written(z, of, u, ms, fam, num, ets, ets), z.ins.op # "jz"
    PROVE  IsSeq(s) /\ AllWritten(s, of, u, ms, fam, num, t, ets)
<1>1. IsSeq(s) /\ Len(s) = 3 /\ s[1] = x /\ s[2] = y /\ s[3] = z /\ s # <<>>
  BY ThreeInARow
<1>2. \A j \in 2 .. Len(s) : j = 2 \/ j = 3 BY <1>1
<1> QED BY <1>1, <1>2 DEF AllWritten

(* The end of a block of an IF or a WHILE.                                    *)
FamilyAt(block) == Awaited(block) \union (IF block \in LoopBlocks THEN {"while"} ELSE {})
LEMMA FamilyAtIs ==
    /\ FamilyAt("then") = {"else", "edon"} /\ FamilyAt("else") = {"edon"}
    /\ FamilyAt("cond") = {"while", "wdon"} /\ FamilyAt("body") = {"while", "wdon"}
    /\ \A block \in BranchBlocks \union LoopBlocks : FamilyAt(block) \subseteq LabelsFor(block)
BY DEF FamilyAt, Awaited, BranchBlocks, LoopBlocks, LabelsFor

LEMMA BalancedReturn ==
    ASSUME CompilerShape, Balanced, KeepsMaps, NEW kind \in BranchBlocks \union LoopBlocks, Returning(kind),
           NEW num, num = Current.label, NEW fam, fam = FamilyAt(kind),
           NEW b, b = Len(work) - 1, Moved(b) \/ Opened(b), FuncKept(Len(work)),
           NEW of, of = Current.of, NEW u, u = Current.under, NEW ms, ms = Current.marks,
           NEW t, t = Types, NEW ets, ets = Current.entry, Types' = ets,
           NEW s, IsSeq(s), Emit(s), AllWritten(s, of, u, ms, fam, num, t, ets),
           Opened(b) => \E block \in Family(kind) : \E first :
                            Awaited(block) \subseteq fam /\ work'[b + 1] = Block(block, first, num, ets)
    PROVE  Balanced'
<1>1. /\ work # <<>> /\ Current.block = kind /\ Current = work[Len(work)] /\ Len(work) > 1
      /\ Len(work) \in Nat \ {0}
  <2>1. kind # "routine" BY DEF BranchBlocks, LoopBlocks
  <2> QED BY <2>1, Return
<1>2. PICK k : k = Len(work) OBVIOUS
<1>3. PICK v : v = ViewOf(of, u, ets, ms) OBVIOUS
<1>4. v = Entry(Len(work)) BY <1>1, <1>3 DEF ViewOf, Entry
<1>5. fam \subseteq Awaited(kind) \union (IF kind \in LoopBlocks THEN {"while"} ELSE {})
  BY DEF FamilyAt
<1>6. MeetAt(fam, num, v) /\ NumberIsFree(b, kind, num) BY <1>1, <1>4, <1>5, HereMeets
<1>7. fam \subseteq LabelsFor(kind) /\ (kind \in LoopBlocks => "while" \in fam) BY FamilyAtIs DEF FamilyAt
<1>8. FuncKept(b)
  <2>1. 1 .. b \subseteq 1 .. Len(work) BY <1>1
  <2> QED BY <2>1 DEF FuncKept
<1>9. work[b].of = of /\ work[b].under = u /\ work[b].marks = ms
  <2>1. IsBlock(k) /\ k \in Nat /\ k > 1 /\ b = k - 1 /\ Current = work[k] BY <1>1, <1>2, ShapeFacts, BlocksAre
  <2>2. ~Expands(k) BY <1>1, <2>1 DEF Expands, BranchBlocks, LoopBlocks
  <2>3. Within(work[k], work[k - 1]) BY <2>1, <2>2 DEF IsBlock
  <2> QED BY <2>1, <2>3 DEF Within
<1>10. GoesOn(b, of, u, ms, kind, fam, num, ets) BY <1>9 DEF GoesOn
<1>11. Appends(s) BY ShapeFacts DEF Appends, Emit
<1> QED
  BY ONLY CompilerShape, Balanced, KeepsMaps, <1>1, Moved(b) \/ Opened(b), <1>8,
          kind \in BranchBlocks \union LoopBlocks, <1>6, <1>7, of = Current.of, u = Current.under,
          ms = Current.marks, t = Types, Types' = ets, <1>3, <1>11,
          AllWritten(s, of, u, ms, fam, num, t, ets), <1>10, BalancedFlowStep
(* The types at the end of a block are those it started with.                 *)
LEMMA TypesAsAtEntry ==
    ASSUME quirks' = {}, NEW q, quirks' = quirks \union Unbalanced(q)
    PROVE  Types = Current.entry
<1>1. q \notin Unbalanced(q) OBVIOUS
<1> QED BY <1>1 DEF Unbalanced

LEMMA BalancedEndElse == ASSUME CompilerShape, Balanced, quirks = {}, quirks' = {}, EndElse PROVE Balanced'
<1>1. /\ Returning("else") /\ Emit(<<At(Label("edon", Current.label), Types)>>)
      /\ work' = Advanced(Drop(work, 1)) /\ quirks' = quirks \union Unbalanced("branch")
      /\ UNCHANGED <<prog, phase, maps, ctx, labels>>
  BY DEF EndElse
<1>2. work # <<>> /\ Len(work) > 1 BY <1>1, Return
<1>3. Activations /\ Contexts /\ IsProgram(prog) /\ IsSeq(code) /\ Maps BY ShapeFacts
<1>4. PICK b, num, t, of, u, ms : /\ b = Len(work) - 1 /\ num = Current.label /\ t = Types
                                  /\ of = Current.of /\ u = Current.under /\ ms = Current.marks
  OBVIOUS
<1>5. t = Current.entry /\ t \in Seq(Kinds)
  <2>1. Types = Current.entry BY <1>1, TypesAsAtEntry
  <2>2. Types \in Seq(Kinds) BY <1>2, HereFacts
  <2> QED BY <1>4, <2>1, <2>2
<1>6. Types' = t BY <1>1, <1>4 DEF Types, Ctx, InProc, ctx
<1>7. Moved(b) BY <1>1, <1>2, <1>3, <1>4, DropAdvancedMoves
<1>8. ~Opened(b)
  <2>1. b \in Nat BY <1>2, <1>3, <1>4, BlocksAre
  <2> QED BY <1>7, <2>1 DEF Opened, Moved
<1>9. FuncKept(Len(work)) BY <1>1, <1>2, SetTypesKeepsFunc DEF ctx
<1>10. KeepsMaps BY <1>1, <1>3, MapsStay DEF maps
<1>11. PICK fam : fam = FamilyAt("else") OBVIOUS
<1>12. "edon" \in fam /\ "else" \in BranchBlocks \union LoopBlocks BY <1>11, FamilyAtIs, BlockKinds
<1>13. PICK ins : ins = Label("edon", num) OBVIOUS
<1>14. PICK x : x = At(ins, t) OBVIOUS
<1>15. PICK s : s = <<x>> OBVIOUS
<1>16. Written(x, of, u, ms, fam, num, t, t)
  <2>1. FlowIns(ins, fam, num) /\ TakesTo(ins, t, t) BY <1>5, <1>12, <1>13, JumpTakes
  <2> QED BY <1>4, <1>14, <2>1, WrittenAt
<1>17. IsSeq(s) /\ AllWritten(s, of, u, ms, fam, num, t, t) BY <1>15, <1>16, AllWrittenOne
<1>18. Emit(s) BY <1>1, <1>4, <1>13, <1>14, <1>15
<1>19. Returning("else") BY <1>1
<1>20. /\ of = Current.of /\ u = Current.under /\ ms = Current.marks /\ t = Types /\ num = Current.label
       /\ b = Len(work) - 1
  BY <1>4
<1> QED
  BY ONLY CompilerShape, Balanced, <1>5, <1>6, <1>7, <1>8, <1>9, <1>10, <1>11, <1>12, <1>17, <1>18, <1>19, <1>20,
          BalancedReturn

LEMMA BalancedEndThen == ASSUME CompilerShape, Balanced, quirks = {}, quirks' = {}, EndThen PROVE Balanced'
<1>1. Returning("then") /\ quirks' = quirks \union Unbalanced("branch") /\ UNCHANGED <<prog, phase, maps, ctx, labels>>
  BY DEF EndThen
<1>2. work # <<>> /\ Len(work) > 1 BY <1>1, Return
<1>3. Activations /\ Contexts /\ IsProgram(prog) /\ IsSeq(code) /\ Maps BY ShapeFacts
<1>4. PICK b, num, t, of, u, ms : /\ b = Len(work) - 1 /\ num = Current.label /\ t = Types
                                  /\ of = Current.of /\ u = Current.under /\ ms = Current.marks
  OBVIOUS
<1>5. t = Current.entry /\ t \in Seq(Kinds)
  <2>1. Types = Current.entry BY <1>1, TypesAsAtEntry
  <2>2. Types \in Seq(Kinds) BY <1>2, HereFacts
  <2> QED BY <1>4, <2>1, <2>2
<1>6. Types' = t BY <1>1, <1>4 DEF Types, Ctx, InProc, ctx
<1>7. FuncKept(Len(work)) BY <1>1, <1>2, SetTypesKeepsFunc DEF ctx
<1>8. KeepsMaps BY <1>1, <1>3, MapsStay DEF maps
<1>9. PICK fam : fam = FamilyAt("then") OBVIOUS
<1>10. /\ "edon" \in fam /\ "else" \in fam /\ "then" \in BranchBlocks \union LoopBlocks
       /\ "else" \in Family("then") /\ Awaited("else") \subseteq fam
  BY <1>9, FamilyAtIs, BlockKinds
<1>11. PICK el : el = astid(Top(Drop(work, 1)).cur).else OBVIOUS
<1>12. PICK jmp, else, edon : jmp = Jump("jmp", "edon", num) /\ else = Label("else", num) /\ edon = Label("edon", num)
  OBVIOUS
<1>13. PICK x, y, z : x = At(jmp, t) /\ y = At(else, t) /\ z = At(edon, t) OBVIOUS
<1>14. IF el >= 0 THEN Emit(<<x, y>>) /\ work' = Append(Drop(work, 1), Block("else", el, num, t))
       ELSE Emit(Append(<<x, y>>, z)) /\ work' = Advanced(Drop(work, 1))
  BY <1>4, <1>5, <1>11, <1>12, <1>13 DEF EndThen
<1>15. Written(x, of, u, ms, fam, num, t, t)
  <2>1. FlowIns(jmp, fam, num) /\ TakesTo(jmp, t, t) BY <1>5, <1>10, <1>12, JumpTakes
  <2> QED BY <1>4, <1>13, <2>1, WrittenAt
<1>16. Written(y, of, u, ms, fam, num, t, t) /\ y.ins.op # "jz"
  <2>1. FlowIns(else, fam, num) /\ TakesTo(else, t, t) /\ else.op # "jz" BY <1>5, <1>10, <1>12, JumpTakes
  <2>2. Written(y, of, u, ms, fam, num, t, t) /\ y.ins = else BY <1>4, <1>13, <2>1, WrittenAt
  <2> QED BY <2>1, <2>2
<1>17. Written(z, of, u, ms, fam, num, t, t) /\ z.ins.op # "jz"
  <2>1. FlowIns(edon, fam, num) /\ TakesTo(edon, t, t) /\ edon.op # "jz" BY <1>5, <1>10, <1>12, JumpTakes
  <2>2. Written(z, of, u, ms, fam, num, t, t) /\ z.ins = edon BY <1>4, <1>13, <2>1, WrittenAt
  <2> QED BY <2>1, <2>2
<1>18. Returning("then") BY <1>1
<1>19. /\ of = Current.of /\ u = Current.under /\ ms = Current.marks /\ t = Types /\ num = Current.label
       /\ b = Len(work) - 1
  BY <1>4
<1>20. b \in Nat /\ b + 1 = Len(work) BY <1>2, <1>3, <1>4, BlocksAre
<1>21. CASE el >= 0
  <2>1. PICK s : s = <<x, y>> OBVIOUS
  <2>2. IsSeq(s) /\ AllWritten(s, of, u, ms, fam, num, t, t) BY <1>15, <1>16, <2>1, AllWrittenTwo
  <2>3. Emit(s) BY <1>14, <1>21, <2>1
  <2>4. PICK f : f = Block("else", el, num, t) OBVIOUS
  <2>5. work' = Append(Drop(work, 1), f) BY <1>14, <1>21, <2>4
  <2>6. Opened(b) /\ work'[b + 1] = f BY <1>2, <1>3, <1>4, <1>20, <2>5, DropAppendOpens
  <2>7. \E block \in Family("then") : \E first :
            Awaited(block) \subseteq fam /\ work'[b + 1] = Block(block, first, num, t)
    BY <1>10, <2>4, <2>6
  <2> QED
    BY ONLY CompilerShape, Balanced, <1>5, <1>6, <1>7, <1>8, <1>9, <1>10, <1>18, <1>19, <2>2, <2>3, <2>6, <2>7,
            BalancedReturn
<1>22. CASE ~(el >= 0)
  <2>1. PICK s : s = Three(x, y, z) OBVIOUS
  <2>2. IsSeq(s) /\ AllWritten(s, of, u, ms, fam, num, t, t) BY <1>15, <1>16, <1>17, <2>1, AllWrittenThree
  <2>3. Emit(s) BY <1>14, <1>22, <2>1 DEF Three
  <2>4. work' = Advanced(Drop(work, 1)) BY <1>14, <1>22
  <2>5. Moved(b) BY <1>1, <1>2, <1>3, <1>4, <2>4, DropAdvancedMoves
  <2>6. ~Opened(b) BY <1>20, <2>5 DEF Opened, Moved
  <2> QED
    BY ONLY CompilerShape, Balanced, <1>5, <1>6, <1>7, <1>8, <1>9, <1>10, <1>18, <1>19, <2>2, <2>3, <2>5, <2>6,
            BalancedReturn
<1> QED BY <1>21, <1>22

LEMMA BalancedEndBody == ASSUME CompilerShape, Balanced, quirks = {}, quirks' = {}, EndBody PROVE Balanced'
<1>1. CASE Len(Types) # Len(Current.entry) /\ SizeChecked BY <1>1, BalancedStops DEF EndBody, Reject
<1>2. CASE ~(Len(Types) # Len(Current.entry) /\ SizeChecked)
  <2>1. /\ Returning("body")
        /\ Emit(<<At(Jump("jmp", "while", Current.label), Types), At(Label("wdon", Current.label), Types)>>)
        /\ work' = Advanced(Drop(work, 1)) /\ quirks' = quirks \union Unbalanced("loop")
        /\ UNCHANGED <<prog, phase, maps, ctx, labels>>
    BY <1>2 DEF EndBody
  <2>2. work # <<>> /\ Len(work) > 1 BY <2>1, Return
  <2>3. Activations /\ Contexts /\ IsProgram(prog) /\ IsSeq(code) /\ Maps BY ShapeFacts
  <2>4. PICK b, num, t, of, u, ms : /\ b = Len(work) - 1 /\ num = Current.label /\ t = Types
                                    /\ of = Current.of /\ u = Current.under /\ ms = Current.marks
    OBVIOUS
  <2>5. t = Current.entry /\ t \in Seq(Kinds)
    <3>1. Types = Current.entry BY <2>1, TypesAsAtEntry
    <3>2. Types \in Seq(Kinds) BY <2>2, HereFacts
    <3> QED BY <2>4, <3>1, <3>2
  <2>6. Types' = t BY <2>1, <2>4 DEF Types, Ctx, InProc, ctx
  <2>7. Moved(b) BY <2>1, <2>2, <2>3, <2>4, DropAdvancedMoves
  <2>8. ~Opened(b)
    <3>1. b \in Nat BY <2>2, <2>3, <2>4, BlocksAre
    <3> QED BY <2>7, <3>1 DEF Opened, Moved
  <2>9. FuncKept(Len(work)) BY <2>1, <2>2, SetTypesKeepsFunc DEF ctx
  <2>10. KeepsMaps BY <2>1, <2>3, MapsStay DEF maps
  <2>11. PICK fam : fam = FamilyAt("body") OBVIOUS
  <2>12. "while" \in fam /\ "wdon" \in fam /\ "body" \in BranchBlocks \union LoopBlocks
    BY <2>11, FamilyAtIs, BlockKinds
  <2>13. PICK jmp, wdon : jmp = Jump("jmp", "while", num) /\ wdon = Label("wdon", num) OBVIOUS
  <2>14. PICK x, y : x = At(jmp, t) /\ y = At(wdon, t) OBVIOUS
  <2>15. PICK s : s = <<x, y>> OBVIOUS
  <2>16. Written(x, of, u, ms, fam, num, t, t)
    <3>1. FlowIns(jmp, fam, num) /\ TakesTo(jmp, t, t) BY <2>5, <2>12, <2>13, JumpTakes
    <3> QED BY <2>4, <2>14, <3>1, WrittenAt
  <2>17. Written(y, of, u, ms, fam, num, t, t) /\ y.ins.op # "jz"
    <3>1. FlowIns(wdon, fam, num) /\ TakesTo(wdon, t, t) /\ wdon.op # "jz" BY <2>5, <2>12, <2>13, JumpTakes
    <3>2. Written(y, of, u, ms, fam, num, t, t) /\ y.ins = wdon BY <2>4, <2>14, <3>1, WrittenAt
    <3> QED BY <3>1, <3>2
  <2>18. IsSeq(s) /\ AllWritten(s, of, u, ms, fam, num, t, t) BY <2>15, <2>16, <2>17, AllWrittenTwo
  <2>19. Emit(s) BY <2>1, <2>4, <2>13, <2>14, <2>15
  <2>20. Returning("body") BY <2>1
  <2>21. /\ of = Current.of /\ u = Current.under /\ ms = Current.marks /\ t = Types /\ num = Current.label
         /\ b = Len(work) - 1
    BY <2>4
  <2> QED
    BY ONLY CompilerShape, Balanced, <2>5, <2>6, <2>7, <2>8, <2>9, <2>10, <2>11, <2>12, <2>18, <2>19, <2>20, <2>21,
            BalancedReturn
<1> QED BY <1>1, <1>2
LEMMA BalancedEndCond == ASSUME CompilerShape, Balanced, quirks = {}, quirks' = {}, EndCond PROVE Balanced'
<1>1. CASE Types = <<>> \/ Top(Types) # "int" BY <1>1, BalancedStops DEF EndCond, Reject
<1>2. CASE ~(Types = <<>> \/ Top(Types) # "int")
  <2>1. PICK body : body = astid(Top(Drop(work, 1)).cur).body OBVIOUS
  <2>2. /\ Returning("cond") /\ Emit(<<At(Jump("jz", "wdon", Current.label), Types)>>) /\ SetTypes(Popped)
        /\ work' = Append(Drop(work, 1), Block("body", body, Current.label, Current.entry))
        /\ quirks' = quirks \union {q \in {"loop"} : Popped # Current.entry}
        /\ UNCHANGED <<prog, phase, maps, labels>>
    BY <1>2, <2>1 DEF EndCond
  <2>3. work # <<>> /\ Len(work) > 1 BY <2>2, Return
  <2>4. Activations /\ Contexts /\ IsProgram(prog) /\ IsSeq(code) /\ Maps BY ShapeFacts
  <2>5. PICK b, num, t, of, u, ms : /\ b = Len(work) - 1 /\ num = Current.label /\ t = Types
                                    /\ of = Current.of /\ u = Current.under /\ ms = Current.marks
    OBVIOUS
  <2>6. PICK ets : ets = Current.entry OBVIOUS
  <2>7. Popped = ets
    <3>1. "loop" \notin {q \in {"loop"} : Popped # Current.entry} BY <2>2
    <3> QED BY <2>6, <3>1
  <2>8. t \in Seq(Kinds) /\ Len(t) >= 1 /\ ets = Drop(t, 1) /\ ets \in Seq(Kinds)
    <3>1. t \in Seq(Kinds) BY <2>3, <2>5, HereFacts
    <3>2. t # <<>> BY <1>2, <2>5
    <3>3. Len(t) >= 1 BY <3>1, <3>2, EmptySeq, LenProperties
    <3>4. ets = Drop(t, 1) BY <2>5, <2>7 DEF Popped
    <3>5. ets \in Seq(Kinds) BY <3>1, <3>3, <3>4, DropOne
    <3> QED BY <3>1, <3>3, <3>4, <3>5
  <2>9. Types' = ets BY <2>2, <2>3, <2>4, <2>7, <2>8, SetTypesKeeps
  <2>10. FuncKept(Len(work)) BY <2>2, <2>3, SetTypesKeepsFunc
  <2>11. KeepsMaps BY <2>2, <2>4, MapsStay DEF maps
  <2>12. PICK fam : fam = FamilyAt("cond") OBVIOUS
  <2>13. /\ "wdon" \in fam /\ "cond" \in BranchBlocks \union LoopBlocks
         /\ "body" \in Family("cond") /\ Awaited("body") \subseteq fam
    BY <2>12, FamilyAtIs, BlockKinds
  <2>14. PICK jz : jz = Jump("jz", "wdon", num) OBVIOUS
  <2>15. PICK x : x = At(jz, t) OBVIOUS
  <2>16. PICK s : s = <<x>> OBVIOUS
  <2>17. Written(x, of, u, ms, fam, num, t, ets)
    <3>1. FlowIns(jz, fam, num) /\ TakesTo(jz, t, ets) BY <2>8, <2>13, <2>14, JumpTakes
    <3> QED BY <2>5, <2>15, <3>1, WrittenAt
  <2>18. IsSeq(s) /\ AllWritten(s, of, u, ms, fam, num, t, ets) BY <2>16, <2>17, AllWrittenOne
  <2>19. Emit(s) BY <2>2, <2>5, <2>14, <2>15, <2>16
  <2>20. PICK f : f = Block("body", body, num, ets) OBVIOUS
  <2>21. work' = Append(Drop(work, 1), f) BY <2>2, <2>5, <2>6, <2>20
  <2>22. b \in Nat /\ b + 1 = Len(work) BY <2>3, <2>4, <2>5, BlocksAre
  <2>23. Opened(b) /\ work'[b + 1] = f BY <2>3, <2>4, <2>5, <2>21, <2>22, DropAppendOpens
  <2>24. \E block \in Family("cond") : \E first :
             Awaited(block) \subseteq fam /\ work'[b + 1] = Block(block, first, num, ets)
    BY <2>13, <2>20, <2>23
  <2>25. Returning("cond") BY <2>2
  <2>26. /\ of = Current.of /\ u = Current.under /\ ms = Current.marks /\ t = Types /\ num = Current.label
         /\ b = Len(work) - 1
    BY <2>5
  <2> QED
    BY ONLY CompilerShape, Balanced, <2>6, <2>9, <2>10, <2>11, <2>12, <2>13, <2>18, <2>19, <2>23, <2>24, <2>25,
            <2>26, BalancedReturn
<1> QED BY <1>1, <1>2

(* The start of an IF or a WHILE, with a new number.                          *)
LEMMA BalancedOpens ==
    ASSUME CompilerShape, Balanced, KeepsMaps, work # <<>>, NEW kind \in BranchBlocks \union LoopBlocks,
           NEW num, num = (IF kind \in BranchBlocks THEN label_counter ELSE while_label_counter),
           NEW fam, fam = LabelsFor(kind), NEW b, b = Len(work), Opened(b), FuncKept(b),
           NEW of, of = Current.of, NEW u, u = Current.under, NEW ms, ms = Current.marks,
           NEW t, t = Types, NEW ets, Types' = ets,
           NEW s, IsSeq(s), Emit(s), AllWritten(s, of, u, ms, fam, num, t, ets),
           \E block \in Family(kind) : \E first :
               Awaited(block) \subseteq fam /\ work'[b + 1] = Block(block, first, num, ets)
    PROVE  Balanced'
<1>1. PICK v : v = ViewOf(of, u, ets, ms) OBVIOUS
<1>2. fam \subseteq LabelsFor(kind) /\ (kind \in LoopBlocks => "while" \in fam) BY BlockKinds
<1>3. MeetAt(fam, num, v) /\ NumberIsFree(b, kind, num) BY <1>2, FreshMeets
<1>4. ~Moved(b)
  <2>1. b \in Nat BY ShapeFacts, BlocksAre
  <2> QED BY <2>1 DEF Opened, Moved
<1>5. GoesOn(b, of, u, ms, kind, fam, num, ets) BY <1>4 DEF GoesOn
<1>6. Appends(s) BY ShapeFacts DEF Appends, Emit
<1> QED
  BY ONLY CompilerShape, Balanced, KeepsMaps, work # <<>>, Opened(b), FuncKept(b),
          kind \in BranchBlocks \union LoopBlocks, <1>1, <1>2, <1>3, of = Current.of, u = Current.under,
          ms = Current.marks, t = Types, Types' = ets, <1>5, <1>6,
          AllWritten(s, of, u, ms, fam, num, t, ets), BalancedFlowStep

LEMMA BalancedWhile == ASSUME CompilerShape, Balanced, quirks = {}, CompileWhile PROVE Balanced'
<1>1. CASE ~Fits BY <1>1, BalancedStops DEF CompileWhile, Crash
<1>2. CASE Fits
  <2>1. PICK block, first : /\ block = IF Node.cond >= 0 THEN "cond" ELSE "body"
                            /\ first = IF Node.cond >= 0 THEN Node.cond ELSE Node.body
    OBVIOUS
  <2>2. PICK b, num, t, of, u, ms : /\ b = Len(work) /\ num = while_label_counter /\ t = Types
                                    /\ of = Current.of /\ u = Current.under /\ ms = Current.marks
    OBVIOUS
  <2>3. /\ Compiling({"WHILE"}) /\ Emit(<<At(Label("while", num), t)>>)
        /\ work' = Append(work, Block(block, first, num, t))
        /\ UNCHANGED <<prog, phase, maps, ctx, label_counter, quirks>>
    BY <1>2, <2>1, <2>2 DEF CompileWhile
  <2>4. work # <<>> BY <2>3, Statement
  <2>5. Activations /\ Contexts /\ IsProgram(prog) /\ IsSeq(code) /\ Maps BY ShapeFacts
  <2>6. t \in Seq(Kinds) BY <2>2, <2>4, HereFacts
  <2>7. Types' = t BY <2>2, <2>3 DEF Types, Ctx, InProc, ctx
  <2>8. FuncKept(b) BY <2>2, <2>3, <2>4, SetTypesKeepsFunc DEF ctx
  <2>9. KeepsMaps BY <2>3, <2>5, MapsStay DEF maps
  <2>10. PICK fam : fam = LabelsFor("body") OBVIOUS
  <2>11. /\ "while" \in fam /\ "body" \in BranchBlocks \union LoopBlocks /\ "body" \notin BranchBlocks
         /\ block \in Family("body") /\ Awaited(block) \subseteq fam
    BY <2>1, <2>10, BlockKinds
  <2>12. PICK ins : ins = Label("while", num) OBVIOUS
  <2>13. PICK x : x = At(ins, t) OBVIOUS
  <2>14. PICK s : s = <<x>> OBVIOUS
  <2>15. Written(x, of, u, ms, fam, num, t, t)
    <3>1. FlowIns(ins, fam, num) /\ TakesTo(ins, t, t) BY <2>6, <2>11, <2>12, JumpTakes
    <3> QED BY <2>2, <2>13, <3>1, WrittenAt
  <2>16. IsSeq(s) /\ AllWritten(s, of, u, ms, fam, num, t, t) BY <2>14, <2>15, AllWrittenOne
  <2>17. Emit(s) BY <2>3, <2>12, <2>13, <2>14
  <2>18. PICK f : f = Block(block, first, num, t) OBVIOUS
  <2>19. Opened(b) /\ work'[b + 1] = f
    <3>1. work' = Append(work, f) BY <2>3, <2>18
    <3> QED BY <2>2, <2>4, <2>5, <3>1, AppendOpens
  <2>20. \E y \in Family("body") : \E z :
             Awaited(y) \subseteq fam /\ work'[b + 1] = Block(y, z, num, t)
    BY <2>11, <2>18, <2>19
  <2>21. /\ of = Current.of /\ u = Current.under /\ ms = Current.marks /\ t = Types
         /\ num = (IF "body" \in BranchBlocks THEN label_counter ELSE while_label_counter) /\ b = Len(work)
    BY <2>2, <2>11
  <2> QED
    BY ONLY CompilerShape, Balanced, <2>4, <2>7, <2>8, <2>9, <2>10, <2>11, <2>16, <2>17, <2>19, <2>20, <2>21,
            BalancedOpens
<1> QED BY <1>1, <1>2

LEMMA BalancedIf == ASSUME CompilerShape, Balanced, quirks = {}, CompileIf PROVE Balanced'
<1>1. Compiling({"IF"}) BY DEF CompileIf
<1>2. work # <<>> BY <1>1, Statement
<1>3. PICK b, num, t, of, u, ms : /\ b = Len(work) /\ num = label_counter /\ t = Types
                                  /\ of = Current.of /\ u = Current.under /\ ms = Current.marks
  OBVIOUS
<1>4. PICK ets : ets = Popped OBVIOUS
<1>5. CASE Types = <<>> \/ Top(Types) # "int" BY <1>5, BalancedStops DEF CompileIf, Reject
<1>6. ASSUME ~(Types = <<>> \/ Top(Types) # "int")
      PROVE  t \in Seq(Kinds) /\ Len(t) >= 1 /\ ets = Drop(t, 1) /\ ets \in Seq(Kinds)
  <2>1. t \in Seq(Kinds) BY <1>2, <1>3, HereFacts
  <2>2. t # <<>> BY <1>3, <1>6
  <2>3. Len(t) >= 1 BY <2>1, <2>2, EmptySeq, LenProperties
  <2>4. ets = Drop(t, 1) BY <1>3, <1>4 DEF Popped
  <2>5. ets \in Seq(Kinds) BY <2>1, <2>3, <2>4, DropOne
  <2> QED BY <2>1, <2>3, <2>4, <2>5
<1>7. CASE ~(Types = <<>> \/ Top(Types) # "int") /\ Node.then < 0 /\ Node.else < 0
  <2>1. PICK ins : ins = [op |-> "drop"] OBVIOUS
  <2>2. Continue(<<At(ins, Types)>>, ets) BY <1>4, <1>7, <2>1 DEF CompileIf
  <2>3. Pops(ins) = 1 /\ Pushes(ins, t) = <<>> /\ ins.op = "drop" BY <2>1 DEF Pops, Pushes
  <2>4. Harmless(ins) /\ ins.op \in Ordinary /\ ins.op \notin {"push", "loadvar", "not"}
    BY <2>1 DEF Harmless, Ordinary
  <2>5. t \in Seq(Kinds) /\ Len(t) >= 1 /\ ets = Drop(t, 1) /\ ets \in Seq(Kinds) BY <1>6, <1>7
  <2>6. Covers(ets, Drop(Types, Pops(ins)) \o Pushes(ins, Types))
    <3>1. Covers(ets, ets \o <<>>) BY <2>5, DropCovers
    <3> QED BY <1>3, <2>3, <2>5, <3>1
  <2>7. Len(Types) >= Pops(ins) BY <1>3, <2>3, <2>5
  <2> QED BY <1>1, <2>2, <2>4, <2>5, <2>6, <2>7, BalancedOrdinary
<1>8. CASE /\ ~(Types = <<>> \/ Top(Types) # "int") /\ ~(Node.then < 0 /\ Node.else < 0) /\ ~Fits
  BY <1>8, BalancedStops DEF CompileIf, Crash
<1>9. CASE /\ ~(Types = <<>> \/ Top(Types) # "int") /\ ~(Node.then < 0 /\ Node.else < 0) /\ Fits
  <2>1. PICK block, first : /\ block = IF Node.then >= 0 THEN "then" ELSE "else"
                            /\ first = IF Node.then >= 0 THEN Node.then ELSE Node.else
    OBVIOUS
  <2>2. PICK jz, else : jz = Jump("jz", "else", num) /\ else = Label("else", num) OBVIOUS
  <2>3. PICK x, y : x = At(jz, t) /\ y = At(else, ets) OBVIOUS
  <2>4. PICK s : s = IF Node.then >= 0 THEN <<x>> ELSE <<x, y>> OBVIOUS
  <2>5. /\ SetTypes(ets) /\ Emit(s) /\ work' = Append(work, Block(block, first, num, ets))
        /\ UNCHANGED <<prog, phase, maps, while_label_counter, quirks>>
    <3>1. CASE Node.then >= 0 BY <1>3, <1>4, <1>9, <2>1, <2>2, <2>3, <2>4, <3>1 DEF CompileIf
    <3>2. CASE ~(Node.then >= 0) BY <1>3, <1>4, <1>9, <2>1, <2>2, <2>3, <2>4, <3>2 DEF CompileIf
    <3> QED BY <3>1, <3>2
  <2>6. Activations /\ Contexts /\ IsProgram(prog) /\ IsSeq(code) /\ Maps BY ShapeFacts
  <2>7. t \in Seq(Kinds) /\ Len(t) >= 1 /\ ets = Drop(t, 1) /\ ets \in Seq(Kinds) BY <1>6, <1>9
  <2>8. Types' = ets BY <1>2, <2>5, <2>6, <2>7, SetTypesKeeps
  <2>9. FuncKept(b) BY <1>2, <1>3, <2>5, SetTypesKeepsFunc
  <2>10. KeepsMaps BY <2>5, <2>6, MapsStay DEF maps
  <2>11. PICK fam : fam = LabelsFor("then") OBVIOUS
  <2>12. /\ "else" \in fam /\ "then" \in BranchBlocks \union LoopBlocks /\ "then" \in BranchBlocks
         /\ block \in Family("then") /\ Awaited(block) \subseteq fam
         /\ ("then" \in LoopBlocks => "while" \in fam)
    BY <2>1, <2>11, BlockKinds
  <2>13. Written(x, of, u, ms, fam, num, t, ets)
    <3>1. FlowIns(jz, fam, num) /\ TakesTo(jz, t, ets) BY <2>2, <2>7, <2>12, JumpTakes
    <3> QED BY <1>3, <2>3, <3>1, WrittenAt
  <2>14. Written(y, of, u, ms, fam, num, ets, ets) /\ y.ins.op # "jz"
    <3>1. FlowIns(else, fam, num) /\ TakesTo(else, ets, ets) /\ else.op # "jz" BY <2>2, <2>7, <2>12, JumpTakes
    <3>2. Written(y, of, u, ms, fam, num, ets, ets) /\ y.ins = else BY <1>3, <2>3, <3>1, WrittenAt
    <3> QED BY <3>1, <3>2
  <2>15. IsSeq(s) /\ AllWritten(s, of, u, ms, fam, num, t, ets)
    <3>1. CASE Node.then >= 0
      <4>1. s = <<x>> BY <2>4, <3>1
      <4> QED BY <2>13, <4>1, AllWrittenOne
    <3>2. CASE ~(Node.then >= 0)
      <4>1. s = <<x, y>> BY <2>4, <3>2
      <4> QED BY <2>13, <2>14, <4>1, AllWrittenTwo
    <3> QED BY <3>1, <3>2
  <2>16. PICK f : f = Block(block, first, num, ets) OBVIOUS
  <2>17. Opened(b) /\ work'[b + 1] = f
    <3>1. work' = Append(work, f) BY <2>5, <2>16
    <3> QED BY <1>2, <1>3, <2>6, <3>1, AppendOpens
  <2>18. \E p \in Family("then") : \E q :
             Awaited(p) \subseteq fam /\ work'[b + 1] = Block(p, q, num, ets)
    BY <2>12, <2>16, <2>17
  <2>19. /\ of = Current.of /\ u = Current.under /\ ms = Current.marks /\ t = Types
         /\ num = (IF "then" \in BranchBlocks THEN label_counter ELSE while_label_counter) /\ b = Len(work)
    BY <1>3, <2>12
  <2>20. Emit(s) BY <2>5
  <2> QED
    BY ONLY CompilerShape, Balanced, <1>2, <2>8, <2>9, <2>10, <2>11, <2>12, <2>15, <2>17, <2>18, <2>19, <2>20,
            BalancedOpens
<1> QED BY <1>5, <1>7, <1>8, <1>9

-----------------------------------------------------------------------------
(* Between routines.                                                          *)

(* Steps that write no label and no jump, and leave no block open but that of *)
(* a routine.                                                                 *)
LEMMA BalancedAround ==
    ASSUME CompilerShape, Balanced, KeepsMaps, NEW s, Appends(s), Straight(s),
           NEW n, n = Len(code), NEW m, m = n + Len(s),
           NEW here, here = Here, NEW after, after = Here',
           work # <<>> => n < m /\ SameView(here, code'[n + 1]),
           \A i \in n + 1 .. m : Sits(i)' /\ (Falls(i)' => IF i < m THEN Joins(i, code[i + 1])'
                                                         ELSE work' # <<>> /\ Joins(i, after)'),
           \A k \in DOMAIN work' : work'[k].block = "routine"
    PROVE  Balanced'
<1>1. Grown(n, m) /\ \A j \in 1 .. Len(s) : code'[n + j] = s[j] BY AppendsGrows
<1>2. n \in Nat /\ m \in Nat /\ Len(s) \in Nat BY <1>1, CodeGrows DEF Grown
<1>3. ASSUME NEW i \in n + 1 .. m PROVE code'[i].ins.op \notin {"jmp", "jz", "label"}
  <2>1. PICK j : j = i - n OBVIOUS
  <2>2. j \in 1 .. Len(s) /\ i = n + j BY <1>2, <2>1
  <2>3. code'[i] = s[j] BY <1>1, <2>2
  <2> QED BY <2>2, <2>3 DEF Straight
<1>4. InstructionsFit' BY <1>1, FitGrows DEF Balanced
<1>5. CodeFlows' BY <1>1, FlowGrows DEF Balanced
<1>6. Awaited("routine") = {} /\ "routine" \notin LoopBlocks BY DEF Awaited, LoopBlocks
<1>7. JumpsMeet'
  <2>1. JumpsMeet BY DEF Balanced
  <2>2. PICK fam, num, v : fam = {} /\ num = 0 /\ v = here OBVIOUS
  <2>3. AwaitedAt(fam, num, v) BY <1>6 DEF AwaitedAt
  <2>4. JumpsTo(fam, num, v) BY <2>2 DEF JumpsTo
  <2>5. NewFor(n, m, fam, num, v) BY <1>3 DEF NewFor
  <2>6. LabelsAre(m, fam, num, v) BY <2>2 DEF LabelsAre
  <2> QED BY <1>1, <2>1, <2>3, <2>4, <2>5, <2>6, JumpsMeetStep
<1>8. BlocksResume' BY <1>6 DEF BlocksResume
<1> QED BY <1>4, <1>5, <1>7, <1>8 DEF Balanced

LEMMA BalancedEmpty ==
    /\ (code = <<>> /\ work = <<>>) => Balanced
    /\ (code' = <<>> /\ work' = <<>>) => Balanced'
<1>1. DOMAIN <<>> = {} BY EmptySequence
<1>2. (code = <<>> /\ work = <<>>) => Balanced
  BY <1>1 DEF Balanced, InstructionsFit, CodeFlows, JumpsMeet, BlocksResume, JumpsAt
<1>3. (code' = <<>> /\ work' = <<>>) => Balanced'
  BY <1>1 DEF Balanced, InstructionsFit, CodeFlows, JumpsMeet, BlocksResume, JumpsAt
<1> QED BY <1>2, <1>3

LEMMA BalancedFillMaps == ASSUME CompilerShape, FillMaps PROVE Balanced'
<1>1. code = <<>> /\ work = <<>> BY DEF FillMaps, Filling, CompilerShape, Progress
<1>2. code' = code /\ work' = work BY DEF FillMaps, Reject, Stop
<1> QED BY <1>1, <1>2, BalancedEmpty

(* The instruction a routine is called at.                                    *)
LEMMA EntrySits ==
    ASSUME NEW i, NEW of, of # START, Find(values_map, of)' # NULL,
           NEW s, s = <<>>, code'[i] = View([op |-> "entry", name |-> of], of, s, s)
    PROVE  Sits(i)' /\ TypesAfter(i)' = s /\ MarksAfter(i)' = s
<1>1. /\ code'[i].ins.op = "entry" /\ code'[i].ins.name = of
      /\ code'[i].of = of /\ code'[i].types = s /\ code'[i].marks = s
  BY DEF View
<1>2. PICK ins : ins = code'[i].ins OBVIOUS
<1>3. Pops(ins) = 0 /\ Pushes(ins, s) = <<>> BY <1>1, <1>2 DEF Pops, Pushes
<1>4. s \in Seq(Kinds) /\ s \in Seq(Nat) /\ Len(s) = 0 BY SmallSeqs
<1>5. WellFormed(i)' BY <1>1, <1>4 DEF WellFormed
<1>6. HasWhatItNeeds(i)' BY <1>1, <1>2, <1>3, <1>4 DEF HasWhatItNeeds
<1>7. AsDeclared(i)' BY <1>1 DEF AsDeclared
<1>8. s \o <<>> = s BY <1>4, ConcatEmptySeq
<1>9. TypesAfter(i)' = s BY <1>1, <1>2, <1>3, <1>4, <1>8, DropNone DEF TypesAfter
<1>10. MarksAfter(i)' = s BY <1>1 DEF MarksAfter
<1> QED BY <1>5, <1>6, <1>7, <1>9, <1>10 DEF Sits

LEMMA BalancedOpensRoutine ==
    ASSUME CompilerShape, Balanced, work = <<>>, UNCHANGED <<prog, values_map, externs_map>>,
           NEW id, DeclaredAs(id, {"FUNC", "PROC"}), Find(values_map, astid(id).name) = id,
           ~astid(id).inlin \/ astid(id).args = <<>>, compile_routine(id)
    PROVE  Balanced'
<1>1. Maps /\ IsProgram(prog) /\ IsSeq(code) BY ShapeFacts
<1>2. KeepsMaps BY <1>1, MapsStay
<1>3. PICK of : of = astid(id).name OBVIOUS
<1>4. of # START /\ id # NULL
  <2>1. DeclaredAs(id, {"FUNC", "PROC", "EXTERN"}) BY DEF DeclaredAs
  <2> QED BY <1>1, <1>3, <2>1, SignatureOf
<1>5. Find(values_map, of)' # NULL
  <2>1. Find(values_map, of) # NULL BY <1>3, <1>4
  <2> QED BY <1>2, <2>1 DEF KeepsMaps
<1>6. /\ Emit(Prologue(id)) /\ work' = <<Routine(id)>>
      /\ IF astid(id).kind = "PROC"
         THEN proc_ctx' = [NoCtx EXCEPT !.stmt = id] /\ func_ctx' = NoCtx
         ELSE func_ctx' = [NoCtx EXCEPT !.stmt = id] /\ proc_ctx' = NoCtx
  BY IdleContexts DEF compile_routine
<1>7. Types' = <<>> BY <1>6, <1>4 DEF Types, Ctx, InProc, NoCtx
<1>8. PICK e : e = <<>> OBVIOUS
<1>9. /\ e \in Seq(Kinds) /\ e \in Seq(Nat) /\ Len(e) = 0 /\ <<0>> = Append(e, 0) /\ <<0>> \in Seq(Nat)
      /\ e \o e = e
  BY <1>8
<1>10. PICK v, w : /\ v = View([op |-> "entry", name |-> of], of, e, e)
                   /\ w = View([op |-> "enter"], of, e, e)
  OBVIOUS
<1>11. PICK s : s = <<v, w>> OBVIOUS
<1>12. IsSeq(s) /\ Len(s) = 2 /\ s[1] = v /\ s[2] = w BY <1>11, SmallSeqs
<1>13. v.ins.op = "entry" /\ w.ins.op = "enter" /\ w.of = of /\ w.types = e /\ w.marks = e
  BY <1>10 DEF View
<1>14. Straight(s)
  <2>1. \A j \in 1 .. 2 : j = 1 \/ j = 2 OBVIOUS
  <2> QED BY <1>12, <1>13, <2>1 DEF Straight
<1>15. Appends(s) BY <1>1, <1>3, <1>6, <1>8, <1>10, <1>11, <1>12 DEF Appends, Emit, Prologue
<1>16. PICK n, m, here, after : n = Len(code) /\ m = n + Len(s) /\ here = Here /\ after = Here' OBVIOUS
<1>17. Grown(n, m) /\ \A j \in 1 .. Len(s) : code'[n + j] = s[j] BY <1>15, <1>16, AppendsGrows
<1>18. n \in Nat /\ m = n + 2 BY <1>12, <1>16, <1>17 DEF Grown
<1>19. code'[n + 1] = v /\ code'[n + 2] = w
  <2>1. 1 \in 1 .. Len(s) /\ 2 \in 1 .. Len(s) BY <1>12
  <2> QED BY <1>12, <1>17, <2>1
<1>20. work' # <<>> /\ after.of = of /\ after.types = e /\ after.marks = Append(e, Len(e))
  <2>1. PICK f : f = Routine(id) OBVIOUS
  <2>2. f.of = of /\ f.under = e /\ f.marks = <<0>> /\ f.block = "routine" BY <1>3, <1>8, <2>1 DEF Routine
  <2>3. Len(work') = 1 /\ work'[1] = f /\ work' # <<>> BY <1>6, <2>1, SmallSeqs
  <2>4. Current' = f BY <2>3 DEF Current
  <2>5. Here' = View([op |-> "next"], f.of, f.under \o e, f.marks) BY <1>7, <1>8, <2>4 DEF Here, At
  <2> QED BY <1>9, <1>16, <2>2, <2>3, <2>5 DEF View
<1>21. ASSUME NEW i \in n + 1 .. m
       PROVE  Sits(i)' /\ (Falls(i)' => IF i < m THEN Joins(i, code[i + 1])'
                                        ELSE work' # <<>> /\ Joins(i, after)')
  <2>1. i = n + 1 \/ i = n + 2 BY <1>18
  <2>2. CASE i = n + 1
    <3>1. i < m /\ i + 1 = n + 2 BY <1>18, <2>2
    <3>2. code'[i] = v /\ code'[i + 1] = w BY <1>19, <2>2, <3>1
    <3>3. Sits(i)' /\ TypesAfter(i)' = e /\ MarksAfter(i)' = e
      BY <1>4, <1>5, <1>8, <1>10, <3>2, EntrySits
    <3>4. code'[i].of = of BY <3>2, <1>10 DEF View
    <3>5. Joins(i, w)' BY <3>3, <3>4, <1>13, <1>9, CoversItself DEF Joins
    <3>6. Joins(i, code[i + 1])' BY <3>2, <3>5
    <3> QED BY <3>1, <3>3, <3>6
  <2>3. CASE i = n + 2
    <3>1. ~(i < m) BY <1>18, <2>3
    <3>2. code'[i] = w BY <1>19, <2>3
    <3>3. Sits(i)' /\ TypesAfter(i)' = e /\ MarksAfter(i)' = Append(e, Len(e))
      BY <1>4, <1>5, <1>9, <1>10, <3>2, EnterSits
    <3>4. Joins(i, after)' BY <3>2, <3>3, <1>13, <1>20, <1>9, CoversItself DEF Joins
    <3> QED BY <3>1, <3>3, <3>4, <1>20
  <2> QED BY <2>1, <2>2, <2>3
<1>22. \A k \in DOMAIN work' : work'[k].block = "routine"
  <2>1. DOMAIN work' = 1 .. 1 /\ work'[1].block = "routine" BY <1>1, <1>6, RoutineBlock
  <2>2. \A k \in 1 .. 1 : k = 1 OBVIOUS
  <2> QED BY <2>1, <2>2
<1> QED BY <1>2, <1>14, <1>15, <1>16, <1>21, <1>22, BalancedAround

LEMMA BalancedCompileMain == ASSUME CompilerShape, Balanced, CompileMain PROVE Balanced'
<1>1. compile_routine(prog.main) /\ UNCHANGED <<prog, values_map, externs_map>> BY DEF CompileMain, maps
<1>2. work = <<>> BY DEF CompileMain, CompilerShape, Progress
<1>3. /\ DeclaredAs(prog.main, {"FUNC", "PROC"})
      /\ Find(values_map, astid(prog.main).name) = prog.main /\ astid(prog.main).args = <<>>
  BY MainIsMapped
<1> QED BY <1>1, <1>2, <1>3, BalancedOpensRoutine

LEMMA BalancedCompileRoutine == ASSUME CompilerShape, Balanced, CompileRoutine PROVE Balanced'
<1>1. /\ phase = "routines" /\ work = <<>> /\ cursor <= Len(values_map)
      /\ UNCHANGED <<prog, phase, values_map, externs_map, labels, quirks>>
  BY DEF CompileRoutine
<1>2. PICK id : id = values_map[cursor].id OBVIOUS
<1>3. DeclaredAs(id, {"FUNC", "PROC", "EXTERN"}) /\ Find(values_map, astid(id).name) = id
  BY <1>1, <1>2, RoutineIsMapped
<1> DEFINE taken == \/ astid(id).kind = "PROC" /\ ~astid(id).inlin
                    \/ astid(id).kind = "FUNC" /\ ~astid(id).inlin /\ astid(id).name # MAIN_FUNCTION
<1>4. IF taken THEN compile_routine(id) /\ UNCHANGED cursor
      ELSE cursor' = cursor + 1 /\ UNCHANGED <<ctx, work, code>>
  BY <1>2 DEF CompileRoutine, NextEntry
<1>5. CASE taken
  <2>1. DeclaredAs(id, {"FUNC", "PROC"}) /\ ~astid(id).inlin BY <1>3, <1>5 DEF DeclaredAs
  <2> QED BY <1>1, <1>3, <1>4, <1>5, <2>1, BalancedOpensRoutine
<1>6. CASE ~taken
  <2>1. UNCHANGED <<ctx, work, code>> BY <1>4, <1>6
  <2>2. Maps /\ IsSeq(code) BY ShapeFacts
  <2>3. KeepsMaps BY <1>1, <2>2, MapsStay
  <2>4. PICK s : s = <<>> OBVIOUS
  <2>5. IsSeq(s) /\ Len(s) = 0 /\ Straight(s) BY <2>4, SmallSeqs, NoneStraight
  <2>6. code \o <<>> = code
    <3>1. code \in Seq({code[i] : i \in DOMAIN code}) BY <2>2 DEF IsSeq
    <3> QED BY <3>1, ConcatEmptySeq
  <2>7. Appends(s) BY <2>1, <2>2, <2>4, <2>5, <2>6 DEF Appends
  <2>8. PICK n, m, here, after : n = Len(code) /\ m = n + Len(s) /\ here = Here /\ after = Here' OBVIOUS
  <2>9. n \in Nat /\ m = n BY <2>5, <2>7, <2>8, CodeGrows
  <2>10. \A i \in n + 1 .. m : FALSE BY <2>9
  <2>11. \A k \in DOMAIN work' : work'[k].block = "routine" BY <1>1, <2>1, EmptySequence
  <2> QED BY <1>1, <2>3, <2>5, <2>7, <2>8, <2>10, <2>11, BalancedAround
<1> QED BY <1>5, <1>6

(* The last instruction of a routine.                                         *)
RetOf(d) == [op |-> "ret", nargs |-> Len(d.args), rets |-> Reversed(d.rets),
             main |-> d.kind = "FUNC" /\ d.name = MAIN_FUNCTION]

LEMMA RetSits ==
    ASSUME IsProgram(prog), KeepsMaps, NEW id, DeclaredAs(id, {"FUNC", "PROC", "EXTERN"}),
           NEW of, of # START, Find(values_map, of) = id, NEW t \in Seq(Kinds),
           NEW rets, rets = astid(id).rets, Returns(t, rets), NEW ins, ins = RetOf(astid(id)),
           NEW ms, ms = << 0 >>, NEW i, code'[i] = View(ins, of, t, ms)
    PROVE  Sits(i)' /\ ~Falls(i)'
<1>1. /\ ins.op = "ret" /\ ins.nargs = Len(astid(id).args) /\ ins.rets = Reversed(rets)
      /\ code'[i].ins = ins /\ code'[i].of = of /\ code'[i].types = t /\ code'[i].marks = ms
  BY DEF View, RetOf
<1>2. /\ rets \in Seq(Kinds) /\ ins.nargs \in Nat /\ id # NULL /\ ins.rets \in Seq(Kinds)
      /\ Len(ins.rets) = Len(rets) /\ Len(rets) \in Nat
  BY <1>1, SignatureOf, LenProperties
<1>3. /\ ms \in Seq(Nat) /\ Top(ms) = 0
  <2>1. <<0>> \in Seq(Nat) /\ Len(<<0>>) = 1 /\ <<0>>[1] = 0 OBVIOUS
  <2> QED BY <2>1 DEF Top
<1>4. /\ Len(t) >= Len(rets) /\ TopN(t, Len(rets)) = rets /\ Len(t) \in Nat
  BY LenProperties DEF Returns
<1>5. Len(t) >= Top(ms) + Len(ins.rets) /\ TopN(t, Len(ins.rets)) = Reversed(ins.rets) /\ Len(t) >= 0
  BY <1>1, <1>2, <1>3, <1>4, TwiceReversed
<1>6. Pops(ins) = 0 BY <1>1 DEF Pops
<1>7. WellFormed(i)' BY <1>1, <1>2, <1>3 DEF WellFormed
<1>8. HasWhatItNeeds(i)' BY <1>1, <1>3, <1>5, <1>6 DEF HasWhatItNeeds
<1>9. Find(values_map, of)' = id /\ Declares(of)' = astid(id)
  <2>1. Find(values_map, of)' = id BY <1>2 DEF KeepsMaps
  <2>2. astid(id)' = astid(id) BY SameAsts DEF KeepsMaps
  <2> QED BY <2>1, <2>2 DEF Declares, astid
<1>10. AsDeclared(i)' BY <1>1, <1>2, <1>9 DEF AsDeclared
<1>11. ~Falls(i)' BY <1>1 DEF Falls
<1> QED BY <1>7, <1>8, <1>10, <1>11 DEF Sits

(* The code at _start.                                                        *)
LEMMA StartSits ==
    ASSUME NEW i, NEW e, e = <<>>, code'[i] = View([op |-> "start"], START, e, e)
    PROVE  Sits(i)' /\ TypesAfter(i)' = e /\ MarksAfter(i)' = e
<1>1. code'[i].ins.op = "start" /\ code'[i].of = START /\ code'[i].types = e /\ code'[i].marks = e
  BY DEF View
<1>2. PICK ins : ins = code'[i].ins OBVIOUS
<1>3. Pops(ins) = 0 /\ Pushes(ins, e) = <<>> BY <1>1, <1>2 DEF Pops, Pushes
<1>4. e \in Seq(Kinds) /\ e \in Seq(Nat) /\ Len(e) = 0 BY SmallSeqs
<1>5. WellFormed(i)' BY <1>1, <1>4 DEF WellFormed
<1>6. HasWhatItNeeds(i)' BY <1>1, <1>2, <1>3, <1>4 DEF HasWhatItNeeds
<1>7. AsDeclared(i)' BY <1>1 DEF AsDeclared
<1>8. e \o <<>> = e BY <1>4, ConcatEmptySeq
<1>9. TypesAfter(i)' = e BY <1>1, <1>2, <1>3, <1>4, <1>8, DropNone DEF TypesAfter
<1>10. MarksAfter(i)' = e BY <1>1 DEF MarksAfter
<1> QED BY <1>5, <1>6, <1>7, <1>9, <1>10 DEF Sits

LEMMA ExitSits ==
    ASSUME NEW i, NEW e, e = <<>>, NEW t \in Seq(Kinds), code'[i] = View([op |-> "exit"], START, t, e)
    PROVE  Sits(i)' /\ ~Falls(i)'
<1>1. code'[i].ins.op = "exit" /\ code'[i].of = START /\ code'[i].types = t /\ code'[i].marks = e
  BY DEF View
<1>2. PICK ins : ins = code'[i].ins OBVIOUS
<1>3. Pops(ins) = 0 BY <1>1, <1>2 DEF Pops
<1>4. e \in Seq(Nat) /\ Len(t) >= 0 BY LenProperties
<1>5. WellFormed(i)' BY <1>1, <1>4 DEF WellFormed
<1>6. HasWhatItNeeds(i)' BY <1>1, <1>2, <1>3, <1>4 DEF HasWhatItNeeds
<1>7. AsDeclared(i)' BY <1>1 DEF AsDeclared
<1>8. ~Falls(i)' BY <1>1 DEF Falls
<1> QED BY <1>5, <1>6, <1>7, <1>8 DEF Sits

(* Its three instructions, from the place k on, for a main without arguments. *)
LEMMA StartFlows ==
    ASSUME IsProgram(prog), KeepsMaps, NEW id, DeclaredAs(id, {"FUNC", "PROC", "EXTERN"}),
           Find(values_map, astid(id).name) = id, astid(id).args = <<>>, NEW k \in Nat,
           \A j \in 1 .. 3 : code'[k + j] = Start(astid(id))[j]
    PROVE  /\ \A j \in 1 .. 3 : Sits(k + j)'
           /\ Joins(k + 1, code[k + 2])' /\ Joins(k + 2, code[k + 3])' /\ ~Falls(k + 3)'
<1>1. PICK e, ins, back : e = <<>> /\ ins = CallOf(astid(id)) /\ back = Reversed(astid(id).rets) OBVIOUS
<1>2. PICK u, v, w : /\ u = View([op |-> "start"], START, e, e)
                     /\ v = View(ins, START, e, e)
                     /\ w = View([op |-> "exit"], START, back, e)
  OBVIOUS
<1>3. Start(astid(id)) = <<u, v, w>> BY <1>1, <1>2 DEF Start
<1>4. code'[k + 1] = u /\ code'[k + 2] = v /\ code'[k + 3] = w
  <2>1. <<u, v, w>>[1] = u /\ <<u, v, w>>[2] = v /\ <<u, v, w>>[3] = w OBVIOUS
  <2>2. 1 \in 1 .. 3 /\ 2 \in 1 .. 3 /\ 3 \in 1 .. 3 OBVIOUS
  <2> QED BY <1>3, <2>1, <2>2
<1>5. /\ u.of = START /\ v.of = START /\ v.types = e /\ v.marks = e
      /\ w.of = START /\ w.types = back /\ w.marks = e
  BY <1>2 DEF View
<1>6. e \in Seq(Kinds) /\ e \in Seq(Nat) /\ Len(e) = 0 /\ back \in Seq(Kinds)
  <2>1. back \in Seq(Kinds) BY <1>1, SignatureOf
  <2> QED BY <1>1, <2>1, SmallSeqs
<1>7. Sits(k + 1)' /\ TypesAfter(k + 1)' = e /\ MarksAfter(k + 1)' = e
  <2>1. PICK i : i = k + 1 OBVIOUS
  <2>2. code'[i] = View([op |-> "start"], START, e, e) BY <1>2, <1>4, <2>1
  <2>3. Sits(i)' /\ TypesAfter(i)' = e /\ MarksAfter(i)' = e BY <1>1, <2>2, StartSits
  <2> QED BY <2>1, <2>3
<1>8. IsCall(ins) /\ CalleeKnown(ins)' /\ Len(ins.args) = 0 /\ ins.rets = back /\ ins.op = "call"
  <2>1. /\ IsCall(ins) /\ CalleeKnown(ins)' /\ Len(ins.args) = Len(astid(id).args)
        /\ ins.rets = Reversed(astid(id).rets)
    BY <1>1, CalleeOf
  <2>2. Len(astid(id).args) = 0 BY SmallSeqs
  <2> QED BY <1>1, <2>1, <2>2 DEF CallOf
<1>9. ins.args \in Seq(Kinds) BY <1>8 DEF IsCall
<1>10. ins.args = e BY <1>1, <1>6, <1>8, <1>9, EmptySeq
<1>11. TopN(e, 0) = e /\ Drop(e, 0) = e /\ e \o back = back
  <2>1. IsSeq(e) BY <1>6, SeqIsSeq
  <2>2. IsSeq(TopN(e, 0)) /\ Len(TopN(e, 0)) = 0 BY <2>1, <1>6, TopNProperties
  <2>3. TopN(e, 0) = e
    <3>1. \A i \in 1 .. 0 : TopN(e, 0)[i] = e[i] OBVIOUS
    <3> QED BY <1>6, <2>1, <2>2, <3>1, SameSeq
  <2>4. e \o back = back BY <1>1, <1>6, ConcatEmptySeq
  <2> QED BY <1>6, <2>3, <2>4, DropNone
<1>12. Sits(k + 2)' /\ TypesAfter(k + 2)' = back /\ MarksAfter(k + 2)' = e
  <2>1. PICK i : i = k + 2 OBVIOUS
  <2>2. code'[i] = View(ins, START, e, e) BY <1>2, <1>4, <2>1
  <2>3. Len(e) >= Len(ins.args) /\ TopN(e, Len(ins.args)) = ins.args BY <1>6, <1>8, <1>10, <1>11
  <2>4. ins.op # "ffi" BY <1>8
  <2>5. PICK of : of = START OBVIOUS
  <2>6. code'[i] = View(ins, of, e, e) BY <2>2, <2>5
  <2>7. (of # START => Find(values_map, of)' # NULL) /\ (ins.op = "ffi" => of # START) BY <2>4, <2>5
  <2>8. IsCall(ins) /\ CalleeKnown(ins)' BY <1>8
  <2>9. e \in Seq(Kinds) /\ e \in Seq(Nat) BY <1>6
  <2>10. Sits(i)' /\ TypesAfter(i)' = Drop(e, Len(ins.args)) \o ins.rets /\ MarksAfter(i)' = e
    <3>1. PICK s, ms : s = e /\ ms = e OBVIOUS
    <3>2. s \in Seq(Kinds) /\ ms \in Seq(Nat) BY <2>9, <3>1
    <3>3. code'[i] = View(ins, of, s, ms) BY <2>6, <3>1
    <3>4. Len(s) >= Len(ins.args) /\ TopN(s, Len(ins.args)) = ins.args BY <2>3, <3>1
    <3>5. Sits(i)' /\ TypesAfter(i)' = Drop(s, Len(ins.args)) \o ins.rets /\ MarksAfter(i)' = ms
      <4>1. of # START => Find(values_map, of)' # NULL BY <2>7
      <4>2. ins.op = "ffi" => of # START BY <2>7
      <4> QED BY ONLY <3>2, <3>3, <3>4, <4>1, <4>2, <2>8, CallSits
    <3> QED BY <3>1, <3>5
  <2> QED BY <1>8, <1>11, <2>1, <2>10
<1>13. Sits(k + 3)' /\ ~Falls(k + 3)'
  <2>1. PICK i : i = k + 3 OBVIOUS
  <2>2. code'[i] = View([op |-> "exit"], START, back, e) BY <1>2, <1>4, <2>1
  <2>3. Sits(i)' /\ ~Falls(i)' BY <1>1, <1>6, <2>2, ExitSits
  <2> QED BY <2>1, <2>3
<1>14. Joins(k + 1, code[k + 2])' /\ Joins(k + 2, code[k + 3])'
  BY <1>4, <1>5, <1>6, <1>7, <1>12, CoversItself DEF Joins
<1>15. \A j \in 1 .. 3 : Sits(k + j)'
  <2>1. \A j \in 1 .. 3 : j = 1 \/ j = 2 \/ j = 3 OBVIOUS
  <2> QED BY <1>7, <1>12, <1>13, <2>1
<1> QED BY <1>13, <1>14, <1>15

(* What the compiler knows where a routine ends.                              *)
LEMMA RoutineEnds ==
    ASSUME CompilerShape, Returning("routine"), NEW d, d = astid(Current.node),
           ~(d.kind = "FUNC" /\ ~Returns(func_ctx.types, d.rets))
    PROVE  /\ work # <<>> /\ phase \in {"main", "routines"} /\ Types \in Seq(Kinds)
           /\ DeclaredAs(Current.node, {"FUNC", "PROC", "EXTERN"}) /\ Current.of # START
           /\ Find(values_map, Current.of) = Current.node /\ d.name = Current.of
           /\ Current.under = <<>> /\ Current.marks = <<0>>
           /\ Returns(Types, d.rets)
           /\ phase = "main" => d.args = <<>>
<1>1. /\ phase \in {"main", "routines"} /\ work # <<>> /\ Current.block = "routine"
      /\ Current = work[Len(work)] /\ Len(work) = 1
  BY Return
<1>2. /\ Maps /\ Progress /\ Activations /\ Contexts /\ IsProgram(prog) BY ShapeFacts
<1>3. /\ Current.of # START /\ Find(values_map, Current.of) = work[1].node /\ work[1].node # NULL
      /\ Types \in Seq(Kinds) /\ Len(Types) \in Nat /\ DOMAIN work = 1 .. Len(work)
  BY <1>1, HereFacts
<1>4. IsBlock(1) /\ Current = work[1] BY <1>1, <1>2, <1>3 DEF Activations
<1>5. DeclaredAs(Current.node, {"FUNC", "PROC"}) /\ OfRoutine(Current)
  BY <1>1, <1>4 DEF IsBlock, IsActivation
<1>6. DeclaredAs(Current.node, {"FUNC", "PROC", "EXTERN"}) /\ d.kind \in {"FUNC", "PROC"}
  BY <1>5 DEF DeclaredAs
<1>7. d.name = Current.of
  <2>1. IsMap(values_map, {"FUNC", "PROC", "EXTERN"}) BY <1>2 DEF Maps
  <2>2. Find(values_map, Current.of) # NULL BY <1>3
  <2>3. astid(Find(values_map, Current.of)).name = Current.of BY <2>1, <2>2, FindIsDeclared
  <2> QED BY <1>3, <1>4, <2>3
<1>8. Returns(Types, d.rets)
  <2>1. CASE d.kind = "FUNC"
    <3>1. LastExpanded("PROC", 1, proc_ctx.stmt) BY <1>1, <1>2 DEF Contexts
    <3>2. \A k \in 1 .. 1 : ~Expanded(k, "PROC")
      <4>1. \A k \in 1 .. 1 : k = 1 OBVIOUS
      <4>2. Decl(1) = d BY <1>4 DEF Decl
      <4> QED BY <2>1, <4>1, <4>2 DEF Expanded
    <3>3. proc_ctx.stmt = NULL BY <3>1, <3>2 DEF LastExpanded
    <3>4. Types = func_ctx.types BY <3>3 DEF Types, Ctx, InProc
    <3> QED BY <2>1, <3>4
  <2>2. CASE d.kind # "FUNC"
    <3>1. d.rets = <<>> BY <1>2, <1>6, <2>2, SignatureOf
    <3>2. PICK t, e : t = Types /\ e = <<>> OBVIOUS
    <3>3. IsSeq(t) /\ IsSeq(e) /\ Len(e) = 0 /\ Len(t) >= 0
      <4>1. t \in Seq(Kinds) /\ Len(t) \in Nat BY <1>3, <3>2
      <4>2. IsSeq(t) BY <4>1, SeqIsSeq
      <4>3. IsSeq(e) /\ Len(e) = 0 BY <3>2, EmptySequence
      <4>4. Len(t) >= 0 BY <4>1
      <4> QED BY <4>2, <4>3, <4>4
    <3>4. IsSeq(TopN(t, 0)) /\ Len(TopN(t, 0)) = 0 BY <3>3, TopNProperties
    <3>5. TopN(t, 0) = e
      <4>1. \A i \in 1 .. 0 : TopN(t, 0)[i] = e[i] OBVIOUS
      <4> QED BY <3>3, <3>4, <4>1, SameSeq
    <3>6. Returns(t, e) BY <3>3, <3>5 DEF Returns
    <3> QED BY <3>1, <3>2, <3>6
  <2> QED BY <2>1, <2>2
<1>9. phase = "main" => d.args = <<>>
  <2> SUFFICES ASSUME phase = "main" PROVE d.args = <<>> OBVIOUS
  <2>1. work[1].node = prog.main /\ check_for_main_function(prog) BY <1>2 DEF Progress
  <2> QED BY <1>4, <2>1 DEF check_for_main_function, astid
<1> QED BY <1>1, <1>3, <1>4, <1>5, <1>6, <1>7, <1>8, <1>9 DEF OfRoutine

LEMMA BalancedEndRoutine == ASSUME CompilerShape, Balanced, EndRoutine PROVE Balanced'
<1>1. PICK id, d : id = Current.node /\ d = astid(id) OBVIOUS
<1>2. Returning("routine") BY DEF EndRoutine
<1>3. CASE d.kind = "FUNC" /\ ~Returns(func_ctx.types, d.rets)
  BY <1>1, <1>3, BalancedStops DEF EndRoutine, Reject
<1>4. CASE ~(d.kind = "FUNC" /\ ~Returns(func_ctx.types, d.rets))
  <2>1. PICK of, t, ms, ins, x : /\ of = Current.of /\ t = Types /\ ms = <<0>> /\ ins = RetOf(d)
                                 /\ x = View(ins, of, t, ms)
    OBVIOUS
  <2>2. /\ work # <<>> /\ phase \in {"main", "routines"} /\ t \in Seq(Kinds)
        /\ DeclaredAs(id, {"FUNC", "PROC", "EXTERN"}) /\ of # START
        /\ Find(values_map, of) = id /\ d.name = of
        /\ Current.under = <<>> /\ Current.marks = ms /\ Returns(t, d.rets)
        /\ phase = "main" => d.args = <<>>
    BY <1>1, <1>2, <1>4, <2>1, RoutineEnds
  <2>3. <<>> \o t = t BY <2>2, ConcatEmptySeq
  <2>4. At(ins, Types) = x BY <2>1, <2>2, <2>3 DEF At
  <2>5. PICK rest : rest = IF phase = "main" THEN Start(d) ELSE <<>> OBVIOUS
  <2>6. PICK one : one = <<x>> OBVIOUS
  <2>7. /\ Emit(one \o rest) /\ work' = <<>> /\ UNCHANGED <<prog, values_map, externs_map>>
    BY <1>1, <1>4, <2>1, <2>4, <2>5, <2>6 DEF EndRoutine, RetOf
  <2>8. Maps /\ IsProgram(prog) /\ IsSeq(code) BY ShapeFacts
  <2>9. KeepsMaps BY <2>7, <2>8, MapsStay
  <2>10. IsSeq(one) /\ Len(one) = 1 /\ one[1] = x /\ Straight(one)
    <3>1. x.ins.op \notin {"label", "jmp", "jz"} BY <2>1 DEF View, RetOf
    <3> QED BY <2>6, <3>1, SmallSeqs, OneStraight
  <2>11. IsSeq(rest) /\ Straight(rest) /\ Len(rest) = IF phase = "main" THEN 3 ELSE 0
    BY <2>5, StartIsStraight, NoneStraight, SmallSeqs
  <2>12. PICK s : s = one \o rest OBVIOUS
  <2>13. /\ IsSeq(s) /\ Straight(s) /\ Len(s) = 1 + Len(rest) /\ s[1] = x
         /\ \A j \in 1 .. Len(rest) : s[1 + j] = rest[j]
    <3>1. IsSeq(s) /\ Straight(s) BY <2>10, <2>11, <2>12, StraightConcat
    <3>2. /\ Len(s) = Len(one) + Len(rest) /\ \A j \in 1 .. Len(one) : s[j] = one[j]
          /\ \A j \in 1 .. Len(rest) : s[Len(one) + j] = rest[j]
      <4>1. IsSeq(one) /\ IsSeq(rest) BY <2>10, <2>11
      <4> QED BY ONLY <4>1, <2>12, ConcatSeq
    <3>3. 1 \in 1 .. 1 OBVIOUS
    <3> QED BY <2>10, <3>1, <3>2, <3>3
  <2>14. Appends(s) BY <2>7, <2>8, <2>12, <2>13 DEF Appends, Emit
  <2>15. PICK n, m, here, after : n = Len(code) /\ m = n + Len(s) /\ here = Here /\ after = Here' OBVIOUS
  <2>16. Grown(n, m) /\ \A j \in 1 .. Len(s) : code'[n + j] = s[j] BY <2>14, <2>15, AppendsGrows
  <2>17. n \in Nat /\ m = n + 1 + Len(rest) /\ Len(rest) \in {0, 3}
    BY <2>11, <2>13, <2>15, <2>16 DEF Grown
  <2>18. code'[n + 1] = x
    <3>1. 1 \in 1 .. Len(s) BY <2>13, <2>17
    <3> QED BY <2>13, <2>16, <3>1
  <2>19. n < m /\ SameView(here, code'[n + 1])
    <3>1. here.of = of /\ here.types = t /\ here.marks = ms
      BY <2>1, <2>2, <2>3, <2>15 DEF Here, At, View
    <3>2. x.of = of /\ x.types = t /\ x.marks = ms BY <2>1 DEF View
    <3> QED BY <2>17, <2>18, <3>1, <3>2 DEF SameView
  <2>20. Sits(n + 1)' /\ ~Falls(n + 1)'
    <3>1. PICK i, rets : i = n + 1 /\ rets = d.rets OBVIOUS
    <3>2. code'[i] = View(ins, of, t, ms) BY <2>1, <2>18, <3>1
    <3>3. rets = astid(id).rets /\ Returns(t, rets) /\ ins = RetOf(astid(id)) BY <1>1, <2>1, <2>2, <3>1
    <3>4. ms = <<0>> BY <2>1
    <3>5. /\ IsProgram(prog) /\ KeepsMaps /\ DeclaredAs(id, {"FUNC", "PROC", "EXTERN"})
          /\ of # START /\ Find(values_map, of) = id /\ t \in Seq(Kinds)
      BY <2>2, <2>8, <2>9
    <3>6. Sits(i)' /\ ~Falls(i)' BY ONLY <3>2, <3>3, <3>4, <3>5, RetSits
    <3> QED BY <3>1, <3>6
  <2>21. ASSUME phase = "main"
         PROVE  /\ m = n + 4 /\ \A j \in 1 .. 3 : Sits(n + 1 + j)'
                /\ Joins(n + 2, code[n + 3])' /\ Joins(n + 3, code[n + 4])' /\ ~Falls(n + 4)'
    <3>1. rest = Start(astid(id)) /\ Len(rest) = 3 /\ m = n + 4 BY <1>1, <2>5, <2>11, <2>17, <2>21
    <3>2. PICK k : k = n + 1 OBVIOUS
    <3>3. k \in Nat BY <2>17, <3>2
    <3>4. ASSUME NEW j \in 1 .. 3 PROVE code'[k + j] = Start(astid(id))[j]
      <4>1. 1 + j \in 1 .. Len(s) /\ k + j = n + (1 + j) BY <2>13, <2>17, <3>1, <3>2
      <4> QED BY <2>13, <2>16, <3>1, <4>1
    <3>5. Find(values_map, astid(id).name) = id /\ astid(id).args = <<>> BY <1>1, <2>2, <2>21
    <3>6. DeclaredAs(id, {"FUNC", "PROC", "EXTERN"}) /\ IsProgram(prog) /\ KeepsMaps BY <2>2, <2>8, <2>9
    <3>7. /\ \A j \in 1 .. 3 : Sits(k + j)'
          /\ Joins(k + 1, code[k + 2])' /\ Joins(k + 2, code[k + 3])' /\ ~Falls(k + 3)'
      BY ONLY <3>3, <3>4, <3>5, <3>6, StartFlows
    <3>8. k + 1 = n + 2 /\ k + 2 = n + 3 /\ k + 3 = n + 4 BY <2>17, <3>2
    <3> QED BY <3>1, <3>2, <3>7, <3>8
  <2>22. ASSUME NEW i \in n + 1 .. m
         PROVE  Sits(i)' /\ (Falls(i)' => IF i < m THEN Joins(i, code[i + 1])'
                                          ELSE work' # <<>> /\ Joins(i, after)')
    <3>1. CASE i = n + 1 BY <2>20, <3>1
    <3>2. CASE i # n + 1
      <4>1. Len(rest) = 3 /\ phase = "main" BY <2>11, <2>17, <3>2
      <4>2. m = n + 4 BY <4>1, <2>17
      <4>3. i = n + 2 \/ i = n + 3 \/ i = n + 4 BY <4>2, <2>17, <3>2
      <4>4. PICK j \in 1 .. 3 : i = n + 1 + j
        <5>1. n + 2 = n + 1 + 1 /\ n + 3 = n + 1 + 2 /\ n + 4 = n + 1 + 3 BY <2>17
        <5>2. 1 \in 1 .. 3 /\ 2 \in 1 .. 3 /\ 3 \in 1 .. 3 OBVIOUS
        <5> QED BY <4>3, <5>1, <5>2
      <4>5. Sits(i)' BY <2>21, <4>1, <4>4
      <4>6. CASE i = n + 4 BY <2>21, <4>1, <4>5, <4>6
      <4>7. CASE i = n + 2
        <5>1. i < m /\ i + 1 = n + 3 BY <2>17, <4>2, <4>7
        <5>2. Joins(i, code[i + 1])' BY <2>21, <4>1, <4>7, <5>1
        <5> QED BY <4>5, <5>1, <5>2
      <4>8. CASE i = n + 3
        <5>1. i < m /\ i + 1 = n + 4 BY <2>17, <4>2, <4>8
        <5>2. Joins(i, code[i + 1])' BY <2>21, <4>1, <4>8, <5>1
        <5> QED BY <4>5, <5>1, <5>2
      <4> QED BY <4>3, <4>6, <4>7, <4>8
    <3> QED BY <3>1, <3>2
  <2>23. \A k \in DOMAIN work' : work'[k].block = "routine" BY <2>7, EmptySequence
  <2> QED BY <2>9, <2>13, <2>14, <2>15, <2>19, <2>22, <2>23, BalancedAround
<1> QED BY <1>3, <1>4

-----------------------------------------------------------------------------
(* Every step.                                                                *)

(* A quirk that was used is not forgotten.                                    *)
LEMMA QuirksGrow == ASSUME Compile PROVE quirks \subseteq quirks'
<1>1. ASSUME NEW how, Stop(how) PROVE quirks' = quirks BY <1>1 DEF Stop
<1>2. ASSUME Reject \/ Crash PROVE quirks' = quirks BY <1>1, <1>2 DEF Reject, Crash
<1>3. ASSUME NEW instructions, NEW ts, Continue(instructions, ts) PROVE quirks' = quirks
  BY <1>1, <1>3 DEF Continue
<1>4. ASSUME NEW checked, NEW instr, NEW ts, Require(checked, instr, ts) PROVE quirks' = quirks
  BY <1>2, <1>3, <1>4 DEF Require
<1>5. ASSUME NEW name, compile_argument_push(name) PROVE quirks' = quirks
  BY <1>2, <1>3, <1>5 DEF compile_argument_push
<1>6. ASSUME NEW id, compile_function_call(id) PROVE quirks \subseteq quirks'
  <2>1. ASSUME NEW ts, compile_inline(id, ts) PROVE quirks \subseteq quirks'
    BY <1>2, <2>1 DEF compile_inline
  <2> QED BY <1>1, <1>2, <1>6, <2>1 DEF compile_function_call
<1>7. CASE FillMaps \/ CompileMain \/ CompileRoutine
  BY <1>2, <1>7 DEF FillMaps, CompileMain, CompileRoutine
<1>8. CASE EndRoutine \/ CompileDone BY <1>1, <1>2, <1>8 DEF EndRoutine, CompileDone
<1>9. CASE CompilePush \/ CompileLiteral \/ CompileNothing
  BY <1>2, <1>3, <1>5, <1>9 DEF CompilePush, CompileLiteral, CompileNothing
<1>10. CASE CompileCall BY <1>3, <1>5, <1>6, <1>10, SMTT(30) DEF CompileCall
<1>11. CASE EndInline \/ CompileSyscall BY <1>1, <1>2, <1>11 DEF EndInline, CompileSyscall
<1>12. CASE CompileArith \/ CompileEqual \/ CompileBnot \/ CompileDrop
  BY <1>4, <1>12 DEF CompileArith, CompileEqual, CompileBnot, CompileDrop
<1>13. CASE CompilePlus \/ CompileDup \/ CompileDot \/ CompileWrite
  BY <1>2, <1>3, <1>13 DEF CompilePlus, CompileDup, CompileDot, CompileWrite
<1>14. CASE CompileIf \/ EndThen \/ EndElse BY <1>2, <1>3, <1>14 DEF CompileIf, EndThen, EndElse
<1>15. CASE CompileWhile \/ EndCond \/ EndBody BY <1>2, <1>15 DEF CompileWhile, EndCond, EndBody
<1> QED BY <1>7, <1>8, <1>9, <1>10, <1>11, <1>12, <1>13, <1>14, <1>15 DEF Compile

LEMMA CompileKeepsBalance ==
    ASSUME CompilerShape, Balanced, quirks = {}, quirks' = {}, Compile PROVE Balanced'
<1>1. CASE FillMaps \/ CompileMain \/ CompileRoutine \/ EndRoutine \/ CompileDone
  BY <1>1, BalancedFillMaps, BalancedCompileMain, BalancedCompileRoutine, BalancedEndRoutine, BalancedStops
  DEF CompileDone
<1>2. CASE CompilePush \/ CompileLiteral \/ CompileCall \/ EndInline
  BY <1>2, BalancedPush, BalancedLiteral, BalancedCall, BalancedEndInline
<1>3. CASE CompileArith \/ CompileEqual BY <1>3, BalancedArith
<1>4. CASE CompileBnot \/ CompileDrop \/ CompileDup \/ CompileDot \/ CompileWrite BY <1>4, BalancedUnary
<1>5. CASE CompilePlus \/ CompileSyscall \/ CompileNothing
  BY <1>5, BalancedPlus, BalancedSyscall, BalancedNothing
<1>6. CASE CompileIf \/ EndThen \/ EndElse BY <1>6, BalancedIf, BalancedEndThen, BalancedEndElse
<1>7. CASE CompileWhile \/ EndCond \/ EndBody BY <1>7, BalancedWhile, BalancedEndCond, BalancedEndBody
<1> QED BY <1>1, <1>2, <1>3, <1>4, <1>5, <1>6, <1>7 DEF Compile

LEMMA CompilerStep == ASSUME CompilerInductive, [Next]_vars PROVE CompilerInductive'
<1>1. CompilerShape /\ CompilerShape' BY ShapeStep DEF CompilerInductive
<1>2. CASE Compiles
  <2>1. SUFFICES ASSUME quirks' = {} PROVE Balanced' BY <1>1 DEF CompilerInductive
  <2>2. Compile BY <1>2 DEF Compiles
  <2>3. quirks = {} BY <2>1, <2>2, QuirksGrow
  <2>4. Balanced BY <2>3 DEF CompilerInductive
  <2> QED BY <1>1, <2>1, <2>2, <2>3, <2>4, CompileKeepsBalance
<1>3. ASSUME UNCHANGED codegenVars PROVE CompilerInductive'
  <2>1. UNCHANGED <<prog, maps, ctx, work, code>> /\ quirks' = quirks BY <1>3 DEF codegenVars
  <2> QED BY <1>1, <2>1, BalancedUnchanged DEF CompilerInductive
<1>4. CASE Load \/ Executes \/ End \/ UNCHANGED vars BY <1>3, <1>4 DEF Load, Executes, End, vars
<1> QED BY <1>2, <1>4 DEF Next

(* compiler.c, for every program and at every step: what CompilerShape says,  *)
(* and, as long as no quirk was used, that the code written so far is in      *)
(* balance: each instruction finds what it needs and leads to the next, each  *)
(* jump to its label or to the block that will write it, and what an open     *)
(* block resumes to is where it was left.                                     *)
THEOREM CompilerInductiveHolds == Spec => []CompilerInductive
<1>1. Init => CompilerInductive
  <2>1. Init => CompilerShape BY ShapeAtFirst
  <2>2. Init => Balanced BY BalancedEmpty DEF Init, CodegenInit
  <2> QED BY <2>1, <2>2 DEF CompilerInductive
<1>2. CompilerInductive /\ [Next]_vars => CompilerInductive' BY CompilerStep
<1> QED BY <1>1, <1>2, PTL DEF Spec

-----------------------------------------------------------------------------
(* Code without open blocks, in balance, is certified.                        *)
LEMMA BalancedLeadsOn ==
    ASSUME CodeFlows, JumpsMeet, work = <<>>, IsSeq(code), NEW i \in DOMAIN code
    PROVE  LeadsOn(i)
<1>1. Len(code) \in Nat /\ DOMAIN code = 1 .. Len(code) BY IsSeqProperties
<1>2. PICK ins : ins = code[i].ins OBVIOUS
<1>3. ASSUME NEW j, j \in DOMAIN code, Joins(i, code[j])
      PROVE  /\ code[j].of = code[i].of /\ Covers(code[j].types, TypesAfter(i))
             /\ code[j].marks = MarksAfter(i)
  BY <1>3 DEF Joins
<1>4. ASSUME Falls(i) PROVE i + 1 \in DOMAIN code /\ Joins(i, code[i + 1])
  <2>1. i < Len(code) /\ Joins(i, code[i + 1]) BY <1>4 DEF CodeFlows
  <2> QED BY <1>1, <2>1
<1>5. ASSUME ins.op \in {"jmp", "jz"}, NEW j \in Labels(ins.l, ins.n)
      PROVE  j \in DOMAIN code /\ Joins(i, code[j])
  <2>1. i \in JumpsAt BY <1>2, <1>5 DEF JumpsAt
  <2>2. j \in DOMAIN code BY <1>5 DEF Labels
  <2> QED BY <1>2, <1>5, <2>1, <2>2 DEF JumpsMeet
<1>6. ASSUME NEW j \in Sequels(i) PROVE j \in DOMAIN code /\ Joins(i, code[j])
  <2>1. CASE ins.op = "jmp" BY <1>2, <1>5, <1>6, <2>1 DEF Sequels
  <2>2. CASE ins.op = "jz"
    <3>1. Falls(i) BY <1>2, <2>2 DEF Falls
    <3>2. j \in Labels(ins.l, ins.n) \/ j = i + 1 BY <1>2, <1>6, <2>2 DEF Sequels
    <3> QED BY <1>4, <1>5, <2>2, <3>1, <3>2
  <2>3. CASE ins.op \in {"ret", "exit"} BY <1>2, <1>6, <2>3 DEF Sequels
  <2>4. CASE ins.op \notin {"jmp", "jz", "ret", "exit"}
    <3>1. Falls(i) BY <1>2, <2>4 DEF Falls
    <3>2. j = i + 1 BY <1>2, <1>6, <2>4 DEF Sequels
    <3> QED BY <1>4, <3>1, <3>2
  <2> QED BY <2>1, <2>2, <2>3, <2>4
<1> QED BY <1>3, <1>6 DEF LeadsOn

LEMMA BalancedAgreed ==
    ASSUME Maps, IsProgram(prog), InstructionsFit, NEW i \in DOMAIN code, NEW j \in DOMAIN code
    PROVE  Agreed(i, j)
<1> SUFFICES ASSUME code[i].ins.op = "call", code[j].of = code[i].ins.name
             PROVE  /\ code[j].ins.op = "ret" => /\ code[j].ins.nargs = Len(code[i].ins.args)
                                                 /\ code[j].ins.rets = code[i].ins.rets
                    /\ (code[j].ins.op = "loadarg" /\ Len(code[j].marks) = 1) =>
                           /\ code[j].ins.nargs = Len(code[i].ins.args)
                           /\ code[j].ins.kind = code[i].ins.args[code[j].ins.arg]
  BY DEF Agreed
<1>1. PICK name : name = code[i].ins.name OBVIOUS
<1>2. PICK d : d = Declares(name) OBVIOUS
<1>3. AsDeclared(i) /\ AsDeclared(j) /\ WellFormed(j) BY DEF InstructionsFit
<1>4. Find(values_map, name) # NULL /\ code[i].ins.args = ArgKinds(d.args) /\ code[i].ins.rets = Reversed(d.rets)
  BY <1>1, <1>2, <1>3 DEF AsDeclared
<1>5. DeclaredAs(Find(values_map, name), {"FUNC", "PROC", "EXTERN"})
  <2>1. IsMap(values_map, {"FUNC", "PROC", "EXTERN"}) BY DEF Maps
  <2> QED BY <1>4, <2>1, FindIsDeclared
<1>6. IsSeq(d.args) /\ Len(ArgKinds(d.args)) = Len(d.args) BY <1>2, <1>5, SignatureOf DEF Declares
<1>7. DOMAIN d.args = 1 .. Len(d.args) BY <1>6, IsSeqProperties
<1>8. ASSUME code[j].ins.op = "ret"
      PROVE  code[j].ins.nargs = Len(code[i].ins.args) /\ code[j].ins.rets = code[i].ins.rets
  BY <1>1, <1>2, <1>3, <1>4, <1>6, <1>8 DEF AsDeclared
<1>9. ASSUME code[j].ins.op = "loadarg", Len(code[j].marks) = 1
      PROVE  /\ code[j].ins.nargs = Len(code[i].ins.args)
             /\ code[j].ins.kind = code[i].ins.args[code[j].ins.arg]
  <2>1. code[j].ins.nargs = Len(d.args) /\ code[j].ins.kind = d.args[code[j].ins.arg].kind
    BY <1>1, <1>2, <1>3, <1>9 DEF AsDeclared
  <2>2. code[j].ins.arg \in DOMAIN d.args BY <1>3, <1>7, <1>9, <2>1 DEF WellFormed
  <2>3. ArgKinds(d.args)[code[j].ins.arg] = d.args[code[j].ins.arg].kind BY <2>2 DEF ArgKinds
  <2> QED BY <1>4, <1>6, <2>1, <2>3
<1> QED BY <1>8, <1>9

LEMMA BalancedIsCertified == ASSUME CompilerShape, Balanced, work = <<>> PROVE Certified
<1>1. Maps /\ IsProgram(prog) /\ IsSeq(code) BY ShapeFacts
<1>2. InstructionsFit /\ CodeFlows /\ JumpsMeet BY DEF Balanced
<1>3. DOMAIN code \subseteq Nat BY <1>1, IsSeqProperties
<1>4. \A i \in DOMAIN code : LeadsOn(i) BY <1>1, <1>2, BalancedLeadsOn
<1>5. \A i, j \in DOMAIN code : Agreed(i, j) BY <1>1, <1>2, BalancedAgreed
<1> QED BY <1>2, <1>3, <1>4, <1>5 DEF Certified, InstructionsFit

(* compile_ast: the checks the compiler makes on the types amount to the      *)
(* certificate.  Whatever the program, code the compiler accepts without a    *)
(* quirk takes each view of the stack to the next, and hands over at every    *)
(* call what the callee expects.                                              *)
THEOREM AcceptedIsCertifiedHolds == Spec => []AcceptedIsCertified
<1>1. CompilerInductive => AcceptedIsCertified
  <2> SUFFICES ASSUME CompilerInductive, phase = "done", quirks = {} PROVE Certified
    BY DEF AcceptedIsCertified, Accepted
  <2>1. CompilerShape /\ Balanced BY DEF CompilerInductive
  <2>2. work = <<>> BY <2>1 DEF CompilerShape, Progress
  <2> QED BY <2>1, <2>2, BalancedIsCertified
<1> QED BY <1>1, CompilerInductiveHolds, PTL

-----------------------------------------------------------------------------
(* The compiler and the machine together: whatever program the compiler       *)
(* accepts without a quirk, and wherever its run has got to, each open        *)
(* routine's part of the stacks is what the compiler recorded at the          *)
(* instruction it stands at, and it faults at a limit only.  The certificate, *)
(* which the theorems of PraccProof ask of the code, is here a result.        *)
AcceptedRunsSafely == (quirks = {} /\ machine \in {"running", "fault"}) => Safe

THEOREM AcceptedRunsSafelyHolds == Spec => []AcceptedRunsSafely
<1>1. (AcceptedIsCertified /\ Inductive) => AcceptedRunsSafely
  BY DEF AcceptedIsCertified, Accepted, Inductive, CompiledFirst, AcceptedRunsSafely
<1> QED BY <1>1, AcceptedIsCertifiedHolds, InductiveHolds, PTL
=============================================================================
