------------------------------- MODULE SeqFacts -------------------------------
(* Facts about the sequences that stand for stacks, whatever their elements,  *)
(* and induction on the natural numbers, as a fact about sets.                *)
EXTENDS Lang, SequenceTheorems, WellFoundedInduction, TLAPS

(* Every sequence is a sequence of its own elements.                          *)
LEMMA SeqIsSeq ==
    ASSUME NEW S, NEW s \in Seq(S) PROVE IsSeq(s)
<1>1. s \in [1 .. Len(s) -> S] /\ Len(s) \in Nat OBVIOUS
<1>2. s \in [1 .. Len(s) -> {s[i] : i \in DOMAIN s}] BY <1>1
<1> QED BY <1>1, <1>2 DEF IsSeq

(* What is known of such a sequence.                                          *)
LEMMA IsSeqProperties ==
    ASSUME NEW s, IsSeq(s)
    PROVE  Len(s) \in Nat /\ DOMAIN s = 1 .. Len(s)
BY DEF IsSeq

LEMMA SmallSeqs ==
    ASSUME NEW x, NEW y
    PROVE  /\ IsSeq(<<>>) /\ IsSeq(<<x>>) /\ IsSeq(<<x, y>>)
           /\ Len(<<>>) = 0 /\ Len(<<x>>) = 1 /\ Len(<<x, y>>) = 2
           /\ <<x>>[1] = x /\ <<x, y>>[1] = x /\ <<x, y>>[2] = y
<1>1. <<>> \in Seq({x, y}) /\ <<x>> \in Seq({x, y}) /\ <<x, y>> \in Seq({x, y}) OBVIOUS
<1> QED BY <1>1, SeqIsSeq

(* t put on top of the n deepest elements of s.                               *)
Onto(s, n, t) == SubSeq(s, 1, n) \o t

LEMMA OntoProperties ==
    ASSUME NEW s, IsSeq(s), NEW t, IsSeq(t), NEW n \in Nat, n <= Len(s)
    PROVE  /\ IsSeq(Onto(s, n, t))
           /\ Len(Onto(s, n, t)) = n + Len(t)
           /\ \A i \in 1 .. n : Onto(s, n, t)[i] = s[i]
           /\ \A i \in 1 .. Len(t) : Onto(s, n, t)[n + i] = t[i]
<1> DEFINE S == {s[i] : i \in DOMAIN s} \union {t[i] : i \in DOMAIN t}
           d == SubSeq(s, 1, n)
<1>1. s \in Seq(S) /\ t \in Seq(S)
  <2>1. s \in [1 .. Len(s) -> S] /\ Len(s) \in Nat BY IsSeqProperties DEF IsSeq
  <2>2. t \in [1 .. Len(t) -> S] /\ Len(t) \in Nat BY IsSeqProperties DEF IsSeq
  <2> QED BY <2>1, <2>2
<1>2. d \in Seq(S) /\ Len(d) = n /\ \A i \in 1 .. n : d[i] = s[i]
  <2>1. \A i \in 1 .. n : s[i] \in S BY <1>1
  <2> HIDE DEF S
  <2> QED BY <1>1, <2>1, SubSeqProperties
<1>3. /\ d \o t \in Seq(S) /\ Len(d \o t) = Len(d) + Len(t)
      /\ \A i \in 1 .. Len(d) + Len(t) : (d \o t)[i] = IF i <= Len(d) THEN d[i] ELSE t[i - Len(d)]
  BY <1>1, <1>2, ConcatProperties
<1>4. Len(t) \in Nat /\ Len(s) \in Nat BY IsSeqProperties
<1>5. IsSeq(d \o t) BY <1>3, SeqIsSeq
<1>6. Onto(s, n, t) = d \o t BY DEF Onto
<1> HIDE DEF d, S
<1> QED BY <1>2, <1>3, <1>4, <1>5, <1>6

LEMMA TopNProperties ==
    ASSUME NEW s, IsSeq(s), NEW n \in Nat, n <= Len(s)
    PROVE  /\ IsSeq(TopN(s, n)) /\ Len(TopN(s, n)) = n
           /\ \A i \in 1 .. n : TopN(s, n)[i] = s[Len(s) - n + i]
<1> DEFINE S == {s[i] : i \in DOMAIN s}
           first == Len(s) - n + 1
<1>1. s \in Seq(S) /\ Len(s) \in Nat BY IsSeqProperties DEF IsSeq
<1>2. \A i \in first .. Len(s) : s[i] \in S BY <1>1
<1>3. first \in Int /\ Len(s) \in Int BY <1>1
<1> HIDE DEF S
<1>4. /\ SubSeq(s, first, Len(s)) \in Seq(S)
      /\ Len(SubSeq(s, first, Len(s))) = IF first <= Len(s) THEN Len(s) - first + 1 ELSE 0
      /\ \A i \in 1 .. Len(s) - first + 1 : SubSeq(s, first, Len(s))[i] = s[first + i - 1]
  BY <1>2, <1>3, SubSeqProperties
<1>5. IsSeq(TopN(s, n)) BY <1>4, SeqIsSeq DEF TopN
<1>6. Len(TopN(s, n)) = n BY <1>1, <1>4 DEF TopN
<1>7. ASSUME NEW i \in 1 .. n PROVE TopN(s, n)[i] = s[Len(s) - n + i]
  <2>1. i \in 1 .. Len(s) - first + 1 /\ first + i - 1 = Len(s) - n + i BY <1>1
  <2> QED BY <1>4, <2>1 DEF TopN
<1> QED BY <1>5, <1>6, <1>7

LEMMA ReversedProperties ==
    ASSUME NEW s, IsSeq(s)
    PROVE  /\ IsSeq(Reversed(s)) /\ Len(Reversed(s)) = Len(s)
           /\ \A i \in 1 .. Len(s) : Reversed(s)[i] = s[Len(s) + 1 - i]
<1> DEFINE S == {s[i] : i \in DOMAIN s}
<1>1. s \in Seq(S) /\ Len(s) \in Nat /\ DOMAIN s = 1 .. Len(s) BY IsSeqProperties DEF IsSeq
<1>2. \A i \in 1 .. Len(s) : s[Len(s) + 1 - i] \in S BY <1>1
<1> HIDE DEF S
<1>3. Reversed(s) \in [1 .. Len(s) -> S] BY <1>2 DEF Reversed
<1>4. Reversed(s) \in Seq(S) /\ Len(Reversed(s)) = Len(s) BY <1>1, <1>3
<1>5. \A i \in 1 .. Len(s) : Reversed(s)[i] = s[Len(s) + 1 - i] BY DEF Reversed
<1> QED BY <1>4, <1>5, SeqIsSeq

(* What comes back, element by element: the i-th from the top first.          *)
LEMMA ReversedTopN ==
    ASSUME NEW s, IsSeq(s), NEW n \in Nat, n <= Len(s)
    PROVE  /\ IsSeq(Reversed(TopN(s, n))) /\ Len(Reversed(TopN(s, n))) = n
           /\ \A i \in 1 .. n : Reversed(TopN(s, n))[i] = s[Len(s) + 1 - i]
<1>1. /\ IsSeq(TopN(s, n)) /\ Len(TopN(s, n)) = n
      /\ \A i \in 1 .. n : TopN(s, n)[i] = s[Len(s) - n + i]
  BY TopNProperties
<1>2. /\ IsSeq(Reversed(TopN(s, n))) /\ Len(Reversed(TopN(s, n))) = Len(TopN(s, n))
      /\ \A i \in 1 .. Len(TopN(s, n)) :
            Reversed(TopN(s, n))[i] = TopN(s, n)[Len(TopN(s, n)) + 1 - i]
  BY <1>1, ReversedProperties
<1>3. Len(s) \in Nat BY IsSeqProperties
<1>4. ASSUME NEW i \in 1 .. n PROVE Reversed(TopN(s, n))[i] = s[Len(s) + 1 - i]
  <2>1. Reversed(TopN(s, n))[i] = TopN(s, n)[n + 1 - i] BY <1>1, <1>2
  <2>2. n + 1 - i \in 1 .. n /\ Len(s) - n + (n + 1 - i) = Len(s) + 1 - i BY <1>3
  <2>3. TopN(s, n)[n + 1 - i] = s[Len(s) - n + (n + 1 - i)] BY <1>1, <2>2
  <2> QED BY <2>1, <2>2, <2>3
<1> QED BY <1>1, <1>2, <1>4

LEMMA TopNIsReversed ==
    ASSUME NEW s, IsSeq(s), NEW t, IsSeq(t), Len(t) <= Len(s), TopN(s, Len(t)) = Reversed(t),
           NEW i \in 1 .. Len(t)
    PROVE  s[Len(s) + 1 - i] = t[i]
<1>1. Len(t) \in Nat /\ Len(s) \in Nat BY IsSeqProperties
<1> DEFINE n == Len(t)
<1>2. n + 1 - i \in 1 .. n /\ n + 1 - (n + 1 - i) = i BY <1>1
<1>3. Reversed(t)[n + 1 - i] = t[n + 1 - (n + 1 - i)] BY <1>2, ReversedProperties
<1>4. TopN(s, n)[n + 1 - i] = s[Len(s) - n + (n + 1 - i)] BY <1>1, <1>2, TopNProperties
<1>5. Len(s) - n + (n + 1 - i) = Len(s) + 1 - i BY <1>1
<1> QED BY <1>2, <1>3, <1>4, <1>5

LEMMA DropProperties ==
    ASSUME NEW S, NEW s \in Seq(S), NEW n \in Nat, n <= Len(s)
    PROVE  /\ Drop(s, n) \in Seq(S) /\ Len(Drop(s, n)) = Len(s) - n
           /\ \A i \in 1 .. Len(s) - n : Drop(s, n)[i] = s[i]
<1>1. Len(s) \in Nat /\ \A i \in 1 .. Len(s) : s[i] \in S BY LenProperties, ElementOfSeq
<1> DEFINE last == Len(s) - n
<1>2. last \in Int /\ 1 \in Int /\ \A i \in 1 .. last : s[i] \in S BY <1>1
<1>3. /\ SubSeq(s, 1, last) \in Seq(S)
      /\ Len(SubSeq(s, 1, last)) = IF 1 <= last THEN last - 1 + 1 ELSE 0
      /\ \A i \in 1 .. last - 1 + 1 : SubSeq(s, 1, last)[i] = s[1 + i - 1]
  BY <1>2, SubSeqProperties
<1> QED BY <1>1, <1>3 DEF Drop

LEMMA AppendIs ==
    ASSUME NEW S, NEW s \in Seq(S), NEW e \in S
    PROVE  /\ Append(s, e) \in Seq(S) /\ Len(Append(s, e)) = Len(s) + 1
           /\ Append(s, e)[Len(s) + 1] = e
           /\ \A i \in 1 .. Len(s) : Append(s, e)[i] = s[i]
OBVIOUS

LEMMA OntoAll ==
    ASSUME NEW s, IsSeq(s) PROVE Onto(s, Len(s), <<>>) = s
<1>1. s \in Seq({s[i] : i \in DOMAIN s}) BY DEF IsSeq
<1>2. SubSeq(s, 1, Len(s)) = s BY <1>1, SubSeqFull
<1>3. s \o <<>> = s BY <1>1, ConcatEmptySeq
<1> QED BY <1>2, <1>3 DEF Onto

LEMMA DropOne ==
    ASSUME NEW S, NEW s \in Seq(S), Len(s) >= 1
    PROVE  /\ Drop(s, 1) \in Seq(S) /\ Len(Drop(s, 1)) = Len(s) - 1
           /\ \A i \in 1 .. Len(s) - 1 : Drop(s, 1)[i] = s[i]
<1>1. \A n \in Nat : n <= Len(s) =>
         /\ Drop(s, n) \in Seq(S) /\ Len(Drop(s, n)) = Len(s) - n
         /\ \A i \in 1 .. Len(s) - n : Drop(s, n)[i] = s[i]
  BY DropProperties
<1>2. 1 \in Nat /\ 1 <= Len(s) BY LenProperties
<1> QED BY <1>1, <1>2, Zenon

LEMMA AppendSeq ==
    ASSUME NEW s, IsSeq(s), NEW e
    PROVE  /\ IsSeq(Append(s, e)) /\ Len(Append(s, e)) = Len(s) + 1
           /\ Append(s, e)[Len(s) + 1] = e
           /\ \A i \in 1 .. Len(s) : Append(s, e)[i] = s[i]
<1> DEFINE S == {s[i] : i \in DOMAIN s} \union {e}
<1>1. s \in Seq(S) /\ e \in S
  <2>1. s \in [1 .. Len(s) -> S] /\ Len(s) \in Nat BY IsSeqProperties DEF IsSeq
  <2> QED BY <2>1
<1> HIDE DEF S
<1>2. Append(s, e) \in Seq(S) BY <1>1, AppendIs
<1>3. /\ Len(Append(s, e)) = Len(s) + 1 /\ Append(s, e)[Len(s) + 1] = e
      /\ \A i \in 1 .. Len(s) : Append(s, e)[i] = s[i]
  BY <1>1, AppendIs
<1> QED BY <1>2, <1>3, SeqIsSeq

LEMMA SameSeq ==
    ASSUME NEW s, IsSeq(s), NEW t, IsSeq(t), Len(s) = Len(t), \A i \in 1 .. Len(s) : s[i] = t[i]
    PROVE  s = t
<1>1. Len(s) \in Nat /\ DOMAIN s = 1 .. Len(s) /\ DOMAIN t = 1 .. Len(t) BY IsSeqProperties
<1>2. \A i \in DOMAIN s : s[i] = t[i] BY <1>1
<1>3. s \in Seq({s[i] : i \in DOMAIN s}) /\ t \in Seq({t[i] : i \in DOMAIN t}) BY DEF IsSeq
<1>4. {s[i] : i \in DOMAIN s} = {t[i] : i \in DOMAIN t} BY <1>1, <1>2
<1> QED BY <1>3, <1>4, SeqEqual

(* The two parts of a concatenation.                                          *)
LEMMA ConcatParts ==
    ASSUME NEW S, NEW s \in Seq(S), NEW t \in Seq(S)
    PROVE  /\ s \o t \in Seq(S) /\ Len(s \o t) = Len(s) + Len(t)
           /\ Len(s) \in Nat /\ Len(t) \in Nat
           /\ TopN(s \o t, Len(t)) = t /\ SubSeq(s \o t, 1, Len(s)) = s
<1> DEFINE u == s \o t
           a == Len(s)
           b == Len(t)
<1>1. /\ u \in Seq(S) /\ Len(u) = a + b /\ a \in Nat /\ b \in Nat
      /\ \A i \in 1 .. a + b : u[i] = IF i <= a THEN s[i] ELSE t[i - a]
  BY ConcatProperties, LenProperties
<1> HIDE DEF u, a, b
<1>2. IsSeq(u) /\ b <= Len(u) /\ IsSeq(t)
  <2>1. b <= a + b BY <1>1
  <2> QED BY <1>1, <2>1, SeqIsSeq
<1>3. /\ IsSeq(TopN(u, b)) /\ Len(TopN(u, b)) = b
      /\ \A i \in 1 .. b : TopN(u, b)[i] = u[Len(u) - b + i]
  BY <1>1, <1>2, TopNProperties
<1>4. \A i \in 1 .. b : TopN(u, b)[i] = t[i]
  <2> SUFFICES ASSUME NEW i \in 1 .. b PROVE TopN(u, b)[i] = t[i] OBVIOUS
  <2>1. Len(u) - b + i = a + i /\ a + i \in 1 .. a + b /\ ~(a + i <= a) /\ a + i - a = i BY <1>1
  <2>2. u[a + i] = t[i] BY <1>1, <2>1
  <2>3. TopN(u, b)[i] = u[Len(u) - b + i] BY <1>3
  <2> QED BY <2>1, <2>2, <2>3
<1>5. TopN(u, b) = t BY <1>2, <1>3, <1>4, SameSeq DEF b
<1>6. \A i \in 1 .. a : u[i] \in S /\ u[i] = s[i]
  <2>1. \A i \in 1 .. a : i \in 1 .. a + b /\ i <= a BY <1>1
  <2>2. \A i \in 1 .. a : s[i] \in S BY ElementOfSeq DEF a
  <2> QED BY <1>1, <2>1, <2>2
<1>7. /\ SubSeq(u, 1, a) \in Seq(S) /\ Len(SubSeq(u, 1, a)) = a
      /\ \A i \in 1 .. a : SubSeq(u, 1, a)[i] = u[i]
  BY <1>1, <1>6, SubSeqProperties
<1>8. SubSeq(u, 1, a) = s
  <2>1. IsSeq(s) /\ IsSeq(SubSeq(u, 1, a)) BY <1>7, SeqIsSeq
  <2> QED BY <1>6, <1>7, <2>1, SameSeq DEF a
<1> QED BY <1>1, <1>5, <1>8 DEF u, a, b

-----------------------------------------------------------------------------
LEMMA LeastNatural ==
    ASSUME NEW T, T \subseteq Nat, T # {}
    PROVE  \E x \in T : \A y \in T : x <= y
<1> DEFINE R == {p \in Nat \X Nat : p[1] < p[2]}
<1>1. IsWellFoundedOn(R, Nat) BY NatLessThanWellFounded DEF OpToRel
<1>2. PICK x \in T : \A y \in T : <<y, x>> \notin R
  <2> HIDE DEF R
  <2> QED BY <1>1, WFMin
<1>3. ASSUME NEW y \in T PROVE x <= y
  <2>1. ~(y < x) BY <1>2
  <2> QED BY <2>1
<1> QED BY <1>3

(* A set of numbers that has 0, and the successor of what it has, has all.    *)
LEMMA Induction ==
    ASSUME NEW P, 0 \in P, \A n \in Nat : n \in P => n + 1 \in P
    PROVE  \A n \in Nat : n \in P
<1> DEFINE T == {n \in Nat : n \notin P}
<1>1. CASE T = {} BY <1>1
<1>2. CASE T # {}
  <2>1. T \subseteq Nat OBVIOUS
  <2> HIDE DEF T
  <2>2. PICK x \in T : \A y \in T : x <= y BY <1>2, <2>1, LeastNatural
  <2>3. x \in Nat /\ x \notin P BY DEF T
  <2>4. x - 1 \in Nat /\ x - 1 + 1 = x BY <2>3
  <2>5. x - 1 \notin T BY <2>2, <2>3
  <2>6. x - 1 \in P BY <2>4, <2>5 DEF T
  <2> QED BY <2>3, <2>4, <2>6
<1> QED BY <1>1, <1>2
=============================================================================
