------------------------------ MODULE DumpProof ------------------------------
(* What dmp_i64 and strlen write, and that dmp_i64 stays in its frame, for    *)
(* every width of a word and every string.                                    *)
EXTENDS Dump, SeqFacts, FiniteSetTheorems

-----------------------------------------------------------------------------
(* Numbers.                                                                   *)

LEMMA HalfIsPositive == Half \in Nat /\ Half >= 1
<1> DEFINE S == 1 .. Width - 1
<1>1. Width - 1 \in Nat BY WidthAssumption
<1>2. IsFiniteSet(S) /\ Cardinality(S) = Width - 1 BY <1>1, FS_Interval
<1>3. IsFiniteSet(SUBSET S) /\ Cardinality(SUBSET S) = 2 ^ (Width - 1) BY <1>2, FS_SUBSET
<1>4. Cardinality(SUBSET S) \in Nat BY <1>3, FS_CardinalityType
<1>5. Cardinality(SUBSET S) # 0
  <2>1. {} \in SUBSET S OBVIOUS
  <2> QED BY <2>1, <1>3, FS_EmptySet
<1> QED BY <1>3, <1>4, <1>5 DEF Half

(* The function that TenTo is defined by exists: what it is up to each number *)
(* exists, and is the same wherever two of these meet.                        *)
LEMMA TenToIs ==
    /\ TenTo[0] = 1
    /\ \A n \in Nat : TenTo[n] \in Nat /\ TenTo[n] >= 1 /\ TenTo[n + 1] = 10 * TenTo[n]
<1> DEFINE Next10(f) == [n \in Nat |-> IF n = 0 THEN 1 ELSE 10 * f[n - 1]]
           Upto(n) == {f \in [0 .. n -> Nat] :
                         f[0] = 1 /\ \A m \in 0 .. n - 1 : f[m + 1] = 10 * f[m]}
<1>1. ASSUME NEW n \in Nat, Upto(n) # {} PROVE Upto(n + 1) # {}
  <2>1. PICK f : f \in Upto(n) BY <1>1
  <2> DEFINE g == [m \in 0 .. n + 1 |-> IF m = n + 1 THEN 10 * f[n] ELSE f[m]]
  <2>2. f \in [0 .. n -> Nat] /\ f[0] = 1 /\ \A m \in 0 .. n - 1 : f[m + 1] = 10 * f[m] BY <2>1
  <2>3. g \in [0 .. n + 1 -> Nat] /\ g[0] = 1 BY <2>2
  <2>4. \A m \in 0 .. n : g[m + 1] = 10 * g[m] BY <2>2
  <2> HIDE DEF g
  <2>5. \A m \in 0 .. (n + 1) - 1 : g[m + 1] = 10 * g[m]
    <3>1. (n + 1) - 1 = n OBVIOUS
    <3> QED BY <2>4, <3>1
  <2>6. g \in Upto(n + 1) BY <2>3, <2>5
  <2> QED BY <2>6
<1>2. \A n \in Nat : Upto(n) # {}
  <2> DEFINE P == {n \in Nat : Upto(n) # {}}
  <2>1. [m \in 0 .. 0 |-> 1] \in Upto(0) OBVIOUS
  <2> HIDE DEF Upto
  <2>2. 0 \in P BY <2>1
  <2>3. \A n \in Nat : n \in P => n + 1 \in P BY <1>1
  <2>4. \A n \in Nat : n \in P
    <3> HIDE DEF P
    <3> QED BY <2>2, <2>3, Induction
  <2> QED BY <2>4
<1>3. ASSUME NEW a \in Nat, NEW b \in Nat, a <= b, NEW f \in Upto(a), NEW g \in Upto(b)
      PROVE  \A n \in 0 .. a : f[n] = g[n]
  <2> DEFINE P == {n \in Nat : n <= a => f[n] = g[n]}
  <2>1. 0 \in P OBVIOUS
  <2>2. ASSUME NEW n \in Nat, n \in P PROVE n + 1 \in P
    <3>1. CASE ~(n + 1 <= a) BY <3>1
    <3>2. CASE n + 1 <= a
      <4>1. n \in 0 .. a - 1 /\ n \in 0 .. b - 1 BY <3>2, <1>3
      <4>2. f[n + 1] = 10 * f[n] /\ g[n + 1] = 10 * g[n] BY <4>1
      <4>3. f[n] = g[n] BY <2>2, <3>2
      <4> QED BY <4>2, <4>3
    <3> QED BY <3>1, <3>2
  <2>3. \A n \in Nat : n \in P
    <3> HIDE DEF P
    <3> QED BY <2>1, <2>2, Induction
  <2> QED BY <2>3
<1> DEFINE One(n) == CHOOSE f : f \in Upto(n)
           h == [n \in Nat |-> One(n)[n]]
<1>4. ASSUME NEW n \in Nat
      PROVE  h[n] \in Nat /\ h[n + 1] = 10 * h[n] /\ (n = 0 => h[n] = 1)
  <2>1. One(n) \in Upto(n) /\ One(n + 1) \in Upto(n + 1)
    <3> HIDE DEF Upto
    <3> QED BY <1>2
  <2> HIDE DEF One
  <2>2. h[n] = One(n)[n] /\ h[n + 1] = One(n + 1)[n + 1] OBVIOUS
  <2> HIDE DEF h
  <2>3. One(n)[n] \in Nat /\ (n = 0 => One(n)[n] = 1) BY <2>1
  <2>4. One(n + 1)[n + 1] = 10 * One(n + 1)[n] BY <2>1
  <2>5. One(n)[n] = One(n + 1)[n]
    <3> HIDE DEF Upto
    <3> QED BY <2>1, <1>3
  <2> QED BY <2>2, <2>3, <2>4, <2>5
<1>5. h = Next10(h)
  <2>1. \A n \in Nat : h[n] = IF n = 0 THEN 1 ELSE 10 * h[n - 1]
    <3> HIDE DEF h, Upto
    <3>1. ASSUME NEW n \in Nat, n # 0 PROVE h[n] = 10 * h[n - 1]
      <4>1. n - 1 \in Nat /\ n - 1 + 1 = n BY <3>1
      <4> QED BY <4>1, <1>4
    <3> QED BY <3>1, <1>4
  <2>2. h = [n \in Nat |-> h[n]] OBVIOUS
  <2> HIDE DEF h
  <2> QED BY <2>1, <2>2
<1>6. TenTo = Next10(TenTo)
  <2>1. TenTo = CHOOSE f : f = Next10(f) BY DEF TenTo
  <2> HIDE DEF Next10, h
  <2> QED BY <1>5, <2>1
<1>7. TenTo[0] = 1 /\ \A n \in Nat : TenTo[n + 1] = 10 * TenTo[n] BY <1>6
<1> DEFINE P == {n \in Nat : TenTo[n] \in Nat /\ TenTo[n] >= 1}
<1>8. 0 \in P /\ \A n \in Nat : n \in P => n + 1 \in P BY <1>7
<1>9. \A n \in Nat : n \in P
  <2> HIDE DEF P
  <2> QED BY <1>8, Induction
<1> QED BY <1>7, <1>9

LEMMA TenToGrows ==
    ASSUME NEW m \in Nat, NEW n \in Nat, TenTo[m] < TenTo[n] PROVE m < n
<1> DEFINE P == {k \in Nat : TenTo[n] <= TenTo[n + k]}
<1>1. 0 \in P BY TenToIs
<1>2. ASSUME NEW k \in Nat, k \in P PROVE k + 1 \in P
  <2>1. n + k \in Nat /\ n + k + 1 = n + (k + 1) OBVIOUS
  <2>2. TenTo[n + k + 1] = 10 * TenTo[n + k] /\ TenTo[n + k] \in Nat /\ TenTo[n] \in Nat
    BY <2>1, TenToIs
  <2> QED BY <1>2, <2>1, <2>2
<1>3. \A k \in Nat : k \in P
  <2> HIDE DEF P
  <2> QED BY <1>1, <1>2, Induction
<1>4. ASSUME n <= m PROVE FALSE
  <2>1. m - n \in Nat /\ n + (m - n) = m BY <1>4
  <2>2. m - n \in P
    <3> HIDE DEF P
    <3> QED BY <2>1, <1>3
  <2>3. TenTo[n] <= TenTo[m] BY <2>1, <2>2
  <2> QED BY <2>3, TenToIs
<1> QED BY <1>4

LEMMA NarrowedIs ==
    ASSUME NEW x \in SignedWord, x < 0
    PROVE  Narrowed(0 - x) = IF x = Least THEN Least ELSE -x
<1>1. Half \in Nat /\ Half >= 1 BY HalfIsPositive
<1>2. CASE x = Least
  <2>1. (0 - x) + Half = 2 * Half BY <1>1, <1>2 DEF Least
  <2>2. (2 * Half) % (2 * Half) = 0 BY <1>1
  <2> QED BY <1>1, <1>2, <2>1, <2>2 DEF Narrowed, Least
<1>3. CASE x # Least
  <2>1. (0 - x) + Half \in 0 .. 2 * Half - 1 BY <1>1, <1>3 DEF Least, SignedWord
  <2>2. ((0 - x) + Half) % (2 * Half) = (0 - x) + Half BY <1>1, <2>1
  <2> QED BY <1>1, <1>3, <2>2 DEF Narrowed, SignedWord
<1> QED BY <1>2, <1>3

-----------------------------------------------------------------------------
(* Digits.  b has in its first n places the n last digits of x, the last one  *)
(* first; q has what is left of x as each is taken off.                       *)
Produces(b, q, x, n) ==
    /\ q \in [0 .. n -> Nat] /\ q[0] = x
    /\ \A m \in 0 .. n - 1 :
          b[m] = DIGIT + (q[m] % 10) /\ q[m + 1] = q[m] \div 10 /\ (x # 0 => q[m] > 0)
(* b has all n digits of x, the last one first.                               *)
Numeral(b, x, n) ==
    /\ n \in Nat \ {0} /\ (x = 0 => n = 1)
    /\ \E q : Produces(b, q, x, n) /\ q[n] = 0
(* The first n places of b are what is to be written for x, the last first.   *)
Upward(b, x, n) ==
    IF x < 0
    THEN /\ n \in Nat \ {0} /\ b[n - 1] = MINUS
         /\ IF x = Least THEN n = 1 ELSE Numeral(b, -x, n - 1)
    ELSE Numeral(b, x, n)

(* They say nothing of the other places of b.                                 *)
LEMMA ProducesSame ==
    ASSUME NEW b, NEW c, NEW q, NEW x, NEW n \in Nat,
           \A m \in 0 .. n - 1 : c[m] = b[m], Produces(b, q, x, n)
    PROVE  Produces(c, q, x, n)
BY DEF Produces

LEMMA NumeralSame ==
    ASSUME NEW b, NEW c, NEW x, NEW n,
           \A m \in 0 .. n - 1 : c[m] = b[m], Numeral(b, x, n)
    PROVE  Numeral(c, x, n)
<1>1. n \in Nat BY DEF Numeral
<1> QED BY <1>1, ProducesSame DEF Numeral

LEMMA UpwardSame ==
    ASSUME NEW b, NEW c, NEW x \in Int, NEW n,
           \A m \in 0 .. n - 1 : c[m] = b[m], Upward(b, x, n)
    PROVE  Upward(c, x, n)
<1>1. CASE x < 0
  <2>1. n \in Nat \ {0} /\ b[n - 1] = MINUS BY <1>1 DEF Upward
  <2>2. c[n - 1] = MINUS BY <2>1
  <2>3. CASE x = Least BY <1>1, <2>1, <2>2, <2>3 DEF Upward
  <2>4. CASE x # Least
    <3>1. Numeral(b, -x, n - 1) BY <1>1, <2>4 DEF Upward
    <3>2. \A m \in 0 .. (n - 1) - 1 : c[m] = b[m] BY <2>1
    <3>3. Numeral(c, -x, n - 1) BY <3>1, <3>2, NumeralSame
    <3> QED BY <1>1, <2>1, <2>2, <2>4, <3>3 DEF Upward
  <2> QED BY <2>3, <2>4
<1>2. CASE ~(x < 0) BY <1>2, NumeralSame DEF Upward
<1> QED BY <1>1, <1>2

(* One more digit.                                                            *)
LEMMA OneMoreDigit ==
    ASSUME NEW b, NEW c, NEW q, NEW x, NEW n \in Nat, Produces(b, q, x, n), q[n] > 0,
           \A m \in 0 .. n - 1 : c[m] = b[m], c[n] = DIGIT + (q[n] % 10)
    PROVE  \E r : Produces(c, r, x, n + 1) /\ r[n + 1] = q[n] \div 10
<1> DEFINE r == [m \in 0 .. n + 1 |-> IF m = n + 1 THEN q[n] \div 10 ELSE q[m]]
<1>1. q \in [0 .. n -> Nat] /\ q[0] = x BY DEF Produces
<1>2. q[n] \in Nat /\ q[n] \div 10 \in Nat BY <1>1
<1>3. r \in [0 .. n + 1 -> Nat] /\ r[0] = x /\ r[n + 1] = q[n] \div 10 /\ \A m \in 0 .. n : r[m] = q[m]
  BY <1>1, <1>2
<1> HIDE DEF r
<1>4. ASSUME NEW m \in 0 .. (n + 1) - 1
      PROVE  c[m] = DIGIT + (r[m] % 10) /\ r[m + 1] = r[m] \div 10 /\ (x # 0 => r[m] > 0)
  <2>1. CASE m = n BY <1>3, <2>1
  <2>2. CASE m # n
    <3>1. m \in 0 .. n - 1 /\ m \in 0 .. n /\ m + 1 \in 0 .. n BY <2>2
    <3>2. b[m] = DIGIT + (q[m] % 10) /\ q[m + 1] = q[m] \div 10 /\ (x # 0 => q[m] > 0)
      BY <3>1 DEF Produces
    <3> QED BY <1>3, <3>1, <3>2
  <2> QED BY <2>1, <2>2
<1>5. Produces(c, r, x, n + 1) BY <1>3, <1>4 DEF Produces
<1> QED BY <1>3, <1>5

(* A number has no more digits than the frame has room for.                   *)
LEMMA DigitsFit ==
    ASSUME NEW b, NEW q, NEW x \in 1 .. Half - 1, NEW n \in Nat, Produces(b, q, x, n)
    PROVE  n <= ROOM - 2
<1>1. q \in [0 .. n -> Nat] /\ q[0] = x BY DEF Produces
<1> DEFINE P == {m \in Nat : m <= n => q[m] * TenTo[m] <= x}
<1>2. 0 \in P
  <2>1. x \in Nat BY HalfIsPositive
  <2>2. q[0] * TenTo[0] = x BY <1>1, <2>1, TenToIs
  <2> QED BY <2>1, <2>2
<1>3. ASSUME NEW m \in Nat, m \in P PROVE m + 1 \in P
  <2>1. CASE m + 1 <= n
    <3>1. m \in 0 .. n - 1 /\ q[m] \in Nat /\ q[m + 1] \in Nat BY <1>1, <2>1
    <3>2. q[m + 1] = q[m] \div 10 BY <3>1 DEF Produces
    <3>3. q[m + 1] * 10 <= q[m] BY <3>1, <3>2
    <3>4. TenTo[m] \in Nat /\ TenTo[m + 1] = 10 * TenTo[m] BY TenToIs
    <3>5. \A u, v, w \in Nat : u <= v => u * w <= v * w OBVIOUS
    <3>6. q[m + 1] * 10 \in Nat BY <3>1
    <3>7. (q[m + 1] * 10) * TenTo[m] <= q[m] * TenTo[m] BY <3>1, <3>3, <3>4, <3>5, <3>6
    <3>8. q[m + 1] * TenTo[m + 1] = (q[m + 1] * 10) * TenTo[m] BY <3>1, <3>4
    <3>9. q[m] * TenTo[m] <= x BY <1>3, <3>1
    <3>10. q[m] * TenTo[m] \in Nat /\ q[m + 1] * TenTo[m + 1] \in Nat BY <3>1, <3>4
    <3> QED BY <3>7, <3>8, <3>9, <3>10
  <2>2. CASE ~(m + 1 <= n) BY <2>2
  <2> QED BY <2>1, <2>2
<1>4. \A m \in Nat : m \in P
  <2> HIDE DEF P
  <2> QED BY <1>2, <1>3, Induction
<1>5. ROOM \in Nat /\ ROOM >= 2 /\ TenTo[ROOM - 2] >= Half BY DumpAssumption
<1>6. CASE n = 0 BY <1>5, <1>6
<1>7. CASE n # 0
  <2>1. n - 1 \in 0 .. n - 1 /\ n - 1 \in Nat BY <1>7
  <2>2. q[n - 1] \in Nat /\ q[n - 1] > 0 BY <1>1, <2>1 DEF Produces
  <2>3. n - 1 \in P BY <1>4, <2>1
  <2>4. q[n - 1] * TenTo[n - 1] <= x BY <2>1, <2>3
  <2>5. TenTo[n - 1] \in Nat BY <2>1, TenToIs
  <2>6. \A u, v \in Nat : u > 0 => v <= u * v OBVIOUS
  <2>7. TenTo[n - 1] <= x BY <2>2, <2>4, <2>5, <2>6
  <2>8. TenTo[n - 1] < TenTo[ROOM - 2] /\ ROOM - 2 \in Nat
    BY <1>5, <2>5, <2>7, HalfIsPositive, TenToIs
  <2>9. n - 1 < ROOM - 2 BY <2>1, <2>8, TenToGrows
  <2> QED BY <1>5, <2>9
<1> QED BY <1>6, <1>7

LEMMA NumeralFits ==
    ASSUME NEW b, NEW x \in 0 .. Half - 1, NEW n, Numeral(b, x, n)
    PROVE  n \in Nat \ {0} /\ n <= ROOM - 1 /\ (x # 0 => n <= ROOM - 2)
<1>1. n \in Nat \ {0} /\ \E q : Produces(b, q, x, n) BY DEF Numeral
<1>2. ROOM \in Nat /\ ROOM >= 2 BY DumpAssumption
<1>3. CASE x = 0 BY <1>1, <1>2, <1>3 DEF Numeral
<1>4. CASE x # 0
  <2>1. x \in 1 .. Half - 1 BY <1>4, HalfIsPositive
  <2> QED BY <1>1, <1>2, <2>1, DigitsFit
<1> QED BY <1>3, <1>4

LEMMA UpwardFits ==
    ASSUME NEW b, NEW x \in SignedWord, NEW n, Upward(b, x, n)
    PROVE  n \in Nat \ {0} /\ n <= ROOM - 1
<1>1. Half \in Nat /\ x \in Int BY HalfIsPositive DEF SignedWord
<1>2. ROOM \in Nat /\ ROOM >= 2 BY DumpAssumption
<1>3. CASE x < 0 /\ x = Least BY <1>2, <1>3 DEF Upward
<1>4. CASE x < 0 /\ x # Least
  <2>1. -x \in 0 .. Half - 1 /\ -x # 0 BY <1>1, <1>4 DEF SignedWord, Least
  <2>2. n \in Nat \ {0} /\ Numeral(b, -x, n - 1) BY <1>4 DEF Upward
  <2>3. n - 1 <= ROOM - 2 BY <2>1, <2>2, NumeralFits
  <2> QED BY <1>2, <2>2, <2>3
<1>5. CASE ~(x < 0)
  <2>1. x \in 0 .. Half - 1 BY <1>1, <1>5 DEF SignedWord
  <2> QED BY <1>5, <2>1, NumeralFits DEF Upward
<1> QED BY <1>3, <1>4, <1>5

-----------------------------------------------------------------------------
(* What the digits read as, from the first place to the last.                 *)

(* s is what the first n places of b are, read from the last to the first.    *)
ReadDown(s, b, n) == s \in Seq(Int) /\ Len(s) = n /\ \A k \in 1 .. n : s[k] = b[n - k]

LEMMA LastDigit == \A y \in Nat : y % 10 \in 0 .. 9 /\ y = 10 * (y \div 10) + (y % 10)
OBVIOUS

(* upTo of ValueOf exists: what is left of x, taken from the end.             *)
LEMMA NumeralReads ==
    ASSUME NEW b, NEW x \in Nat, NEW n, Numeral(b, x, n),
           NEW s, ReadDown(s, b, n)
    PROVE  IsNumeral(s) /\ ValueOf(s) = x
<1> s \in Seq(Int) /\ Len(s) = n /\ \A k \in 1 .. n : s[k] = b[n - k] BY DEF ReadDown
<1>1. PICK q : Produces(b, q, x, n) /\ q[n] = 0 BY DEF Numeral
<1>2. n \in Nat \ {0} /\ (x = 0 => n = 1) BY DEF Numeral
<1>3. q \in [0 .. n -> Nat] /\ q[0] = x BY <1>1 DEF Produces
<1>4. ASSUME NEW k \in 1 .. n
      PROVE  /\ n - k \in 0 .. n - 1 /\ q[n - k] \in Nat /\ s[k] = DIGIT + (q[n - k] % 10)
             /\ q[n - k + 1] = q[n - k] \div 10 /\ (x # 0 => q[n - k] > 0)
  <2>1. n - k \in 0 .. n - 1 BY <1>2
  <2>2. q[n - k] \in Nat BY <1>2, <1>3, <2>1
  <2>3. /\ b[n - k] = DIGIT + (q[n - k] % 10)
        /\ q[n - k + 1] = q[n - k] \div 10 /\ (x # 0 => q[n - k] > 0)
    BY <1>1, <2>1 DEF Produces
  <2> QED BY <2>1, <2>2, <2>3
<1>5. IsNumeral(s)
  <2>1. s # <<>> BY <1>2
  <2>2. ASSUME NEW k \in 1 .. n PROVE s[k] \in DIGIT .. DIGIT + 9
    <3> DEFINE d == q[n - k] % 10
    <3>1. q[n - k] \in Nat /\ s[k] = DIGIT + d BY <1>4
    <3>2. d \in 0 .. 9 BY <3>1, LastDigit
    <3> HIDE DEF d
    <3> QED BY <3>1, <3>2 DEF DIGIT
  <2>3. ASSUME s[1] = DIGIT, n # 1 PROVE FALSE
    <3>1. 1 \in 1 .. n BY <1>2
    <3>2. /\ q[n - 1] \in Nat /\ s[1] = DIGIT + (q[n - 1] % 10)
          /\ q[n - 1 + 1] = q[n - 1] \div 10 /\ (x # 0 => q[n - 1] > 0)
      BY <1>4, <3>1
    <3>3. q[n - 1] > 0 BY <1>2, <2>3, <3>2
    <3>4. n - 1 + 1 = n BY <1>2
    <3>5. q[n - 1] \div 10 = 0 BY <1>1, <3>2, <3>4
    <3>6. q[n - 1] % 10 = 0 BY <2>3, <3>2 DEF DIGIT
    <3> QED BY <3>2, <3>3, <3>5, <3>6
  <2> QED BY <2>1, <2>2, <2>3 DEF IsNumeral
<1> DEFINE Horner(f) ==
               [k \in 0 .. Len(s) |-> IF k = 0 THEN 0 ELSE 10 * f[k - 1] + (s[k] - DIGIT)]
           w == [k \in 0 .. Len(s) |-> q[n - k]]
           v == CHOOSE f : f = Horner(f)
<1>6. w = Horner(w)
  <2>1. ASSUME NEW k \in 0 .. Len(s)
        PROVE  w[k] = IF k = 0 THEN 0 ELSE 10 * w[k - 1] + (s[k] - DIGIT)
    <3>1. CASE k = 0 BY <1>1, <1>2, <3>1
    <3>2. CASE k # 0
      <4>1. k \in 1 .. n /\ k - 1 \in 0 .. Len(s) BY <1>2, <3>2
      <4>2. w[k] = q[n - k] /\ w[k - 1] = q[n - (k - 1)] BY <4>1
      <4>3. n - (k - 1) = n - k + 1 BY <1>2, <4>1
      <4>4. w[k - 1] = q[n - k] \div 10 BY <1>4, <4>1, <4>2, <4>3
      <4>5. q[n - k] \in Nat /\ s[k] = DIGIT + (q[n - k] % 10) BY <1>4, <4>1
      <4>6. s[k] - DIGIT = q[n - k] % 10 BY <4>5 DEF DIGIT
      <4>7. q[n - k] = 10 * (q[n - k] \div 10) + (q[n - k] % 10) BY <4>5
      <4> HIDE DEF w
      <4> QED BY <3>2, <4>2, <4>4, <4>6, <4>7
    <3> QED BY <3>1, <3>2
  <2>2. w = [k \in 0 .. Len(s) |-> w[k]] OBVIOUS
  <2> HIDE DEF w
  <2> QED BY <2>1, <2>2
<1>7. v = Horner(v)
  <2> HIDE DEF Horner, w
  <2> QED BY <1>6
<1>8. ValueOf(s) = v[Len(s)] BY DEF ValueOf
<1> HIDE DEF v
<1> DEFINE P == {k \in Nat : k <= n => v[k] = w[k]}
<1>9. 0 \in P
  <2>1. 0 \in 0 .. Len(s) BY <1>2
  <2>2. v[0] = 0 BY <1>7, <2>1
  <2>3. w[0] = 0 BY <1>6, <2>1
  <2> QED BY <2>2, <2>3
<1>10. ASSUME NEW k \in Nat, k \in P PROVE k + 1 \in P
  <2>1. CASE ~(k + 1 <= n) BY <2>1
  <2>2. CASE k + 1 <= n
    <3>1. k + 1 \in 0 .. Len(s) /\ k + 1 # 0 /\ k + 1 - 1 = k BY <1>2, <2>2
    <3> HIDE DEF w
    <3>2. v[k + 1] = 10 * v[k] + (s[k + 1] - DIGIT) BY <1>7, <3>1
    <3>3. w[k + 1] = 10 * w[k] + (s[k + 1] - DIGIT) BY <1>6, <3>1
    <3>4. v[k] = w[k] BY <1>10, <2>2
    <3> QED BY <3>2, <3>3, <3>4
  <2> QED BY <2>1, <2>2
<1>11. \A k \in Nat : k \in P
  <2> HIDE DEF P
  <2> QED BY <1>9, <1>10, Induction
<1>12. v[n] = w[n]
  <2>1. n \in P
    <3> HIDE DEF P
    <3> QED BY <1>2, <1>11
  <2> HIDE DEF w
  <2> QED BY <1>2, <2>1
<1>13. w[n] = q[n - n] BY <1>2
<1>14. ValueOf(s) = x BY <1>2, <1>3, <1>8, <1>12, <1>13
<1> QED BY <1>5, <1>14

-----------------------------------------------------------------------------
(* The invariant: at each label, how much of the text is in the buffer.       *)

Start(x) == IF x < 0 THEN Narrowed(0 - x) ELSE x
Holds(n) == DOMAIN buffer = 0 .. n - 1

(* From both ends up to i and j the text is turned round, between them not.   *)
Turning(b) ==
    /\ i \in Nat /\ j \in Int /\ i + j = len - 1 /\ i <= j + 1
    /\ \A m \in 0 .. len - 1 : buffer[m] = IF m < i \/ m > j THEN b[len - 1 - m] ELSE b[m]
Turned(b, n) == \A m \in 0 .. n - 1 : buffer[m] = b[n - 1 - m]
WithNewline ==
    /\ len \in Nat \ {0} /\ Holds(len) /\ buffer[len - 1] = NEWLINE
    /\ \E b : Upward(b, top, len - 1) /\ Turned(b, len - 1)

AtLabel ==
    /\ at = "dmp_i64" => buffer = <<>> /\ len = 0
    /\ at = ".LBB0_2" =>
          buffer = <<>> /\ len = 0 /\ number = Start(top) /\ negative = (top < 0)
    /\ at = ".LBB0_5" =>
          /\ negative = (top < 0) /\ top # 0 /\ len \in Nat /\ Holds(len)
          /\ IF top = Least THEN len = 0 /\ number = Least
             ELSE \E q : Produces(buffer, q, Start(top), len) /\ q[len] = number
    /\ at = ".LBB0_8" =>
          /\ negative = (top < 0) /\ len \in Nat /\ Holds(len)
          /\ IF top = Least THEN len = 0 ELSE Numeral(buffer, Start(top), len)
    /\ at = ".LBB0_10" => Holds(len) /\ Upward(buffer, top, len)
    /\ at = ".LBB0_11" => Holds(len + 1) /\ \E b : Upward(b, top, len) /\ Turning(b)
    /\ at = ".LBB0_13" => Holds(len + 1) /\ \E b : Upward(b, top, len) /\ Turned(b, len)
    /\ at \in {".write", "ret"} => WithNewline
    /\ at = "ret" => written = [k \in 1 .. len |-> buffer[k - 1]]
IntLabels == {"dmp_i64", ".LBB0_2", ".LBB0_5", ".LBB0_8", ".LBB0_10", ".LBB0_11", ".LBB0_13",
              ".write", "ret"}
OfInt == top \in SignedWord /\ at \in IntLabels /\ AtLabel

OfString ==
    /\ top \in Strings /\ at \in {".loop", ".done", "ret"} /\ buffer = <<>>
    /\ rax \in Nat /\ rax < Len(top) /\ \A l \in 1 .. rax : top[l] # 0
    /\ at # ".loop" => top[rax + 1] = 0
    /\ at = "ret" => written = SubSeq(top, 1, rax)

Dumps == (kind = "int" /\ OfInt) \/ (kind = "string" /\ OfString)

-----------------------------------------------------------------------------
LEMMA StartIs ==
    ASSUME NEW x \in SignedWord
    PROVE  /\ x \in Int /\ Half \in Nat /\ Half >= 1 /\ x >= Least /\ Least = -Half /\ x < Half
           /\ Start(x) = IF x = Least THEN Least ELSE IF x < 0 THEN -x ELSE x
           /\ x # Least => Start(x) \in 0 .. Half - 1
<1>1. Half \in Nat /\ Half >= 1 BY HalfIsPositive
<1>2. x \in Int /\ x >= -Half /\ x < Half /\ Least = -Half BY <1>1 DEF SignedWord, Least
<1>3. CASE x < 0 BY <1>1, <1>2, <1>3, NarrowedIs DEF Start
<1>4. CASE ~(x < 0) BY <1>1, <1>2, <1>4 DEF Start
<1> QED BY <1>1, <1>2, <1>3, <1>4

LEMMA PutIs ==
    ASSUME NEW b, NEW c, NEW n \in Nat, NEW byte,
           c = [m \in DOMAIN b \union {n} |-> IF m = n THEN byte ELSE b[m]],
           DOMAIN b = 0 .. n - 1 \/ DOMAIN b = 0 .. n
    PROVE  DOMAIN c = 0 .. n /\ c[n] = byte /\ \A m \in 0 .. n - 1 : c[m] = b[m]
<1>1. DOMAIN b \union {n} = 0 .. n OBVIOUS
<1> QED BY <1>1

LEMMA Empty == buffer = <<>> => Holds(0)
<1>1. DOMAIN <<>> = 0 .. 0 - 1 OBVIOUS
<1> QED BY <1>1 DEF Holds

-----------------------------------------------------------------------------
(* Each block takes what holds at its label to what holds at the next.        *)

LEMMA DumpsInit == Init => Dumps
<1> SUFFICES ASSUME Init PROVE Dumps OBVIOUS
<1>1. CASE kind = "int" /\ top \in SignedWord /\ at = "dmp_i64"
  BY <1>1 DEF Init, Dumps, OfInt, AtLabel, IntLabels
<1>2. CASE kind = "string" /\ top \in Strings /\ at = ".loop"
  <2>1. top \in Seq(Nat) /\ \E k \in DOMAIN top : top[k] = 0 BY <1>2, DumpAssumption
  <2>2. Len(top) \in Nat /\ Len(top) # 0 BY <2>1
  <2> QED BY <1>2, <2>2 DEF Init, Dumps, OfString
<1> QED BY <1>1, <1>2 DEF Init

LEMMA EnterDumps == Dumps /\ Enter => Dumps'
<1> SUFFICES ASSUME Dumps, Enter PROVE Dumps' OBVIOUS
<1>1. kind = "int" /\ OfInt /\ at = "dmp_i64" BY DEF Dumps, OfString, Enter
<1>2. buffer = <<>> /\ len = 0 BY <1>1 DEF OfInt, AtLabel
<1>3. /\ at' = ".LBB0_2" /\ kind' = kind /\ top' = top /\ buffer' = buffer /\ len' = len
      /\ number' = Start(top) /\ negative' = (top < 0)
  BY DEF Enter, Goto, Start
<1> QED BY <1>1, <1>2, <1>3 DEF Dumps, OfInt, AtLabel, IntLabels, Start

LEMMA ZeroDumps == Dumps /\ Zero => Dumps'
<1> SUFFICES ASSUME Dumps, Zero PROVE Dumps' OBVIOUS
<1>1. kind = "int" /\ OfInt /\ at = ".LBB0_2" BY DEF Dumps, OfString, Zero
<1>2. buffer = <<>> /\ len = 0 /\ number = Start(top) /\ negative = (top < 0) /\ top \in SignedWord
  BY <1>1 DEF OfInt, AtLabel
<1>3. number' = number /\ negative' = negative /\ kind' = kind /\ top' = top BY DEF Zero, Goto
<1>4. CASE number = 0
  <2>1. at' = ".LBB0_8" /\ Put(0, DIGIT) /\ len' = 1 BY <1>2, <1>4 DEF Zero, Goto, Appends
  <2>2. DOMAIN buffer' = 0 .. 0 /\ buffer'[0] = DIGIT
    <3>1. DOMAIN buffer = 0 .. 0 - 1 BY <1>2
    <3> QED BY <2>1, <3>1, PutIs DEF Put
  <2>3. top = 0 /\ top # Least /\ Start(top) = 0
    <3>1. Start(top) = 0 BY <1>2, <1>4
    <3>2. Least < 0 BY <1>2, StartIs
    <3>3. top # Least BY <1>2, <3>1, <3>2, StartIs
    <3>4. top = 0 BY <1>2, <3>1, <3>3, StartIs
    <3> QED BY <3>1, <3>3, <3>4
  <2> DEFINE q == [m \in 0 .. 1 |-> 0]
  <2>4. Produces(buffer', q, 0, 1) /\ q[1] = 0
    <3>1. 0 % 10 = 0 /\ 0 \div 10 = 0 /\ DIGIT + 0 = DIGIT BY DEF DIGIT
    <3>2. q \in [0 .. 1 -> Nat] /\ q[0] = 0 /\ q[1] = 0 OBVIOUS
    <3> HIDE DEF q
    <3>3. \A m \in 0 .. 1 - 1 : m = 0 OBVIOUS
    <3> QED BY <2>2, <3>1, <3>2, <3>3 DEF Produces
  <2>5. Numeral(buffer', 0, 1)
    <3> HIDE DEF q
    <3> QED BY <2>4 DEF Numeral
  <2>6. Numeral(buffer, Start(top), len)' BY <1>3, <2>1, <2>3, <2>5
  <2>7. Holds(len)'
    <3>1. 1 - 1 = 0 OBVIOUS
    <3> QED BY <2>1, <2>2, <3>1 DEF Holds
  <2>8. AtLabel' BY <1>2, <1>3, <2>1, <2>3, <2>6, <2>7 DEF AtLabel
  <2> QED BY <1>1, <1>2, <1>3, <2>1, <2>8 DEF Dumps, OfInt, IntLabels
<1>5. CASE number # 0
  <2>1. at' = ".LBB0_5" /\ buffer' = buffer /\ len' = len BY <1>5 DEF Zero, Goto
  <2>2. top # 0 BY <1>2, <1>5 DEF Start
  <2>3. Holds(len)' BY <1>2, <2>1, Empty DEF Holds
  <2>4. CASE top = Least
    <3>1. number = Least BY <1>2, <2>4, StartIs
    <3>2. AtLabel' BY <1>2, <1>3, <2>1, <2>2, <2>3, <2>4, <3>1 DEF AtLabel
    <3> QED BY <1>1, <1>2, <1>3, <2>1, <3>2 DEF Dumps, OfInt, IntLabels
  <2>5. CASE top # Least
    <3> DEFINE q == [m \in 0 .. 0 |-> number]
    <3>1. number \in Nat BY <1>2, <2>5, StartIs
    <3>2. q \in [0 .. 0 -> Nat] /\ q[0] = number BY <3>1
    <3> HIDE DEF q
    <3>3. Produces(buffer', q, number, 0) BY <3>2 DEF Produces
    <3>4. (\E r : Produces(buffer, r, Start(top), len) /\ r[len] = number)'
      BY <1>2, <1>3, <2>1, <3>2, <3>3
    <3>5. AtLabel' BY <1>2, <1>3, <2>1, <2>2, <2>3, <2>5, <3>4 DEF AtLabel
    <3> QED BY <1>1, <1>2, <1>3, <2>1, <3>5 DEF Dumps, OfInt, IntLabels
  <2> QED BY <2>4, <2>5
<1> QED BY <1>4, <1>5

LEMMA NextDigitDumps == Dumps /\ NextDigit => Dumps'
<1> SUFFICES ASSUME Dumps, NextDigit PROVE Dumps' OBVIOUS
<1>1. kind = "int" /\ OfInt /\ at = ".LBB0_5" BY DEF Dumps, OfString, NextDigit
<1>2. /\ negative = (top < 0) /\ top # 0 /\ len \in Nat /\ Holds(len) /\ top \in SignedWord
      /\ IF top = Least THEN len = 0 /\ number = Least
         ELSE \E q : Produces(buffer, q, Start(top), len) /\ q[len] = number
  BY <1>1 DEF OfInt, AtLabel
<1>3. negative' = negative /\ kind' = kind /\ top' = top BY DEF NextDigit, Goto
<1>4. CASE ~MoreDigits
  <2>1. at' = ".LBB0_8" /\ buffer' = buffer /\ len' = len BY <1>4 DEF NextDigit, Goto
  <2>2. Holds(len)' BY <1>2, <2>1 DEF Holds
  <2>3. CASE top = Least
    <3>1. AtLabel' BY <1>2, <1>3, <2>1, <2>2, <2>3 DEF AtLabel
    <3> QED BY <1>1, <1>2, <1>3, <2>1, <3>1 DEF Dumps, OfInt, IntLabels
  <2>4. CASE top # Least
    <3>1. PICK q : Produces(buffer, q, Start(top), len) /\ q[len] = number BY <1>2, <2>4
    <3>2. q \in [0 .. len -> Nat] /\ q[0] = Start(top) BY <3>1 DEF Produces
    <3>3. number \in Nat BY <1>2, <3>1, <3>2
    <3>4. q[len] = 0 BY <1>4, <3>1, <3>3 DEF MoreDigits
    <3>5. Start(top) # 0 BY <1>2, <2>4, StartIs
    <3>6. len # 0 BY <3>2, <3>4, <3>5
    <3>7. Numeral(buffer, Start(top), len) BY <1>2, <3>1, <3>4, <3>5, <3>6 DEF Numeral
    <3>8. AtLabel' BY <1>2, <1>3, <2>1, <2>2, <2>4, <3>7 DEF AtLabel
    <3> QED BY <1>1, <1>2, <1>3, <2>1, <3>8 DEF Dumps, OfInt, IntLabels
  <2> QED BY <2>3, <2>4
<1>5. CASE MoreDigits
  <2>1. /\ at' = ".LBB0_5" /\ Put(len, DIGIT + (number % 10)) /\ len' = len + 1
        /\ number' = number \div 10
    BY <1>5 DEF NextDigit, Goto, Appends
  <2>2. /\ DOMAIN buffer' = 0 .. len /\ buffer'[len] = DIGIT + (number % 10)
        /\ \A m \in 0 .. len - 1 : buffer'[m] = buffer[m]
    BY <1>2, <2>1, PutIs DEF Put, Holds
  <2>3. top # Least
    <3>1. ASSUME top = Least PROVE FALSE
      <4>1. number = Least /\ Least < 0 BY <1>2, <3>1, StartIs
      <4> QED BY <1>5, <4>1, StartIs, <1>2 DEF MoreDigits
    <3> QED BY <3>1
  <2>4. PICK q : Produces(buffer, q, Start(top), len) /\ q[len] = number BY <1>2, <2>3
  <2>5. q[len] > 0 BY <1>5, <2>4 DEF MoreDigits
  <2>6. \E r : Produces(buffer', r, Start(top), len + 1) /\ r[len + 1] = number \div 10
    BY <1>2, <2>2, <2>4, <2>5, OneMoreDigit
  <2>7. (\E r : Produces(buffer, r, Start(top), len) /\ r[len] = number)' BY <1>3, <2>1, <2>6
  <2>8. Holds(len)'
    <3>1. len' - 1 = len BY <1>2, <2>1
    <3> QED BY <2>2, <3>1 DEF Holds
  <2>9. AtLabel' BY <1>2, <1>3, <2>1, <2>3, <2>7, <2>8 DEF AtLabel
  <2> QED BY <1>1, <1>2, <1>3, <2>1, <2>9 DEF Dumps, OfInt, IntLabels
<1> QED BY <1>4, <1>5

LEMMA SignDumps == Dumps /\ Sign => Dumps'
<1> SUFFICES ASSUME Dumps, Sign PROVE Dumps' OBVIOUS
<1>1. kind = "int" /\ OfInt /\ at = ".LBB0_8" BY DEF Dumps, OfString, Sign
<1>2. /\ negative = (top < 0) /\ len \in Nat /\ Holds(len) /\ top \in SignedWord
      /\ IF top = Least THEN len = 0 ELSE Numeral(buffer, Start(top), len)
  BY <1>1 DEF OfInt, AtLabel
<1>3. at' = ".LBB0_10" /\ kind' = kind /\ top' = top BY DEF Sign, Goto
<1>4. CASE negative
  <2>1. Put(len, MINUS) /\ len' = len + 1 BY <1>4 DEF Sign, Appends
  <2>2. /\ DOMAIN buffer' = 0 .. len /\ buffer'[len] = MINUS
        /\ \A m \in 0 .. len - 1 : buffer'[m] = buffer[m]
    BY <1>2, <2>1, PutIs DEF Put, Holds
  <2>3. len' - 1 = len /\ len' \in Nat \ {0} BY <1>2, <2>1
  <2>4. Holds(len)' BY <2>2, <2>3 DEF Holds
  <2>5. top < 0 BY <1>2, <1>4
  <2>6. top # Least => Numeral(buffer', -top, len)
    <3>1. top # Least => Start(top) = -top BY <1>2, <2>5, StartIs
    <3>2. top # Least => Numeral(buffer, -top, len) BY <1>2, <3>1
    <3> QED BY <2>2, <3>2, NumeralSame
  <2>7. Upward(buffer', top, len') BY <1>2, <2>1, <2>2, <2>3, <2>5, <2>6 DEF Upward
  <2>8. AtLabel' BY <1>3, <2>4, <2>7 DEF AtLabel
  <2> QED BY <1>1, <1>2, <1>3, <2>8 DEF Dumps, OfInt, IntLabels
<1>5. CASE ~negative
  <2>1. buffer' = buffer /\ len' = len BY <1>5 DEF Sign
  <2>2. ~(top < 0) /\ top # Least /\ Start(top) = top
    <3>1. ~(top < 0) BY <1>2, <1>5
    <3>2. Least < 0 BY <1>2, StartIs
    <3> QED BY <3>1, <3>2 DEF Start
  <2>3. Upward(buffer, top, len) BY <1>2, <2>2 DEF Upward
  <2>4. AtLabel' BY <1>2, <1>3, <2>1, <2>3 DEF AtLabel, Holds
  <2> QED BY <1>1, <1>2, <1>3, <2>4 DEF Dumps, OfInt, IntLabels
<1> QED BY <1>4, <1>5

LEMMA TerminateDumps == Dumps /\ Terminate => Dumps'
<1> SUFFICES ASSUME Dumps, Terminate PROVE Dumps' OBVIOUS
<1>1. kind = "int" /\ OfInt /\ at = ".LBB0_10" BY DEF Dumps, OfString, Terminate
<1>2. Holds(len) /\ Upward(buffer, top, len) /\ top \in SignedWord /\ top \in Int
  BY <1>1, StartIs DEF OfInt, AtLabel
<1>3. len \in Nat \ {0} BY <1>2, UpwardFits
<1>4. /\ at' = ".LBB0_11" /\ kind' = kind /\ top' = top /\ Put(len, 0)
      /\ len' = len /\ i' = 0 /\ j' = len - 1
  BY DEF Terminate, Goto, LastOf
<1>5. DOMAIN buffer' = 0 .. len /\ \A m \in 0 .. len - 1 : buffer'[m] = buffer[m]
  BY <1>2, <1>3, <1>4, PutIs DEF Put, Holds
<1>6. Holds(len + 1)'
  <2>1. (len' + 1) - 1 = len BY <1>3, <1>4
  <2> QED BY <1>5, <2>1 DEF Holds
<1>7. Upward(buffer', top, len) BY <1>2, <1>5, UpwardSame
<1>8. Turning(buffer)'
  <2>1. i' \in Nat /\ j' \in Int /\ i' + j' = len' - 1 /\ i' <= j' + 1 BY <1>3, <1>4
  <2>2. \A m \in 0 .. len' - 1 : ~(m < i' \/ m > j') BY <1>3, <1>4
  <2> QED BY <2>1, <2>2 DEF Turning
<1>9. (\E b : Upward(b, top, len) /\ Turning(b))' BY <1>4, <1>7, <1>8
<1>10. AtLabel' BY <1>4, <1>6, <1>9 DEF AtLabel
<1> QED BY <1>1, <1>2, <1>4, <1>10 DEF Dumps, OfInt, IntLabels

LEMMA SwapDumps == Dumps /\ Swap => Dumps'
<1> SUFFICES ASSUME Dumps, Swap PROVE Dumps' OBVIOUS
<1>1. kind = "int" /\ OfInt /\ at = ".LBB0_11" BY DEF Dumps, OfString, Swap
<1>2. Holds(len + 1) /\ top \in SignedWord BY <1>1 DEF OfInt, AtLabel
<1>3. PICK b : Upward(b, top, len) /\ Turning(b) BY <1>1 DEF OfInt, AtLabel
<1>4. len \in Nat \ {0} BY <1>2, <1>3, UpwardFits
<1>5. kind' = kind /\ top' = top /\ len' = len BY DEF Swap, Goto
<1>6. /\ i \in Nat /\ j \in Int /\ i + j = len - 1 /\ i <= j + 1
      /\ \A m \in 0 .. len - 1 : buffer[m] = IF m < i \/ m > j THEN b[len - 1 - m] ELSE b[m]
  BY <1>3 DEF Turning
<1>7. CASE i >= j
  <2>1. at' = ".LBB0_13" /\ buffer' = buffer BY <1>7 DEF Swap, Goto
  <2>2. Turned(b, len)
    <3>1. ASSUME NEW m \in 0 .. len - 1, ~(m < i \/ m > j) PROVE m = len - 1 - m
      <4>1. m \in Int /\ len \in Int BY <1>4
      <4>2. i = m /\ j = m BY <1>6, <1>7, <3>1, <4>1
      <4> QED BY <1>6, <4>1, <4>2
    <3> QED BY <1>6, <3>1 DEF Turned
  <2>3. Holds(len + 1)' BY <1>2, <1>5, <2>1 DEF Holds
  <2>4. (\E c : Upward(c, top, len) /\ Turned(c, len))' BY <1>3, <1>5, <2>1, <2>2 DEF Turned
  <2>5. AtLabel' BY <2>1, <2>3, <2>4 DEF AtLabel
  <2> QED BY <1>1, <1>2, <1>5, <2>1, <2>5 DEF Dumps, OfInt, IntLabels
<1>8. CASE ~(i >= j)
  <2>1. /\ at' = ".LBB0_11" /\ i' = i + 1 /\ j' = j - 1
        /\ buffer' = [buffer EXCEPT ![i] = buffer[j], ![j] = buffer[i]]
    BY <1>8 DEF Swap, Goto
  <2>2. DOMAIN buffer = 0 .. len BY <1>2, <1>4 DEF Holds
  <2>3. i \in 0 .. len - 1 /\ j \in 0 .. len - 1 /\ i < j BY <1>4, <1>6, <1>8
  <2>4. /\ DOMAIN buffer' = 0 .. len /\ buffer'[i] = buffer[j] /\ buffer'[j] = buffer[i]
        /\ \A m \in 0 .. len - 1 : m # i /\ m # j => buffer'[m] = buffer[m]
    BY <1>4, <2>1, <2>2, <2>3
  <2>5. buffer[i] = b[i] /\ buffer[j] = b[j] BY <1>6, <2>3
  <2>6. len - 1 - i = j /\ len - 1 - j = i BY <1>4, <1>6
  <2>7. Turning(b)'
    <3>1. i' \in Nat /\ j' \in Int /\ i' + j' = len' - 1 /\ i' <= j' + 1
      BY <1>4, <1>5, <1>6, <2>1, <2>3
    <3>2. ASSUME NEW m \in 0 .. len - 1
          PROVE  buffer'[m] = IF m < i + 1 \/ m > j - 1 THEN b[len - 1 - m] ELSE b[m]
      <4>1. CASE m = i BY <2>4, <2>5, <2>6, <4>1, <1>6
      <4>2. CASE m = j BY <2>4, <2>5, <2>6, <4>2, <1>6
      <4>3. CASE m # i /\ m # j
        <5>1. buffer'[m] = buffer[m] BY <2>4, <4>3
        <5>2. (m < i + 1 \/ m > j - 1) <=> (m < i \/ m > j) BY <1>4, <1>6, <4>3
        <5> QED BY <1>6, <5>1, <5>2
      <4> QED BY <4>1, <4>2, <4>3
    <3> QED BY <1>5, <2>1, <3>1, <3>2 DEF Turning
  <2>8. Holds(len + 1)'
    <3>1. (len' + 1) - 1 = len BY <1>4, <1>5
    <3> QED BY <2>4, <3>1 DEF Holds
  <2>9. (\E c : Upward(c, top, len) /\ Turning(c))' BY <1>3, <1>5, <2>7
  <2>10. AtLabel' BY <2>1, <2>8, <2>9 DEF AtLabel
  <2> QED BY <1>1, <1>2, <1>5, <2>1, <2>10 DEF Dumps, OfInt, IntLabels
<1> QED BY <1>7, <1>8

LEMMA NewlineDumps == Dumps /\ Newline => Dumps'
<1> SUFFICES ASSUME Dumps, Newline PROVE Dumps' OBVIOUS
<1>1. kind = "int" /\ OfInt /\ at = ".LBB0_13" BY DEF Dumps, OfString, Newline
<1>2. Holds(len + 1) /\ top \in SignedWord BY <1>1 DEF OfInt, AtLabel
<1>3. PICK b : Upward(b, top, len) /\ Turned(b, len) BY <1>1 DEF OfInt, AtLabel
<1>4. len \in Nat \ {0} BY <1>2, <1>3, UpwardFits
<1>5. /\ at' = ".write" /\ kind' = kind /\ top' = top /\ Put(len, NEWLINE) /\ len' = len + 1
  BY DEF Newline, Goto, Appends
<1>6. DOMAIN buffer = 0 .. len BY <1>2, <1>4 DEF Holds
<1>7. /\ DOMAIN buffer' = 0 .. len /\ buffer'[len] = NEWLINE
      /\ \A m \in 0 .. len - 1 : buffer'[m] = buffer[m]
  BY <1>4, <1>5, <1>6, PutIs DEF Put
<1>8. len' - 1 = len BY <1>4, <1>5
<1>9. Holds(len)' BY <1>7, <1>8 DEF Holds
<1>10. WithNewline'
  <2>1. len' \in Nat \ {0} BY <1>4, <1>5
  <2> QED BY <2>1, <1>3, <1>4, <1>5, <1>7, <1>8, <1>9 DEF WithNewline, Turned
<1>11. AtLabel' BY <1>5, <1>10 DEF AtLabel
<1> QED BY <1>1, <1>2, <1>5, <1>11 DEF Dumps, OfInt, IntLabels

LEMMA WriteDumps == Dumps /\ Write => Dumps'
<1> SUFFICES ASSUME Dumps, Write PROVE Dumps' OBVIOUS
<1>1. kind = "int" /\ OfInt /\ at = ".write" BY DEF Dumps, OfString, Write
<1>2. WithNewline /\ top \in SignedWord BY <1>1 DEF OfInt, AtLabel
<1>3. /\ at' = "ret" /\ kind' = kind /\ top' = top /\ len' = len /\ buffer' = buffer
      /\ written' = [k \in 1 .. len |-> buffer[k - 1]]
  BY DEF Write, Goto, frame
<1>4. WithNewline' BY <1>2, <1>3 DEF WithNewline, Holds, Turned
<1>5. AtLabel' BY <1>3, <1>4 DEF AtLabel
<1> QED BY <1>1, <1>2, <1>3, <1>5 DEF Dumps, OfInt, IntLabels

LEMMA LoopDumps == Dumps /\ Loop => Dumps'
<1> SUFFICES ASSUME Dumps, Loop PROVE Dumps' OBVIOUS
<1>1. kind = "string" /\ OfString /\ at = ".loop" BY DEF Dumps, OfInt, IntLabels, Loop
<1>2. /\ top \in Strings /\ buffer = <<>> /\ rax \in Nat /\ rax < Len(top)
      /\ \A l \in 1 .. rax : top[l] # 0
  BY <1>1 DEF OfString
<1>3. kind' = kind /\ top' = top /\ buffer' = buffer BY DEF Loop, Goto, frame
<1>4. CASE top[rax + 1] = 0
  <2>1. at' = ".done" /\ rax' = rax BY <1>4 DEF Loop, Goto
  <2> QED BY <1>1, <1>2, <1>3, <1>4, <2>1 DEF Dumps, OfString
<1>5. CASE top[rax + 1] # 0
  <2>1. at' = ".loop" /\ rax' = rax + 1 BY <1>5 DEF Loop, Goto, Inc
  <2>2. \A l \in 1 .. rax + 1 : top[l] # 0 BY <1>2, <1>5
  <2>3. top \in Seq(Nat) /\ \E k \in DOMAIN top : top[k] = 0 BY <1>2, DumpAssumption
  <2>4. rax + 1 < Len(top)
    <3>1. PICK k \in 1 .. Len(top) : top[k] = 0 BY <2>3
    <3>2. ~(k \in 1 .. rax + 1) BY <2>2, <3>1
    <3>3. Len(top) \in Nat BY <2>3
    <3> QED BY <1>2, <3>2, <3>3
  <2> QED BY <1>1, <1>2, <1>3, <2>1, <2>2, <2>4 DEF Dumps, OfString
<1> QED BY <1>4, <1>5

LEMMA WriteStringDumps == Dumps /\ WriteString => Dumps'
<1> SUFFICES ASSUME Dumps, WriteString PROVE Dumps' OBVIOUS
<1>1. kind = "string" /\ OfString /\ at = ".done"
  BY DEF Dumps, OfInt, IntLabels, WriteString
<1>2. /\ at' = "ret" /\ kind' = kind /\ top' = top /\ buffer' = buffer /\ rax' = rax
      /\ written' = SubSeq(top, 1, rax)
  BY DEF WriteString, Goto, frame
<1> QED BY <1>1, <1>2 DEF Dumps, OfString

-----------------------------------------------------------------------------
(* The invariant holds of every run.                                          *)
LEMMA DumpsAlways == Spec => []Dumps
<1>1. Init => Dumps BY DumpsInit
<1>2. Dumps /\ [Next]_vars => Dumps'
  <2> SUFFICES ASSUME Dumps, [Next]_vars PROVE Dumps' OBVIOUS
  <2>1. CASE Runs
    BY <2>1, EnterDumps, ZeroDumps, NextDigitDumps, SignDumps, TerminateDumps, SwapDumps,
       NewlineDumps, WriteDumps, LoopDumps, WriteStringDumps DEF Runs
  <2>2. CASE UNCHANGED vars
    BY <2>2 DEF vars, frame, Dumps, OfInt, OfString, AtLabel, IntLabels, Holds, Turning, Turned, WithNewline
  <2> QED BY <2>1, <2>2 DEF Next, Returned
<1> QED BY <1>1, <1>2, PTL DEF Spec

-----------------------------------------------------------------------------
(* The frame of dmp_i64 has no check, and needs none: for every word of every *)
(* width that ROOM is enough for, what dmp_i64 writes into its buffer stays   *)
(* below the number that it divides.                                          *)
THEOREM StaysInBufferHolds == Spec => []StaysInBuffer
<1>1. Dumps => StaysInBuffer
  <2> SUFFICES ASSUME Dumps PROVE \A k \in DOMAIN buffer : k \in 0 .. ROOM - 1
    BY DEF StaysInBuffer
  <2>1. ROOM \in Nat /\ ROOM >= 2 BY DumpAssumption
  <2>2. SUFFICES ASSUME kind = "int", OfInt, buffer # <<>>
                 PROVE  \E n \in Nat : n <= ROOM /\ DOMAIN buffer = 0 .. n - 1
    <3>1. buffer = <<>> => \A k \in DOMAIN buffer : k \in 0 .. ROOM - 1 OBVIOUS
    <3> QED BY <2>1, <3>1 DEF Dumps, OfString
  <2>3. top \in SignedWord /\ top \in Int BY <2>2, StartIs DEF OfInt
  <2>4. CASE at = ".LBB0_5"
    <3>1. /\ top # 0 /\ len \in Nat /\ DOMAIN buffer = 0 .. len - 1
          /\ top = Least => len = 0
          /\ top # Least => \E q : Produces(buffer, q, Start(top), len)
      BY <2>2, <2>4 DEF OfInt, AtLabel, Holds
    <3>2. CASE top = Least BY <2>1, <3>1, <3>2
    <3>3. CASE top # Least
      <4>1. Start(top) \in 1 .. Half - 1 BY <2>3, <3>1, <3>3, StartIs
      <4>2. len <= ROOM - 2 BY <3>1, <3>3, <4>1, DigitsFit
      <4> QED BY <2>1, <3>1, <4>2
    <3> QED BY <3>2, <3>3
  <2>5. CASE at = ".LBB0_8"
    <3>1. /\ len \in Nat /\ DOMAIN buffer = 0 .. len - 1
          /\ top = Least => len = 0
          /\ top # Least => Numeral(buffer, Start(top), len)
      BY <2>2, <2>5 DEF OfInt, AtLabel, Holds
    <3>2. CASE top = Least BY <2>1, <3>1, <3>2
    <3>3. CASE top # Least
      <4>1. Start(top) \in 0 .. Half - 1 BY <2>3, <3>3, StartIs
      <4>2. len <= ROOM - 1 BY <3>1, <3>3, <4>1, NumeralFits
      <4> QED BY <2>1, <3>1, <4>2
    <3> QED BY <3>2, <3>3
  <2>6. CASE at = ".LBB0_10"
    <3>1. Upward(buffer, top, len) /\ DOMAIN buffer = 0 .. len - 1
      BY <2>2, <2>6 DEF OfInt, AtLabel, Holds
    <3> QED BY <2>1, <2>3, <3>1, UpwardFits
  <2>7. CASE at \in {".LBB0_11", ".LBB0_13"}
    <3>1. DOMAIN buffer = 0 .. (len + 1) - 1 /\ \E b : Upward(b, top, len)
      BY <2>2, <2>7 DEF OfInt, AtLabel, Holds
    <3>2. len \in Nat /\ len <= ROOM - 1 BY <2>3, <3>1, UpwardFits
    <3> QED BY <2>1, <3>1, <3>2
  <2>8. CASE at \in {".write", "ret"}
    <3>1. DOMAIN buffer = 0 .. len - 1 /\ len \in Nat /\ \E b : Upward(b, top, len - 1)
      BY <2>2, <2>8 DEF OfInt, AtLabel, WithNewline, Holds
    <3>2. len - 1 <= ROOM - 1 BY <2>3, <3>1, UpwardFits
    <3> QED BY <2>1, <3>1, <3>2
  <2> QED BY <2>2, <2>4, <2>5, <2>6, <2>7, <2>8 DEF OfInt, AtLabel, IntLabels
<1> QED BY <1>1, DumpsAlways, PTL

(* A text that is read from the first place to the last.                      *)
LEMMA UpwardReads ==
    ASSUME NEW b, NEW x \in SignedWord, NEW n, Upward(b, x, n),
           NEW s, ReadDown(s, b, n)
    PROVE  IF x = Least THEN s = <<MINUS>> ELSE Reads(s, x)
<1> s \in Seq(Int) /\ Len(s) = n /\ \A k \in 1 .. n : s[k] = b[n - k] BY DEF ReadDown
<1>1. n \in Nat \ {0} BY UpwardFits
<1>2. /\ x \in Int /\ Half \in Nat /\ Half >= 1 /\ x >= Least /\ Least = -Half /\ x < Half
  BY StartIs
<1>3. CASE x = Least
  <2>1. n = 1 /\ b[n - 1] = MINUS BY <1>2, <1>3 DEF Upward
  <2>2. Len(s) = 1 /\ s[1] = MINUS BY <2>1
  <2>3. s = <<MINUS>> BY <2>2
  <2> QED BY <1>3, <2>3
<1>4. CASE x # Least /\ x < 0
  <2>1. b[n - 1] = MINUS /\ Numeral(b, -x, n - 1) BY <1>4 DEF Upward
  <2>2. s # <<>> /\ s[1] = MINUS BY <1>1, <2>1
  <2> DEFINE t == Tail(s)
  <2>3. t \in Seq(Int) /\ Len(t) = n - 1 /\ \A k \in 1 .. n - 1 : t[k] = s[k + 1]
    BY <1>1, <2>2, HeadTailProperties
  <2>4. \A k \in 1 .. n - 1 : t[k] = b[(n - 1) - k]
    <3>1. \A k \in 1 .. n - 1 : k + 1 \in 1 .. n /\ n - (k + 1) = (n - 1) - k BY <1>1
    <3> HIDE DEF t
    <3> QED BY <2>3, <3>1
  <2>5. -x \in Nat BY <1>2, <1>4
  <2> DEFINE m == n - 1   y == -x
  <2>6. IsNumeral(t) /\ ValueOf(t) = y
    <3>1. y \in Nat /\ Numeral(b, y, m) /\ ReadDown(t, b, m)
      BY <2>1, <2>3, <2>4, <2>5 DEF ReadDown
    <3> HIDE DEF t, m, y
    <3> QED BY <3>1, NumeralReads
  <2> QED BY <1>4, <2>2, <2>6 DEF Reads
<1>5. CASE ~(x < 0)
  <2>1. x \in Nat /\ x # Least BY <1>2, <1>5
  <2>2. Numeral(b, x, n) BY <1>5 DEF Upward
  <2>3. IsNumeral(s) /\ ValueOf(s) = x BY <2>1, <2>2, NumeralReads
  <2> QED BY <1>5, <2>1, <2>3 DEF Reads
<1> QED BY <1>3, <1>4, <1>5

LEMMA UpwardBytes ==
    ASSUME NEW b, NEW x \in SignedWord, NEW n, Upward(b, x, n)
    PROVE  \A m \in 0 .. n - 1 : b[m] \in Int
<1>1. n \in Nat \ {0} BY UpwardFits
<1>2. ASSUME NEW y, NEW l, Numeral(b, y, l) PROVE l \in Nat /\ \A m \in 0 .. l - 1 : b[m] \in Int
  <2>1. PICK q : Produces(b, q, y, l) BY <1>2 DEF Numeral
  <2>2. l \in Nat /\ q \in [0 .. l -> Nat] BY <1>2, <2>1 DEF Numeral, Produces
  <2>3. ASSUME NEW m \in 0 .. l - 1 PROVE b[m] \in Int
    <3>1. q[m] \in Nat /\ b[m] = DIGIT + (q[m] % 10) BY <2>1, <2>2 DEF Produces
    <3>2. q[m] % 10 \in 0 .. 9 BY <3>1, LastDigit
    <3> QED BY <3>1, <3>2 DEF DIGIT
  <2> QED BY <2>2, <2>3
<1>3. CASE x < 0
  <2>1. b[n - 1] \in Int BY <1>3 DEF Upward, MINUS
  <2>2. \A m \in 0 .. (n - 1) - 1 : b[m] \in Int
    <3>1. CASE n = 1 BY <3>1
    <3>2. CASE n # 1 BY <1>2, <1>3, <3>2 DEF Upward
    <3> QED BY <3>1, <3>2
  <2>3. \A m \in 0 .. n - 1 : m \in 0 .. (n - 1) - 1 \/ m = n - 1 BY <1>1
  <2> QED BY <2>1, <2>2, <2>3
<1>4. CASE ~(x < 0) BY <1>2, <1>4 DEF Upward
<1> QED BY <1>3, <1>4

(* What `.` writes is, for every word of every width, its decimal numeral     *)
(* and a newline (of the least word the sign only), and for every string its  *)
(* bytes up to the first zero.                                                *)
THEOREM WritesTopHolds == Spec => []WritesTop
<1>1. Dumps => WritesTop
  <2> SUFFICES ASSUME Dumps, at = "ret" PROVE WritesTop BY DEF WritesTop
  <2>1. CASE kind = "string"
    <3>1. /\ top \in Strings /\ rax \in Nat /\ rax < Len(top) /\ \A l \in 1 .. rax : top[l] # 0
          /\ top[rax + 1] = 0 /\ written = SubSeq(top, 1, rax)
      BY <2>1 DEF Dumps, OfString
    <3>2. top \in Seq(Nat) /\ Len(top) \in Nat BY <3>1, DumpAssumption
    <3>3. rax + 1 \in DOMAIN top /\ (rax + 1) - 1 = rax BY <3>1, <3>2
    <3> QED BY <2>1, <3>1, <3>3 DEF WritesTop
  <2>2. CASE kind # "string"
    <3>1. top \in SignedWord /\ WithNewline /\ written = [k \in 1 .. len |-> buffer[k - 1]]
      BY <2>2 DEF Dumps, OfInt, AtLabel
    <3>2. /\ len \in Nat \ {0} /\ DOMAIN buffer = 0 .. len - 1 /\ buffer[len - 1] = NEWLINE
          /\ \E b : Upward(b, top, len - 1) /\ Turned(b, len - 1)
      BY <3>1 DEF WithNewline, Holds
    <3>3. PICK b : Upward(b, top, len - 1) /\ Turned(b, len - 1) BY <3>2
    <3> DEFINE n == len - 1   s == SubSeq(written, 1, Len(written) - 1)
    <3>4. ASSUME NEW k \in 1 .. n PROVE buffer[k - 1] = b[n - k]
      <4>1. k - 1 \in 0 .. n - 1 /\ n - 1 - (k - 1) = n - k BY <3>2
      <4> QED BY <3>3, <4>1 DEF Turned
    <3>5. n \in Nat \ {0} /\ len = n + 1 BY <3>1, <3>2, <3>3, UpwardFits
    <3>6. \A m \in 0 .. n - 1 : b[m] \in Int BY <3>1, <3>3, UpwardBytes
    <3>7. \A k \in 1 .. len : buffer[k - 1] \in Int
      <4>1. \A k \in 1 .. len : k \in 1 .. n \/ k - 1 = len - 1 BY <3>5
      <4>2. \A k \in 1 .. n : n - k \in 0 .. n - 1 BY <3>5
      <4> QED BY <3>2, <3>4, <3>6, <4>1, <4>2 DEF NEWLINE
    <3>8. written \in Seq(Int) /\ Len(written) = len BY <3>1, <3>2, <3>7
    <3>9. s \in Seq(Int) /\ Len(s) = n /\ \A k \in 1 .. n : s[k] = written[k]
      <4>1. Len(written) - 1 = n BY <3>8
      <4>2. \A k \in 1 .. n : written[k] \in Int BY <3>5, <3>8
      <4> QED BY <3>5, <3>8, <4>1, <4>2, SubSeqProperties
    <3> HIDE DEF s
    <3>10. ReadDown(s, b, n)
      <4>1. ASSUME NEW k \in 1 .. n PROVE s[k] = b[n - k]
        <5>1. k \in 1 .. len BY <3>5
        <5>2. written[k] = buffer[k - 1] BY <3>1, <5>1
        <5> QED BY <3>4, <3>9, <5>2
      <4> QED BY <3>9, <4>1 DEF ReadDown
    <3>11. written = Append(s, NEWLINE)
      <4>1. written[n + 1] = NEWLINE BY <3>1, <3>2, <3>5
      <4> HIDE DEF n
      <4>2. IsSeq(written) /\ IsSeq(s) BY <3>8, <3>9, SeqIsSeq
      <4>3. /\ IsSeq(Append(s, NEWLINE)) /\ Len(Append(s, NEWLINE)) = n + 1
            /\ Append(s, NEWLINE)[n + 1] = NEWLINE
            /\ \A k \in 1 .. n : Append(s, NEWLINE)[k] = s[k]
        BY <3>9, <4>2, AppendSeq
      <4>4. ASSUME NEW k \in 1 .. Len(written) PROVE written[k] = Append(s, NEWLINE)[k]
        <5>1. k \in 1 .. n \/ k = n + 1 BY <3>5, <3>8
        <5> QED BY <3>9, <4>1, <4>3, <5>1
      <4> QED BY <3>5, <3>8, <4>2, <4>3, <4>4, SameSeq
    <3>12. IF top = Least THEN s = <<MINUS>> ELSE Reads(s, top)
      <4> HIDE DEF n
      <4>1. Upward(b, top, n) BY <3>3 DEF n
      <4> QED BY <3>1, <3>10, <4>1, UpwardReads
    <3> QED BY <2>2, <3>11, <3>12 DEF WritesTop, s
  <2> QED BY <2>1, <2>2
<1> QED BY <1>1, DumpsAlways, PTL
=============================================================================
