----------------------------- MODULE PartsProofs -----------------------------
(***************************************************************************)
(* Proofs about components that stand alone.                               *)
(*                                                                         *)
(* Orderer, for every buffer size and every sequence of calls: the         *)
(* invariants the runs check are inductive together, and every step of the *)
(* ring buffer is a step of OrdererSpec.  UdpSocket, for any number of     *)
(* threads; ThreadStreams, for any statements; RosVariable;                *)
(* TwoSidedVector, for any size.                                           *)
(***************************************************************************)
EXTENDS Orderer, UdpSocket, RosVariable, ThreadStreams, TwoSidedVector,
        FiniteSetTheorems, SequenceTheorems, WellFoundedInduction, TLAPS

-----------------------------------------------------------------------------
(* Slots of a ring.                                                        *)

\* index % size is a slot of the ring (every access of orderer.hpp:102-126)
LEMMA SlotType ==
  ASSUME NEW n \in Nat \ {0}, NEW i \in Nat
  PROVE  i % n \in 0 .. n - 1
  OBVIOUS

\* two indices of one window of the ring's size never share a slot, so a full
\* slot found by add() belongs to the very index it is asked for
LEMMA SlotInjective ==
  ASSUME NEW n \in Nat \ {0}, NEW c \in Nat,
         NEW i \in c .. c + n - 1, NEW j \in c .. c + n - 1,
         i % n = j % n
  PROVE  i = j
<1>1. i = n * (i \div n) + (i % n) /\ i \div n \in Int
  OBVIOUS
<1>2. j = n * (j \div n) + (j % n) /\ j \div n \in Int
  OBVIOUS
<1> DEFINE q == (i \div n) - (j \div n)
<1>3. i - j = n * q /\ q \in Int
  BY <1>1, <1>2
<1>4. -n < i - j /\ i - j < n
  OBVIOUS
<1>5. q = 0
  <2> HIDE DEF q
  <2>1. CASE q >= 1
    <3>1. n * q >= n
      BY <2>1, <1>3
    <3> QED BY <3>1, <1>3, <1>4
  <2>2. CASE q <= -1
    <3>1. n * q <= -n
      BY <2>2, <1>3
    <3> QED BY <3>1, <1>3, <1>4
  <2> QED BY <2>1, <2>2, <1>3
<1> QED BY <1>3, <1>5

\* the quotient and the remainder of a number are unique
LEMMA ModUnique ==
  ASSUME NEW n \in Nat \ {0}, NEW p \in Int, NEW s \in 0 .. n - 1,
         n * p + s \in Nat
  PROVE  (n * p + s) % n = s
<1> DEFINE i == n * p + s
<1>1. i = n * (i \div n) + (i % n) /\ i \div n \in Int /\ i % n \in 0 .. n - 1
  OBVIOUS
<1> DEFINE q == (i \div n) - p
<1>2. s - (i % n) = n * q /\ q \in Int
  BY <1>1
<1>3. q = 0
  <2> HIDE DEF q, i
  <2>1. CASE q >= 1
    <3>1. n * q >= n
      BY <2>1, <1>2
    <3> QED BY <3>1, <1>1, <1>2
  <2>2. CASE q <= -1
    <3>1. n * q <= -n
      BY <2>2, <1>2
    <3> QED BY <3>1, <1>1, <1>2
  <2> QED BY <2>1, <2>2, <1>2
<1> QED BY <1>1, <1>2, <1>3

\* the index that enters the window takes over the slot of the one that leaves
LEMMA SlotPeriodic ==
  ASSUME NEW n \in Nat \ {0}, NEW i \in Nat
  PROVE  (i + n) % n = i % n
<1> DEFINE q == i \div n
           s == i % n
<1>1. i = n * q + s /\ q \in Nat /\ s \in 0 .. n - 1
  OBVIOUS
<1> HIDE DEF q, s
<1>2. i + n = n * (q + 1) + s
  BY <1>1
<1>3. (n * (q + 1) + s) % n = s
  BY <1>1, <1>2, ModUnique
<1> QED BY <1>2, <1>3 DEF s

\* every slot of the ring belongs to some index of the window, so a ring that
\* holds nothing in its window is empty throughout
LEMMA SlotSurjective ==
  ASSUME NEW n \in Nat \ {0}, NEW c \in Nat, NEW s \in 0 .. n - 1
  PROVE  \E i \in c .. c + n - 1 : i % n = s
<1> DEFINE q == c \div n
           m == c % n
<1>1. c = n * q + m /\ q \in Nat /\ m \in 0 .. n - 1
  OBVIOUS
<1> HIDE DEF q, m
<1>2. CASE s >= m
  <2>1. n * q + s \in c .. c + n - 1
    BY <1>1, <1>2
  <2>2. (n * q + s) % n = s
    BY <2>1, <1>1, ModUnique
  <2> QED BY <2>1, <2>2
<1>3. CASE s < m
  <2> DEFINE p == q + 1
  <2>1. n * p = n * q + n /\ p \in Int
    BY <1>1
  <2> HIDE DEF p
  <2>2. n * p + s \in c .. c + n - 1 /\ n * p + s \in Nat
    BY <2>1, <1>1, <1>3
  <2>3. (n * p + s) % n = s
    BY <2>1, <2>2, ModUnique
  <2> QED BY <2>2, <2>3
<1> QED BY <1>1, <1>2, <1>3

\* every non-empty set of naturals has a least element (what upper_bound finds)
LEMMA LeastNatural ==
  ASSUME NEW S \in SUBSET Nat, S # {}
  PROVE  \E m \in S : \A k \in S : m <= k
<1> DEFINE R == OpToRel(<, Nat)
<1>1. IsWellFoundedOn(R, Nat)
  BY NatLessThanWellFounded
<1>2. \A x, y \in Nat : x < y => <<x, y>> \in R
  BY DEF OpToRel
<1> HIDE DEF R
<1>3. PICK m \in S : \A k \in S : <<k, m>> \notin R
  BY <1>1, WFMin
<1>4. ASSUME NEW k \in S PROVE m <= k
  <2>1. ~ (k < m)
    BY <1>2, <1>3
  <2> QED BY <2>1
<1> QED BY <1>4

Range2 == Nat \X Nat

-----------------------------------------------------------------------------
(* The list of held ranges.                                                *)

\* what a sorted list of ranges looks like, index by index
LEMMA RangeFacts ==
  ASSUME NEW r \in Seq(Range2), NEW c \in Nat, Apart(r, c)
  PROVE  /\ Len(r) \in Nat /\ DOMAIN r = 1 .. Len(r)
         /\ r \in [1 .. Len(r) -> Range2]
         /\ \A j \in 1 .. Len(r) : r[j][1] \in Nat /\ r[j][2] \in Nat
         /\ \A j \in 1 .. Len(r) : r[j] = <<r[j][1], r[j][2]>>
         /\ \A j \in 1 .. Len(r) : c <= r[j][1] /\ r[j][1] < r[j][2]
         /\ \A j, k \in 1 .. Len(r) : j < k => r[j][2] < r[k][1]
<1>1. /\ Len(r) \in Nat /\ DOMAIN r = 1 .. Len(r)
      /\ r \in [1 .. Len(r) -> Range2]
  BY LenProperties
<1>2. ASSUME NEW j \in 1 .. Len(r)
      PROVE  r[j][1] \in Nat /\ r[j][2] \in Nat /\ r[j] = <<r[j][1], r[j][2]>>
  <2>1. r[j] \in Range2
    BY <1>1
  <2> QED BY <2>1 DEF Range2
<1>3. /\ \A j \in 1 .. Len(r) : c <= r[j][1] /\ r[j][1] < r[j][2]
      /\ \A j, k \in 1 .. Len(r) : j < k => r[j][2] < r[k][1]
  BY <1>1 DEF Apart
<1> QED BY <1>1, <1>2, <1>3

\* A function on 1 .. n is a sequence of length n.
LEMMA FunctionIsSeq ==
  ASSUME NEW n \in Nat, NEW S, NEW f \in [1 .. n -> S]
  PROVE  f \in Seq(S) /\ Len(f) = n
  BY SeqDef

\* an index is covered by a list of ranges iff some range holds it
LEMMA CoveredIff ==
  ASSUME NEW r, NEW n \in Nat, DOMAIN r = 1 .. n,
         \A j \in 1 .. n : r[j][1] \in Nat /\ r[j][2] \in Nat, NEW x
  PROVE  x \in Covered(r) <=>
           x \in Nat /\ \E j \in 1 .. n : r[j][1] <= x /\ x < r[j][2]
<1>1. x \in Covered(r) <=> \E j \in 1 .. n : x \in r[j][1] .. r[j][2] - 1
  BY DEF Covered
<1>2. ASSUME NEW j \in 1 .. n
      PROVE  x \in r[j][1] .. r[j][2] - 1 <=>
               x \in Nat /\ r[j][1] <= x /\ x < r[j][2]
  <2>1. r[j][1] \in Nat /\ r[j][2] \in Nat
    OBVIOUS
  <2> QED BY <2>1
<1> QED BY <1>1, <1>2

\* std::upper_bound finds a position, and only one, in a sorted list
LEMMA UpperBoundFinds ==
  ASSUME NEW r \in Seq(Range2), NEW c \in Nat, Apart(r, c), NEW index \in Nat
  PROVE  LET k == UpperBound(r, index) IN
         /\ k \in 1 .. Len(r) + 1
         /\ \A j \in 1 .. k - 1 : r[j][1] <= index
         /\ \A j \in k .. Len(r) : index < r[j][1]
<1> DEFINE S == {j \in 1 .. Len(r) + 1 : j = Len(r) + 1 \/ index < r[j][1]}
           P(k) == /\ \A j \in 1 .. k - 1 : r[j][1] <= index
                   /\ \A j \in k .. Len(r) : index < r[j][1]
<1>0. /\ Len(r) \in Nat
      /\ \A j \in 1 .. Len(r) : r[j][1] \in Nat /\ r[j][2] \in Nat
      /\ \A j \in 1 .. Len(r) : r[j][1] < r[j][2]
      /\ \A j, k \in 1 .. Len(r) : j < k => r[j][2] < r[k][1]
  BY RangeFacts
<1>1. S \in SUBSET Nat /\ Len(r) + 1 \in S
  BY <1>0
<1>2. PICK m \in S : \A k \in S : m <= k
  BY <1>1, LeastNatural
<1>3. m \in 1 .. Len(r) + 1
  OBVIOUS
<1>4. ASSUME NEW j \in 1 .. m - 1 PROVE r[j][1] <= index
  <2>1. j \notin S /\ j \in 1 .. Len(r)
    BY <1>0, <1>2, <1>3
  <2> QED BY <2>1, <1>0
<1>5. ASSUME NEW j \in m .. Len(r) PROVE index < r[j][1]
  <2>1. m \in 1 .. Len(r) /\ j \in 1 .. Len(r) /\ index < r[m][1]
    BY <1>0, <1>3
  <2>2. CASE j = m
    BY <2>1, <2>2
  <2>3. CASE j # m
    <3>1. m < j /\ r[m][1] < r[m][2] /\ r[m][2] < r[j][1]
      BY <2>1, <2>3, <1>0
    <3> QED BY <3>1, <2>1, <1>0
  <2> QED BY <2>2, <2>3
<1>6. \E k \in 1 .. Len(r) + 1 : P(k)
  BY <1>3, <1>4, <1>5
<1> HIDE DEF S
<1>7. UpperBound(r, index) = CHOOSE k \in 1 .. Len(r) + 1 : P(k)
  BY DEF UpperBound
<1> QED BY <1>6, <1>7

\* growing or starting a range adds exactly the new index, and leaves at most
\* one place where the list is not yet apart: right after the grown range
LEMMA AbsorbAdds ==
  ASSUME NEW r \in Seq(Range2), NEW c \in Nat, Apart(r, c),
         NEW index \in Nat, c <= index, index \notin Covered(r)
  PROVE  LET a == Absorb(r, index)
             s == a.list
             k == a.at IN
         /\ s \in Seq(Range2)
         /\ k \in 1 .. Len(s)
         /\ s[k][2] = index + 1
         /\ \A j \in 1 .. Len(s) : c <= s[j][1] /\ s[j][1] < s[j][2]
         /\ \A i, j \in 1 .. Len(s) : i < j => s[i][2] <= s[j][1]
         /\ \A i, j \in 1 .. Len(s) : i < j /\ ~ (i = k /\ j = k + 1) => s[i][2] < s[j][1]
         /\ Covered(s) = Covered(r) \cup {index}
<1> DEFINE n == Len(r)
           u == UpperBound(r, index)
<1>0. /\ n \in Nat /\ DOMAIN r = 1 .. n /\ r \in [1 .. n -> Range2]
      /\ \A j \in 1 .. n : r[j][1] \in Nat /\ r[j][2] \in Nat
      /\ \A j \in 1 .. n : r[j] = <<r[j][1], r[j][2]>>
      /\ \A j \in 1 .. n : c <= r[j][1] /\ r[j][1] < r[j][2]
      /\ \A j, k \in 1 .. n : j < k => r[j][2] < r[k][1]
  BY RangeFacts
<1>1. /\ u \in 1 .. n + 1
      /\ \A j \in 1 .. u - 1 : r[j][1] <= index
      /\ \A j \in u .. n : index < r[j][1]
  BY UpperBoundFinds
<1> HIDE DEF n, u
<1>2. \A j \in 1 .. u - 1 : r[j][2] <= index
  <2> SUFFICES ASSUME NEW j \in 1 .. u - 1, index < r[j][2] PROVE FALSE
    BY <1>0, <1>1
  <2>1. j \in 1 .. n /\ r[j][1] <= index
    BY <1>0, <1>1
  <2> QED BY <2>1, <1>0, CoveredIff
<1>3. CASE u > 1 /\ r[u - 1][2] = index
  <2> DEFINE s == [r EXCEPT ![u - 1] = <<r[u - 1][1], index + 1>>]
  <2>1. Absorb(r, index) = [list |-> s, at |-> u - 1]
    BY <1>3 DEF Absorb, u
  <2>2. u - 1 \in 1 .. n
    BY <1>0, <1>1, <1>3
  <2>3. /\ s \in [1 .. n -> Range2] /\ DOMAIN s = 1 .. n
        /\ \A j \in 1 .. n : j # u - 1 => s[j] = r[j]
        /\ s[u - 1] = <<r[u - 1][1], index + 1>>
    BY <1>0, <2>2 DEF Range2
  <2>4. s \in Seq(Range2) /\ Len(s) = n
    BY <2>3, <1>0, FunctionIsSeq
  <2>5. /\ \A j \in 1 .. n : s[j][1] = r[j][1]
        /\ \A j \in 1 .. n : s[j][2] = IF j = u - 1 THEN index + 1 ELSE r[j][2]
    BY <2>3
  <2> HIDE DEF s
  <2>6. \A j \in 1 .. n : s[j][1] \in Nat /\ s[j][2] \in Nat
    BY <2>5, <1>0
  <2>7. \A j \in 1 .. n : c <= s[j][1] /\ s[j][1] < s[j][2]
    BY <2>5, <1>0, <1>3, <2>2
  <2>8. ASSUME NEW i \in 1 .. n, NEW j \in 1 .. n, i < j
        PROVE  /\ s[i][2] <= s[j][1]
               /\ ~ (i = u - 1 /\ j = u - 1 + 1) => s[i][2] < s[j][1]
    <3>1. r[i][2] < r[j][1]
      BY <2>8, <1>0
    <3>2. CASE i # u - 1
      BY <3>1, <3>2, <2>5, <1>0
    <3>3. CASE i = u - 1
      <4>1. j \in u .. n /\ index < r[j][1]
        BY <3>3, <2>8, <1>1, <1>0
      <4>2. CASE j = u
        BY <4>1, <4>2, <3>3, <2>5, <1>0
      <4>3. CASE j # u
        <5>1. u \in 1 .. n /\ u < j /\ index < r[u][1] /\ r[u][1] < r[u][2] /\ r[u][2] < r[j][1]
          BY <4>1, <4>3, <1>0, <1>1
        <5>2. s[i][2] = index + 1 /\ s[j][1] = r[j][1] /\ r[u][1] \in Nat /\ r[u][2] \in Nat /\ r[j][1] \in Nat
          BY <3>3, <2>5, <1>0, <5>1
        <5>3. index + 1 < r[j][1]
          BY <5>1, <5>2
        <5> HIDE DEF s
        <5> QED BY <5>2, <5>3
      <4> QED BY <4>2, <4>3
    <3> QED BY <3>2, <3>3
  <2>9. ASSUME NEW x PROVE x \in Covered(s) <=> x \in Covered(r) \cup {index}
    <3>1. x \in Covered(r) <=> x \in Nat /\ \E j \in 1 .. n : r[j][1] <= x /\ x < r[j][2]
      BY <1>0, CoveredIff
    <3>2. x \in Covered(s) <=> x \in Nat /\ \E j \in 1 .. n : s[j][1] <= x /\ x < s[j][2]
      BY <1>0, <2>3, <2>6, <2>4, LenProperties, CoveredIff
    <3>3. ASSUME x \in Covered(s) PROVE x \in Covered(r) \cup {index}
      <4>1. PICK j \in 1 .. n : x \in Nat /\ s[j][1] <= x /\ x < s[j][2]
        BY <3>2, <3>3
      <4>2. CASE j # u - 1
        BY <4>1, <4>2, <2>5, <3>1
      <4>3. CASE j = u - 1
        <5>1. x < index + 1 /\ r[j][1] <= x /\ r[j][2] = index
          BY <4>1, <4>3, <2>5, <1>3
        <5>2. x = index \/ x < r[j][2]
          BY <5>1, <4>1
        <5> QED BY <5>1, <5>2, <4>1, <3>1
      <4> QED BY <4>2, <4>3
    <3>4. ASSUME x \in Covered(r) PROVE x \in Covered(s)
      <4>1. PICK j \in 1 .. n : x \in Nat /\ r[j][1] <= x /\ x < r[j][2]
        BY <3>1, <3>4
      <4>2. s[j][1] <= x /\ x < s[j][2]
        BY <4>1, <2>5, <1>3, <1>0
      <4> QED BY <4>1, <4>2, <3>2
    <3>5. ASSUME x = index PROVE x \in Covered(s)
      <4>1. s[u - 1][1] <= x /\ x < s[u - 1][2]
        BY <3>5, <2>5, <2>2, <1>1, <1>0
      <4> QED BY <4>1, <2>2, <3>2, <3>5
    <3> QED BY <3>3, <3>4, <3>5
  <2>10. u - 1 \in 1 .. Len(s) /\ s[u - 1][2] = index + 1
    BY <2>2, <2>4, <2>5
  <2>11. Covered(s) = Covered(r) \cup {index}
    BY <2>9
  <2>12. Absorb(r, index).list = s /\ Absorb(r, index).at = u - 1
    BY <2>1
  <2> QED BY <2>12, <2>4, <2>7, <2>8, <2>10, <2>11
<1>4. CASE ~ (u > 1 /\ r[u - 1][2] = index)
  <2> DEFINE s == InsertRange(r, u, <<index, index + 1>>)
  <2>1. Absorb(r, index) = [list |-> s, at |-> u]
    BY <1>4 DEF Absorb, u
  <2>3. /\ DOMAIN s = 1 .. n + 1
        /\ \A j \in 1 .. n + 1 : j < u => s[j] = r[j] /\ j \in 1 .. n
        /\ \A j \in 1 .. n + 1 : j > u => s[j] = r[j - 1] /\ j - 1 \in 1 .. n
        /\ s[u] = <<index, index + 1>>
    BY <1>0, <1>1 DEF InsertRange, n
  <2>13. s = [j \in 1 .. n + 1 |-> s[j]]
    BY DEF InsertRange, n
  <2> HIDE DEF s
  <2>4. s \in [1 .. n + 1 -> Range2]
    <3>1. ASSUME NEW j \in 1 .. n + 1 PROVE s[j] \in Range2
      <4>1. CASE j < u
        BY <4>1, <2>3, <1>0
      <4>2. CASE j = u
        BY <4>2, <2>3 DEF Range2
      <4>3. CASE j > u
        BY <4>3, <2>3, <1>0
      <4> QED BY <4>1, <4>2, <4>3, <1>0, <1>1
    <3> QED BY <3>1, <2>13
  <2>5. s \in Seq(Range2) /\ Len(s) = n + 1
    <3>1. n + 1 \in Nat
      BY <1>0
    <3> QED BY <3>1, <2>4, FunctionIsSeq
  <2>6. \A j \in 1 .. n + 1 : s[j][1] \in Nat /\ s[j][2] \in Nat
    BY <2>3, <1>0, <1>1
  <2>7. ASSUME NEW j \in 1 .. n + 1 PROVE c <= s[j][1] /\ s[j][1] < s[j][2]
    <3>1. CASE j < u
      BY <3>1, <2>3, <1>0
    <3>2. CASE j = u
      BY <3>2, <2>3
    <3>3. CASE j > u
      BY <3>3, <2>3, <1>0
    <3> QED BY <3>1, <3>2, <3>3, <1>0, <1>1
  <2>8. ASSUME NEW i \in 1 .. n + 1, NEW j \in 1 .. n + 1, i < j
        PROVE  /\ s[i][2] <= s[j][1]
               /\ ~ (i = u /\ j = u + 1) => s[i][2] < s[j][1]
    <3>1. CASE j < u
      <4>1. i \in 1 .. n /\ j \in 1 .. n /\ s[i] = r[i] /\ s[j] = r[j]
        BY <3>1, <2>8, <2>3, <1>1
      <4> QED BY <4>1, <2>8, <1>0
    <3>2. CASE j = u
      <4>1. i \in 1 .. u - 1 /\ r[i][2] <= index /\ s[i] = r[i] /\ i \in 1 .. n
        BY <3>2, <2>8, <2>3, <1>1, <1>2
      <4>2. r[i][2] # index
        <5>1. CASE i = u - 1
          BY <1>4, <5>1, <4>1, <1>1
        <5>2. CASE i # u - 1
          <6>1. u - 1 \in 1 .. n /\ i < u - 1 /\ r[i][2] < r[u - 1][1] /\ r[u - 1][1] <= index
            BY <5>2, <4>1, <1>0, <1>1
          <6> QED BY <6>1, <4>1, <1>0
        <5> QED BY <5>1, <5>2
      <4> QED BY <4>1, <4>2, <3>2, <2>3, <1>0
    <3>3. CASE j > u /\ i = u
      <4>1. j - 1 \in u .. n /\ s[j] = r[j - 1] /\ index < r[j - 1][1] /\ s[i][2] = index + 1
        BY <3>3, <2>3, <1>0, <1>1
      <4>2. CASE j = u + 1
        BY <4>1, <4>2, <1>0, <3>3
      <4>3. CASE j # u + 1
        <5>1. u \in 1 .. n /\ u < j - 1 /\ index < r[u][1] /\ r[u][1] < r[u][2] /\ r[u][2] < r[j - 1][1]
          BY <4>1, <4>3, <3>3, <1>0, <1>1
        <5>2. j - 1 \in 1 .. n
          BY <4>1, <1>0, <1>1
        <5>3. r[u][1] \in Nat /\ r[u][2] \in Nat /\ r[j - 1][1] \in Nat
          <6>1. \A x \in 1 .. n : r[x][1] \in Nat /\ r[x][2] \in Nat
            BY <1>0
          <6> QED BY <5>1, <5>2, <6>1
        <5>4. index + 1 < r[j - 1][1]
          <6>1. ASSUME NEW a \in Nat, NEW b \in Nat, NEW d \in Nat, NEW e \in Nat,
                       a < b, b < d, d < e
                PROVE  a + 1 < e
            BY <6>1
          <6> HIDE DEF s
          <6> QED BY <5>1, <5>3, <6>1
        <5> HIDE DEF s
        <5> QED BY <5>3, <5>4, <4>1
      <4> QED BY <4>2, <4>3
    <3>4. CASE j > u /\ i < u
      BY <3>4, <2>3, <1>0, <1>1
    <3>5. CASE j > u /\ i > u
      <4>1. i - 1 \in 1 .. n /\ j - 1 \in 1 .. n /\ i - 1 < j - 1 /\ s[i] = r[i - 1] /\ s[j] = r[j - 1]
        BY <3>5, <2>3, <2>8, <1>1
      <4> QED BY <4>1, <1>0, <3>5
    <3> QED BY <3>1, <3>2, <3>3, <3>4, <3>5, <1>1
  <2>9. ASSUME NEW x PROVE x \in Covered(s) <=> x \in Covered(r) \cup {index}
    <3>1. x \in Covered(r) <=> x \in Nat /\ \E j \in 1 .. n : r[j][1] <= x /\ x < r[j][2]
      BY <1>0, CoveredIff
    <3>2. x \in Covered(s) <=> x \in Nat /\ \E j \in 1 .. n + 1 : s[j][1] <= x /\ x < s[j][2]
      <4>1. n + 1 \in Nat
        BY <1>0
      <4> QED BY <4>1, <2>3, <2>6, CoveredIff
    <3>3. ASSUME x \in Covered(s) PROVE x \in Covered(r) \cup {index}
      <4>1. PICK j \in 1 .. n + 1 : x \in Nat /\ s[j][1] <= x /\ x < s[j][2]
        BY <3>2, <3>3
      <4>2. CASE j < u
        BY <4>1, <4>2, <2>3, <3>1
      <4>3. CASE j = u
        <5>1. index <= x /\ x < index + 1
          BY <4>1, <4>3, <2>3
        <5> QED BY <5>1, <4>1
      <4>4. CASE j > u
        BY <4>1, <4>4, <2>3, <3>1
      <4> QED BY <4>2, <4>3, <4>4, <1>1
    <3>4. ASSUME x \in Covered(r) PROVE x \in Covered(s)
      <4>1. PICK j \in 1 .. n : x \in Nat /\ r[j][1] <= x /\ x < r[j][2]
        BY <3>1, <3>4
      <4>2. CASE j < u
        <5>1. j \in 1 .. n + 1 /\ s[j] = r[j]
          BY <4>2, <2>3, <1>0
        <5> QED BY <5>1, <4>1, <3>2
      <4>3. CASE j >= u
        <5>1. j + 1 \in 1 .. n + 1 /\ j + 1 > u /\ (j + 1) - 1 = j
          BY <4>3, <1>0, <1>1
        <5>2. s[j + 1] = r[j]
          BY <5>1, <2>3
        <5> QED BY <5>1, <5>2, <4>1, <3>2
      <4> QED BY <4>2, <4>3, <1>1
    <3>5. ASSUME x = index PROVE x \in Covered(s)
      <4>1. s[u][1] <= x /\ x < s[u][2]
        BY <3>5, <2>3
      <4> QED BY <4>1, <1>1, <3>2, <3>5
    <3> QED BY <3>3, <3>4, <3>5
  <2>10. u \in 1 .. Len(s) /\ s[u][2] = index + 1
    BY <1>1, <2>3, <2>5
  <2>11. Covered(s) = Covered(r) \cup {index}
    BY <2>9
  <2>12. Absorb(r, index).list = s /\ Absorb(r, index).at = u
    BY <2>1
  <2> QED BY <2>12, <2>5, <2>7, <2>8, <2>10, <2>11
<1> QED BY <1>3, <1>4

\* merging the one touching pair leaves a list that is apart again and covers
\* the same indices
LEMMA JoinKeeps ==
  ASSUME NEW s \in Seq(Range2), NEW c \in Nat, NEW k \in 1 .. Len(s),
         \A j \in 1 .. Len(s) : c <= s[j][1] /\ s[j][1] < s[j][2],
         \A i, j \in 1 .. Len(s) : i < j => s[i][2] <= s[j][1],
         \A i, j \in 1 .. Len(s) : i < j /\ ~ (i = k /\ j = k + 1) => s[i][2] < s[j][1]
  PROVE  LET t == JoinNext(s, k) IN
         /\ t \in Seq(Range2)
         /\ Apart(t, c)
         /\ Covered(t) = Covered(s)
<1> DEFINE n == Len(s)
<1>0. /\ n \in Nat /\ DOMAIN s = 1 .. n /\ s \in [1 .. n -> Range2]
      /\ \A j \in 1 .. n : s[j][1] \in Nat /\ s[j][2] \in Nat
  <2>1. /\ n \in Nat /\ DOMAIN s = 1 .. n /\ s \in [1 .. n -> Range2]
    BY LenProperties
  <2>2. ASSUME NEW j \in 1 .. n PROVE s[j][1] \in Nat /\ s[j][2] \in Nat
    <3>1. s[j] \in Range2
      BY <2>1
    <3> QED BY <3>1 DEF Range2
  <2> QED BY <2>1, <2>2
<1> HIDE DEF n
<1>1. /\ k \in 1 .. n
      /\ \A j \in 1 .. n : c <= s[j][1] /\ s[j][1] < s[j][2]
      /\ \A i, j \in 1 .. n : i < j => s[i][2] <= s[j][1]
      /\ \A i, j \in 1 .. n : i < j /\ ~ (i = k /\ j = k + 1) => s[i][2] < s[j][1]
  BY DEF n
<1>2. CASE ~ (k < n /\ s[k][2] = s[k + 1][1])
  <2>1. JoinNext(s, k) = s
    BY <1>2 DEF JoinNext, n
  <2>2. Apart(s, c)
    <3>1. ASSUME NEW i \in 1 .. n, NEW j \in 1 .. n, i < j PROVE s[i][2] < s[j][1]
      <4>1. CASE i = k /\ j = k + 1
        <5>1. k < n /\ s[k][2] # s[k + 1][1] /\ s[i][2] <= s[j][1]
          BY <4>1, <1>0, <1>1, <1>2, <3>1
        <5> QED BY <5>1, <4>1, <1>0
      <4>2. CASE ~ (i = k /\ j = k + 1)
        BY <4>2, <3>1, <1>1
      <4> QED BY <4>1, <4>2
    <3> QED BY <3>1, <1>0, <1>1 DEF Apart
  <2> QED BY <2>1, <2>2
<1>3. CASE k < n /\ s[k][2] = s[k + 1][1]
  <2> DEFINE w == [s EXCEPT ![k] = <<s[k][1], s[k + 1][2]>>]
             t == EraseRange(w, k + 1)
  <2>1. JoinNext(s, k) = t
    BY <1>3 DEF JoinNext, n
  <2>2. k \in 1 .. n - 1 /\ k + 1 \in 1 .. n
    BY <1>0, <1>1, <1>3
  <2>3. /\ w \in [1 .. n -> Range2] /\ DOMAIN w = 1 .. n
        /\ w[k] = <<s[k][1], s[k + 1][2]>>
        /\ \A j \in 1 .. n : j # k => w[j] = s[j]
    BY <1>0, <1>1, <2>2 DEF Range2
  <2> HIDE DEF w
  <2>4. w \in Seq(Range2) /\ Len(w) = n
    BY <2>3, <1>0, FunctionIsSeq
  <2>5. t = [j \in 1 .. n - 1 |-> IF j < k + 1 THEN w[j] ELSE w[j + 1]]
    BY <2>4 DEF EraseRange
  <2> HIDE DEF t
  <2>6. /\ DOMAIN t = 1 .. n - 1
        /\ \A j \in 1 .. n - 1 : t[j][1] = IF j <= k THEN s[j][1] ELSE s[j + 1][1]
        /\ \A j \in 1 .. n - 1 : t[j][2] = IF j < k THEN s[j][2] ELSE s[j + 1][2]
    <3>1. DOMAIN t = 1 .. n - 1
      BY <2>5
    <3>2. ASSUME NEW j \in 1 .. n - 1
          PROVE  /\ t[j][1] = IF j <= k THEN s[j][1] ELSE s[j + 1][1]
                 /\ t[j][2] = IF j < k THEN s[j][2] ELSE s[j + 1][2]
      <4>1. CASE j < k
        <5>1. t[j] = w[j] /\ w[j] = s[j]
          BY <4>1, <2>5, <2>3, <2>2, <1>0
        <5> QED BY <5>1, <4>1
      <4>2. CASE j = k
        <5>1. t[j] = w[k]
          BY <4>2, <2>5, <2>2, <1>0
        <5> QED BY <5>1, <4>2, <2>3
      <4>3. CASE j > k
        <5>1. t[j] = w[j + 1] /\ w[j + 1] = s[j + 1]
          BY <4>3, <2>5, <2>3, <2>2, <1>0
        <5> QED BY <5>1, <4>3
      <4> QED BY <4>1, <4>2, <4>3, <2>2
    <3> QED BY <3>1, <3>2
  <2>7. \A j \in 1 .. n - 1 : t[j] \in Range2
    BY <2>5, <2>3, <2>2, <1>0
  <2>8. t \in Seq(Range2) /\ Len(t) = n - 1
    <3>1. n - 1 \in Nat
      BY <2>2, <1>0
    <3>2. t \in [1 .. n - 1 -> Range2]
      BY <2>5, <2>7
    <3> QED BY <3>1, <3>2, FunctionIsSeq
  <2>9. ASSUME NEW j \in 1 .. n - 1
        PROVE  t[j][1] \in Nat /\ t[j][2] \in Nat /\ c <= t[j][1] /\ t[j][1] < t[j][2]
    <3>0. j \in 1 .. n /\ j + 1 \in 1 .. n
      BY <1>0, <2>2
    <3>1. CASE j < k
      BY <3>0, <3>1, <2>6, <1>0, <1>1
    <3>2. CASE j = k
      <4>1. s[k][1] < s[k][2] /\ s[k + 1][1] < s[k + 1][2] /\ c <= s[k][1]
        BY <2>2, <1>1
      <4>2. t[j][1] = s[k][1] /\ t[j][2] = s[k + 1][2]
        BY <3>2, <2>6
      <4>3. s[k][1] \in Nat /\ s[k + 1][1] \in Nat /\ s[k + 1][2] \in Nat
        BY <2>2, <1>0, <1>1
      <4> QED BY <4>1, <4>2, <4>3, <1>3
    <3>3. CASE j > k
      <4>1. t[j][1] = s[j + 1][1] /\ t[j][2] = s[j + 1][2]
        BY <3>3, <2>6, <1>1
      <4> QED BY <4>1, <3>0, <1>0, <1>1
    <3> QED BY <3>1, <3>2, <3>3, <1>1
  <2>10. ASSUME NEW i \in 1 .. n - 1, NEW j \in 1 .. n - 1, i < j
         PROVE  t[i][2] < t[j][1]
    <3>0. i \in 1 .. n /\ i + 1 \in 1 .. n /\ j \in 1 .. n /\ j + 1 \in 1 .. n /\ i + 1 < j + 1
      BY <1>0, <2>2, <2>10
    <3>1. CASE i < k /\ j <= k
      BY <3>0, <3>1, <2>6, <1>1, <2>10
    <3>2. CASE i < k /\ j > k
      BY <3>0, <3>2, <2>6, <1>1, <2>10
    <3>3. CASE i >= k
      BY <3>0, <3>3, <2>6, <1>1, <2>10
    <3> QED BY <3>1, <3>2, <3>3, <1>1
  <2>11. Apart(t, c)
    BY <2>6, <2>9, <2>10 DEF Apart
  <2>12. ASSUME NEW x PROVE x \in Covered(t) <=> x \in Covered(s)
    <3>1. x \in Covered(s) <=> x \in Nat /\ \E j \in 1 .. n : s[j][1] <= x /\ x < s[j][2]
      BY <1>0, CoveredIff
    <3>2. x \in Covered(t) <=> x \in Nat /\ \E j \in 1 .. n - 1 : t[j][1] <= x /\ x < t[j][2]
      <4>1. n - 1 \in Nat
        BY <2>2, <1>0
      <4> QED BY <4>1, <2>6, <2>9, CoveredIff
    <3>3. ASSUME x \in Covered(t) PROVE x \in Covered(s)
      <4>1. PICK j \in 1 .. n - 1 : x \in Nat /\ t[j][1] <= x /\ x < t[j][2]
        BY <3>2, <3>3
      <4>0. j \in 1 .. n /\ j + 1 \in 1 .. n
        BY <1>0, <2>2
      <4>2. CASE j < k
        BY <4>0, <4>1, <4>2, <2>6, <3>1
      <4>3. CASE j = k
        <5>1. s[k][1] <= x /\ x < s[k + 1][2]
          BY <4>1, <4>3, <2>6
        <5>2. x < s[k][2] \/ s[k + 1][1] <= x
          BY <4>1, <1>3, <1>0, <2>2
        <5> QED BY <5>1, <5>2, <4>1, <2>2, <3>1, <1>1
      <4>4. CASE j > k
        BY <4>0, <4>1, <4>4, <2>6, <3>1
      <4> QED BY <4>2, <4>3, <4>4, <1>1
    <3>4. ASSUME x \in Covered(s) PROVE x \in Covered(t)
      <4>1. PICK j \in 1 .. n : x \in Nat /\ s[j][1] <= x /\ x < s[j][2]
        BY <3>1, <3>4
      <4>2. CASE j < k
        <5>1. j \in 1 .. n - 1 /\ t[j][1] = s[j][1] /\ t[j][2] = s[j][2]
          BY <4>2, <2>6, <2>2, <1>0
        <5> QED BY <5>1, <4>1, <3>2
      <4>3. CASE j = k \/ j = k + 1
        <5>1. s[k][1] <= s[j][1] /\ s[j][2] <= s[k + 1][2]
          <6>1. s[k][1] < s[k][2] /\ s[k + 1][1] < s[k + 1][2]
            BY <2>2, <1>1
          <6>2. s[k][1] \in Nat /\ s[k][2] \in Nat /\ s[k + 1][1] \in Nat /\ s[k + 1][2] \in Nat
            BY <2>2, <1>0, <1>1
          <6> QED BY <6>1, <6>2, <4>3, <1>3
        <5>2. t[k][1] <= x /\ x < t[k][2]
          <6>1. t[k][1] = s[k][1] /\ t[k][2] = s[k + 1][2]
            BY <2>2, <2>6
          <6>2. s[j][1] \in Nat /\ s[j][2] \in Nat /\ s[k][1] \in Nat /\ s[k + 1][2] \in Nat
            BY <1>0, <1>1, <2>2
          <6>3. s[k][1] <= x
            <7>1. s[k][1] <= s[j][1] /\ s[j][1] <= x /\ x \in Nat
              BY <5>1, <4>1
            <7> QED BY <7>1, <6>2
          <6>4. x < s[k + 1][2]
            <7>1. x < s[j][2] /\ s[j][2] <= s[k + 1][2] /\ x \in Nat
              BY <5>1, <4>1
            <7> QED BY <7>1, <6>2
          <6> QED BY <6>1, <6>3, <6>4
        <5> QED BY <5>2, <4>1, <2>2, <3>2
      <4>4. CASE j > k + 1
        <5>1. /\ j - 1 \in 1 .. n - 1 /\ j - 1 > k /\ (j - 1) + 1 = j
          BY <4>4, <2>2, <1>0
        <5>2. t[j - 1][1] = s[j][1] /\ t[j - 1][2] = s[j][2]
          BY <5>1, <2>6, <1>1
        <5> QED BY <5>1, <5>2, <4>1, <3>2
      <4> QED BY <4>2, <4>3, <4>4, <1>1
    <3> QED BY <3>3, <3>4
  <2> QED BY <2>1, <2>8, <2>11, <2>12
<1> QED BY <1>2, <1>3

\* insert_into_ranges (orderer.hpp:38): the list stays sorted and apart, and
\* covers one index more
LEMMA InsertIntoRangesAdds ==
  ASSUME NEW r \in Seq(Range2), NEW c \in Nat, Apart(r, c),
         NEW index \in Nat, c <= index, index \notin Covered(r)
  PROVE  /\ InsertIntoRanges(r, index) \in Seq(Range2)
         /\ Apart(InsertIntoRanges(r, index), c)
         /\ Covered(InsertIntoRanges(r, index)) = Covered(r) \cup {index}
<1> DEFINE s == Absorb(r, index).list
           k == Absorb(r, index).at
<1>1. /\ s \in Seq(Range2)
      /\ k \in 1 .. Len(s)
      /\ \A j \in 1 .. Len(s) : c <= s[j][1] /\ s[j][1] < s[j][2]
      /\ \A i, j \in 1 .. Len(s) : i < j => s[i][2] <= s[j][1]
      /\ \A i, j \in 1 .. Len(s) : i < j /\ ~ (i = k /\ j = k + 1) => s[i][2] < s[j][1]
      /\ Covered(s) = Covered(r) \cup {index}
  BY AbsorbAdds
<1>2. InsertIntoRanges(r, index) = JoinNext(s, k)
  BY DEF InsertIntoRanges
<1> HIDE DEF s, k
<1>3. /\ JoinNext(s, k) \in Seq(Range2)
      /\ Apart(JoinNext(s, k), c)
      /\ Covered(JoinNext(s, k)) = Covered(s)
  BY <1>1, JoinKeeps
<1> QED BY <1>1, <1>2, <1>3

\* next() (orderer.hpp:145): dropping the head of the first range drops
\* exactly the consumed index
LEMMA ConsumeDrops ==
  ASSUME NEW r \in Seq(Range2), NEW c \in Nat, Apart(r, c)
  PROVE  /\ ConsumeBelow(r, c + 1) \in Seq(Range2)
         /\ Apart(ConsumeBelow(r, c + 1), c + 1)
         /\ Covered(ConsumeBelow(r, c + 1)) = Covered(r) \ {c}
<1> DEFINE n == Len(r)
           t == ConsumeBelow(r, c + 1)
<1>0. /\ n \in Nat /\ DOMAIN r = 1 .. n /\ r \in [1 .. n -> Range2]
      /\ \A j \in 1 .. n : r[j][1] \in Nat /\ r[j][2] \in Nat
      /\ \A j \in 1 .. n : c <= r[j][1] /\ r[j][1] < r[j][2]
      /\ \A j, k \in 1 .. n : j < k => r[j][2] < r[k][1]
  BY RangeFacts
<1>1. r = <<>> <=> n = 0
  BY EmptySeq
<1> HIDE DEF n
<1>2. \A j \in 2 .. n : c + 1 < r[j][1]
  <2> SUFFICES ASSUME NEW j \in 2 .. n PROVE c + 1 < r[j][1]
    OBVIOUS
  <2>1. 1 \in 1 .. n /\ j \in 1 .. n /\ 1 < j
    BY <1>0
  <2>2. c <= r[1][1] /\ r[1][1] < r[1][2] /\ r[1][2] < r[j][1]
    BY <2>1, <1>0
  <2>3. r[1][1] \in Nat /\ r[1][2] \in Nat /\ r[j][1] \in Nat
    BY <2>1, <1>0
  <2> QED BY <2>2, <2>3
<1>3. \A x : x \in Covered(r) <=> x \in Nat /\ \E j \in 1 .. n : r[j][1] <= x /\ x < r[j][2]
  BY <1>0, CoveredIff
<1>4. CASE r = <<>> \/ c < r[1][1]
  <2>1. t = r
    <3>1. n > 0 => r[1][1] \in Nat
      BY <1>0
    <3> QED BY <1>4, <1>1, <1>0, <3>1 DEF ConsumeBelow
  <2>2. \A j \in 1 .. n : c + 1 <= r[j][1]
    <3> SUFFICES ASSUME NEW j \in 1 .. n PROVE c + 1 <= r[j][1]
      OBVIOUS
    <3>1. CASE j = 1
      BY <3>1, <1>4, <1>1, <1>0
    <3>2. CASE j # 1
      BY <3>2, <1>2, <1>0
    <3> QED BY <3>1, <3>2
  <2>3. Apart(r, c + 1)
    BY <2>2, <1>0 DEF Apart
  <2>4. c \notin Covered(r)
    BY <2>2, <1>3, <1>0
  <2> QED BY <2>1, <2>3, <2>4
<1>5. CASE r # <<>> /\ ~ (c < r[1][1])
  <2>1. 1 \in 1 .. n /\ r[1][1] = c /\ c < r[1][2] /\ r[1][2] \in Nat
    <3>1. 1 \in 1 .. n
      BY <1>5, <1>1, <1>0
    <3> QED BY <3>1, <1>5, <1>0
  <2>2. CASE r[1][2] <= c + 1
    <3>1. r[1][2] = c + 1
      BY <2>1, <2>2
    <3>2. t = [j \in 1 .. n - 1 |-> r[j + 1]]
      BY <1>5, <2>1, <2>2, <1>0 DEF ConsumeBelow, EraseRange, n
    <3> HIDE DEF t
    <3>3. /\ t \in [1 .. n - 1 -> Range2] /\ DOMAIN t = 1 .. n - 1
          /\ \A j \in 1 .. n - 1 : t[j] = r[j + 1] /\ j + 1 \in 2 .. n
      BY <3>2, <1>0
    <3>4. t \in Seq(Range2)
      <4>1. n - 1 \in Nat
        BY <2>1, <1>0
      <4> QED BY <4>1, <3>3, FunctionIsSeq
    <3>5. Apart(t, c + 1)
      <4>1. ASSUME NEW j \in 1 .. n - 1 PROVE c + 1 <= t[j][1] /\ t[j][1] < t[j][2]
        BY <3>3, <1>2, <1>0
      <4>2. ASSUME NEW i \in 1 .. n - 1, NEW j \in 1 .. n - 1, i < j
            PROVE  t[i][2] < t[j][1]
        BY <4>2, <3>3, <1>0
      <4> QED BY <4>1, <4>2, <3>3 DEF Apart
    <3>6. ASSUME NEW x PROVE x \in Covered(t) <=> x \in Covered(r) \ {c}
      <4>1. x \in Covered(t) <=> x \in Nat /\ \E j \in 1 .. n - 1 : t[j][1] <= x /\ x < t[j][2]
        <5>1. n - 1 \in Nat
          BY <2>1, <1>0
        <5>2. \A j \in 1 .. n - 1 : t[j][1] \in Nat /\ t[j][2] \in Nat
          BY <3>3, <1>0
        <5> QED BY <5>1, <5>2, <3>3, CoveredIff
      <4>2. ASSUME x \in Covered(t) PROVE x \in Covered(r) /\ x # c
        <5>1. PICK j \in 1 .. n - 1 : x \in Nat /\ t[j][1] <= x /\ x < t[j][2]
          BY <4>1, <4>2
        <5>2. j + 1 \in 2 .. n /\ r[j + 1][1] <= x /\ x < r[j + 1][2] /\ c + 1 < r[j + 1][1]
          BY <5>1, <3>3, <1>2
        <5>3. r[j + 1][1] \in Nat /\ j + 1 \in 1 .. n
          BY <5>2, <1>0
        <5> QED BY <5>1, <5>2, <5>3, <1>3
      <4>3. ASSUME x \in Covered(r), x # c PROVE x \in Covered(t)
        <5>1. PICK j \in 1 .. n : x \in Nat /\ r[j][1] <= x /\ x < r[j][2]
          BY <1>3, <4>3
        <5>2. j # 1
          BY <5>1, <4>3, <2>1, <3>1
        <5>3. j - 1 \in 1 .. n - 1 /\ (j - 1) + 1 = j
          BY <5>1, <5>2, <1>0
        <5>4. t[j - 1] = r[j]
          BY <5>3, <3>3
        <5> QED BY <5>1, <5>3, <5>4, <4>1
      <4> QED BY <4>2, <4>3
    <3>7. Covered(t) = Covered(r) \ {c}
      BY <3>6
    <3> QED BY <3>4, <3>5, <3>7 DEF t
  <2>3. CASE ~ (r[1][2] <= c + 1)
    <3>1. t = [r EXCEPT ![1] = <<c + 1, r[1][2]>>]
      BY <1>5, <2>1, <2>3 DEF ConsumeBelow
    <3> HIDE DEF t
    <3>2. /\ t \in [1 .. n -> Range2] /\ DOMAIN t = 1 .. n
          /\ t[1] = <<c + 1, r[1][2]>>
          /\ \A j \in 1 .. n : j # 1 => t[j] = r[j]
      BY <3>1, <2>1, <1>0 DEF Range2
    <3>3. t \in Seq(Range2)
      BY <3>2, <1>0, FunctionIsSeq
    <3>4. /\ \A j \in 1 .. n : t[j][2] = r[j][2]
          /\ \A j \in 1 .. n : t[j][1] = IF j = 1 THEN c + 1 ELSE r[j][1]
      BY <3>2
    <3>5. Apart(t, c + 1)
      <4>1. ASSUME NEW j \in 1 .. n PROVE c + 1 <= t[j][1] /\ t[j][1] < t[j][2]
        <5>1. CASE j = 1
          BY <5>1, <3>4, <2>1, <2>3
        <5>2. CASE j # 1
          BY <5>2, <3>4, <1>2, <1>0
        <5> QED BY <5>1, <5>2
      <4>2. ASSUME NEW i \in 1 .. n, NEW j \in 1 .. n, i < j
            PROVE  t[i][2] < t[j][1]
        BY <4>2, <3>4, <1>0
      <4> QED BY <4>1, <4>2, <3>2 DEF Apart
    <3>6. ASSUME NEW x PROVE x \in Covered(t) <=> x \in Covered(r) \ {c}
      <4>1. x \in Covered(t) <=> x \in Nat /\ \E j \in 1 .. n : t[j][1] <= x /\ x < t[j][2]
        <5>1. \A j \in 1 .. n : t[j][1] \in Nat /\ t[j][2] \in Nat
          BY <3>4, <1>0
        <5> QED BY <5>1, <3>2, <1>0, CoveredIff
      <4>2. ASSUME x \in Covered(t) PROVE x \in Covered(r) /\ x # c
        <5>1. PICK j \in 1 .. n : x \in Nat /\ t[j][1] <= x /\ x < t[j][2]
          BY <4>1, <4>2
        <5>2. CASE j = 1
          BY <5>1, <5>2, <3>4, <2>1, <1>3
        <5>3. CASE j # 1
          <6>1. j \in 2 .. n /\ c + 1 < r[j][1] /\ r[j][1] <= x /\ x < r[j][2] /\ r[j][1] \in Nat
            BY <5>1, <5>3, <3>4, <1>0, <1>2
          <6> QED BY <6>1, <5>1, <1>3
        <5> QED BY <5>2, <5>3
      <4>3. ASSUME x \in Covered(r), x # c PROVE x \in Covered(t)
        <5>1. PICK j \in 1 .. n : x \in Nat /\ r[j][1] <= x /\ x < r[j][2]
          BY <1>3, <4>3
        <5>2. t[j][1] <= x /\ x < t[j][2]
          BY <5>1, <3>4, <4>3, <2>1, <1>0
        <5> QED BY <5>1, <5>2, <4>1
      <4> QED BY <4>2, <4>3
    <3>7. Covered(t) = Covered(r) \ {c}
      BY <3>6
    <3> QED BY <3>3, <3>5, <3>7 DEF t
  <2> QED BY <2>2, <2>3
<1> QED BY <1>4, <1>5

-----------------------------------------------------------------------------
(* The ring and its window.                                                *)

\* The inductive invariant: the properties of Orderer together, and the length
\* of the history.
IInv == /\ TypeOK
        /\ Len(out) = cur
        /\ CountIsExact
        /\ RangesApart
        /\ RangesAreHeldIndices

\* The buffer has at least one slot, whichever size it was given.
LEMMA SizeType ==
  ASSUME TypeOK
  PROVE  /\ size \in Nat \ {0} /\ cur \in Nat
         /\ Window \subseteq Nat
         /\ \A i \in Nat : Slot(i) \in 0 .. size - 1
         /\ IsFiniteSet(HeldIndices)
         /\ Cardinality(HeldIndices) \in Nat
<1>1. size \in Nat \ {0} /\ cur \in Nat
  BY OrdererAssumption DEF TypeOK
<1>2. \A i \in Nat : Slot(i) \in 0 .. size - 1
  BY <1>1, SlotType DEF Slot
<1>3. IsFiniteSet(HeldIndices)
  <2>1. IsFiniteSet(Window)
    BY <1>1, FS_Interval DEF Window
  <2> QED BY <2>1, FS_Subset DEF HeldIndices
<1>4. Window \subseteq Nat
  BY <1>1 DEF Window
<1> QED BY <1>1, <1>2, <1>3, <1>4, FS_CardinalityType

\* filling the slot of a free index of the window makes that index held
LEMMA FillHolds ==
  ASSUME TypeOK, NEW index \in Window, NEW val \in Values,
         data[Slot(index)] = None,
         data' = [data EXCEPT ![Slot(index)] = val], size' = size, cur' = cur
  PROVE  /\ data' \in [0 .. size - 1 -> Values \cup {None}]
         /\ index \notin HeldIndices
         /\ HeldIndices' = HeldIndices \cup {index}
         /\ \A i \in HeldIndices : data'[Slot(i)] = data[Slot(i)]
         /\ data'[Slot(index)] = val
<1>0. /\ size \in Nat \ {0} /\ cur \in Nat /\ Window \subseteq Nat
      /\ \A i \in Nat : Slot(i) \in 0 .. size - 1
      /\ data \in [0 .. size - 1 -> Values \cup {None}]
  BY SizeType DEF TypeOK
<1>1. Window' = Window /\ \A i : Slot(i)' = Slot(i)
  BY DEF Window, Slot
<1>2. \A i \in Window : i # index => Slot(i) # Slot(index)
  BY <1>0, SlotInjective DEF Window, Slot
<1>3. \A i \in Window : data'[Slot(i)] = IF i = index THEN val ELSE data[Slot(i)]
  BY <1>0, <1>2
<1>4. val # None
  BY OrdererAssumption
<1>5. ASSUME NEW i PROVE i \in HeldIndices' <=> i \in HeldIndices \cup {index}
  BY <1>1, <1>3, <1>4 DEF HeldIndices
<1>6. data' \in [0 .. size - 1 -> Values \cup {None}]
  BY <1>0
<1> QED BY <1>3, <1>5, <1>6 DEF HeldIndices

\* emptying the head and moving on leaves the other held indices held: the
\* index that enters the window meets the slot that was just emptied
LEMMA TakeReleases ==
  ASSUME TypeOK, data[Slot(cur)] # None,
         data' = [data EXCEPT ![Slot(cur)] = None], size' = size, cur' = cur + 1
  PROVE  /\ data' \in [0 .. size - 1 -> Values \cup {None}]
         /\ cur \in HeldIndices
         /\ HeldIndices' = HeldIndices \ {cur}
         /\ \A i \in HeldIndices' : data'[Slot(i)] = data[Slot(i)]
<1>0. /\ size \in Nat \ {0} /\ cur \in Nat /\ Window \subseteq Nat
      /\ \A i \in Nat : Slot(i) \in 0 .. size - 1
      /\ data \in [0 .. size - 1 -> Values \cup {None}]
  BY SizeType DEF TypeOK
<1>1. /\ Window' = (Window \ {cur}) \cup {cur + size}
      /\ cur \in Window /\ cur + size \notin Window /\ cur + size \in Nat
      /\ \A i : Slot(i)' = Slot(i)
  <2>1. ASSUME NEW i PROVE i \in Window' <=> i \in (Window \ {cur}) \cup {cur + size}
    <3>1. /\ i \in Window' <=> i \in Int /\ cur + 1 <= i /\ i <= cur + 1 + size - 1
          /\ i \in Window <=> i \in Int /\ cur <= i /\ i <= cur + size - 1
      BY <1>0 DEF Window
    <3>2. CASE i \in Int
      <4>1. (cur + 1 <= i /\ i <= cur + 1 + size - 1)
              <=> (cur <= i /\ i <= cur + size - 1 /\ i # cur) \/ i = cur + size
        BY <3>2, <1>0
      <4> QED BY <4>1, <3>1, <3>2
    <3>3. CASE i \notin Int
      BY <3>1, <3>3, <1>0
    <3> QED BY <3>2, <3>3
  <2>2. cur \in Window /\ cur + size \notin Window /\ cur + size \in Nat
    BY <1>0 DEF Window
  <2>3. \A i : Slot(i)' = Slot(i)
    BY DEF Slot
  <2> QED BY <2>1, <2>2, <2>3
<1>2. \A i \in Window : i # cur => Slot(i) # Slot(cur)
  BY <1>0, <1>1, SlotInjective DEF Window, Slot
<1>3. Slot(cur + size) = Slot(cur)
  BY <1>0, SlotPeriodic DEF Slot
<1>4. \A i \in Window \ {cur} : data'[Slot(i)] = data[Slot(i)]
  BY <1>0, <1>2
<1>5. data'[Slot(cur + size)] = None
  BY <1>0, <1>3
<1>6. ASSUME NEW i PROVE i \in HeldIndices' <=> i \in HeldIndices \ {cur}
  BY <1>1, <1>4, <1>5 DEF HeldIndices
<1>7. \A i \in HeldIndices' : data'[Slot(i)] = data[Slot(i)]
  BY <1>6, <1>4 DEF HeldIndices
<1>8. data' \in [0 .. size - 1 -> Values \cup {None}]
  BY <1>0
<1>9. cur \in HeldIndices
  BY <1>1 DEF HeldIndices
<1> QED BY <1>6, <1>7, <1>8, <1>9

\* resizing an orderer that holds nothing yields one that holds nothing
LEMMA ResizeEmpty ==
  ASSUME TypeOK, CountIsExact, count = 0, NEW n \in Sizes,
         size' = n, cur' = cur,
         data' = [s \in 0 .. n - 1 |-> IF s < size THEN data[s] ELSE None]
  PROVE  /\ data' \in [0 .. n - 1 -> Values \cup {None}]
         /\ HeldIndices = {} /\ HeldIndices' = {}
<1>0. /\ size \in Nat \ {0} /\ cur \in Nat /\ n \in Nat \ {0}
      /\ data \in [0 .. size - 1 -> Values \cup {None}]
  BY SizeType, OrdererAssumption DEF TypeOK
<1>1. HeldIndices = {}
  BY SizeType, FS_EmptySet DEF CountIsExact
<1>2. \A s \in 0 .. size - 1 : data[s] = None
  <2> SUFFICES ASSUME NEW s \in 0 .. size - 1 PROVE data[s] = None
    OBVIOUS
  <2>1. PICK i \in cur .. cur + size - 1 : i % size = s
    BY <1>0, SlotSurjective
  <2> QED BY <2>1, <1>1 DEF HeldIndices, Window, Slot
<1>3. \A s \in 0 .. n - 1 : data'[s] = None
  BY <1>0, <1>2
<1>4. \A i \in Window' : Slot(i)' \in 0 .. n - 1
  <2>1. \A i \in Window' : i \in Nat
    BY <1>0 DEF Window
  <2> QED BY <2>1, <1>0, SlotType DEF Slot
<1>5. HeldIndices' = {}
  BY <1>3, <1>4 DEF HeldIndices
<1> QED BY <1>0, <1>1, <1>2, <1>5

-----------------------------------------------------------------------------
(* The invariant.                                                          *)

\* The empty orderer satisfies the inductive invariant.
LEMMA InitIInv == Init => IInv
<1> SUFFICES ASSUME Init PROVE IInv
  OBVIOUS
<1>1. TypeOK
  <2>1. ranges \in Seq(Nat \X Nat) /\ out \in Seq(Values)
    BY EmptySeq DEF Init
  <2> QED BY <2>1 DEF Init, TypeOK
<1>2. HeldIndices = {}
  BY <1>1, SizeType DEF Init, HeldIndices, Window
<1>3. Len(out) = cur /\ CountIsExact
  BY <1>2, FS_EmptySet, EmptySeq DEF Init, CountIsExact
<1>4. ranges = <<>> /\ DOMAIN ranges = {}
  BY DEF Init
<1>5. RangesApart /\ RangesAreHeldIndices
  BY <1>2, <1>4 DEF RangesApart, Apart, RangesAreHeldIndices, Covered
<1> QED BY <1>1, <1>3, <1>5 DEF IInv

\* an add() that is taken
Accept(index, val) ==
  /\ cur <= index /\ index < cur + size
  /\ data[Slot(index)] = None
  /\ data' = [data EXCEPT ![Slot(index)] = val]
  /\ count' = count + 1
  /\ ranges' = InsertIntoRanges(ranges, index)
  /\ UNCHANGED <<size, cur, out>>

\* add() of an index that is in the window and free keeps the invariant.
LEMMA AcceptKeepsIInv ==
  ASSUME IInv, NEW index \in Indices, NEW val \in Values, Accept(index, val)
  PROVE  IInv'
<1>0. TypeOK /\ index \in Window /\ index \in Nat /\ cur <= index
  BY OrdererAssumption DEF IInv, Accept, Window, TypeOK
<1>1. /\ data' \in [0 .. size - 1 -> Values \cup {None}]
      /\ index \notin HeldIndices
      /\ HeldIndices' = HeldIndices \cup {index}
  BY <1>0, FillHolds DEF Accept
<1>2. /\ ranges' \in Seq(Nat \X Nat)
      /\ Apart(ranges', cur)
      /\ Covered(ranges') = Covered(ranges) \cup {index}
  BY <1>0, <1>1, InsertIntoRangesAdds
     DEF IInv, TypeOK, Accept, RangesApart, RangesAreHeldIndices, Range2
<1>3. TypeOK'
  BY <1>0, <1>1, <1>2 DEF TypeOK, Accept
<1>4. CountIsExact'
  BY <1>0, <1>1, SizeType, FS_AddElement DEF IInv, CountIsExact, Accept
<1>5. RangesApart' /\ RangesAreHeldIndices'
  BY <1>1, <1>2 DEF IInv, RangesApart, RangesAreHeldIndices, Accept
<1>6. (Len(out) = cur)'
  BY DEF IInv, Accept
<1> QED BY <1>3, <1>4, <1>5, <1>6 DEF IInv

\* a next() that returns an element
Deliver ==
  /\ data[Slot(cur)] # None
  /\ data' = [data EXCEPT ![Slot(cur)] = None]
  /\ count' = count - 1
  /\ cur' = cur + 1
  /\ ranges' = ConsumeBelow(ranges, cur + 1)
  /\ out' = Append(out, data[Slot(cur)])
  /\ UNCHANGED size

\* next() that hands out a value keeps the invariant.
LEMMA DeliverKeepsIInv ==
  ASSUME IInv, Deliver
  PROVE  IInv'
<1>0. TypeOK
  BY DEF IInv
<1>1. /\ data' \in [0 .. size - 1 -> Values \cup {None}]
      /\ cur \in HeldIndices
      /\ HeldIndices' = HeldIndices \ {cur}
  BY <1>0, TakeReleases DEF Deliver
<1>2. /\ ranges' \in Seq(Nat \X Nat)
      /\ Apart(ranges', cur + 1)
      /\ Covered(ranges') = Covered(ranges) \ {cur}
  BY <1>0, ConsumeDrops DEF IInv, TypeOK, Deliver, RangesApart, Range2
<1>3. Cardinality(HeldIndices') = Cardinality(HeldIndices) - 1 /\ Cardinality(HeldIndices') \in Nat
  <2>1. IsFiniteSet(HeldIndices \ {cur}) /\ Cardinality(HeldIndices \ {cur}) = Cardinality(HeldIndices) - 1
    BY <1>0, <1>1, SizeType, FS_RemoveElement
  <2> QED BY <2>1, <1>1, FS_CardinalityType
<1>4. CountIsExact' /\ count' \in Nat
  BY <1>3 DEF IInv, CountIsExact, Deliver
<1>5. /\ out' \in Seq(Values) /\ Len(out') = Len(out) + 1
  <2>1. data[Slot(cur)] \in Values /\ out \in Seq(Values)
    BY <1>0, SizeType DEF Deliver, TypeOK
  <2> QED BY <2>1, AppendProperties DEF Deliver
<1>6. TypeOK'
  BY <1>0, <1>1, <1>2, <1>4, <1>5 DEF TypeOK, Deliver
<1>7. RangesApart' /\ RangesAreHeldIndices'
  BY <1>1, <1>2 DEF IInv, RangesApart, RangesAreHeldIndices, Deliver
<1>8. (Len(out) = cur)'
  BY <1>5 DEF IInv, Deliver
<1> QED BY <1>4, <1>6, <1>7, <1>8 DEF IInv

\* set_size() of an empty orderer keeps the invariant.
LEMMA ResizeKeepsIInv ==
  ASSUME IInv, NEW n \in Sizes, count = 0, size' = n,
         data' = [s \in 0 .. n - 1 |-> IF s < size THEN data[s] ELSE None],
         UNCHANGED <<cur, count, ranges, out>>
  PROVE  IInv'
<1>1. /\ data' \in [0 .. n - 1 -> Values \cup {None}]
      /\ HeldIndices = {} /\ HeldIndices' = {}
  BY ResizeEmpty DEF IInv
<1> QED BY <1>1 DEF IInv, TypeOK, CountIsExact, RangesApart, RangesAreHeldIndices

\* A step that changes nothing but the answer keeps the invariant.
LEMMA StutterKeepsIInv ==
  ASSUME IInv, UNCHANGED <<data, size, cur, count, ranges, out>>
  PROVE  IInv'
<1>1. TypeOK'
  BY DEF IInv, TypeOK
<1>2. HeldIndices' = HeldIndices
  BY DEF HeldIndices, Window, Slot
<1>3. (Len(out) = cur)' /\ CountIsExact'
  BY <1>2 DEF IInv, CountIsExact
<1>4. RangesApart' /\ RangesAreHeldIndices'
  BY <1>2 DEF IInv, RangesApart, Apart, RangesAreHeldIndices, Covered
<1> QED BY <1>1, <1>3, <1>4 DEF IInv

\* The invariant is inductive.
LEMMA NextKeepsIInv == IInv /\ [Next]_vars => IInv'
<1> SUFFICES ASSUME IInv, [Next]_vars PROVE IInv'
  OBVIOUS
<1>1. ASSUME NEW index \in Indices, NEW val \in Values, Add(index, val)
      PROVE  IInv'
  <2>1. Accept(index, val) \/ UNCHANGED <<data, size, cur, count, ranges, out>>
    BY <1>1 DEF Add, Reject, Accept
  <2> QED BY <2>1, AcceptKeepsIInv, StutterKeepsIInv
<1>2. ASSUME TakeNext PROVE IInv'
  <2>1. Deliver \/ UNCHANGED <<data, size, cur, count, ranges, out>>
    BY <1>2 DEF TakeNext, Deliver
  <2> QED BY <2>1, DeliverKeepsIInv, StutterKeepsIInv
<1>3. ASSUME NEW n \in Sizes, SetSize(n) PROVE IInv'
  <2>1. CASE count # 0
    BY <2>1, <1>3, StutterKeepsIInv DEF SetSize
  <2>2. CASE count = 0
    BY <2>2, <1>3, ResizeKeepsIInv DEF SetSize
  <2> QED BY <2>1, <2>2
<1>4. CASE UNCHANGED vars
  BY <1>4, StutterKeepsIInv DEF vars
<1> QED BY <1>1, <1>2, <1>3, <1>4 DEF Next

\* IInv holds in every reachable state, for every set of sizes, values and
\* indices.
THEOREM OrdererInvariant == Spec => []IInv
<1> QED BY InitIInv, NextKeepsIInv, PTL DEF Spec

\* The types of the orderer's fields (orderer.hpp:24-36) hold for ever.
THEOREM OrdererTypeOK == Spec => []TypeOK
<1>1. IInv => TypeOK
  BY DEF IInv
<1> QED BY <1>1, OrdererInvariant, PTL

\* The held ranges (orderer.hpp:27) are sorted, disjoint and not adjacent, and
\* list exactly the indices whose slot is full.
THEOREM OrdererRanges == Spec => [](RangesApart /\ RangesAreHeldIndices)
<1>1. IInv => RangesApart /\ RangesAreHeldIndices
  BY DEF IInv
<1> QED BY <1>1, OrdererInvariant, PTL

\* _current_count is the number of full slots (orderer.hpp:107, 142).
THEOREM OrdererCount == Spec => []CountIsExact
<1>1. IInv => CountIsExact
  BY DEF IInv
<1> QED BY <1>1, OrdererInvariant, PTL

\* get_contained() (orderer.hpp:159) reports exactly what has been received,
\* as a prefix from 0 and maximal runs above it.
THEOREM OrdererContained == Spec => []ContainedIsExact
<1>1. IInv => ContainedIsExact
  <2> SUFFICES ASSUME IInv PROVE ContainedIsExact
    OBVIOUS
  <2> DEFINE n == Len(ranges)
  <2>0. TypeOK /\ cur \in Nat /\ ranges \in Seq(Range2) /\ Covered(ranges) = HeldIndices
    BY SizeType DEF IInv, TypeOK, RangesAreHeldIndices, Range2
  <2>1. /\ n \in Nat /\ DOMAIN ranges = 1 .. n /\ ranges \in [1 .. n -> Range2]
        /\ \A j \in 1 .. n : ranges[j][1] \in Nat /\ ranges[j][2] \in Nat
        /\ \A j \in 1 .. n : cur <= ranges[j][1] /\ ranges[j][1] < ranges[j][2]
        /\ \A j, k \in 1 .. n : j < k => ranges[j][2] < ranges[k][1]
    BY <2>0, RangeFacts DEF IInv, RangesApart
  <2>2. ranges = <<>> <=> n = 0
    BY <2>0, EmptySeq
  <2> HIDE DEF n
  <2>3. \A x : x \in HeldIndices <=> x \in Nat /\ \E j \in 1 .. n : ranges[j][1] <= x /\ x < ranges[j][2]
    BY <2>0, <2>1, CoveredIff
  <2>4. CASE ranges # <<>> /\ ranges[1][1] = cur
    <3> DEFINE t == [ranges EXCEPT ![1] = <<0, ranges[1][2]>>]
    <3>1. Contained = t
      BY <2>4 DEF Contained
    <3>2. 1 \in 1 .. n
      BY <2>1, <2>2, <2>4
    <3>3. /\ DOMAIN t = 1 .. n /\ t \in [1 .. n -> Range2]
          /\ \A j \in 1 .. n : t[j][1] = IF j = 1 THEN 0 ELSE ranges[j][1]
          /\ \A j \in 1 .. n : t[j][2] = ranges[j][2]
      BY <2>1, <3>2 DEF Range2
    <3> HIDE DEF t
    <3>4. Len(t) = n
      BY <3>3, <2>1, FunctionIsSeq
    <3>5. \A x : x \in Covered(t) <=> x \in Nat /\ \E j \in 1 .. n : t[j][1] <= x /\ x < t[j][2]
      <4>1. \A j \in 1 .. n : t[j][1] \in Nat /\ t[j][2] \in Nat
        BY <3>3, <2>1
      <4> QED BY <4>1, <3>3, <2>1, CoveredIff
    <3>6. ASSUME NEW x PROVE x \in Covered(t) <=> x \in (0 .. cur - 1) \cup HeldIndices
      <4>1. ASSUME x \in Covered(t) PROVE x \in (0 .. cur - 1) \cup HeldIndices
        <5>1. PICK j \in 1 .. n : x \in Nat /\ t[j][1] <= x /\ x < t[j][2]
          BY <3>5, <4>1
        <5>2. CASE j = 1
          BY <5>1, <5>2, <3>3, <2>4, <2>3, <2>0
        <5>3. CASE j # 1
          BY <5>1, <5>3, <3>3, <2>3
        <5> QED BY <5>2, <5>3
      <4>2. ASSUME x \in 0 .. cur - 1 PROVE x \in Covered(t)
        <5>1. ranges[1][1] < ranges[1][2] /\ ranges[1][2] \in Nat
          BY <2>1, <3>2
        <5>2. t[1][1] <= x /\ x < t[1][2] /\ x \in Nat
          BY <5>1, <4>2, <3>2, <3>3, <2>4, <2>0
        <5> QED BY <5>2, <3>2, <3>5
      <4>3. ASSUME x \in HeldIndices PROVE x \in Covered(t)
        <5>1. PICK j \in 1 .. n : x \in Nat /\ ranges[j][1] <= x /\ x < ranges[j][2]
          BY <2>3, <4>3
        <5>2. t[j][1] <= x /\ x < t[j][2]
          BY <5>1, <3>3, <2>1
        <5> QED BY <5>1, <5>2, <3>5
      <4> QED BY <4>1, <4>2, <4>3
    <3>7. \A k \in 1 .. n - 1 : t[k][2] < t[k + 1][1]
      <4> SUFFICES ASSUME NEW k \in 1 .. n - 1 PROVE t[k][2] < t[k + 1][1]
        OBVIOUS
      <4>1. k \in 1 .. n /\ k + 1 \in 1 .. n /\ k < k + 1 /\ k + 1 # 1
        BY <2>1
      <4> QED BY <4>1, <3>3, <2>1
    <3>8. t[1][1] = 0
      BY <3>2, <3>3
    <3> QED BY <3>1, <3>4, <3>6, <3>7, <3>8 DEF ContainedIsExact
  <2>5. CASE ~ (ranges # <<>> /\ ranges[1][1] = cur)
    <3> DEFINE p == <<(<<0, cur>>)>>
               t == p \o ranges
    <3>1. Contained = t
      BY <2>5 DEF Contained
    <3>2. p \in Seq(Range2) /\ Len(p) = 1 /\ p[1] = <<0, cur>>
      BY <2>0 DEF Range2
    <3> HIDE DEF p
    <3>3. /\ Len(t) = n + 1 /\ DOMAIN t = 1 .. n + 1
          /\ t[1] = <<0, cur>>
          /\ \A j \in 2 .. n + 1 : t[j] = ranges[j - 1] /\ j - 1 \in 1 .. n
      <4>1. /\ t \in Seq(Range2) /\ Len(t) = Len(p) + Len(ranges)
            /\ \A i \in 1 .. Len(p) + Len(ranges) :
                 t[i] = IF i <= Len(p) THEN p[i] ELSE ranges[i - Len(p)]
        BY <3>2, <2>0, ConcatProperties
      <4>2. DOMAIN t = 1 .. Len(t)
        BY <4>1, LenProperties
      <4> QED BY <4>1, <4>2, <3>2, <2>1 DEF n
    <3> HIDE DEF t
    <3>4. \A x : x \in Covered(t) <=> x \in Nat /\ \E j \in 1 .. n + 1 : t[j][1] <= x /\ x < t[j][2]
      <4>1. ASSUME NEW j \in 1 .. n + 1 PROVE t[j][1] \in Nat /\ t[j][2] \in Nat
        <5>1. CASE j = 1
          BY <5>1, <3>3, <2>0
        <5>2. CASE j # 1
          <6>1. j \in 2 .. n + 1
            BY <5>2, <2>1
          <6> QED BY <6>1, <3>3, <2>1
        <5> QED BY <5>1, <5>2
      <4>2. n + 1 \in Nat
        BY <2>1
      <4> QED BY <4>1, <4>2, <3>3, CoveredIff
    <3>5. ASSUME NEW x PROVE x \in Covered(t) <=> x \in (0 .. cur - 1) \cup HeldIndices
      <4>1. ASSUME x \in Covered(t) PROVE x \in (0 .. cur - 1) \cup HeldIndices
        <5>1. PICK j \in 1 .. n + 1 : x \in Nat /\ t[j][1] <= x /\ x < t[j][2]
          BY <3>4, <4>1
        <5>2. CASE j = 1
          BY <5>1, <5>2, <3>3, <2>0
        <5>3. CASE j # 1
          <6>1. j \in 2 .. n + 1
            BY <5>3, <2>1
          <6> QED BY <6>1, <5>1, <3>3, <2>3
        <5> QED BY <5>2, <5>3
      <4>2. ASSUME x \in 0 .. cur - 1 PROVE x \in Covered(t)
        <5>1. 1 \in 1 .. n + 1 /\ t[1][1] <= x /\ x < t[1][2] /\ x \in Nat
          BY <4>2, <3>3, <2>0, <2>1
        <5> QED BY <5>1, <3>4
      <4>3. ASSUME x \in HeldIndices PROVE x \in Covered(t)
        <5>1. PICK j \in 1 .. n : x \in Nat /\ ranges[j][1] <= x /\ x < ranges[j][2]
          BY <2>3, <4>3
        <5>2. j + 1 \in 1 .. n + 1 /\ j + 1 \in 2 .. n + 1 /\ (j + 1) - 1 = j
          BY <2>1
        <5>3. t[j + 1] = ranges[j]
          BY <5>2, <3>3
        <5> QED BY <5>1, <5>2, <5>3, <3>4
      <4> QED BY <4>1, <4>2, <4>3
    <3>6. \A k \in 1 .. n : t[k][2] < t[k + 1][1]
      <4> SUFFICES ASSUME NEW k \in 1 .. n PROVE t[k][2] < t[k + 1][1]
        OBVIOUS
      <4>1. k + 1 \in 2 .. n + 1 /\ (k + 1) - 1 = k
        BY <2>1
      <4>2. t[k + 1] = ranges[k]
        BY <4>1, <3>3
      <4>3. CASE k = 1
        <5>1. n # 0 /\ ranges[1][1] # cur /\ cur <= ranges[1][1] /\ ranges[1][1] \in Nat
          BY <4>3, <2>5, <2>2, <2>1
        <5>2. cur < ranges[1][1]
          BY <5>1, <2>0
        <5> QED BY <5>2, <4>2, <4>3, <3>3
      <4>4. CASE k # 1
        <5>1. k \in 2 .. n + 1 /\ k - 1 \in 1 .. n /\ k - 1 < k
          BY <4>4, <2>1
        <5>2. t[k] = ranges[k - 1] /\ ranges[k - 1][2] < ranges[k][1]
          BY <5>1, <3>3, <2>1
        <5> QED BY <5>2, <4>2
      <4> QED BY <4>3, <4>4
    <3>7. t[1][1] = 0 /\ Len(t) - 1 = n
      BY <3>3, <2>1
    <3> QED BY <3>1, <3>5, <3>6, <3>7 DEF ContainedIsExact
  <2> QED BY <2>4, <2>5
<1> QED BY <1>1, OrdererInvariant, PTL

-----------------------------------------------------------------------------
(* Refinement.                                                             *)

\* everything accepted so far, as the refinement mapping reconstructs it
Accepted == [i \in (0 .. cur - 1) \cup HeldIndices |->
               IF i < cur THEN out[i + 1] ELSE data[Slot(i)]]

\* The indices the refinement mapping calls accepted: consumed or held.
LEMMA AcceptedDomain ==
  ASSUME IInv
  PROVE  /\ DOMAIN Accepted = (0 .. cur - 1) \cup HeldIndices
         /\ \A i \in HeldIndices : i \in Nat /\ ~ (i < cur) /\ i < cur + size
         /\ \A i \in Window : i \in DOMAIN Accepted <=> data[Slot(i)] # None
         /\ \A i \in HeldIndices : Accepted[i] = data[Slot(i)]
         /\ {i \in DOMAIN Accepted : i >= cur} = HeldIndices
<1>0. cur \in Nat /\ size \in Nat \ {0} /\ Window \subseteq Nat
  BY SizeType DEF IInv
<1>1. DOMAIN Accepted = (0 .. cur - 1) \cup HeldIndices
  BY DEF Accepted
<1>2. \A i \in HeldIndices : i \in Nat /\ ~ (i < cur) /\ i < cur + size
  BY <1>0 DEF HeldIndices, Window
<1>3. ASSUME NEW i \in Window PROVE i \in DOMAIN Accepted <=> data[Slot(i)] # None
  <2>1. i \notin 0 .. cur - 1
    BY <1>0 DEF Window
  <2> QED BY <2>1, <1>1 DEF HeldIndices
<1>4. \A i \in HeldIndices : Accepted[i] = data[Slot(i)]
  BY <1>1, <1>2 DEF Accepted
<1>5. ASSUME NEW i PROVE i \in {j \in DOMAIN Accepted : j >= cur} <=> i \in HeldIndices
  BY <1>0, <1>1, <1>2
<1> QED BY <1>1, <1>2, <1>3, <1>4, <1>5

\* Every outcome of add() is a step of the abstract Add.
LEMMA AddRefines ==
  ASSUME IInv, NEW index \in Indices, NEW val \in Values, Add(index, val)
  PROVE  Abstract!Add(index, val)
<1>0. cur \in Nat /\ size \in Nat \ {0} /\ index \in Nat
  BY SizeType, OrdererAssumption DEF IInv
<1>1. Abstract!Verdict(index) =
        IF index < cur THEN "TOO_OLD"
        ELSE IF cur + size <= index THEN "TOO_NEW"
        ELSE IF index \in DOMAIN Accepted THEN "ALREADY_PRESENT"
        ELSE "SUCCESS"
  BY DEF Abstract!Verdict, Accepted
<1>2. Abstract!Add(index, val) <=>
        /\ answer' = <<"add", Abstract!Verdict(index)>>
        /\ Accepted' = IF Abstract!Verdict(index) = "SUCCESS"
                       THEN [i \in DOMAIN Accepted \cup {index} |->
                               IF i = index THEN val ELSE Accepted[i]]
                       ELSE Accepted
        /\ UNCHANGED <<cur, size>>
  BY DEF Abstract!Add, Accepted
<1>3. ASSUME UNCHANGED <<data, size, cur, count, ranges, out>> PROVE Accepted' = Accepted
  BY <1>3 DEF Accepted, HeldIndices, Window, Slot
<1>4. CASE index < cur
  <2>1. Reject("TOO_OLD")
    BY <1>0, <1>4 DEF Add
  <2> QED BY <2>1, <1>1, <1>2, <1>3, <1>4 DEF Reject
<1>5. CASE index >= cur + size
  <2>1. Reject("TOO_NEW")
    BY <1>0, <1>5 DEF Add
  <2>2. ~ (index < cur) /\ cur + size <= index
    BY <1>0, <1>5
  <2> QED BY <2>1, <2>2, <1>1, <1>2, <1>3 DEF Reject
<1>6. CASE cur <= index /\ index < cur + size
  <2>0. index \in Window /\ ~ (index < cur) /\ ~ (cur + size <= index)
    BY <1>0, <1>6 DEF Window
  <2>1. CASE data[Slot(index)] # None
    <3>1. Reject("ALREADY_PRESENT")
      BY <1>0, <1>6, <2>1 DEF Add
    <3>2. index \in DOMAIN Accepted
      BY <2>0, <2>1, AcceptedDomain
    <3> QED BY <2>0, <3>1, <3>2, <1>1, <1>2, <1>3 DEF Reject
  <2>2. CASE data[Slot(index)] = None
    <3>1. /\ data' = [data EXCEPT ![Slot(index)] = val]
          /\ UNCHANGED <<size, cur, out>>
          /\ answer' = <<"add", "SUCCESS">>
      BY <1>0, <1>6, <2>2 DEF Add, Reject
    <3>2. index \notin DOMAIN Accepted
      BY <2>0, <2>2, AcceptedDomain
    <3>3. Abstract!Verdict(index) = "SUCCESS"
      BY <2>0, <3>2, <1>1
    <3>4. /\ HeldIndices' = HeldIndices \cup {index}
          /\ \A i \in HeldIndices : data'[Slot(i)] = data[Slot(i)]
          /\ data'[Slot(index)] = val
      BY <2>0, <2>2, <3>1, FillHolds DEF IInv
    <3>5. Accepted' = [i \in DOMAIN Accepted \cup {index} |->
                         IF i = index THEN val ELSE Accepted[i]]
      <4>1. Accepted' = [i \in ((0 .. cur - 1) \cup HeldIndices) \cup {index} |->
                           IF i < cur THEN out[i + 1] ELSE data'[Slot(i)]]
        BY <3>1, <3>4 DEF Accepted, Slot
      <4>2. ASSUME NEW i \in ((0 .. cur - 1) \cup HeldIndices) \cup {index}
            PROVE  (IF i < cur THEN out[i + 1] ELSE data'[Slot(i)])
                     = IF i = index THEN val ELSE Accepted[i]
        <5>1. CASE i = index
          BY <5>1, <2>0, <3>4
        <5>2. CASE i # index /\ i \in 0 .. cur - 1
          BY <5>2, <1>0 DEF Accepted
        <5>3. CASE i # index /\ i \in HeldIndices
          BY <5>3, <3>4, AcceptedDomain
        <5> QED BY <5>1, <5>2, <5>3
      <4> QED BY <4>1, <4>2, AcceptedDomain
    <3> QED BY <3>1, <3>3, <3>5, <1>2
  <2> QED BY <2>1, <2>2
<1> QED BY <1>0, <1>4, <1>5, <1>6

\* Every outcome of next() is a step of the abstract TakeNext.
LEMMA TakeNextRefines ==
  ASSUME IInv, TakeNext
  PROVE  Abstract!TakeNext
<1>0. cur \in Nat /\ size \in Nat \ {0} /\ cur \in Window
  <2>1. cur \in Nat /\ size \in Nat \ {0}
    BY SizeType DEF IInv
  <2> QED BY <2>1 DEF Window
<1>1. Abstract!TakeNext <=>
        \/ /\ cur \in DOMAIN Accepted
           /\ answer' = <<"next", Accepted[cur]>>
           /\ cur' = cur + 1
           /\ UNCHANGED size
           /\ Accepted' = Accepted
        \/ /\ cur \notin DOMAIN Accepted
           /\ answer' = <<"next", None>>
           /\ UNCHANGED <<cur, size>>
           /\ Accepted' = Accepted
  BY DEF Abstract!TakeNext, Accepted
<1>2. CASE count = 0 \/ data[Slot(cur)] = None
  <2>1. answer' = <<"next", None>> /\ UNCHANGED <<data, size, cur, count, ranges, out>>
    BY <1>2 DEF TakeNext
  <2>2. cur \notin DOMAIN Accepted
    <3>1. CASE count = 0
      <4>1. HeldIndices = {}
        BY <3>1, SizeType, FS_EmptySet DEF IInv, CountIsExact
      <4> QED BY <4>1, <1>0, AcceptedDomain DEF HeldIndices
    <3>2. CASE data[Slot(cur)] = None
      BY <3>2, <1>0, AcceptedDomain
    <3> QED BY <3>1, <3>2, <1>2
  <2>3. Accepted' = Accepted
    BY <2>1 DEF Accepted, HeldIndices, Window, Slot
  <2> QED BY <2>1, <2>2, <2>3, <1>1
<1>3. CASE ~ (count = 0 \/ data[Slot(cur)] = None)
  <2>1. /\ data' = [data EXCEPT ![Slot(cur)] = None]
        /\ cur' = cur + 1
        /\ out' = Append(out, data[Slot(cur)])
        /\ answer' = <<"next", data[Slot(cur)]>>
        /\ UNCHANGED size
    BY <1>3 DEF TakeNext
  <2>2. /\ cur \in HeldIndices
        /\ HeldIndices' = HeldIndices \ {cur}
        /\ \A i \in HeldIndices' : data'[Slot(i)] = data[Slot(i)]
    BY <1>3, <2>1, TakeReleases DEF IInv
  <2>3. cur \in DOMAIN Accepted /\ Accepted[cur] = data[Slot(cur)]
    BY <2>2, AcceptedDomain
  <2>4. /\ Len(out) = cur
        /\ \A k \in 1 .. cur : out'[k] = out[k]
        /\ out'[cur + 1] = data[Slot(cur)]
    <3>1. out \in Seq(Values) /\ data[Slot(cur)] \in Values /\ Len(out) = cur
      BY <1>3, SizeType DEF IInv, TypeOK
    <3> QED BY <3>1, <2>1, <1>0, AppendProperties
  <2>5. Accepted' = Accepted
    <3>1. Accepted' = [i \in (0 .. cur) \cup (HeldIndices \ {cur}) |->
                         IF i < cur + 1 THEN out'[i + 1] ELSE data'[Slot(i)]]
      <4>1. cur' - 1 = cur
        BY <1>0, <2>1
      <4>2. Accepted' = [i \in (0 .. cur' - 1) \cup HeldIndices' |->
                           IF i < cur' THEN out'[i + 1] ELSE data'[Slot(i)']]
        BY DEF Accepted
      <4>4. (0 .. cur' - 1) \cup HeldIndices' = (0 .. cur) \cup (HeldIndices \ {cur})
        BY <4>1, <2>2
      <4>5. ASSUME NEW i
            PROVE  (IF i < cur' THEN out'[i + 1] ELSE data'[Slot(i)'])
                     = IF i < cur + 1 THEN out'[i + 1] ELSE data'[Slot(i)]
        <5>1. cur' = cur + 1 /\ size' = size
          BY <2>1
        <5>2. i % size' = i % size
          BY <5>1
        <5> QED BY <5>1, <5>2 DEF Slot
      <4> QED BY <4>2, <4>4, <4>5
    <3>2. (0 .. cur) \cup (HeldIndices \ {cur}) = (0 .. cur - 1) \cup HeldIndices
      BY <1>0, <2>2
    <3>3. ASSUME NEW i \in (0 .. cur - 1) \cup HeldIndices
          PROVE  (IF i < cur + 1 THEN out'[i + 1] ELSE data'[Slot(i)])
                   = IF i < cur THEN out[i + 1] ELSE data[Slot(i)]
      <4>1. CASE i \in 0 .. cur - 1
        BY <4>1, <1>0, <2>4
      <4>2. CASE i = cur
        BY <4>2, <1>0, <2>4
      <4>3. CASE i \in HeldIndices \ {cur}
        <5>1. i \in Nat /\ ~ (i < cur) /\ i # cur
          BY <4>3, AcceptedDomain
        <5> QED BY <5>1, <4>3, <1>0, <2>2
      <4> QED BY <4>1, <4>2, <4>3
    <3> QED BY <3>1, <3>2, <3>3 DEF Accepted
  <2> QED BY <2>1, <2>3, <2>5, <1>1
<1> QED BY <1>2, <1>3

\* Every outcome of set_size() is a step of the abstract SetSize.
LEMMA SetSizeRefines ==
  ASSUME IInv, NEW n \in Sizes, SetSize(n)
  PROVE  Abstract!SetSize(n)
<1>1. Abstract!SetSize(n) <=>
        /\ answer' = <<"set_size", HeldIndices = {}>>
        /\ size' = IF HeldIndices = {} THEN n ELSE size
        /\ UNCHANGED cur
        /\ Accepted' = Accepted
  <2>1. Abstract!Held = HeldIndices
    BY AcceptedDomain DEF Abstract!Held, Accepted
  <2> QED BY <2>1 DEF Abstract!SetSize, Accepted
<1>2. HeldIndices = {} <=> count = 0
  BY SizeType, FS_EmptySet DEF IInv, CountIsExact
<1>3. CASE count # 0
  <2>1. Accepted' = Accepted
    BY <1>3 DEF SetSize, Accepted, HeldIndices, Window, Slot
  <2>2. answer' = <<"set_size", FALSE>> /\ UNCHANGED <<size, cur>>
    BY <1>3 DEF SetSize
  <2>3. (HeldIndices = {}) = FALSE
    BY <1>2, <1>3
  <2> QED BY <2>1, <2>2, <2>3, <1>1
<1>4. CASE count = 0
  <2>1. /\ size' = n /\ answer' = <<"set_size", TRUE>>
        /\ data' = [s \in 0 .. n - 1 |-> IF s < size THEN data[s] ELSE None]
        /\ UNCHANGED <<cur, count, ranges, out>>
    BY <1>4 DEF SetSize
  <2>2. HeldIndices = {} /\ HeldIndices' = {}
    BY <1>4, <2>1, ResizeEmpty DEF IInv
  <2>3. Accepted' = Accepted
    <3>1. Accepted = [i \in 0 .. cur - 1 |-> out[i + 1]]
      BY <2>2, SizeType DEF Accepted, IInv
    <3>2. Accepted' = [i \in 0 .. cur - 1 |-> out[i + 1]]
      BY <2>1, <2>2, SizeType DEF Accepted, IInv
    <3> QED BY <3>1, <3>2
  <2>4. (HeldIndices = {}) = TRUE
    BY <2>2
  <2> QED BY <2>1, <2>2, <2>3, <2>4, <1>1
<1> QED BY <1>3, <1>4

\* The ring buffer with its incremental list of ranges implements the window
\* of accepted pairs (Orderer::add, next and set_size, orderer.hpp:86-153):
\* every verdict and every returned value is the abstract one.
THEOREM OrdererRefinement == Spec => ImplementsOrdererSpec
<1>1. Init => Abstract!Init
  <2> SUFFICES ASSUME Init PROVE Abstract!Init
    OBVIOUS
  <2>1. HeldIndices = {} /\ cur = 0
    BY InitIInv, SizeType DEF Init, HeldIndices, Window, IInv
  <2>2. Accepted = [i \in {} |-> None]
    BY <2>1 DEF Accepted
  <2> QED BY <2>2 DEF Init, Abstract!Init, Accepted
<1>2. IInv /\ [Next]_vars => [Abstract!Next]_(Abstract!vars)
  <2> SUFFICES ASSUME IInv, [Next]_vars PROVE [Abstract!Next]_(Abstract!vars)
    OBVIOUS
  <2>1. ASSUME NEW index \in Indices, NEW val \in Values, Add(index, val)
        PROVE  Abstract!Next
    BY <2>1, AddRefines DEF Abstract!Next
  <2>2. ASSUME TakeNext PROVE Abstract!Next
    BY <2>2, TakeNextRefines DEF Abstract!Next
  <2>3. ASSUME NEW n \in Sizes, SetSize(n) PROVE Abstract!Next
    BY <2>3, SetSizeRefines DEF Abstract!Next
  <2>4. CASE UNCHANGED vars
    BY <2>4 DEF vars, Abstract!vars, HeldIndices, Window, Slot
  <2> QED BY <2>1, <2>2, <2>3, <2>4 DEF Next
<1> QED BY <1>1, <1>2, OrdererInvariant, PTL DEF Spec, Abstract!Spec, ImplementsOrdererSpec

-----------------------------------------------------------------------------
(* The descriptor of a socket, which threads close without a lock.         *)

CallSteps == {"idle", "close", "exchange", "release", "unbind", "socket", "store", "listen",
              "bind", "name", "bound", "send", "sendto", "receive", "recvfrom"}

Records == [at : CallSteps, fd : Descriptors \cup {NoFd}, after : {"idle", "socket"}]

UdpTypeOK ==
  /\ fd \in Descriptors \cup {NoFd}
  /\ owner \in [Descriptors -> {"free", "socket", "other"}]
  /\ call \in [Callers -> Records]

\* what a caller has loaded, and that nobody stores a descriptor while the opener makes one
CallOK(t) ==
  /\ At(t, "exchange") \/ At(t, "release") => call[t].fd \in Descriptors
  /\ At(t, "socket") \/ At(t, "store") \/ call[t].after = "socket" => t = Opener
  /\ At(t, "socket") \/ At(t, "store") => fd = NoFd
  /\ call[t].after = "socket" /\ (At(t, "release") \/ At(t, "unbind")) => fd = NoFd
  /\ call[t].after = "socket" /\ At(t, "exchange") => fd \in {NoFd, call[t].fd}

CallsOK == \A t \in Callers : CallOK(t)

UdpInv == UdpTypeOK /\ CallsOK /\ DescriptorsAreOwned

\* At first the socket has no descriptor.
LEMMA InitUdpInv == UdpInit => UdpInv
<1> SUFFICES ASSUME UdpInit PROVE UdpInv
  OBVIOUS
<1>1. UdpTypeOK
  BY DEF UdpInit, UdpTypeOK, Records, Idle, CallSteps
<1>2. CallsOK
  BY SocketCallsAssumption DEF UdpInit, CallsOK, CallOK, At, Idle
<1>3. DescriptorsAreOwned
  BY SocketCallsAssumption DEF UdpInit, DescriptorsAreOwned, InHand, Idle
<1> QED BY <1>1, <1>2, <1>3 DEF UdpInv

\* A step of a call that takes no descriptor into its hands, puts none out of them and
\* stores none leaves every descriptor where it was.
LEMMA OwnedAfter ==
  ASSUME UdpInv, NEW t \in Callers, NEW c \in Records,
         call' = [call EXCEPT ![t] = c], UNCHANGED <<fd, owner>>,
         c.at \notin {"store", "release"}, call[t].at \notin {"store", "release"},
         c.at = "exchange" => c.fd \in Descriptors /\ fd = c.fd,
         c.at = "socket" \/ c.after = "socket" => t = Opener,
         c.at = "socket" => fd = NoFd,
         c.after = "socket" /\ c.at = "unbind" => fd = NoFd
  PROVE  UdpInv'
<1>0. UdpTypeOK /\ CallsOK /\ DescriptorsAreOwned /\ t \in DOMAIN call
  BY DEF UdpInv, UdpTypeOK
<1>1. call'[t] = c /\ \A u \in Callers : u # t => call'[u] = call[u]
  BY <1>0
<1>2. UdpTypeOK'
  BY <1>0 DEF UdpTypeOK, Records
<1>3. CallsOK'
  <2> SUFFICES ASSUME NEW u \in Callers PROVE CallOK(u)'
    BY DEF CallsOK
  <2>1. CASE u = t
    BY <1>1, <2>1 DEF CallOK, At
  <2>2. CASE u # t
    BY <1>0, <1>1, <2>2 DEF CallsOK, CallOK, At
  <2> QED BY <2>1, <2>2
<1>4. \A u \in Callers : \A d : InHand(u, d)' <=> InHand(u, d)
  BY <1>1 DEF InHand
<1>5. DescriptorsAreOwned'
  BY <1>0, <1>4 DEF DescriptorsAreOwned
<1> QED BY <1>2, <1>3, <1>5 DEF UdpInv

\* How a call goes on.
LEMMA GoesOn ==
  ASSUME UdpTypeOK, NEW t \in Callers
  PROVE  /\ call[t] \in Records
         /\ \A step \in CallSteps : Go(t, step) =>
              \E c \in Records : /\ c.at = step /\ c.fd = call[t].fd /\ c.after = call[t].after
                                 /\ call' = [call EXCEPT ![t] = c]
         /\ \A step \in CallSteps, d \in Descriptors \cup {NoFd} : GoWith(t, step, d) =>
              \E c \in Records : /\ c.at = step /\ c.fd = d /\ c.after = call[t].after
                                 /\ call' = [call EXCEPT ![t] = c]
         /\ Return(t) =>
              \E c \in Records : /\ c.at = "idle" /\ c.fd = NoFd /\ c.after = "idle"
                                 /\ call' = [call EXCEPT ![t] = c]
<1>0. call \in [Callers -> Records]
  BY DEF UdpTypeOK
<1>1. call[t] \in Records
  BY <1>0
<1>2. ASSUME NEW step \in CallSteps, Go(t, step)
      PROVE  \E c \in Records : /\ c.at = step /\ c.fd = call[t].fd /\ c.after = call[t].after
                                /\ call' = [call EXCEPT ![t] = c]
  <2>1. [call[t] EXCEPT !.at = step] \in Records
    BY <1>1 DEF Records
  <2>2. call' = [call EXCEPT ![t] = [call[t] EXCEPT !.at = step]]
    BY <1>2 DEF Go
  <2> QED BY <1>1, <2>1, <2>2 DEF Records
<1>3. ASSUME NEW step \in CallSteps, NEW d \in Descriptors \cup {NoFd}, GoWith(t, step, d)
      PROVE  \E c \in Records : /\ c.at = step /\ c.fd = d /\ c.after = call[t].after
                                /\ call' = [call EXCEPT ![t] = c]
  <2>1. [call[t] EXCEPT !.at = step, !.fd = d] \in Records
    BY <1>1 DEF Records
  <2>2. call' = [call EXCEPT ![t] = [call[t] EXCEPT !.at = step, !.fd = d]]
    BY <1>0, <1>3 DEF GoWith
  <2> QED BY <1>1, <2>1, <2>2 DEF Records
<1>4. ASSUME Return(t)
      PROVE  \E c \in Records : /\ c.at = "idle" /\ c.fd = NoFd /\ c.after = "idle"
                                /\ call' = [call EXCEPT ![t] = c]
  <2>1. Idle \in Records
    BY DEF Idle, Records, CallSteps
  <2> QED BY <1>4, <2>1 DEF Return, Idle
<1> QED BY <1>1, <1>2, <1>3, <1>4

\* what a call may become without touching a descriptor
Quiet(t, c) ==
  /\ c.at \notin {"store", "release"} /\ call[t].at \notin {"store", "release"}
  /\ c.at = "exchange" => c.fd \in Descriptors /\ fd = c.fd
  /\ c.at = "socket" \/ c.after = "socket" => t = Opener
  /\ c.at = "socket" => fd = NoFd
  /\ c.after = "socket" /\ c.at = "unbind" => fd = NoFd
  /\ call' = [call EXCEPT ![t] = c]

\* A call begins with no descriptor in hand.
LEMMA BeginCallKeepsUdpInv ==
  ASSUME UdpInv, NEW t \in Callers, NEW step \in {"close", "send", "receive", "listen"},
         NEW after \in {"idle", "socket"}, after = "socket" => t = Opener, BeginCall(t, step, after)
  PROVE  UdpInv'
<1>1. /\ call[t].at = "idle" /\ call' = [call EXCEPT ![t] = [at |-> step, fd |-> NoFd, after |-> after]]
      /\ UNCHANGED <<fd, owner>>
  BY DEF BeginCall, At
<1>2. PICK c \in Records : c = [at |-> step, fd |-> NoFd, after |-> after]
  BY DEF Records, CallSteps
<1>3. Quiet(t, c)
  BY <1>1, <1>2 DEF Quiet
<1> QED BY <1>1, <1>3, OwnedAfter DEF Quiet

\* The end of close() and of what does not concern the descriptor.
LEMMA EndCloseIsQuiet ==
  ASSUME UdpInv, NEW t \in Callers, EndClose(t), call[t].at \notin {"store", "release"},
         call[t].after = "socket" => fd = NoFd
  PROVE  \E c \in Records : Quiet(t, c)
<1>0. UdpTypeOK /\ CallOK(t) /\ call[t] \in Records
  BY GoesOn DEF UdpInv, CallsOK
<1>1. CASE call[t].after = "idle"
  <2>1. PICK c \in Records : /\ c.at = "idle" /\ c.fd = NoFd /\ c.after = "idle"
                             /\ call' = [call EXCEPT ![t] = c]
    BY <1>0, <1>1, GoesOn DEF EndClose
  <2> QED BY <2>1 DEF Quiet
<1>2. CASE call[t].after = "socket"
  <2>1. Go(t, "socket") /\ "socket" \in CallSteps
    BY <1>2 DEF EndClose, CallSteps
  <2>2. PICK c \in Records : /\ c.at = "socket" /\ c.fd = call[t].fd /\ c.after = call[t].after
                             /\ call' = [call EXCEPT ![t] = c]
    BY <1>0, <2>1, GoesOn
  <2> QED BY <1>0, <1>2, <2>2 DEF Quiet, CallOK
<1> QED BY <1>0, <1>1, <1>2 DEF Records

\* A call that returns puts down what it had loaded.
LEMMA ReturnIsQuiet ==
  ASSUME UdpInv, NEW t \in Callers, Return(t), call[t].at \notin {"store", "release"}
  PROVE  \E c \in Records : Quiet(t, c)
<1>1. UdpTypeOK
  BY DEF UdpInv
<1>2. PICK c \in Records : /\ c.at = "idle" /\ c.fd = NoFd /\ c.after = "idle"
                           /\ call' = [call EXCEPT ![t] = c]
  BY <1>1, GoesOn
<1> QED BY <1>2 DEF Quiet

\* Only a close() goes on to make a socket.
LEMMA GoIsQuiet ==
  ASSUME UdpInv, NEW t \in Callers, call[t].at \notin {"store", "release"},
         NEW step \in CallSteps \ {"store", "release", "exchange", "socket", "unbind"},
         Go(t, step) \/ \E d \in Descriptors : GoWith(t, step, d)
  PROVE  \E c \in Records : Quiet(t, c)
<1>0. UdpTypeOK /\ CallOK(t)
  BY DEF UdpInv, CallsOK
<1>1. PICK c \in Records : c.at = step /\ c.after = call[t].after /\ call' = [call EXCEPT ![t] = c]
  BY <1>0, GoesOn
<1> QED BY <1>0, <1>1 DEF Quiet, CallOK

\* A step that is quiet for one thread and leaves the others alone keeps the invariant.
LEMMA QuietStepKeepsUdpInv ==
  ASSUME UdpInv, NEW t \in Callers,
         \/ LoadExpected(t) \/ Unbind(t) \/ Listen(t) \/ CheckBind(t) \/ NameSocket(t)
         \/ StoreBound(t) \/ LoadToSend(t) \/ SendTo(t) \/ LoadToReceive(t) \/ ReceiveFrom(t)
  PROVE  UdpInv'
<1>0. UdpTypeOK /\ CallOK(t) /\ fd \in Descriptors \cup {NoFd} /\ UNCHANGED <<fd, owner>>
  BY DEF UdpInv, CallsOK, UdpTypeOK, LoadExpected, Unbind, Listen, CheckBind, NameSocket,
         StoreBound, LoadToSend, SendTo, LoadToReceive, ReceiveFrom
<1>1. call[t].at \notin {"store", "release"}
  BY DEF At, LoadExpected, Unbind, Listen, CheckBind, NameSocket,
         StoreBound, LoadToSend, SendTo, LoadToReceive, ReceiveFrom
<1>2. \E c \in Records : Quiet(t, c)
  <2>1. CASE LoadExpected(t)
    <3>1. CASE fd = NoFd
      BY <1>1, <2>1, <3>1, EndCloseIsQuiet DEF LoadExpected
    <3>2. CASE fd # NoFd
      <4>1. GoWith(t, "exchange", fd) /\ "exchange" \in CallSteps /\ fd \in Descriptors
        BY <1>0, <2>1, <3>2 DEF LoadExpected, CallSteps
      <4>2. PICK c \in Records : /\ c.at = "exchange" /\ c.fd = fd /\ c.after = call[t].after
                                 /\ call' = [call EXCEPT ![t] = c]
        BY <1>0, <4>1, GoesOn
      <4> QED BY <1>0, <1>1, <4>1, <4>2 DEF Quiet, CallOK
    <3> QED BY <3>1, <3>2
  <2>2. CASE Unbind(t)
    <3>1. EndClose(t) /\ (call[t].after = "socket" => fd = NoFd)
      BY <1>0, <2>2 DEF Unbind, CallOK
    <3> QED BY <1>1, <3>1, EndCloseIsQuiet
  <2>3. ASSUME Return(t) PROVE \E c \in Records : Quiet(t, c)
    BY <1>1, <2>3, ReturnIsQuiet
  <2>4. CASE Listen(t) \/ CheckBind(t) \/ NameSocket(t) \/ LoadToSend(t) \/ LoadToReceive(t)
    <3>1. \/ Return(t)
          \/ \E step \in {"bind", "name", "bound", "sendto", "recvfrom"} :
               Go(t, step) \/ (GoWith(t, step, fd) /\ fd # NoFd)
      BY <2>4 DEF Listen, CheckBind, NameSocket, LoadToSend, LoadToReceive
    <3>2. CASE \E step \in {"bind", "name", "bound", "sendto", "recvfrom"} :
                 Go(t, step) \/ (GoWith(t, step, fd) /\ fd # NoFd)
      <4>1. PICK step \in {"bind", "name", "bound", "sendto", "recvfrom"} :
              Go(t, step) \/ (GoWith(t, step, fd) /\ fd # NoFd)
        BY <3>2
      <4>2. step \in CallSteps \ {"store", "release", "exchange", "socket", "unbind"}
        BY DEF CallSteps
      <4>3. Go(t, step) \/ \E d \in Descriptors : GoWith(t, step, d)
        BY <1>0, <4>1
      <4> QED BY <1>1, <4>2, <4>3, GoIsQuiet
    <3> QED BY <2>3, <3>1, <3>2
  <2>5. CASE StoreBound(t) \/ SendTo(t) \/ ReceiveFrom(t)
    <3>1. Return(t)
      BY <2>5 DEF StoreBound, SendTo, ReceiveFrom
    <3> QED BY <2>3, <3>1
  <2> QED BY <2>1, <2>2, <2>4, <2>5
<1> QED BY <1>0, <1>2, OwnedAfter DEF Quiet

\* An exchange that succeeds puts the descriptor into the hands of its caller.
LEMMA ExchangeKeepsUdpInv ==
  ASSUME UdpInv, NEW t \in Callers, Exchange(t)
  PROVE  UdpInv'
<1>0. /\ UdpTypeOK /\ CallsOK /\ CallOK(t) /\ DescriptorsAreOwned /\ UNCHANGED owner
      /\ At(t, "exchange") /\ call[t].fd \in Descriptors /\ call \in [Callers -> Records]
  BY DEF UdpInv, CallsOK, CallOK, UdpTypeOK, Exchange
<1>1. CASE fd # call[t].fd
  <2>1. UNCHANGED fd /\ EndClose(t) /\ call[t].at \notin {"store", "release"}
        /\ (call[t].after = "socket" => fd = NoFd)
    BY <1>0, <1>1 DEF Exchange, CallOK, At
  <2>2. PICK c \in Records : Quiet(t, c)
    BY <2>1, EndCloseIsQuiet
  <2> QED BY <1>0, <2>1, <2>2, OwnedAfter DEF Quiet
<1>2. CASE fd = call[t].fd
  <2>1. fd' = NoFd /\ Go(t, "release") /\ "release" \in CallSteps
    BY <1>2 DEF Exchange, CallSteps
  <2>2. PICK c \in Records : /\ c.at = "release" /\ c.fd = fd /\ c.after = call[t].after
                             /\ call' = [call EXCEPT ![t] = c]
    BY <1>0, <1>2, <2>1, GoesOn
  <2>3. call'[t] = c /\ \A u \in Callers : u # t => call'[u] = call[u]
    BY <1>0, <2>2
  <2>4. UdpTypeOK'
    BY <1>0, <2>1, <2>2 DEF UdpTypeOK
  <2>5. CallsOK'
    <3> SUFFICES ASSUME NEW u \in Callers PROVE CallOK(u)'
      BY DEF CallsOK
    <3>1. CASE u = t
      BY <1>0, <1>2, <2>1, <2>2, <2>3, <3>1 DEF CallOK, At
    <3>2. CASE u # t
      BY <1>0, <2>1, <2>3, <3>2 DEF CallsOK, CallOK, At
    <3> QED BY <3>1, <3>2
  <2>6. \A u \in Callers, d \in Descriptors : InHand(u, d)' <=> InHand(u, d) \/ (u = t /\ d = fd)
    BY <1>0, <1>2, <2>2, <2>3 DEF InHand, At
  <2>7. DescriptorsAreOwned'
    BY <1>0, <1>2, <2>1, <2>6, SocketCallsAssumption DEF DescriptorsAreOwned
  <2> QED BY <2>4, <2>5, <2>7 DEF UdpInv
<1> QED BY <1>1, <1>2

\* ::close() of a descriptor in hand.
LEMMA ReleaseFdKeepsUdpInv ==
  ASSUME UdpInv, NEW t \in Callers, ReleaseFd(t)
  PROVE  UdpInv'
<1>0. /\ UdpTypeOK /\ CallsOK /\ CallOK(t) /\ DescriptorsAreOwned /\ UNCHANGED fd
      /\ At(t, "release") /\ call[t].fd \in Descriptors /\ call \in [Callers -> Records]
      /\ owner \in [Descriptors -> {"free", "socket", "other"}]
      /\ owner' = [owner EXCEPT ![call[t].fd] = "free"]
      /\ Go(t, "unbind") /\ "unbind" \in CallSteps
  BY DEF UdpInv, CallsOK, CallOK, UdpTypeOK, ReleaseFd, CallSteps
<1>1. PICK c \in Records : /\ c.at = "unbind" /\ c.fd = call[t].fd /\ c.after = call[t].after
                           /\ call' = [call EXCEPT ![t] = c]
  BY <1>0, GoesOn
<1>2. call'[t] = c /\ \A u \in Callers : u # t => call'[u] = call[u]
  BY <1>0, <1>1
<1>3. UdpTypeOK'
  BY <1>0, <1>1 DEF UdpTypeOK
<1>4. CallsOK'
  <2> SUFFICES ASSUME NEW u \in Callers PROVE CallOK(u)'
    BY DEF CallsOK
  <2>1. CASE u = t
    BY <1>0, <1>1, <1>2, <2>1 DEF CallOK, At
  <2>2. CASE u # t
    BY <1>0, <1>2, <2>2 DEF CallsOK, CallOK, At
  <2> QED BY <2>1, <2>2
<1>5. InHand(t, call[t].fd)
  BY <1>0 DEF InHand, At
<1>6. /\ \A u \in Callers, d \in Descriptors : u # t => (InHand(u, d)' <=> InHand(u, d))
      /\ \A d \in Descriptors : ~ InHand(t, d)'
      /\ \A d \in Descriptors : InHand(t, d) => d = call[t].fd
  BY <1>1, <1>2 DEF InHand
<1>7. DescriptorsAreOwned'
  BY <1>0, <1>5, <1>6 DEF DescriptorsAreOwned
<1> QED BY <1>3, <1>4, <1>7 DEF UdpInv

\* The operating system gives out a number that is free.
LEMMA MakeSocketKeepsUdpInv ==
  ASSUME UdpInv, NEW t \in Callers, MakeSocket(t)
  PROVE  UdpInv'
<1>0. /\ UdpTypeOK /\ CallsOK /\ CallOK(t) /\ DescriptorsAreOwned /\ UNCHANGED fd
      /\ At(t, "socket") /\ call \in [Callers -> Records] /\ t = Opener /\ fd = NoFd
      /\ owner \in [Descriptors -> {"free", "socket", "other"}] /\ "store" \in CallSteps
  BY DEF UdpInv, CallsOK, CallOK, UdpTypeOK, MakeSocket, CallSteps
<1>1. PICK d \in Descriptors \cup {NoFd} :
        /\ GoWith(t, "store", d)
        /\ d \in Descriptors => owner[d] = "free" /\ owner' = [owner EXCEPT ![d] = "socket"]
        /\ d \notin Descriptors => UNCHANGED owner
  BY SocketCallsAssumption DEF MakeSocket
<1>2. PICK c \in Records : /\ c.at = "store" /\ c.fd = d /\ c.after = call[t].after
                           /\ call' = [call EXCEPT ![t] = c]
  BY <1>0, <1>1, GoesOn
<1>3. call'[t] = c /\ \A u \in Callers : u # t => call'[u] = call[u]
  BY <1>0, <1>2
<1>4. owner' \in [Descriptors -> {"free", "socket", "other"}]
  BY <1>0, <1>1
<1>5. UdpTypeOK'
  BY <1>0, <1>2, <1>4 DEF UdpTypeOK
<1>6. CallsOK'
  <2> SUFFICES ASSUME NEW u \in Callers PROVE CallOK(u)'
    BY DEF CallsOK
  <2>1. CASE u = t
    BY <1>0, <1>2, <1>3, <2>1 DEF CallOK, At
  <2>2. CASE u # t
    BY <1>0, <1>3, <2>2 DEF CallsOK, CallOK, At
  <2> QED BY <2>1, <2>2
<1>7. /\ \A u \in Callers, e \in Descriptors : u # t => (InHand(u, e)' <=> InHand(u, e))
      /\ \A e \in Descriptors : ~ InHand(t, e) /\ (InHand(t, e)' <=> e = d)
  BY <1>0, <1>2, <1>3 DEF InHand, At
<1>8. \A u \in Callers : d \in Descriptors => ~ InHand(u, d)
  BY <1>0, <1>1 DEF DescriptorsAreOwned
<1>9. DescriptorsAreOwned'
  BY <1>0, <1>1, <1>7, <1>8, SocketCallsAssumption DEF DescriptorsAreOwned
<1> QED BY <1>5, <1>6, <1>9 DEF UdpInv

\* The descriptor in hand is stored, over none.
LEMMA StoreFdKeepsUdpInv ==
  ASSUME UdpInv, NEW t \in Callers, StoreFd(t)
  PROVE  UdpInv'
<1>0. /\ UdpTypeOK /\ CallsOK /\ CallOK(t) /\ DescriptorsAreOwned /\ UNCHANGED owner
      /\ At(t, "store") /\ call \in [Callers -> Records] /\ t = Opener /\ fd = NoFd
      /\ fd' = call[t].fd /\ Return(t) /\ call[t].fd \in Descriptors \cup {NoFd}
  BY DEF UdpInv, CallsOK, CallOK, UdpTypeOK, StoreFd, Records
<1>1. PICK c \in Records : /\ c.at = "idle" /\ c.fd = NoFd /\ c.after = "idle"
                           /\ call' = [call EXCEPT ![t] = c]
  BY <1>0, GoesOn
<1>2. call'[t] = c /\ \A u \in Callers : u # t => call'[u] = call[u]
  BY <1>0, <1>1
<1>3. UdpTypeOK'
  BY <1>0, <1>1 DEF UdpTypeOK
<1>4. CallsOK'
  <2> SUFFICES ASSUME NEW u \in Callers PROVE CallOK(u)'
    BY DEF CallsOK
  <2>1. CASE u = t
    BY <1>1, <1>2, <2>1 DEF CallOK, At
  <2>2. CASE u # t
    BY <1>0, <1>2, <2>2 DEF CallsOK, CallOK, At
  <2> QED BY <2>1, <2>2
<1>5. /\ \A u \in Callers, e \in Descriptors : u # t => (InHand(u, e)' <=> InHand(u, e))
      /\ \A e \in Descriptors : ~ InHand(t, e)' /\ (InHand(t, e) <=> e = call[t].fd)
  BY <1>0, <1>1, <1>2 DEF InHand, At
<1>6. DescriptorsAreOwned'
  BY <1>0, <1>5, SocketCallsAssumption DEF DescriptorsAreOwned
<1> QED BY <1>3, <1>4, <1>6 DEF UdpInv

\* The files of the rest of the process take no descriptor of the socket.
LEMMA OtherFileKeepsUdpInv ==
  ASSUME UdpInv, OtherFile
  PROVE  UdpInv'
<1>0. /\ UdpTypeOK /\ CallsOK /\ DescriptorsAreOwned /\ UNCHANGED <<fd, call>>
      /\ owner \in [Descriptors -> {"free", "socket", "other"}]
  BY DEF UdpInv, UdpTypeOK, OtherFile
<1>1. /\ owner' \in [Descriptors -> {"free", "socket", "other"}]
      /\ \A d \in Descriptors : owner'[d] = "socket" <=> owner[d] = "socket"
  BY <1>0 DEF OtherFile
<1>2. UdpTypeOK'
  BY <1>0, <1>1 DEF UdpTypeOK
<1>3. CallsOK'
  BY <1>0 DEF CallsOK, CallOK, At
<1>4. DescriptorsAreOwned'
  BY <1>0, <1>1 DEF DescriptorsAreOwned, InHand
<1> QED BY <1>2, <1>3, <1>4 DEF UdpInv

\* The invariant is inductive.
LEMMA NextKeepsUdpInv ==
  ASSUME UdpInv, [UdpNext]_udpVars
  PROVE  UdpInv'
<1>1. CASE UNCHANGED udpVars
  BY <1>1 DEF udpVars, UdpInv, UdpTypeOK, CallsOK, CallOK, At, DescriptorsAreOwned, InHand
<1>2. ASSUME NEW t \in Callers, CallerStep(t) PROVE UdpInv'
  <2>1. CASE Exchange(t)
    BY <2>1, ExchangeKeepsUdpInv
  <2>2. CASE ReleaseFd(t)
    BY <2>2, ReleaseFdKeepsUdpInv
  <2>3. CASE MakeSocket(t)
    BY <2>3, MakeSocketKeepsUdpInv
  <2>4. CASE StoreFd(t)
    BY <2>4, StoreFdKeepsUdpInv
  <2>5. CASE \/ LoadExpected(t) \/ Unbind(t) \/ Listen(t) \/ CheckBind(t) \/ NameSocket(t)
             \/ StoreBound(t) \/ LoadToSend(t) \/ SendTo(t) \/ LoadToReceive(t) \/ ReceiveFrom(t)
    BY <2>5, QuietStepKeepsUdpInv
  <2> QED BY <1>2, <2>1, <2>2, <2>3, <2>4, <2>5 DEF CallerStep
<1>3. ASSUME NEW t \in Callers, NEW step \in {"close", "send", "receive"}, BeginCall(t, step, "idle")
      PROVE  UdpInv'
  BY <1>3, BeginCallKeepsUdpInv
<1>4. CASE BeginCall(Opener, "close", "socket") \/ BeginCall(Opener, "listen", "idle")
  BY <1>4, SocketCallsAssumption, BeginCallKeepsUdpInv
<1>5. CASE OtherFile
  BY <1>5, OtherFileKeepsUdpInv
<1> QED BY <1>1, <1>2, <1>3, <1>4, <1>5 DEF UdpNext

\* However threads open, bind, use and close a socket together, each descriptor it was given
\* is stored or in the hands of the one thread that closes it (udp.cpp:47-60).
THEOREM UdpDescriptorsAreOwned == UdpSpec => []DescriptorsAreOwned
<1>1. UdpInv => DescriptorsAreOwned
  BY DEF UdpInv
<1> QED BY <1>1, InitUdpInv, NextKeepsUdpInv, PTL DEF UdpSpec

-----------------------------------------------------------------------------
(* Statements that share a stream.                                         *)

Entries == [thread : StreamUsers, statement : Nat, index : Nat, op : {"<<", ">>"}]

StreamsTypeOK ==
  /\ mutex \in StreamUsers \cup {NoThread}
  /\ guard \in [StreamUsers -> BOOLEAN]
  /\ place \in [StreamUsers -> [statement : Nat, done : Nat]]
  /\ stream \in Seq(Entries)

\* the statement whose guard has the mutex put the last item
LastIsOfGuard ==
  \A t \in StreamUsers : guard[t] =>
    /\ mutex = t /\ Len(stream) # 0
    /\ stream[Len(stream)].thread = t
    /\ stream[Len(stream)].statement = place[t].statement
    /\ stream[Len(stream)].index = place[t].done

StreamsInv == StreamsTypeOK /\ LastIsOfGuard /\ StatementsStayWhole

\* What an operator puts into the stream and where it leaves the statement.
LEMMA PutFacts ==
  ASSUME StreamsTypeOK, NEW t \in StreamUsers, Op(t) \in {"<<", ">>"}, Put(t)
  PROVE  /\ stream' \in Seq(Entries) /\ Len(stream') = Len(stream) + 1
         /\ \A i \in 1 .. Len(stream) : stream'[i] = stream[i]
         /\ stream'[Len(stream) + 1] = Item(t)
         /\ Item(t) \in Entries /\ Item(t).index = place[t].done + 1
         /\ place' \in [StreamUsers -> [statement : Nat, done : Nat]]
         /\ place'[t].statement = place[t].statement /\ place'[t].done = place[t].done + 1
         /\ \A u \in StreamUsers : u # t => place'[u] = place[u]
<1>1. place \in [StreamUsers -> [statement : Nat, done : Nat]] /\ stream \in Seq(Entries)
  BY DEF StreamsTypeOK
<1>2. place[t].statement \in Nat /\ place[t].done \in Nat /\ place[t].done + 1 \in Nat
  BY <1>1
<1>3. Item(t) \in Entries /\ Item(t).index = place[t].done + 1
  BY <1>2 DEF Item, Entries
<1>4. PICK item \in Entries : item = Item(t)
  BY <1>3
<1>5. stream' = Append(stream, item)
  BY <1>4 DEF Put
<1>6. /\ Append(stream, item) \in Seq(Entries) /\ Len(Append(stream, item)) = Len(stream) + 1
      /\ \A i \in 1 .. Len(stream) : Append(stream, item)[i] = stream[i]
      /\ Append(stream, item)[Len(stream) + 1] = item
  BY <1>1, AppendProperties
<1>7. place' = [place EXCEPT ![t] = [place[t] EXCEPT !.done = @ + 1]]
  BY <1>1 DEF Put
<1>8. [place[t] EXCEPT !.done = @ + 1] \in [statement : Nat, done : Nat]
  BY <1>1, <1>2
<1> QED BY <1>1, <1>3, <1>4, <1>5, <1>6, <1>7, <1>8

\* A step that puts nothing leaves whole what was.
LEMMA EndFacts ==
  ASSUME StreamsTypeOK, NEW t \in StreamUsers, EndStatement(t)
  PROVE  /\ place' \in [StreamUsers -> [statement : Nat, done : Nat]]
         /\ \A u \in StreamUsers : u # t => place'[u] = place[u]
<1>1. place \in [StreamUsers -> [statement : Nat, done : Nat]]
  BY DEF StreamsTypeOK
<1>2. place[t].statement + 1 \in Nat
  BY <1>1
<1>3. place' = [place EXCEPT ![t] = [statement |-> place[t].statement + 1, done |-> 0]]
  BY <1>1 DEF EndStatement
<1> QED BY <1>1, <1>2, <1>3

\* The first operator locks the mutex, and its item begins a statement.
LEMMA LockKeepsStreamsInv ==
  ASSUME StreamsInv, NEW t \in StreamUsers, Lock(t)
  PROVE  StreamsInv'
<1>0. /\ StreamsTypeOK /\ LastIsOfGuard /\ StatementsStayWhole /\ Begin(t) /\ Op(t) \in {"<<", ">>"}
      /\ guard \in [StreamUsers -> BOOLEAN] /\ Len(stream) \in Nat
      /\ place[t].done = 0 /\ mutex = NoThread /\ mutex' = t
  BY LenProperties DEF StreamsInv, StreamsTypeOK, Lock, LockAndInsert, LockAndExtract, Begin
<1>1. \A u \in StreamUsers : ~ guard[u]
  BY <1>0, StreamsAssumption DEF LastIsOfGuard
<1>2. CASE Put(t) /\ guard' = [guard EXCEPT ![t] = TRUE]
  <2>1. /\ stream' \in Seq(Entries) /\ Len(stream') = Len(stream) + 1
        /\ \A i \in 1 .. Len(stream) : stream'[i] = stream[i]
        /\ stream'[Len(stream) + 1] = Item(t)
        /\ Item(t).index = place[t].done + 1
        /\ place' \in [StreamUsers -> [statement : Nat, done : Nat]]
        /\ place'[t].statement = place[t].statement /\ place'[t].done = place[t].done + 1
    BY <1>0, <1>2, PutFacts
  <2>2. StreamsTypeOK'
    BY <1>0, <1>2, <2>1 DEF StreamsTypeOK
  <2>3. Item(t).thread = t /\ Item(t).statement = place[t].statement
    BY DEF Item
  <2>4. LastIsOfGuard'
    <3> SUFFICES ASSUME NEW u \in StreamUsers, guard'[u]
                 PROVE  /\ mutex' = u /\ Len(stream') # 0
                        /\ stream'[Len(stream')].thread = u
                        /\ stream'[Len(stream')].statement = place'[u].statement
                        /\ stream'[Len(stream')].index = place'[u].done
      BY DEF LastIsOfGuard
    <3>1. u = t
      BY <1>0, <1>1, <1>2
    <3> QED BY <1>0, <2>1, <2>3, <3>1
  <2>5. StatementsStayWhole'
    <3> SUFFICES ASSUME NEW i \in 2 .. Len(stream) + 1
                 PROVE  \/ stream'[i].index = 1
                        \/ stream'[i] = [stream'[i - 1] EXCEPT !.index = @ + 1, !.op = stream'[i].op]
      BY <2>1 DEF StatementsStayWhole
    <3>1. CASE i = Len(stream) + 1
      BY <1>0, <2>1, <3>1
    <3>2. CASE i # Len(stream) + 1
      <4>1. i \in 2 .. Len(stream) /\ i \in 1 .. Len(stream) /\ i - 1 \in 1 .. Len(stream)
        BY <1>0, <3>2
      <4>2. stream'[i] = stream[i] /\ stream'[i - 1] = stream[i - 1]
        BY <2>1, <4>1
      <4> QED BY <1>0, <4>1, <4>2 DEF StatementsStayWhole
    <3> QED BY <3>1, <3>2
  <2> QED BY <2>2, <2>4, <2>5 DEF StreamsInv
<1>3. CASE EndStatement(t) /\ UNCHANGED <<stream, guard>>
  <2>1. StreamsTypeOK'
    BY <1>0, <1>3, EndFacts DEF StreamsTypeOK
  <2>2. LastIsOfGuard'
    BY <1>1, <1>3 DEF LastIsOfGuard
  <2>3. StatementsStayWhole'
    BY <1>0, <1>3 DEF StatementsStayWhole
  <2> QED BY <2>1, <2>2, <2>3 DEF StreamsInv
<1> QED BY <1>0, <1>2, <1>3 DEF Begin

\* The next operators go on where the last item of the stream ends.
LEMMA OperatorKeepsStreamsInv ==
  ASSUME StreamsInv, NEW t \in StreamUsers, Operator(t)
  PROVE  StreamsInv'
<1>0. /\ StreamsTypeOK /\ LastIsOfGuard /\ StatementsStayWhole /\ Put(t) /\ Op(t) \in {"<<", ">>"}
      /\ Len(stream) \in Nat /\ guard[t] /\ UNCHANGED <<mutex, guard>>
      /\ place \in [StreamUsers -> [statement : Nat, done : Nat]] /\ stream \in Seq(Entries)
  BY LenProperties DEF StreamsInv, StreamsTypeOK, Operator, Insert, Extract
<1>1. /\ stream' \in Seq(Entries) /\ Len(stream') = Len(stream) + 1
      /\ \A i \in 1 .. Len(stream) : stream'[i] = stream[i]
      /\ stream'[Len(stream) + 1] = Item(t)
      /\ Item(t) \in Entries /\ Item(t).index = place[t].done + 1
      /\ place' \in [StreamUsers -> [statement : Nat, done : Nat]]
      /\ place'[t].statement = place[t].statement /\ place'[t].done = place[t].done + 1
  BY <1>0, PutFacts
<1>2. StreamsTypeOK'
  BY <1>0, <1>1 DEF StreamsTypeOK
<1>3. Item(t).thread = t /\ Item(t).statement = place[t].statement
  BY DEF Item
<1>4. /\ \A u \in StreamUsers : guard[u] => u = t
      /\ Len(stream) # 0 /\ stream[Len(stream)].thread = t
      /\ stream[Len(stream)].statement = place[t].statement
      /\ stream[Len(stream)].index = place[t].done
  BY <1>0 DEF LastIsOfGuard
<1>5. LastIsOfGuard'
  <2>1. mutex' = t
    BY <1>0 DEF LastIsOfGuard
  <2> QED BY <1>0, <1>1, <1>3, <1>4, <2>1 DEF LastIsOfGuard
<1>6. StatementsStayWhole'
  <2> SUFFICES ASSUME NEW i \in 2 .. Len(stream) + 1
               PROVE  \/ stream'[i].index = 1
                      \/ stream'[i] = [stream'[i - 1] EXCEPT !.index = @ + 1, !.op = stream'[i].op]
    BY <1>1 DEF StatementsStayWhole
  <2>1. CASE i = Len(stream) + 1
    <3>1. PICK old \in Entries : old = stream[Len(stream)]
      <4>1. Len(stream) \in 1 .. Len(stream)
        BY <1>0, <1>4
      <4> QED BY <1>0, <4>1, ElementOfSeq
    <3>2. PICK item \in Entries : item = Item(t)
      BY <1>1
    <3>3. stream'[i] = item /\ stream'[i - 1] = old
      <4>1. i - 1 = Len(stream) /\ Len(stream) \in 1 .. Len(stream)
        BY <1>0, <1>4, <2>1
      <4> QED BY <1>1, <2>1, <3>1, <3>2, <4>1
    <3>4. /\ item.thread = old.thread /\ item.statement = old.statement
          /\ item.index = old.index + 1
      BY <1>1, <1>3, <1>4, <3>1, <3>2
    <3>5. item = [old EXCEPT !.index = @ + 1, !.op = item.op]
      BY <3>4 DEF Entries
    <3> QED BY <3>3, <3>5
  <2>2. CASE i # Len(stream) + 1
    <3>1. i \in 2 .. Len(stream) /\ i \in 1 .. Len(stream) /\ i - 1 \in 1 .. Len(stream)
      BY <1>0, <2>2
    <3>2. stream'[i] = stream[i] /\ stream'[i - 1] = stream[i - 1]
      BY <1>1, <3>1
    <3> QED BY <1>0, <3>1, <3>2 DEF StatementsStayWhole
  <2> QED BY <2>1, <2>2
<1> QED BY <1>2, <1>5, <1>6 DEF StreamsInv

\* The guard goes, and with it the mutex it has.
LEMMA UnlockKeepsStreamsInv ==
  ASSUME StreamsInv, NEW t \in StreamUsers, Unlock(t)
  PROVE  StreamsInv'
<1>0. /\ StreamsTypeOK /\ LastIsOfGuard /\ StatementsStayWhole
      /\ guard[t] /\ mutex' = NoThread /\ guard' = [guard EXCEPT ![t] = FALSE]
      /\ EndStatement(t) /\ UNCHANGED stream /\ guard \in [StreamUsers -> BOOLEAN]
  BY DEF StreamsInv, StreamsTypeOK, Unlock
<1>1. StreamsTypeOK'
  BY <1>0, EndFacts DEF StreamsTypeOK
<1>2. \A u \in StreamUsers : ~ guard'[u]
  BY <1>0 DEF LastIsOfGuard
<1>3. StatementsStayWhole'
  BY <1>0 DEF StatementsStayWhole
<1> QED BY <1>1, <1>2, <1>3 DEF StreamsInv, LastIsOfGuard

\* The items of a statement lie side by side, however the statements of any number of
\* threads meet and whichever operators throw (thread_streams.hpp:46-85).
THEOREM StreamsStatementsStayWhole == StreamsSpec => []StatementsStayWhole
<1>1. StreamsInit => StreamsInv
  <2> SUFFICES ASSUME StreamsInit PROVE StreamsInv
    OBVIOUS
  <2>1. stream = <<>> /\ <<>> \in Seq(Entries) /\ Len(<<>>) = 0
    BY EmptySeq DEF StreamsInit
  <2>2. StreamsTypeOK /\ LastIsOfGuard
    BY <2>1 DEF StreamsInit, StreamsTypeOK, LastIsOfGuard
  <2>3. StatementsStayWhole
    BY <2>1 DEF StatementsStayWhole
  <2> QED BY <2>2, <2>3 DEF StreamsInv
<1>2. StreamsInv /\ [StreamsNext]_streamVars => StreamsInv'
  <2> SUFFICES ASSUME StreamsInv, [StreamsNext]_streamVars PROVE StreamsInv'
    OBVIOUS
  <2>1. CASE UNCHANGED streamVars
    BY <2>1 DEF streamVars, StreamsInv, StreamsTypeOK, LastIsOfGuard, StatementsStayWhole
  <2>2. ASSUME NEW t \in StreamUsers, Lock(t) \/ Operator(t) \/ Unlock(t) PROVE StreamsInv'
    BY <2>2, LockKeepsStreamsInv, OperatorKeepsStreamsInv, UnlockKeepsStreamsInv
  <2> QED BY <2>1, <2>2 DEF StreamsNext
<1>3. StreamsInv => StatementsStayWhole
  BY DEF StreamsInv
<1> QED BY <1>1, <1>2, <1>3, PTL DEF StreamsSpec

-----------------------------------------------------------------------------
(* A variable and its topics.                                              *)

\* messages are contents, so that a callback in progress can be told from none
RosInv ==
  /\ receiving \in Contents \cup {NoMessage}
  /\ LateSubscribersGetTheValue

\* A late subscriber gets the value of the variable, for any contents, callbacks and editors
\* (ros_variable.hpp:49-60).
THEOREM RosLateSubscribersGetTheValue == RosSpec => []LateSubscribersGetTheValue
<1>1. RosInit => RosInv
  BY DEF RosInit, RosInv, LateSubscribersGetTheValue
<1>2. RosInv /\ [RosNext]_rosVars => RosInv'
  <2> SUFFICES ASSUME RosInv, [RosNext]_rosVars PROVE RosInv'
    OBVIOUS
  <2>1. CASE UNCHANGED rosVars
    BY <2>1 DEF rosVars, RosInv, LateSubscribersGetTheValue
  <2>2. ASSUME NEW v, SetTo(v), UNCHANGED receiving PROVE RosInv'
    BY <2>2 DEF SetTo, Publish, RosInv, LateSubscribersGetTheValue
  <2>3. ASSUME NEW v \in Contents, Receive(v) PROVE RosInv'
    BY <2>3, RosAssumption DEF Receive, Publish, RosInv, LateSubscribersGetTheValue
  <2>4. CASE PublishValue \/ TimerCallback
    BY <2>4 DEF PublishValue, TimerCallback, Publish, RosInv, LateSubscribersGetTheValue
  <2>5. CASE GetMove \/ RecreatePublisher
    BY <2>5 DEF GetMove, RecreatePublisher, RosInv, LateSubscribersGetTheValue
  <2>6. CASE \E b \in BOOLEAN : MakeWritable(b) \/ SetTimer(b) \/ SetCallback(b)
    BY <2>6 DEF MakeWritable, SetTimer, SetCallback, RosInv, LateSubscribersGetTheValue
  <2>7. CASE Edit \/ \E v \in Contents, e \in 1 .. MaxEditors : Assign(e, v)
    BY <2>7 DEF Edit, Assign, RosInv, LateSubscribersGetTheValue
  <2>8. CASE \E v \in Contents : Set(v)
    BY <2>2, <2>8 DEF Set
  <2>9. CASE EndEdit \/ \E e \in 1 .. MaxEditors : Flush(e)
    BY <2>2, <2>9 DEF EndEdit, Flush
  <2> QED BY <2>1, <2>3, <2>4, <2>5, <2>6, <2>7, <2>8, <2>9 DEF RosNext
<1>3. RosInv => LateSubscribersGetTheValue
  BY DEF RosInv
<1> QED BY <1>1, <1>2, <1>3, PTL DEF RosSpec

-----------------------------------------------------------------------------
(* A vector with indices on both sides.                                    *)

\* c is what the vectors right and left hold around s.
LaidOut(s, right, left, c) ==
  /\ s \in Int /\ right \in Seq(Items) /\ left \in Seq(Items)
  /\ DOMAIN c = s - Len(left) .. s + Len(right) - 1
  /\ \A i \in 1 .. Len(right) : c[s + i - 1] = right[i]
  /\ \A i \in 1 .. Len(left) : c[s - i] = left[i]

VectorInv == LaidOut(starting_point, non_negative, negative, content)

\* longer is s with k times v behind it
Longer(longer, s, k, v) ==
  /\ longer \in Seq(Items) /\ Len(longer) = Len(s) + k
  /\ \A i \in 1 .. Len(s) : longer[i] = s[i]
  /\ \A i \in Len(s) + 1 .. Len(s) + k : longer[i] = v

\* std::vector::resize() to more elements keeps those there are.
LEMMA ResizedIsLonger ==
  ASSUME NEW s \in Seq(Items), NEW k \in Nat, NEW length \in Int, length = Len(s) + k, NEW v \in Items
  PROVE  Longer(Resized(s, length, v), s, k, v)
<1>1. Filled(k, v) \in Seq(Items) /\ Len(Filled(k, v)) = k /\ \A i \in 1 .. k : Filled(k, v)[i] = v
  <2>1. Filled(k, v) \in [1 .. k -> Items]
    BY DEF Filled
  <2> QED BY <2>1, FunctionIsSeq DEF Filled
<1>2. PICK f \in Seq(Items) : f = Filled(k, v)
  BY <1>1
<1>3. length - Len(s) = k /\ Len(s) \in Nat
  BY LenProperties
<1>4. Resized(s, length, v) = s \o f
  BY <1>2, <1>3 DEF Resized
<1>5. /\ s \o f \in Seq(Items) /\ Len(s \o f) = Len(s) + Len(f)
      /\ \A i \in 1 .. Len(s) + Len(f) : (s \o f)[i] = IF i <= Len(s) THEN s[i] ELSE f[i - Len(s)]
  BY ConcatProperties
<1>6. \A i \in 1 .. Len(s) : (s \o f)[i] = s[i]
  <2> SUFFICES ASSUME NEW i \in 1 .. Len(s) PROVE (s \o f)[i] = s[i]
    OBVIOUS
  <2>1. i \in 1 .. Len(s) + Len(f) /\ i <= Len(s)
    BY <1>1, <1>2, <1>3
  <2> QED BY <1>5, <2>1
<1>7. \A i \in Len(s) + 1 .. Len(s) + k : (s \o f)[i] = v
  <2> SUFFICES ASSUME NEW i \in Len(s) + 1 .. Len(s) + k PROVE (s \o f)[i] = v
    OBVIOUS
  <2>1. i \in 1 .. Len(s) + Len(f) /\ ~ (i <= Len(s)) /\ i - Len(s) \in 1 .. k
    BY <1>1, <1>2, <1>3
  <2> QED BY <1>1, <1>2, <1>5, <2>1
<1> QED BY <1>1, <1>2, <1>4, <1>5, <1>6, <1>7 DEF Longer

\* So does one more element.
LEMMA AppendIsLonger ==
  ASSUME NEW s \in Seq(Items), NEW v \in Items
  PROVE  Longer(Append(s, v), s, 1, v)
<1>1. /\ Append(s, v) \in Seq(Items) /\ Len(Append(s, v)) = Len(s) + 1
      /\ \A i \in 1 .. Len(s) : Append(s, v)[i] = s[i]
      /\ Append(s, v)[Len(s) + 1] = v
  BY AppendProperties
<1>2. \A i \in Len(s) + 1 .. Len(s) + 1 : i = Len(s) + 1
  BY LenProperties
<1> QED BY <1>1, <1>2 DEF Longer

\* d is c, and v at the new indices from first to last
Fills(d, c, first, last, v) ==
  d = [i \in DOMAIN c \cup (first .. last) |-> IF i \in DOMAIN c THEN c[i] ELSE v]

\* The ends move apart, and what is new is v: on the right, and on the left.
LEMMA GrowsRight ==
  ASSUME NEW s, NEW right, NEW left, NEW c, LaidOut(s, right, left, c), NEW k \in Nat \ {0}, NEW v,
         NEW longer, Longer(longer, right, k, v), NEW d,
         Fills(d, c, s + Len(right), s + Len(right) + k - 1, v)
  PROVE  LaidOut(s, longer, left, d)
<1>0. /\ s \in Int /\ right \in Seq(Items) /\ left \in Seq(Items)
      /\ DOMAIN c = s - Len(left) .. s + Len(right) - 1
      /\ longer \in Seq(Items) /\ Len(longer) = Len(right) + k
  BY DEF LaidOut, Longer
<1>1. PICK a \in Nat, b \in Nat : a = Len(right) /\ b = Len(left)
  BY <1>0, LenProperties
<1>f. d = [i \in DOMAIN c \cup (s + a .. s + a + k - 1) |-> IF i \in DOMAIN c THEN c[i] ELSE v]
  BY <1>1 DEF Fills
<1>2. DOMAIN d = s - b .. s + (a + k) - 1
  <2>1. (s - b .. s + a - 1) \cup (s + a .. s + a + k - 1) = s - b .. s + (a + k) - 1
    BY <1>0
  <2> QED BY <1>0, <1>1, <1>f, <2>1
<1>3. ASSUME NEW i \in 1 .. a + k PROVE d[s + i - 1] = longer[i]
  <2>1. CASE i <= a
    <3>1. s + i - 1 \in DOMAIN c /\ i \in 1 .. a
      BY <1>0, <1>1, <2>1
    <3>2. d[s + i - 1] = c[s + i - 1]
      BY <1>f, <3>1
    <3> QED BY <1>1, <3>1, <3>2 DEF LaidOut, Longer
  <2>2. CASE ~ (i <= a)
    <3>1. s + i - 1 \notin DOMAIN c /\ i \in a + 1 .. a + k /\ s + i - 1 \in s + a .. s + a + k - 1
      BY <1>0, <1>1, <2>2
    <3>2. d[s + i - 1] = v
      BY <1>f, <3>1
    <3> QED BY <1>1, <3>1, <3>2 DEF Longer
  <2> QED BY <2>1, <2>2
<1>4. ASSUME NEW i \in 1 .. b PROVE d[s - i] = left[i]
  <2>1. s - i \in DOMAIN c
    BY <1>0, <1>1
  <2>2. d[s - i] = c[s - i]
    BY <1>f, <2>1
  <2> QED BY <1>1, <2>2 DEF LaidOut
<1> QED BY <1>0, <1>1, <1>2, <1>3, <1>4 DEF LaidOut

LEMMA GrowsLeft ==
  ASSUME NEW s, NEW right, NEW left, NEW c, LaidOut(s, right, left, c), NEW k \in Nat \ {0}, NEW v,
         NEW longer, Longer(longer, left, k, v), NEW d,
         Fills(d, c, s - Len(left) - k, s - Len(left) - 1, v)
  PROVE  LaidOut(s, right, longer, d)
<1>0. /\ s \in Int /\ right \in Seq(Items) /\ left \in Seq(Items)
      /\ DOMAIN c = s - Len(left) .. s + Len(right) - 1
      /\ longer \in Seq(Items) /\ Len(longer) = Len(left) + k
  BY DEF LaidOut, Longer
<1>1. PICK a \in Nat, b \in Nat : a = Len(right) /\ b = Len(left)
  BY <1>0, LenProperties
<1>f. d = [i \in DOMAIN c \cup (s - b - k .. s - b - 1) |-> IF i \in DOMAIN c THEN c[i] ELSE v]
  BY <1>1 DEF Fills
<1>2. DOMAIN d = s - (b + k) .. s + a - 1
  <2>1. (s - b .. s + a - 1) \cup (s - b - k .. s - b - 1) = s - (b + k) .. s + a - 1
    BY <1>0
  <2> QED BY <1>0, <1>1, <1>f, <2>1
<1>3. ASSUME NEW i \in 1 .. b + k PROVE d[s - i] = longer[i]
  <2>1. CASE i <= b
    <3>1. s - i \in DOMAIN c /\ i \in 1 .. b
      BY <1>0, <1>1, <2>1
    <3>2. d[s - i] = c[s - i]
      BY <1>f, <3>1
    <3> QED BY <1>1, <3>1, <3>2 DEF LaidOut, Longer
  <2>2. CASE ~ (i <= b)
    <3>1. s - i \notin DOMAIN c /\ i \in b + 1 .. b + k /\ s - i \in s - b - k .. s - b - 1
      BY <1>0, <1>1, <2>2
    <3>2. d[s - i] = v
      BY <1>f, <3>1
    <3> QED BY <1>1, <3>1, <3>2 DEF Longer
  <2> QED BY <2>1, <2>2
<1>4. ASSUME NEW i \in 1 .. a PROVE d[s + i - 1] = right[i]
  <2>1. s + i - 1 \in DOMAIN c
    BY <1>0, <1>1
  <2>2. d[s + i - 1] = c[s + i - 1]
    BY <1>f, <2>1
  <2> QED BY <1>1, <2>2 DEF LaidOut
<1> QED BY <1>0, <1>1, <1>2, <1>3, <1>4 DEF LaidOut

\* An index is shown from the vector of its side.
LEMMA ShownAsPut ==
  ASSUME VectorInv, NEW n \in Int
  PROVE  get_val(n) = IF n \in DOMAIN content THEN content[n] ELSE NoValue
<1>0. /\ starting_point \in Int /\ non_negative \in Seq(Items) /\ negative \in Seq(Items)
      /\ DOMAIN content = starting_point - Len(negative) .. starting_point + Len(non_negative) - 1
      /\ \A i \in 1 .. Len(non_negative) : content[starting_point + i - 1] = non_negative[i]
      /\ \A i \in 1 .. Len(negative) : content[starting_point - i] = negative[i]
  BY DEF VectorInv, LaidOut
<1>1. Len(non_negative) \in Nat /\ Len(negative) \in Nat
  BY <1>0, LenProperties
<1>2. is_contained(n) <=> n \in DOMAIN content
  BY <1>0, <1>1 DEF is_contained, get_positive_end, get_negative_end
<1>3. ASSUME n \in DOMAIN content, n < starting_point PROVE get_val(n) = content[n]
  <2>1. negative_to_positive(n) + 1 = starting_point - n
    BY <1>0 DEF negative_to_positive
  <2>2. starting_point - n \in 1 .. Len(negative) /\ starting_point - (starting_point - n) = n
    BY <1>0, <1>1, <1>3
  <2>3. content[n] = negative[starting_point - n]
    BY <1>0, <2>2
  <2> QED BY <1>2, <1>3, <2>1, <2>3 DEF get_val
<1>4. ASSUME n \in DOMAIN content, ~ (n < starting_point) PROVE get_val(n) = content[n]
  <2>1. n - starting_point + 1 \in 1 .. Len(non_negative)
        /\ starting_point + (n - starting_point + 1) - 1 = n
    BY <1>0, <1>1, <1>4
  <2>2. content[n] = non_negative[n - starting_point + 1]
    BY <1>0, <2>1
  <2> QED BY <1>2, <1>4, <2>2 DEF get_val
<1> QED BY <1>2, <1>3, <1>4 DEF get_val

\* A vector as its constructors make it shows what it was made with.
LEMMA InitVectorInv == VectorInit => VectorInv
<1> SUFFICES ASSUME VectorInit PROVE VectorInv
  OBVIOUS
<1>1. PICK end \in Units, v \in Items, length \in 0 .. MaxSize :
        /\ starting_point \in {0, end + 1}
        /\ non_negative = Filled(length, v)
        /\ content = [n \in starting_point .. starting_point + length - 1 |-> v]
  BY DEF VectorInit
<1>2. starting_point \in Int /\ length \in Nat
  BY <1>1, TwoSidedAssumption
<1>3. /\ non_negative \in Seq(Items) /\ Len(non_negative) = length
      /\ \A i \in 1 .. length : non_negative[i] = v
  <2>1. Filled(length, v) \in [1 .. length -> Items]
    BY DEF Filled
  <2> QED BY <1>1, <1>2, <2>1, FunctionIsSeq DEF Filled
<1>4. negative \in Seq(Items) /\ Len(negative) = 0
  BY EmptySeq DEF VectorInit
<1>5. DOMAIN content = starting_point - 0 .. starting_point + length - 1
  BY <1>1, <1>2
<1>6. \A i \in 1 .. length : content[starting_point + i - 1] = non_negative[i]
  <2> SUFFICES ASSUME NEW i \in 1 .. length PROVE content[starting_point + i - 1] = v
    BY <1>3
  <2>1. starting_point + i - 1 \in starting_point .. starting_point + length - 1
    BY <1>2
  <2> QED BY <1>1, <2>1
<1> QED BY <1>2, <1>3, <1>4, <1>5, <1>6 DEF VectorInv, LaidOut

\* set_value() of a contained index changes what that index shows, and no other.
LEMMA SetValueKeepsVectorInv ==
  ASSUME VectorInv, NEW n \in Int, NEW v \in Items, set_value(n, v)
  PROVE  VectorInv'
<1>0. /\ starting_point \in Int /\ non_negative \in Seq(Items) /\ negative \in Seq(Items)
      /\ DOMAIN content = starting_point - Len(negative) .. starting_point + Len(non_negative) - 1
      /\ \A i \in 1 .. Len(non_negative) : content[starting_point + i - 1] = non_negative[i]
      /\ \A i \in 1 .. Len(negative) : content[starting_point - i] = negative[i]
      /\ Len(non_negative) \in Nat /\ Len(negative) \in Nat
      /\ UNCHANGED starting_point /\ is_contained(n)
      /\ content' = [i \in DOMAIN content \cup {n} |-> IF i = n THEN v ELSE content[i]]
  BY LenProperties DEF VectorInv, LaidOut, set_value, Holds
<1>1. n \in DOMAIN content
  BY <1>0 DEF is_contained, get_positive_end, get_negative_end
<1>2. /\ DOMAIN content' = DOMAIN content /\ content'[n] = v
      /\ \A i \in DOMAIN content : i # n => content'[i] = content[i]
  BY <1>0, <1>1
<1>3. CASE n < starting_point
  <2>1. PICK j \in Int : j = starting_point - n
    BY <1>0
  <2>2. j \in 1 .. Len(negative) /\ negative_to_positive(n) + 1 = j
    BY <1>0, <1>1, <1>3, <2>1 DEF negative_to_positive
  <2>3. negative' = [negative EXCEPT ![j] = v] /\ UNCHANGED non_negative
    BY <1>3, <2>2 DEF set_value
  <2>4. /\ negative' \in Seq(Items) /\ Len(negative') = Len(negative) /\ negative'[j] = v
        /\ \A i \in 1 .. Len(negative) : i # j => negative'[i] = negative[i]
    <3>1. [negative EXCEPT ![j] = v] \in Seq(Items) /\ Len([negative EXCEPT ![j] = v]) = Len(negative)
      BY <1>0, <2>2, ExceptSeq
    <3>2. DOMAIN negative = 1 .. Len(negative)
      BY <1>0, LenProperties
    <3> QED BY <2>2, <2>3, <3>1, <3>2
  <2>5. ASSUME NEW i \in 1 .. Len(negative) PROVE content'[starting_point - i] = negative'[i]
    <3>1. starting_point - i \in DOMAIN content /\ (starting_point - i = n <=> i = j)
      BY <1>0, <2>1
    <3> QED BY <1>0, <1>2, <2>4, <3>1
  <2>6. ASSUME NEW i \in 1 .. Len(non_negative)
        PROVE  content'[starting_point + i - 1] = non_negative[i]
    <3>1. starting_point + i - 1 \in DOMAIN content /\ starting_point + i - 1 # n
      BY <1>0, <1>3
    <3> QED BY <1>0, <1>2, <3>1
  <2> QED BY <1>0, <1>2, <2>3, <2>4, <2>5, <2>6 DEF VectorInv, LaidOut
<1>4. CASE ~ (n < starting_point)
  <2>1. PICK j \in Int : j = n - starting_point + 1
    BY <1>0
  <2>2. j \in 1 .. Len(non_negative)
    BY <1>0, <1>1, <1>4, <2>1
  <2>3. non_negative' = [non_negative EXCEPT ![j] = v] /\ UNCHANGED negative
    BY <1>4, <2>1 DEF set_value
  <2>4. /\ non_negative' \in Seq(Items) /\ Len(non_negative') = Len(non_negative)
        /\ non_negative'[j] = v
        /\ \A i \in 1 .. Len(non_negative) : i # j => non_negative'[i] = non_negative[i]
    <3>1. /\ [non_negative EXCEPT ![j] = v] \in Seq(Items)
          /\ Len([non_negative EXCEPT ![j] = v]) = Len(non_negative)
      BY <1>0, <2>2, ExceptSeq
    <3>2. DOMAIN non_negative = 1 .. Len(non_negative)
      BY <1>0, LenProperties
    <3> QED BY <2>2, <2>3, <3>1, <3>2
  <2>5. ASSUME NEW i \in 1 .. Len(non_negative)
        PROVE  content'[starting_point + i - 1] = non_negative'[i]
    <3>1. starting_point + i - 1 \in DOMAIN content
      BY <1>0
    <3>2. starting_point + i - 1 = n <=> i = j
      <4>1. starting_point \in Int /\ i \in Int
        BY <1>0
      <4> QED BY <2>1, <4>1
    <3> QED BY <1>0, <1>2, <2>4, <3>1, <3>2
  <2>6. ASSUME NEW i \in 1 .. Len(negative) PROVE content'[starting_point - i] = negative[i]
    <3>1. starting_point - i \in DOMAIN content /\ starting_point - i # n
      BY <1>0, <1>4
    <3> QED BY <1>0, <1>2, <3>1
  <2> QED BY <1>0, <1>2, <2>3, <2>4, <2>5, <2>6 DEF VectorInv, LaidOut
<1> QED BY <1>3, <1>4

\* What is put at a new index, and nothing else, is what is new.
LEMMA NewIsGot ==
  ASSUME NEW n, n \notin DOMAIN content, NEW v, Holds(n, v)
  PROVE  Gets({n}, v)
BY DEF Holds, Gets

\* The right end moves and the new indices show v.
LEMMA GrowingRightKeepsVectorInv ==
  ASSUME VectorInv, NEW v \in Items, UNCHANGED <<starting_point, negative>>, NEW k \in Nat \ {0},
         Longer(non_negative', non_negative, k, v),
         Gets(get_positive_end .. get_positive_end + k - 1, v)
  PROVE  VectorInv'
<1>1. /\ LaidOut(starting_point, non_negative, negative, content)
      /\ get_positive_end = starting_point + Len(non_negative)
  BY LenProperties DEF VectorInv, LaidOut, get_positive_end
<1>2. Fills(content', content, starting_point + Len(non_negative),
            starting_point + Len(non_negative) + k - 1, v)
  BY <1>1 DEF Gets, Fills
<1>3. PICK longer : longer = non_negative'
  OBVIOUS
<1>4. PICK d : d = content'
  OBVIOUS
<1>5. Longer(longer, non_negative, k, v)
  BY <1>3
<1>6. Fills(d, content, starting_point + Len(non_negative), starting_point + Len(non_negative) + k - 1, v)
  BY <1>2, <1>4
<1>7. LaidOut(starting_point, longer, negative, d)
  BY <1>1, <1>5, <1>6, GrowsRight
<1> QED BY <1>3, <1>4, <1>7 DEF VectorInv

\* The same on the left, where the vector is kept backwards.
LEMMA GrowingLeftKeepsVectorInv ==
  ASSUME VectorInv, NEW v \in Items, UNCHANGED <<starting_point, non_negative>>, NEW k \in Nat \ {0},
         Longer(negative', negative, k, v),
         Gets(get_negative_end - k + 1 .. get_negative_end, v)
  PROVE  VectorInv'
<1>0. starting_point \in Int /\ Len(negative) \in Nat
  BY LenProperties DEF VectorInv, LaidOut
<1>1. /\ LaidOut(starting_point, non_negative, negative, content)
      /\ get_negative_end = starting_point - Len(negative) - 1
      /\ get_negative_end - k + 1 = starting_point - Len(negative) - k
  BY <1>0 DEF VectorInv, get_negative_end
<1>2. Fills(content', content, starting_point - Len(negative) - k,
            starting_point - Len(negative) - 1, v)
  BY <1>1 DEF Gets, Fills
<1>3. PICK longer : longer = negative'
  OBVIOUS
<1>4. PICK d : d = content'
  OBVIOUS
<1>5. Longer(longer, negative, k, v)
  BY <1>3
<1>6. Fills(d, content, starting_point - Len(negative) - k, starting_point - Len(negative) - 1, v)
  BY <1>2, <1>4
<1>7. LaidOut(starting_point, non_negative, longer, d)
  BY <1>1, <1>5, <1>6, GrowsLeft
<1> QED BY <1>3, <1>4, <1>7 DEF VectorInv

\* push_back() and push_front() grow by one index.
LEMMA PushKeepsVectorInv ==
  ASSUME VectorInv, NEW v \in Items, push_back(v) \/ push_front(v)
  PROVE  VectorInv'
<1>0. /\ starting_point \in Int /\ non_negative \in Seq(Items) /\ negative \in Seq(Items)
      /\ DOMAIN content = starting_point - Len(negative) .. starting_point + Len(non_negative) - 1
      /\ Len(non_negative) \in Nat /\ Len(negative) \in Nat /\ UNCHANGED starting_point
  BY LenProperties DEF VectorInv, LaidOut, push_back, push_front
<1>1. CASE push_back(v)
  <2>1. non_negative' = Append(non_negative, v) /\ UNCHANGED negative /\ Holds(get_positive_end, v)
    BY <1>1 DEF push_back
  <2>2. get_positive_end \notin DOMAIN content
        /\ {get_positive_end} = get_positive_end .. get_positive_end + 1 - 1
    BY <1>0 DEF get_positive_end
  <2>3. Gets(get_positive_end .. get_positive_end + 1 - 1, v) /\ 1 \in Nat \ {0}
    <3>1. Gets({get_positive_end}, v)
      BY <2>1, <2>2, NewIsGot
    <3> QED BY <2>2, <3>1 DEF Gets
  <2>4. Longer(non_negative', non_negative, 1, v)
    BY <1>0, <2>1, AppendIsLonger
  <2> QED BY <1>0, <2>1, <2>3, <2>4, GrowingRightKeepsVectorInv
<1>2. CASE push_front(v)
  <2>1. negative' = Append(negative, v) /\ UNCHANGED non_negative /\ Holds(get_negative_end, v)
    BY <1>2 DEF push_front
  <2>2. get_negative_end \notin DOMAIN content
        /\ {get_negative_end} = get_negative_end - 1 + 1 .. get_negative_end
    BY <1>0 DEF get_negative_end
  <2>3. Gets(get_negative_end - 1 + 1 .. get_negative_end, v) /\ 1 \in Nat \ {0}
    <3>1. Gets({get_negative_end}, v)
      BY <2>1, <2>2, NewIsGot
    <3> QED BY <2>2, <3>1 DEF Gets
  <2>4. Longer(negative', negative, 1, v)
    BY <1>0, <2>1, AppendIsLonger
  <2> QED BY <1>0, <2>1, <2>3, <2>4, GrowingLeftKeepsVectorInv
<1> QED BY <1>1, <1>2

\* resize_to_contain() grows up to the index asked for.
LEMMA ResizeKeepsVectorInv ==
  ASSUME VectorInv, NEW n \in Int, NEW v \in Items, resize_to_contain(n, v)
  PROVE  VectorInv'
<1>0. /\ starting_point \in Int /\ non_negative \in Seq(Items) /\ negative \in Seq(Items)
      /\ Len(non_negative) \in Nat /\ Len(negative) \in Nat /\ UNCHANGED starting_point
  BY LenProperties DEF VectorInv, LaidOut, resize_to_contain
<1>1. CASE /\ n >= get_positive_end
           /\ non_negative' = Resized(non_negative, n - starting_point + 1, v)
           /\ Gets(get_positive_end .. n, v)
           /\ UNCHANGED negative
  <2>0. get_positive_end \in Int
    BY <1>0 DEF get_positive_end
  <2>1. PICK k \in Int : k = n - get_positive_end + 1
    BY <2>0
  <2>2. /\ k \in Nat \ {0} /\ n - starting_point + 1 = Len(non_negative) + k
        /\ n - starting_point + 1 \in Int /\ get_positive_end + k - 1 = n
    BY <1>0, <1>1, <2>1 DEF get_positive_end
  <2>3. Longer(non_negative', non_negative, k, v)
    BY <1>0, <1>1, <2>2, ResizedIsLonger
  <2> QED BY <1>0, <1>1, <2>2, <2>3, GrowingRightKeepsVectorInv
<1>2. CASE /\ n <= get_negative_end
           /\ negative' = Resized(negative, negative_to_positive(n) + 1, v)
           /\ Gets(n .. get_negative_end, v)
           /\ UNCHANGED non_negative
  <2>0. get_negative_end \in Int
    BY <1>0 DEF get_negative_end
  <2>1. PICK k \in Int : k = get_negative_end - n + 1
    BY <2>0
  <2>2. /\ k \in Nat \ {0} /\ negative_to_positive(n) + 1 = Len(negative) + k
        /\ negative_to_positive(n) + 1 \in Int /\ get_negative_end - k + 1 = n
    BY <1>0, <1>2, <2>1 DEF get_negative_end, negative_to_positive
  <2>3. Longer(negative', negative, k, v)
    BY <1>0, <1>2, <2>2, ResizedIsLonger
  <2> QED BY <1>0, <1>2, <2>2, <2>3, GrowingLeftKeepsVectorInv
<1> QED BY <1>1, <1>2 DEF resize_to_contain

\* Nothing is shown when nothing is kept.
LEMMA ClearKeepsVectorInv ==
  ASSUME VectorInv, clear
  PROVE  VectorInv'
<1>1. starting_point \in Int /\ UNCHANGED starting_point
      /\ negative' = <<>> /\ non_negative' = <<>> /\ content' = <<>>
  BY DEF VectorInv, LaidOut, clear
<1>2. <<>> \in Seq(Items) /\ Len(<<>>) = 0 /\ DOMAIN <<>> = {}
  BY EmptySeq
<1>3. starting_point - 0 .. starting_point + 0 - 1 = {} /\ 1 .. 0 = {}
  BY <1>1
<1> QED BY <1>1, <1>2, <1>3 DEF VectorInv, LaidOut

\* Every index shows what was put there last, however the two sides grow, are filled and are
\* cleared (two_sided_vector.hpp:33-149).
THEOREM VectorIndicesKeepTheirValues == VectorSpec => []IndicesKeepTheirValues
<1>1. VectorInv /\ [VectorNext]_vectorVars => VectorInv'
  <2> SUFFICES ASSUME VectorInv, [VectorNext]_vectorVars PROVE VectorInv'
    OBVIOUS
  <2>0. starting_point \in Int /\ MaxSize \in Int
    BY TwoSidedAssumption DEF VectorInv, LaidOut
  <2>1. CASE UNCHANGED vectorVars
    BY <2>1 DEF vectorVars, VectorInv, LaidOut
  <2>2. ASSUME NEW v \in Items, push_back(v) \/ push_front(v) PROVE VectorInv'
    BY <2>2, PushKeepsVectorInv
  <2>3. ASSUME NEW v \in Items, NEW n \in Around, set_value(n, v) \/ resize_to_contain(n, v)
        PROVE  VectorInv'
    <3>1. n \in Int
      BY <2>0 DEF Around
    <3> QED BY <2>3, <3>1, SetValueKeepsVectorInv, ResizeKeepsVectorInv
  <2>4. CASE clear
    BY <2>4, ClearKeepsVectorInv
  <2> QED BY <2>1, <2>2, <2>3, <2>4 DEF VectorNext
<1>2. VectorInv => IndicesKeepTheirValues
  <2> SUFFICES ASSUME VectorInv,
                      NEW n \in starting_point - MaxSize - 1 .. starting_point + MaxSize
               PROVE  get_val(n) = IF n \in DOMAIN content THEN content[n] ELSE NoValue
    BY DEF IndicesKeepTheirValues
  <2>1. n \in Int
    BY TwoSidedAssumption DEF VectorInv, LaidOut
  <2> QED BY <2>1, ShownAsPut
<1> QED BY <1>1, <1>2, InitVectorInv, PTL DEF VectorSpec
=============================================================================
