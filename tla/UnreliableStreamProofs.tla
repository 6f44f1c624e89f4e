----------------------- MODULE UnreliableStreamProofs -----------------------
(***************************************************************************)
(* What an UNRELIABLE stream hands over begins with all of one message,    *)
(* and the stream of a correct sender does not fail, whatever the network  *)
(* loses, repeats and reorders: for any sizes of packets and messages and  *)
(* any number of sequence numbers.                                         *)
(***************************************************************************)
EXTENDS UnreliableStream, SequenceTheorems, TLAPS

-----------------------------------------------------------------------------
(* Arithmetic of packets and numbers.                                      *)

LEMMA Constants ==
  /\ Payload \in Nat /\ WithFramesLeft \in Nat \ {0} /\ SeqCount \in Nat \ {0}
  /\ Lag \in Nat /\ Half \in Nat /\ Lag <= Half /\ 2 * Half < SeqCount
  /\ Sizes \subseteq Nat /\ FirstNumbers \subseteq Nat
<1>1. /\ Payload \in Nat /\ FramesLeftSize \in Nat /\ SeqCount \in Nat /\ Lag \in Nat
      /\ FramesLeftSize < Payload /\ 2 * Lag < SeqCount
      /\ Sizes \subseteq Nat /\ FirstNumbers \subseteq Nat
  BY UnreliableAssumption
<1>2. WithFramesLeft \in Nat \ {0}
  BY <1>1 DEF WithFramesLeft
<1>3. Half \in Nat /\ Lag <= Half /\ 2 * Half < SeqCount
  BY <1>1 DEF Half
<1> QED BY <1>1, <1>2, <1>3

LEMMA Order ==
  ASSUME NEW n \in Nat, NEW p \in Int, NEW q \in Int, p <= q
  PROVE  n * p <= n * q
<1>1. q - p \in Nat
  OBVIOUS
<1>2. n * (q - p) >= 0
  BY <1>1
<1> QED BY <1>2

\* quotient and remainder are unique
LEMMA Division ==
  ASSUME NEW n \in Nat \ {0}, NEW p \in Int, NEW s \in 0 .. n - 1
  PROVE  (n * p + s) \div n = p /\ (n * p + s) % n = s
<1> DEFINE a == n * p + s
           d == a \div n
           r == a % n
<1>1. a = n * d + r /\ d \in Int /\ r \in 0 .. n - 1
  OBVIOUS
<1>2. a = n * p + s
  OBVIOUS
<1> HIDE DEF a, d, r
<1>3. ~ (p + 1 <= d)
  <2> SUFFICES ASSUME p + 1 <= d PROVE FALSE
    OBVIOUS
  <2>1. n * (p + 1) <= n * d
    BY <1>1, Order
  <2> QED BY <2>1, <1>1, <1>2
<1>4. ~ (d + 1 <= p)
  <2> SUFFICES ASSUME d + 1 <= p PROVE FALSE
    OBVIOUS
  <2>1. n * (d + 1) <= n * p
    BY <1>1, Order
  <2> QED BY <2>1, <1>1, <1>2
<1>5. d = p
  BY <1>1, <1>3, <1>4
<1> QED BY <1>1, <1>2, <1>5 DEF a, d, r

LEMMA Quotient ==
  ASSUME NEW n \in Nat \ {0}, NEW a \in Nat
  PROVE  a = n * (a \div n) + (a % n) /\ a \div n \in Nat /\ a % n \in 0 .. n - 1
  OBVIOUS

\* A message longer than a packet: how many packets it is cut into, which of them are
\* not the last, and what they announce (scorpio_udp.cpp:50, 804-807).
LEMMA Cut ==
  ASSUME NEW size \in Nat, size > Payload
  PROVE  LET count == PacketsCount(size)
             left == FramesLeft(size, 0)
         IN /\ count \in Nat /\ count >= 2
            /\ \A k \in Nat : GoesOn(size, k) <=> k <= count - 2
            /\ left \in Nat /\ left >= count - 2
            /\ (size - Payload) % WithFramesLeft # 0 =>
                 \A k \in Nat : k <= count - 2 => FramesLeft(size, k) = count - 2 - k
<1> DEFINE n == WithFramesLeft
           rest == size - Payload
           q == rest \div n
           r == rest % n
           count == PacketsCount(size)
<1>1. n \in Nat \ {0} /\ Payload \in Nat
  BY Constants
<1>2. rest \in Nat /\ rest > 0
  BY <1>1
<1>3. rest = n * q + r /\ q \in Nat /\ r \in 0 .. n - 1
  BY <1>1, <1>2, Quotient
<1>4. count = 1 + q + (IF r # 0 THEN 1 ELSE 0)
  BY <1>1, <1>3 DEF PacketsCount
<1>5. \A k : GoesOn(size, k) <=> size - k * n > Payload
  BY DEF GoesOn
<1>6. \A k : FramesLeft(size, k) = (size - k * n - Payload) \div n
  BY DEF FramesLeft
<1>7. r = 0 => q >= 1
  <2> HIDE DEF q, r
  <2> SUFFICES ASSUME r = 0, q = 0 PROVE FALSE
    BY <1>3
  <2> QED BY <1>1, <1>2, <1>3
<1> HIDE DEF n, q, r, count
<1>8. count \in Nat /\ count >= 2
  BY <1>3, <1>4, <1>7
<1>9. ASSUME NEW k \in Nat PROVE GoesOn(size, k) <=> k <= count - 2
  <2>1. GoesOn(size, k) <=> n * q + r > n * k
    BY <1>1, <1>3, <1>5
  <2>2. CASE k <= q - 1
    <3>1. n * (k + 1) <= n * q
      BY <1>1, <1>3, <2>2, Order
    <3>2. n * q + r > n * k
      BY <3>1, <1>1, <1>3
    <3> QED BY <3>2, <2>1, <2>2, <1>3, <1>4
  <2>3. CASE k = q
    BY <2>1, <2>3, <1>1, <1>3, <1>4
  <2>4. CASE q + 1 <= k
    <3>1. n * (q + 1) <= n * k
      BY <1>1, <1>3, <2>4, Order
    <3>2. ~ (n * q + r > n * k)
      BY <3>1, <1>1, <1>3
    <3> QED BY <3>2, <2>1, <2>4, <1>3, <1>4
  <2> QED BY <2>2, <2>3, <2>4, <1>3
<1>10. ASSUME NEW k \in Nat PROVE FramesLeft(size, k) = q - k
  <2>1. size - k * n - Payload = n * (q - k) + r
    BY <1>1, <1>3
  <2>2. (n * (q - k) + r) \div n = q - k
    BY <1>1, <1>3, Division
  <2> QED BY <2>1, <2>2, <1>6
<1>11. FramesLeft(size, 0) \in Nat /\ FramesLeft(size, 0) >= count - 2
  BY <1>3, <1>4, <1>10
<1>12. r # 0 => count = q + 2
  BY <1>3, <1>4
<1>13. r # 0 => \A k \in Nat : k <= count - 2 => FramesLeft(size, k) = count - 2 - k
  BY <1>3, <1>10, <1>12
<1> QED BY <1>8, <1>9, <1>11, <1>13 DEF count, r, n

\* Every number within half a turn of the newest one is widened to itself
\* (scorpio_udp.cpp:2295).
LEMMA WidenedToItself ==
  ASSUME NEW number \in Nat, newest \in Nat, complement \in Nat,
         greatest \in 0 .. SeqCount - 1, newest = SeqCount * complement + greatest,
         number <= newest + Half, newest <= number + Half
  PROVE  LET n == Number(number % SeqCount)
         IN /\ n.number = number
            /\ n.complement \in Nat /\ n.greatest \in 0 .. SeqCount - 1
            /\ (IF number > newest THEN number ELSE newest)
                 = SeqCount * n.complement + n.greatest
<1> DEFINE s == SeqCount
           c == complement
           g == greatest
           t == number \div s
           v == number % s
           n == Number(v)
<1>1. s \in Nat \ {0} /\ Half \in Nat /\ 2 * Half < s
  BY Constants
<1>2. number = s * t + v /\ t \in Nat /\ v \in 0 .. s - 1
  BY <1>1, Quotient
<1>3. newest = s * c + g /\ c \in Nat /\ g \in 0 .. s - 1
  OBVIOUS
<1>4. n = CASE g < v /\ v - g > Half ->
                 [number |-> Widened(v, IF c = 0 THEN 0 ELSE c - 1), complement |-> c, greatest |-> g]
            [] g > v /\ g - v > Half ->
                 [number |-> Widened(v, c + 1), complement |-> c + 1, greatest |-> v]
            [] OTHER ->
                 [number |-> Widened(v, c), complement |-> c, greatest |-> IF g < v THEN v ELSE g]
  BY DEF Number
<1>5. \A k \in Nat : Widened(v, k) = s * k + v
  BY <1>1, <1>2 DEF Widened
<1>6. SUFFICES /\ n.number = number
               /\ n.complement \in Nat /\ n.greatest \in 0 .. s - 1
               /\ (IF number > newest THEN number ELSE newest) = s * n.complement + n.greatest
  OBVIOUS
<1> HIDE DEF s, c, g, t, v, n
<1>7. CASE t = c
  <2>1. number - newest = v - g
    BY <1>1, <1>2, <1>3, <1>7
  <2>2. n = [number |-> Widened(v, c), complement |-> c, greatest |-> IF g < v THEN v ELSE g]
    BY <2>1, <1>1, <1>2, <1>3, <1>4
  <2>3. n.number = number /\ n.complement = c /\ n.greatest = IF g < v THEN v ELSE g
    BY <2>2, <1>2, <1>3, <1>5, <1>7
  <2> QED BY <2>1, <2>3, <1>2, <1>3, <1>7
<1>8. CASE t = c + 1
  <2>1. number - newest = s + v - g
    BY <1>1, <1>2, <1>3, <1>8
  <2>2. g > v /\ g - v > Half
    BY <2>1, <1>1, <1>2, <1>3
  <2>3. n = [number |-> Widened(v, c + 1), complement |-> c + 1, greatest |-> v]
    BY <2>2, <1>1, <1>2, <1>3, <1>4
  <2>4. n.number = number /\ n.complement = c + 1 /\ n.greatest = v
    BY <2>3, <1>2, <1>3, <1>5, <1>8
  <2> QED BY <2>1, <2>4, <1>1, <1>2, <1>3, <1>8
<1>9. CASE t = c - 1
  <2>1. newest - number = s + g - v
    BY <1>1, <1>2, <1>3, <1>9
  <2>2. g < v /\ v - g > Half
    BY <2>1, <1>1, <1>2, <1>3
  <2>3. n = [number |-> Widened(v, c - 1), complement |-> c, greatest |-> g]
    BY <2>2, <1>1, <1>2, <1>3, <1>4, <1>9
  <2>4. n.number = number /\ n.complement = c /\ n.greatest = g
    BY <2>3, <1>2, <1>3, <1>5, <1>9
  <2> QED BY <2>1, <2>4, <1>1, <1>2, <1>3, <1>9
<1>10. ~ (c + 2 <= t)
  <2> SUFFICES ASSUME c + 2 <= t PROVE FALSE
    OBVIOUS
  <2>1. s * (c + 2) <= s * t
    BY <1>1, <1>2, <1>3, Order
  <2> QED BY <2>1, <1>1, <1>2, <1>3
<1>11. ~ (t <= c - 2)
  <2> SUFFICES ASSUME t <= c - 2 PROVE FALSE
    OBVIOUS
  <2>1. s * t <= s * (c - 2)
    BY <1>1, <1>2, <1>3, Order
  <2> QED BY <2>1, <1>1, <1>2, <1>3
<1> QED BY <1>2, <1>3, <1>7, <1>8, <1>9, <1>10, <1>11

LEMMA CountIsNatural ==
  ASSUME NEW size \in Nat
  PROVE  PacketsCount(size) \in Nat
<1>1. CASE size > Payload
  BY <1>1, Cut
<1>2. CASE ~ (size > Payload)
  BY <1>2 DEF PacketsCount
<1> QED BY <1>1, <1>2

-----------------------------------------------------------------------------
(* Packets, and where the messages start.                                  *)

\* The messages of lengths `sizes' start at `base', one after the other, before `end'
Spread(sizes, base, end) ==
  /\ \A m \in DOMAIN sizes : base[m] + PacketsCount(sizes[m]) <= end
  /\ \A l, m \in DOMAIN sizes : l < m => base[l] + PacketsCount(sizes[l]) <= base[m]

\* p is a packet of one of them
IsFragment(p, sizes, base) ==
  /\ p.message \in DOMAIN sizes
  /\ \E i \in Nat : /\ p = Fragment(p.message, sizes[p.message], base[p.message], i)
                    /\ \A k \in 0 .. i - 1 : GoesOn(sizes[p.message], k)

\* p is packet i of message m, which has several
IsPiece(p, sizes, base, m, i) ==
  /\ m \in DOMAIN sizes /\ sizes[m] > Payload
  /\ i \in Nat /\ i <= PacketsCount(sizes[m]) - 1
  /\ p = Fragment(m, sizes[m], base[m], i)

LEMMA FragmentFields ==
  ASSUME NEW m, NEW size, NEW first, NEW i, NEW p, p = Fragment(m, size, first, i)
  PROVE  /\ p.message = m /\ p.number = first + i /\ p.from = i * WithFramesLeft
         /\ p.isFirst <=> i = 0
         /\ p.length = IF GoesOn(size, i) THEN WithFramesLeft ELSE size - i * WithFramesLeft
         /\ p.left = IF GoesOn(size, i) THEN <<FramesLeft(size, i)>> ELSE <<>>
<1>1. p.isFirst <=> i = 0
  BY DEF Fragment
<1> QED BY <1>1 DEF Fragment

LEMMA FragmentIsPiece ==
  ASSUME NEW sizes \in Seq(Nat), NEW base \in [DOMAIN sizes -> Nat],
         NEW p, IsFragment(p, sizes, base), ~IsWhole(p)
  PROVE  IsPiece(p, sizes, base, p.message, p.number - base[p.message])
<1> DEFINE m == p.message
           size == sizes[m]
<1>1. PICK i \in Nat : /\ p = Fragment(m, size, base[m], i)
                       /\ \A k \in 0 .. i - 1 : GoesOn(size, k)
  BY DEF IsFragment
<1>2. m \in DOMAIN sizes /\ size \in Nat
  BY ElementOfSeq, LenProperties DEF IsFragment
<1>3. /\ p.number = base[m] + i /\ (i = 0 => p.isFirst)
      /\ p.left = IF GoesOn(size, i) THEN <<FramesLeft(size, i)>> ELSE <<>>
  <2> HIDE DEF m, size
  <2> QED BY <1>1, FragmentFields
<1> HIDE DEF m, size
<1>4. GoesOn(size, 0)
  BY <1>1, <1>3 DEF IsWhole
<1>5. size > Payload
  BY <1>2, <1>4, Constants DEF GoesOn
<1>6. i <= PacketsCount(size) - 1
  <2>1. CASE i = 0
    BY <2>1, <1>2, <1>5, Cut
  <2>2. CASE i > 0
    <3>1. GoesOn(size, i - 1) /\ i - 1 \in Nat
      BY <1>1, <2>2
    <3>2. PacketsCount(size) \in Nat /\ i - 1 <= PacketsCount(size) - 2
      BY <3>1, <1>2, <1>5, Cut
    <3> QED BY <3>2
  <2> QED BY <2>1, <2>2
<1>7. p.number - base[m] = i
  BY <1>2, <1>3 DEF m
<1> QED BY <1>1, <1>2, <1>5, <1>6, <1>7 DEF m, size, IsPiece

LEMMA PieceFields ==
  ASSUME NEW sizes \in Seq(Nat), NEW base \in [DOMAIN sizes -> Nat],
         NEW p, NEW m, NEW i, IsPiece(p, sizes, base, m, i)
  PROVE  LET count == PacketsCount(sizes[m])
         IN /\ p.message = m /\ p.number = base[m] + i /\ p.from = i * WithFramesLeft
            /\ p.isFirst <=> i = 0
            /\ i < count - 1 => p.length = WithFramesLeft /\ p.left = <<FramesLeft(sizes[m], i)>>
            /\ i = count - 1 => p.length = sizes[m] - i * WithFramesLeft /\ p.left = <<>>
            /\ count \in Nat /\ count >= 2 /\ i \in 0 .. count - 1 /\ m \in DOMAIN sizes
<1>1. m \in DOMAIN sizes /\ sizes[m] \in Nat /\ base[m] \in Nat
  BY ElementOfSeq, LenProperties DEF IsPiece
<1>2. /\ sizes[m] > Payload /\ i \in Nat /\ i <= PacketsCount(sizes[m]) - 1
      /\ p = Fragment(m, sizes[m], base[m], i)
  BY DEF IsPiece
<1>3. /\ PacketsCount(sizes[m]) \in Nat /\ PacketsCount(sizes[m]) >= 2
      /\ GoesOn(sizes[m], i) <=> i <= PacketsCount(sizes[m]) - 2
  BY <1>1, <1>2, Cut
<1>4. /\ p.message = m /\ p.number = base[m] + i /\ p.from = i * WithFramesLeft
      /\ p.isFirst <=> i = 0
      /\ p.length = IF GoesOn(sizes[m], i) THEN WithFramesLeft
                    ELSE sizes[m] - i * WithFramesLeft
      /\ p.left = IF GoesOn(sizes[m], i) THEN <<FramesLeft(sizes[m], i)>> ELSE <<>>
  BY <1>2, FragmentFields
<1> QED BY <1>1, <1>2, <1>3, <1>4

\* The number of a packet tells of which message it is a part, and of which part.
LEMMA PieceOfNumber ==
  ASSUME NEW sizes \in Seq(Nat), NEW base \in [DOMAIN sizes -> Nat], NEW end,
         Spread(sizes, base, end),
         NEW p, NEW l, NEW i, IsPiece(p, sizes, base, l, i),
         NEW m \in DOMAIN sizes, NEW k \in Nat, k < PacketsCount(sizes[m]),
         PacketsCount(sizes[m]) \in Nat, p.number = base[m] + k
  PROVE  l = m /\ i = k
<1>1. /\ l \in DOMAIN sizes /\ p.number = base[l] + i
      /\ PacketsCount(sizes[l]) \in Nat /\ i \in 0 .. PacketsCount(sizes[l]) - 1
  BY PieceFields
<1>2. base[l] \in Nat /\ base[m] \in Nat /\ l \in Nat /\ m \in Nat
  BY <1>1, LenProperties
<1>3. ~ (l < m)
  BY <1>1, <1>2 DEF Spread
<1>4. ~ (m < l)
  BY <1>1, <1>2 DEF Spread
<1>5. l = m
  BY <1>2, <1>3, <1>4
<1> QED BY <1>1, <1>2, <1>5

LEMMA SameNumber ==
  ASSUME NEW sizes \in Seq(Nat), NEW base \in [DOMAIN sizes -> Nat], NEW end,
         Spread(sizes, base, end),
         NEW p, NEW l, NEW i, IsPiece(p, sizes, base, l, i),
         NEW q, NEW m, NEW k, IsPiece(q, sizes, base, m, k),
         p.number = q.number
  PROVE  p = q
<1>1. /\ m \in DOMAIN sizes /\ q.number = base[m] + k
      /\ PacketsCount(sizes[m]) \in Nat /\ k \in 0 .. PacketsCount(sizes[m]) - 1
  BY PieceFields
<1>2. /\ k \in Nat /\ k < PacketsCount(sizes[m]) /\ p.number = base[m] + k
      /\ m \in DOMAIN sizes /\ PacketsCount(sizes[m]) \in Nat
  BY <1>1
<1>3. l = m /\ i = k
  BY <1>2, PieceOfNumber
<1> QED BY <1>3 DEF IsPiece

-----------------------------------------------------------------------------
(* The buffer.                                                             *)

\* A frame is in its place, and one of a message of several
Sound(buffer, sizes, base) ==
  \A key \in Keys(buffer) :
    /\ \E p, older : buffer[key] = [packet |-> p, older |-> older]
    /\ At(buffer, key).number = key
    /\ IsFragment(At(buffer, key), sizes, base) /\ ~IsWhole(At(buffer, key))

\* The frames that follow a first one are the packets of its message.
LEMMA Following ==
  ASSUME NEW sizes \in Seq(Nat), NEW base \in [DOMAIN sizes -> Nat], NEW end,
         Spread(sizes, base, end), NEW buffer, Sound(buffer, sizes, base),
         NEW start \in Keys(buffer), At(buffer, start).isFirst
  PROVE  LET m == At(buffer, start).message
             count == PacketsCount(sizes[m])
         IN /\ m \in DOMAIN sizes /\ start = base[m] /\ sizes[m] > Payload
            /\ count \in Nat /\ count >= 2
            /\ Expected(At(buffer, start)) = FramesLeft(sizes[m], 0) + 1
            /\ At(buffer, start).left[1] = FramesLeft(sizes[m], 0)
            /\ \A k \in 0 .. count - 1 :
                 start + k \in Keys(buffer) => IsPiece(At(buffer, start + k), sizes, base, m, k)
<1> DEFINE first == At(buffer, start)
           m == first.message
           count == PacketsCount(sizes[m])
           i == first.number - base[m]
<1>1. first.number = start /\ IsPiece(first, sizes, base, m, i)
  BY FragmentIsPiece DEF Sound
<1>2. /\ first.number = base[m] + i /\ i = 0 /\ count \in Nat /\ count >= 2
      /\ first.left = <<FramesLeft(sizes[m], i)>>
  <2> HIDE DEF i, m, first
  <2>1. /\ first.number = base[m] + i /\ (first.isFirst <=> i = 0)
        /\ (i < count - 1 => first.left = <<FramesLeft(sizes[m], i)>>)
        /\ count \in Nat /\ count >= 2
    BY <1>1, PieceFields
  <2> QED BY <2>1 DEF first
<1>3. m \in DOMAIN sizes /\ sizes[m] > Payload /\ base[m] \in Nat
  BY <1>1 DEF IsPiece
<1>4. start = base[m]
  BY <1>1, <1>2, <1>3
<1>5. Expected(first) = FramesLeft(sizes[m], 0) + 1 /\ first.left[1] = FramesLeft(sizes[m], 0)
  BY <1>2 DEF Expected
<1>6. ASSUME NEW k \in 0 .. count - 1, start + k \in Keys(buffer)
      PROVE  IsPiece(At(buffer, start + k), sizes, base, m, k)
  <2> DEFINE p == At(buffer, start + k)
             l == p.message
             j == p.number - base[l]
  <2>1. p.number = start + k /\ IsPiece(p, sizes, base, l, j)
    BY <1>6, FragmentIsPiece DEF Sound
  <2>2. l = m /\ j = k
    <3> HIDE DEF p, l, j, m, first
    <3>1. p.number = base[m] + k /\ k \in Nat /\ k < count
      BY <1>2, <1>4, <2>1
    <3> QED BY <1>2, <1>3, <2>1, <3>1, PieceOfNumber
  <2> QED BY <2>1, <2>2
<1> QED BY <1>2, <1>3, <1>4, <1>5, <1>6

LEMMA FirstsAreNumbers ==
  ASSUME NEW sizes \in Seq(Nat), NEW base \in [DOMAIN sizes -> Nat], NEW end,
         Spread(sizes, base, end), NEW buffer, Sound(buffer, sizes, base),
         NEW start \in Keys(buffer), At(buffer, start).isFirst
  PROVE  start \in Nat
<1> DEFINE m == At(buffer, start).message
<1>1. m \in DOMAIN sizes /\ start = base[m]
  BY Following
<1> QED BY <1>1

\* When all of a message is there, what is taken from the buffer begins with it
\* (scorpio_udp.cpp:2259).
LEMMA CompleteCovers ==
  ASSUME NEW base \in [DOMAIN sent -> Nat], sent \in Seq(Nat), NEW end,
         Spread(sent, base, end), NEW buffer, Sound(buffer, sent, base),
         NEW start \in Keys(buffer), At(buffer, start).isFirst, Complete(buffer, start)
  PROVE  Covers(Assembled(buffer, Taken(buffer, start)))
<1> DEFINE m == At(buffer, start).message
           count == PacketsCount(sent[m])
           last == start + count - 1
           r == Assembled(buffer, Taken(buffer, start))
           n == WithFramesLeft
<1>1. /\ m \in DOMAIN sent /\ start = base[m] /\ sent[m] > Payload
      /\ count \in Nat /\ count >= 2
      /\ Expected(At(buffer, start)) = FramesLeft(sent[m], 0) + 1
      /\ \A k \in 0 .. count - 1 :
           start + k \in Keys(buffer) => IsPiece(At(buffer, start + k), sent, base, m, k)
  BY Following
<1>2. start \in Nat /\ sent[m] \in Nat /\ n \in Nat
  BY <1>1, ElementOfSeq, LenProperties, Constants
<1>3. FramesLeft(sent[m], 0) \in Nat /\ FramesLeft(sent[m], 0) + 1 >= count - 1
  BY <1>1, <1>2, Cut
<1>4. \A k \in 0 .. count - 1 : start + k \in Keys(buffer)
  <2>1. \A k \in 1 .. FramesLeft(sent[m], 0) + 1 : start + k \in Keys(buffer)
    BY <1>1 DEF Complete, Follow
  <2> HIDE DEF m, count
  <2>2. \A k \in 1 .. count - 1 : start + k \in Keys(buffer)
    BY <2>1, <1>1, <1>3
  <2>3. start + 0 \in Keys(buffer)
    BY <1>2
  <2> QED BY <2>2, <2>3, <1>1
<1>5. ASSUME NEW k \in 0 .. count - 1
      PROVE  /\ At(buffer, start + k).message = m
             /\ At(buffer, start + k).from = k * n
             /\ At(buffer, start + k).isFirst <=> k = 0
             /\ k < count - 1 => At(buffer, start + k).length = n
             /\ k = count - 1 => At(buffer, start + k).length = sent[m] - k * n
  <2>1. IsPiece(At(buffer, start + k), sent, base, m, k)
    BY <1>1, <1>4
  <2> QED BY <2>1, PieceFields
<1> HIDE DEF m, count, n, last
<1>6. \A k \in start .. last : k - start \in 0 .. count - 1 /\ start + (k - start) = k
  BY <1>1, <1>2 DEF last
<1>7. \A k \in start .. last : k \in Taken(buffer, start)
  <2> SUFFICES ASSUME NEW k \in start .. last PROVE k \in Taken(buffer, start)
    OBVIOUS
  <2>1. k \in Keys(buffer) /\ k >= start
    BY <1>4, <1>6, <1>2
  <2>2. ASSUME NEW j \in Keys(buffer), start < j, j <= k PROVE ~At(buffer, j).isFirst
    <3> SUFFICES ASSUME At(buffer, j).isFirst PROVE FALSE
      OBVIOUS
    <3>1. j \in Nat
      BY FirstsAreNumbers
    <3>2. j - start \in 0 .. count - 1 /\ start + (j - start) = j /\ j - start # 0
      BY <3>1, <2>2, <1>1, <1>2 DEF last
    <3> QED BY <3>2, <1>5
  <2> QED BY <2>1, <2>2 DEF Taken
<1>8. DOMAIN r = Taken(buffer, start) /\ \A k \in DOMAIN r : r[k] = Stretch(At(buffer, k))
  BY DEF Assembled
<1>9. \A k \in DOMAIN r : start <= k
  BY <1>8 DEF Taken
<1> HIDE DEF r
<1>10. ASSUME NEW k \in start .. last
       PROVE  /\ k \in DOMAIN r /\ r[k].message = m /\ r[k].from = (k - start) * n
              /\ k < last => r[k].length = n
              /\ k = last => r[k].length = sent[m] - (k - start) * n
  <2>1. k \in DOMAIN r /\ r[k] = Stretch(At(buffer, k))
    BY <1>7, <1>8
  <2>2. /\ r[k].message = At(buffer, k).message
        /\ r[k].from = At(buffer, k).from /\ r[k].length = At(buffer, k).length
    BY <2>1 DEF Stretch
  <2>3. /\ k - start \in 0 .. count - 1 /\ start + (k - start) = k
    BY <1>6
  <2>4. (k < last => k - start < count - 1) /\ (k = last => k - start = count - 1)
    BY <1>1, <1>2 DEF last
  <2> QED BY <2>1, <2>2, <2>3, <2>4, <1>5
<1>11. start \in start .. last /\ last \in start .. last
  BY <1>1, <1>2 DEF last
<1>12. /\ r[start].from = 0 /\ r[start].message = m
       /\ r[last].from + r[last].length = sent[m]
  BY <1>10, <1>11, <1>2
<1>13. ASSUME NEW k \in start .. last, k > start
       PROVE  r[k].from = r[k - 1].from + r[k - 1].length
  <2>1. k - 1 \in start .. last /\ k - 1 < last
    BY <1>13, <1>1, <1>2 DEF last
  <2>2. r[k - 1].from = (k - 1 - start) * n /\ r[k - 1].length = n
    BY <2>1, <1>10
  <2>3. r[k].from = (k - start) * n
    BY <1>10
  <2> QED BY <2>2, <2>3, <1>2
<1>14. start \in DOMAIN r /\ last \in DOMAIN r
  BY <1>10, <1>11
<1> QED BY <1>1, <1>9, <1>10, <1>12, <1>13, <1>14 DEF Covers, r

\* The packets that follow count down as the first one announces, if no message of its
\* length announces one too many.
LEMMA CountsDown ==
  ASSUME NEW sizes \in Seq(Nat), NEW base \in [DOMAIN sizes -> Nat], NEW end,
         Spread(sizes, base, end), NEW buffer, Sound(buffer, sizes, base),
         NEW start \in Keys(buffer), At(buffer, start).isFirst,
         (sizes[At(buffer, start).message] - Payload) % WithFramesLeft # 0
  PROVE  /\ Expected(At(buffer, start)) = PacketsCount(sizes[At(buffer, start).message]) - 1
         /\ ~Inconsistent(buffer, start)
<1> DEFINE m == At(buffer, start).message
           count == PacketsCount(sizes[m])
           expected == Expected(At(buffer, start))
<1>1. /\ m \in DOMAIN sizes /\ start = base[m] /\ sizes[m] > Payload
      /\ count \in Nat /\ count >= 2 /\ expected = FramesLeft(sizes[m], 0) + 1
      /\ \A k \in 0 .. count - 1 :
           start + k \in Keys(buffer) => IsPiece(At(buffer, start + k), sizes, base, m, k)
  BY Following
<1>2. sizes[m] \in Nat
  BY <1>1, ElementOfSeq, LenProperties
<1>3. (sizes[m] - Payload) % WithFramesLeft # 0
  OBVIOUS
<1> HIDE DEF m, count, expected
<1>4. \A k \in Nat : k <= count - 2 => FramesLeft(sizes[m], k) = count - 2 - k
  BY <1>1, <1>2, <1>3, Cut DEF count
<1>5. expected = count - 1
  BY <1>1, <1>4
<1>6. ASSUME NEW k \in 1 .. expected, Follow(buffer, start, k)
      PROVE  At(buffer, start + k).left = (IF k = expected THEN <<>> ELSE <<expected - k - 1>>)
  <2>1. k \in 0 .. count - 1 /\ start + k \in Keys(buffer)
    BY <1>1, <1>5, <1>6 DEF Follow
  <2>2. IsPiece(At(buffer, start + k), sizes, base, m, k)
    BY <2>1, <1>1
  <2>3. /\ k < count - 1 => At(buffer, start + k).left = <<FramesLeft(sizes[m], k)>>
        /\ k = count - 1 => At(buffer, start + k).left = <<>>
    BY <2>2, PieceFields DEF count
  <2>4. k < count - 1 => FramesLeft(sizes[m], k) = expected - k - 1
    BY <2>1, <1>1, <1>4, <1>5
  <2>5. CASE k = expected
    BY <2>3, <2>5, <1>5
  <2>6. CASE k # expected
    <3>1. count \in Nat
      BY <1>1
    <3>2. k \in 1 .. count - 1 /\ k # count - 1
      BY <2>6, <1>5
    <3>3. k < count - 1
      BY <3>1, <3>2
    <3> QED BY <3>3, <2>3, <2>4, <2>6
  <2> QED BY <2>5, <2>6
<1>7. ~Inconsistent(buffer, start)
  BY <1>6 DEF Inconsistent, expected
<1> QED BY <1>5, <1>7 DEF expected, count, m

\* erase(): the frames that stay are what they were.
LEMMA Held ==
  ASSUME NEW sizes, NEW base, NEW buffer, Sound(buffer, sizes, base),
         NEW kept \in SUBSET Keys(buffer)
  PROVE  /\ Keys(Hold(buffer, kept)) = kept
         /\ \A k \in kept : At(Hold(buffer, kept), k) = At(buffer, k)
         /\ Sound(Hold(buffer, kept), sizes, base)
<1> DEFINE held == Hold(buffer, kept)
<1>1. /\ Keys(held) = kept
      /\ \A k \in kept : held[k] = [buffer[k] EXCEPT !.older = @ \cap kept]
  BY DEF Hold, Keys
<1> HIDE DEF held
<1>2. ASSUME NEW k \in kept
      PROVE  /\ \E p, older : held[k] = [packet |-> p, older |-> older]
             /\ At(held, k) = At(buffer, k)
  <2>1. k \in Keys(buffer)
    OBVIOUS
  <2>2. PICK p, older : buffer[k] = [packet |-> p, older |-> older]
    BY <2>1 DEF Sound
  <2>3. held[k] = [packet |-> p, older |-> older \cap kept]
    BY <1>1, <2>2
  <2>4. \E q, o : held[k] = [packet |-> q, older |-> o]
    BY <2>3
  <2>5. held[k].packet = p /\ buffer[k].packet = p
    BY <2>2, <2>3
  <2> QED BY <2>4, <2>5 DEF At
<1>3. Sound(held, sizes, base)
  BY <1>1, <1>2 DEF Sound
<1> QED BY <1>1, <1>2, <1>3 DEF held

\* emplace(): a packet comes to its place, where nothing else can be.
LEMMA Added ==
  ASSUME sent \in Seq(Nat), NEW base \in [DOMAIN sent -> Nat], NEW end,
         Spread(sent, base, end), Sound(frames, sent, base),
         NEW p, IsFragment(p, sent, base), ~IsWhole(p)
  PROVE  LET buffer == With(p.number, p)
         IN /\ Keys(buffer) = Keys(frames) \cup {p.number}
            /\ \A k \in Keys(frames) : At(buffer, k) = At(frames, k)
            /\ At(buffer, p.number) = p
            /\ Sound(buffer, sent, base)
<1> DEFINE key == p.number
           buffer == With(key, p)
<1>1. /\ Keys(buffer) = Keys(frames) \cup {key}
      /\ \A k \in Keys(buffer) :
           buffer[k] = IF k \in Keys(frames) THEN frames[k]
                       ELSE [packet |-> p, older |-> Keys(frames)]
  BY DEF With, Keys
<1> HIDE DEF buffer
<1>2. \A k \in Keys(frames) : At(buffer, k) = At(frames, k)
  BY <1>1 DEF At
<1>3. At(buffer, key) = p
  <2>1. CASE key \in Keys(frames)
    <3> DEFINE q == At(frames, key)
    <3>1. q.number = key /\ IsFragment(q, sent, base) /\ ~IsWhole(q)
      BY <2>1 DEF Sound
    <3> HIDE DEF q
    <3>2. IsPiece(q, sent, base, q.message, q.number - base[q.message])
      BY <3>1, FragmentIsPiece
    <3>3. IsPiece(p, sent, base, p.message, p.number - base[p.message])
      BY FragmentIsPiece
    <3>4. p = q
      BY <3>1, <3>2, <3>3, SameNumber
    <3> QED BY <3>4, <2>1, <1>2 DEF q
  <2>2. CASE key \notin Keys(frames)
    BY <2>2, <1>1 DEF At
  <2> QED BY <2>1, <2>2
<1>4. Sound(buffer, sent, base)
  <2> SUFFICES ASSUME NEW k \in Keys(buffer)
               PROVE  /\ \E q, older : buffer[k] = [packet |-> q, older |-> older]
                      /\ At(buffer, k).number = k
                      /\ IsFragment(At(buffer, k), sent, base) /\ ~IsWhole(At(buffer, k))
    BY DEF Sound
  <2>1. CASE k \in Keys(frames)
    <3>1. /\ \E q, older : frames[k] = [packet |-> q, older |-> older]
          /\ At(frames, k).number = k
          /\ IsFragment(At(frames, k), sent, base) /\ ~IsWhole(At(frames, k))
      BY <2>1 DEF Sound
    <3>2. buffer[k] = frames[k] /\ At(buffer, k) = At(frames, k)
      BY <2>1, <1>1, <1>2
    <3> QED BY <3>1, <3>2
  <2>2. CASE k \notin Keys(frames)
    <3>1. k = key /\ buffer[k] = [packet |-> p, older |-> Keys(frames)]
      BY <2>2, <1>1
    <3> QED BY <3>1, <1>3
  <2> QED BY <2>1, <2>2
<1> QED BY <1>1, <1>2, <1>3, <1>4 DEF buffer

\* A message that is sent comes after all others.
LEMMA Extended ==
  ASSUME NEW sizes \in Seq(Nat), NEW base \in [DOMAIN sizes -> Nat], NEW end \in Nat,
         Spread(sizes, base, end), NEW size \in Nat
  PROVE  LET all == Append(sizes, size)
             more == [m \in DOMAIN all |-> IF m \in DOMAIN sizes THEN base[m] ELSE end]
         IN /\ more \in [DOMAIN all -> Nat] /\ Spread(all, more, end + PacketsCount(size))
            /\ \A p : IsFragment(p, sizes, base) => IsFragment(p, all, more)
            /\ \A p \in Fragments(Len(all), size, end) : IsFragment(p, all, more)
            /\ \A buffer : Sound(buffer, sizes, base) => Sound(buffer, all, more)
<1> DEFINE all == Append(sizes, size)
           more == [m \in DOMAIN all |-> IF m \in DOMAIN sizes THEN base[m] ELSE end]
           n == Len(sizes) + 1
<1>1. /\ Len(sizes) \in Nat /\ DOMAIN sizes = 1 .. Len(sizes)
      /\ all \in Seq(Nat) /\ Len(all) = n /\ DOMAIN all = 1 .. n
      /\ all[n] = size /\ \A m \in DOMAIN sizes : all[m] = sizes[m]
  BY LenProperties, AppendProperties
<1>2. /\ more \in [DOMAIN all -> Nat] /\ more[n] = end
      /\ \A m \in DOMAIN sizes : more[m] = base[m]
  BY <1>1
<1> HIDE DEF all, more
<1>3. PacketsCount(size) \in Nat
  BY CountIsNatural
<1>4. Spread(all, more, end + PacketsCount(size))
  <2>1. \A m \in DOMAIN sizes : /\ more[m] + PacketsCount(all[m]) <= end
                                /\ more[m] + PacketsCount(all[m]) \in Nat
    <3> SUFFICES ASSUME NEW m \in DOMAIN sizes
                 PROVE  /\ more[m] + PacketsCount(all[m]) <= end
                        /\ more[m] + PacketsCount(all[m]) \in Nat
      OBVIOUS
    <3>1. sizes[m] \in Nat /\ base[m] \in Nat
      BY <1>1, ElementOfSeq
    <3>2. PacketsCount(sizes[m]) \in Nat
      BY <3>1, CountIsNatural
    <3> QED BY <3>1, <3>2, <1>1, <1>2 DEF Spread
  <2>2. \A m \in DOMAIN all : m \in DOMAIN sizes \/ m = n
    BY <1>1
  <2>3. ASSUME NEW m \in DOMAIN all
        PROVE  more[m] + PacketsCount(all[m]) <= end + PacketsCount(size)
    BY <2>1, <2>2, <1>1, <1>2, <1>3
  <2>4. ASSUME NEW l \in DOMAIN all, NEW m \in DOMAIN all, l < m
        PROVE  more[l] + PacketsCount(all[l]) <= more[m]
    <3>1. l \in DOMAIN sizes
      BY <2>4, <1>1
    <3>2. CASE m = n
      BY <3>1, <3>2, <2>1, <1>2
    <3>3. CASE m \in DOMAIN sizes
      BY <3>1, <3>3, <2>4, <1>1, <1>2 DEF Spread
    <3> QED BY <3>2, <3>3, <2>2
  <2> QED BY <2>3, <2>4 DEF Spread
<1>5. ASSUME NEW p, IsFragment(p, sizes, base)
      PROVE  IsFragment(p, all, more)
  <2>1. /\ p.message \in DOMAIN all /\ all[p.message] = sizes[p.message]
        /\ more[p.message] = base[p.message]
    BY <1>1, <1>2, <1>5 DEF IsFragment
  <2> QED BY <2>1, <1>5 DEF IsFragment
<1>6. ASSUME NEW p \in Fragments(Len(all), size, end)
      PROVE  IsFragment(p, all, more)
  <2>1. PICK i \in 0 .. size : /\ p = Fragment(n, size, end, i)
                               /\ \A k \in 0 .. i - 1 : GoesOn(size, k)
    BY <1>1 DEF Fragments
  <2>2. p.message = n /\ n \in DOMAIN all /\ i \in Nat
    <3>1. p.message = n
      BY <2>1 DEF Fragment
    <3> QED BY <3>1, <1>1
  <2> QED BY <2>1, <2>2, <1>1, <1>2 DEF IsFragment
<1>7. ASSUME NEW buffer, Sound(buffer, sizes, base)
      PROVE  Sound(buffer, all, more)
  BY <1>5, <1>7 DEF Sound
<1> QED BY <1>2, <1>4, <1>5, <1>6, <1>7 DEF all, more

-----------------------------------------------------------------------------
(* The invariant.                                                          *)

TypeOK ==
  /\ sent \in Seq(Sizes) /\ next \in Nat
  /\ newest \in Nat /\ complement \in Nat /\ greatest \in 0 .. SeqCount - 1

\* what can arrive is at most half a turn away from the newest number
InReach ==
  /\ newest = SeqCount * complement + greatest
  /\ newest <= next /\ next <= newest + Half
  /\ \A p \in net : p.number + Lag >= next

FirstsAreHeld == \A f \in firsts : f \in Keys(frames) /\ At(frames, f).isFirst

\* nothing but packets of messages sent is anywhere
Layout(base) ==
  /\ Spread(sent, base, next)
  /\ \A p \in net : IsFragment(p, sent, base)
  /\ Sound(frames, sent, base)

IInv == /\ TypeOK /\ InReach /\ FirstsAreHeld /\ NothingIsMissing
        /\ \E base \in [DOMAIN sent -> Nat] : Layout(base)

LEMMA SentAreNumbers ==
  ASSUME TypeOK
  PROVE  sent \in Seq(Nat) /\ \A m \in DOMAIN sent : sent[m] \in Sizes /\ sent[m] \in Nat
<1>1. sent \in Seq(Sizes) /\ Sizes \subseteq Nat
  BY Constants DEF TypeOK
<1>2. /\ Len(sent) \in Nat /\ DOMAIN sent = 1 .. Len(sent)
      /\ \A m \in 1 .. Len(sent) : sent[m] \in Sizes
  BY <1>1, LenProperties, ElementOfSeq
<1>3. sent \in [1 .. Len(sent) -> Nat]
  BY <1>1, LenProperties
<1> QED BY <1>1, <1>2, <1>3, SeqDef

\* What comes with a packet of several: it is in the place of its number, and the first
\* packet to look from is there.
LEMMA Arrival ==
  ASSUME IInv, NEW p \in net, ~IsWhole(p),
         NEW base \in [DOMAIN sent -> Nat], Layout(base)
  PROVE  LET n == Number(Seq32(p))
             key == n.number
             buffer == With(key, p)
         IN /\ key = p.number /\ key \in Nat /\ key < next
            /\ n.complement \in Nat /\ n.greatest \in 0 .. SeqCount - 1
            /\ (IF key > newest THEN key ELSE newest) = SeqCount * n.complement + n.greatest
            /\ Keys(buffer) = Keys(frames) \cup {key}
            /\ \A k \in Keys(frames) : At(buffer, k) = At(frames, k)
            /\ At(buffer, key) = p /\ Sound(buffer, sent, base)
            /\ \A start \in Starts(p, key) :
                 start \in Keys(buffer) /\ At(buffer, start).isFirst
<1> DEFINE n == Number(Seq32(p))
           key == n.number
           buffer == With(key, p)
<1>1. /\ sent \in Seq(Nat) /\ Spread(sent, base, next) /\ Sound(frames, sent, base)
      /\ IsFragment(p, sent, base)
  BY SentAreNumbers DEF IInv, Layout
<1>2. IsPiece(p, sent, base, p.message, p.number - base[p.message])
  BY <1>1, FragmentIsPiece
<1>3. p.number \in Nat /\ p.number < next
  <2> DEFINE m == p.message
             i == p.number - base[m]
             count == PacketsCount(sent[m])
  <2>1. /\ p.number = base[m] + i /\ i \in 0 .. count - 1 /\ count \in Nat
        /\ m \in DOMAIN sent
    <3> HIDE DEF m, i
    <3> QED BY <1>1, <1>2, PieceFields DEF m, i
  <2>2. base[m] \in Nat /\ base[m] + count <= next /\ next \in Nat
    BY <1>1, <2>1 DEF Spread, IInv, TypeOK
  <2> HIDE DEF m, i, count
  <2> QED BY <2>1, <2>2
<1>4. /\ newest \in Nat /\ complement \in Nat /\ greatest \in 0 .. SeqCount - 1
      /\ newest = SeqCount * complement + greatest
      /\ p.number <= newest + Half /\ newest <= p.number + Half
  <2>1. /\ newest \in Nat /\ next \in Nat /\ newest <= next /\ next <= newest + Half
        /\ p.number + Lag >= next
    BY DEF IInv, TypeOK, InReach
  <2>2. p.number <= newest + Half /\ newest <= p.number + Half
    BY <2>1, <1>3, Constants
  <2> QED BY <2>2 DEF IInv, TypeOK, InReach
<1>5. /\ key = p.number /\ n.complement \in Nat /\ n.greatest \in 0 .. SeqCount - 1
      /\ (IF p.number > newest THEN p.number ELSE newest) = SeqCount * n.complement + n.greatest
  BY <1>3, <1>4, WidenedToItself DEF Seq32
<1> HIDE DEF n
<1>6. /\ Keys(buffer) = Keys(frames) \cup {key}
      /\ \A k \in Keys(frames) : At(buffer, k) = At(frames, k)
      /\ At(buffer, key) = p /\ Sound(buffer, sent, base)
  BY <1>1, <1>5, Added
<1> HIDE DEF buffer, key
<1>7. ASSUME NEW start \in Starts(p, key)
      PROVE  start \in Keys(buffer) /\ At(buffer, start).isFirst
  <2>1. CASE p.isFirst
    BY <2>1, <1>6 DEF Starts
  <2>2. CASE ~p.isFirst
    <3>1. start \in firsts
      BY <2>2 DEF Starts
    <3>2. start \in Keys(frames) /\ At(frames, start).isFirst
      BY <3>1 DEF IInv, FirstsAreHeld
    <3> QED BY <3>2, <1>6
  <2> QED BY <2>1, <2>2
<1> QED BY <1>3, <1>5, <1>6, <1>7 DEF n, key, buffer

\* What has been handed over stays what it is.
LEMMA StillCovers ==
  ASSUME sent \in Seq(Sizes), NEW size \in Sizes, sent' = Append(sent, size),
         NEW r, Covers(r)
  PROVE  Covers(r)'
<1>1. /\ DOMAIN sent \subseteq DOMAIN sent'
      /\ \A m \in DOMAIN sent : sent'[m] = sent[m]
  <2>1. DOMAIN sent = 1 .. Len(sent) /\ Len(sent) \in Nat
    BY LenProperties
  <2>2. DOMAIN sent' = 1 .. Len(sent) + 1 /\ \A m \in 1 .. Len(sent) : sent'[m] = sent[m]
    BY <2>1, AppendProperties, LenProperties
  <2> QED BY <2>1, <2>2
<1>2. PICK start \in DOMAIN r : \E last \in DOMAIN r :
        /\ \A k \in DOMAIN r : start <= k
        /\ r[start].message \in DOMAIN sent /\ r[start].from = 0
        /\ \A k \in start .. last :
             /\ k \in DOMAIN r /\ r[k].message = r[start].message
             /\ k > start => r[k].from = r[k - 1].from + r[k - 1].length
        /\ r[last].from + r[last].length = sent[r[start].message]
  BY DEF Covers
<1>3. r[start].message \in DOMAIN sent' /\ sent'[r[start].message] = sent[r[start].message]
  BY <1>1, <1>2
<1> QED BY <1>2, <1>3 DEF Covers

LEMMA SendKeeps ==
  ASSUME IInv, NEW size \in Sizes, Send(size)
  PROVE  IInv'
<1>1. PICK base \in [DOMAIN sent -> Nat] : Layout(base)
  BY DEF IInv
<1>2. /\ sent \in Seq(Nat) /\ next \in Nat /\ size \in Nat /\ sent \in Seq(Sizes)
      /\ newest <= next /\ newest \in Nat /\ PacketsCount(size) \in Nat
  BY SentAreNumbers, Constants, CountIsNatural DEF IInv, TypeOK, InReach
<1>3. /\ sent' = Append(sent, size) /\ next' = next + PacketsCount(size)
      /\ next' <= newest + Half
      /\ net' = Recent(net \cup Fragments(Len(sent'), size, next), next')
      /\ UNCHANGED <<frames, firsts, complement, greatest, newest, received>>
  BY DEF Send, numbering
<1>4. TypeOK'
  BY <1>2, <1>3, AppendProperties DEF IInv, TypeOK
<1>5. InReach'
  <2>1. \A p \in net' : p.number + Lag >= next'
    BY <1>3 DEF Recent
  <2>2. newest' <= next'
    BY <1>2, <1>3
  <2> QED BY <2>1, <2>2, <1>3 DEF IInv, InReach
<1>6. FirstsAreHeld'
  BY <1>3 DEF IInv, FirstsAreHeld, Keys, At
<1>7. NothingIsMissing'
  BY <1>2, <1>3, StillCovers DEF IInv, NothingIsMissing
<1>8. \E more \in [DOMAIN sent' -> Nat] : Layout(more)'
  <2> DEFINE all == Append(sent, size)
             later == [m \in DOMAIN all |-> IF m \in DOMAIN sent THEN base[m] ELSE next]
  <2>1. /\ later \in [DOMAIN all -> Nat] /\ Spread(all, later, next + PacketsCount(size))
        /\ \A p : IsFragment(p, sent, base) => IsFragment(p, all, later)
        /\ \A p \in Fragments(Len(all), size, next) : IsFragment(p, all, later)
        /\ \A buffer : Sound(buffer, sent, base) => Sound(buffer, all, later)
    <3>1. Spread(sent, base, next)
      BY <1>1 DEF Layout
    <3> QED BY <3>1, <1>2, Extended
  <2> HIDE DEF all, later
  <2>2. all = sent'
    BY <1>3 DEF all
  <2>3. PICK more \in [DOMAIN sent' -> Nat] :
          /\ Spread(sent', more, next')
          /\ \A p : IsFragment(p, sent, base) => IsFragment(p, sent', more)
          /\ \A p \in Fragments(Len(sent'), size, next) : IsFragment(p, sent', more)
          /\ \A buffer : Sound(buffer, sent, base) => Sound(buffer, sent', more)
    BY <2>1, <2>2, <1>3
  <2>4. \A p \in net' : IsFragment(p, sent', more)
    BY <2>3, <1>1, <1>3 DEF Recent, Layout
  <2>5. Sound(frames', sent', more)
    BY <2>3, <1>1, <1>3 DEF Layout
  <2>6. Layout(more)'
    BY <2>3, <2>4, <2>5 DEF Layout
  <2> QED BY <2>6
<1> QED BY <1>4, <1>5, <1>6, <1>7, <1>8 DEF IInv

\* An arrival takes nothing but copies from the network.
LEMMA LessInNet ==
  ASSUME IInv, net' \subseteq net, UNCHANGED <<sent, next, frames, firsts>>,
         UNCHANGED numbering, NothingIsMissing'
  PROVE  IInv'
<1>1. PICK base \in [DOMAIN sent -> Nat] : Layout(base)
  BY DEF IInv
<1>2. TypeOK' /\ InReach' /\ FirstsAreHeld'
  BY DEF IInv, TypeOK, InReach, FirstsAreHeld, numbering, Keys, At
<1>3. Layout(base)' /\ base \in [DOMAIN sent' -> Nat]
  BY <1>1 DEF Layout
<1> QED BY <1>2, <1>3 DEF IInv

LEMMA ReceiveWholeKeeps ==
  ASSUME IInv, NEW p \in net, ReceiveWhole(p)
  PROVE  IInv'
<1>1. PICK base \in [DOMAIN sent -> Nat] : Layout(base)
  BY DEF IInv
<1>2. PICK i \in Nat : p = Fragment(p.message, sent[p.message], base[p.message], i)
  BY <1>1 DEF Layout, IsFragment
<1>3. p.message \in DOMAIN sent /\ sent[p.message] \in Nat
  BY <1>1, SentAreNumbers DEF IInv, Layout, IsFragment
<1>4. p.from = 0 /\ p.length = sent[p.message]
  <2>1. /\ p.from = i * WithFramesLeft /\ (p.isFirst <=> i = 0)
        /\ p.length = IF GoesOn(sent[p.message], i) THEN WithFramesLeft
                      ELSE sent[p.message] - i * WithFramesLeft
        /\ p.left = IF GoesOn(sent[p.message], i)
                    THEN <<FramesLeft(sent[p.message], i)>> ELSE <<>>
    BY <1>2, FragmentFields
  <2>2. i = 0 /\ ~GoesOn(sent[p.message], i)
    <3>1. p.isFirst /\ p.left = <<>>
      BY DEF ReceiveWhole, IsWhole
    <3>2. \A x : <<x>> # <<>>
      OBVIOUS
    <3> QED BY <2>1, <3>1, <3>2
  <2> QED BY <2>1, <2>2, <1>3, Constants
<1> DEFINE r == [k \in {0} |-> Stretch(p)]
<1>5. Covers(r)
  <2>1. /\ DOMAIN r = {0} /\ r[0].message = p.message
        /\ r[0].from = 0 /\ r[0].length = sent[p.message]
    BY <1>4 DEF Stretch
  <2> HIDE DEF r
  <2>2. \A k \in 0 .. 0 : k = 0
    OBVIOUS
  <2> QED BY <2>1, <2>2, <1>3 DEF Covers
<1>6. /\ received' = received \cup {r} /\ net' \subseteq net
      /\ UNCHANGED <<sent, next, frames, firsts>> /\ UNCHANGED numbering
  BY DEF ReceiveWhole, Takes
<1> HIDE DEF r
<1>7. NothingIsMissing'
  BY <1>5, <1>6 DEF IInv, NothingIsMissing, Covers
<1> QED BY <1>6, <1>7, LessInNet

LEMMA ExpireKeeps ==
  ASSUME IInv, Expire
  PROVE  IInv'
<1>1. PICK base \in [DOMAIN sent -> Nat] : Layout(base)
  BY DEF IInv
<1>2. PICK kept \in SUBSET Keys(frames) : frames' = Hold(frames, kept)
  BY DEF Expire
<1>3. /\ firsts' = firsts \cap Keys(frames')
      /\ UNCHANGED <<sent, next, net, complement, greatest, newest, received>>
  BY DEF Expire, numbering
<1>4. /\ Keys(frames') = kept /\ Sound(frames', sent, base)
      /\ \A k \in kept : At(frames', k) = At(frames, k)
  BY <1>1, <1>2, Held DEF Layout
<1>5. TypeOK' /\ InReach' /\ NothingIsMissing'
  BY <1>3 DEF IInv, TypeOK, InReach, NothingIsMissing, Covers
<1>6. FirstsAreHeld'
  BY <1>3, <1>4 DEF IInv, FirstsAreHeld
<1>7. Layout(base)' /\ base \in [DOMAIN sent' -> Nat]
  BY <1>1, <1>3, <1>4 DEF Layout
<1> QED BY <1>5, <1>6, <1>7 DEF IInv

LEMMA AssembleKeeps ==
  ASSUME IInv, NEW p \in net, ~IsWhole(p),
         NEW base \in [DOMAIN sent -> Nat], Layout(base),
         NEW start \in Starts(p, p.number), NEW buffer, buffer = With(p.number, p),
         Sound(buffer, sent, base), Keys(frames) \subseteq Keys(buffer),
         \A k \in Keys(frames) : At(buffer, k) = At(frames, k),
         start \in Keys(buffer), At(buffer, start).isFirst,
         Assemble(buffer, firsts \cup {start}, start), UNCHANGED sent
  PROVE  Sound(frames', sent, base) /\ FirstsAreHeld' /\ NothingIsMissing'
<1>1. \A f \in firsts \cup {start} : f \in Keys(buffer) /\ At(buffer, f).isFirst
  BY DEF IInv, FirstsAreHeld
<1>2. /\ sent \in Seq(Nat) /\ Spread(sent, base, next)
      /\ \A r \in received : Covers(r)
  BY SentAreNumbers DEF IInv, Layout, NothingIsMissing
<1>3. CASE /\ frames' = buffer /\ firsts' = firsts \cup {start}
           /\ UNCHANGED received
  BY <1>1, <1>2, <1>3 DEF FirstsAreHeld, NothingIsMissing, Covers
<1>4. CASE /\ Complete(buffer, start)
           /\ frames' = Hold(buffer, Keys(buffer) \ Taken(buffer, start))
           /\ firsts' = (firsts \cup {start}) \ {start}
           /\ received' = received \cup {Assembled(buffer, Taken(buffer, start))}
  <2> DEFINE kept == Keys(buffer) \ Taken(buffer, start)
  <2>1. /\ Keys(frames') = kept /\ Sound(frames', sent, base)
        /\ \A k \in kept : At(frames', k) = At(buffer, k)
    BY <1>4, Held
  <2>2. ASSUME NEW f \in firsts' PROVE f \in kept
    <3>1. f \in Keys(buffer) /\ At(buffer, f).isFirst /\ f # start
      BY <1>1, <1>4, <2>2
    <3>2. f \in Nat /\ start \in Nat
      BY <3>1, <1>2, FirstsAreNumbers
    <3>3. f \notin Taken(buffer, start)
      BY <3>1, <3>2 DEF Taken
    <3> QED BY <3>1, <3>3
  <2> HIDE DEF kept
  <2>3. FirstsAreHeld'
    <3>1. \A f \in firsts' : f \in Keys(frames') /\ At(frames', f).isFirst
      BY <2>1, <2>2, <1>1, <1>4
    <3> QED BY <3>1 DEF FirstsAreHeld
  <2>4. Covers(Assembled(buffer, Taken(buffer, start)))
    BY <1>2, <1>4, CompleteCovers
  <2>5. \A r \in received' : Covers(r)
    BY <2>4, <1>2, <1>4
  <2>6. NothingIsMissing'
    BY <2>5 DEF NothingIsMissing, Covers
  <2> QED BY <2>1, <2>3, <2>6
<1> QED BY <1>3, <1>4 DEF Assemble

LEMMA ReceiveFragmentKeeps ==
  ASSUME IInv, NEW p \in net, ReceiveFragment(p)
  PROVE  IInv'
<1>1. PICK base \in [DOMAIN sent -> Nat] : Layout(base)
  BY DEF IInv
<1> DEFINE n == Number(Seq32(p))
           key == n.number
           buffer == With(key, p)
<1>2. /\ ~IsWhole(p) /\ net' \subseteq net
      /\ complement' = n.complement /\ greatest' = n.greatest
      /\ newest' = IF p.number > newest THEN p.number ELSE newest
      /\ \/ \E start \in Starts(p, key) : Assemble(buffer, firsts \cup {start}, start)
         \/ /\ Starts(p, key) = {} /\ frames' = buffer
            /\ UNCHANGED <<firsts, failed, received>>
      /\ UNCHANGED <<sent, next>>
  BY DEF ReceiveFragment, Takes
<1>3. /\ key = p.number /\ key \in Nat /\ key < next
      /\ n.complement \in Nat /\ n.greatest \in 0 .. SeqCount - 1
      /\ (IF key > newest THEN key ELSE newest) = SeqCount * n.complement + n.greatest
      /\ Keys(buffer) = Keys(frames) \cup {key}
      /\ \A k \in Keys(frames) : At(buffer, k) = At(frames, k)
      /\ At(buffer, key) = p /\ Sound(buffer, sent, base)
      /\ \A start \in Starts(p, key) : start \in Keys(buffer) /\ At(buffer, start).isFirst
  BY <1>1, <1>2, Arrival
<1> HIDE DEF n
<1>4. buffer = With(p.number, p)
  BY <1>3
<1> HIDE DEF key, buffer
<1>5. /\ newest \in Nat /\ next \in Nat /\ newest <= next /\ next <= newest + Half
      /\ \A q \in net : q.number + Lag >= next
      /\ sent \in Seq(Sizes)
  BY DEF IInv, TypeOK, InReach
<1>6. TypeOK'
  BY <1>2, <1>3, <1>5 DEF TypeOK
<1>7. InReach'
  <2>1. newest' = SeqCount * complement' + greatest'
    BY <1>2, <1>3
  <2>2. newest' <= next' /\ next' <= newest' + Half
    BY <1>2, <1>3, <1>5, Constants
  <2> QED BY <2>1, <2>2, <1>2, <1>5 DEF InReach
<1>8. Sound(frames', sent, base) /\ FirstsAreHeld' /\ NothingIsMissing'
  <2>1. CASE \E start \in Starts(p, key) : Assemble(buffer, firsts \cup {start}, start)
    <3>1. PICK start \in Starts(p, key) : Assemble(buffer, firsts \cup {start}, start)
      BY <2>1
    <3> QED BY <3>1, <1>1, <1>2, <1>3, <1>4, AssembleKeeps
  <2>2. CASE frames' = buffer /\ UNCHANGED <<firsts, failed, received>>
    <3>1. Sound(frames', sent, base)
      BY <2>2, <1>3
    <3>2. FirstsAreHeld'
      BY <2>2, <1>3 DEF IInv, FirstsAreHeld
    <3>3. NothingIsMissing'
      BY <2>2, <1>2 DEF IInv, NothingIsMissing, Covers
    <3> QED BY <3>1, <3>2, <3>3
  <2> QED BY <2>1, <2>2, <1>2
<1>9. Layout(base)' /\ base \in [DOMAIN sent' -> Nat]
  BY <1>1, <1>2, <1>8 DEF Layout
<1> QED BY <1>6, <1>7, <1>8, <1>9 DEF IInv

LEMMA StepKeeps ==
  ASSUME IInv, [Next]_vars
  PROVE  IInv'
<1>1. CASE \E size \in Sizes : Send(size)
  BY <1>1, SendKeeps
<1>2. ASSUME NEW p \in net, ReceiveWhole(p)
      PROVE  IInv'
  BY <1>2, ReceiveWholeKeeps
<1>3. ASSUME NEW p \in net, ReceiveFragment(p)
      PROVE  IInv'
  BY <1>3, ReceiveFragmentKeeps
<1>4. ASSUME NEW p \in net, Lose(p)
      PROVE  IInv'
  <2>1. /\ net' \subseteq net /\ UNCHANGED <<sent, next, frames, firsts>>
        /\ UNCHANGED numbering /\ NothingIsMissing'
    BY <1>4 DEF Lose, IInv, NothingIsMissing, Covers
  <2> QED BY <2>1, LessInNet
<1>5. CASE Expire
  BY <1>5, ExpireKeeps
<1>6. CASE UNCHANGED vars
  <2>1. /\ net' \subseteq net /\ UNCHANGED <<sent, next, frames, firsts>>
        /\ UNCHANGED numbering /\ NothingIsMissing'
    BY <1>6 DEF vars, numbering, IInv, NothingIsMissing, Covers
  <2> QED BY <2>1, LessInNet
<1> QED BY <1>1, <1>2, <1>3, <1>4, <1>5, <1>6 DEF Next

LEMMA InitHolds ==
  ASSUME Init
  PROVE  IInv
<1>1. /\ sent = <<>> /\ next \in Nat /\ net = {} /\ firsts = {} /\ received = {}
      /\ complement = next \div SeqCount /\ greatest = next % SeqCount /\ newest = next
      /\ Keys(frames) = {}
  BY Constants DEF Init, Keys
<1>2. /\ next = SeqCount * complement + greatest
      /\ complement \in Nat /\ greatest \in 0 .. SeqCount - 1 /\ Half \in Nat
  BY <1>1, Constants, Quotient
<1>3. TypeOK /\ InReach /\ FirstsAreHeld /\ NothingIsMissing
  BY <1>1, <1>2 DEF TypeOK, InReach, FirstsAreHeld, NothingIsMissing
<1>4. DOMAIN sent = {}
  BY <1>1
<1> DEFINE none == [m \in {} |-> 0]
<1>5. none \in [DOMAIN sent -> Nat] /\ Layout(none)
  BY <1>1, <1>4 DEF Layout, Spread, Sound
<1> QED BY <1>3, <1>5 DEF IInv

\* The numbers the receiver widens, the packets it holds and the messages it has handed
\* over are in order in every state.
THEOREM UnreliableStreamInvariant == Spec => []IInv
<1>1. Init => IInv
  BY InitHolds
<1>2. IInv /\ [Next]_vars => IInv'
  BY StepKeeps
<1> QED BY <1>1, <1>2, PTL DEF Spec

\* What is handed over begins with all of one message (scorpio_udp.cpp:2259-2274).
THEOREM UnreliableStreamNothingIsMissing == Spec => []NothingIsMissing
<1>1. IInv => NothingIsMissing
  BY DEF IInv
<1> QED BY <1>1, UnreliableStreamInvariant, PTL

-----------------------------------------------------------------------------
(* The stream of a correct sender does not fail and keeps nothing that is  *)
(* complete, if no message announces one packet more than it has: one of   *)
(* Payload + j * WithFramesLeft bytes does (scorpio_udp.cpp:807).          *)

SizesFit == \A size \in Sizes : size > Payload => (size - Payload) % WithFramesLeft # 0

Serves == ~failed /\ NoCompleteMessageWaits

\* A first packet that is held begins a message that announces what it has.
LEMMA FirstAnnounces ==
  ASSUME SizesFit, TypeOK, NEW base \in [DOMAIN sent -> Nat], NEW end,
         Spread(sent, base, end), NEW buffer, Sound(buffer, sent, base),
         NEW f \in Keys(buffer), At(buffer, f).isFirst
  PROVE  LET m == At(buffer, f).message
             count == PacketsCount(sent[m])
         IN /\ m \in DOMAIN sent /\ f = base[m] /\ f \in Nat
            /\ count \in Nat /\ count >= 2 /\ Expected(At(buffer, f)) = count - 1
            /\ At(buffer, f).left[1] = count - 2
            /\ ~Inconsistent(buffer, f)
            /\ \A k \in 0 .. count - 1 :
                 f + k \in Keys(buffer) => IsPiece(At(buffer, f + k), sent, base, m, k)
<1> DEFINE m == At(buffer, f).message
<1>1. sent \in Seq(Nat)
  BY SentAreNumbers
<1>2. /\ m \in DOMAIN sent /\ f = base[m] /\ sent[m] > Payload /\ f \in Nat
      /\ PacketsCount(sent[m]) \in Nat /\ PacketsCount(sent[m]) >= 2
      /\ \A k \in 0 .. PacketsCount(sent[m]) - 1 :
           f + k \in Keys(buffer) => IsPiece(At(buffer, f + k), sent, base, m, k)
  BY <1>1, Following, FirstsAreNumbers
<1>3. (sent[m] - Payload) % WithFramesLeft # 0
  BY <1>2, SentAreNumbers DEF SizesFit
<1>4. Expected(At(buffer, f)) = PacketsCount(sent[m]) - 1 /\ ~Inconsistent(buffer, f)
  BY <1>1, <1>3, CountsDown
<1>5. At(buffer, f).left[1] = PacketsCount(sent[m]) - 2
  <2>1. /\ At(buffer, f).left[1] = FramesLeft(sent[m], 0)
        /\ Expected(At(buffer, f)) = FramesLeft(sent[m], 0) + 1
    BY <1>1, Following
  <2>2. sent[m] \in Nat
    BY <1>2, SentAreNumbers
  <2> HIDE DEF m
  <2>3. FramesLeft(sent[m], 0) \in Nat
    BY <2>2, <1>2, Cut
  <2> QED BY <2>1, <2>3, <1>2, <1>4 DEF m
<1> QED BY <1>2, <1>4, <1>5

\* The packets of f's message are there
AllThere(buffer, f) == Follow(buffer, f, PacketsCount(sent[At(buffer, f).message]) - 1)

\* The numbers have not turned before its end
BeforeTurn(buffer, f) == f + PacketsCount(sent[At(buffer, f).message]) <= SeqCount

LEMMA WaitsFor ==
  NoCompleteMessageWaits
    <=> \A f \in firsts : BeforeTurn(frames, f) => ~AllThere(frames, f)
  BY DEF NoCompleteMessageWaits, BeforeTurn, AllThere

\* A packet that completes a message is one from which the message is looked at.
LEMMA Completed ==
  ASSUME SizesFit, IInv, NoCompleteMessageWaits, NEW p, NEW key \in Nat,
         NEW base \in [DOMAIN sent -> Nat], Layout(base),
         NEW buffer, Sound(buffer, sent, base),
         Keys(buffer) = Keys(frames) \cup {key},
         \A k \in Keys(frames) : At(buffer, k) = At(frames, k), At(buffer, key) = p,
         NEW f \in firsts, BeforeTurn(buffer, f), AllThere(buffer, f)
  PROVE  f \in Starts(p, key)
<1> DEFINE first == At(frames, f)
           m == first.message
           count == PacketsCount(sent[m])
<1>1. /\ f \in Keys(buffer) /\ first = At(buffer, f) /\ first.isFirst /\ f \in Keys(frames)
      /\ \A h \in firsts : h \in Keys(buffer) /\ At(buffer, h).isFirst
  BY DEF IInv, FirstsAreHeld
<1>2. TypeOK /\ Spread(sent, base, next) /\ sent \in Seq(Nat) /\ Sound(frames, sent, base)
  BY SentAreNumbers DEF IInv, Layout
<1>3. /\ m \in DOMAIN sent /\ f \in Nat /\ count \in Nat /\ count >= 2
      /\ first.left[1] = count - 2
      /\ \A k \in 0 .. count - 1 :
           f + k \in Keys(buffer) => IsPiece(At(buffer, f + k), sent, base, m, k)
  BY <1>1, <1>2, FirstAnnounces
<1>4. /\ f + count <= SeqCount /\ Follow(buffer, f, count - 1)
      /\ ~Follow(frames, f, count - 1)
  BY <1>1, WaitsFor DEF BeforeTurn, AllThere
<1>5. first.number = f
  BY <1>1 DEF Sound
<1> HIDE DEF first, m, count
<1>6. \A k \in 1 .. count - 1 : f + k \in Keys(buffer) /\ ~At(buffer, f + k).isFirst
  <2> SUFFICES ASSUME NEW k \in 1 .. count - 1
               PROVE  f + k \in Keys(buffer) /\ ~At(buffer, f + k).isFirst
    OBVIOUS
  <2>1. f + k \in Keys(buffer)
    BY <1>4 DEF Follow
  <2>2. IsPiece(At(buffer, f + k), sent, base, m, k)
    BY <2>1, <1>3
  <2>3. At(buffer, f + k).isFirst <=> k = 0
    BY <2>2, <1>2, PieceFields
  <2> QED BY <2>1, <2>3
<1>7. PICK k \in 1 .. count - 1 : f + k = key
  BY <1>4, <1>6 DEF Follow
<1>8. ~p.isFirst /\ f < key
  BY <1>3, <1>6, <1>7
<1>9. ASSUME NEW h \in firsts, h < key PROVE h <= f
  <2>1. h \in Nat /\ h \in Keys(buffer) /\ At(buffer, h).isFirst
    BY <1>1, <1>2, FirstsAreNumbers
  <2>2. CASE h > f
    <3>1. h - f \in 1 .. count - 1 /\ f + (h - f) = h
      BY <2>1, <2>2, <1>3, <1>7, <1>9
    <3> QED BY <3>1, <2>1, <1>6
  <2> QED BY <2>1, <2>2, <1>3
<1>10. ~TooFar(first, key)
  <2>1. f \in 0 .. SeqCount - 1 /\ SeqCount \in Nat \ {0}
    BY <1>3, <1>4, Constants
  <2>2. f % SeqCount = f
    BY <2>1
  <2>3. Seq32(first) = f
    BY <2>2, <1>5 DEF Seq32
  <2>4. key <= f + count - 1
    BY <1>3, <1>7
  <2>5. ~ (first.left[1] + f + 1 < key)
    BY <2>4, <1>3
  <2> QED BY <2>3, <2>5 DEF TooFar
<1> QED BY <1>8, <1>9, <1>10 DEF Starts, first

LEMMA FragmentServes ==
  ASSUME SizesFit, IInv, Serves, NEW p \in net, ReceiveFragment(p)
  PROVE  Serves'
<1>1. PICK base \in [DOMAIN sent -> Nat] : Layout(base)
  BY DEF IInv
<1> DEFINE key == Number(Seq32(p)).number
           buffer == With(key, p)
<1>2. /\ ~IsWhole(p) /\ ~failed /\ sent' = sent
      /\ \/ \E start \in Starts(p, key) : Assemble(buffer, firsts \cup {start}, start)
         \/ /\ Starts(p, key) = {} /\ frames' = buffer
            /\ UNCHANGED <<firsts, failed, received>>
  BY DEF ReceiveFragment, Takes
<1>3. /\ key \in Nat
      /\ Keys(buffer) = Keys(frames) \cup {key}
      /\ \A k \in Keys(frames) : At(buffer, k) = At(frames, k)
      /\ At(buffer, key) = p /\ Sound(buffer, sent, base)
      /\ \A start \in Starts(p, key) : start \in Keys(buffer) /\ At(buffer, start).isFirst
  BY <1>1, <1>2, Arrival
<1> HIDE DEF key, buffer
<1>4. /\ TypeOK /\ Spread(sent, base, next) /\ NoCompleteMessageWaits
      /\ \A f \in firsts : f \in Keys(buffer) /\ At(buffer, f).isFirst
  BY <1>1, <1>3 DEF IInv, Layout, Serves, FirstsAreHeld
<1>5. \A f \in firsts : BeforeTurn(buffer, f) /\ AllThere(buffer, f) => f \in Starts(p, key)
  BY <1>1, <1>3, <1>4, Completed
<1>6. CASE \E start \in Starts(p, key) : Assemble(buffer, firsts \cup {start}, start)
  <2>1. PICK start \in Starts(p, key) : Assemble(buffer, firsts \cup {start}, start)
    BY <1>6
  <2>2. /\ ~Inconsistent(buffer, start)
        /\ Complete(buffer, start) <=> AllThere(buffer, start)
    BY <1>3, <1>4, FirstAnnounces DEF Complete, AllThere
  <2>3. ~failed'
    BY <2>1, <2>2 DEF Assemble
  <2>4. ASSUME NEW f \in firsts, f # start PROVE f \notin Starts(p, key)
    <3>1. CASE p.isFirst
      BY <3>1 DEF Starts
    <3>2. CASE ~p.isFirst
      <4>1. /\ start \in firsts /\ start < key
            /\ \A h \in firsts : h < key => h <= start
        BY <3>2 DEF Starts
      <4>2. f \in Starts(p, key) => f < key /\ \A h \in firsts : h < key => h <= f
        BY <3>2 DEF Starts
      <4>3. f \in Nat /\ start \in Nat
        BY <4>1, <1>3, <1>4, SentAreNumbers, FirstsAreNumbers
      <4> QED BY <4>1, <4>2, <4>3, <2>4
    <3> QED BY <3>1, <3>2
  <2>5. /\ Keys(frames') \subseteq Keys(buffer)
        /\ \A k \in Keys(frames') : At(frames', k) = At(buffer, k)
        /\ firsts' \subseteq firsts \cup {start}
        /\ start \in firsts' => ~Complete(buffer, start)
    <3>1. CASE /\ frames' = Hold(buffer, Keys(buffer) \ Taken(buffer, start))
               /\ firsts' = (firsts \cup {start}) \ {start}
      <4> DEFINE kept == Keys(buffer) \ Taken(buffer, start)
      <4>1. kept \in SUBSET Keys(buffer)
        OBVIOUS
      <4> HIDE DEF kept
      <4>2. Keys(frames') = kept /\ \A k \in kept : At(frames', k) = At(buffer, k)
        BY <3>1, <4>1, <1>3, Held DEF kept
      <4> QED BY <3>1, <4>1, <4>2
    <3>2. CASE frames' = buffer /\ firsts' = firsts \cup {start} /\ ~Complete(buffer, start)
      BY <3>2
    <3> QED BY <3>1, <3>2, <2>1, <2>2 DEF Assemble
  <2>6. FirstsAreHeld'
    BY ReceiveFragmentKeeps DEF IInv
  <2>7. ASSUME NEW f \in firsts', BeforeTurn(frames, f)' PROVE ~AllThere(frames, f)'
    <3>1. f \in Keys(frames') /\ At(frames', f) = At(buffer, f)
      BY <2>5, <2>6 DEF FirstsAreHeld
    <3>2. BeforeTurn(buffer, f) /\ (AllThere(frames, f)' => AllThere(buffer, f))
      BY <2>5, <2>7, <3>1, <1>2 DEF BeforeTurn, AllThere, Follow
    <3>3. CASE f = start
      BY <3>2, <3>3, <2>2, <2>5
    <3>4. CASE f # start
      BY <3>2, <3>4, <2>4, <2>5, <1>5
    <3> QED BY <3>3, <3>4
  <2>8. NoCompleteMessageWaits'
    BY <2>7 DEF NoCompleteMessageWaits, BeforeTurn, AllThere
  <2> QED BY <2>3, <2>8 DEF Serves
<1>7. CASE Starts(p, key) = {} /\ frames' = buffer /\ UNCHANGED <<firsts, failed, received>>
  <2>1. ASSUME NEW f \in firsts', BeforeTurn(frames, f)' PROVE ~AllThere(frames, f)'
    <3>1. BeforeTurn(buffer, f) /\ (AllThere(frames, f)' => AllThere(buffer, f))
      BY <1>2, <1>7, <2>1 DEF BeforeTurn, AllThere
    <3> QED BY <3>1, <1>5, <1>7
  <2>2. NoCompleteMessageWaits'
    BY <2>1 DEF NoCompleteMessageWaits, BeforeTurn, AllThere
  <2> QED BY <2>2, <1>2, <1>7 DEF Serves
<1> QED BY <1>2, <1>6, <1>7

LEMMA KeysAreNumbers ==
  ASSUME IInv, NEW base \in [DOMAIN sent -> Nat], Layout(base), NEW k \in Keys(frames)
  PROVE  k \in Nat
<1> DEFINE p == At(frames, k)
           m == p.message
<1>1. p.number = k /\ IsFragment(p, sent, base)
  BY DEF Layout, Sound
<1> HIDE DEF p
<1>2. PICK i \in Nat : p = Fragment(m, sent[m], base[m], i)
  BY <1>1 DEF IsFragment
<1>3. p.number = base[m] + i
  BY <1>2 DEF Fragment
<1>4. base[m] \in Nat
  BY <1>1 DEF IsFragment
<1> QED BY <1>1, <1>3, <1>4

\* With fewer frames, and messages that have not changed, nothing becomes complete.
LEMMA FewerServe ==
  ASSUME IInv, Serves, failed' = failed, firsts' \subseteq firsts,
         Keys(frames') \subseteq Keys(frames), firsts' \subseteq Keys(frames'),
         \A k \in Keys(frames') : At(frames', k) = At(frames, k),
         \A m \in DOMAIN sent : sent'[m] = sent[m]
  PROVE  Serves'
<1>1. PICK base \in [DOMAIN sent -> Nat] : Layout(base)
  BY DEF IInv
<1>2. ASSUME NEW f \in firsts', BeforeTurn(frames, f)' PROVE ~AllThere(frames, f)'
  <2>1. f \in firsts /\ f \in Keys(frames') /\ f \in Keys(frames)
        /\ At(frames', f) = At(frames, f)
    OBVIOUS
  <2>2. At(frames, f).message \in DOMAIN sent
    BY <2>1, <1>1 DEF Layout, Sound, IsFragment
  <2>3. sent'[At(frames', f).message] = sent[At(frames, f).message]
    BY <2>1, <2>2
  <2>4. BeforeTurn(frames, f)
    BY <1>2, <2>3 DEF BeforeTurn
  <2>5. ~AllThere(frames, f)
    BY <2>1, <2>4, WaitsFor DEF Serves
  <2> QED BY <2>3, <2>5 DEF AllThere, Follow
<1>3. NoCompleteMessageWaits'
  BY <1>2 DEF NoCompleteMessageWaits, BeforeTurn, AllThere
<1> QED BY <1>3 DEF Serves

LEMMA StepServes ==
  ASSUME SizesFit, IInv, Serves, [Next]_vars
  PROVE  Serves'
<1>1. FirstsAreHeld /\ FirstsAreHeld'
  BY StepKeeps DEF IInv
<1>2. firsts \subseteq Keys(frames) /\ firsts' \subseteq Keys(frames')
  BY <1>1 DEF FirstsAreHeld
<1>3. ASSUME NEW size \in Sizes, Send(size) PROVE Serves'
  <2>1. sent' = Append(sent, size) /\ UNCHANGED <<frames, firsts, failed>>
    BY <1>3 DEF Send
  <2>2. \A m \in DOMAIN sent : sent'[m] = sent[m]
    <3>1. sent \in Seq(Sizes) /\ DOMAIN sent = 1 .. Len(sent)
      BY LenProperties DEF IInv, TypeOK
    <3> QED BY <3>1, <2>1, AppendProperties
  <2> QED BY <2>1, <2>2, <1>2, FewerServe
<1>4. ASSUME UNCHANGED <<frames, firsts, failed, sent>> PROVE Serves'
  BY <1>4, <1>2, FewerServe
<1>5. ASSUME NEW p \in net, ReceiveWhole(p) PROVE Serves'
  BY <1>5, <1>4 DEF ReceiveWhole
<1>6. ASSUME NEW p \in net, ReceiveFragment(p) PROVE Serves'
  BY <1>6, FragmentServes
<1>7. ASSUME NEW p \in net, Lose(p) PROVE Serves'
  BY <1>7, <1>4 DEF Lose
<1>8. CASE Expire
  <2>1. PICK kept \in SUBSET Keys(frames) : frames' = Hold(frames, kept)
    BY <1>8 DEF Expire
  <2>2. PICK base \in [DOMAIN sent -> Nat] : Layout(base)
    BY DEF IInv
  <2>3. Keys(frames') = kept /\ \A k \in kept : At(frames', k) = At(frames, k)
    BY <2>1, <2>2, Held DEF Layout
  <2>4. firsts' \subseteq firsts /\ UNCHANGED <<failed, sent>>
    BY <1>8 DEF Expire
  <2> QED BY <2>3, <2>4, <1>2, FewerServe
<1>9. CASE UNCHANGED vars
  BY <1>9, <1>4 DEF vars
<1> QED BY <1>3, <1>5, <1>6, <1>7, <1>8, <1>9 DEF Next

\* Frames are as far apart as they were numbered, nothing complete waits, and the stream
\* does not fail (scorpio_udp.cpp:2201-2258, 2295).
THEOREM UnreliableStreamBufferIsSound ==
  ASSUME SizesFit
  PROVE  Spec => []BufferIsSound
<1>1. Init => Serves
  BY DEF Init, Serves, NoCompleteMessageWaits
<1>2. IInv /\ Serves /\ [Next]_vars => Serves'
  BY StepServes
<1>3. IInv /\ Serves => BufferIsSound
  <2> SUFFICES ASSUME IInv, Serves PROVE BufferIsSound
    OBVIOUS
  <2>1. PICK base \in [DOMAIN sent -> Nat] : Layout(base)
    BY DEF IInv
  <2>2. DistancesAreKept
    <3> SUFFICES ASSUME NEW j \in Keys(frames), NEW k \in Keys(frames)
                 PROVE  j + At(frames, k).number = k + At(frames, j).number
      BY DEF DistancesAreKept
    <3>1. At(frames, j).number = j /\ At(frames, k).number = k
      BY <2>1 DEF Layout, Sound
    <3>2. j \in Nat /\ k \in Nat
      BY <2>1, KeysAreNumbers
    <3> QED BY <3>1, <3>2
  <2> QED BY <2>2 DEF Serves, BufferIsSound, ReceiverNeverPanics
<1> QED BY <1>1, <1>2, <1>3, UnreliableStreamInvariant, PTL DEF Spec
=============================================================================
