------------------------ MODULE ReliableStreamProofs ------------------------
(***************************************************************************)
(* A RELIABLE_ORDERED stream is a FIFO, its receiver never panics, and     *)
(* what may still be missing can always be sent again, whatever the        *)
(* network loses, repeats, delays and reorders: for any number of writers, *)
(* messages, packets in flight and any size of the ring.                   *)
(*                                                                         *)
(* Messages have at least one packet here.  A message of no bytes, of      *)
(* which packets_count() is 0, shares its sequence number with the next    *)
(* message, and then none of this holds (scorpio_udp.cpp:51).              *)
(***************************************************************************)
EXTENDS ReliableStream, SequenceTheorems, TLAPS, WellFoundedInduction

-----------------------------------------------------------------------------
(* Slots of a ring.                                                        *)

\* a number modulo the size is a slot of the ring (scorpio_udp.cpp:1992, orderer.hpp:102)
LEMMA SlotType ==
  ASSUME NEW n \in Nat \ {0}, NEW i \in Nat
  PROVE  i % n \in 0 .. n - 1
  OBVIOUS

\* two numbers of one window of the ring's size never share a slot
LEMMA SlotInjective ==
  ASSUME NEW n \in Nat \ {0}, NEW c \in Nat,
         NEW i \in c .. c + n - 1, NEW j \in c .. c + n - 1,
         i % n = j % n
  PROVE  i = j
<1>1. i = n * (i \div n) + (i % n) /\ i \div n \in Int
  OBVIOUS
<1>2. j = n * (j \div n) + (j % n) /\ j \div n \in Int
  OBVIOUS
<1> DEFINE q == (i \div n) - (j \div n)
<1>3. i - j = n * q /\ q \in Int
  BY <1>1, <1>2
<1>4. -n < i - j /\ i - j < n
  OBVIOUS
<1>5. q = 0
  <2> HIDE DEF q
  <2>1. CASE q >= 1
    <3>1. n * q >= n
      BY <2>1, <1>3
    <3> QED BY <3>1, <1>3, <1>4
  <2>2. CASE q <= -1
    <3>1. n * q <= -n
      BY <2>2, <1>3
    <3> QED BY <3>1, <1>3, <1>4
  <2> QED BY <2>1, <2>2, <1>3
<1> QED BY <1>3, <1>5

\* every non-empty set of naturals has a least element
LEMMA LeastNatural ==
  ASSUME NEW S \in SUBSET Nat, S # {}
  PROVE  \E m \in S : \A k \in S : m <= k
<1> DEFINE R == OpToRel(<, Nat)
<1>1. IsWellFoundedOn(R, Nat)
  BY NatLessThanWellFounded
<1>2. \A x, y \in Nat : x < y => <<x, y>> \in R
  BY DEF OpToRel
<1> HIDE DEF R
<1>3. PICK m \in S : \A k \in S : <<k, m>> \notin R
  BY <1>1, WFMin
<1>4. ASSUME NEW k \in S PROVE m <= k
  <2>1. ~ (k < m)
    BY <1>2, <1>3
  <2> QED BY <2>1
<1> QED BY <1>4

-----------------------------------------------------------------------------
(* The invariant.                                                          *)

Entry == [packet : Packet, fresh : BOOLEAN]

TypeOK ==
  /\ next \in Nat /\ least \in Nat /\ cur \in Nat
  /\ outgoing \in Seq(Packet) /\ consumed \in Seq(Packet)
  /\ pending \in [Writers -> Seq(Packet)]
  /\ history \in [Slots -> Entry \cup {None}]
  /\ data \subseteq Packet /\ held \subseteq Packet
  /\ heartbeats \subseteq [ack : Nat, held : SUBSET Nat]

\* sequence numbers are positions, and a message starts where one has ended
Numbered ==
  /\ next = Len(outgoing)
  /\ \A k \in 1 .. next : outgoing[k].seq = k - 1
  /\ \A k \in 2 .. next : outgoing[k].first => outgoing[k - 1].last
  /\ next > 0 => outgoing[next].last

\* the packet is the one of its number among the first n of `packets'
IsAmong(p, packets, n) == p.seq \in 0 .. n - 1 /\ p = packets[p.seq + 1]
Generated(p) == IsAmong(p, outgoing, next)

\* nothing but generated packets is anywhere, and nothing that was sent is further
\* ahead than the sender's window
Traced ==
  /\ \A w \in Writers : \A k \in 1 .. Len(pending[w]) : Generated(pending[w][k])
  /\ \A s \in Slots : history[s] # None =>
       /\ Generated(history[s].packet)
       /\ Slot(history[s].packet.seq) = s
       /\ history[s].packet.seq < least + Size
  /\ \A p \in data : Generated(p) /\ p.seq < least + Size
  /\ \A p \in held : Generated(p) /\ cur <= p.seq /\ p.seq < cur + Size

\* what was consumed is what was sent, up to the current index
Delivered ==
  /\ cur <= next /\ Len(consumed) = cur
  /\ \A k \in 1 .. cur : consumed[k] = outgoing[k]

IInv == /\ TypeOK /\ Numbered /\ Traced /\ Delivered
        /\ receiver = "active" /\ AckIsBehindDelivery /\ UnackedIsResendable

-----------------------------------------------------------------------------
(* Packets and slots.                                                      *)

LEMMA SlotFacts ==
  /\ Size \in Nat \ {0}
  /\ \A i \in Nat : Slot(i) \in Slots
  /\ \A c \in Nat : \A i, j \in c .. c + Size - 1 : Slot(i) = Slot(j) => i = j
  /\ None \notin Entry
<1>1. Size \in Nat \ {0} /\ None \notin Entry
  BY ReliableStreamAssumption DEF Entry, Packet
<1>2. \A i \in Nat : Slot(i) \in Slots
  BY <1>1, SlotType DEF Slot, Slots
<1>3. \A c \in Nat : \A i, j \in c .. c + Size - 1 : Slot(i) = Slot(j) => i = j
  BY <1>1, SlotInjective DEF Slot
<1> QED BY <1>1, <1>2, <1>3

LEMMA FunctionIsSequence ==
  ASSUME NEW n \in Nat, NEW S, NEW f \in [1 .. n -> S]
  PROVE  f \in Seq(S) /\ Len(f) = n
  BY SeqDef

LEMMA Joined ==
  ASSUME NEW S, NEW s \in Seq(S), NEW t \in Seq(S), NEW m \in Nat, NEW n \in Nat,
         Len(s) = m, Len(t) = n
  PROVE  /\ s \o t \in Seq(S) /\ Len(s \o t) = m + n
         /\ \A k \in 1 .. m : (s \o t)[k] = s[k]
         /\ \A k \in 1 .. n : (s \o t)[m + k] = t[k]
<1>1. /\ s \o t \in Seq(S) /\ Len(s \o t) = Len(s) + Len(t)
      /\ \A i \in 1 .. Len(s) + Len(t) :
           (s \o t)[i] = IF i <= Len(s) THEN s[i] ELSE t[i - Len(s)]
  BY ConcatProperties
<1> DEFINE c == s \o t
<1>2. \A i \in 1 .. m + n : c[i] = IF i <= m THEN s[i] ELSE t[i - m]
  BY <1>1
<1> HIDE DEF c
<1>3. \A k \in 1 .. m : c[k] = s[k]
  BY <1>2
<1>4. ASSUME NEW k \in 1 .. n PROVE c[m + k] = t[k]
  <2>1. m + k \in 1 .. m + n /\ ~ (m + k <= m) /\ (m + k) - m = k
    OBVIOUS
  <2> QED BY <1>2, <2>1
<1> QED BY <1>1, <1>3, <1>4 DEF c

\* a position of the joined sequence is one of the first part or one of the second
LEMMA Positions ==
  ASSUME NEW m \in Nat, NEW n \in Nat, NEW k \in 1 .. m + n
  PROVE  k \in 1 .. m \/ \E i \in 1 .. n : k = m + i
<1>1. CASE k <= m
  BY <1>1
<1>2. CASE k > m
  <2>1. k - m \in 1 .. n /\ k = m + (k - m)
    BY <1>2
  <2> QED BY <2>1
<1> QED BY <1>1, <1>2

LEMMA PacketsOfSeq ==
  ASSUME NEW s \in Seq(Packet)
  PROVE  /\ \A p : p \in PacketsOf(s) <=> \E k \in 1 .. Len(s) : p = s[k]
         /\ PacketsOf(s) \subseteq Packet
  BY LenProperties, ElementOfSeq DEF PacketsOf

\* A packet is known by its sequence number.
LEMMA GeneratedAre ==
  ASSUME TypeOK, Numbered
  PROVE  /\ \A p : p \in PacketsOf(outgoing) <=> Generated(p)
         /\ \A p, q : Generated(p) /\ Generated(q) /\ p.seq = q.seq => p = q
         /\ \A p : Generated(p) => p \in Packet /\ p.seq \in Nat /\ p.seq < next
         /\ \A k \in 1 .. next : Generated(outgoing[k]) /\ outgoing[k].seq = k - 1
<1>1. /\ outgoing \in Seq(Packet) /\ next \in Nat /\ Len(outgoing) = next
      /\ \A k \in 1 .. next : outgoing[k].seq = k - 1
  BY DEF TypeOK, Numbered
<1>2. \A k \in 1 .. next : outgoing[k] \in Packet
  BY <1>1, ElementOfSeq
<1>3. \A k \in 1 .. next : Generated(outgoing[k])
  BY <1>1 DEF Generated, IsAmong
<1>4. ASSUME NEW p, Generated(p)
      PROVE  /\ p.seq \in Nat /\ p.seq < next /\ p.seq + 1 \in 1 .. next
             /\ p = outgoing[p.seq + 1]
  BY <1>1, <1>4 DEF Generated, IsAmong
<1>5. \A p : p \in PacketsOf(outgoing) <=> \E k \in 1 .. next : p = outgoing[k]
  BY <1>1, PacketsOfSeq
<1>6. \A p : Generated(p) => p \in Packet
  BY <1>2, <1>4
<1>7. \A p, q : Generated(p) /\ Generated(q) /\ p.seq = q.seq => p = q
  BY <1>4
<1> QED BY <1>1, <1>3, <1>4, <1>5, <1>6, <1>7

\* generate_packets: as many packets as it says, numbered from the first on
LEMMA GenerateMakes ==
  ASSUME TypeOK, NEW n \in Nat \ {0}
  PROVE  LET g == Generate(next, n) IN
         /\ g \in Seq(Packet) /\ Len(g) = n
         /\ \A k \in 1 .. n : /\ g[k].seq = next + k - 1
                              /\ g[k].first => k = 1
                              /\ g[k].last <=> k = n
<1> DEFINE g == Generate(next, n)
<1>1. next \in Nat /\ Len(outgoing) + 1 \in Nat
  BY LenProperties DEF TypeOK
<1>2. g = [k \in 1 .. n |-> [seq |-> next + k - 1, message |-> Len(outgoing) + 1,
                            first |-> k = 1, last |-> k >= n]]
  BY DEF Generate
<1>3. \A k \in 1 .. n : g[k] \in Packet
  BY <1>1, <1>2 DEF Packet
<1>4. g \in [1 .. n -> Packet]
  BY <1>2, <1>3
<1>5. g \in Seq(Packet) /\ Len(g) = n
  <2> HIDE DEF g
  <2> QED BY <1>4, FunctionIsSequence
<1>6. ASSUME NEW k \in 1 .. n
      PROVE  /\ g[k].seq = next + k - 1
             /\ g[k].first => k = 1
             /\ g[k].last <=> k = n
  <2>1. g[k] = [seq |-> next + k - 1, message |-> Len(outgoing) + 1,
                first |-> k = 1, last |-> k >= n]
    BY <1>2
  <2>2. k >= n <=> k = n
    OBVIOUS
  <2> HIDE DEF g
  <2>3. g[k].seq = next + k - 1
    BY <2>1
  <2>4. g[k].first = (k = 1) /\ g[k].last = (k >= n)
    BY <2>1
  <2> QED BY <2>2, <2>3, <2>4
<1> QED BY <1>5, <1>6

-----------------------------------------------------------------------------
(* The sender.                                                             *)

\* what was generated stays so when a message is added
LEMMA AllocateAdds ==
  ASSUME TypeOK, Numbered, NEW w \in Writers, NEW n \in Nat \ {0}, Allocate(w, n)
  PROVE  /\ outgoing' \in Seq(Packet) /\ next' = next + n /\ Len(outgoing') = next + n
         /\ \A k \in 1 .. next : outgoing'[k] = outgoing[k]
         /\ \A k \in 1 .. n : outgoing'[next + k] = Generate(next, n)[k]
         /\ Numbered'
         /\ \A p : Generated(p) => IsAmong(p, outgoing', next')
         /\ \A k \in 1 .. n : IsAmong(Generate(next, n)[k], outgoing', next')
<1> DEFINE g == Generate(next, n)
           o == outgoing'
<1>0. next \in Nat /\ outgoing \in Seq(Packet) /\ Len(outgoing) = next /\ n \in Nat
  BY DEF TypeOK, Numbered
<1>1. /\ g \in Seq(Packet) /\ Len(g) = n
      /\ \A k \in 1 .. n : /\ g[k].seq = next + k - 1
                           /\ g[k].first => k = 1
                           /\ g[k].last <=> k = n
  BY GenerateMakes
<1>2. o = outgoing \o g /\ next' = next + n
  BY DEF Allocate
<1> HIDE DEF g, o
<1>3. /\ o \in Seq(Packet) /\ Len(o) = next + n
      /\ \A k \in 1 .. next : o[k] = outgoing[k]
      /\ \A k \in 1 .. n : o[next + k] = g[k]
  <2>1. /\ outgoing \o g \in Seq(Packet) /\ Len(outgoing \o g) = next + n
        /\ \A k \in 1 .. next : (outgoing \o g)[k] = outgoing[k]
        /\ \A k \in 1 .. n : (outgoing \o g)[next + k] = g[k]
    BY <1>0, <1>1, Joined
  <2> QED BY <1>2, <2>1
<1>4. ASSUME NEW k \in 1 .. next + n PROVE o[k].seq = k - 1
  <2>1. CASE k \in 1 .. next
    <3>1. o[k] = outgoing[k] /\ outgoing[k].seq = k - 1
      BY <1>3, <2>1 DEF Numbered
    <3> QED BY <3>1
  <2>2. CASE \E i \in 1 .. n : k = next + i
    <3>1. PICK i \in 1 .. n : k = next + i
      BY <2>2
    <3>2. o[k] = g[i] /\ g[i].seq = next + i - 1
      BY <1>1, <1>3, <3>1
    <3> QED BY <1>0, <3>1, <3>2
  <2> QED BY <1>0, <2>1, <2>2, Positions
<1>5. ASSUME NEW k \in 2 .. next + n, o[k].first PROVE o[k - 1].last
  <2>0. k \in 1 .. next + n
    BY <1>0
  <2>1. CASE k \in 1 .. next
    <3>1. k \in 2 .. next /\ k - 1 \in 1 .. next
      BY <1>0, <2>1
    <3>2. o[k] = outgoing[k] /\ o[k - 1] = outgoing[k - 1]
      BY <1>3, <3>1
    <3> QED BY <1>5, <3>1, <3>2 DEF Numbered
  <2>2. CASE \E i \in 1 .. n : k = next + i
    <3>1. PICK i \in 1 .. n : k = next + i
      BY <2>2
    <3>2. o[k] = g[i]
      BY <1>3, <3>1
    <3>3. i = 1
      BY <1>1, <1>5, <3>2
    <3>4. k - 1 = next /\ next > 0 /\ next \in 1 .. next
      BY <1>0, <3>1, <3>3
    <3>5. o[k - 1] = outgoing[next]
      BY <1>3, <3>4
    <3> QED BY <3>4, <3>5 DEF Numbered
  <2> QED BY <1>0, <2>0, <2>1, <2>2, Positions
<1>6. o[next + n].last
  <2>1. n \in 1 .. n
    BY <1>0
  <2>2. o[next + n] = g[n] /\ g[n].last
    BY <1>1, <1>3, <2>1
  <2> QED BY <2>2
<1>7. Numbered'
  BY <1>2, <1>3, <1>4, <1>5, <1>6 DEF Numbered, o
<1>8. ASSUME NEW p, Generated(p) PROVE IsAmong(p, o, next')
  <2>1. p.seq \in 0 .. next - 1 /\ p = outgoing[p.seq + 1]
    BY <1>8 DEF Generated, IsAmong
  <2>2. p.seq + 1 \in 1 .. next /\ p.seq \in 0 .. (next + n) - 1
    BY <1>0, <2>1
  <2>3. p = o[p.seq + 1]
    BY <1>3, <2>1, <2>2
  <2> QED BY <1>2, <2>2, <2>3 DEF IsAmong
<1>9. ASSUME NEW k \in 1 .. n PROVE IsAmong(g[k], o, next')
  <2>1. g[k].seq = next + k - 1 /\ o[next + k] = g[k]
    BY <1>1, <1>3
  <2>2. next + k - 1 \in 0 .. (next + n) - 1 /\ (next + k - 1) + 1 = next + k
    BY <1>0
  <2> QED BY <1>2, <2>1, <2>2 DEF IsAmong
<1> QED BY <1>2, <1>3, <1>7, <1>8, <1>9 DEF g, o

LEMMA AllocateKeepsIInv ==
  ASSUME IInv, NEW w \in Writers, NEW n \in Nat \ {0}, Allocate(w, n)
  PROVE  IInv'
<1> DEFINE g == Generate(next, n)
<1>0. /\ TypeOK /\ Numbered /\ next \in Nat /\ pending[w] = << >>
      /\ UNCHANGED <<history, least, sender, data, heartbeats, cur, held, consumed, receiver>>
      /\ pending' = [pending EXCEPT ![w] = g]
  BY DEF IInv, TypeOK, Allocate
<1>1. /\ outgoing' \in Seq(Packet) /\ next' = next + n /\ Len(outgoing') = next + n
      /\ \A k \in 1 .. next : outgoing'[k] = outgoing[k]
      /\ \A k \in 1 .. n : outgoing'[next + k] = g[k]
      /\ Numbered'
      /\ \A p : Generated(p) => IsAmong(p, outgoing', next')
      /\ \A k \in 1 .. n : IsAmong(g[k], outgoing', next')
  BY <1>0, AllocateAdds
<1>2. g \in Seq(Packet) /\ Len(g) = n
  BY <1>0, GenerateMakes
<1> HIDE DEF g
<1>3. TypeOK'
  BY <1>0, <1>1, <1>2 DEF TypeOK
<1>4. Traced'
  <2>1. ASSUME NEW u \in Writers, NEW k \in 1 .. Len(pending'[u])
        PROVE  IsAmong(pending'[u][k], outgoing', next')
    <3>1. CASE u = w
      <4>1. pending'[u] = g /\ k \in 1 .. n
        BY <1>0, <1>2, <3>1 DEF TypeOK
      <4> QED BY <1>1, <4>1
    <3>2. CASE u # w
      <4>1. pending'[u] = pending[u] /\ k \in 1 .. Len(pending[u])
        BY <1>0, <3>2 DEF TypeOK
      <4>2. Generated(pending[u][k])
        BY <4>1 DEF IInv, Traced
      <4> QED BY <1>1, <4>1, <4>2
    <3> QED BY <3>1, <3>2
  <2>2. ASSUME NEW s \in Slots, history[s] # None
        PROVE  /\ IsAmong(history[s].packet, outgoing', next')
               /\ Slot(history[s].packet.seq) = s
               /\ history[s].packet.seq < least + Size
    <3>1. /\ Generated(history[s].packet)
          /\ Slot(history[s].packet.seq) = s
          /\ history[s].packet.seq < least + Size
      BY <2>2 DEF IInv, Traced
    <3> QED BY <1>1, <3>1
  <2>3. ASSUME NEW p \in data PROVE IsAmong(p, outgoing', next') /\ p.seq < least + Size
    BY <1>1 DEF IInv, Traced
  <2>4. ASSUME NEW p \in held
        PROVE  IsAmong(p, outgoing', next') /\ cur <= p.seq /\ p.seq < cur + Size
    BY <1>1 DEF IInv, Traced
  <2>5. /\ UNCHANGED <<history, least, data, cur, held>>
    BY <1>0
  <2>6. \A s \in Slots : history'[s] # None =>
          /\ IsAmong(history'[s].packet, outgoing', next')
          /\ Slot(history'[s].packet.seq) = s
          /\ history'[s].packet.seq < least' + Size
    BY <2>2, <2>5
  <2> QED BY <2>1, <2>3, <2>4, <2>5, <2>6 DEF Traced, Slots, Slot, Generated
<1>5. Delivered'
  <2>1. /\ cur \in Nat /\ cur <= next /\ Len(consumed) = cur
        /\ \A k \in 1 .. cur : consumed[k] = outgoing[k]
    BY DEF IInv, TypeOK, Delivered
  <2>2. cur <= next + n
    BY <1>0, <2>1
  <2>3. ASSUME NEW k \in 1 .. cur PROVE consumed[k] = outgoing'[k]
    <3>1. k \in 1 .. next
      BY <1>0, <2>1
    <3> QED BY <1>1, <2>1, <3>1
  <2> QED BY <1>0, <1>1, <2>1, <2>2, <2>3 DEF Delivered
<1>6. AckIsBehindDelivery'
  BY <1>0 DEF IInv, AckIsBehindDelivery, HeldSeqs
<1>7. UnackedIsResendable'
  <2> SUFFICES ASSUME NEW p \in PacketsOf(outgoing')
               PROVE  \/ p.seq < least
                      \/ sender # "active"
                      \/ \E u \in Writers : p \in PacketsOf(pending'[u])
                      \/ history[Slot(p.seq)] # None /\ history[Slot(p.seq)].packet = p
    BY <1>0 DEF UnackedIsResendable, PacketsOf, Slot
  <2>1. PICK k \in 1 .. next + n : p = outgoing'[k]
    BY <1>1, PacketsOfSeq
  <2>2. CASE k <= next
    <3>1. k \in 1 .. next /\ p = outgoing[k]
      BY <1>0, <1>1, <2>1, <2>2
    <3>2. p \in PacketsOf(outgoing)
      BY <1>0, <3>1, GeneratedAre
    <3>3. CASE \E u \in Writers : p \in PacketsOf(pending[u])
      <4>1. PICK u \in Writers : p \in PacketsOf(pending[u])
        BY <3>3
      <4>2. PacketsOf(<< >>) = {}
        BY DEF PacketsOf
      <4>3. u # w /\ pending'[u] = pending[u]
        BY <1>0, <4>1, <4>2 DEF TypeOK
      <4> QED BY <4>1, <4>3
    <3> QED BY <3>2, <3>3 DEF IInv, UnackedIsResendable
  <2>3. CASE k > next
    <3>1. k - next \in 1 .. n /\ next + (k - next) = k
      BY <1>0, <2>3
    <3>2. p = g[k - next]
      BY <1>1, <2>1, <3>1
    <3>3. pending'[w] = g
      BY <1>0 DEF TypeOK
    <3> QED BY <1>2, <3>1, <3>2, <3>3, PacketsOfSeq
  <2> QED BY <1>0, <2>2, <2>3
<1> QED BY <1>0, <1>1, <1>3, <1>4, <1>5, <1>6, <1>7 DEF IInv

\* The packets of a message go into slots of their own, and overwrite only what is
\* known to be delivered.
LEMMA WriteKeepsIInv ==
  ASSUME IInv, NEW w \in Writers, Write(w)
  PROVE  IInv'
<1> DEFINE fits == {p \in PacketsOf(pending[w]) : InWindow(p.seq)}
<1>0. /\ TypeOK /\ Numbered /\ least \in Nat
      /\ UNCHANGED <<next, outgoing, least, heartbeats, cur, held, consumed, receiver>>
      /\ pending' = [pending EXCEPT ![w] = << >>]
      /\ data' = data \cup fits
      /\ sender' = IF fits = PacketsOf(pending[w]) THEN sender ELSE Panic(sender, "depth")
  BY DEF IInv, TypeOK, Write
<1>h. history' = [s \in Slots |->
                   IF \E p \in fits : Slot(p.seq) = s
                   THEN [packet |-> CHOOSE p \in fits : Slot(p.seq) = s, fresh |-> TRUE]
                   ELSE history[s]]
  BY DEF Write
<1>p. pending[w] \in Seq(Packet)
  BY <1>0 DEF TypeOK
<1>1. \A p \in PacketsOf(pending[w]) : Generated(p)
  BY <1>p, PacketsOfSeq DEF IInv, Traced
<1>2. \A p \in fits : /\ Generated(p) /\ p \in Packet /\ p.seq \in Nat
                      /\ p.seq \in least .. least + Size - 1
                      /\ p.seq < least + Size
  BY <1>0, <1>1, GeneratedAre, SlotFacts DEF InWindow
<1>3. \A p, q : /\ p \in fits /\ Generated(q)
                /\ q.seq \in least .. least + Size - 1
                /\ Slot(p.seq) = Slot(q.seq)
                => p = q
  BY <1>0, <1>2, GeneratedAre, SlotFacts
<1>g. \A p : IsAmong(p, outgoing', next') <=> Generated(p)
  BY <1>0 DEF Generated
<1> HIDE DEF fits
<1>4. \A p \in fits : /\ Slot(p.seq) \in Slots
                      /\ history'[Slot(p.seq)] = [packet |-> p, fresh |-> TRUE]
  <2> SUFFICES ASSUME NEW p \in fits
               PROVE  /\ Slot(p.seq) \in Slots
                      /\ history'[Slot(p.seq)] = [packet |-> p, fresh |-> TRUE]
    OBVIOUS
  <2>1. Slot(p.seq) \in Slots
    BY <1>2, SlotFacts
  <2>2. (CHOOSE q \in fits : Slot(q.seq) = Slot(p.seq)) = p
    BY <1>2, <1>3
  <2> QED BY <1>h, <2>1, <2>2
<1>5. \A s \in Slots : \/ \E p \in fits : s = Slot(p.seq) /\ history'[s] = [packet |-> p, fresh |-> TRUE]
                       \/ /\ history'[s] = history[s]
                          /\ \A p \in fits : Slot(p.seq) # s
  BY <1>h, <1>4
<1>6. TypeOK'
  <2>1. history' \in [Slots -> Entry \cup {None}]
    <3>1. ASSUME NEW s \in Slots PROVE history'[s] \in Entry \cup {None}
      <4>1. CASE \E p \in fits : history'[s] = [packet |-> p, fresh |-> TRUE]
        BY <1>2, <4>1 DEF Entry
      <4>2. CASE history'[s] = history[s]
        BY <1>0, <4>2 DEF TypeOK
      <4> QED BY <1>5, <4>1, <4>2
    <3> QED BY <1>h, <3>1
  <2>2. pending' \in [Writers -> Seq(Packet)]
    BY <1>0, EmptySeq DEF TypeOK
  <2>3. data' \subseteq Packet
    BY <1>0, <1>2 DEF TypeOK
  <2> QED BY <1>0, <2>1, <2>2, <2>3 DEF TypeOK
<1>7. Numbered' /\ Delivered' /\ AckIsBehindDelivery'
  BY <1>0 DEF IInv, Numbered, Delivered, AckIsBehindDelivery, HeldSeqs
<1>8. Traced'
  <2>1. ASSUME NEW u \in Writers, NEW k \in 1 .. Len(pending'[u])
        PROVE  IsAmong(pending'[u][k], outgoing', next')
    <3>1. u # w
      BY <1>0, <2>1, EmptySeq DEF TypeOK
    <3>2. pending'[u] = pending[u]
      BY <1>0, <3>1 DEF TypeOK
    <3>3. Generated(pending[u][k])
      BY <2>1, <3>2 DEF IInv, Traced
    <3> QED BY <1>g, <3>2, <3>3
  <2>2. ASSUME NEW s \in Slots, history'[s] # None
        PROVE  /\ Generated(history'[s].packet)
               /\ Slot(history'[s].packet.seq) = s
               /\ history'[s].packet.seq < least + Size
    <3>1. CASE \E p \in fits : s = Slot(p.seq) /\ history'[s] = [packet |-> p, fresh |-> TRUE]
      BY <1>2, <3>1
    <3>2. CASE history'[s] = history[s]
      BY <2>2, <3>2 DEF IInv, Traced
    <3> QED BY <1>5, <3>1, <3>2
  <2>3. \A p \in data' : Generated(p) /\ p.seq < least + Size
    BY <1>0, <1>2 DEF IInv, Traced
  <2>4. \A p \in held : Generated(p) /\ cur <= p.seq /\ p.seq < cur + Size
    BY DEF IInv, Traced
  <2> QED BY <1>0, <2>1, <2>2, <2>3, <2>4 DEF Traced, Slots, Slot, Generated
<1>9. UnackedIsResendable'
  <2> SUFFICES ASSUME NEW p \in PacketsOf(outgoing), p.seq >= least, sender' = "active"
               PROVE  \/ \E u \in Writers : p \in PacketsOf(pending'[u])
                      \/ history'[Slot(p.seq)] # None /\ history'[Slot(p.seq)].packet = p
    <3>1. \A p \in PacketsOf(outgoing) : p.seq < least \/ p.seq >= least
      BY <1>0, GeneratedAre
    <3> QED BY <1>0, <3>1 DEF UnackedIsResendable, PacketsOf, Slot
  <2>1. sender = "active" /\ fits = PacketsOf(pending[w])
    BY <1>0 DEF Panic
  <2>2. Generated(p) /\ p.seq \in Nat /\ Slot(p.seq) \in Slots /\ p \in Packet
    BY <1>0, GeneratedAre, SlotFacts
  <2>3. CASE \E u \in Writers : p \in PacketsOf(pending[u])
    <3>1. PICK u \in Writers : p \in PacketsOf(pending[u])
      BY <2>3
    <3>2. CASE u = w
      <4>1. history'[Slot(p.seq)] = [packet |-> p, fresh |-> TRUE]
        BY <1>4, <2>1, <3>1, <3>2
      <4>2. [packet |-> p, fresh |-> TRUE] \in Entry
        BY <2>2 DEF Entry
      <4>3. [packet |-> p, fresh |-> TRUE] # None
        BY <4>2, SlotFacts
      <4> QED BY <4>1, <4>3
    <3>3. CASE u # w
      <4>1. pending'[u] = pending[u]
        BY <1>0, <3>3 DEF TypeOK
      <4> QED BY <3>1, <4>1
    <3> QED BY <3>2, <3>3
  <2>4. CASE history[Slot(p.seq)] # None /\ history[Slot(p.seq)].packet = p
    <3>1. p.seq \in least .. least + Size - 1
      BY <1>0, <2>2, <2>4, SlotFacts DEF IInv, Traced
    <3>2. CASE \E q \in fits : Slot(q.seq) = Slot(p.seq)
      <4>1. p \in fits
        BY <1>3, <2>2, <3>1, <3>2
      <4>2. history'[Slot(p.seq)] = [packet |-> p, fresh |-> TRUE]
        BY <1>4, <4>1
      <4>3. [packet |-> p, fresh |-> TRUE] \in Entry
        BY <2>2 DEF Entry
      <4>4. [packet |-> p, fresh |-> TRUE] # None
        BY <4>3, SlotFacts
      <4> QED BY <4>2, <4>4
    <3>3. CASE \A q \in fits : Slot(q.seq) # Slot(p.seq)
      <4>1. history'[Slot(p.seq)] = history[Slot(p.seq)]
        BY <1>5, <2>2, <3>3
      <4> QED BY <2>4, <4>1
    <3> QED BY <3>2, <3>3
  <2>5. p.seq < least => FALSE
    BY <1>0, <2>2
  <2> QED BY <2>1, <2>3, <2>4, <2>5 DEF IInv, UnackedIsResendable
<1> QED BY <1>0, <1>6, <1>7, <1>8, <1>9 DEF IInv

-----------------------------------------------------------------------------
(* The receiver.                                                           *)

\* The Orderer hands out everything up to the first packet it does not hold, and
\* that is what was sent.
LEMMA DrainedIsNext ==
  ASSUME TypeOK, Numbered, Delivered,
         NEW packets, \A p \in packets : Generated(p) /\ cur <= p.seq /\ p.seq < cur + Size
  PROVE  \E e \in Nat :
           /\ cur <= e /\ e <= next
           /\ \A i \in cur .. e - 1 : \E p \in packets : p.seq = i
           /\ \A p \in packets : p.seq # e
           /\ Drained(packets) \in Seq(Packet) /\ Len(Drained(packets)) = e - cur
           /\ \A k \in 1 .. e - cur : Drained(packets)[k] = outgoing[cur + k]
<1> DEFINE seqs == {p.seq : p \in packets}
           Free == {i \in Nat : cur <= i /\ i \notin seqs}
           end == CHOOSE e \in cur .. cur + Size : e \notin seqs /\ cur .. e - 1 \subseteq seqs
<1>0. cur \in Nat /\ next \in Nat /\ Size \in Nat /\ cur <= next
  BY SlotFacts DEF TypeOK, Delivered
<1>1. \A i \in seqs : i \in Nat /\ cur <= i /\ i < cur + Size /\ i < next
  BY GeneratedAre
<1>2. cur + Size \in Free
  <2>1. cur + Size \notin seqs
    BY <1>0, <1>1
  <2> QED BY <1>0, <2>1
<1>3. PICK m \in Free : \A k \in Free : m <= k
  <2>1. Free \in SUBSET Nat /\ Free # {}
    BY <1>2
  <2> HIDE DEF Free
  <2> QED BY <2>1, LeastNatural
<1>4. m \in cur .. cur + Size /\ m \notin seqs
  BY <1>0, <1>2, <1>3
<1>5. cur .. m - 1 \subseteq seqs
  <2> SUFFICES ASSUME NEW i \in cur .. m - 1, i \notin seqs PROVE FALSE
    OBVIOUS
  <2>1. i \in Free /\ ~ (m <= i)
    BY <1>0, <1>4
  <2> QED BY <1>3, <2>1
<1> HIDE DEF Free, seqs
<1>6. /\ end \in cur .. cur + Size /\ end \notin seqs
      /\ cur .. end - 1 \subseteq seqs
  BY <1>4, <1>5
<1>7. Drained(packets) = [k \in 1 .. end - cur |-> CHOOSE p \in packets : p.seq = cur + k - 1]
  BY DEF Drained, seqs
<1> HIDE DEF end
<1>8. end \in Nat /\ cur <= end /\ end - cur \in Nat
  BY <1>0, <1>6
<1>9. end <= next
  <2>1. CASE end = cur
    BY <1>0, <2>1
  <2>2. CASE end # cur
    <3>1. end - 1 \in cur .. end - 1
      BY <1>0, <1>8, <2>2
    <3>2. end - 1 < next
      BY <1>1, <1>6, <3>1
    <3> QED BY <1>0, <1>8, <3>2
  <2> QED BY <2>1, <2>2
<1>10. ASSUME NEW k \in 1 .. end - cur
       PROVE  /\ Drained(packets)[k] = outgoing[cur + k]
              /\ Drained(packets)[k] \in Packet
  <2>1. cur + k - 1 \in cur .. end - 1 /\ cur + k \in 1 .. next
    BY <1>0, <1>8, <1>9
  <2>2. cur + k - 1 \in seqs
    BY <1>6, <2>1
  <2>3. PICK p \in packets : p.seq = cur + k - 1
    BY <2>2 DEF seqs
  <2> DEFINE c == CHOOSE q \in packets : q.seq = cur + k - 1
  <2>4. c \in packets /\ c.seq = cur + k - 1
    BY <2>3
  <2>5. Drained(packets)[k] = c
    BY <1>7
  <2> HIDE DEF c
  <2>6. Generated(c) /\ c \in Packet
    BY <2>4, GeneratedAre
  <2>7. c = outgoing[cur + k]
    <3>1. outgoing[cur + k].seq = (cur + k) - 1 /\ Generated(outgoing[cur + k])
      BY <2>1, GeneratedAre
    <3>2. outgoing[cur + k].seq = c.seq
      BY <1>0, <2>1, <2>4, <3>1
    <3> QED BY <2>6, <3>1, <3>2, GeneratedAre
  <2> QED BY <2>5, <2>6, <2>7
<1>11. Drained(packets) \in Seq(Packet) /\ Len(Drained(packets)) = end - cur
  <2>1. Drained(packets) \in [1 .. end - cur -> Packet]
    BY <1>7, <1>10
  <2> QED BY <1>8, <2>1, FunctionIsSequence
<1>12. \A i \in cur .. end - 1 : \E p \in packets : p.seq = i
  BY <1>6 DEF seqs
<1>13. \A p \in packets : p.seq # end
  BY <1>6 DEF seqs
<1> QED BY <1>8, <1>9, <1>10, <1>11, <1>12, <1>13

\* What ReceiveData does: the packet is not too new, the stream of consumed packets
\* is well framed, and it grows by what the Orderer hands out.
LEMMA ReceiveDataTakes ==
  ASSUME IInv, NEW p \in data, ReceiveData(p)
  PROVE  \E e \in Nat :
           /\ cur <= e /\ e <= next /\ cur' = e
           /\ held' = {q \in held \cup {p} : q.seq >= e}
           /\ \A q \in held \cup {p} : Generated(q) /\ cur <= q.seq /\ q.seq < cur + Size
           /\ consumed' \in Seq(Packet) /\ Len(consumed') = e
           /\ \A k \in 1 .. e : consumed'[k] = outgoing[k]
           /\ \A i \in cur .. e - 1 : \E q \in held \cup {p} : q.seq = i
           /\ receiver' = "active"
<1> DEFINE holds == held \cup {p}
           all == consumed \o Drained(holds)
<1>0. /\ TypeOK /\ Numbered /\ Delivered /\ cur \in Nat /\ next \in Nat /\ least \in Nat
      /\ Size \in Nat /\ cur <= next /\ Len(consumed) = cur /\ consumed \in Seq(Packet)
      /\ least <= cur
  BY SlotFacts DEF IInv, TypeOK, Delivered, AckIsBehindDelivery
<1>1. Generated(p) /\ p.seq \in Nat /\ p.seq < cur + Size /\ cur <= p.seq
  <2>1. Generated(p) /\ p.seq < least + Size /\ p.seq >= cur
    BY DEF IInv, Traced, ReceiveData
  <2>2. p.seq \in Nat
    BY <1>0, <2>1, GeneratedAre
  <2> QED BY <1>0, <2>1, <2>2
<1>2. \A q \in holds : Generated(q) /\ cur <= q.seq /\ q.seq < cur + Size
  BY <1>1 DEF IInv, Traced
<1>3. PICK e \in Nat :
        /\ cur <= e /\ e <= next
        /\ \A i \in cur .. e - 1 : \E q \in holds : q.seq = i
        /\ \A q \in holds : q.seq # e
        /\ Drained(holds) \in Seq(Packet) /\ Len(Drained(holds)) = e - cur
        /\ \A k \in 1 .. e - cur : Drained(holds)[k] = outgoing[cur + k]
  <2> HIDE DEF holds
  <2> QED BY <1>0, <1>2, DrainedIsNext
<1>4. /\ all \in Seq(Packet) /\ Len(all) = e
      /\ \A k \in 1 .. e : all[k] = outgoing[k]
  <2> DEFINE d == Drained(holds)
  <2>1. d \in Seq(Packet) /\ Len(d) = e - cur /\ e - cur \in Nat
        /\ \A k \in 1 .. e - cur : d[k] = outgoing[cur + k]
    <3> HIDE DEF holds
    <3> QED BY <1>0, <1>3
  <2>2. all = consumed \o d
    OBVIOUS
  <2> HIDE DEF d, all, holds
  <2>3. /\ all \in Seq(Packet) /\ Len(all) = cur + (e - cur)
        /\ \A k \in 1 .. cur : all[k] = consumed[k]
        /\ \A k \in 1 .. e - cur : all[cur + k] = d[k]
    <3> DEFINE c == consumed
               n == e - cur
    <3>1. c \in Seq(Packet) /\ Len(c) = cur /\ cur \in Nat
      BY <1>0
    <3>2. d \in Seq(Packet) /\ Len(d) = n /\ n \in Nat
      BY <2>1
    <3>3. all = c \o d
      BY <2>2
    <3> HIDE DEF c, n
    <3>4. /\ c \o d \in Seq(Packet) /\ Len(c \o d) = Len(c) + Len(d)
          /\ \A i \in 1 .. Len(c) + Len(d) :
               (c \o d)[i] = IF i <= Len(c) THEN c[i] ELSE d[i - Len(c)]
      BY <3>1, <3>2, ConcatProperties
    <3>5. /\ all \in Seq(Packet) /\ Len(all) = cur + n
          /\ \A i \in 1 .. cur + n : all[i] = IF i <= cur THEN c[i] ELSE d[i - cur]
      BY <3>1, <3>2, <3>3, <3>4
    <3>6. \A k \in 1 .. cur : all[k] = c[k]
      BY <3>1, <3>2, <3>5
    <3>7. ASSUME NEW k \in 1 .. n PROVE all[cur + k] = d[k]
      <4>1. cur + k \in 1 .. cur + n /\ ~ (cur + k <= cur) /\ (cur + k) - cur = k
        BY <3>1, <3>2
      <4> QED BY <3>5, <4>1
    <3> QED BY <3>5, <3>6, <3>7 DEF c, n
  <2>4. ASSUME NEW k \in 1 .. e PROVE all[k] = outgoing[k]
    <3>1. CASE k \in 1 .. cur
      BY <1>0, <2>3, <3>1 DEF Delivered
    <3>2. CASE k \notin 1 .. cur
      <4>1. k - cur \in 1 .. e - cur /\ cur + (k - cur) = k
        BY <1>0, <3>2
      <4> QED BY <2>1, <2>3, <4>1
    <3> QED BY <3>1, <3>2
  <2>5. cur + (e - cur) = e
    BY <1>0
  <2> QED BY <2>3, <2>4, <2>5
<1>5. BadFirst(all) = {}
  <2> HIDE DEF all
  <2> SUFFICES ASSUME NEW k \in 2 .. e, all[k].first, ~ all[k - 1].last PROVE FALSE
    BY <1>4 DEF BadFirst
  <2>1. k \in 2 .. next /\ k \in 1 .. e /\ k - 1 \in 1 .. e
    BY <1>0, <1>3
  <2>2. all[k] = outgoing[k] /\ all[k - 1] = outgoing[k - 1]
    BY <1>4, <2>1
  <2> QED BY <1>0, <2>1, <2>2 DEF Numbered
<1>6. /\ cur' = cur + Len(all) - Len(consumed)
      /\ held' = {q \in holds : q.seq >= cur'}
      /\ consumed' = all
      /\ receiver' = "active"
  <2>1. ~ (p.seq >= cur + Size)
    BY <1>0, <1>1
  <2>2. (IF p.seq < cur + Size THEN held \cup {p} ELSE held) = holds
    BY <1>1
  <2> HIDE DEF holds
  <2>3. BadFirst(consumed \o Drained(holds)) = {}
    BY <1>5
  <2> QED BY <2>1, <2>2, <2>3 DEF ReceiveData
<1>7. cur' = e
  BY <1>0, <1>3, <1>4, <1>6
<1> HIDE DEF all
<1> QED BY <1>2, <1>3, <1>4, <1>6, <1>7

LEMMA ReceiveDataKeepsIInv ==
  ASSUME IInv, NEW p \in data, ReceiveData(p)
  PROVE  IInv'
<1>0. /\ TypeOK /\ cur \in Nat /\ next \in Nat /\ least \in Nat /\ Size \in Nat
      /\ UNCHANGED <<next, outgoing, pending, history, least, stuck, sender, data, heartbeats>>
  BY SlotFacts DEF IInv, TypeOK, ReceiveData
<1>1. PICK e \in Nat :
           /\ cur <= e /\ e <= next /\ cur' = e
           /\ held' = {q \in held \cup {p} : q.seq >= e}
           /\ \A q \in held \cup {p} : Generated(q) /\ cur <= q.seq /\ q.seq < cur + Size
           /\ consumed' \in Seq(Packet) /\ Len(consumed') = e
           /\ \A k \in 1 .. e : consumed'[k] = outgoing[k]
           /\ \A i \in cur .. e - 1 : \E q \in held \cup {p} : q.seq = i
           /\ receiver' = "active"
  BY ReceiveDataTakes
<1>2. TypeOK'
  <2>1. held' \subseteq Packet
    BY <1>0, <1>1 DEF TypeOK
  <2> QED BY <1>0, <1>1, <2>1 DEF TypeOK
<1>3. Numbered'
  BY <1>0 DEF IInv, Numbered
<1>4. Delivered'
  BY <1>0, <1>1 DEF Delivered
<1>5. Traced'
  <2>1. ASSUME NEW q \in held' PROVE Generated(q) /\ e <= q.seq /\ q.seq < e + Size
    <3>1. q \in held \cup {p} /\ Generated(q) /\ q.seq < cur + Size /\ q.seq >= e
      BY <1>1
    <3>2. q.seq \in Nat
      BY <3>1, GeneratedAre DEF IInv
    <3> QED BY <1>0, <1>1, <3>1, <3>2
  <2>2. /\ \A w \in Writers : \A k \in 1 .. Len(pending[w]) : Generated(pending[w][k])
        /\ \A s \in Slots : history[s] # None =>
             /\ Generated(history[s].packet)
             /\ Slot(history[s].packet.seq) = s
             /\ history[s].packet.seq < least + Size
        /\ \A q \in data : Generated(q) /\ q.seq < least + Size
    BY DEF IInv, Traced
  <2> QED BY <1>0, <1>1, <2>1, <2>2 DEF Traced, Generated, Slot, Slots
<1>6. AckIsBehindDelivery'
  <2>1. least <= cur /\ \A h \in heartbeats : /\ h.ack \in Nat /\ h.ack <= cur
                                              /\ \A i \in h.held : /\ i \in Nat
                                                                   /\ i < cur \/ i \in HeldSeqs
    BY <1>0 DEF IInv, AckIsBehindDelivery, TypeOK
  <2>2. least <= e /\ \A h \in heartbeats : h.ack <= e
    BY <1>0, <1>1, <2>1
  <2>3. ASSUME NEW h \in heartbeats, NEW i \in h.held PROVE i < e \/ i \in HeldSeqs'
    <3>0. i \in Nat
      BY <2>1
    <3>1. CASE i < cur
      BY <1>0, <1>1, <3>0, <3>1
    <3>2. CASE i \in HeldSeqs
      <4>1. PICK q \in held : q.seq = i
        BY <3>2 DEF HeldSeqs
      <4>2. CASE i < e
        BY <4>2
      <4>3. CASE i >= e
        <5>1. q \in held'
          BY <1>1, <4>1, <4>3
        <5> QED BY <4>1, <5>1 DEF HeldSeqs
      <4> QED BY <1>1, <3>0, <4>2, <4>3
    <3> QED BY <2>1, <3>1, <3>2
  <2> QED BY <1>0, <1>1, <2>2, <2>3 DEF AckIsBehindDelivery
<1>7. UnackedIsResendable'
  BY <1>0 DEF IInv, UnackedIsResendable, PacketsOf, Slot
<1> QED BY <1>1, <1>2, <1>3, <1>4, <1>5, <1>6, <1>7 DEF IInv

-----------------------------------------------------------------------------
(* Heartbeats.                                                             *)

LEMMA SendHeartbeatKeepsIInv ==
  ASSUME IInv, SendHeartbeat
  PROVE  IInv'
<1>0. /\ TypeOK /\ Numbered /\ cur \in Nat
      /\ UNCHANGED <<next, outgoing, pending, history, least, stuck, sender, data, cur,
                     held, consumed, receiver>>
      /\ heartbeats' = heartbeats \cup {[ack |-> cur, held |-> Reported]}
  BY DEF IInv, TypeOK, SendHeartbeat, Account
<1>1. Reported \subseteq HeldSeqs /\ HeldSeqs \subseteq Nat
  BY <1>0, GeneratedAre DEF Reported, HeldSeqs, IInv, Traced
<1>2. TypeOK'
  <2>1. [ack |-> cur, held |-> Reported] \in [ack : Nat, held : SUBSET Nat]
    BY <1>0, <1>1
  <2>2. heartbeats' \subseteq [ack : Nat, held : SUBSET Nat]
    BY <1>0, <2>1 DEF TypeOK
  <2> QED BY <1>0, <2>2 DEF TypeOK
<1>3. AckIsBehindDelivery'
  <2>1. least <= cur /\ HeldSeqs' = HeldSeqs /\ cur <= cur
    BY <1>0 DEF IInv, AckIsBehindDelivery, HeldSeqs
  <2>2. ASSUME NEW h \in heartbeats'
        PROVE  h.ack <= cur /\ \A i \in h.held : i < cur \/ i \in HeldSeqs
    <3>1. CASE h \in heartbeats
      BY <3>1 DEF IInv, AckIsBehindDelivery
    <3>2. CASE h = [ack |-> cur, held |-> Reported]
      BY <1>1, <2>1, <3>2
    <3> QED BY <1>0, <3>1, <3>2
  <2> QED BY <1>0, <2>1, <2>2 DEF AckIsBehindDelivery
<1>4. Numbered' /\ Traced' /\ Delivered' /\ UnackedIsResendable'
  BY <1>0 DEF IInv, Numbered, Traced, Delivered, UnackedIsResendable, Generated,
              PacketsOf, Slot, Slots
<1> QED BY <1>0, <1>2, <1>3, <1>4 DEF IInv

\* Releasing what is acknowledged and sending again what is missing keeps every
\* packet that may still be asked for in the ring.
LEMMA ReceiveHeartbeatKeepsIInv ==
  ASSUME IInv, NEW h \in heartbeats, ReceiveHeartbeat(h)
  PROVE  IInv'
<1> DEFINE ring == Released(h.ack)
           resent == {i \in Asked(h, ring) : Due(ring, i)}
<1>0. /\ TypeOK /\ Numbered /\ cur \in Nat /\ least \in Nat /\ next \in Nat
      /\ h.ack \in Nat /\ Size \in Nat
      /\ UNCHANGED <<next, outgoing, pending, heartbeats, cur, held, consumed, receiver>>
      /\ least' = IF h.ack > least THEN h.ack ELSE least
      /\ sender = "active"
  BY SlotFacts DEF IInv, TypeOK, ReceiveHeartbeat
<1>1. least' \in Nat /\ least <= least' /\ h.ack <= least' /\ least' <= cur
  <2>1. least <= cur /\ h.ack <= cur
    BY DEF IInv, AckIsBehindDelivery
  <2> QED BY <1>0, <2>1
<1>2. \A s \in Slots :
        /\ ring[s] # None => ring[s] = history[s]
        /\ history[s] # None /\ ~ (history[s].packet.seq < h.ack) => ring[s] = history[s]
  BY DEF Released
<1>3. /\ history' = [s \in Slots |-> IF \E i \in resent : Slot(i) = s
                                     THEN [ring[s] EXCEPT !.fresh = TRUE] ELSE ring[s]]
      /\ data' = data \cup {ring[Slot(i)].packet : i \in resent}
  BY DEF ReceiveHeartbeat
<1>4. ASSUME NEW i \in resent
      PROVE  Slot(i) \in Slots /\ ring[Slot(i)] # None /\ ring[Slot(i)] = history[Slot(i)]
  <2>1. i \in h.ack .. next - 1 /\ ring[Slot(i)] # None
    BY DEF Asked, Due, InHistory
  <2>2. i \in Nat
    BY <1>0, <2>1
  <2>3. Slot(i) \in Slots
    BY <2>2, SlotFacts
  <2> HIDE DEF ring, resent
  <2> QED BY <1>2, <2>1, <2>3
<1> HIDE DEF ring, resent
<1>5. \A s \in Slots : history[s] \in Entry \cup {None} /\ history[s] # None =>
                         /\ Generated(history[s].packet)
                         /\ history[s].packet \in Packet /\ history[s].packet.seq \in Nat
                         /\ Slot(history[s].packet.seq) = s
                         /\ history[s].packet.seq < least' + Size
  <2> SUFFICES ASSUME NEW s \in Slots, history[s] # None
               PROVE  /\ Generated(history[s].packet)
                      /\ history[s].packet \in Packet /\ history[s].packet.seq \in Nat
                      /\ Slot(history[s].packet.seq) = s
                      /\ history[s].packet.seq < least' + Size
    OBVIOUS
  <2>1. /\ Generated(history[s].packet) /\ Slot(history[s].packet.seq) = s
        /\ history[s].packet.seq < least + Size
    BY DEF IInv, Traced
  <2>2. history[s].packet \in Packet /\ history[s].packet.seq \in Nat
    BY <1>0, <2>1, GeneratedAre
  <2> QED BY <1>0, <1>1, <2>1, <2>2
<1>6. ASSUME NEW s \in Slots
      PROVE  /\ history'[s] \in Entry \cup {None}
             /\ history'[s] # None => /\ history[s] # None
                                      /\ history'[s].packet = history[s].packet
             /\ history[s] # None /\ ~ (history[s].packet.seq < h.ack) =>
                  history'[s] # None /\ history'[s].packet = history[s].packet
  <2>0. history[s] \in Entry \cup {None} /\ None \notin Entry
    BY <1>0, SlotFacts DEF TypeOK
  <2>1. CASE \E i \in resent : Slot(i) = s
    <3>1. ring[s] # None /\ ring[s] = history[s] /\ history[s] \in Entry
      BY <1>4, <2>0, <2>1
    <3>2. history'[s] = [history[s] EXCEPT !.fresh = TRUE]
      BY <1>3, <2>1, <3>1
    <3>3. history'[s] \in Entry /\ history'[s].packet = history[s].packet
      BY <3>1, <3>2 DEF Entry
    <3> QED BY <2>0, <3>1, <3>3
  <2>2. CASE ~ \E i \in resent : Slot(i) = s
    <3>1. history'[s] = ring[s]
      BY <1>3, <2>2
    <3> QED BY <1>2, <2>0, <3>1
  <2> QED BY <2>1, <2>2
<1>7. \A p \in data' : Generated(p) /\ p \in Packet /\ p.seq < least' + Size
  <2> SUFFICES ASSUME NEW p \in data'
               PROVE  Generated(p) /\ p \in Packet /\ p.seq < least' + Size
    OBVIOUS
  <2>1. CASE p \in data
    <3>1. Generated(p) /\ p.seq < least + Size
      BY <2>1 DEF IInv, Traced
    <3>2. p \in Packet /\ p.seq \in Nat
      BY <1>0, <3>1, GeneratedAre
    <3> QED BY <1>0, <1>1, <3>1, <3>2
  <2>2. CASE \E i \in resent : p = ring[Slot(i)].packet
    <3>1. PICK i \in resent : p = ring[Slot(i)].packet
      BY <2>2
    <3>2. Slot(i) \in Slots /\ history[Slot(i)] # None /\ p = history[Slot(i)].packet
      BY <1>4, <3>1
    <3>3. history[Slot(i)] \in Entry \cup {None}
      BY <1>0, <3>2 DEF TypeOK
    <3> QED BY <1>5, <3>2, <3>3
  <2> QED BY <1>3, <2>1, <2>2
<1>8. TypeOK'
  <2>1. history' \in [Slots -> Entry \cup {None}]
    BY <1>3, <1>6
  <2>2. data' \subseteq Packet
    BY <1>7
  <2> QED BY <1>0, <1>1, <2>1, <2>2 DEF TypeOK
<1>9. Numbered' /\ Delivered'
  BY <1>0 DEF IInv, Numbered, Delivered
<1>10. Traced'
  <2>1. ASSUME NEW s \in Slots, history'[s] # None
        PROVE  /\ Generated(history'[s].packet)
               /\ Slot(history'[s].packet.seq) = s
               /\ history'[s].packet.seq < least' + Size
    <3>1. history[s] # None /\ history'[s].packet = history[s].packet
      BY <1>6, <2>1
    <3>2. history[s] \in Entry \cup {None}
      BY <1>0 DEF TypeOK
    <3> QED BY <1>5, <3>1, <3>2
  <2>2. /\ \A w \in Writers : \A k \in 1 .. Len(pending[w]) : Generated(pending[w][k])
        /\ \A p \in held : Generated(p) /\ cur <= p.seq /\ p.seq < cur + Size
    BY DEF IInv, Traced
  <2> QED BY <1>0, <1>7, <2>1, <2>2 DEF Traced, Generated, Slot, Slots
<1>11. AckIsBehindDelivery'
  BY <1>0, <1>1 DEF IInv, AckIsBehindDelivery, HeldSeqs
<1>12. UnackedIsResendable'
  <2> SUFFICES ASSUME NEW p \in PacketsOf(outgoing), ~ (p.seq < least'),
                      ~ \E w \in Writers : p \in PacketsOf(pending[w])
               PROVE  history'[Slot(p.seq)] # None /\ history'[Slot(p.seq)].packet = p
    BY <1>0 DEF UnackedIsResendable, PacketsOf, Slot
  <2>1. p.seq \in Nat /\ Slot(p.seq) \in Slots
    BY <1>0, GeneratedAre, SlotFacts
  <2>2. ~ (p.seq < least) /\ ~ (p.seq < h.ack)
    BY <1>0, <1>1, <2>1
  <2>3. history[Slot(p.seq)] # None /\ history[Slot(p.seq)].packet = p
    BY <1>0, <2>2 DEF IInv, UnackedIsResendable
  <2> QED BY <1>6, <2>1, <2>2, <2>3
<1> QED BY <1>0, <1>8, <1>9, <1>10, <1>11, <1>12 DEF IInv

-----------------------------------------------------------------------------
(* Time and the network.                                                   *)

LEMMA TimeKeepsIInv ==
  ASSUME IInv, \/ \E s \in Slots : ResendIntervalPasses(s)
               \/ \E e \in stuck : TimeoutPasses(e)
               \/ \E p \in data : LoseData(p)
               \/ \E h \in heartbeats : LoseHeartbeat(h)
               \/ UNCHANGED vars
  PROVE  IInv'
<1>0. /\ TypeOK
      /\ UNCHANGED <<next, outgoing, pending, least, sender, cur, held, consumed, receiver>>
      /\ data' \subseteq data /\ heartbeats' \subseteq heartbeats
  BY DEF IInv, ResendIntervalPasses, TimeoutPasses, LoseData, LoseHeartbeat, vars
<1>1. /\ history' \in [Slots -> Entry \cup {None}]
      /\ \A s \in Slots : /\ history'[s] # None <=> history[s] # None
                          /\ history[s] # None => history'[s].packet = history[s].packet
  <2>1. CASE history' = history
    BY <1>0, <2>1 DEF TypeOK
  <2>2. CASE \E s \in Slots : ResendIntervalPasses(s)
    <3>1. PICK s \in Slots : ResendIntervalPasses(s)
      BY <2>2
    <3>2. history \in [Slots -> Entry \cup {None}] /\ history[s] # None
      BY <1>0, <3>1 DEF TypeOK, ResendIntervalPasses
    <3>3. history[s] \in Entry /\ None \notin Entry
      BY <3>2, SlotFacts
    <3>4. history' = [history EXCEPT ![s] = [history[s] EXCEPT !.fresh = FALSE]]
      BY <3>1, <3>2 DEF ResendIntervalPasses
    <3> DEFINE e == [history[s] EXCEPT !.fresh = FALSE]
    <3>5. e \in Entry /\ e.packet = history[s].packet
      BY <3>3 DEF Entry
    <3>6. history' = [history EXCEPT ![s] = e]
      BY <3>4
    <3> HIDE DEF e
    <3> QED BY <3>2, <3>3, <3>5, <3>6
  <2> QED BY <2>1, <2>2 DEF TimeoutPasses, LoseData, LoseHeartbeat, vars
<1>2. TypeOK'
  BY <1>0, <1>1 DEF TypeOK
<1>3. Numbered' /\ Delivered'
  BY <1>0 DEF IInv, Numbered, Delivered
<1>4. Traced'
  <2>1. ASSUME NEW s \in Slots, history'[s] # None
        PROVE  /\ Generated(history'[s].packet)
               /\ Slot(history'[s].packet.seq) = s
               /\ history'[s].packet.seq < least + Size
    BY <1>1, <2>1 DEF IInv, Traced
  <2>2. /\ \A w \in Writers : \A k \in 1 .. Len(pending[w]) : Generated(pending[w][k])
        /\ \A p \in data' : Generated(p) /\ p.seq < least + Size
        /\ \A p \in held : Generated(p) /\ cur <= p.seq /\ p.seq < cur + Size
    BY <1>0 DEF IInv, Traced
  <2> QED BY <1>0, <2>1, <2>2 DEF Traced, Generated, Slot, Slots
<1>5. AckIsBehindDelivery'
  BY <1>0 DEF IInv, AckIsBehindDelivery, HeldSeqs
<1>6. UnackedIsResendable'
  <2> SUFFICES ASSUME NEW p \in PacketsOf(outgoing), ~ (p.seq < least), sender = "active",
                      ~ \E w \in Writers : p \in PacketsOf(pending[w])
               PROVE  history'[Slot(p.seq)] # None /\ history'[Slot(p.seq)].packet = p
    BY <1>0 DEF UnackedIsResendable, PacketsOf, Slot
  <2>1. Slot(p.seq) \in Slots
    BY <1>0, GeneratedAre, SlotFacts DEF IInv
  <2>2. history[Slot(p.seq)] # None /\ history[Slot(p.seq)].packet = p
    BY DEF IInv, UnackedIsResendable
  <2> QED BY <1>1, <2>1, <2>2
<1> QED BY <1>0, <1>2, <1>3, <1>4, <1>5, <1>6 DEF IInv

-----------------------------------------------------------------------------
(* The theorems.                                                           *)

LEMMA InitIInv == Init => IInv
<1> SUFFICES ASSUME Init PROVE IInv
  OBVIOUS
<1>0. /\ next = 0 /\ least = 0 /\ cur = 0 /\ outgoing = << >> /\ consumed = << >>
      /\ data = {} /\ heartbeats = {} /\ held = {} /\ receiver = "active"
      /\ pending = [w \in Writers |-> << >>] /\ history = [s \in Slots |-> None]
  BY DEF Init
<1>1. << >> \in Seq(Packet) /\ Len(<< >>) = 0 /\ PacketsOf(<< >>) = {}
  BY EmptySeq DEF PacketsOf
<1>2. TypeOK
  BY <1>0, <1>1 DEF TypeOK
<1>3. Numbered /\ Delivered
  BY <1>0, <1>1 DEF Numbered, Delivered
<1>4. Traced
  BY <1>0, <1>1 DEF Traced
<1>5. AckIsBehindDelivery /\ UnackedIsResendable
  BY <1>0, <1>1 DEF AckIsBehindDelivery, UnackedIsResendable
<1> QED BY <1>0, <1>2, <1>3, <1>4, <1>5 DEF IInv

\* The invariant holds in every reachable state of a stream whose messages all
\* have a packet.
THEOREM ReliableStreamInvariant ==
  ASSUME 0 \notin Lengths
  PROVE  Spec => []IInv
<1>1. IInv /\ [Next]_vars => IInv'
  <2>1. \A n \in Lengths : n \in Nat \ {0}
    BY ReliableStreamAssumption
  <2> QED BY <2>1, AllocateKeepsIInv, WriteKeepsIInv, ReceiveDataKeepsIInv,
             SendHeartbeatKeepsIInv, ReceiveHeartbeatKeepsIInv, TimeKeepsIInv DEF Next
<1> QED BY <1>1, InitIInv, PTL DEF Spec

\* The receiver never panics, the sender's window is behind what was delivered, and
\* what is not acknowledged can be sent again.
THEOREM ReliableStreamEndsAgree ==
  ASSUME 0 \notin Lengths
  PROVE  Spec => []EndsAgree
<1>1. IInv => EndsAgree
  BY DEF IInv, EndsAgree, ReceiverNeverPanics
<1> QED BY <1>1, ReliableStreamInvariant, PTL

-----------------------------------------------------------------------------
(* The stream implements the FIFO.                                         *)

\* two sequences that agree on the first n positions have the same prefix
LEMMA Prefixes ==
  ASSUME NEW S, NEW s \in Seq(S), NEW t \in Seq(S), NEW n \in Nat, Len(s) = n, n <= Len(t),
         \A k \in 1 .. n : s[k] = t[k]
  PROVE  s = SubSeq(t, 1, n)
<1>1. Len(t) \in Nat /\ \A i \in 1 .. n : t[i] \in S
  <2>1. Len(t) \in Nat /\ \A i \in 1 .. Len(t) : t[i] \in S
    BY LenProperties, ElementOfSeq
  <2> QED BY <2>1
<1> DEFINE u == SubSeq(t, 1, n)
<1>2. /\ u \in Seq(S) /\ Len(u) = IF 1 <= n THEN n - 1 + 1 ELSE 0
      /\ \A i \in 1 .. n - 1 + 1 : u[i] = t[1 + i - 1]
  BY <1>1, SubSeqProperties
<1> HIDE DEF u
<1>3. Len(u) = n
  BY <1>2
<1>4. ASSUME NEW i \in 1 .. n
      PROVE  u[i] = s[i]
  <2>1. i \in 1 .. n - 1 + 1 /\ 1 + i - 1 = i
    OBVIOUS
  <2>2. u[i] = t[i]
    BY <1>2, <2>1
  <2> QED BY <2>2
<1>5. s = u
  BY <1>2, <1>3, <1>4, SeqEqual
<1> QED BY <1>5 DEF u

LEMMA AllocateSends ==
  ASSUME IInv, NEW w \in Writers, NEW n \in Nat \ {0}, Allocate(w, n)
  PROVE  Fifo!Send
<1>0. /\ TypeOK /\ Numbered /\ consumed' = consumed
      /\ next \in Nat /\ outgoing \in Seq(Packet) /\ Len(outgoing) = next
  BY DEF IInv, TypeOK, Numbered, Allocate
<1>1. /\ outgoing' \in Seq(Packet) /\ Len(outgoing') = next + n
      /\ \A k \in 1 .. next : outgoing'[k] = outgoing[k]
  BY <1>0, AllocateAdds
<1>2. outgoing = SubSeq(outgoing', 1, next)
  <2> DEFINE o == outgoing'
  <2>1. /\ o \in Seq(Packet) /\ Len(o) = next + n /\ next <= next + n
        /\ \A k \in 1 .. next : outgoing[k] = o[k]
    BY <1>0, <1>1
  <2> HIDE DEF o
  <2>2. outgoing = SubSeq(o, 1, next)
    BY <1>0, <2>1, Prefixes
  <2> QED BY <2>2 DEF o
<1>3. n \in 1 .. Len(outgoing') /\ Len(outgoing') - n = next
  BY <1>0, <1>1
<1>4. \A k \in 1 .. Len(outgoing') : outgoing'[k] \in Packet
  BY <1>1, ElementOfSeq
<1> QED BY <1>0, <1>2, <1>3, <1>4 DEF Fifo!Send

LEMMA ReceiveDataReceives ==
  ASSUME IInv, NEW p \in data, ReceiveData(p)
  PROVE  Fifo!Receive \/ UNCHANGED Fifo!vars
<1>0. /\ outgoing' = outgoing /\ outgoing \in Seq(Packet) /\ Len(outgoing) = next
      /\ consumed \in Seq(Packet) /\ Len(consumed) = cur /\ cur \in Nat /\ next \in Nat
      /\ \A k \in 1 .. cur : consumed[k] = outgoing[k]
  BY DEF IInv, TypeOK, Numbered, Delivered, ReceiveData
<1>1. PICK e \in Nat :
           /\ cur <= e /\ e <= next
           /\ consumed' \in Seq(Packet) /\ Len(consumed') = e
           /\ \A k \in 1 .. e : consumed'[k] = outgoing[k]
  BY ReceiveDataTakes
<1> DEFINE c == consumed'
<1>2. c \in Seq(Packet) /\ Len(c) = e /\ \A k \in 1 .. e : c[k] = outgoing[k]
  BY <1>1
<1> HIDE DEF c
<1>3. c = SubSeq(outgoing, 1, e)
  BY <1>0, <1>1, <1>2, Prefixes
<1>4. CASE e = cur
  <2>1. c = consumed
    BY <1>0, <1>2, <1>4, SeqEqual
  <2> QED BY <1>0, <2>1 DEF Fifo!vars, c
<1>5. CASE e # cur
  <2>1. e \in Len(consumed) + 1 .. Len(outgoing)
    BY <1>0, <1>1, <1>5
  <2> QED BY <1>0, <1>3, <2>1 DEF Fifo!Receive, c
<1> QED BY <1>4, <1>5

\* For any number of writers, any messages and any size of the ring, the stream is
\* a FIFO: what was consumed is at any time a prefix of what was sent.
THEOREM ReliableStreamImplementsFifo ==
  ASSUME 0 \notin Lengths
  PROVE  Spec => ImplementsFifo
<1>1. Init => Fifo!Init
  BY DEF Init, Fifo!Init
<1>2. IInv /\ [Next]_vars => [Fifo!Next]_(Fifo!vars)
  <2> SUFFICES ASSUME IInv, [Next]_vars PROVE Fifo!Next \/ UNCHANGED Fifo!vars
    OBVIOUS
  <2>1. ASSUME NEW w \in Writers, NEW n \in Lengths, Allocate(w, n) PROVE Fifo!Next
    <3>1. n \in Nat \ {0}
      BY ReliableStreamAssumption
    <3> QED BY <2>1, <3>1, AllocateSends DEF Fifo!Next
  <2>2. ASSUME NEW p \in data, ReceiveData(p) PROVE Fifo!Next \/ UNCHANGED Fifo!vars
    BY <2>2, ReceiveDataReceives DEF Fifo!Next
  <2>3. CASE \/ \E w \in Writers : Write(w)
             \/ SendHeartbeat
             \/ \E h \in heartbeats : ReceiveHeartbeat(h)
             \/ \E s \in Slots : ResendIntervalPasses(s)
             \/ \E e \in stuck : TimeoutPasses(e)
             \/ \E p \in data : LoseData(p)
             \/ \E h \in heartbeats : LoseHeartbeat(h)
             \/ UNCHANGED vars
    <3>1. UNCHANGED <<outgoing, consumed>>
      BY <2>3 DEF Write, SendHeartbeat, ReceiveHeartbeat, ResendIntervalPasses,
                  TimeoutPasses, LoseData, LoseHeartbeat, vars
    <3> QED BY <3>1 DEF Fifo!vars
  <2> QED BY <2>1, <2>2, <2>3 DEF Next
<1> QED BY <1>1, <1>2, ReliableStreamInvariant, PTL DEF Spec, Fifo!Spec, ImplementsFifo
==============================================================================
