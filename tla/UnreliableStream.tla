-------------------------- MODULE UnreliableStream --------------------------
(***************************************************************************)
(* One direction of an UNRELIABLE stream: generate_packets() cuts messages *)
(* into packets, get_packet_number() widens their numbers again, and       *)
(* handle_data_packet() puts the messages together from what arrives.      *)
(*                                                                         *)
(* A payload is the stretch of its message it carries.  The network loses, *)
(* repeats and reorders: `net' holds what can arrive, and what arrives may *)
(* stay in it.  A packet falls behind by at most `Lag' numbers, and the    *)
(* numbers the receiver looks at are at most half a turn apart.            *)
(***************************************************************************)
EXTENDS Integers, Sequences

CONSTANTS
  Payload,        \* bytes of a packet without FramesLeft, 505 in the code
  FramesLeftSize, \* 2 in the code
  SeqCount,       \* sequence numbers on the wire, 2^32 in the code
  Sizes,          \* the lengths of messages
  FirstNumbers,   \* how many numbers have been used when the behaviour starts
  MaxMessages,    \* bound: messages sent
  Lag             \* bound: how far behind the newest packet one arrives

ASSUME UnreliableAssumption ==
  /\ {Payload, FramesLeftSize, SeqCount, MaxMessages, Lag} \subseteq Nat
  /\ FramesLeftSize < Payload /\ 2 * Lag < SeqCount
  /\ Sizes \subseteq Nat /\ FirstNumbers \subseteq Nat

VARIABLES
  sent,       \* the lengths of the messages sent
  next,       \* the sender's _sequence_number
  net,        \* packets that can arrive
  frames,     \* _partial_data.received_frames: number |-> packet, and the frames held that
              \* came before it
  firsts,     \* _partial_data.first_frames
  complement, \* _sequence_complement
  greatest,   \* _last_greatest_sequence_number
  failed,     \* the receiver's stream panicked
  newest,     \* history: the newest number the receiver has widened
  received    \* history: the messages handed to the application

vars == <<sent, next, net, frames, firsts, complement, greatest, failed, newest, received>>

Half == (SeqCount - 1) \div 2

numbering == <<complement, greatest, newest>>

-----------------------------------------------------------------------------
(* generate_packets.                                                       *)

WithFramesLeft == Payload - FramesLeftSize

\* packets_count
PacketsCount(size) ==
  IF size > Payload
  THEN LET rest == size - Payload
       IN 1 + rest \div WithFramesLeft + (IF rest % WithFramesLeft # 0 THEN 1 ELSE 0)
  ELSE IF size = 0 THEN 0 ELSE 1

\* Whether the loop goes on after the first i packets
GoesOn(size, i) == size - i * WithFramesLeft > Payload

\* FramesLeft of packet i, counted from 0
FramesLeft(size, i) == (size - i * WithFramesLeft - Payload) \div WithFramesLeft

\* Packet i.  `left' is an optional; `number' is the unbounded number of which the
\* wire carries the remainder.
Fragment(message, size, first, i) ==
  [number |-> first + i, message |-> message, from |-> i * WithFramesLeft,
   length |-> IF GoesOn(size, i) THEN WithFramesLeft ELSE size - i * WithFramesLeft,
   isFirst |-> i = 0,
   left |-> IF GoesOn(size, i) THEN <<FramesLeft(size, i)>> ELSE <<>>]

Fragments(message, size, first) ==
  {Fragment(message, size, first, i) :
     i \in {j \in 0 .. size : \A k \in 0 .. j - 1 : GoesOn(size, k)}}

\* Packets further behind than Lag have been lost
Recent(packets, count) == {p \in packets : p.number + Lag >= count}

Send(size) ==
  /\ Len(sent) < MaxMessages
  /\ sent' = Append(sent, size)
  /\ next' = next + PacketsCount(size)
  /\ next' <= newest + Half
  /\ net' = Recent(net \cup Fragments(Len(sent'), size, next), next')
  /\ UNCHANGED <<frames, firsts, numbering, failed, received>>

Lose(p) ==
  /\ net' = net \ {p}
  /\ UNCHANGED <<sent, next, frames, firsts, numbering, failed, received>>

-----------------------------------------------------------------------------
(* get_packet_number.                                                      *)

Widened(v, turns) == turns * SeqCount + v

\* Seeded bug: a packet from before the turn counts as one after it.
NumberForward(v) ==
  IF greatest > v /\ greatest - v > Half
  THEN [number |-> Widened(v, complement + 1), complement |-> complement + 1, greatest |-> v]
  ELSE [number |-> Widened(v, complement), complement |-> complement,
        greatest |-> IF greatest < v THEN v ELSE greatest]

Number(v) ==
  CASE greatest < v /\ v - greatest > Half ->
         [number |-> Widened(v, IF complement = 0 THEN 0 ELSE complement - 1),
          complement |-> complement, greatest |-> greatest]
    [] greatest > v /\ greatest - v > Half ->
         [number |-> Widened(v, complement + 1), complement |-> complement + 1, greatest |-> v]
    [] OTHER ->
         [number |-> Widened(v, complement), complement |-> complement,
          greatest |-> IF greatest < v THEN v ELSE greatest]

-----------------------------------------------------------------------------
(* handle_data_packet.                                                     *)

Keys(buffer) == DOMAIN buffer
At(buffer, key) == buffer[key].packet

\* received_frames.emplace(): a frame that is there stays
With(key, p) ==
  [k \in Keys(frames) \cup {key} |->
     IF k \in Keys(frames) THEN frames[k] ELSE [packet |-> p, older |-> Keys(frames)]]

\* ... and erase()
Hold(buffer, kept) == [k \in kept |-> [buffer[k] EXCEPT !.older = @ \cap kept]]

\* The number on the wire
Seq32(packet) == packet.number % SeqCount

\* How many packets the first one of a message announces
Expected(packet) == packet.left[1] + 1

\* n packets follow `start' without a gap
Follow(buffer, start, n) == \A k \in 1 .. n : start + k \in Keys(buffer)

\* Seeded bug: the last packet is not required.
CompleteButOne(buffer, start) == Follow(buffer, start, Expected(At(buffer, start)) - 1)

Complete(buffer, start) == Follow(buffer, start, Expected(At(buffer, start)))

\* "Inconsistent frames left": a packet of the run does not count down as announced
Inconsistent(buffer, start) ==
  LET expected == Expected(At(buffer, start))
  IN \E k \in 1 .. expected :
       /\ Follow(buffer, start, k)
       /\ At(buffer, start + k).left # (IF k = expected THEN <<>> ELSE <<expected - k - 1>>)

\* From a complete message's first packet on, everything up to the next first
\* packet goes into the message
Taken(buffer, start) ==
  {k \in Keys(buffer) :
     k >= start /\ \A j \in Keys(buffer) : start < j /\ j <= k => ~At(buffer, j).isFirst}

Stretch(packet) == [message |-> packet.message, from |-> packet.from, length |-> packet.length]

\* The payloads of packets `keys', put together in the order of their numbers
Assembled(buffer, keys) == [k \in keys |-> Stretch(At(buffer, k))]

\* A packet `key' is not of the message that `start' begins
TooFar(start, key) == start.left[1] + Seq32(start) + 1 < key

\* The first packet to look from when p arrives as `key', if there is one: p itself, if it
\* is new, or the nearest one below
Starts(p, key) ==
  IF p.isFirst THEN {key} \ firsts
  ELSE {f \in firsts : /\ f < key /\ \A g \in firsts : g < key => g <= f
                       /\ ~TooFar(At(frames, f), key)}

\* Looks from first packet `start' on whether a message is complete
Assemble(buffer, known, start) ==
  /\ failed' = Inconsistent(buffer, start)
  /\ \/ /\ ~Inconsistent(buffer, start) /\ Complete(buffer, start)
        /\ frames' = Hold(buffer, Keys(buffer) \ Taken(buffer, start))
        /\ firsts' = known \ {start}
        /\ received' = received \cup {Assembled(buffer, Taken(buffer, start))}
     \/ /\ Inconsistent(buffer, start) \/ ~Complete(buffer, start)
        /\ frames' = buffer /\ firsts' = known
        /\ UNCHANGED received

\* Takes p from the network, or a copy of it
Takes(p) == p \in net /\ ~failed /\ \E rest \in {net, net \ {p}} : net' = rest

\* A message of one packet is handed over at once; its number is not looked at
IsWhole(p) == p.isFirst /\ p.left = <<>>

ReceiveWhole(p) ==
  /\ IsWhole(p)
  /\ Takes(p)
  /\ received' = received \cup {[k \in {0} |-> Stretch(p)]}
  /\ UNCHANGED <<sent, next, frames, firsts, numbering, failed>>

ReceiveFragment(p) ==
  LET n == Number(Seq32(p))
      key == n.number
  IN /\ ~IsWhole(p)
     /\ Takes(p)
     /\ complement' = n.complement /\ greatest' = n.greatest
     /\ newest' = IF p.number > newest THEN p.number ELSE newest
     /\ \/ \E start \in Starts(p, key) : Assemble(With(key, p), firsts \cup {start}, start)
        \/ /\ Starts(p, key) = {} /\ frames' = With(key, p)
           /\ UNCHANGED <<firsts, failed, received>>
     /\ UNCHANGED <<sent, next>>

\* remove_expired_unreliable_data: what arrived before some instant goes, with one of
\* the frames and all that are older
Expire ==
  /\ ~failed
  /\ \E key \in Keys(frames) :
       frames' = Hold(frames, {k \in Keys(frames) : key \in frames[k].older})
  /\ firsts' = firsts \cap Keys(frames')
  /\ UNCHANGED <<sent, next, net, numbering, failed, received>>

-----------------------------------------------------------------------------
Init ==
  /\ sent = <<>> /\ next \in FirstNumbers /\ net = {}
  /\ frames = [k \in {} |-> [packet |-> {}, older |-> {}]] /\ firsts = {}
  /\ complement = next \div SeqCount /\ greatest = next % SeqCount /\ newest = next
  /\ failed = FALSE /\ received = {}

Next ==
  \/ \E size \in Sizes : Send(size)
  \/ \E p \in net : ReceiveWhole(p) \/ ReceiveFragment(p) \/ Lose(p)
  \/ Expire

Spec == Init /\ [][Next]_vars

-----------------------------------------------------------------------------
(* Correctness.                                                            *)

\* What is handed over begins with all of one message: nothing is missing and its
\* bytes are in order, whatever is lost, repeated, late or has expired.
Covers(r) ==
  \E start, last \in DOMAIN r :
    /\ \A k \in DOMAIN r : start <= k
    /\ r[start].message \in DOMAIN sent /\ r[start].from = 0
    /\ \A k \in start .. last :
         /\ k \in DOMAIN r /\ r[k].message = r[start].message
         /\ k > start => r[k].from = r[k - 1].from + r[k - 1].length
    /\ r[last].from + r[last].length = sent[r[start].message]
NothingIsMissing == \A r \in received : Covers(r)

\* Widening keeps distances: packets of the buffer are as far apart as they were
\* numbered, across the turn of the wire's numbers.
DistancesAreKept ==
  \A j, k \in Keys(frames) : j + At(frames, k).number = k + At(frames, j).number

\* A message does not wait in the buffer when all of it is there (until the
\* numbers have turned for the first time: TooFar compares a widened number with
\* one that is not).
NoCompleteMessageWaits ==
  \A f \in firsts :
    LET count == PacketsCount(sent[At(frames, f).message])
    IN f + count <= SeqCount => ~Follow(frames, f, count - 1)

\* The stream of a correct sender does not fail.
ReceiverNeverPanics == ~failed

\* The receiver keeps what it is given in its place and nothing that is complete, and
\* never takes the packets of a correct sender for inconsistent (scorpio_udp.cpp:2193-2312).
BufferIsSound == DistancesAreKept /\ NoCompleteMessageWaits /\ ReceiverNeverPanics
=============================================================================
