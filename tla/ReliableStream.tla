--------------------------- MODULE ReliableStream ---------------------------
(***************************************************************************)
(* One direction of a RELIABLE_ORDERED ScorpioUdpStream once both sides    *)
(* are CREATED: application threads that send messages, the ring of sent   *)
(* packets, a network that loses, duplicates, delays and reorders, the     *)
(* receiver's Orderer and message assembly, and the heartbeats that carry  *)
(* what was received back to the sender, which retransmits from its ring.  *)
(*                                                                         *)
(* The receiver's Orderer is the abstract one of OrdererSpec (`cur' and    *)
(* the held packets), which the ring buffer of Orderer implements.         *)
(*                                                                         *)
(* Time is two abstract steps: ResendIntervalPasses (a packet may be sent  *)
(* again, SCU_UDP_RESEND_INTERVAL) and TimeoutPasses (a sequence number    *)
(* noted as stuck is overdue, SCU_UDP_TIMEOUT).  Sequence numbers are      *)
(* unbounded here; a failing socket is not modelled.                       *)
(***************************************************************************)
EXTENDS Integers, Sequences, FiniteSets

CONSTANTS
  Writers,        \* application threads that call send() on the stream
  Lengths,        \* packets_count() of the messages they send
  Size,           \* depth + SCU_UDP_QOS_DEPTH_SAFETY_BUFFER, on both sides
  Budget,         \* SCU_UDP_TAIL_RESEND_BUDGET
  MaxRuns,        \* ranges that fit in a stream's block of a heartbeat
  MaxPackets,     \* bound: packets in all messages
  MaxHeartbeats,  \* bound: heartbeats in flight
  None

ASSUME ReliableStreamAssumption ==
  /\ Lengths \subseteq Nat
  /\ Size \in Nat \ {0}
  /\ Budget \in Nat /\ MaxRuns \in Nat
  /\ MaxPackets \in Nat /\ MaxHeartbeats \in Nat
  /\ None \notin [packet : [seq : Nat, message : Nat, first : BOOLEAN, last : BOOLEAN],
                  fresh : BOOLEAN]

VARIABLES
  next,        \* sender: _sequence_number
  outgoing,    \* history: every packet of every message, in the order of allocation
  pending,     \* per writer: packets generated but not yet put into the ring
  history,     \* sender: _sent_history, slot |-> [packet, fresh] or None
  least,       \* sender: _least_non_delivered_seq_number
  stuck,       \* sender: _stuck_resend_since, set of [seq, overdue]
  sender,      \* sender: "active", or why it panicked
  data,        \* STREAM_DATA packets in flight
  heartbeats,  \* HEARTBEAT blocks of this stream in flight
  cur,         \* receiver: the Orderer's _current_index
  held,        \* receiver: the packets the Orderer holds
  consumed,    \* receiver: every packet next() returned.  _partial_data is the part
               \* after the last packet that ends a message, _receive got the rest
  receiver     \* receiver: "active", or why it panicked

vars == <<next, outgoing, pending, history, least, stuck, sender, data,
          heartbeats, cur, held, consumed, receiver>>

Packet == [seq : Nat, message : Nat, first : BOOLEAN, last : BOOLEAN]
Slots == 0 .. Size - 1
Slot(i) == i % Size

-----------------------------------------------------------------------------
(* Sending.                                                                *)

\* generate_packets: a message of n packets numbered from `from'.  A message of
\* no bytes has packets_count 0, yet one (last) packet is made for it.
Generate(from, n) ==
  [k \in 1 .. (IF n = 0 THEN 1 ELSE n) |->
     [seq |-> from + k - 1, message |-> Len(outgoing) + 1,
      first |-> k = 1, last |-> k >= n]]

\* ScorpioUdpStream::send up to the history lock: the sequence numbers are
\* taken by a fetch_add, before and outside the lock
Allocate(w, n) ==
  /\ sender = "active"
  /\ pending[w] = <<>>
  /\ Len(outgoing \o Generate(next, n)) <= MaxPackets
  /\ next' = next + n
  /\ pending' = [pending EXCEPT ![w] = Generate(next, n)]
  /\ outgoing' = outgoing \o Generate(next, n)
  /\ UNCHANGED <<history, least, stuck, sender, data, heartbeats, cur, held,
                 consumed, receiver>>

Panic(side, why) == IF side = "active" THEN why ELSE side

PacketsOf(seq) == {seq[k] : k \in DOMAIN seq}

\* `seq - least_non_delivered < size' on unsigned numbers: the packet overwrites
\* none that is not known to be delivered
InWindow(i) == least <= i /\ i < least + Size

\* ... and from it on: packet by packet into the ring and onto the wire, up to
\* the first that is out of the window
Write(w) ==
  LET fits == {p \in PacketsOf(pending[w]) : InWindow(p.seq)} IN
  /\ pending[w] # <<>>
  /\ history' = [s \in Slots |->
                   IF \E p \in fits : Slot(p.seq) = s
                   THEN [packet |-> CHOOSE p \in fits : Slot(p.seq) = s, fresh |-> TRUE]
                   ELSE history[s]]
  /\ data' = data \cup fits
  /\ sender' = IF fits = PacketsOf(pending[w]) THEN sender ELSE Panic(sender, "depth")
  /\ pending' = [pending EXCEPT ![w] = <<>>]
  /\ UNCHANGED <<next, outgoing, least, stuck, heartbeats, cur, held, consumed,
                 receiver>>

-----------------------------------------------------------------------------
(* The receiver.                                                           *)

HeldSeqs == {p.seq : p \in held}

\* Seeded bug: whatever is held is handed out, gaps or not.
DrainedOverGaps(packets) ==
  LET seqs == {p.seq : p \in packets}
      nth(k) == CHOOSE i \in seqs : Cardinality({j \in seqs : j <= i}) = k
  IN [k \in 1 .. Cardinality(seqs) |-> CHOOSE p \in packets : p.seq = nth(k)]

\* the packets the Orderer hands out in a row once `packets' are held
Drained(packets) ==
  LET seqs == {p.seq : p \in packets}
      end == CHOOSE e \in cur .. cur + Size :
               e \notin seqs /\ cur .. e - 1 \subseteq seqs
  IN [k \in 1 .. end - cur |-> CHOOSE p \in packets : p.seq = cur + k - 1]

\* a first packet may only follow a packet that ends a message
BadFirst(stream) == {k \in 2 .. Len(stream) : stream[k].first /\ ~ stream[k - 1].last}

\* handle_data_packet on a reliable stream: Orderer::add (TOO_OLD and
\* ALREADY_PRESENT change nothing), then all of next()
ReceiveData(p) ==
  LET holds == IF p.seq < cur + Size THEN held \cup {p} ELSE held
      all == consumed \o Drained(holds)
      bad == BadFirst(all)
      stop == IF bad = {} THEN Len(all)
              ELSE CHOOSE k \in bad : \A j \in bad : k <= j
  IN
  /\ receiver = "active"
  /\ p \in data
  /\ p.seq >= cur /\ p.seq \notin HeldSeqs
  /\ cur' = cur + stop - Len(consumed)
  /\ held' = {q \in holds : q.seq >= cur'}
  /\ consumed' = IF bad = {} THEN all ELSE SubSeq(all, 1, stop - 1)
  /\ receiver' = IF p.seq >= cur + Size THEN "too_new"
                 ELSE IF bad # {} THEN "first_in_message" ELSE "active"
  /\ UNCHANGED <<next, outgoing, pending, history, least, stuck, sender, data,
                 heartbeats>>

\* append_heartbeat_data: the consumed prefix, and the lowest runs held above it
Reported ==
  LET starts == {b \in HeldSeqs : b - 1 \notin HeldSeqs}
  IN {i \in HeldSeqs : Cardinality({b \in starts : b <= i}) <= MaxRuns}

Account == [ack |-> cur, held |-> Reported]

SendHeartbeat ==
  /\ receiver = "active"
  /\ Cardinality(heartbeats) < MaxHeartbeats
  /\ heartbeats' = heartbeats \cup {Account}
  /\ UNCHANGED <<next, outgoing, pending, history, least, stuck, sender, data,
                 cur, held, consumed, receiver>>

-----------------------------------------------------------------------------
(* Acknowledgement and retransmission: handle_heartbeat_data.              *)

\* Seeded bug: the packet the peer waits for is released as well.
ReleasedOneMore(ack) ==
  [s \in Slots |->
     IF /\ history[s] # None
        /\ least <= history[s].packet.seq /\ history[s].packet.seq <= ack
     THEN None ELSE history[s]]

\* the ring once everything below `ack' that was not known to be delivered is released
Released(ack) ==
  [s \in Slots |->
     IF /\ history[s] # None
        /\ least <= history[s].packet.seq /\ history[s].packet.seq < ack
     THEN None ELSE history[s]]

InHistory(ring, i) ==
  /\ next <= i + Size
  /\ ring[Slot(i)] # None
  /\ ring[Slot(i)].packet.seq = i

Due(ring, i) == InHistory(ring, i) /\ ~ ring[Slot(i)].fresh

\* Seeded bug: no tail probe.
AskedInGaps(h, ring) ==
  {i \in h.ack .. next - 1 : i \notin h.held /\ \E j \in h.held : i < j}

\* The sequence numbers try_resend looks at: all those missing below the
\* highest reported one, and above it (which the peer cannot know about) from
\* the front until Budget of them have been sent again.
Asked(h, ring) ==
  LET missing == (h.ack .. next - 1) \ h.held
      gap(i) == \E j \in h.held : i < j
      due == {i \in missing : ~ gap(i) /\ Due(ring, i)}
  IN {i \in missing : gap(i) \/ Cardinality({j \in due : j < i}) < Budget}

ReceiveHeartbeat(h) ==
  LET ring == Released(h.ack)
      resent == {i \in Asked(h, ring) : Due(ring, i)}
      gone == {i \in Asked(h, ring) : ~ InHistory(ring, i)}
      tracked == {e \in stuck : e.seq >= h.ack}
      noted == {[seq |-> i, overdue |-> FALSE] : i \in gone \ {e.seq : e \in stuck}}
  IN
  /\ sender = "active"
  /\ h \in heartbeats
  /\ least' = IF h.ack > least THEN h.ack ELSE least
  /\ history' = [s \in Slots |->
                   IF \E i \in resent : Slot(i) = s
                   THEN [ring[s] EXCEPT !.fresh = TRUE] ELSE ring[s]]
  /\ data' = data \cup {ring[Slot(i)].packet : i \in resent}
  /\ stuck' = tracked \cup noted
  /\ sender' = IF \E e \in tracked : e.overdue THEN "stuck" ELSE "active"
  /\ UNCHANGED <<next, outgoing, pending, heartbeats, cur, held, consumed,
                 receiver>>

-----------------------------------------------------------------------------
(* Time and the network.                                                   *)

ResendIntervalPasses(s) ==
  /\ history[s] # None /\ history[s].fresh
  /\ history' = [history EXCEPT ![s].fresh = FALSE]
  /\ UNCHANGED <<next, outgoing, pending, least, stuck, sender, data,
                 heartbeats, cur, held, consumed, receiver>>

TimeoutPasses(e) ==
  /\ e \in stuck
  /\ stuck' = (stuck \ {e}) \cup {[e EXCEPT !.overdue = TRUE]}
  /\ UNCHANGED <<next, outgoing, pending, history, least, sender, data,
                 heartbeats, cur, held, consumed, receiver>>

\* A packet that is received stays in flight and may come again; losing it is
\* a step of its own.
LoseData(p) ==
  /\ p \in data
  /\ data' = data \ {p}
  /\ UNCHANGED <<next, outgoing, pending, history, least, stuck, sender,
                 heartbeats, cur, held, consumed, receiver>>

LoseHeartbeat(h) ==
  /\ h \in heartbeats
  /\ heartbeats' = heartbeats \ {h}
  /\ UNCHANGED <<next, outgoing, pending, history, least, stuck, sender, data,
                 cur, held, consumed, receiver>>

-----------------------------------------------------------------------------
Init == /\ next = 0
        /\ outgoing = <<>>
        /\ pending = [w \in Writers |-> <<>>]
        /\ history = [s \in Slots |-> None]
        /\ least = 0
        /\ stuck = {}
        /\ sender = "active"
        /\ data = {}
        /\ heartbeats = {}
        /\ cur = 0
        /\ held = {}
        /\ consumed = <<>>
        /\ receiver = "active"

Next == \/ \E w \in Writers, n \in Lengths : Allocate(w, n)
        \/ \E w \in Writers : Write(w)
        \/ \E p \in data : ReceiveData(p)
        \/ SendHeartbeat
        \/ \E h \in heartbeats : ReceiveHeartbeat(h)
        \/ \E s \in Slots : ResendIntervalPasses(s)
        \/ \E e \in stuck : TimeoutPasses(e)
        \/ \E p \in data : LoseData(p)
        \/ \E h \in heartbeats : LoseHeartbeat(h)

Spec == Init /\ [][Next]_vars

\* The threads keep running; a packet in flight does not stay there for ever; and
\* the network is fair-lossy: a packet that is put on the wire again and
\* again, and the account of a receiver that stays as it is, get through.
ReceiveSeq(i) == \E p \in data : p.seq = i /\ ReceiveData(p)
ReceiveCurrentHeartbeat ==
  \E h \in heartbeats : h = Account /\ ReceiveHeartbeat(h)

Fairness ==
  /\ \A w \in Writers : WF_vars(Write(w))
  /\ WF_vars(SendHeartbeat)
  /\ \A s \in Slots : WF_vars(ResendIntervalPasses(s))
  /\ WF_vars(\E h \in heartbeats : LoseHeartbeat(h))
  /\ SF_vars(ReceiveCurrentHeartbeat)
  /\ \A i \in 0 .. MaxPackets : SF_vars(ReceiveSeq(i))

FairSpec == Spec /\ Fairness

-----------------------------------------------------------------------------
(* Properties.                                                             *)

\* However packets are lost, repeated, reordered and sent again, the receiver
\* never meets one beyond its window ("Received packet is too new") nor the
\* first packet of a message inside another: the sender's window, which
\* starts at what a heartbeat told it, never runs ahead of the receiver's.
ReceiverNeverPanics == receiver = "active"

\* The sender's idea of what was delivered, and every account of it still on
\* the wire, is behind what really was: send() frees no slot too early.
AckIsBehindDelivery ==
  /\ least <= cur
  /\ \A h \in heartbeats : h.ack <= cur /\ \A i \in h.held : i < cur \/ i \in HeldSeqs

\* What was put on the wire and is not known to be delivered can be sent again:
\* with writers racing for the lock and the ring wrapping, its slot still
\* holds it.
UnackedIsResendable ==
  \A p \in PacketsOf(outgoing) :
    \/ p.seq < least
    \/ sender # "active"
    \/ \E w \in Writers : p \in PacketsOf(pending[w])
    \/ history[Slot(p.seq)] # None /\ history[Slot(p.seq)].packet = p

\* The two ends of a stream agree about what may be sent, released and sent again,
\* with only packets and heartbeats between them that are lost, late and repeated.
EndsAgree == ReceiverNeverPanics /\ AckIsBehindDelivery /\ UnackedIsResendable

\* The stream is a FIFO of packets, and of messages: all delivered, in order
\* (SCORPIO_UDP_PROTOCOL.md).
Fifo == INSTANCE FifoDelivery WITH Packets <- Packet, sent <- outgoing,
                                   received <- consumed
ImplementsFifo == Fifo!Spec

\* Every packet of every message is delivered in the end, or the sender panics:
\* the gaps a heartbeat shows, and the tail no heartbeat can show, are sent
\* again until they arrive.
EverythingArrives == <>[](sender = "active" => Len(consumed) = Len(outgoing))
==============================================================================
