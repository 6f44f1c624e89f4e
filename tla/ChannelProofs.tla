---------------------------- MODULE ChannelProofs ----------------------------
(***************************************************************************)
(* Channel<T, Size> is a FIFO queue and no two threads ever use one slot,  *)
(* for any number of threads, any size and any number of items.            *)
(*                                                                         *)
(* The invariant has three parts.  Types; a bookkeeping of the places of   *)
(* the ring and of the items in it, for each of the two Signals; and, for  *)
(* each slot, what its `seq' and `ready' tell about the tickets that the   *)
(* threads hold.                                                           *)
(***************************************************************************)
EXTENDS Channel, FiniteSetTheorems, TLAPS

-----------------------------------------------------------------------------
(* Slots of a ring.                                                        *)

\* ticket % Size is a slot of the ring (channel.hpp:118, 227)
LEMMA SlotType ==
  ASSUME NEW n \in Nat \ {0}, NEW i \in Nat
  PROVE  i % n \in 0 .. n - 1
  OBVIOUS

\* the quotient and the remainder of a number are unique
LEMMA ModUnique ==
  ASSUME NEW n \in Nat \ {0}, NEW p \in Int, NEW s \in 0 .. n - 1,
         n * p + s \in Nat
  PROVE  (n * p + s) % n = s
<1> DEFINE i == n * p + s
<1>1. i = n * (i \div n) + (i % n) /\ i \div n \in Int /\ i % n \in 0 .. n - 1
  OBVIOUS
<1> DEFINE q == (i \div n) - p
<1>2. s - (i % n) = n * q /\ q \in Int
  BY <1>1
<1>3. q = 0
  <2> HIDE DEF q, i
  <2>1. CASE q >= 1
    <3>1. n * q >= n
      BY <2>1, <1>2
    <3> QED BY <3>1, <1>1, <1>2
  <2>2. CASE q <= -1
    <3>1. n * q <= -n
      BY <2>2, <1>2
    <3> QED BY <3>1, <1>1, <1>2
  <2> QED BY <2>1, <2>2, <1>2
<1> QED BY <1>1, <1>2, <1>3

\* a ticket has the slot of the one a turn before it
LEMMA SlotPeriodic ==
  ASSUME NEW n \in Nat \ {0}, NEW i \in Nat
  PROVE  (i + n) % n = i % n
<1> DEFINE q == i \div n
           s == i % n
<1>1. i = n * q + s /\ q \in Nat /\ s \in 0 .. n - 1
  OBVIOUS
<1> HIDE DEF q, s
<1>2. i + n = n * (q + 1) + s
  BY <1>1
<1>3. (n * (q + 1) + s) % n = s
  BY <1>1, <1>2, ModUnique
<1> QED BY <1>2, <1>3 DEF s

-----------------------------------------------------------------------------
(* The invariant.                                                          *)

SendPlaces == {"idle", "wait", "ticket", "spin", "publish", "notify"}
ReceivePlaces == {"idle", "wait", "ticket", "spin", "await", "unready", "release", "notify"}
Slots == 0 .. Size - 1

At(T, places) == {t \in T : pc[t] \in places}
Count(T, places) == Cardinality(At(T, places))

\* threads that have a place or an item from a Signal, but no ticket yet
Coming == Count(Senders, {"wait", "ticket"})
Placing == Count(Senders, {"ticket"})
Reserving == Count(Receivers, {"ticket"})
\* threads that have a ticket and still owe the other side a notify()
Sending == Count(Senders, {"spin", "publish", "notify"})
Returning == Count(Receivers, {"spin", "await", "unready", "release", "notify"})

PcOK == /\ pc \in [Threads -> SendPlaces \cup ReceivePlaces]
        /\ \A s \in Senders : pc[s] \in SendPlaces
        /\ \A r \in Receivers : pc[r] \in ReceivePlaces

TypeOK ==
  /\ sendFutex \in Int /\ receiveFutex \in Int
  /\ tail \in Nat /\ head \in Nat
  /\ buffer \in [Slots -> [seq : Nat, ready : BOOLEAN, item : Nat \cup {Nothing}]]
  /\ PcOK
  /\ ticket \in [Threads -> Nat]
  /\ got \in [Receivers -> Nat \cup {Nothing}]

\* _send_waiter counts the free places of the ring; after close() it stays
\* negative, since no more than Size places can be given back.
FreePlaces ==
  /\ sendFutex >= 0 => sendFutex + Placing + tail + Returning = Size + head
  /\ sendFutex < 0 => /\ sendFutex >= 0 - Margin
                      /\ sendFutex + Placing + tail + Returning <= Size + head - Margin

\* _receive_waiter counts the items that nobody has reserved
AvailableItems ==
  /\ receiveFutex >= 0 => receiveFutex + Reserving + head + Sending = tail
  /\ receiveFutex < 0 => /\ receiveFutex >= 0 - Margin
                         /\ receiveFutex + Reserving + head + Sending <= tail - Margin

Bookkeeping ==
  /\ FreePlaces /\ AvailableItems
  /\ receiveFutex < 0 => sendFutex < 0
  /\ tail + Coming <= MaxItems

Putting(s) == pc[s] \in {"spin", "publish"}
Using(r) == pc[r] \in {"spin", "await", "unready", "release"}
Holding(r) == pc[r] \in {"await", "unready", "release"}

\* every ticket is held by one sender and by one receiver at a time
Tickets ==
  /\ \A s \in Senders : Putting(s) => ticket[s] < tail
  /\ \A s, u \in Senders : Putting(s) /\ Putting(u) /\ ticket[s] = ticket[u] => s = u
  /\ \A r \in Receivers : Using(r) => ticket[r] < head
  /\ \A r, q \in Receivers : Using(r) /\ Using(q) /\ ticket[r] = ticket[q] => r = q

\* a slot is in the turn of ticket `seq', and is ready once that item is in it
SlotTurns ==
  \A i \in Slots :
    /\ Idx(buffer[i].seq) = i
    /\ buffer[i].ready => /\ buffer[i].item = buffer[i].seq
                          /\ buffer[i].seq < tail
                          /\ \A s \in Senders : Putting(s) => ticket[s] # buffer[i].seq

\* who has seen his turn still has it
SenderTurns ==
  \A s \in Senders : pc[s] = "publish" =>
    /\ buffer[Idx(ticket[s])].seq = ticket[s]
    /\ buffer[Idx(ticket[s])].item = ticket[s]

ReceiverTurns ==
  \A r \in Receivers :
    /\ Holding(r) => buffer[Idx(ticket[r])].seq = ticket[r]
    /\ pc[r] = "unready" => buffer[Idx(ticket[r])].ready
    /\ pc[r] = "release" => ~ buffer[Idx(ticket[r])].ready
    /\ pc[r] \in {"unready", "release"} =>
         /\ ticket[r] < tail
         /\ \A s \in Senders : Putting(s) => ticket[s] # ticket[r]

IInv == /\ TypeOK /\ Bookkeeping
        /\ Tickets /\ SlotTurns /\ SenderTurns /\ ReceiverTurns

-----------------------------------------------------------------------------
(* Counting threads.                                                       *)

In(place, places) == IF place \in places THEN 1 ELSE 0

LEMMA ThreadsAreFinite ==
  ASSUME NEW T \in {Senders, Receivers}, NEW places
  PROVE  /\ IsFiniteSet(At(T, places)) /\ Count(T, places) \in Nat
         /\ Count(T, places)' \in Nat
<1>1. IsFiniteSet(T) /\ At(T, places) \subseteq T /\ At(T, places)' \subseteq T
  BY ChannelAssumption DEF At
<1>2. /\ IsFiniteSet(At(T, places)) /\ IsFiniteSet(At(T, places)')
  BY <1>1, FS_Subset
<1> QED BY <1>2, FS_CardinalityType DEF Count

\* A thread that moves is counted out of the place it leaves and into the one it
\* enters; everybody else is counted as before.
LEMMA StepCounts ==
  ASSUME PcOK, NEW T \in {Senders, Receivers}, NEW t \in T, NEW from, NEW to,
         Step(t, from, to), NEW places
  PROVE  Count(T, places)' = Count(T, places) - In(from, places) + In(to, places)
<1> DEFINE A == At(T, places)
           B == At(T, places)'
<1>1. /\ t \in A <=> from \in places
      /\ t \in B <=> to \in places
      /\ A \ {t} = B \ {t}
  BY DEF PcOK, Step, At, Threads
<1>2. IsFiniteSet(A) /\ Cardinality(A) \in Nat
  BY ThreadsAreFinite DEF Count
<1> DEFINE C == A \ {t}
<1>3. IsFiniteSet(C) /\ Cardinality(C) \in Nat /\ t \notin C
  BY <1>2, FS_Subset, FS_CardinalityType
<1>4. /\ A = IF from \in places THEN C \cup {t} ELSE C
      /\ B = IF to \in places THEN C \cup {t} ELSE C
  BY <1>1
<1> HIDE DEF A, B, C
<1>5. Cardinality(C \cup {t}) = Cardinality(C) + 1
  BY <1>3, FS_AddElement
<1>6. Cardinality(A) = Cardinality(C) + In(from, places)
  BY <1>3, <1>4, <1>5 DEF In
<1>7. Cardinality(B) = Cardinality(C) + In(to, places)
  BY <1>3, <1>4, <1>5 DEF In
<1> QED BY <1>2, <1>3, <1>6, <1>7 DEF Count, A, B, In

\* A thread that moves does not count among those of the other side.
LEMMA OtherCounts ==
  ASSUME PcOK, NEW t \in Threads, NEW T \in {Senders, Receivers}, t \notin T,
         NEW from, NEW to, Step(t, from, to), NEW places
  PROVE  Count(T, places)' = Count(T, places)
<1>1. At(T, places)' = At(T, places)
  BY DEF PcOK, Step, At, Threads
<1> QED BY <1>1 DEF Count

LEMMA CountTypes ==
  /\ Coming \in Nat /\ Placing \in Nat /\ Reserving \in Nat
  /\ Sending \in Nat /\ Returning \in Nat
  /\ Coming' \in Nat /\ Placing' \in Nat /\ Reserving' \in Nat
  /\ Sending' \in Nat /\ Returning' \in Nat
  BY ThreadsAreFinite DEF Coming, Placing, Reserving, Sending, Returning

\* What a step of a sender does to the five counts.
LEMMA SenderCounts ==
  ASSUME PcOK, NEW s \in Senders, NEW from \in SendPlaces, NEW to \in SendPlaces,
         Step(s, from, to)
  PROVE  /\ PcOK'
         /\ Coming' = Coming - In(from, {"wait", "ticket"}) + In(to, {"wait", "ticket"})
         /\ Placing' = Placing - In(from, {"ticket"}) + In(to, {"ticket"})
         /\ Sending' = Sending - In(from, {"spin", "publish", "notify"})
                               + In(to, {"spin", "publish", "notify"})
         /\ Reserving' = Reserving /\ Returning' = Returning
<1>1. PcOK'
  BY ChannelAssumption DEF PcOK, Step, Threads
<1>2. s \in Threads /\ s \notin Receivers
  BY ChannelAssumption DEF Threads
<1>3. Coming' = Coming - In(from, {"wait", "ticket"}) + In(to, {"wait", "ticket"})
  BY StepCounts DEF Coming
<1>4. Placing' = Placing - In(from, {"ticket"}) + In(to, {"ticket"})
  BY StepCounts DEF Placing
<1>5. Sending' = Sending - In(from, {"spin", "publish", "notify"})
                         + In(to, {"spin", "publish", "notify"})
  BY StepCounts DEF Sending
<1>6. Reserving' = Reserving
  BY <1>2, OtherCounts DEF Reserving
<1>7. Returning' = Returning
  BY <1>2, OtherCounts DEF Returning
<1> QED BY <1>1, <1>3, <1>4, <1>5, <1>6, <1>7

\* What a step of a receiver does to them.
LEMMA ReceiverCounts ==
  ASSUME PcOK, NEW r \in Receivers, NEW from \in ReceivePlaces, NEW to \in ReceivePlaces,
         Step(r, from, to)
  PROVE  /\ PcOK'
         /\ Coming' = Coming /\ Placing' = Placing /\ Sending' = Sending
         /\ Reserving' = Reserving - In(from, {"ticket"}) + In(to, {"ticket"})
         /\ Returning' =
              Returning - In(from, {"spin", "await", "unready", "release", "notify"})
                        + In(to, {"spin", "await", "unready", "release", "notify"})
<1>1. PcOK'
  BY ChannelAssumption DEF PcOK, Step, Threads
<1>2. r \in Threads /\ r \notin Senders
  BY ChannelAssumption DEF Threads
<1>3. Coming' = Coming
  BY <1>2, OtherCounts DEF Coming
<1>4. Placing' = Placing
  BY <1>2, OtherCounts DEF Placing
<1>5. Sending' = Sending
  BY <1>2, OtherCounts DEF Sending
<1>6. Reserving' = Reserving - In(from, {"ticket"}) + In(to, {"ticket"})
  BY StepCounts DEF Reserving
<1>7. Returning' =
        Returning - In(from, {"spin", "await", "unready", "release", "notify"})
                  + In(to, {"spin", "await", "unready", "release", "notify"})
  BY StepCounts DEF Returning
<1> QED BY <1>1, <1>3, <1>4, <1>5, <1>6, <1>7

LEMMA SameCounts ==
  ASSUME UNCHANGED pc
  PROVE  /\ PcOK <=> PcOK'
         /\ Coming' = Coming /\ Placing' = Placing /\ Sending' = Sending
         /\ Reserving' = Reserving /\ Returning' = Returning
  BY DEF PcOK, Coming, Placing, Sending, Reserving, Returning, Count, At

-----------------------------------------------------------------------------
(* Types and bookkeeping.                                                  *)

LEMMA SlotOfTicket ==
  ASSUME NEW n \in Nat
  PROVE  Idx(n) \in Slots /\ Idx(n + Size) = Idx(n)
  BY ChannelAssumption, SlotType, SlotPeriodic DEF Idx, Slots

\* The steps of a sender.
LEMMA SenderBooks ==
  ASSUME TypeOK, Bookkeeping, NEW s \in Senders, BeginSend(s) \/ SendStep(s)
  PROVE  TypeOK' /\ Bookkeeping'
<1> USE CountTypes, ChannelAssumption
<1>t. s \in Threads /\ PcOK
  BY DEF Threads, TypeOK
<1>i. /\ sendFutex \in Int /\ receiveFutex \in Int /\ tail \in Nat /\ head \in Nat
      /\ ticket[s] \in Nat
  BY <1>t DEF TypeOK
<1>1. CASE BeginSend(s)
  <2>0. /\ UNCHANGED <<receiveFutex, tail, head, buffer, ticket, got>>
        /\ tail + Coming < MaxItems
    BY <1>1 DEF BeginSend, Coming, Count, At
  <2>1. CASE Step(s, "idle", "wait") /\ SendWaiter!Enter(s)
    <3>1. sendFutex' = sendFutex
      BY <2>1 DEF SendWaiter!Enter
    <3>2. /\ PcOK' /\ Coming' = Coming + 1 /\ Placing' = Placing /\ Sending' = Sending
          /\ Reserving' = Reserving /\ Returning' = Returning
      BY <1>t, <2>1, SenderCounts DEF SendPlaces, In
    <3> QED BY <1>i, <2>0, <3>1, <3>2
            DEF TypeOK, Bookkeeping, FreePlaces, AvailableItems
  <2>2. CASE Step(s, "idle", "ticket") /\ SendWaiter!TryTake
    <3>1. sendFutex > 0 /\ sendFutex' = sendFutex - 1
      BY <2>2 DEF SendWaiter!TryTake
    <3>2. /\ PcOK' /\ Coming' = Coming + 1 /\ Placing' = Placing + 1 /\ Sending' = Sending
          /\ Reserving' = Reserving /\ Returning' = Returning
      BY <1>t, <2>2, SenderCounts DEF SendPlaces, In
    <3> QED BY <1>i, <2>0, <3>1, <3>2
            DEF TypeOK, Bookkeeping, FreePlaces, AvailableItems
  <2> QED BY <1>1, <2>1, <2>2 DEF BeginSend
<1>2. CASE WaitToSend(s)
  <2>0. UNCHANGED <<receiveFutex, tail, head, buffer, ticket, got>>
    BY <1>2 DEF WaitToSend
  <2>1. CASE Step(s, "wait", "ticket") /\ SendWaiter!Take(s)
    <3>1. sendFutex > 0 /\ sendFutex' = sendFutex - 1
      BY <2>1 DEF SendWaiter!Take
    <3>2. /\ PcOK' /\ Coming' = Coming /\ Placing' = Placing + 1 /\ Sending' = Sending
          /\ Reserving' = Reserving /\ Returning' = Returning
      BY <1>t, <2>1, SenderCounts DEF SendPlaces, In
    <3> QED BY <1>i, <2>0, <3>1, <3>2
            DEF TypeOK, Bookkeeping, FreePlaces, AvailableItems
  <2>2. CASE Step(s, "wait", "idle") /\ SendWaiter!Throw(s)
    <3>1. sendFutex' = sendFutex
      BY <2>2 DEF SendWaiter!Throw
    <3>2. /\ PcOK' /\ Coming' = Coming - 1 /\ Placing' = Placing /\ Sending' = Sending
          /\ Reserving' = Reserving /\ Returning' = Returning
      BY <1>t, <2>2, SenderCounts DEF SendPlaces, In
    <3> QED BY <1>i, <2>0, <3>1, <3>2
            DEF TypeOK, Bookkeeping, FreePlaces, AvailableItems
  <2>3. CASE UNCHANGED pc /\ (SendWaiter!Miss(s) \/ SendWaiter!Park(s))
    <3>1. sendFutex' = sendFutex
      BY <2>3 DEF SendWaiter!Miss, SendWaiter!Park
    <3> QED BY <1>t, <2>0, <2>3, <3>1, SameCounts
            DEF TypeOK, Bookkeeping, FreePlaces, AvailableItems
  <2> QED BY <1>2, <2>1, <2>2, <2>3 DEF WaitToSend
<1>3. CASE TakeTail(s)
  <2>1. UNCHANGED <<sendFutex, receiveFutex, head, buffer, got>> /\ tail' = tail + 1
    BY <1>3 DEF TakeTail, signals
  <2>2. /\ PcOK' /\ Coming' = Coming - 1 /\ Placing' = Placing - 1 /\ Sending' = Sending + 1
        /\ Reserving' = Reserving /\ Returning' = Returning
    BY <1>t, <1>3, SenderCounts DEF TakeTail, SendPlaces, In
  <2>3. ticket' \in [Threads -> Nat]
    BY <1>3, <1>i DEF TakeTail, TypeOK
  <2>4. TypeOK'
    BY <1>i, <2>1, <2>2, <2>3 DEF TypeOK
  <2>5. FreePlaces' /\ AvailableItems'
    BY <1>i, <2>1, <2>2 DEF Bookkeeping, FreePlaces, AvailableItems
  <2> QED BY <1>i, <2>1, <2>2, <2>4, <2>5 DEF Bookkeeping
<1>4. CASE Put(s) \/ Publish(s)
  <2>1. /\ UNCHANGED <<sendFutex, receiveFutex, tail, head, got>>
        /\ ticket' \in [Threads -> Nat]
    BY <1>4 DEF Put, Publish, signals, TypeOK
  <2>2. /\ PcOK' /\ Coming' = Coming /\ Placing' = Placing /\ Sending' = Sending
        /\ Reserving' = Reserving /\ Returning' = Returning
    <3>1. CASE Put(s)
      BY <1>t, <3>1, SenderCounts DEF Put, SendPlaces, In
    <3>2. CASE Publish(s)
      BY <1>t, <3>2, SenderCounts DEF Publish, SendPlaces, In
    <3> QED BY <1>4, <3>1, <3>2
  <2>3. buffer' \in [Slots -> [seq : Nat, ready : BOOLEAN, item : Nat \cup {Nothing}]]
    <3>1. Idx(ticket[s]) \in Slots
      BY <1>i, SlotOfTicket
    <3>2. CASE Put(s)
      BY <1>i, <3>1, <3>2 DEF Put, TypeOK
    <3>3. CASE Publish(s)
      BY <1>i, <3>1, <3>3 DEF Publish, TypeOK
    <3> QED BY <1>4, <3>2, <3>3
  <2> QED BY <1>i, <2>1, <2>2, <2>3
          DEF TypeOK, Bookkeeping, FreePlaces, AvailableItems
<1>5. CASE NotifyReceivers(s)
  <2>1. /\ UNCHANGED <<sendFutex, tail, head, buffer, ticket, got>>
        /\ receiveFutex' = receiveFutex + 1
    BY <1>5 DEF NotifyReceivers, ReceiveWaiter!Notify
  <2>2. /\ PcOK' /\ Coming' = Coming /\ Placing' = Placing /\ Sending' = Sending - 1
        /\ Reserving' = Reserving /\ Returning' = Returning
    BY <1>t, <1>5, SenderCounts DEF NotifyReceivers, SendPlaces, In
  <2>3. TypeOK'
    BY <1>i, <2>1, <2>2 DEF TypeOK
  <2>4. receiveFutex < 0 => receiveFutex' < 0
    <3>1. receiveFutex < 0 => sendFutex < 0
      BY DEF Bookkeeping
    <3>2. sendFutex < 0 => tail <= Size + head
      BY <1>i DEF Bookkeeping, FreePlaces
    <3> QED BY <1>i, <2>1, <2>2, <3>1, <3>2 DEF Bookkeeping, AvailableItems
  <2> QED BY <1>i, <2>1, <2>2, <2>3, <2>4 DEF Bookkeeping, FreePlaces, AvailableItems
<1> QED BY <1>1, <1>2, <1>3, <1>4, <1>5 DEF SendStep

\* The steps of a receiver.
LEMMA ReceiverBooks ==
  ASSUME TypeOK, Bookkeeping, NEW r \in Receivers, BeginReceive(r) \/ ReceiveStep(r)
  PROVE  TypeOK' /\ Bookkeeping'
<1> USE CountTypes, ChannelAssumption
<1>t. r \in Threads /\ PcOK
  BY DEF Threads, TypeOK
<1>i. /\ sendFutex \in Int /\ receiveFutex \in Int /\ tail \in Nat /\ head \in Nat
      /\ ticket[r] \in Nat
  BY <1>t DEF TypeOK
<1>1. CASE BeginReceive(r)
  <2>0. UNCHANGED <<sendFutex, tail, head, buffer, ticket, got>>
    BY <1>1 DEF BeginReceive
  <2>1. CASE Step(r, "idle", "wait") /\ ReceiveWaiter!Enter(r)
    <3>1. receiveFutex' = receiveFutex
      BY <2>1 DEF ReceiveWaiter!Enter
    <3>2. /\ PcOK' /\ Coming' = Coming /\ Placing' = Placing /\ Sending' = Sending
          /\ Reserving' = Reserving /\ Returning' = Returning
      BY <1>t, <2>1, ReceiverCounts DEF ReceivePlaces, In
    <3> QED BY <1>i, <2>0, <3>1, <3>2
            DEF TypeOK, Bookkeeping, FreePlaces, AvailableItems
  <2>2. CASE Step(r, "idle", "ticket") /\ ReceiveWaiter!TryTake
    <3>1. receiveFutex > 0 /\ receiveFutex' = receiveFutex - 1
      BY <2>2 DEF ReceiveWaiter!TryTake
    <3>2. /\ PcOK' /\ Coming' = Coming /\ Placing' = Placing /\ Sending' = Sending
          /\ Reserving' = Reserving + 1 /\ Returning' = Returning
      BY <1>t, <2>2, ReceiverCounts DEF ReceivePlaces, In
    <3> QED BY <1>i, <2>0, <3>1, <3>2
            DEF TypeOK, Bookkeeping, FreePlaces, AvailableItems
  <2> QED BY <1>1, <2>1, <2>2 DEF BeginReceive
<1>2. CASE WaitToReceive(r)
  <2>0. UNCHANGED <<sendFutex, tail, head, buffer, ticket, got>>
    BY <1>2 DEF WaitToReceive
  <2>1. CASE Step(r, "wait", "ticket") /\ ReceiveWaiter!Take(r)
    <3>1. receiveFutex > 0 /\ receiveFutex' = receiveFutex - 1
      BY <2>1 DEF ReceiveWaiter!Take
    <3>2. /\ PcOK' /\ Coming' = Coming /\ Placing' = Placing /\ Sending' = Sending
          /\ Reserving' = Reserving + 1 /\ Returning' = Returning
      BY <1>t, <2>1, ReceiverCounts DEF ReceivePlaces, In
    <3> QED BY <1>i, <2>0, <3>1, <3>2
            DEF TypeOK, Bookkeeping, FreePlaces, AvailableItems
  <2>2. CASE Step(r, "wait", "idle") /\ ReceiveWaiter!Throw(r)
    <3>1. receiveFutex' = receiveFutex
      BY <2>2 DEF ReceiveWaiter!Throw
    <3>2. /\ PcOK' /\ Coming' = Coming /\ Placing' = Placing /\ Sending' = Sending
          /\ Reserving' = Reserving /\ Returning' = Returning
      BY <1>t, <2>2, ReceiverCounts DEF ReceivePlaces, In
    <3> QED BY <1>i, <2>0, <3>1, <3>2
            DEF TypeOK, Bookkeeping, FreePlaces, AvailableItems
  <2>3. CASE UNCHANGED pc /\ (ReceiveWaiter!Miss(r) \/ ReceiveWaiter!Park(r))
    <3>1. receiveFutex' = receiveFutex
      BY <2>3 DEF ReceiveWaiter!Miss, ReceiveWaiter!Park
    <3> QED BY <1>t, <2>0, <2>3, <3>1, SameCounts
            DEF TypeOK, Bookkeeping, FreePlaces, AvailableItems
  <2> QED BY <1>2, <2>1, <2>2, <2>3 DEF WaitToReceive
<1>3. CASE TakeHead(r)
  <2>1. UNCHANGED <<sendFutex, receiveFutex, tail, buffer, got>> /\ head' = head + 1
    BY <1>3 DEF TakeHead, signals
  <2>2. /\ PcOK' /\ Coming' = Coming /\ Placing' = Placing /\ Sending' = Sending
        /\ Reserving' = Reserving - 1 /\ Returning' = Returning + 1
    BY <1>t, <1>3, ReceiverCounts DEF TakeHead, ReceivePlaces, In
  <2>3. ticket' \in [Threads -> Nat]
    BY <1>3, <1>i DEF TakeHead, TypeOK
  <2>4. TypeOK'
    BY <1>i, <2>1, <2>2, <2>3 DEF TypeOK
  <2>5. FreePlaces' /\ AvailableItems'
    BY <1>i, <2>1, <2>2 DEF Bookkeeping, FreePlaces, AvailableItems
  <2> QED BY <1>i, <2>1, <2>2, <2>4, <2>5 DEF Bookkeeping
<1>4. CASE AwaitSlot(r) \/ Get(r) \/ Unready(r) \/ Release(r)
  <2>1. /\ UNCHANGED <<sendFutex, receiveFutex, tail, head>>
        /\ ticket' \in [Threads -> Nat]
    BY <1>4 DEF AwaitSlot, Get, Unready, Release, signals, TypeOK
  <2>2. /\ PcOK' /\ Coming' = Coming /\ Placing' = Placing /\ Sending' = Sending
        /\ Reserving' = Reserving /\ Returning' = Returning
    <3>1. CASE AwaitSlot(r)
      BY <1>t, <3>1, ReceiverCounts DEF AwaitSlot, ReceivePlaces, In
    <3>2. CASE Get(r)
      BY <1>t, <3>2, ReceiverCounts DEF Get, ReceivePlaces, In
    <3>3. CASE Unready(r)
      BY <1>t, <3>3, ReceiverCounts DEF Unready, ReceivePlaces, In
    <3>4. CASE Release(r)
      BY <1>t, <3>4, ReceiverCounts DEF Release, ReceivePlaces, In
    <3> QED BY <1>4, <3>1, <3>2, <3>3, <3>4
  <2>3. /\ buffer' \in [Slots -> [seq : Nat, ready : BOOLEAN, item : Nat \cup {Nothing}]]
        /\ got' \in [Receivers -> Nat \cup {Nothing}]
    <3>1. Idx(ticket[r]) \in Slots
      BY <1>i, SlotOfTicket
    <3>2. CASE AwaitSlot(r)
      BY <3>2 DEF AwaitSlot, TypeOK
    <3>3. CASE Get(r)
      BY <3>1, <3>3 DEF Get, TypeOK
    <3>4. CASE Unready(r)
      BY <1>i, <3>1, <3>4 DEF Unready, TypeOK
    <3>5. CASE Release(r)
      BY <1>i, <3>1, <3>5 DEF Release, TypeOK
    <3> QED BY <1>4, <3>2, <3>3, <3>4, <3>5
  <2> QED BY <1>i, <2>1, <2>2, <2>3
          DEF TypeOK, Bookkeeping, FreePlaces, AvailableItems
<1>5. CASE NotifySenders(r)
  <2>1. /\ UNCHANGED <<receiveFutex, tail, head, buffer, ticket, got>>
        /\ sendFutex' = sendFutex + 1
    BY <1>5 DEF NotifySenders, SendWaiter!Notify
  <2>2. /\ PcOK' /\ Coming' = Coming /\ Placing' = Placing /\ Sending' = Sending
        /\ Reserving' = Reserving /\ Returning' = Returning - 1
    BY <1>t, <1>5, ReceiverCounts DEF NotifySenders, ReceivePlaces, In
  <2>3. TypeOK'
    BY <1>i, <2>1, <2>2 DEF TypeOK
  <2>4. sendFutex < 0 => sendFutex' < 0
    <3>1. head <= tail
      BY <1>i DEF Bookkeeping, AvailableItems
    <3> QED BY <1>i, <2>1, <2>2, <3>1 DEF Bookkeeping, FreePlaces
  <2> QED BY <1>i, <2>1, <2>2, <2>3, <2>4 DEF Bookkeeping, FreePlaces, AvailableItems
<1> QED BY <1>1, <1>2, <1>3, <1>4, <1>5 DEF ReceiveStep

\* The steps that belong to no thread: the kernel's wake-ups and close().
LEMMA CloseBooks ==
  ASSUME TypeOK, Bookkeeping,
         WakeSender \/ WakeReceiver \/ CloseSend \/ CloseReceive \/ UNCHANGED vars
  PROVE  TypeOK' /\ Bookkeeping'
<1> USE CountTypes, ChannelAssumption
<1>i. sendFutex \in Int /\ receiveFutex \in Int /\ tail \in Nat /\ head \in Nat
  BY DEF TypeOK
<1>1. UNCHANGED <<tail, head, buffer, pc, ticket, got>>
  BY DEF WakeSender, WakeReceiver, CloseSend, CloseReceive, vars
<1>2. \/ UNCHANGED <<sendFutex, receiveFutex>>
      \/ sendFutex >= 0 /\ sendFutex' = 0 - Margin /\ UNCHANGED receiveFutex
      \/ /\ sendFutex < 0 /\ receiveFutex >= 0
         /\ receiveFutex' = 0 - Margin /\ UNCHANGED sendFutex
  BY DEF WakeSender, WakeReceiver, CloseSend, CloseReceive, vars, signals,
         SendWaiter!Wake, ReceiveWaiter!Wake, SendWaiter!Close, ReceiveWaiter!Close,
         SendWaiter!Closed, ReceiveWaiter!Closed
<1>3. TypeOK'
  <2>1. sendFutex' \in Int /\ receiveFutex' \in Int
    BY <1>i, <1>2
  <2> QED BY <1>1, <2>1, SameCounts DEF TypeOK
<1>4. /\ Coming' = Coming /\ Placing' = Placing /\ Sending' = Sending
      /\ Reserving' = Reserving /\ Returning' = Returning
  BY <1>1, SameCounts
<1>5. FreePlaces'
  BY <1>i, <1>1, <1>2, <1>4 DEF Bookkeeping, FreePlaces
<1>6. AvailableItems'
  BY <1>i, <1>1, <1>2, <1>4 DEF Bookkeeping, AvailableItems
<1>7. /\ receiveFutex' < 0 => sendFutex' < 0
      /\ tail' + Coming' <= MaxItems
  BY <1>i, <1>1, <1>2, <1>4 DEF Bookkeeping
<1> QED BY <1>3, <1>5, <1>6, <1>7 DEF Bookkeeping

-----------------------------------------------------------------------------
(* Tickets and slots.                                                      *)

SlotInv == Tickets /\ SlotTurns /\ SenderTurns /\ ReceiverTurns

\* Steps of threads that hold no ticket, and of the kernel.
LEMMA QuietSteps ==
  ASSUME SlotInv, UNCHANGED <<tail, head, buffer, ticket>>,
         \A t \in Threads :
           \/ pc'[t] = pc[t]
           \/ /\ pc[t] \in {"idle", "wait", "ticket", "notify"}
              /\ pc'[t] \in {"idle", "wait", "ticket", "notify"}
  PROVE  SlotInv'
<1>1. /\ \A s \in Senders : /\ Putting(s)' <=> Putting(s)
                            /\ pc'[s] = "publish" <=> pc[s] = "publish"
      /\ \A r \in Receivers : /\ Using(r)' <=> Using(r)
                              /\ Holding(r)' <=> Holding(r)
                              /\ pc'[r] = "unready" <=> pc[r] = "unready"
                              /\ pc'[r] = "release" <=> pc[r] = "release"
  BY DEF Putting, Using, Holding, Threads
<1>2. Tickets'
  BY <1>1 DEF SlotInv, Tickets
<1>3. SlotTurns'
  BY <1>1 DEF SlotInv, SlotTurns
<1>4. SenderTurns'
  BY <1>1 DEF SlotInv, SenderTurns
<1>5. ReceiverTurns'
  BY <1>1 DEF SlotInv, ReceiverTurns
<1> QED BY <1>2, <1>3, <1>4, <1>5 DEF SlotInv

\* A new ticket is above all those that are held, and its slot is not ready.
LEMMA TakeTailSlots ==
  ASSUME TypeOK, SlotInv, NEW s \in Senders, TakeTail(s)
  PROVE  SlotInv'
<1>1. /\ tail \in Nat /\ tail' = tail + 1 /\ UNCHANGED <<head, buffer>>
      /\ \A t \in Threads : /\ pc'[t] = IF t = s THEN "spin" ELSE pc[t]
                            /\ ticket'[t] = IF t = s THEN tail ELSE ticket[t]
                            /\ ticket[t] \in Nat
      /\ pc[s] = "ticket"
      /\ \A i \in Slots : buffer[i].seq \in Nat
  BY DEF TakeTail, Step, TypeOK, PcOK, signals
<1>2. s \in Threads /\ Senders \subseteq Threads /\ Receivers \subseteq Threads
      /\ s \notin Receivers
  BY ChannelAssumption DEF Threads
<1>3. /\ \A u \in Senders : Putting(u)' <=> (u = s \/ Putting(u))
      /\ \A r \in Receivers : (Using(r)' <=> Using(r)) /\ (Holding(r)' <=> Holding(r))
  BY <1>1, <1>2 DEF Putting, Using, Holding
<1>4. Tickets'
  BY <1>1, <1>2, <1>3 DEF SlotInv, Tickets
<1>5. SlotTurns'
  BY <1>1, <1>2, <1>3 DEF SlotInv, SlotTurns
<1>6. SenderTurns'
  BY <1>1, <1>2 DEF SlotInv, SenderTurns
<1>7. ReceiverTurns'
  BY <1>1, <1>2, <1>3 DEF SlotInv, ReceiverTurns
<1> QED BY <1>4, <1>5, <1>6, <1>7 DEF SlotInv

LEMMA TakeHeadSlots ==
  ASSUME TypeOK, SlotInv, NEW r \in Receivers, TakeHead(r)
  PROVE  SlotInv'
<1>1. /\ head \in Nat /\ head' = head + 1 /\ UNCHANGED <<tail, buffer>>
      /\ \A t \in Threads : /\ pc'[t] = IF t = r THEN "spin" ELSE pc[t]
                            /\ ticket'[t] = IF t = r THEN head ELSE ticket[t]
                            /\ ticket[t] \in Nat
      /\ pc[r] = "ticket"
  BY DEF TakeHead, Step, TypeOK, PcOK, signals
<1>2. r \in Threads /\ Senders \subseteq Threads /\ Receivers \subseteq Threads
      /\ r \notin Senders
  BY ChannelAssumption DEF Threads
<1>3. /\ \A q \in Receivers : /\ Using(q)' <=> (q = r \/ Using(q))
                              /\ Holding(q)' <=> Holding(q)
      /\ \A s \in Senders : Putting(s)' <=> Putting(s)
      /\ ~ Holding(r)
  BY <1>1, <1>2 DEF Putting, Using, Holding
<1>4. Tickets'
  BY <1>1, <1>2, <1>3 DEF SlotInv, Tickets
<1>5. SlotTurns'
  BY <1>1, <1>2, <1>3 DEF SlotInv, SlotTurns
<1>6. SenderTurns'
  BY <1>1, <1>2 DEF SlotInv, SenderTurns
<1>7. ReceiverTurns'
  BY <1>1, <1>2, <1>3 DEF SlotInv, ReceiverTurns
<1> QED BY <1>4, <1>5, <1>6, <1>7 DEF SlotInv

\* The item is put into a slot whose turn it is: it is not ready, and nobody else
\* has the ticket.
LEMMA PutSlots ==
  ASSUME TypeOK, SlotInv, NEW s \in Senders, Put(s)
  PROVE  SlotInv'
<1> DEFINE k == Idx(ticket[s])
<1>1. /\ UNCHANGED <<tail, head, ticket>>
      /\ s \in Threads /\ Senders \subseteq Threads /\ Receivers \subseteq Threads
      /\ s \notin Receivers
  BY ChannelAssumption DEF Put, Threads
<1>2. /\ pc[s] = "spin"
      /\ \A t \in Threads : pc'[t] = IF t = s THEN "publish" ELSE pc[t]
  BY <1>1 DEF Put, Step, TypeOK, PcOK
<1>3. k \in Slots /\ \A t \in Threads : Idx(ticket[t]) \in Slots
  BY <1>1, SlotOfTicket DEF TypeOK
<1> HIDE DEF k
<1>4. /\ buffer[k].seq = ticket[s] /\ buffer'[k].item = ticket[s]
      /\ \A i \in Slots : /\ buffer'[i].seq = buffer[i].seq
                          /\ buffer'[i].ready = buffer[i].ready
                          /\ i # k => buffer'[i] = buffer[i]
  BY <1>3 DEF Put, TypeOK, k
<1>5. /\ \A u \in Senders : Putting(u)' <=> Putting(u)
      /\ \A r \in Receivers : (Using(r)' <=> Using(r)) /\ (Holding(r)' <=> Holding(r))
      /\ Putting(s)
  BY <1>1, <1>2 DEF Putting, Using, Holding
<1>6. ~ buffer[k].ready
  BY <1>3, <1>4, <1>5 DEF SlotInv, SlotTurns
<1>7. Tickets'
  BY <1>1, <1>5 DEF SlotInv, Tickets
<1>8. SlotTurns'
  BY <1>1, <1>4, <1>5, <1>6 DEF SlotInv, SlotTurns
<1>9. SenderTurns'
  <2> SUFFICES ASSUME NEW u \in Senders, pc'[u] = "publish"
               PROVE  /\ buffer'[Idx(ticket[u])].seq = ticket[u]
                      /\ buffer'[Idx(ticket[u])].item = ticket[u]
    BY <1>1 DEF SenderTurns, Idx
  <2>1. CASE u = s
    BY <1>3, <1>4, <2>1 DEF k
  <2>2. CASE u # s
    <3>1. pc[u] = "publish" /\ Putting(u)
      BY <1>1, <1>2, <2>2 DEF Putting
    <3>2. buffer[Idx(ticket[u])].seq = ticket[u] /\ buffer[Idx(ticket[u])].item = ticket[u]
      BY <3>1 DEF SlotInv, SenderTurns
    <3>3. Idx(ticket[u]) # k
      BY <1>4, <1>5, <2>2, <3>1, <3>2 DEF SlotInv, Tickets
    <3> QED BY <1>1, <1>3, <1>4, <3>2, <3>3
  <2> QED BY <2>1, <2>2
<1>10. ReceiverTurns'
  BY <1>1, <1>2, <1>3, <1>4, <1>5 DEF SlotInv, ReceiverTurns
<1> QED BY <1>7, <1>8, <1>9, <1>10 DEF SlotInv

\* The sender makes the slot ready as it gives up its ticket.
LEMMA PublishSlots ==
  ASSUME TypeOK, SlotInv, NEW s \in Senders, Publish(s)
  PROVE  SlotInv'
<1> DEFINE k == Idx(ticket[s])
<1>1. /\ UNCHANGED <<tail, head>>
      /\ s \in Threads /\ Senders \subseteq Threads /\ Receivers \subseteq Threads
      /\ s \notin Receivers
  BY ChannelAssumption DEF Publish, Threads
<1>2. /\ pc[s] = "publish"
      /\ \A t \in Threads : /\ pc'[t] = IF t = s THEN "notify" ELSE pc[t]
                            /\ t # s => ticket'[t] = ticket[t]
  BY <1>1 DEF Publish, Step, TypeOK, PcOK
<1>3. k \in Slots /\ \A t \in Threads : Idx(ticket[t]) \in Slots
  BY <1>1, SlotOfTicket DEF TypeOK
<1> HIDE DEF k
<1>4. /\ buffer'[k].ready
      /\ \A i \in Slots : /\ buffer'[i].seq = buffer[i].seq
                          /\ buffer'[i].item = buffer[i].item
                          /\ i # k => buffer'[i] = buffer[i]
  BY <1>3 DEF Publish, TypeOK, k
<1>5. /\ \A u \in Senders : Putting(u)' <=> (Putting(u) /\ u # s)
      /\ \A r \in Receivers : (Using(r)' <=> Using(r)) /\ (Holding(r)' <=> Holding(r))
      /\ Putting(s)
  BY <1>1, <1>2 DEF Putting, Using, Holding
<1>6. buffer[k].seq = ticket[s] /\ buffer[k].item = ticket[s]
  BY <1>2 DEF SlotInv, SenderTurns, k
<1>7. Tickets'
  BY <1>1, <1>2, <1>5 DEF SlotInv, Tickets
<1>8. SlotTurns'
  <2> SUFFICES ASSUME NEW i \in Slots
               PROVE  /\ Idx(buffer'[i].seq) = i
                      /\ buffer'[i].ready =>
                           /\ buffer'[i].item = buffer'[i].seq
                           /\ buffer'[i].seq < tail
                           /\ \A u \in Senders : Putting(u)' => ticket'[u] # buffer'[i].seq
    BY <1>1 DEF SlotTurns, Idx, Slots
  <2>1. CASE i = k
    BY <1>1, <1>2, <1>3, <1>4, <1>5, <1>6, <2>1 DEF SlotInv, SlotTurns, Tickets
  <2>2. CASE i # k
    BY <1>1, <1>2, <1>4, <1>5, <2>2 DEF SlotInv, SlotTurns
  <2> QED BY <2>1, <2>2
<1>9. SenderTurns'
  BY <1>1, <1>2, <1>3, <1>4 DEF SlotInv, SenderTurns, Idx
<1>10. ReceiverTurns'
  <2> SUFFICES ASSUME NEW r \in Receivers
               PROVE  /\ Holding(r) => buffer'[Idx(ticket[r])].seq = ticket[r]
                      /\ pc[r] = "unready" => buffer'[Idx(ticket[r])].ready
                      /\ pc[r] = "release" => ~ buffer'[Idx(ticket[r])].ready
                      /\ pc[r] \in {"unready", "release"} =>
                           /\ ticket[r] < tail
                           /\ \A u \in Senders : Putting(u)' => ticket'[u] # ticket[r]
    BY <1>1, <1>2, <1>5 DEF ReceiverTurns, Idx
  <2>1. Idx(ticket[r]) \in Slots
    BY <1>1, <1>3
  <2>2. pc[r] = "release" => Idx(ticket[r]) # k
    BY <1>5, <1>6 DEF SlotInv, ReceiverTurns, Holding
  <2> QED BY <1>1, <1>2, <1>4, <1>5, <2>1, <2>2 DEF SlotInv, ReceiverTurns
<1> QED BY <1>7, <1>8, <1>9, <1>10 DEF SlotInv

\* The receiver sees its turn, and then that the item is there.
LEMMA GetSlots ==
  ASSUME TypeOK, SlotInv, NEW r \in Receivers, AwaitSlot(r) \/ Get(r)
  PROVE  SlotInv'
<1>1. /\ UNCHANGED <<tail, head, buffer, ticket>>
      /\ r \in Threads /\ Senders \subseteq Threads /\ Receivers \subseteq Threads
      /\ r \notin Senders
  BY ChannelAssumption DEF AwaitSlot, Get, Threads
<1>2. /\ \A t \in Threads : t # r => pc'[t] = pc[t]
      /\ \/ /\ pc[r] = "spin" /\ pc'[r] = "await"
            /\ buffer[Idx(ticket[r])].seq = ticket[r]
         \/ /\ pc[r] = "await" /\ pc'[r] = "unready"
            /\ buffer[Idx(ticket[r])].ready
  BY <1>1 DEF AwaitSlot, Get, Step, TypeOK, PcOK
<1>3. /\ \A s \in Senders : Putting(s)' <=> Putting(s)
      /\ \A q \in Receivers : Using(q)' <=> Using(q)
  BY <1>1, <1>2 DEF Putting, Using
<1>4. Tickets'
  BY <1>1, <1>3 DEF SlotInv, Tickets
<1>5. SlotTurns'
  BY <1>1, <1>3 DEF SlotInv, SlotTurns
<1>6. SenderTurns'
  BY <1>1, <1>2 DEF SlotInv, SenderTurns
<1>7. ReceiverTurns'
  <2> SUFFICES ASSUME NEW q \in Receivers
               PROVE  /\ Holding(q)' => buffer[Idx(ticket[q])].seq = ticket[q]
                      /\ pc'[q] = "unready" => buffer[Idx(ticket[q])].ready
                      /\ pc'[q] = "release" => ~ buffer[Idx(ticket[q])].ready
                      /\ pc'[q] \in {"unready", "release"} =>
                           /\ ticket[q] < tail
                           /\ \A s \in Senders : Putting(s) => ticket[s] # ticket[q]
    BY <1>1, <1>3 DEF ReceiverTurns, Idx
  <2>1. CASE q # r
    BY <1>1, <1>2, <2>1 DEF SlotInv, ReceiverTurns, Holding
  <2>2. CASE q = r
    <3>1. buffer[Idx(ticket[r])].seq = ticket[r]
      BY <1>2 DEF SlotInv, ReceiverTurns, Holding
    <3>2. Idx(ticket[r]) \in Slots
      BY <1>1, SlotOfTicket DEF TypeOK
    <3>3. buffer[Idx(ticket[r])].ready =>
            /\ ticket[r] < tail
            /\ \A s \in Senders : Putting(s) => ticket[s] # ticket[r]
      BY <3>1, <3>2 DEF SlotInv, SlotTurns
    <3> QED BY <1>2, <2>2, <3>1, <3>3
  <2> QED BY <2>1, <2>2
<1> QED BY <1>4, <1>5, <1>6, <1>7 DEF SlotInv

\* The receiver empties the slot: no sender and no other receiver is in it.
LEMMA UnreadySlots ==
  ASSUME TypeOK, SlotInv, NEW r \in Receivers, Unready(r)
  PROVE  SlotInv'
<1> DEFINE k == Idx(ticket[r])
<1>1. /\ UNCHANGED <<tail, head, ticket>>
      /\ r \in Threads /\ Senders \subseteq Threads /\ Receivers \subseteq Threads
      /\ r \notin Senders
  BY ChannelAssumption DEF Unready, Threads
<1>2. /\ pc[r] = "unready"
      /\ \A t \in Threads : pc'[t] = IF t = r THEN "release" ELSE pc[t]
  BY <1>1 DEF Unready, Step, TypeOK, PcOK
<1>3. k \in Slots /\ \A t \in Threads : Idx(ticket[t]) \in Slots
  BY <1>1, SlotOfTicket DEF TypeOK
<1> HIDE DEF k
<1>4. /\ ~ buffer'[k].ready
      /\ \A i \in Slots : /\ buffer'[i].seq = buffer[i].seq
                          /\ i # k => buffer'[i] = buffer[i]
  BY <1>3 DEF Unready, TypeOK, k
<1>5. /\ \A s \in Senders : Putting(s)' <=> Putting(s)
      /\ \A q \in Receivers : (Using(q)' <=> Using(q)) /\ (Holding(q)' <=> Holding(q))
      /\ Holding(r) /\ Using(r)
  BY <1>1, <1>2 DEF Putting, Using, Holding
<1>6. buffer[k].seq = ticket[r]
  BY <1>5 DEF SlotInv, ReceiverTurns, k
<1>7. Tickets'
  BY <1>1, <1>5 DEF SlotInv, Tickets
<1>8. SlotTurns'
  BY <1>1, <1>4, <1>5 DEF SlotInv, SlotTurns, Idx
<1>9. SenderTurns'
  <2> SUFFICES ASSUME NEW s \in Senders, pc[s] = "publish"
               PROVE  /\ buffer'[Idx(ticket[s])].seq = ticket[s]
                      /\ buffer'[Idx(ticket[s])].item = ticket[s]
    BY <1>1, <1>2 DEF SenderTurns, Idx
  <2>1. /\ Putting(s)
        /\ buffer[Idx(ticket[s])].seq = ticket[s]
        /\ buffer[Idx(ticket[s])].item = ticket[s]
    BY DEF SlotInv, SenderTurns, Putting
  <2>2. Idx(ticket[s]) # k
    BY <1>2, <1>6, <2>1 DEF SlotInv, ReceiverTurns
  <2> QED BY <1>1, <1>3, <1>4, <2>1, <2>2
<1>10. ReceiverTurns'
  <2> SUFFICES ASSUME NEW q \in Receivers
               PROVE  /\ Holding(q) => buffer'[Idx(ticket[q])].seq = ticket[q]
                      /\ pc'[q] = "unready" => buffer'[Idx(ticket[q])].ready
                      /\ pc'[q] = "release" => ~ buffer'[Idx(ticket[q])].ready
                      /\ pc'[q] \in {"unready", "release"} =>
                           /\ ticket[q] < tail
                           /\ \A s \in Senders : Putting(s) => ticket[s] # ticket[q]
    BY <1>1, <1>5 DEF ReceiverTurns, Idx
  <2>1. CASE q = r
    BY <1>1, <1>2, <1>3, <1>4, <1>6, <2>1 DEF SlotInv, ReceiverTurns, k
  <2>2. CASE q # r
    <3>1. Holding(q) => Idx(ticket[q]) # k
      BY <1>5, <1>6, <2>2 DEF SlotInv, ReceiverTurns, Tickets, Holding, Using
    <3> QED BY <1>1, <1>2, <1>3, <1>4, <2>2, <3>1 DEF SlotInv, ReceiverTurns, Holding
  <2> QED BY <2>1, <2>2
<1> QED BY <1>7, <1>8, <1>9, <1>10 DEF SlotInv

\* The receiver hands the slot on to the ticket of the next round.
LEMMA ReleaseSlots ==
  ASSUME TypeOK, SlotInv, NEW r \in Receivers, Release(r)
  PROVE  SlotInv'
<1> DEFINE k == Idx(ticket[r])
<1>1. /\ UNCHANGED <<tail, head>>
      /\ r \in Threads /\ Senders \subseteq Threads /\ Receivers \subseteq Threads
      /\ r \notin Senders
  BY ChannelAssumption DEF Release, Threads
<1>2. /\ pc[r] = "release"
      /\ \A t \in Threads : /\ pc'[t] = IF t = r THEN "notify" ELSE pc[t]
                            /\ t # r => ticket'[t] = ticket[t]
  BY <1>1 DEF Release, Step, TypeOK, PcOK
<1>3. k \in Slots /\ \A t \in Threads : Idx(ticket[t]) \in Slots
  BY <1>1, SlotOfTicket DEF TypeOK
<1> HIDE DEF k
<1>4. /\ buffer'[k].seq = buffer[k].seq + Size /\ buffer'[k].ready = buffer[k].ready
      /\ buffer[k].seq \in Nat
      /\ \A i \in Slots : i # k => buffer'[i] = buffer[i]
  BY <1>3 DEF Release, TypeOK, k
<1>5. /\ \A s \in Senders : Putting(s)' <=> Putting(s)
      /\ \A q \in Receivers : /\ Using(q)' <=> (Using(q) /\ q # r)
                              /\ Holding(q)' <=> (Holding(q) /\ q # r)
      /\ Holding(r) /\ Using(r)
  BY <1>1, <1>2 DEF Putting, Using, Holding
<1>6. buffer[k].seq = ticket[r] /\ ~ buffer[k].ready
  BY <1>2, <1>5 DEF SlotInv, ReceiverTurns, k
<1>7. Tickets'
  BY <1>1, <1>2, <1>5 DEF SlotInv, Tickets
<1>8. SlotTurns'
  <2>1. Idx(buffer'[k].seq) = k
    BY <1>3, <1>4, SlotOfTicket DEF SlotInv, SlotTurns
  <2> SUFFICES ASSUME NEW i \in Slots
               PROVE  /\ Idx(buffer'[i].seq) = i
                      /\ buffer'[i].ready =>
                           /\ buffer'[i].item = buffer'[i].seq
                           /\ buffer'[i].seq < tail
                           /\ \A s \in Senders : Putting(s)' => ticket'[s] # buffer'[i].seq
    BY <1>1 DEF SlotTurns, Idx, Slots
  <2>2. CASE i = k
    BY <1>4, <1>6, <2>1, <2>2
  <2>3. CASE i # k
    BY <1>1, <1>2, <1>4, <1>5, <2>3 DEF SlotInv, SlotTurns
  <2> QED BY <2>2, <2>3
<1>9. SenderTurns'
  <2> SUFFICES ASSUME NEW s \in Senders, pc[s] = "publish"
               PROVE  /\ buffer'[Idx(ticket[s])].seq = ticket[s]
                      /\ buffer'[Idx(ticket[s])].item = ticket[s]
    BY <1>1, <1>2 DEF SenderTurns, Idx
  <2>1. /\ Putting(s)
        /\ buffer[Idx(ticket[s])].seq = ticket[s]
        /\ buffer[Idx(ticket[s])].item = ticket[s]
    BY DEF SlotInv, SenderTurns, Putting
  <2>2. Idx(ticket[s]) # k
    BY <1>2, <1>6, <2>1 DEF SlotInv, ReceiverTurns
  <2> QED BY <1>1, <1>3, <1>4, <2>1, <2>2
<1>10. ReceiverTurns'
  <2> SUFFICES ASSUME NEW q \in Receivers, q # r
               PROVE  /\ Holding(q) => buffer'[Idx(ticket[q])].seq = ticket[q]
                      /\ pc[q] = "unready" => buffer'[Idx(ticket[q])].ready
                      /\ pc[q] = "release" => ~ buffer'[Idx(ticket[q])].ready
                      /\ pc[q] \in {"unready", "release"} =>
                           /\ ticket[q] < tail
                           /\ \A s \in Senders : Putting(s) => ticket[s] # ticket[q]
    BY <1>1, <1>2, <1>5 DEF ReceiverTurns, Idx
  <2>1. Holding(q) => Idx(ticket[q]) # k
    BY <1>5, <1>6 DEF SlotInv, ReceiverTurns, Tickets, Holding, Using
  <2> QED BY <1>1, <1>3, <1>4, <2>1 DEF SlotInv, ReceiverTurns, Holding
<1> QED BY <1>7, <1>8, <1>9, <1>10 DEF SlotInv

-----------------------------------------------------------------------------
(* The invariant, and what it gives.                                       *)

\* A step of the channel is one that moves no ticket and no slot, or one of those above.
LEMMA StepKeepsSlots ==
  ASSUME TypeOK, SlotInv, [Next]_vars
  PROVE  SlotInv'
<1>0. PcOK /\ Senders \subseteq Threads /\ Receivers \subseteq Threads
  BY DEF TypeOK, Threads
<1>1. ASSUME NEW t \in Threads, NEW from \in {"idle", "wait", "ticket", "notify"},
             NEW to \in {"idle", "wait", "ticket", "notify"}, Step(t, from, to),
             UNCHANGED <<tail, head, buffer, ticket>>
      PROVE  SlotInv'
  <2>1. /\ \A u \in Threads : u # t => pc'[u] = pc[u]
        /\ pc[t] = from /\ pc'[t] = to
    BY <1>0, <1>1 DEF Step, PcOK
  <2> QED BY <1>1, <2>1, QuietSteps
<1>2. ASSUME UNCHANGED <<tail, head, buffer, ticket, pc>> PROVE SlotInv'
  BY <1>2, QuietSteps
<1>3. ASSUME NEW s \in Senders, BeginSend(s) \/ SendStep(s) PROVE SlotInv'
  <2>0. s \in Threads
    BY <1>0
  <2>1. CASE BeginSend(s)
    BY <2>0, <2>1, <1>1 DEF BeginSend
  <2>2. CASE WaitToSend(s)
    BY <2>0, <2>2, <1>1, <1>2 DEF WaitToSend
  <2>3. CASE NotifyReceivers(s)
    BY <2>0, <2>3, <1>1 DEF NotifyReceivers
  <2> QED BY <1>3, <2>1, <2>2, <2>3, TakeTailSlots, PutSlots, PublishSlots DEF SendStep
<1>4. ASSUME NEW r \in Receivers, BeginReceive(r) \/ ReceiveStep(r) PROVE SlotInv'
  <2>0. r \in Threads
    BY <1>0
  <2>1. CASE BeginReceive(r)
    BY <2>0, <2>1, <1>1 DEF BeginReceive
  <2>2. CASE WaitToReceive(r)
    BY <2>0, <2>2, <1>1, <1>2 DEF WaitToReceive
  <2>3. CASE NotifySenders(r)
    BY <2>0, <2>3, <1>1 DEF NotifySenders
  <2> QED BY <1>4, <2>1, <2>2, <2>3, TakeHeadSlots, GetSlots, UnreadySlots, ReleaseSlots
          DEF ReceiveStep
<1>5. CASE WakeSender \/ WakeReceiver \/ CloseSend \/ CloseReceive \/ UNCHANGED vars
  BY <1>2, <1>5 DEF WakeSender, WakeReceiver, CloseSend, CloseReceive, vars
<1> QED BY <1>3, <1>4, <1>5 DEF Next

LEMMA StepKeepsBooks ==
  ASSUME TypeOK, Bookkeeping, [Next]_vars
  PROVE  TypeOK' /\ Bookkeeping'
  BY SenderBooks, ReceiverBooks, CloseBooks DEF Next

\* An empty ring: every place is free, and slot i is in the turn of ticket i.
LEMMA InitIInv == Init => IInv
<1> SUFFICES ASSUME Init PROVE IInv
  OBVIOUS
<1> USE ChannelAssumption
<1>1. /\ sendFutex = Size /\ receiveFutex = 0
      /\ \A t \in Threads : pc[t] = "idle"
  BY DEF Init, SendWaiter!InitWith, ReceiveWaiter!InitWith
<1>2. TypeOK
  BY <1>1 DEF Init, TypeOK, PcOK, SendPlaces, ReceivePlaces, Slots, Threads
<1>3. Coming = 0 /\ Placing = 0 /\ Reserving = 0 /\ Sending = 0 /\ Returning = 0
  BY <1>1, FS_EmptySet
     DEF Coming, Placing, Reserving, Sending, Returning, Count, At, Threads
<1>4. Bookkeeping
  BY <1>1, <1>3 DEF Init, Bookkeeping, FreePlaces, AvailableItems
<1>5. ASSUME NEW i \in Slots
      PROVE  buffer[i].seq = i /\ ~ buffer[i].ready /\ Idx(i) = i
  <2>1. buffer[i].seq = i /\ ~ buffer[i].ready
    BY DEF Init, Slots
  <2>2. i \in 0 .. Size - 1 /\ Size * 0 + i = i /\ i \in Nat
    BY DEF Slots
  <2>3. i % Size = i
    BY <2>2, ModUnique
  <2> QED BY <2>1, <2>3 DEF Idx
<1>6. /\ \A s \in Senders : ~ Putting(s) /\ pc[s] # "publish"
      /\ \A r \in Receivers : ~ Using(r) /\ ~ Holding(r) /\ pc[r] \notin {"unready", "release"}
  BY <1>1 DEF Threads, Putting, Using, Holding
<1> QED BY <1>2, <1>4, <1>5, <1>6 DEF IInv, Tickets, SlotTurns, SenderTurns, ReceiverTurns

\* The invariant holds in every reachable state of a channel, open or closed.
THEOREM ChannelInvariant == Spec => []IInv
<1>1. IInv /\ [Next]_vars => IInv'
  BY StepKeepsBooks, StepKeepsSlots DEF IInv, SlotInv
<1> QED BY <1>1, InitIInv, PTL DEF Spec

\* The threads past the wait are those with no ticket yet and those with one.
LEMMA CountsAddUp ==
  ASSUME PcOK
  PROVE  /\ Cardinality({s \in Senders : pc[s] \notin {"idle", "wait"}}) = Placing + Sending
         /\ Cardinality({r \in Receivers : pc[r] \notin {"idle", "wait"}}) = Reserving + Returning
<1> DEFINE P == At(Senders, {"ticket"})
           Q == At(Senders, {"spin", "publish", "notify"})
           R == At(Receivers, {"ticket"})
           U == At(Receivers, {"spin", "await", "unready", "release", "notify"})
<1>1. /\ IsFiniteSet(P) /\ IsFiniteSet(Q) /\ IsFiniteSet(R) /\ IsFiniteSet(U)
  BY ThreadsAreFinite
<1>2. /\ {s \in Senders : pc[s] \notin {"idle", "wait"}} = P \cup Q
      /\ P \cap Q = {}
  BY DEF PcOK, SendPlaces, At
<1>3. /\ {r \in Receivers : pc[r] \notin {"idle", "wait"}} = R \cup U
      /\ R \cap U = {}
  BY DEF PcOK, ReceivePlaces, At
<1>4. Cardinality({}) = 0
  BY FS_EmptySet
<1> HIDE DEF P, Q, R, U
<1>5. /\ Cardinality(P) \in Nat /\ Cardinality(Q) \in Nat
      /\ Cardinality(R) \in Nat /\ Cardinality(U) \in Nat
  BY <1>1, FS_CardinalityType
<1>6. Cardinality(P \cup Q) = Cardinality(P) + Cardinality(Q)
  <2>1. Cardinality(P \cup Q) = Cardinality(P) + Cardinality(Q) - Cardinality(P \cap Q)
    BY <1>1, FS_Union
  <2>2. Cardinality(P \cap Q) = 0
    BY <1>2, <1>4
  <2> QED BY <1>5, <2>1, <2>2
<1>7. Cardinality(R \cup U) = Cardinality(R) + Cardinality(U)
  <2>1. Cardinality(R \cup U) = Cardinality(R) + Cardinality(U) - Cardinality(R \cap U)
    BY <1>1, FS_Union
  <2>2. Cardinality(R \cap U) = 0
    BY <1>3, <1>4
  <2> QED BY <1>5, <2>1, <2>2
<1> QED BY <1>2, <1>3, <1>6, <1>7
        DEF Placing, Sending, Reserving, Returning, Count, P, Q, R, U

LEMMA PlacesAreKept == IInv => PlacesAddUp
<1> SUFFICES ASSUME IInv, sendFutex >= 0
             PROVE  Size = sendFutex + receiveFutex + (Placing + Sending) + (Reserving + Returning)
  BY CountsAddUp DEF PlacesAddUp, IInv, TypeOK
<1>1. /\ sendFutex \in Int /\ receiveFutex \in Int /\ tail \in Nat /\ head \in Nat /\ Size \in Nat
  BY ChannelAssumption DEF IInv, TypeOK
<1>2. receiveFutex >= 0
  BY <1>1 DEF IInv, Bookkeeping
<1> QED BY <1>1, <1>2, CountTypes DEF IInv, Bookkeeping, FreePlaces, AvailableItems

\* A slot is in the turn of one ticket at a time.
LEMMA SlotsAreApart == IInv => SlotIsExclusive
<1> SUFFICES ASSUME IInv,
                    NEW t \in {s \in Senders : pc[s] = "publish"}
                              \cup {r \in Receivers : pc[r] \in {"unready", "release"}},
                    NEW u \in {s \in Senders : pc[s] = "publish"}
                              \cup {r \in Receivers : pc[r] \in {"unready", "release"}},
                    Idx(ticket[t]) = Idx(ticket[u])
             PROVE  t = u
  BY DEF SlotIsExclusive
<1>1. ticket[t] = ticket[u]
  BY DEF IInv, SenderTurns, ReceiverTurns, Holding
<1>2. CASE t \in Senders /\ u \in Senders
  BY <1>1, <1>2, ChannelAssumption DEF IInv, Tickets, Putting
<1>3. CASE t \in Receivers /\ u \in Receivers
  BY <1>1, <1>3, ChannelAssumption DEF IInv, Tickets, Using
<1>4. CASE t \in Senders /\ u \in Receivers
  BY <1>1, <1>4, ChannelAssumption DEF IInv, ReceiverTurns, Putting
<1>5. CASE t \in Receivers /\ u \in Senders
  BY <1>1, <1>5, ChannelAssumption DEF IInv, ReceiverTurns, Putting
<1> QED BY <1>2, <1>3, <1>4, <1>5

\* For any number of threads and any size, no place of the ring is lost or made up
\* while the channel is open, and no two threads ever use one slot.
THEOREM ChannelSlotsAreSafe == Spec => []SlotsAreSafe
  BY ChannelInvariant, PlacesAreKept, SlotsAreApart, PTL DEF SlotsAreSafe

-----------------------------------------------------------------------------
(* The channel implements the bounded FIFO queue.                          *)

\* the items between _head and _tail, oldest first
Window(h, t) == [k \in 1 .. t - h |-> h + k - 1]
Reserved == [r \in Receivers |-> IF pc[r] \in {"spin", "await"} THEN ticket[r] ELSE Nothing]

LEMMA WindowGrows ==
  ASSUME NEW h \in Nat, NEW t \in Nat, h <= t
  PROVE  /\ Len(Window(h, t)) = t - h
         /\ Window(h, t + 1) = Append(Window(h, t), t)
<1>1. Window(h, t) \in Seq(Int) /\ Len(Window(h, t)) = t - h
  BY DEF Window
<1> QED BY <1>1 DEF Window

LEMMA WindowShrinks ==
  ASSUME NEW h \in Nat, NEW t \in Nat, h < t
  PROVE  /\ Window(h, t) # << >>
         /\ Head(Window(h, t)) = h
         /\ Window(h + 1, t) = Tail(Window(h, t))
<1>1. Window(h, t) \in Seq(Int) /\ Len(Window(h, t)) = t - h
  BY DEF Window
<1> QED BY <1>1 DEF Window

\* taking a ticket from _tail accepts an item, for which there is room
LEMMA TakeTailSends ==
  ASSUME IInv, NEW s \in Senders, TakeTail(s)
  PROVE  Queue!Send
<1>1. /\ PcOK /\ sendFutex \in Int /\ receiveFutex \in Int /\ tail \in Nat /\ head \in Nat
      /\ Size \in Nat /\ MaxItems \in Nat /\ Margin \in Nat
  BY ChannelAssumption DEF IInv, TypeOK
<1>2. Coming >= 1 /\ Placing >= 1
  BY <1>1, CountTypes, SenderCounts DEF TakeTail, SendPlaces, In
<1>3. head <= tail
  BY <1>1, CountTypes DEF IInv, Bookkeeping, AvailableItems
<1>4. tail - head < Size
  BY <1>1, <1>2, CountTypes DEF IInv, Bookkeeping, FreePlaces
<1>5. tail \in 0 .. MaxItems
  BY <1>1, <1>2, CountTypes DEF IInv, Bookkeeping
<1>6. tail' = tail + 1 /\ head' = head /\ got' = got
  BY DEF TakeTail
<1>7. Reserved' = Reserved
  <2>1. \A r \in Receivers : pc'[r] = pc[r] /\ ticket'[r] = ticket[r]
    BY <1>1, ChannelAssumption DEF TakeTail, Step, PcOK, Threads, IInv, TypeOK
  <2> QED BY <2>1 DEF Reserved
<1>8. /\ Len(Window(head, tail)) < Size
      /\ Window(head, tail)' = Append(Window(head, tail), tail)
  <2>1. Window(head, tail)' = Window(head, tail + 1)
    BY <1>6 DEF Window
  <2> QED BY <2>1, <1>1, <1>3, <1>4, WindowGrows
<1> QED BY <1>5, <1>6, <1>7, <1>8 DEF Queue!Send, Window, Reserved

\* taking a ticket from _head reserves the oldest item
LEMMA TakeHeadReserves ==
  ASSUME IInv, NEW r \in Receivers, TakeHead(r)
  PROVE  Queue!Reserve(r)
<1>1. /\ PcOK /\ receiveFutex \in Int /\ tail \in Nat /\ head \in Nat /\ Margin \in Nat
      /\ ticket \in [Threads -> Nat] /\ pc \in [Threads -> SendPlaces \cup ReceivePlaces]
      /\ Receivers \subseteq Threads
  BY ChannelAssumption DEF IInv, TypeOK, PcOK, Threads
<1>2. Reserving >= 1
  BY <1>1, CountTypes, ReceiverCounts DEF TakeHead, ReceivePlaces, In
<1>3. head < tail
  BY <1>1, <1>2, CountTypes DEF IInv, Bookkeeping, AvailableItems
<1>4. tail' = tail /\ head' = head + 1 /\ got' = got
  BY DEF TakeHead
<1>5. /\ Reserved[r] = Nothing
      /\ Reserved' = [Reserved EXCEPT ![r] = head]
  <2>1. pc[r] = "ticket" /\ pc'[r] = "spin" /\ ticket'[r] = head
    BY <1>1 DEF TakeHead, Step
  <2>2. \A q \in Receivers : q # r => pc'[q] = pc[q] /\ ticket'[q] = ticket[q]
    BY <1>1 DEF TakeHead, Step
  <2> QED BY <2>1, <2>2 DEF Reserved
<1>6. /\ Window(head, tail) # << >> /\ Head(Window(head, tail)) = head
      /\ Window(head, tail)' = Tail(Window(head, tail))
  <2>1. Window(head, tail)' = Window(head + 1, tail)
    BY <1>4 DEF Window
  <2> QED BY <2>1, <1>1, <1>3, WindowShrinks
<1> QED BY <1>4, <1>5, <1>6 DEF Queue!Reserve, Window, Reserved

\* the item that is moved out of the slot is the one that was reserved
LEMMA GetReturns ==
  ASSUME IInv, NEW r \in Receivers, Get(r)
  PROVE  Queue!Return(r)
<1>1. /\ ticket \in [Threads -> Nat] /\ pc \in [Threads -> SendPlaces \cup ReceivePlaces]
      /\ r \in Threads /\ Receivers \subseteq Threads
  BY DEF IInv, TypeOK, PcOK, Threads
<1>2. UNCHANGED <<tail, head, ticket>>
  BY DEF Get
<1>3. buffer[Idx(ticket[r])].item = ticket[r]
  <2>1. pc[r] = "await" /\ buffer[Idx(ticket[r])].ready /\ Idx(ticket[r]) \in Slots
    BY <1>1, SlotOfTicket DEF Get, Step
  <2>2. buffer[Idx(ticket[r])].seq = ticket[r]
    BY <2>1 DEF IInv, ReceiverTurns, Holding
  <2> QED BY <2>1, <2>2 DEF IInv, SlotTurns
<1>4. /\ Reserved[r] = ticket[r] /\ Reserved[r] # Nothing
      /\ Reserved' = [Reserved EXCEPT ![r] = Nothing]
  <2>1. pc[r] = "await" /\ pc'[r] = "unready"
    BY <1>1 DEF Get, Step
  <2>2. \A q \in Receivers : q # r => pc'[q] = pc[q] /\ ticket'[q] = ticket[q]
    BY <1>1 DEF Get, Step
  <2> QED BY <1>1, <2>1, <2>2, ChannelAssumption DEF Reserved
<1>5. got' = [got EXCEPT ![r] = Reserved[r]]
  BY <1>3, <1>4 DEF Get
<1>6. Window(head, tail)' = Window(head, tail)
  BY <1>2 DEF Window
<1> QED BY <1>4, <1>5, <1>6 DEF Queue!Return, Window, Reserved

\* Every other step is invisible to those who use the queue.
LEMMA OtherStepsStutter ==
  ASSUME IInv,
         \/ \E s \in Senders : BeginSend(s) \/ WaitToSend(s) \/ Put(s) \/ Publish(s)
                               \/ NotifyReceivers(s)
         \/ \E r \in Receivers : BeginReceive(r) \/ WaitToReceive(r) \/ AwaitSlot(r)
                               \/ Unready(r) \/ Release(r) \/ NotifySenders(r)
         \/ WakeSender \/ WakeReceiver \/ CloseSend \/ CloseReceive \/ UNCHANGED vars
  PROVE  UNCHANGED Queue!vars
<1>1. /\ ticket \in [Threads -> Nat] /\ pc \in [Threads -> SendPlaces \cup ReceivePlaces]
      /\ Senders \subseteq Threads /\ Receivers \subseteq Threads /\ Senders \cap Receivers = {}
  BY ChannelAssumption DEF IInv, TypeOK, PcOK, Threads
<1>2. UNCHANGED <<tail, head, got>>
  BY DEF BeginSend, WaitToSend, Put, Publish, NotifyReceivers, BeginReceive, WaitToReceive,
         AwaitSlot, Unready, Release, NotifySenders,
         WakeSender, WakeReceiver, CloseSend, CloseReceive, vars
<1>3. \A q \in Receivers :
        \/ pc'[q] = pc[q] /\ ticket'[q] = ticket[q]
        \/ /\ pc[q] \notin {"spin", "await"}
           /\ pc'[q] \notin {"spin", "await"}
        \/ pc[q] = "spin" /\ pc'[q] = "await" /\ ticket'[q] = ticket[q]
  <2>1. ASSUME NEW s \in Senders,
               BeginSend(s) \/ WaitToSend(s) \/ Put(s) \/ Publish(s) \/ NotifyReceivers(s)
        PROVE  \A q \in Receivers : pc'[q] = pc[q] /\ ticket'[q] = ticket[q]
    BY <1>1, <2>1 DEF BeginSend, WaitToSend, Put, Publish, NotifyReceivers, Step
  <2>2. ASSUME NEW r \in Receivers,
               BeginReceive(r) \/ WaitToReceive(r) \/ Unready(r) \/ Release(r)
               \/ NotifySenders(r)
        PROVE  \A q \in Receivers : \/ pc'[q] = pc[q] /\ ticket'[q] = ticket[q]
                                    \/ /\ pc[q] \notin {"spin", "await"}
                                       /\ pc'[q] \notin {"spin", "await"}
    BY <1>1, <2>2 DEF BeginReceive, WaitToReceive, Unready, Release, NotifySenders, Step
  <2>3. ASSUME NEW r \in Receivers, AwaitSlot(r)
        PROVE  \A q \in Receivers : \/ pc'[q] = pc[q] /\ ticket'[q] = ticket[q]
                                    \/ /\ pc[q] = "spin" /\ pc'[q] = "await"
                                       /\ ticket'[q] = ticket[q]
    BY <1>1, <2>3 DEF AwaitSlot, Step
  <2>4. CASE WakeSender \/ WakeReceiver \/ CloseSend \/ CloseReceive \/ UNCHANGED vars
    BY <2>4 DEF WakeSender, WakeReceiver, CloseSend, CloseReceive, vars
  <2> QED BY <2>1, <2>2, <2>3, <2>4
<1>4. Reserved' = Reserved
  BY <1>3 DEF Reserved
<1>5. Window(head, tail)' = Window(head, tail)
  BY <1>2 DEF Window
<1> QED BY <1>2, <1>4, <1>5 DEF Queue!vars, Window, Reserved

LEMMA StepRefines ==
  ASSUME IInv, [Next]_vars
  PROVE  [Queue!Next]_(Queue!vars)
  BY TakeTailSends, TakeHeadReserves, GetReturns, OtherStepsStutter
     DEF Next, SendStep, ReceiveStep, Queue!Next

LEMMA InitRefines == Init => Queue!Init
<1> SUFFICES ASSUME Init PROVE Queue!Init
  OBVIOUS
<1>1. tail = 0 /\ head = 0 /\ got = [r \in Receivers |-> Nothing]
      /\ \A r \in Receivers : pc[r] = "idle"
  BY DEF Init, Threads
<1>2. Window(head, tail) = << >>
  BY <1>1 DEF Window
<1>3. Reserved = [r \in Receivers |-> Nothing]
  BY <1>1 DEF Reserved
<1> QED BY <1>1, <1>2, <1>3 DEF Queue!Init, Window, Reserved

\* For any number of threads and any size, the channel is a FIFO queue of at most
\* Size items: each is returned once, to the receiver it was reserved for, in order.
THEOREM ChannelImplementsQueue == Spec => ImplementsQueue
<1>1. IInv /\ [Next]_vars => [Queue!Next]_(Queue!vars)
  BY StepRefines
<1> QED BY <1>1, InitRefines, ChannelInvariant, PTL DEF Spec, ImplementsQueue, Queue!Spec
==============================================================================
