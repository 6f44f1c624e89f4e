------------------------------- MODULE Channel -------------------------------
(***************************************************************************)
(* scorpio_utils::threading::Channel<T, Size>, Size > 0                    *)
(* (threading/channel.hpp): a ring buffer between any number of sending    *)
(* and receiving threads.  Two Signals count the free places and the       *)
(* available items; who has taken one gets a ticket from _tail or _head,   *)
(* waits by spinning until the ticket's slot is his, and uses it without   *)
(* a lock.                                                                 *)
(*                                                                         *)
(* An item is named by its ticket, the position in which the channel       *)
(* accepted it: the contents of the items do not matter here.  Every       *)
(* access to a shared word is a step of its own.  Memory is sequentially   *)
(* consistent, which the relaxed accesses to `seq' give on x86-64 only.    *)
(***************************************************************************)
EXTENDS Integers, Sequences, FiniteSets

CONSTANTS Senders, Receivers, Size, Margin, Nothing,
          MaxItems   \* bound: items sent in a behaviour

ASSUME ChannelAssumption ==
  /\ IsFiniteSet(Senders) /\ IsFiniteSet(Receivers)
  /\ Senders \cap Receivers = {}
  /\ Size \in Nat \ {0} /\ MaxItems \in Nat
  /\ Margin \in Nat /\ Margin > Size  \* close() stores -1e9: no buffer is that large
  /\ Nothing \notin Nat

VARIABLES
  sendFutex, sendWaiter, sendWakes,           \* _send_waiter
  receiveFutex, receiveWaiter, receiveWakes,  \* _receive_waiter
  tail, head,  \* _tail, _head
  buffer,      \* _buffer: slot |-> [seq, ready, item]
  pc,          \* where each thread is
  ticket,      \* the ticket it holds, while it uses it
  got          \* receiver |-> the item receive() returned last

signals == <<sendFutex, sendWaiter, sendWakes, receiveFutex, receiveWaiter, receiveWakes>>
vars == <<signals, tail, head, buffer, pc, ticket, got>>

Threads == Senders \cup Receivers

SendWaiter == INSTANCE Signal WITH
  Threads <- Senders, MaxCount <- Size, MaxWakes <- MaxItems,
  futex <- sendFutex, waiter <- sendWaiter, wakes <- sendWakes
ReceiveWaiter == INSTANCE Signal WITH
  Threads <- Receivers, MaxCount <- Size, MaxWakes <- MaxItems,
  futex <- receiveFutex, waiter <- receiveWaiter, wakes <- receiveWakes

Step(t, from, to) == pc[t] = from /\ pc' = [pc EXCEPT ![t] = to]
Idx(n) == n % Size

-----------------------------------------------------------------------------
(* send().                                                                 *)

\* send<true>() blocks, send<false>() takes a place if there is one
BeginSend(s) ==
  /\ tail + Cardinality({u \in Senders : pc[u] \in {"wait", "ticket"}}) < MaxItems
  /\ \/ Step(s, "idle", "wait") /\ SendWaiter!Enter(s)
     \/ Step(s, "idle", "ticket") /\ SendWaiter!TryTake
  /\ UNCHANGED <<receiveFutex, receiveWaiter, receiveWakes, tail, head, buffer,
                 ticket, got>>

WaitToSend(s) ==
  /\ \/ Step(s, "wait", "ticket") /\ SendWaiter!Take(s)
     \/ Step(s, "wait", "idle") /\ SendWaiter!Throw(s)
     \/ UNCHANGED pc /\ SendWaiter!Miss(s)
     \/ UNCHANGED pc /\ SendWaiter!Park(s)
  /\ UNCHANGED <<receiveFutex, receiveWaiter, receiveWakes, tail, head, buffer,
                 ticket, got>>

TakeTail(s) ==
  /\ Step(s, "ticket", "spin")
  /\ ticket' = [ticket EXCEPT ![s] = tail]
  /\ tail' = tail + 1
  /\ UNCHANGED <<signals, head, buffer, got>>

\* Seeded bug: the sender does not wait for the receiver that still uses the slot.
PutAtOnce(s) ==
  /\ Step(s, "spin", "publish")
  /\ buffer' = [buffer EXCEPT ![Idx(ticket[s])].item = ticket[s]]
  /\ UNCHANGED <<signals, tail, head, ticket, got>>

\* the spin on seq has ended: the item is constructed in the slot
Put(s) ==
  /\ buffer[Idx(ticket[s])].seq = ticket[s]
  /\ Step(s, "spin", "publish")
  /\ buffer' = [buffer EXCEPT ![Idx(ticket[s])].item = ticket[s]]
  /\ UNCHANGED <<signals, tail, head, ticket, got>>

Publish(s) ==
  /\ Step(s, "publish", "notify")
  /\ buffer' = [buffer EXCEPT ![Idx(ticket[s])].ready = TRUE]
  /\ ticket' = [ticket EXCEPT ![s] = 0]
  /\ UNCHANGED <<signals, tail, head, got>>

\* Seeded bug: the item is counted but nobody is woken.
NotifyReceiversSilently(s) ==
  /\ Step(s, "notify", "idle")
  /\ receiveFutex' = receiveFutex + 1
  /\ UNCHANGED <<sendFutex, sendWaiter, sendWakes, receiveWaiter, receiveWakes,
                 tail, head, buffer, ticket, got>>

NotifyReceivers(s) ==
  /\ Step(s, "notify", "idle")
  /\ ReceiveWaiter!Notify(1)
  /\ UNCHANGED <<sendFutex, sendWaiter, sendWakes, tail, head, buffer, ticket, got>>

-----------------------------------------------------------------------------
(* receive() and get_value().                                              *)

BeginReceive(r) ==
  /\ \/ Step(r, "idle", "wait") /\ ReceiveWaiter!Enter(r)
     \/ Step(r, "idle", "ticket") /\ ReceiveWaiter!TryTake
  /\ UNCHANGED <<sendFutex, sendWaiter, sendWakes, tail, head, buffer, ticket, got>>

WaitToReceive(r) ==
  /\ \/ Step(r, "wait", "ticket") /\ ReceiveWaiter!Take(r)
     \/ Step(r, "wait", "idle") /\ ReceiveWaiter!Throw(r)
     \/ UNCHANGED pc /\ ReceiveWaiter!Miss(r)
     \/ UNCHANGED pc /\ ReceiveWaiter!Park(r)
  /\ UNCHANGED <<sendFutex, sendWaiter, sendWakes, tail, head, buffer, ticket, got>>

TakeHead(r) ==
  /\ Step(r, "ticket", "spin")
  /\ ticket' = [ticket EXCEPT ![r] = head]
  /\ head' = head + 1
  /\ UNCHANGED <<signals, tail, buffer, got>>

AwaitSlot(r) ==
  /\ buffer[Idx(ticket[r])].seq = ticket[r]
  /\ Step(r, "spin", "await")
  /\ UNCHANGED <<signals, tail, head, buffer, ticket, got>>

\* Seeded bug: the receiver does not wait until the item is there.
GetAtOnce(r) ==
  /\ Step(r, "await", "unready")
  /\ got' = [got EXCEPT ![r] = buffer[Idx(ticket[r])].item]
  /\ UNCHANGED <<signals, tail, head, buffer, ticket>>

\* the spin on ready has ended: the item is moved out
Get(r) ==
  /\ buffer[Idx(ticket[r])].ready
  /\ Step(r, "await", "unready")
  /\ got' = [got EXCEPT ![r] = buffer[Idx(ticket[r])].item]
  /\ UNCHANGED <<signals, tail, head, buffer, ticket>>

\* the destructor has run and the slot holds nothing
Unready(r) ==
  /\ Step(r, "unready", "release")
  /\ buffer' = [buffer EXCEPT ![Idx(ticket[r])].ready = FALSE,
                              ![Idx(ticket[r])].item = Nothing]
  /\ UNCHANGED <<signals, tail, head, ticket, got>>

Release(r) ==
  /\ Step(r, "release", "notify")
  /\ buffer' = [buffer EXCEPT ![Idx(ticket[r])].seq = @ + Size]
  /\ ticket' = [ticket EXCEPT ![r] = 0]
  /\ UNCHANGED <<signals, tail, head, got>>

NotifySenders(r) ==
  /\ Step(r, "notify", "idle")
  /\ SendWaiter!Notify(1)
  /\ UNCHANGED <<receiveFutex, receiveWaiter, receiveWakes, tail, head, buffer,
                 ticket, got>>

-----------------------------------------------------------------------------
(* Both sides: the kernel's wake-ups, and close().                         *)

WakeSender ==
  /\ SendWaiter!Wake
  /\ UNCHANGED <<receiveFutex, receiveWaiter, receiveWakes, tail, head, buffer,
                 pc, ticket, got>>

WakeReceiver ==
  /\ ReceiveWaiter!Wake
  /\ UNCHANGED <<sendFutex, sendWaiter, sendWakes, tail, head, buffer, pc, ticket, got>>

CloseSend ==
  /\ sendFutex >= 0
  /\ SendWaiter!Close
  /\ UNCHANGED <<receiveFutex, receiveWaiter, receiveWakes, tail, head, buffer,
                 pc, ticket, got>>

CloseReceive ==
  /\ sendFutex < 0 /\ receiveFutex >= 0
  /\ ReceiveWaiter!Close
  /\ UNCHANGED <<sendFutex, sendWaiter, sendWakes, tail, head, buffer, pc, ticket, got>>

-----------------------------------------------------------------------------
Init == /\ SendWaiter!InitWith(Size)
        /\ ReceiveWaiter!InitWith(0)
        /\ tail = 0 /\ head = 0
        /\ buffer = [i \in 0 .. Size - 1 |-> [seq |-> i, ready |-> FALSE, item |-> Nothing]]
        /\ pc = [t \in Threads |-> "idle"]
        /\ ticket = [t \in Threads |-> 0]
        /\ got = [r \in Receivers |-> Nothing]

SendStep(s) == WaitToSend(s) \/ TakeTail(s) \/ Put(s) \/ Publish(s) \/ NotifyReceivers(s)
ReceiveStep(r) == \/ WaitToReceive(r) \/ TakeHead(r) \/ AwaitSlot(r) \/ Get(r)
                  \/ Unready(r) \/ Release(r) \/ NotifySenders(r)

Next == \/ \E s \in Senders : BeginSend(s) \/ SendStep(s)
        \/ \E r \in Receivers : BeginReceive(r) \/ ReceiveStep(r)
        \/ WakeSender \/ WakeReceiver \/ CloseSend \/ CloseReceive

Spec == Init /\ [][Next]_vars

\* A thread inside send() runs, the receivers are loops, like the thread pool's
\* workers and the threads of the socket; and wake-ups and a close() that have
\* begun come to their end.  Nobody has to send or to close.
Fairness == /\ \A s \in Senders : WF_vars(SendStep(s))
            /\ \A r \in Receivers : WF_vars(BeginReceive(r) \/ ReceiveStep(r))
            /\ WF_vars(WakeSender \/ WakeReceiver \/ CloseReceive)

FairSpec == Spec /\ Fairness

-----------------------------------------------------------------------------
(* Properties.                                                             *)

\* While the channel is open no place is lost and none is made up: each is free,
\* in the hands of a sender, holds an available item, or is in the hands of
\* a receiver.
PlacesAddUp ==
  sendFutex >= 0 =>
    Size = sendFutex + receiveFutex
           + Cardinality({s \in Senders : pc[s] \notin {"idle", "wait"}})
           + Cardinality({r \in Receivers : pc[r] \notin {"idle", "wait"}})

\* No data race on an item: who constructs, moves or destroys one is alone in
\* its slot, although nothing but the tickets and `seq' keeps the others out.
SlotIsExclusive ==
  LET inside == {s \in Senders : pc[s] = "publish"}
                  \cup {r \in Receivers : pc[r] \in {"unready", "release"}}
  IN \A t, u \in inside : t # u => Idx(ticket[t]) # Idx(ticket[u])

\* Every slot has one user at a time, and every place of the ring somebody who will
\* use it or give it back.
SlotsAreSafe == PlacesAddUp /\ SlotIsExclusive

\* The channel is a FIFO queue: a receiver returns the item that was reserved for
\* it, in the order the channel accepted them, no item twice and none lost.
Queue == INSTANCE BoundedQueue WITH
  Items <- 0 .. MaxItems,
  queue <- [k \in 1 .. tail - head |-> head + k - 1],
  reserved <- [r \in Receivers |->
                 IF pc[r] \in {"spin", "await"} THEN ticket[r] ELSE Nothing]
ImplementsQueue == Queue!Spec

\* Every item sent is received in the end, unless the channel is closed, with no
\* thread stuck in a spin on another.
Received(k) ==
  head > k /\ \A r \in Receivers : pc[r] \in {"spin", "await"} => ticket[r] # k

EverythingIsReceived == <>[](sendFutex < 0 \/ \A k \in 0 .. tail - 1 : Received(k))

\* close() "will unblock any threads waiting on send or receive operations", and
\* those past the wait finish too: no thread stays in a call on a closed channel.
CloseUnblocks == \A t \in Threads : []<>(sendFutex >= 0 \/ pc[t] = "idle")
==============================================================================
