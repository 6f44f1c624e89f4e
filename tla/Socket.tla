-------------------------------- MODULE Socket --------------------------------
(***************************************************************************)
(* The threads of a ScorpioUdp: how they run, panic and are stopped, and   *)
(* how the object is destroyed, by whichever thread drops the last         *)
(* shared_ptr to it.                                                       *)
(*                                                                         *)
(* The application and every connection hold the object, the processing    *)
(* thread holds it while it handles a packet.  Queues are counters: what a *)
(* packet says is the business of Connection and the stream modules.       *)
(***************************************************************************)
EXTENDS Naturals, Sequences, SequencesExt

CONSTANTS
  Room,     \* items of _receiver_channel and of the two sender channels, 16K in the code
  Failures  \* bound: send errors of the operating system

SocketAssumption == Room \in Nat \ {0} /\ Failures \in Nat

Receiver == "receiver"
Sender == "sender"
Processor == "processor"
App == "app"   \* the other owners: application threads and connections
Threads == {Receiver, Sender, Processor}
Procs == Threads \cup {App}

VARIABLES
  pc,          \* where each process is
  held,        \* the owners that hold a shared_ptr
  stop,        \* _stop
  open,        \* the descriptor of _socket
  closed,      \* the channels
  threads,     \* _threads
  threadsLock, \* who has _threads_mutex, or "free"
  panicLock,   \* who has _panic_mutex, or "free"
  panic,       \* _panic
  incoming,    \* length of _receiver_channel
  outgoing,    \* length of _control_sender_channel and _sender_channel
  failures,    \* send errors so far
  destroyed    \* the destructor has returned

vars == <<pc, held, stop, open, closed, threads, threadsLock, panicLock, panic,
          incoming, outgoing, failures, destroyed>>

At(p, here) == pc[p] = here
Go(p, there) == pc' = [pc EXCEPT ![p] = there]
Step(p, here, there) == At(p, here) /\ Go(p, there)

flags == <<stop, open, panic>>
locks == <<threads, threadsLock, panicLock>>
queues == <<incoming, outgoing, closed>>
object == <<held, destroyed>>

\* create(), which lets the processing thread look for a shared_ptr of the object ...
Created ==
  /\ held = {App} /\ closed = FALSE /\ destroyed = FALSE
  /\ threadsLock = "free" /\ panicLock = "free" /\ panic = FALSE
  /\ incoming = 0 /\ outgoing = 0 /\ failures = 0

\* ... and a start() that opened the socket
Started ==
  /\ stop = FALSE /\ open = TRUE
  /\ threads = <<Receiver, Sender, Processor>>
  /\ pc = [p \in Procs |-> "loop"]

Init == Created /\ Started

-----------------------------------------------------------------------------
(* receiver_thread                                                         *)

ReceiverLoop ==
  /\ At(Receiver, "loop")
  /\ Go(Receiver, IF stop THEN "done" ELSE "receive")
  /\ UNCHANGED <<flags, locks, queues, object, failures>>

\* UdpSocket::receive loads the descriptor
ReceiverReceives ==
  /\ At(Receiver, "receive")
  /\ Go(Receiver, IF open THEN "recvfrom" ELSE "panic")
  /\ UNCHANGED <<flags, locks, queues, object, failures>>

\* A packet comes, or an empty one after a transient error
ReceiverReceived ==
  /\ At(Receiver, "recvfrom") /\ open
  /\ Go(Receiver, "push") \/ Go(Receiver, "loop")
  /\ UNCHANGED <<flags, locks, queues, object, failures>>

\* shutdown() wakes the call with no bytes; begun after close() it fails
ReceiverShutDown ==
  /\ At(Receiver, "recvfrom") /\ ~open
  /\ Go(Receiver, "loop") \/ Go(Receiver, "panic")
  /\ UNCHANGED <<flags, locks, queues, object, failures>>

\* _receiver_channel.send<true>
ReceiverPushes ==
  /\ At(Receiver, "push")
  /\ \/ closed /\ Go(Receiver, "done") /\ UNCHANGED incoming
     \/ ~closed /\ incoming < Room /\ Go(Receiver, "loop") /\ incoming' = incoming + 1
  /\ UNCHANGED <<flags, locks, outgoing, closed, object, failures>>

-----------------------------------------------------------------------------
(* sender_thread: control before data, in outgoing alike                   *)

SenderLoop ==
  /\ At(Sender, "loop")
  /\ Go(Sender, IF stop THEN "done" ELSE "take")
  /\ UNCHANGED <<flags, locks, queues, object, failures>>

\* receive does not wait, and throws when the channel is closed
SenderTakes ==
  /\ At(Sender, "take")
  /\ \/ closed /\ Go(Sender, "done") /\ UNCHANGED outgoing
     \/ ~closed /\ outgoing = 0 /\ Go(Sender, "loop") /\ UNCHANGED outgoing
     \/ ~closed /\ outgoing > 0 /\ Go(Sender, "send") /\ outgoing' = outgoing - 1
  /\ UNCHANGED <<flags, locks, incoming, closed, object, failures>>

SenderSends ==
  /\ At(Sender, "send") /\ open
  /\ Go(Sender, "loop")
  /\ UNCHANGED <<flags, locks, queues, object, failures>>

SenderFails ==
  /\ At(Sender, "send")
  /\ \/ ~open /\ UNCHANGED failures
     \/ open /\ failures < Failures /\ failures' = failures + 1
  /\ Go(Sender, "panic")
  /\ UNCHANGED <<flags, locks, queues, object>>

-----------------------------------------------------------------------------
(* processing_thread                                                       *)

\* The weak_ptr locks while somebody holds the object.
ProcessorLoop ==
  /\ At(Processor, "loop")
  /\ \/ held = {} /\ Go(Processor, "done") /\ UNCHANGED held
     \/ /\ held # {} /\ held' = held \cup {Processor}
        /\ Go(Processor, IF stop THEN "leave" ELSE "select")
  /\ UNCHANGED <<flags, locks, queues, destroyed, failures>>

\* eager_select: a packet, that draws an answer or not, an awaiting connection
\* that is dialed, or nothing for 50 ms
ProcessorSelects ==
  /\ At(Processor, "select")
  /\ \/ incoming > 0 /\ incoming' = incoming - 1 /\ (Go(Processor, "send") \/ Go(Processor, "release"))
     \/ UNCHANGED incoming /\ (Go(Processor, "send") \/ Go(Processor, "release"))
  /\ UNCHANGED <<flags, locks, outgoing, closed, object, failures>>

-----------------------------------------------------------------------------
(* send and send_or_panic; the application's calls just fail               *)

BeginsSend(p) ==
  /\ At(p, "send") /\ p \in {App, Processor}
  /\ Go(p, IF open THEN "enqueue" ELSE IF p = App THEN "loop" ELSE "panic")
  /\ UNCHANGED <<flags, locks, queues, object, failures>>

\* send<true>
Enqueues(p) ==
  /\ At(p, "enqueue") /\ outgoing < Room
  /\ outgoing' = outgoing + 1
  /\ Go(p, IF p = App THEN "loop" ELSE "release")
  /\ UNCHANGED <<flags, locks, incoming, closed, object, failures>>

AppSends ==
  /\ Step(App, "loop", "send")
  /\ UNCHANGED <<flags, locks, queues, object, failures>>

-----------------------------------------------------------------------------
(* panic: only the first one stops the socket                              *)

Panics(p) ==
  /\ At(p, "panic")
  /\ \/ panicLock # "free" /\ Go(p, "delayed") /\ UNCHANGED <<panic, panicLock>>
     \/ panicLock = "free" /\ panic /\ Go(p, "throw") /\ UNCHANGED <<panic, panicLock>>
     \/ panicLock = "free" /\ ~panic /\ Go(p, "stop") /\ panic' = TRUE /\ panicLock' = p
  /\ UNCHANGED <<stop, open, threads, threadsLock, queues, object, failures>>

\* "Lock mutex to delay returning from panic"
Delayed(p) ==
  /\ At(p, "delayed") /\ panicLock = "free"
  /\ Go(p, "throw")
  /\ UNCHANGED <<flags, locks, queues, object, failures>>

\* PanicException leaves the thread's loop.
Throws(p) ==
  /\ At(p, "throw")
  /\ Go(p, IF p = Processor THEN "leave" ELSE "done")
  /\ panicLock' = IF panicLock = p THEN "free" ELSE panicLock
  /\ UNCHANGED <<flags, threads, threadsLock, queues, object, failures>>

-----------------------------------------------------------------------------
(* stop, called by panic and by the destructor                             *)

Destroying(p) == panicLock # p
AfterStop(p) == IF Destroying(p) THEN "lock" ELSE "throw"

\* _threads_mutex is only tried, then _stop set if it was not
Stops(p) ==
  /\ At(p, "stop")
  /\ \/ /\ threadsLock # "free" \/ stop
        /\ Go(p, AfterStop(p)) /\ UNCHANGED <<stop, threadsLock>>
     \/ /\ threadsLock = "free" /\ ~stop
        /\ threadsLock' = p /\ stop' = TRUE /\ Go(p, "close")
  /\ UNCHANGED <<open, panic, threads, panicLock, queues, object, failures>>

\* _socket.close() and what it does to the calls that wait
Closes(p) ==
  /\ Step(p, "close", "join")
  /\ open' = FALSE
  /\ UNCHANGED <<stop, panic, locks, queues, object, failures>>

\* Seeded bug: the threads are taken from the list before they are joined.
JoinsBefore(p) == threads # <<>>

\* The last thread is joined, or detached when it is the one that stops.
Joinable(p) == threads # <<>> /\ (Last(threads) = p \/ At(Last(threads), "done"))

Joins(p) ==
  /\ At(p, "join") /\ Joinable(p)
  /\ threads' = Front(threads)
  /\ UNCHANGED <<pc, flags, threadsLock, panicLock, queues, object, failures>>

Joined(p) ==
  /\ At(p, "join") /\ threads = <<>>
  /\ Go(p, AfterStop(p)) /\ threadsLock' = "free"
  /\ UNCHANGED <<flags, threads, panicLock, queues, object, failures>>

-----------------------------------------------------------------------------
(* The last reference and the destructor                                   *)

Drops(p, here, there) ==
  /\ At(p, here)
  /\ held' = held \ {p}
  /\ Go(p, IF held = {p} THEN "destroy" ELSE there)
  /\ UNCHANGED <<flags, locks, queues, destroyed, failures>>

\* self.reset() at the end of a turn, and with the thread
Releases == Drops(Processor, "release", "loop") \/ Drops(Processor, "leave", "done")

AppDrops == Drops(App, "loop", "done")

\* Seeded bug: the destructor leaves the channels open.
ClosesNone(p) == UNCHANGED closed

\* The destructor closes the four channels before it stops the threads.
ClosesChannels(p) == closed' = TRUE

Destroys(p) ==
  /\ Step(p, "destroy", "stop")
  /\ ClosesChannels(p)
  /\ UNCHANGED <<flags, locks, incoming, outgoing, object, failures>>

\* and takes _threads_mutex before it asserts that the threads are gone.
Destroyed(p) ==
  /\ Step(p, "lock", "done") /\ threadsLock = "free"
  /\ destroyed' = TRUE
  /\ UNCHANGED <<flags, locks, queues, held, failures>>

-----------------------------------------------------------------------------
Proceeds(p) ==
  \/ Stops(p) \/ Closes(p) \/ Joins(p) \/ Joined(p) \/ Destroys(p) \/ Destroyed(p)

Receives ==
  \/ ReceiverLoop \/ ReceiverReceives \/ ReceiverShutDown \/ ReceiverPushes
  \/ Panics(Receiver) \/ Delayed(Receiver) \/ Throws(Receiver) \/ Proceeds(Receiver)

Sends ==
  \/ SenderLoop \/ SenderTakes \/ SenderSends \/ (~open /\ SenderFails)
  \/ Panics(Sender) \/ Delayed(Sender) \/ Throws(Sender) \/ Proceeds(Sender)

Processes ==
  \/ ProcessorLoop \/ ProcessorSelects \/ BeginsSend(Processor) \/ Enqueues(Processor) \/ Releases
  \/ Panics(Processor) \/ Delayed(Processor) \/ Throws(Processor) \/ Proceeds(Processor)

\* Nothing obliges the network to send, sends to fail or the application to act,
\* except to end a destructor it is in.
Next ==
  \/ Receives \/ Sends \/ Processes \/ Proceeds(App)
  \/ ReceiverReceived \/ (open /\ SenderFails)
  \/ AppSends \/ BeginsSend(App) \/ Enqueues(App) \/ AppDrops

Spec == Init /\ [][Next]_vars

FairSpec ==
  Spec /\ WF_vars(Receives) /\ WF_vars(Sends) /\ WF_vars(Processes) /\ WF_vars(Proceeds(App))

-----------------------------------------------------------------------------
(* Correctness.                                                            *)

\* "ScorpioUdp threads not stopped": when the destructor returns, whichever thread
\* ran it and whatever failed, every thread was joined or detached, and unless a
\* send had failed, none of them will touch the object again.
ThreadsAreGone ==
  destroyed => /\ threads = <<>>
               /\ failures = 0 => \A t \in Threads \ {Processor} : At(t, "done")

\* "right now it is used in destructor which stops channels first so, it works":
\* an object that nobody holds is destroyed, unless a send failed, and its threads are gone
\* then.
DestructionEnds == []ThreadsAreGone /\ [](App \notin held => <>(destroyed \/ failures > 0))
=============================================================================
