----------------------------- MODULE EagerSelect -----------------------------
(***************************************************************************)
(* scorpio_utils::threading::eager_select() and EagerSelectTimeout         *)
(* (threading/eager_select.hpp) at work in the processing thread of a      *)
(* ScorpioUdpConnection (network/scorpio_udp.cpp): it polls, in this       *)
(* order, the packets of the connection (a Channel<T, 0> the socket's      *)
(* thread fills), the streams the application has created (a bounded       *)
(* Channel) and the timeout of the heartbeat, and sleeps, longer and       *)
(* longer, when nothing is ready.  The application may close the           *)
(* connection meanwhile.                                                   *)
(*                                                                         *)
(* Time is counted in ticks.  It passes while the thread sleeps and while  *)
(* it handles what it has selected, which takes Handling ticks at most;    *)
(* polling takes no time.  The time the timeout sees is that of a          *)
(* LazyTimeProvider, which a thread of its own brings up to date every     *)
(* Offset ticks.                                                           *)
(***************************************************************************)
EXTENDS Integers, Sequences, FiniteSets

CONSTANTS Streams,    \* the streams the application may create
          Sleep, MaxSleep, Period, Offset, Handling,
          MaxPackets  \* bound: packets waiting

ASSUME EagerSelectAssumption ==
  /\ IsFiniteSet(Streams)
  /\ {Sleep, Period} \subseteq Nat \ {0} /\ MaxSleep \in Nat /\ MaxSleep >= Sleep
  /\ {Offset, Handling, MaxPackets} \subseteq Nat

VARIABLES
  at,         \* where the processing thread is
  sleep,      \* eager_select()'s next sleep
  left,       \* ticks left of the sleep it is in, or of what it is handling
  stop,       \* _stop
  sinceBeat,  \* ticks since the timeout was started
  elapsed,    \* the same as the timeout sees it: get_time() - _start_time
  lag,        \* how far get_time() is behind
  items, closed, futex, \* _incoming_packets
  pushed,     \* the socket's thread has still to notify
  awaiting,   \* _awaiting_streams: the streams that can be received
  shut,       \* _awaiting_streams is closed
  stream,     \* stream |-> what became of it
  closer      \* where close() is

clock == <<sinceBeat, elapsed, lag>>
packets == <<items, closed, futex, pushed>>
streams == <<awaiting, shut, stream>>
vars == <<at, sleep, left, stop, clock, packets, streams, closer>>

Incoming == INSTANCE UnboundedChannel

Go(from, to) == at = from /\ at' = to
CloseStep(from, to) == closer = from /\ closer' = to

-----------------------------------------------------------------------------
(* eager_select(): _incoming_packets, _awaiting_streams, timeout.          *)

\* the loop of the thread; each call starts again at Sleep
Select ==
  /\ UNCHANGED <<left, stop, clock, packets, streams, closer>>
  /\ sleep' = Sleep
  /\ IF stop THEN Go("loop", "done") ELSE Go("loop", "packets")

PollPackets ==
  /\ UNCHANGED <<sleep, left, stop, clock, pushed, streams, closer>>
  /\ \/ Go("packets", "get") /\ Incoming!TryTake
     \/ Go("packets", "streams") /\ Incoming!NotReady
     \/ Go("packets", "done") /\ Incoming!TakeThrows

\* process_packets() takes up to Handling ticks
GetPacket ==
  /\ UNCHANGED <<sleep, stop, clock, pushed, streams, closer>>
  /\ Go("get", "handle") /\ Incoming!GetValue
  /\ left' \in 0 .. Handling

\* Seeded bug: what is not ready ends the poll.
PollStreamsNever ==
  /\ UNCHANGED <<sleep, left, stop, clock, packets, streams, closer>>
  /\ Go("streams", "timeout")

\* _awaiting_streams is ready when an item can be taken, and then gives it away
TakeStream == ~ shut /\ awaiting # <<>> /\ awaiting' = Tail(awaiting)

\* pull_awaiting_streams()
PollStreams ==
  /\ UNCHANGED <<sleep, stop, clock, packets, shut, closer>>
  /\ \/ /\ Go("streams", "handle") /\ TakeStream
        /\ stream' = [stream EXCEPT ![Head(awaiting)] = "active"]
        /\ left' \in 0 .. Handling
     \/ Go("streams", "timeout") /\ ~ shut /\ awaiting = <<>> /\ UNCHANGED <<left, awaiting, stream>>
     \/ Go("streams", "done") /\ shut /\ UNCHANGED <<left, awaiting, stream>>

IsElapsed == elapsed >= Period

\* Seeded bug: the sleep doubles without an end.
PollTimeoutUncapped ==
  /\ UNCHANGED <<stop, clock, packets, streams, closer>>
  /\ \/ Go("timeout", "check") /\ IsElapsed /\ UNCHANGED <<sleep, left>>
     \/ Go("timeout", "sleep") /\ ~ IsElapsed /\ left' = sleep /\ sleep' = sleep * 2

PollTimeout ==
  /\ UNCHANGED <<stop, clock, packets, streams, closer>>
  /\ \/ Go("timeout", "check") /\ IsElapsed /\ UNCHANGED <<sleep, left>>
     \/ Go("timeout", "sleep") /\ ~ IsElapsed
        /\ left' = sleep /\ sleep' = IF 2 * sleep > MaxSleep THEN MaxSleep ELSE 2 * sleep

WakeUp ==
  /\ UNCHANGED <<sleep, left, stop, clock, packets, streams, closer>>
  /\ left = 0 /\ (Go("sleep", "packets") \/ Go("handle", "check"))

\* after every selection: send_heartbeat() if it is time, then reset() and start()
Check ==
  /\ UNCHANGED <<sleep, left, stop, lag, packets, streams, closer>>
  /\ Go("check", "loop")
  /\ IF IsElapsed THEN sinceBeat' = 0 /\ elapsed' = 0 ELSE UNCHANGED <<sinceBeat, elapsed>>

-----------------------------------------------------------------------------
(* Time.                                                                   *)

Tick ==
  /\ UNCHANGED <<at, sleep, stop, elapsed, packets, streams, closer>>
  /\ at \in {"sleep", "handle"} /\ left > 0 /\ lag < Offset
  /\ left' = left - 1 /\ sinceBeat' = sinceBeat + 1 /\ lag' = lag + 1

\* the thread of the LazyTimeProvider
UpdateTime ==
  /\ UNCHANGED <<at, sleep, left, stop, sinceBeat, packets, streams, closer>>
  /\ lag = Offset /\ lag' = 0 /\ elapsed' = elapsed + lag

-----------------------------------------------------------------------------
(* The other threads.                                                      *)

\* Seeded bug: the item is counted before it is there.
PacketArrivesCounted ==
  /\ UNCHANGED <<at, sleep, left, stop, clock, streams, closer>>
  /\ items < MaxPackets /\ ~ pushed /\ ~ closed
  /\ Incoming!Notify /\ pushed' = TRUE

\* the socket's processing thread hands a packet to the connection
PacketArrives ==
  /\ UNCHANGED <<at, sleep, left, stop, clock, streams, closer>>
  /\ items < MaxPackets /\ ~ pushed
  /\ Incoming!Push /\ pushed' = TRUE

NotifyOfPacket ==
  /\ UNCHANGED <<at, sleep, left, stop, clock, streams, closer>>
  /\ pushed /\ pushed' = FALSE /\ Incoming!Notify

\* create_stream(); "late" is a stream handed over when close() has begun
CreateStream(s) ==
  /\ UNCHANGED <<at, sleep, left, stop, clock, packets, shut, closer>>
  /\ stream[s] = "none"
  /\ IF shut THEN stream' = [stream EXCEPT ![s] = "refused"] /\ UNCHANGED awaiting
             ELSE /\ stream' = [stream EXCEPT ![s] = IF stop THEN "late" ELSE "new"]
                  /\ awaiting' = Append(awaiting, s)

\* close(): the thread is told, then the streams that wait are failed ...
Close ==
  /\ UNCHANGED <<at, sleep, left, clock, packets, streams>>
  /\ CloseStep("idle", "drain") /\ stop' = TRUE

Drain ==
  /\ UNCHANGED <<at, sleep, left, stop, clock, packets, shut>>
  /\ \/ CloseStep("drain", "drain") /\ awaiting # <<>> /\ awaiting' = Tail(awaiting)
        /\ stream' = [stream EXCEPT ![Head(awaiting)] = "failed"]
     \/ CloseStep("drain", "streams") /\ awaiting = <<>> /\ UNCHANGED <<awaiting, stream>>

\* ... the channels are closed ...
ShutChannels ==
  /\ UNCHANGED <<at, sleep, left, stop, clock, pushed, awaiting, stream>>
  /\ \/ CloseStep("streams", "packets") /\ shut' = TRUE /\ UNCHANGED <<items, closed, futex>>
     \/ CloseStep("packets", "signal") /\ Incoming!Shut /\ UNCHANGED shut
     \/ CloseStep("signal", "join") /\ Incoming!CloseSignal /\ UNCHANGED shut

\* ... and, when the thread has ended, the active streams are closed
Join ==
  /\ UNCHANGED <<at, sleep, left, stop, clock, packets, awaiting, shut>>
  /\ CloseStep("join", "closed") /\ at = "done"
  /\ stream' = [s \in Streams |-> IF stream[s] = "active" THEN "ended" ELSE stream[s]]

-----------------------------------------------------------------------------
Init ==
  /\ at = "loop" /\ sleep = Sleep /\ left = 0 /\ stop = FALSE
  /\ sinceBeat = 0 /\ elapsed = 0 /\ lag \in 0 .. Offset
  /\ Incoming!Init /\ pushed = FALSE
  /\ awaiting = <<>> /\ shut = FALSE
  /\ stream = [s \in Streams |-> "none"]
  /\ closer = "idle"

ThreadStep == Select \/ PollPackets \/ GetPacket \/ PollStreams \/ PollTimeout \/ WakeUp \/ Check
CloserStep == Drain \/ ShutChannels \/ Join

Next == \/ ThreadStep \/ Tick \/ UpdateTime
        \/ PacketArrives \/ NotifyOfPacket
        \/ \E s \in Streams : CreateStream(s)
        \/ Close \/ CloserStep

Spec == Init /\ [][Next]_vars

\* the threads run and time passes; nobody has to send, to create or to close
FairSpec == /\ Spec
            /\ WF_vars(ThreadStep) /\ WF_vars(Tick \/ UpdateTime)
            /\ WF_vars(NotifyOfPacket) /\ WF_vars(CloserStep)

-----------------------------------------------------------------------------
(* What must hold.                                                         *)

\* However many packets come in, and however long the sleeps have grown, a heartbeat is sent
\* before a period, an update of the time, a sleep and the handling of one packet have passed
\* since the one before (scorpio_udp.cpp:1636-1651, eager_select.hpp:203-207).
HeartbeatIsInTime == at # "done" => sinceBeat < Period + Offset + MaxSleep + Handling

\* A reserved item is in the deque: get_value(), which does not look, takes the front of
\* one that is not empty (channel.hpp:391-408, 412-422).
ReservedIsThere ==
  items >= (IF futex > 0 THEN futex ELSE 0) + (IF at = "get" THEN 1 ELSE 0)

\* When close() has returned no stream that was handed over before it is still NEW, with
\* nobody left who would create or fail it, though the processing thread goes on selecting
\* streams while close() takes them away (scorpio_udp.cpp:1784-1796).
StreamsAreDealtWith == closer = "closed" => \A s \in Streams : stream[s] # "new"

\* A stream that waits is selected in the end, unless the connection is closed or packets,
\* which are polled first, keep coming (eager_select.hpp:151-166).
StreamsArePulled == <>[](stop \/ \A s \in Streams : stream[s] # "new") \/ []<>(at = "get")

\* No stream waits for ever to be pulled, on a connection in use or on a closed one.
EveryoneIsServed == []StreamsAreDealtWith /\ StreamsArePulled
=============================================================================
