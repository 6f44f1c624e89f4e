---------------------------- MODULE WaitingProofs ----------------------------
(***************************************************************************)
(* What threads wait for is there when they come to it.                    *)
(*                                                                         *)
(* The processing thread of a connection is in time with its heartbeats,   *)
(* never takes an item that is not there, and leaves no stream behind when *)
(* the connection is closed: for any streams, any sleeps, any period, any  *)
(* lag of the clock and any number of packets.                             *)
(*                                                                         *)
(* A group of waitables counts exactly what it is owed, and nobody uses    *)
(* one that has been destroyed: for any futures, groups, clients and any   *)
(* order in which tasks end, groups are filled and shared_ptr's are        *)
(* dropped.                                                                *)
(***************************************************************************)
EXTENDS EagerSelect, WaitGroup, FiniteSetTheorems, SequenceTheorems, TLAPS

-----------------------------------------------------------------------------
(* The processing thread.                                                  *)


Places == {"loop", "packets", "get", "streams", "timeout", "sleep", "handle", "check", "done"}
Stages == {"idle", "drain", "streams", "packets", "signal", "join", "closed"}
Fates == {"none", "new", "late", "refused", "active", "failed", "ended"}

ControlOK == /\ at \in Places /\ closer \in Stages
             /\ stop \in BOOLEAN /\ closed \in BOOLEAN /\ pushed \in BOOLEAN /\ shut \in BOOLEAN
TimesOK == /\ sleep \in Nat /\ left \in Nat
           /\ sinceBeat \in Nat /\ elapsed \in Nat /\ lag \in Nat
StreamsOK == awaiting \in Seq(Streams) /\ stream \in [Streams -> Fates]
TypeOK == ControlOK /\ TimesOK /\ StreamsOK /\ items \in Nat /\ futex \in Int

\* What the timeout sees is behind by the lag at most, and the time that has passed when the
\* thread comes back to a place is limited by what it may have waited for since it last looked.
ClockIsBehind ==
  /\ lag <= Offset /\ sinceBeat <= elapsed + lag
  /\ sleep <= MaxSleep

Latest == IF at = "loop" THEN 0
          ELSE IF at \in {"handle", "check"} THEN MaxSleep + Handling ELSE MaxSleep

InTime ==
  at # "done" =>
    sinceBeat + (IF at \in {"sleep", "handle"} THEN left ELSE 0) < Period + Offset + Latest

\* The Signal counts the items nobody has reserved and the sender has notified of, until it
\* is closed, which is after the deque is.
Notifying == IF pushed THEN 1 ELSE 0
Reserved == IF at = "get" THEN 1 ELSE 0
ItemsAreCounted ==
  /\ closer \in {"signal", "join", "closed"} => closed
  /\ IF futex >= 0 THEN items = futex + Notifying + Reserved
     ELSE closed /\ futex + Notifying <= Incoming!CLOSED + 1 /\ items >= Notifying + Reserved

\* A stream that is NEW waits for the thread, and none does once close() has drained them.
NewOnesWait ==
  /\ stop <=> closer # "idle"
  /\ \A s \in Streams : stream[s] = "new" => \E k \in 1 .. Len(awaiting) : awaiting[k] = s
  /\ closer \notin {"idle", "drain"} => \A s \in Streams : stream[s] # "new"

IInv == TypeOK /\ ClockIsBehind /\ InTime /\ ItemsAreCounted /\ NewOnesWait

Numbers ==
  /\ Period \in Nat /\ Offset \in Nat /\ MaxSleep \in Nat
  /\ Handling \in Nat /\ MaxPackets \in Nat /\ Sleep \in Nat
  /\ Period > 0 /\ Sleep <= MaxSleep

LEMMA ConstantsAreNumbers == Numbers
BY EagerSelectAssumption DEF Numbers

LEMMA SumBelow ==
  ASSUME NEW since \in Nat, NEW wait \in Nat, NEW limit \in Nat, NEW p \in Nat,
         NEW o \in Nat, NEW m \in Nat, since < p + o + m, wait <= limit
  PROVE  since + wait < p + o + (m + limit)
OBVIOUS

LEMMA InitIInv == Init => IInv
<1> SUFFICES ASSUME Init PROVE IInv
  OBVIOUS
<1>1. Numbers
  BY ConstantsAreNumbers
<1>2. /\ at = "loop" /\ closer = "idle" /\ sleep = Sleep /\ left = 0 /\ stop = FALSE
      /\ sinceBeat = 0 /\ elapsed = 0 /\ lag \in 0 .. Offset
      /\ items = 0 /\ closed = FALSE /\ futex = 0 /\ pushed = FALSE
      /\ awaiting = <<>> /\ shut = FALSE /\ stream = [s \in Streams |-> "none"]
  BY DEF Init, Incoming!Init
<1>3. ControlOK
  BY <1>2 DEF ControlOK, Places, Stages
<1>4. TimesOK /\ items \in Nat /\ futex \in Int
  BY <1>1, <1>2 DEF TimesOK, Numbers
<1>5. StreamsOK
  BY <1>2 DEF StreamsOK, Fates
<1>6. ClockIsBehind /\ InTime
  BY <1>1, <1>2 DEF ClockIsBehind, InTime, Latest, Numbers
<1>7. ItemsAreCounted /\ NewOnesWait
  BY <1>2 DEF ItemsAreCounted, Notifying, Reserved, NewOnesWait
<1> QED BY <1>3, <1>4, <1>5, <1>6, <1>7 DEF IInv, TypeOK

\* Where the threads are and what they have set.
LEMMA NextKeepsControl ==
  ASSUME ControlOK, [Next]_vars
  PROVE  ControlOK'
<1>0. Numbers
  BY ConstantsAreNumbers
<1>1. CASE Select
  BY <1>0, <1>1 DEF ControlOK, Places, Stages, Select, Go, clock, packets, streams
<1>2. CASE PollPackets
  BY <1>0, <1>2
  DEF ControlOK, Places, Stages, PollPackets, Go, clock, packets, streams, Incoming!TryTake,
      Incoming!NotReady, Incoming!TakeThrows, Incoming!vars
<1>3. CASE GetPacket
  BY <1>0, <1>3
  DEF ControlOK, Places, Stages, GetPacket, Go, clock, packets, streams, Incoming!GetValue
<1>4. CASE PollStreams
  BY <1>0, <1>4 DEF ControlOK, Places, Stages, PollStreams, TakeStream, Go, clock, packets, streams
<1>5. CASE PollTimeout
  BY <1>0, <1>5 DEF ControlOK, Places, Stages, PollTimeout, Go, IsElapsed, clock, packets, streams
<1>6. CASE WakeUp
  BY <1>0, <1>6 DEF ControlOK, Places, Stages, WakeUp, Go, clock, packets, streams
<1>7. CASE Check
  BY <1>0, <1>7 DEF ControlOK, Places, Stages, Check, Go, IsElapsed, clock, packets, streams
<1>8. CASE Tick
  BY <1>0, <1>8 DEF ControlOK, Places, Stages, Tick, clock, packets, streams
<1>9. CASE UpdateTime
  BY <1>0, <1>9 DEF ControlOK, Places, Stages, UpdateTime, clock, packets, streams
<1>10. CASE PacketArrives
  BY <1>0, <1>10
  DEF ControlOK, Places, Stages, PacketArrives, clock, packets, streams, Incoming!Push
<1>11. CASE NotifyOfPacket
  BY <1>0, <1>11
  DEF ControlOK, Places, Stages, NotifyOfPacket, clock, packets, streams, Incoming!Notify
<1>12. ASSUME NEW s \in Streams, CreateStream(s) PROVE ControlOK'
  BY <1>0, <1>12 DEF ControlOK, Places, Stages, CreateStream, clock, packets, streams
<1>13. CASE Close
  BY <1>0, <1>13 DEF ControlOK, Places, Stages, Close, CloseStep, clock, packets, streams
<1>14. CASE Drain
  BY <1>0, <1>14 DEF ControlOK, Places, Stages, Drain, CloseStep, clock, packets, streams
<1>15. CASE ShutChannels
  BY <1>0, <1>15
  DEF ControlOK, Places, Stages, ShutChannels, CloseStep, clock, packets, streams,
      Incoming!Shut, Incoming!CloseSignal
<1>16. CASE Join
  BY <1>0, <1>16 DEF ControlOK, Places, Stages, Join, CloseStep, clock, packets, streams
<1>17. CASE UNCHANGED vars
  BY <1>0, <1>17 DEF ControlOK, Places, Stages, vars, clock, packets, streams
<1> QED BY <1>1, <1>2, <1>3, <1>4, <1>5, <1>6, <1>7, <1>8, <1>9,
           <1>10, <1>11, <1>12, <1>13, <1>14, <1>15, <1>16, <1>17
  DEF Next, ThreadStep, CloserStep

\* No time becomes negative.
LEMMA NextKeepsTimes ==
  ASSUME TimesOK, [Next]_vars
  PROVE  TimesOK'
<1>0. Numbers
  BY ConstantsAreNumbers
<1>1. CASE Select
  BY <1>0, <1>1 DEF TimesOK, Numbers, Select, Go, clock, packets, streams
<1>2. CASE PollPackets
  BY <1>0, <1>2
  DEF TimesOK, Numbers, PollPackets, Go, clock, packets, streams, Incoming!TryTake,
      Incoming!NotReady, Incoming!TakeThrows, Incoming!vars
<1>3. CASE GetPacket
  BY <1>0, <1>3 DEF TimesOK, Numbers, GetPacket, Go, clock, packets, streams, Incoming!GetValue
<1>4. CASE PollStreams
  BY <1>0, <1>4 DEF TimesOK, Numbers, PollStreams, TakeStream, Go, clock, packets, streams
<1>5. CASE PollTimeout
  BY <1>0, <1>5 DEF TimesOK, Numbers, PollTimeout, Go, IsElapsed, clock, packets, streams
<1>6. CASE WakeUp
  BY <1>0, <1>6 DEF TimesOK, Numbers, WakeUp, Go, clock, packets, streams
<1>7. CASE Check
  BY <1>0, <1>7 DEF TimesOK, Numbers, Check, Go, IsElapsed, clock, packets, streams
<1>8. CASE Tick
  BY <1>0, <1>8 DEF TimesOK, Numbers, Tick, clock, packets, streams
<1>9. CASE UpdateTime
  BY <1>0, <1>9 DEF TimesOK, Numbers, UpdateTime, clock, packets, streams
<1>10. CASE PacketArrives
  BY <1>0, <1>10 DEF TimesOK, Numbers, PacketArrives, clock, packets, streams, Incoming!Push
<1>11. CASE NotifyOfPacket
  BY <1>0, <1>11 DEF TimesOK, Numbers, NotifyOfPacket, clock, packets, streams, Incoming!Notify
<1>12. ASSUME NEW s \in Streams, CreateStream(s) PROVE TimesOK'
  BY <1>0, <1>12 DEF TimesOK, Numbers, CreateStream, clock, packets, streams
<1>13. CASE Close
  BY <1>0, <1>13 DEF TimesOK, Numbers, Close, CloseStep, clock, packets, streams
<1>14. CASE Drain
  BY <1>0, <1>14 DEF TimesOK, Numbers, Drain, CloseStep, clock, packets, streams
<1>15. CASE ShutChannels
  BY <1>0, <1>15
  DEF TimesOK, Numbers, ShutChannels, CloseStep, clock, packets, streams, Incoming!Shut,
      Incoming!CloseSignal
<1>16. CASE Join
  BY <1>0, <1>16 DEF TimesOK, Numbers, Join, CloseStep, clock, packets, streams
<1>17. CASE UNCHANGED vars
  BY <1>0, <1>17 DEF TimesOK, Numbers, vars, clock, packets, streams
<1> QED BY <1>1, <1>2, <1>3, <1>4, <1>5, <1>6, <1>7, <1>8, <1>9,
           <1>10, <1>11, <1>12, <1>13, <1>14, <1>15, <1>16, <1>17
  DEF Next, ThreadStep, CloserStep

\* Time passes only while the thread sleeps or handles something.
LEMMA NextKeepsTime ==
  ASSUME ControlOK, TimesOK, ClockIsBehind, InTime, [Next]_vars
  PROVE  ClockIsBehind' /\ InTime'
<1>0. Numbers
  BY ConstantsAreNumbers
<1>1. CASE Select
  BY <1>0, <1>1
  DEF TimesOK, ClockIsBehind, InTime, Latest, Numbers, Select, Go, clock, packets, streams
<1>2. CASE PollPackets
  BY <1>0, <1>2
  DEF TimesOK, ClockIsBehind, InTime, Latest, Numbers, PollPackets, Go, clock, packets, streams,
      Incoming!TryTake, Incoming!NotReady, Incoming!TakeThrows, Incoming!vars
<1>3. CASE GetPacket
  <2>1. /\ at = "get" /\ at' = "handle" /\ left' \in 0 .. Handling
        /\ UNCHANGED <<sleep, sinceBeat, elapsed, lag>>
    BY <1>3 DEF GetPacket, Go, clock
  <2>2. sinceBeat < Period + Offset + MaxSleep
    BY <1>0, <2>1 DEF InTime, Latest, TimesOK, Numbers
  <2>3. left' \in Nat /\ left' <= Handling /\ Handling \in Nat
    BY <1>0, <2>1 DEF Numbers
  <2>5. /\ sinceBeat' = sinceBeat /\ sinceBeat \in Nat
        /\ Period \in Nat /\ Offset \in Nat /\ MaxSleep \in Nat
    BY <1>0, <2>1 DEF TimesOK, Numbers
  <2>4. sinceBeat' + left' < Period + Offset + (MaxSleep + Handling)
    BY <2>2, <2>3, <2>5, SumBelow
  <2> QED BY <2>1, <2>4 DEF ClockIsBehind, InTime, Latest
<1>4. CASE PollStreams
  BY <1>0, <1>4
  DEF TimesOK, ClockIsBehind, InTime, Latest, Numbers, PollStreams, TakeStream, Go, clock, packets, streams
<1>5. CASE PollTimeout
  BY <1>0, <1>5
  DEF TimesOK, ClockIsBehind, InTime, Latest, Numbers, PollTimeout, Go, IsElapsed, clock,
      packets, streams
<1>6. CASE WakeUp
  BY <1>0, <1>6
  DEF TimesOK, ClockIsBehind, InTime, Latest, Numbers, WakeUp, Go, clock, packets, streams
<1>7. CASE Check
  BY <1>0, <1>7
  DEF TimesOK, ClockIsBehind, InTime, Latest, Numbers, Check, Go, IsElapsed, clock, packets,
      streams
<1>8. CASE Tick
  BY <1>0, <1>8 DEF TimesOK, ClockIsBehind, InTime, Latest, Numbers, Tick, clock, packets, streams
<1>9. CASE UpdateTime
  BY <1>0, <1>9
  DEF TimesOK, ClockIsBehind, InTime, Latest, Numbers, UpdateTime, clock, packets, streams
<1>10. CASE PacketArrives
  BY <1>0, <1>10
  DEF TimesOK, ClockIsBehind, InTime, Latest, Numbers, PacketArrives, clock, packets, streams,
      Incoming!Push
<1>11. CASE NotifyOfPacket
  BY <1>0, <1>11
  DEF TimesOK, ClockIsBehind, InTime, Latest, Numbers, NotifyOfPacket, clock, packets, streams,
      Incoming!Notify
<1>12. ASSUME NEW s \in Streams, CreateStream(s) PROVE ClockIsBehind' /\ InTime'
  BY <1>0, <1>12
  DEF TimesOK, ClockIsBehind, InTime, Latest, Numbers, CreateStream, clock, packets, streams
<1>13. CASE Close
  BY <1>0, <1>13
  DEF TimesOK, ClockIsBehind, InTime, Latest, Numbers, Close, CloseStep, clock, packets, streams
<1>14. CASE Drain
  BY <1>0, <1>14
  DEF TimesOK, ClockIsBehind, InTime, Latest, Numbers, Drain, CloseStep, clock, packets, streams
<1>15. CASE ShutChannels
  BY <1>0, <1>15
  DEF TimesOK, ClockIsBehind, InTime, Latest, Numbers, ShutChannels, CloseStep, clock, packets,
      streams, Incoming!Shut, Incoming!CloseSignal
<1>16. CASE Join
  BY <1>0, <1>16
  DEF TimesOK, ClockIsBehind, InTime, Latest, Numbers, Join, CloseStep, clock, packets, streams
<1>17. CASE UNCHANGED vars
  BY <1>0, <1>17
  DEF TimesOK, ClockIsBehind, InTime, Latest, Numbers, vars, clock, packets, streams
<1> QED BY <1>1, <1>2, <1>3, <1>4, <1>5, <1>6, <1>7, <1>8, <1>9,
           <1>10, <1>11, <1>12, <1>13, <1>14, <1>15, <1>16, <1>17
  DEF Next, ThreadStep, CloserStep

-----------------------------------------------------------------------------
(* An item is there before it is counted, and is reserved before it is taken. *)

ItemsOK == items \in Nat /\ futex \in Int /\ ItemsAreCounted

\* What neither comes, goes, is reserved nor notified of is counted as before.
LEMMA SameCounts ==
  ASSUME ItemsOK, UNCHANGED packets, Reserved' = Reserved,
         closer' \in {"signal", "join", "closed"} =>
           closer \in {"signal", "join", "closed"}
  PROVE  ItemsOK'
BY DEF ItemsOK, ItemsAreCounted, packets, Notifying

\* Each step of a channel keeps the count, before and after it is closed.
LEMMA NextKeepsItems ==
  ASSUME ControlOK, ItemsOK, [Next]_vars
  PROVE  ItemsOK'
<1> USE DEF ItemsOK
<1>0. /\ Notifying \in {0, 1} /\ Reserved \in {0, 1}
      /\ items \in Nat /\ futex \in Int
      /\ closer \in {"signal", "join", "closed"} => closed
      /\ futex >= 0 => items = futex + Notifying + Reserved
      /\ futex < 0 => closed /\ futex + Notifying <= -99 /\ items >= Notifying + Reserved
  BY DEF Notifying, Reserved, ItemsAreCounted, Incoming!CLOSED
<1>1. ASSUME \/ Select \/ PollStreams \/ PollTimeout \/ WakeUp \/ Check \/ Tick \/ UpdateTime
             \/ (\E s \in Streams : CreateStream(s)) \/ Close \/ Drain \/ Join
             \/ UNCHANGED vars
      PROVE  ItemsOK'
  <2>1. UNCHANGED packets /\ Reserved' = Reserved
    BY <1>1 DEF Select, PollStreams, TakeStream, PollTimeout, WakeUp, Check, Tick, UpdateTime, CreateStream,
                Close, Drain, Join, vars, packets, Go, Reserved
  <2>2. closer' \in {"signal", "join", "closed"} =>
          closer \in {"signal", "join", "closed"}
    BY <1>1 DEF Select, PollStreams, TakeStream, PollTimeout, WakeUp, Check, Tick, UpdateTime, CreateStream,
                Close, Drain, Join, vars, CloseStep
  <2> QED BY <2>1, <2>2, SameCounts
<1>2. CASE PollPackets
  <2>1. closer' = closer /\ closed' = closed /\ items' = items /\ Notifying' = Notifying
    BY <1>2 DEF PollPackets, Notifying, Incoming!TryTake, Incoming!NotReady, Incoming!TakeThrows,
                Incoming!vars
  <2>2. \/ futex > 0 /\ futex' = futex - 1 /\ Reserved = 0 /\ Reserved' = 1
        \/ futex' = futex /\ Reserved = 0 /\ Reserved' = 0
    BY <1>2 DEF PollPackets, Go, Reserved, Incoming!TryTake, Incoming!NotReady,
                Incoming!TakeThrows, Incoming!vars
  <2> QED BY <1>0, <2>1, <2>2 DEF ItemsAreCounted, Incoming!CLOSED
<1>3. CASE GetPacket
  <2>1. /\ closer' = closer /\ closed' = closed /\ futex' = futex /\ Notifying' = Notifying
        /\ items' = items - 1 /\ Reserved = 1 /\ Reserved' = 0
    BY <1>3 DEF GetPacket, Go, Notifying, Reserved, Incoming!GetValue
  <2> QED BY <1>0, <2>1 DEF ItemsAreCounted, Incoming!CLOSED
<1>4. CASE PacketArrives
  <2>1. /\ closer' = closer /\ closed' = closed /\ futex' = futex /\ Reserved' = Reserved
        /\ items' = items + 1 /\ Notifying = 0 /\ Notifying' = 1 /\ ~ closed
    BY <1>4 DEF PacketArrives, Notifying, Reserved, Incoming!Push
  <2> QED BY <1>0, <2>1 DEF ItemsAreCounted, Incoming!CLOSED
<1>5. CASE NotifyOfPacket
  <2>1. /\ closer' = closer /\ closed' = closed /\ items' = items /\ Reserved' = Reserved
        /\ futex' = futex + 1 /\ Notifying = 1 /\ Notifying' = 0
    BY <1>5 DEF NotifyOfPacket, Notifying, Reserved, Incoming!Notify
  <2> QED BY <1>0, <2>1 DEF ItemsAreCounted, Incoming!CLOSED
<1>6. CASE ShutChannels
  <2>1. items' = items /\ Reserved' = Reserved /\ Notifying' = Notifying
    BY <1>6 DEF ShutChannels, Notifying, Reserved, packets, Incoming!Shut, Incoming!CloseSignal
  <2>2. \/ closer' = "packets" /\ closed' = closed /\ futex' = futex
        \/ closer' = "signal" /\ closed' = TRUE /\ futex' = futex
        \/ closer = "signal" /\ closed' = closed /\ futex' = Incoming!CLOSED
    BY <1>6 DEF ShutChannels, CloseStep, Incoming!Shut, Incoming!CloseSignal
  <2>3. CASE closer = "signal" /\ closed' = closed /\ futex' = Incoming!CLOSED
    <3>1. closed' /\ futex' = -100
      BY <1>0, <2>3 DEF Incoming!CLOSED
    <3>2. items >= Notifying + Reserved
      BY <1>0
    <3> QED BY <1>0, <2>1, <3>1, <3>2 DEF ItemsAreCounted, Incoming!CLOSED
  <2> QED BY <1>0, <2>1, <2>2, <2>3 DEF ItemsAreCounted, Incoming!CLOSED
<1> QED BY <1>1, <1>2, <1>3, <1>4, <1>5, <1>6 DEF Next, ThreadStep, CloserStep

-----------------------------------------------------------------------------
(* close() has set _stop before it drains, and what is handed over later is not NEW. *)

Waits(s, queue) == \E k \in 1 .. Len(queue) : queue[k] = s

\* What waits and is not at the head waits in the tail ...
LEMMA WaitsInTail ==
  ASSUME NEW queue \in Seq(Streams), queue # <<>>, NEW s \in Streams
  PROVE  /\ Tail(queue) \in Seq(Streams) /\ Head(queue) \in Streams
         /\ Waits(s, queue) /\ s # Head(queue) => Waits(s, Tail(queue))
<1>1. /\ Len(queue) \in Nat \ {0} /\ \A i \in 1 .. Len(queue) : queue[i] \in Streams
      /\ Head(queue) = queue[1] /\ Tail(queue) \in Seq(Streams)
      /\ Len(Tail(queue)) = Len(queue) - 1
      /\ \A i \in 1 .. Len(queue) - 1 : Tail(queue)[i] = queue[i + 1]
  BY HeadTailProperties, ElementOfSeq, EmptySeq, LenProperties
<1>2. ASSUME NEW k \in 1 .. Len(queue), queue[k] = s, s # Head(queue)
      PROVE  Waits(s, Tail(queue))
  <2>1. k # 1 /\ k - 1 \in 1 .. Len(queue) - 1
    BY <1>1, <1>2
  <2>2. Tail(queue)[k - 1] = queue[k]
    BY <1>1, <2>1
  <2> QED BY <1>1, <1>2, <2>1, <2>2 DEF Waits
<1> QED BY <1>1, <1>2 DEF Waits

\* ... and what waits goes on waiting when another is added, and so does that one.
LEMMA WaitsInLonger ==
  ASSUME NEW queue \in Seq(Streams), NEW t \in Streams, NEW s \in Streams
  PROVE  /\ Append(queue, t) \in Seq(Streams)
         /\ Waits(s, queue) \/ s = t => Waits(s, Append(queue, t))
<1>1. /\ Len(queue) \in Nat /\ Append(queue, t) \in Seq(Streams)
      /\ Len(Append(queue, t)) = Len(queue) + 1
      /\ \A i \in 1 .. Len(queue) : Append(queue, t)[i] = queue[i]
      /\ Append(queue, t)[Len(queue) + 1] = t
  BY AppendProperties, LenProperties
<1> QED BY <1>1 DEF Waits

\* A NEW stream goes on waiting until it is pulled or drained, and there is none after that.
LEMMA NextKeepsStreams ==
  ASSUME ControlOK, StreamsOK, NewOnesWait, [Next]_vars
  PROVE  StreamsOK' /\ NewOnesWait'
<1>0. /\ awaiting \in Seq(Streams) /\ stream \in [Streams -> Fates]
      /\ stop <=> closer # "idle"
      /\ \A s \in Streams : stream[s] = "new" => Waits(s, awaiting)
      /\ closer \notin {"idle", "drain"} => \A s \in Streams : stream[s] # "new"
      /\ stop \in BOOLEAN
  BY DEF StreamsOK, NewOnesWait, Waits, ControlOK
<1> SUFFICES /\ awaiting' \in Seq(Streams) /\ stream' \in [Streams -> Fates]
             /\ stop' <=> closer' # "idle"
             /\ \A s \in Streams : stream'[s] = "new" => Waits(s, awaiting')
             /\ closer' \notin {"idle", "drain"} => \A s \in Streams : stream'[s] # "new"
  BY DEF StreamsOK, NewOnesWait, Waits
<1>1. CASE UNCHANGED <<awaiting, stream, stop, closer>>
  BY <1>0, <1>1
<1>2. ASSUME awaiting # <<>>, awaiting' = Tail(awaiting),
             NEW fate \in Fates \ {"new"}, stream' = [stream EXCEPT ![Head(awaiting)] = fate],
             UNCHANGED <<stop, closer>>
      PROVE  /\ awaiting' \in Seq(Streams) /\ stream' \in [Streams -> Fates]
             /\ stop' <=> closer' # "idle"
             /\ \A s \in Streams : stream'[s] = "new" => Waits(s, awaiting')
             /\ closer' \notin {"idle", "drain"} => \A s \in Streams : stream'[s] # "new"
  <2>1. /\ Tail(awaiting) \in Seq(Streams)
        /\ \A s \in Streams : Waits(s, awaiting) /\ s # Head(awaiting) => Waits(s, Tail(awaiting))
    BY <1>0, <1>2, WaitsInTail
  <2>2. /\ stream' \in [Streams -> Fates]
        /\ \A s \in Streams : stream'[s] = "new" => stream[s] = "new" /\ s # Head(awaiting)
    BY <1>0, <1>2
  <2> QED BY <1>0, <1>2, <2>1, <2>2
<1>3. CASE PollStreams
  BY <1>1, <1>2, <1>3 DEF PollStreams, TakeStream, Fates
<1>4. ASSUME NEW t \in Streams, CreateStream(t)
      PROVE  /\ awaiting' \in Seq(Streams) /\ stream' \in [Streams -> Fates]
             /\ stop' <=> closer' # "idle"
             /\ \A s \in Streams : stream'[s] = "new" => Waits(s, awaiting')
             /\ closer' \notin {"idle", "drain"} => \A s \in Streams : stream'[s] # "new"
  <2>1. UNCHANGED <<stop, closer>>
    BY <1>4 DEF CreateStream
  <2>2. CASE shut
    <3>1. stream' = [stream EXCEPT ![t] = "refused"] /\ awaiting' = awaiting
      BY <1>4, <2>2 DEF CreateStream
    <3> QED BY <1>0, <2>1, <3>1 DEF Fates
  <2>3. CASE ~ shut
    <3>1. /\ stream' = [stream EXCEPT ![t] = IF stop THEN "late" ELSE "new"]
          /\ awaiting' = Append(awaiting, t)
      BY <1>4, <2>3 DEF CreateStream
    <3>2. /\ awaiting' \in Seq(Streams)
          /\ \A s \in Streams : Waits(s, awaiting) \/ s = t => Waits(s, awaiting')
      BY <1>0, <3>1, WaitsInLonger
    <3>3. /\ stream' \in [Streams -> Fates]
          /\ \A s \in Streams : stream'[s] = "new" => stream[s] = "new" \/ (s = t /\ ~ stop)
      BY <1>0, <3>1 DEF Fates
    <3> QED BY <1>0, <2>1, <3>2, <3>3
  <2> QED BY <2>2, <2>3
<1>5. CASE Close
  BY <1>0, <1>5 DEF Close, CloseStep, streams
<1>6. CASE Drain
  <2>1. \/ /\ awaiting # <<>> /\ awaiting' = Tail(awaiting) /\ UNCHANGED <<stop, closer>>
           /\ stream' = [stream EXCEPT ![Head(awaiting)] = "failed"]
        \/ /\ awaiting = <<>> /\ UNCHANGED <<awaiting, stream, stop>>
           /\ closer # "idle" /\ closer' # "idle"
    BY <1>6 DEF Drain, CloseStep
  <2>2. CASE /\ awaiting = <<>> /\ UNCHANGED <<awaiting, stream, stop>>
             /\ closer # "idle" /\ closer' # "idle"
    <3>1. \A s \in Streams : ~ Waits(s, awaiting)
      BY <2>2 DEF Waits
    <3> QED BY <1>0, <2>2, <3>1
  <2> QED BY <1>2, <2>1, <2>2 DEF Fates
<1>7. CASE ShutChannels
  <2>1. UNCHANGED <<awaiting, stream, stop>> /\ closer \notin {"idle", "drain"} /\ closer' # "idle"
    BY <1>7 DEF ShutChannels, CloseStep
  <2> QED BY <1>0, <2>1
<1>8. CASE Join
  <2>1. /\ UNCHANGED <<awaiting, stop>> /\ closer \notin {"idle", "drain"} /\ closer' # "idle"
        /\ stream' = [s \in Streams |-> IF stream[s] = "active" THEN "ended" ELSE stream[s]]
    BY <1>8 DEF Join, CloseStep
  <2> QED BY <1>0, <2>1 DEF Fates
<1> QED BY <1>1, <1>3, <1>4, <1>5, <1>6, <1>7, <1>8
  DEF Next, ThreadStep, CloserStep, Select, PollPackets, GetPacket, PollTimeout, WakeUp, Check,
      Tick, UpdateTime, PacketArrives, NotifyOfPacket, vars, streams

-----------------------------------------------------------------------------
(* Theorems.                                                               *)

\* What is known of the thread, the clock, the items and the streams holds in every
\* reachable state.
THEOREM EagerSelectInvariant == Spec => []IInv
<1>1. IInv /\ [Next]_vars => IInv'
  BY NextKeepsControl, NextKeepsTimes, NextKeepsTime, NextKeepsItems, NextKeepsStreams
  DEF IInv, TypeOK, ItemsOK
<1> QED BY <1>1, InitIInv, PTL DEF Spec

\* However many packets come in, and however long the sleeps have grown, the next heartbeat
\* is sent before a period, an update of the time, a sleep and the handling of one packet
\* have passed (scorpio_udp.cpp:1636-1651, eager_select.hpp:203-207).
THEOREM EagerSelectHeartbeatIsInTime == Spec => []HeartbeatIsInTime
<1>1. IInv => HeartbeatIsInTime
  BY ConstantsAreNumbers DEF IInv, TypeOK, TimesOK, InTime, Latest, HeartbeatIsInTime, Numbers
<1> QED BY <1>1, EagerSelectInvariant, PTL

\* get_value() never takes the front of an empty deque (channel.hpp:391-408, 412-422).
THEOREM EagerSelectReservedIsThere == Spec => []ReservedIsThere
<1>1. ASSUME IInv PROVE ReservedIsThere
  <2>1. /\ items \in Nat /\ futex \in Int /\ Notifying \in {0, 1} /\ Reserved \in {0, 1}
    BY <1>1 DEF IInv, TypeOK, Notifying, Reserved
  <2>2. items >= Reserved /\ items >= futex + Reserved
    BY <1>1, <2>1 DEF IInv, ItemsAreCounted, Incoming!CLOSED
  <2> QED BY <2>1, <2>2 DEF ReservedIsThere, Reserved
<1> QED BY <1>1, EagerSelectInvariant, PTL

\* When close() has returned, nothing it found waiting is still NEW
\* (scorpio_udp.cpp:1784-1796).
THEOREM EagerSelectStreamsAreDealtWith == Spec => []StreamsAreDealtWith
<1>1. IInv => StreamsAreDealtWith
  BY DEF IInv, NewOnesWait, StreamsAreDealtWith
<1> QED BY <1>1, EagerSelectInvariant, PTL

-----------------------------------------------------------------------------
(* Groups: what holds of the calls in progress, and of what they refer to. *)

Steps ==
  ({"begin", "end"} \X Futures) \cup ({"done", "clear", "added", "wait"} \X Waitables)
  \cup ({"empty", "destroy"} \X Groups) \cup ({"task_done"} \X Groups \X Waitables)

GroupTypeOK ==
  /\ todo \in [Threads -> Seq(Steps)]
  /\ asleep \in [Clients -> Waitables \cup {Nobody}]
  /\ own \in [Waitables -> Threads \cup {Nobody}]
  /\ base \in [Waitables -> Threads \cup {Nobody}]
  /\ done \in [Waitables -> BOOLEAN]
  /\ waitGroups \in [Waitables -> Seq(Groups)]
  /\ tasks \in [Groups -> SUBSET Waitables]
  /\ count \in [Groups -> Nat]
  /\ groupClosed \in [Groups -> BOOLEAN]
  /\ alive \in SUBSET Groups
  /\ holders \in [Groups -> SUBSET Clients]
  /\ maps \in [Waitables -> Nat]
  /\ called \in [Waitables -> BOOLEAN]

\* t still has to make step s, and after it r
Has(t, s) == \E i \in DOMAIN todo[t] : todo[t][i] = s
Before(t, s, r) == \E i, k \in DOMAIN todo[t] : i < k /\ todo[t][i] = s /\ todo[t][k] = r

\* no call makes a step twice; whoever waits does nothing else; a mutex is held once
Orderly ==
  \A t \in Threads :
    /\ \A i, k \in DOMAIN todo[t] : todo[t][i] = todo[t][k] => i = k
    /\ \A i \in DOMAIN todo[t] : todo[t][i][1] = "wait" => Len(todo[t]) = 1
    /\ \A x \in Waitables : ~ (Has(t, <<"clear", x>>) /\ Has(t, <<"added", x>>))

\* what a step of t relies on
Ready(t, s) ==
  /\ s[2] \in Groups => s[2] \in alive
  /\ s[1] = "wait" => t \in Clients /\ (s[2] \in Groups => t \in holders[s[2]])
  /\ s[1] = "task_done" => s[3] \in tasks[s[2]] /\ WaitsWith(s[3], s[2]) /\ done[s[3]]
  /\ s[1] = "clear" => base[s[2]] = t /\ done[s[2]]
  /\ s[1] = "added" => base[s[2]] = t /\ \E g \in Groups : t \in holders[g] /\ s[2] \in tasks[g]
  /\ s[1] = "empty" => own[s[2]] = t
  /\ s[1] = "destroy" => holders[s[2]] = {} /\ \A p \in alive : s[2] \notin tasks[p]

StepsAreReady == \A t \in Threads, s \in Steps : Has(t, s) => Ready(t, s)

\* what keeps the group of s in being until t has made step r
Needy(s) == s[1] \in {"task_done", "empty"} \/ (s[1] \in {"done", "clear"} /\ s[2] \in Groups)

Backs(t, s, r) ==
  \/ s[1] = "task_done" /\ r = <<"clear", s[3]>>
  \/ s[1] \in {"done", "clear"} /\ r = <<"empty", s[2]>>
  \/ s[1] = "empty" /\ \E x \in tasks[s[2]] :
       \/ r = <<"clear", x>> /\ WaitsWith(x, s[2])
       \/ r = <<"added", x>> /\ t \in holders[s[2]]

Backed ==
  \A t \in Threads, s \in Steps :
    Has(t, s) /\ Needy(s) => \E r \in Steps : Before(t, s, r) /\ Backs(t, s, r)

OneDestroys ==
  \A g \in Groups : \A t, u \in Threads :
    Has(t, <<"destroy", g>>) /\ Has(u, <<"destroy", g>>) => t = u

Sleepers ==
  \A c \in Clients : asleep[c] # Nobody =>
    todo[c] = <<>> /\ (asleep[c] \in Groups => c \in holders[asleep[c]])

\* the plain pointers of a waitable
Lists ==
  \A x \in Waitables :
    /\ \A i \in DOMAIN waitGroups[x] :
         /\ x \in tasks[waitGroups[x][i]]
         /\ (x \in Groups => x \in alive) => waitGroups[x][i] \in alive
    /\ \A i, k \in DOMAIN waitGroups[x] : waitGroups[x][i] = waitGroups[x][k] => i = k
    /\ done[x] /\ waitGroups[x] # <<>> => \E t \in Threads : Has(t, <<"clear", x>>)

\* the shared pointers
References ==
  /\ \A g \in Groups : holders[g] # {} => g \in alive
  /\ \A p \in alive : tasks[p] \cap Groups \subseteq alive

Owed(g) == {x \in tasks[g] : ~ done[x] \/ x \in Pending(g)}

Counted ==
  \A g \in alive : ~ Dying(g) =>
    /\ count[g] = Cardinality(Owed(g))
    /\ \A x \in tasks[g] : ~ done[x] => WaitsWith(x, g)

GroupInv ==
  /\ GroupTypeOK /\ Orderly /\ StepsAreReady /\ Backed /\ OneDestroys /\ Sleepers
  /\ Lists /\ References /\ Counted

-----------------------------------------------------------------------------
(* A call goes on: its first step is made, others come before the rest.    *)

Rest(t) == IF todo[t] = <<>> THEN <<>> ELSE Tail(todo[t])
Made(t, s) == todo[t] # <<>> /\ s = Head(todo[t])

\* t makes its first step, if it has one; who slept on what it did may test again
Moves(t, first) ==
  /\ todo' \in [Threads -> Seq(Steps)]
  /\ todo'[t] = first \o Rest(t)
  /\ \A u \in Threads \ {t} :
       todo'[u] = todo[u] \/ (todo[u] = <<>> /\ \E x \in Waitables : todo'[u] = <<<<"wait", x>>>>)

In(s, steps) == \E i \in DOMAIN steps : steps[i] = s

LEMMA NothingInNothing == \A s : ~ In(s, <<>>)
<1>1. DOMAIN <<>> = {}
  OBVIOUS
<1> QED BY <1>1 DEF In

LEMMA OneAfterOther ==
  ASSUME NEW S, NEW first \in Seq(S), NEW rest \in Seq(S), NEW both, both = first \o rest
  PROVE  /\ both \in Seq(S) /\ Len(both) = Len(first) + Len(rest)
         /\ Len(first) \in Nat /\ Len(rest) \in Nat
         /\ DOMAIN both = 1 .. Len(first) + Len(rest)
         /\ DOMAIN first = 1 .. Len(first) /\ DOMAIN rest = 1 .. Len(rest)
         /\ \A i \in 1 .. Len(first) : both[i] = first[i]
         /\ \A i \in 1 .. Len(rest) : both[Len(first) + i] = rest[i]
<1>1. /\ Len(both) = Len(first) + Len(rest) /\ Len(first) \in Nat /\ Len(rest) \in Nat
      /\ both \in Seq(S)
  BY ConcatProperties, LenProperties
<1>2. DOMAIN first = 1 .. Len(first) /\ DOMAIN rest = 1 .. Len(rest)
      /\ DOMAIN both = 1 .. Len(both)
  BY <1>1, LenProperties
<1>3. \A i \in 1 .. Len(first) + Len(rest) :
        both[i] = IF i <= Len(first) THEN first[i] ELSE rest[i - Len(first)]
  BY ConcatProperties
<1>4. ASSUME NEW i \in 1 .. Len(first) PROVE both[i] = first[i]
  BY <1>1, <1>3
<1>5. ASSUME NEW i \in 1 .. Len(rest) PROVE both[Len(first) + i] = rest[i]
  <2>1. Len(first) + i \in 1 .. Len(first) + Len(rest) /\ ~ (Len(first) + i <= Len(first))
        /\ (Len(first) + i) - Len(first) = i
    BY <1>1
  <2> QED BY <1>3, <2>1
<1> QED BY <1>1, <1>2, <1>4, <1>5

\* The rest of a call is the call without the step that is made.
LEMMA RestOfCall ==
  ASSUME GroupTypeOK, NEW t \in Threads
  PROVE  /\ Rest(t) \in Seq(Steps) /\ Len(Rest(t)) \in Nat /\ Len(todo[t]) \in Nat
         /\ DOMAIN todo[t] = 1 .. Len(todo[t]) /\ DOMAIN Rest(t) = 1 .. Len(Rest(t))
         /\ todo[t] = <<>> => Len(Rest(t)) = 0 /\ Len(todo[t]) = 0
         /\ todo[t] # <<>> => /\ Len(todo[t]) = Len(Rest(t)) + 1
                              /\ Head(todo[t]) = todo[t][1]
                              /\ \A i \in 1 .. Len(Rest(t)) : Rest(t)[i] = todo[t][i + 1]
<1>1. todo[t] \in Seq(Steps)
  BY DEF GroupTypeOK
<1>2. Len(todo[t]) \in Nat /\ DOMAIN todo[t] = 1 .. Len(todo[t])
  BY <1>1, LenProperties
<1>3. CASE todo[t] = <<>>
  <2>1. Rest(t) = <<>> /\ Rest(t) \in Seq(Steps) /\ Len(Rest(t)) = 0 /\ Len(todo[t]) = 0
    BY <1>3, EmptySeq DEF Rest
  <2> QED BY <1>2, <1>3, <2>1, LenProperties
<1>4. CASE todo[t] # <<>>
  <2>1. Rest(t) = Tail(todo[t])
    BY <1>4 DEF Rest
  <2>2. /\ Tail(todo[t]) \in Seq(Steps) /\ Len(Tail(todo[t])) = Len(todo[t]) - 1
        /\ Head(todo[t]) = todo[t][1]
        /\ \A i \in 1 .. Len(Tail(todo[t])) : Tail(todo[t])[i] = todo[t][i + 1]
    BY <1>1, <1>4, HeadTailProperties
  <2>3. Len(Rest(t)) \in Nat /\ DOMAIN Rest(t) = 1 .. Len(Rest(t))
    BY <2>1, <2>2, LenProperties
  <2> QED BY <1>2, <1>4, <2>1, <2>2, <2>3
<1> QED BY <1>3, <1>4

\* The step that is made is in the call, and comes before all others.
LEMMA NothingBeforeFirst ==
  ASSUME GroupTypeOK, Orderly, NEW t \in Threads, NEW s, Made(t, s)
  PROVE  Has(t, s) /\ s \in Steps /\ \A r : ~ Before(t, r, s)
<1>1. /\ s = todo[t][1] /\ 1 \in DOMAIN todo[t] /\ todo[t] \in Seq(Steps)
      /\ DOMAIN todo[t] = 1 .. Len(todo[t]) /\ Len(todo[t]) \in Nat
  BY RestOfCall DEF Made, GroupTypeOK
<1>2. s \in Steps
  BY <1>1, ElementOfSeq
<1>3. ASSUME NEW i \in DOMAIN todo[t], NEW k \in DOMAIN todo[t], i < k, todo[t][k] = s PROVE FALSE
  <2>1. k = 1
    BY <1>1, <1>3 DEF Orderly
  <2> QED BY <1>1, <1>3, <2>1
<1> QED BY <1>1, <1>2, <1>3 DEF Has, Before

\* What t still has to do after it moved, and in which order.
LEMMA MovedSteps ==
  ASSUME GroupTypeOK, Orderly, NEW t \in Threads, NEW first \in Seq(Steps), Moves(t, first), NEW s
  PROVE  /\ Has(t, s)' <=> In(s, first) \/ (Has(t, s) /\ ~ Made(t, s))
         /\ ~ Made(t, s) => \A r : Before(t, s, r) => Before(t, s, r)'
         /\ \A r : (\E i, k \in DOMAIN first : i < k /\ first[i] = s /\ first[k] = r)
                     => Before(t, s, r)'
         /\ \A r : In(s, first) /\ Has(t, r) /\ ~ Made(t, r) => Before(t, s, r)'
<1> DEFINE n == Len(first)
           rest == Rest(t)
           new == todo'[t]
           old == todo[t]
<1>1. /\ rest \in Seq(Steps) /\ Len(rest) \in Nat /\ Len(old) \in Nat
      /\ DOMAIN old = 1 .. Len(old)
      /\ old = <<>> => Len(rest) = 0 /\ Len(old) = 0
      /\ old # <<>> => /\ Len(old) = Len(rest) + 1
                       /\ Head(old) = old[1]
                       /\ \A i \in 1 .. Len(rest) : rest[i] = old[i + 1]
  BY RestOfCall
<1>2. new = first \o rest
  BY DEF Moves
<1>3. /\ n \in Nat /\ DOMAIN new = 1 .. n + Len(rest) /\ DOMAIN first = 1 .. n
      /\ \A i \in 1 .. n : new[i] = first[i]
      /\ \A i \in 1 .. Len(rest) : new[n + i] = rest[i]
  BY <1>1, <1>2, OneAfterOther
<1>4. \A i \in 1 .. Len(old) : i # 1 =>
        i - 1 \in 1 .. Len(rest) /\ n + (i - 1) \in DOMAIN new /\ new[n + (i - 1)] = old[i]
  <2> SUFFICES ASSUME NEW i \in 1 .. Len(old), i # 1
               PROVE  i - 1 \in 1 .. Len(rest) /\ n + (i - 1) \in DOMAIN new
                      /\ new[n + (i - 1)] = old[i]
    OBVIOUS
  <2>1. i - 1 \in 1 .. Len(rest) /\ (i - 1) + 1 = i /\ n + (i - 1) \in 1 .. n + Len(rest) /\ old # <<>>
    BY <1>1, <1>3
  <2> QED BY <1>1, <1>3, <2>1
<1>5. ASSUME NEW i \in 1 .. Len(old), NEW r, old[i] = r PROVE i # 1 <=> ~ Made(t, r)
  <2>1. old # <<>> /\ Head(old) = old[1] /\ 1 \in DOMAIN old
    BY <1>1
  <2>2. \A k \in DOMAIN old : old[i] = old[k] => i = k
    BY <1>1 DEF Orderly
  <2> QED BY <1>5, <2>1, <2>2 DEF Made
<1>6. ASSUME NEW i \in DOMAIN new, new[i] = s PROVE In(s, first) \/ (Has(t, s) /\ ~ Made(t, s))
  <2>1. CASE i \in 1 .. n
    BY <1>3, <1>6, <2>1 DEF In
  <2>2. CASE i \notin 1 .. n
    <3>1. i - n \in 1 .. Len(rest) /\ n + (i - n) = i
      BY <1>1, <1>3, <2>2
    <3>2. new[i] = old[(i - n) + 1] /\ (i - n) + 1 \in 1 .. Len(old) /\ (i - n) + 1 # 1
      BY <1>1, <1>3, <3>1
    <3> QED BY <1>1, <1>5, <1>6, <3>2 DEF Has
  <2> QED BY <2>1, <2>2
<1>7. ASSUME In(s, first) PROVE Has(t, s)'
  <2>1. PICK i \in 1 .. n : first[i] = s
    BY <1>3, <1>7 DEF In
  <2>2. i \in DOMAIN new /\ new[i] = s
    BY <1>1, <1>3, <2>1
  <2> QED BY <2>2 DEF Has
<1>8. ASSUME Has(t, s), ~ Made(t, s) PROVE Has(t, s)'
  <2>1. PICK i \in 1 .. Len(old) : old[i] = s
    BY <1>1, <1>8 DEF Has
  <2>2. n + (i - 1) \in DOMAIN new /\ new[n + (i - 1)] = s
    BY <1>4, <1>5, <1>8, <2>1
  <2> QED BY <2>2 DEF Has
<1>9. Has(t, s)' => In(s, first) \/ (Has(t, s) /\ ~ Made(t, s))
  BY <1>6 DEF Has
<1>10. ASSUME ~ Made(t, s), NEW r, Before(t, s, r) PROVE Before(t, s, r)'
  <2>1. PICK i \in 1 .. Len(old) : \E k \in 1 .. Len(old) : i < k /\ old[i] = s /\ old[k] = r
    BY <1>1, <1>10 DEF Before
  <2>2. PICK k \in 1 .. Len(old) : i < k /\ old[i] = s /\ old[k] = r
    BY <2>1
  <2>3. i # 1 /\ k # 1 /\ n + (i - 1) < n + (k - 1)
    BY <1>1, <1>3, <1>5, <1>10, <2>2
  <2>4. /\ n + (i - 1) \in DOMAIN new /\ new[n + (i - 1)] = s
        /\ n + (k - 1) \in DOMAIN new /\ new[n + (k - 1)] = r
    BY <1>4, <2>2, <2>3
  <2> QED BY <2>3, <2>4 DEF Before
<1>11. ASSUME NEW r, NEW i \in DOMAIN first, NEW k \in DOMAIN first, i < k,
              first[i] = s, first[k] = r
       PROVE  Before(t, s, r)'
  <2>1. i \in DOMAIN new /\ new[i] = s /\ k \in DOMAIN new /\ new[k] = r
    BY <1>1, <1>3, <1>11
  <2> QED BY <1>11, <2>1 DEF Before
<1>12. ASSUME NEW r, In(s, first), Has(t, r), ~ Made(t, r) PROVE Before(t, s, r)'
  <2>1. PICK i \in 1 .. n : first[i] = s
    BY <1>3, <1>12 DEF In
  <2>2. PICK k \in 1 .. Len(old) : old[k] = r
    BY <1>1, <1>12 DEF Has
  <2>3. k # 1 /\ n + (k - 1) \in DOMAIN new /\ new[n + (k - 1)] = r
    BY <1>4, <1>5, <1>12, <2>2
  <2>4. i \in DOMAIN new /\ new[i] = s /\ i < n + (k - 1)
    BY <1>1, <1>3, <2>1, <2>3
  <2> QED BY <2>3, <2>4 DEF Before
<1> QED BY <1>7, <1>8, <1>9, <1>10, <1>11, <1>12

\* What the others still have to do.
LEMMA OtherSteps ==
  ASSUME NEW t \in Threads, NEW first, Moves(t, first),
         NEW u \in Threads, u # t, NEW s
  PROVE  /\ Has(u, s) => Has(u, s)'
         /\ \A r : Before(u, s, r) => Before(u, s, r)'
         /\ Has(u, s)' => \/ Has(u, s)
                          \/ \E x \in Waitables :
                               todo[u] = <<>> /\ todo'[u] = <<<<"wait", x>>>> /\ s = <<"wait", x>>
         /\ Has(u, s)' /\ s[1] # "wait" => Has(u, s)
<1>1. CASE todo'[u] = todo[u]
  BY <1>1 DEF Has, Before
<1>2. CASE todo[u] = <<>> /\ \E x \in Waitables : todo'[u] = <<<<"wait", x>>>>
  <2>1. PICK x \in Waitables : todo'[u] = <<<<"wait", x>>>>
    BY <1>2
  <2>2. \A i \in DOMAIN todo'[u] : todo'[u][i] = <<"wait", x>>
    BY <2>1
  <2>3. ~ \E i \in DOMAIN todo[u] : TRUE
    BY <1>2
  <2>4. Has(u, s)' => s = <<"wait", x>>
    BY <2>2 DEF Has
  <2> QED BY <1>2, <2>1, <2>3, <2>4 DEF Has, Before
<1> QED BY <1>1, <1>2 DEF Moves

\* A move keeps calls in order if what comes first is new to the thread.
LEMMA OrderlyAfter ==
  ASSUME GroupTypeOK, Orderly, NEW t \in Threads, NEW first \in Seq(Steps), Moves(t, first),
         \A i, k \in DOMAIN first : first[i] = first[k] => i = k,
         \A i \in DOMAIN first : ~ Has(t, first[i]),
         \A i \in DOMAIN first : first[i][1] = "wait" => Len(first) = 1 /\ todo[t] = <<>>,
         \A x \in Waitables : ~ (Has(t, <<"clear", x>>)' /\ Has(t, <<"added", x>>)')
  PROVE  Orderly'
<1> DEFINE n == Len(first)
           rest == Rest(t)
           new == todo'[t]
           old == todo[t]
<1>1. /\ rest \in Seq(Steps) /\ Len(rest) \in Nat /\ Len(old) \in Nat
      /\ DOMAIN old = 1 .. Len(old)
      /\ old = <<>> => Len(rest) = 0 /\ Len(old) = 0
      /\ old # <<>> => /\ Len(old) = Len(rest) + 1
                       /\ \A i \in 1 .. Len(rest) : rest[i] = old[i + 1]
  BY RestOfCall
<1>2. new = first \o rest
  BY DEF Moves
<1>3. /\ n \in Nat /\ DOMAIN new = 1 .. n + Len(rest) /\ DOMAIN first = 1 .. n
      /\ Len(new) = n + Len(rest)
      /\ \A i \in 1 .. n : new[i] = first[i]
      /\ \A i \in 1 .. Len(rest) : new[n + i] = rest[i]
  BY <1>1, <1>2, OneAfterOther
<1>4. \A i \in 1 .. n + Len(rest) : i \notin 1 .. n =>
        i - n + 1 \in 1 .. Len(old) /\ new[i] = old[i - n + 1] /\ Len(old) # 1
  <2> SUFFICES ASSUME NEW i \in 1 .. n + Len(rest), i \notin 1 .. n
               PROVE  i - n + 1 \in 1 .. Len(old) /\ new[i] = old[i - n + 1] /\ Len(old) # 1
    OBVIOUS
  <2>1. i - n \in 1 .. Len(rest) /\ n + (i - n) = i
    BY <1>1, <1>3
  <2>2. old # <<>>
    BY <1>1, <2>1
  <2>3. new[i] = rest[i - n] /\ rest[i - n] = old[i - n + 1]
    BY <1>1, <1>3, <2>1, <2>2
  <2>4. i - n + 1 \in 1 .. Len(old) /\ Len(old) # 1
    BY <1>1, <2>1, <2>2
  <2> QED BY <2>3, <2>4
<1>5. ASSUME NEW i \in DOMAIN new, NEW k \in DOMAIN new, new[i] = new[k] PROVE i = k
  <2>1. CASE i \in 1 .. n /\ k \in 1 .. n
    BY <1>3, <1>5, <2>1
  <2>2. CASE i \notin 1 .. n /\ k \notin 1 .. n
    <3>1. i - n + 1 \in DOMAIN old /\ k - n + 1 \in DOMAIN old /\ old[i - n + 1] = old[k - n + 1]
      BY <1>1, <1>3, <1>4, <1>5, <2>2
    <3>2. i - n + 1 = k - n + 1
      BY <3>1 DEF Orderly
    <3> QED BY <1>1, <1>3, <3>2
  <2>3. ASSUME NEW a \in 1 .. n, NEW b \in 1 .. n + Len(rest), b \notin 1 .. n, new[a] = new[b]
        PROVE  FALSE
    <3>1. new[a] = first[a] /\ a \in DOMAIN first
      BY <1>3
    <3>2. b - n + 1 \in DOMAIN old /\ new[b] = old[b - n + 1]
      BY <1>1, <1>4, <2>3
    <3>3. Has(t, first[a])
      BY <2>3, <3>1, <3>2 DEF Has
    <3> QED BY <3>1, <3>3
  <2> QED BY <1>3, <1>5, <2>1, <2>2, <2>3
<1>6. ASSUME NEW i \in DOMAIN new, new[i][1] = "wait" PROVE Len(new) = 1
  <2>1. CASE i \in 1 .. n
    BY <1>1, <1>3, <1>6, <2>1
  <2>2. CASE i \notin 1 .. n
    <3>1. i - n + 1 \in DOMAIN old /\ old[i - n + 1][1] = "wait" /\ Len(old) # 1
      BY <1>1, <1>3, <1>4, <1>6, <2>2
    <3> QED BY <3>1 DEF Orderly
  <2> QED BY <2>1, <2>2
<1>7. ASSUME NEW u \in Threads, u # t
      PROVE  /\ \A i, k \in DOMAIN todo'[u] : todo'[u][i] = todo'[u][k] => i = k
             /\ \A i \in DOMAIN todo'[u] : todo'[u][i][1] = "wait" => Len(todo'[u]) = 1
             /\ \A x \in Waitables : ~ (Has(u, <<"clear", x>>)' /\ Has(u, <<"added", x>>)')
  <2>1. CASE todo'[u] = todo[u]
    BY <1>7, <2>1 DEF Orderly, Has
  <2>2. CASE \E x \in Waitables : todo'[u] = <<<<"wait", x>>>>
    <3>1. PICK x \in Waitables : todo'[u] = <<<<"wait", x>>>>
      BY <2>2
    <3>2. DOMAIN todo'[u] = {1} /\ Len(todo'[u]) = 1 /\ todo'[u][1] = <<"wait", x>>
      BY <3>1
    <3> QED BY <3>2 DEF Has
  <2> QED BY <1>7, <2>1, <2>2 DEF Moves
<1> QED BY <1>5, <1>6, <1>7 DEF Orderly

\* A move leaves every step with what it relies on, if it takes nothing from the others and
\* what comes first finds it.
LEMMA ReadyAfter ==
  ASSUME GroupTypeOK, Orderly, StepsAreReady,
         NEW t \in Threads, NEW first \in Seq(Steps), Moves(t, first),
         \A u \in Threads, s \in Steps :
           Has(u, s) /\ Ready(u, s) /\ ~ (u = t /\ Made(t, s)) => Ready(u, s)',
         \A i \in DOMAIN first : Ready(t, first[i])',
         \A u \in Threads, x \in Waitables :
           u # t /\ todo[u] = <<>> /\ todo'[u] = <<<<"wait", x>>>> => Ready(u, <<"wait", x>>)'
  PROVE  StepsAreReady'
<1> SUFFICES ASSUME NEW u \in Threads, NEW s \in Steps, Has(u, s)' PROVE Ready(u, s)'
  BY DEF StepsAreReady
<1>1. CASE u = t
  <2>1. CASE In(s, first)
    BY <1>1, <2>1 DEF In
  <2>2. CASE Has(t, s) /\ ~ Made(t, s)
    BY <1>1, <2>2 DEF StepsAreReady
  <2> QED BY <1>1, <2>1, <2>2, MovedSteps
<1>2. CASE u # t /\ Has(u, s)
  BY <1>2 DEF StepsAreReady
<1>3. CASE u # t /\ ~ Has(u, s)
  <2>1. PICK x \in Waitables :
          todo[u] = <<>> /\ todo'[u] = <<<<"wait", x>>>> /\ s = <<"wait", x>>
    BY <1>3, OtherSteps
  <2> QED BY <1>3, <2>1
<1> QED BY <1>1, <1>2, <1>3

\* And with a later step that keeps its group in being.
LEMMA BackedAfter ==
  ASSUME GroupTypeOK, Orderly, Backed,
         NEW t \in Threads, NEW first \in Seq(Steps), Moves(t, first),
         \A u \in Threads, s \in Steps, r \in Steps :
           Before(u, s, r) /\ Backs(u, s, r) /\ ~ (u = t /\ Made(t, s)) => Backs(u, s, r)',
         \A i \in DOMAIN first : Needy(first[i]) =>
           \E r \in Steps :
             /\ Backs(t, first[i], r)'
             /\ \/ \E k \in DOMAIN first : i < k /\ first[k] = r
                \/ Has(t, r) /\ ~ Made(t, r)
  PROVE  Backed'
<1> SUFFICES ASSUME NEW u \in Threads, NEW s \in Steps, Has(u, s)', Needy(s)
             PROVE  \E r \in Steps : Before(u, s, r)' /\ Backs(u, s, r)'
  BY DEF Backed, Needy
<1>1. CASE u = t /\ In(s, first)
  <2>1. PICK i \in DOMAIN first : first[i] = s
    BY <1>1 DEF In
  <2>2. PICK r \in Steps : /\ Backs(t, s, r)'
                           /\ \/ \E k \in DOMAIN first : i < k /\ first[k] = r
                              \/ Has(t, r) /\ ~ Made(t, r)
    BY <2>1
  <2>3. Before(t, s, r)'
    BY <1>1, <2>1, <2>2, MovedSteps
  <2> QED BY <1>1, <2>2, <2>3
<1>2. CASE u = t /\ Has(t, s) /\ ~ Made(t, s)
  <2>1. PICK r \in Steps : Before(t, s, r) /\ Backs(t, s, r)
    BY <1>2 DEF Backed
  <2>2. Backs(t, s, r)'
    BY <1>2, <2>1
  <2>3. Before(t, s, r)'
    BY <1>2, <2>1, MovedSteps
  <2> QED BY <1>2, <2>2, <2>3
<1>3. CASE u # t /\ Has(u, s)
  <2>1. PICK r \in Steps : Before(u, s, r) /\ Backs(u, s, r)
    BY <1>3 DEF Backed
  <2>2. Backs(u, s, r)'
    BY <1>3, <2>1
  <2>3. Before(u, s, r)'
    BY <1>3, <2>1, OtherSteps
  <2> QED BY <2>2, <2>3
<1>4. CASE u # t /\ ~ Has(u, s)
  <2>1. s[1] = "wait"
    BY <1>4, OtherSteps
  <2> QED BY <2>1 DEF Needy
<1> QED BY <1>1, <1>2, <1>3, <1>4, MovedSteps

\* Who has a step that is no wait, after a move of t.
LEMMA WhoHas ==
  ASSUME GroupTypeOK, Orderly, NEW t \in Threads, NEW first \in Seq(Steps), Moves(t, first),
         NEW s, s[1] # "wait"
  PROVE  \A u \in Threads :
           Has(u, s)' <=> (u = t /\ In(s, first)) \/ (Has(u, s) /\ ~ (u = t /\ Made(t, s)))
<1> SUFFICES ASSUME NEW u \in Threads
             PROVE  Has(u, s)' <=> \/ u = t /\ In(s, first)
                                   \/ Has(u, s) /\ ~ (u = t /\ Made(t, s))
  OBVIOUS
<1>1. CASE u = t
  BY <1>1, MovedSteps
<1>2. CASE u # t
  BY <1>2, OtherSteps
<1> QED BY <1>1, <1>2

\* A group is destroyed once.
LEMMA OneDestroysAfter ==
  ASSUME GroupTypeOK, Orderly, OneDestroys,
         NEW t \in Threads, NEW first \in Seq(Steps), Moves(t, first),
         \A g \in Groups, u \in Threads : In(<<"destroy", g>>, first) => ~ Has(u, <<"destroy", g>>)
  PROVE  OneDestroys'
<1> SUFFICES ASSUME NEW g \in Groups, NEW u \in Threads, NEW v \in Threads,
                    Has(u, <<"destroy", g>>)', Has(v, <<"destroy", g>>)'
             PROVE  u = v
  BY DEF OneDestroys
<1>1. \A w \in Threads : Has(w, <<"destroy", g>>)' =>
        (w = t /\ In(<<"destroy", g>>, first)) \/ Has(w, <<"destroy", g>>)
  BY WhoHas
<1> QED BY <1>1 DEF OneDestroys

-----------------------------------------------------------------------------
(* What the next step of a call is, and what follows from the invariant.   *)

\* A step is what its name says.
LEMMA StepForms ==
  ASSUME NEW s \in Steps
  PROVE  /\ s[1] \in {"begin", "end"} => s = <<s[1], s[2]>> /\ s[2] \in Futures
         /\ s[1] \in {"done", "clear", "added", "wait"} => s = <<s[1], s[2]>> /\ s[2] \in Waitables
         /\ s[1] \in {"empty", "destroy"} => s = <<s[1], s[2]>> /\ s[2] \in Groups
         /\ s[1] = "task_done" => /\ s = <<"task_done", s[2], s[3]>>
                                  /\ s[2] \in Groups /\ s[3] \in Waitables
         /\ s[1] \in {"begin", "end", "done", "clear", "added", "wait", "empty", "destroy",
                      "task_done"}
<1>1. CASE s \in {"begin", "end"} \X Futures
  BY <1>1
<1>2. CASE s \in {"done", "clear", "added", "wait"} \X Waitables
  BY <1>2
<1>3. CASE s \in {"empty", "destroy"} \X Groups
  BY <1>3
<1>4. CASE s \in {"task_done"} \X Groups \X Waitables
  BY <1>4
<1> QED BY <1>1, <1>2, <1>3, <1>4 DEF Steps

\* And every such name is a step.
LEMMA FormsOfSteps ==
  /\ \A f \in Futures : <<"begin", f>> \in Steps /\ <<"done", f>> \in Steps /\ <<"end", f>> \in Steps
  /\ \A x \in Waitables : /\ <<"done", x>> \in Steps /\ <<"clear", x>> \in Steps
                          /\ <<"added", x>> \in Steps /\ <<"wait", x>> \in Steps
  /\ \A g \in Groups : <<"empty", g>> \in Steps /\ <<"destroy", g>> \in Steps
  /\ \A g \in Groups, x \in Waitables : <<"task_done", g, x>> \in Steps
<1>1. \A f \in Futures : <<"begin", f>> \in Steps /\ <<"end", f>> \in Steps
  BY DEF Steps
<1>2. \A x \in Waitables : /\ <<"done", x>> \in Steps /\ <<"clear", x>> \in Steps
                           /\ <<"added", x>> \in Steps /\ <<"wait", x>> \in Steps
  BY DEF Steps
<1>3. \A g \in Groups : <<"empty", g>> \in Steps /\ <<"destroy", g>> \in Steps
  BY DEF Steps
<1>4. \A g \in Groups, x \in Waitables : <<"task_done", g, x>> \in Steps
  BY DEF Steps
<1> QED BY <1>1, <1>2, <1>3, <1>4 DEF Waitables

\* The next step of a call is ready.
LEMMA NextStep ==
  ASSUME GroupTypeOK, Orderly, StepsAreReady, NEW t \in Threads, NEW op, NEW x, NextIs(t, op, x)
  PROVE  \E s \in Steps : /\ Made(t, s) /\ Has(t, s) /\ Ready(t, s) /\ s[1] = op /\ s[2] = x
                          /\ op # "task_done" => s = <<op, x>>
                          /\ op = "task_done" => s = <<op, x, s[3]>>
<1> DEFINE s == Head(todo[t])
<1>1. Made(t, s) /\ s[1] = op /\ s[2] = x
  BY DEF Made, NextIs
<1>2. s \in Steps /\ Has(t, s)
  BY <1>1, NothingBeforeFirst
<1>3. Ready(t, s)
  BY <1>2 DEF StepsAreReady
<1>4. (op # "task_done" => s = <<op, x>>) /\ (op = "task_done" => s = <<op, x, s[3]>>)
  BY <1>1, <1>2, StepForms
<1> QED BY <1>1, <1>2, <1>3, <1>4

\* A call that goes on moves its thread and no other.
LEMMA ThenMoves ==
  ASSUME GroupTypeOK, NEW t \in Threads, todo[t] # <<>>, NEW first \in Seq(Steps), Then(t, first)
  PROVE  /\ Moves(t, first) /\ todo' \in [Threads -> Seq(Steps)]
         /\ \A u \in Threads \ {t} : todo'[u] = todo[u]
         /\ \A u \in Threads, x \in Waitables :
              u # t /\ todo[u] = <<>> => todo'[u] # <<<<"wait", x>>>>
<1>1. Rest(t) = Tail(todo[t]) /\ Rest(t) \in Seq(Steps)
  BY RestOfCall DEF Rest
<1>2. first \o Rest(t) \in Seq(Steps)
  BY <1>1, ConcatProperties
<1>3. todo' = [todo EXCEPT ![t] = first \o Rest(t)]
  BY <1>1 DEF Then, Do
<1>4. todo \in [Threads -> Seq(Steps)]
  BY DEF GroupTypeOK
<1>5. \A x : <<>> # <<<<"wait", x>>>>
  OBVIOUS
<1> QED BY <1>2, <1>3, <1>4, <1>5 DEF Moves

\* So does one that begins.
LEMMA DoMoves ==
  ASSUME GroupTypeOK, NEW t \in Threads, todo[t] = <<>>, NEW first \in Seq(Steps), Do(t, first)
  PROVE  /\ Moves(t, first) /\ todo' \in [Threads -> Seq(Steps)]
         /\ \A u \in Threads \ {t} : todo'[u] = todo[u]
         /\ \A u \in Threads, x \in Waitables :
              u # t /\ todo[u] = <<>> => todo'[u] # <<<<"wait", x>>>>
<1>1. Rest(t) = <<>> /\ first \o <<>> = first
  BY ConcatEmptySeq DEF Rest
<1>2. todo \in [Threads -> Seq(Steps)]
  BY DEF GroupTypeOK
<1>3. \A x : <<>> # <<<<"wait", x>>>>
  OBVIOUS
<1> QED BY <1>1, <1>2, <1>3 DEF Moves, Do

\* A notification wakes who sleeps on x, and nobody else has anything new to do.
LEMMA NotifyMoves ==
  ASSUME GroupTypeOK, Sleepers, NEW t \in Threads, todo[t] # <<>>, NEW x \in Waitables, Notify(t, x),
         UNCHANGED holders
  PROVE  /\ Moves(t, <<>>) /\ todo' \in [Threads -> Seq(Steps)]
         /\ asleep' \in [Clients -> Waitables \cup {Nobody}]
         /\ \A u \in Threads, y \in Waitables :
              u # t /\ todo[u] = <<>> /\ todo'[u] = <<<<"wait", y>>>> =>
                y = x /\ u \in Clients /\ (x \in Groups => u \in holders[x])
         /\ Sleepers'
<1> DEFINE woken == {c \in Clients : asleep[c] = x}
<1>0. /\ todo \in [Threads -> Seq(Steps)] /\ asleep \in [Clients -> Waitables \cup {Nobody}]
      /\ x # Nobody /\ Clients \subseteq Threads
  BY WaitGroupAssumption DEF GroupTypeOK, Threads
<1>1. Rest(t) = Tail(todo[t]) /\ Rest(t) \in Seq(Steps) /\ <<>> \o Rest(t) = Rest(t)
  BY RestOfCall, ConcatEmptySeq DEF Rest
<1>2. /\ asleep' = [c \in Clients |-> IF c \in woken THEN Nobody ELSE asleep[c]]
      /\ todo' = [u \in Threads |-> IF u = t THEN Rest(t)
                                    ELSE IF u \in woken THEN <<<<"wait", x>>>> ELSE todo[u]]
  BY <1>1 DEF Notify
<1>3. \A c \in woken : todo[c] = <<>> /\ (x \in Groups => c \in holders[x])
  BY <1>0 DEF Sleepers
<1>3a. <<"wait", x>> \in Steps
  BY FormsOfSteps
<1>4. <<<<"wait", x>>>> \in Seq(Steps)
  BY <1>3a
<1>5. todo' \in [Threads -> Seq(Steps)] /\ asleep' \in [Clients -> Waitables \cup {Nobody}]
  BY <1>0, <1>1, <1>2, <1>4
<1>6. todo'[t] = <<>> \o Rest(t)
  BY <1>1, <1>2
<1>7. \A u \in Threads \ {t} :
        todo'[u] = todo[u] \/ (todo[u] = <<>> /\ \E y \in Waitables : todo'[u] = <<<<"wait", y>>>>)
  BY <1>2, <1>3
<1>8. \A u \in Threads, y \in Waitables :
        u # t /\ todo[u] = <<>> /\ todo'[u] = <<<<"wait", y>>>> =>
          y = x /\ u \in Clients /\ (x \in Groups => u \in holders[x])
  <2> SUFFICES ASSUME NEW u \in Threads, NEW y \in Waitables,
                      u # t, todo[u] = <<>>, todo'[u] = <<<<"wait", y>>>>
               PROVE  y = x /\ u \in Clients /\ (x \in Groups => u \in holders[x])
    OBVIOUS
  <2>1. u \in woken
    BY <1>2
  <2>2. <<<<"wait", y>>>> = <<<<"wait", x>>>>
    BY <1>2, <2>1
  <2> QED BY <1>3, <2>1, <2>2
<1>9. Sleepers'
  <2> SUFFICES ASSUME NEW c \in Clients, asleep'[c] # Nobody
               PROVE  todo'[c] = <<>> /\ (asleep'[c] \in Groups => c \in holders'[asleep'[c]])
    BY DEF Sleepers
  <2>1. c \notin woken /\ asleep'[c] = asleep[c]
    BY <1>2
  <2>2. todo[c] = <<>> /\ (asleep[c] \in Groups => c \in holders[asleep[c]])
    BY <2>1 DEF Sleepers
  <2> QED BY <1>0, <1>2, <2>1, <2>2
<1> QED BY <1>5, <1>6, <1>7, <1>8, <1>9 DEF Moves

\* Steps that are in order are there.
LEMMA BeforeIsThere ==
  ASSUME NEW t, NEW s, NEW r, Before(t, s, r)
  PROVE  Has(t, s) /\ Has(t, r)
  BY DEF Before, Has

\* Reports and destructions to come, by who makes them.
LEMMA PendingAndDying ==
  /\ \A g : Pending(g) = {x \in Waitables : \E t \in Threads : Has(t, <<"task_done", g, x>>)}
  /\ \A g : Dying(g) <=> \E t \in Threads : Has(t, <<"destroy", g>>)
  /\ \A g : Pending(g)' = {x \in Waitables : \E t \in Threads : Has(t, <<"task_done", g, x>>)'}
  /\ \A g : Dying(g)' <=> \E t \in Threads : Has(t, <<"destroy", g>>)'
  BY DEF Pending, Dying, Has

\* A waitable that reports to a group is locked, and waits with it.
LEMMA ReportFacts ==
  ASSUME GroupInv, NEW t \in Threads, NEW g \in Groups, NEW x \in Waitables,
         Has(t, <<"task_done", g, x>>)
  PROVE  /\ Before(t, <<"task_done", g, x>>, <<"clear", x>>)
         /\ Has(t, <<"clear", x>>) /\ base[x] = t /\ done[x]
         /\ x \in tasks[g] /\ WaitsWith(x, g) /\ g \in alive
<1> DEFINE s == <<"task_done", g, x>>
<1>1. s \in Steps /\ <<"clear", x>> \in Steps
  BY FormsOfSteps
<1>2. Ready(t, s) /\ Needy(s)
  BY <1>1 DEF GroupInv, StepsAreReady, Needy
<1>3. PICK r \in Steps : Before(t, s, r) /\ Backs(t, s, r)
  BY <1>1, <1>2 DEF GroupInv, Backed
<1>4. r = <<"clear", x>>
  BY <1>3 DEF Backs
<1>5. Has(t, <<"clear", x>>)
  BY <1>3, <1>4, BeforeIsThere
<1>6. Ready(t, <<"clear", x>>)
  BY <1>1, <1>5 DEF GroupInv, StepsAreReady
<1> QED BY <1>2, <1>3, <1>4, <1>5, <1>6 DEF Ready

\* Who is to unlock the mutex of a waitable has it.
LEMMA BaseFacts ==
  ASSUME GroupInv, NEW t \in Threads, NEW x \in Waitables
  PROVE  /\ Has(t, <<"clear", x>>) => /\ base[x] = t /\ done[x] /\ ~ Has(t, <<"added", x>>)
                                      /\ x \in Groups => x \in alive
         /\ Has(t, <<"added", x>>) => /\ base[x] = t /\ ~ Has(t, <<"clear", x>>)
                                      /\ x \in Groups => x \in alive
<1>1. <<"added", x>> \in Steps /\ <<"clear", x>> \in Steps
  BY FormsOfSteps
<1>2. /\ Has(t, <<"clear", x>>) => Ready(t, <<"clear", x>>)
      /\ Has(t, <<"added", x>>) => Ready(t, <<"added", x>>)
  BY <1>1 DEF GroupInv, StepsAreReady
<1>3. ~ (Has(t, <<"clear", x>>) /\ Has(t, <<"added", x>>))
  BY DEF GroupInv, Orderly
<1> QED BY <1>2, <1>3 DEF Ready

\* The steps that complete a group are made with its mutex, before what keeps it in being.
LEMMA CompletionFacts ==
  ASSUME GroupInv, NEW t \in Threads, NEW g \in Groups
  PROVE  /\ Has(t, <<"done", g>>) => Before(t, <<"done", g>>, <<"empty", g>>)
         /\ Has(t, <<"clear", g>>) => Before(t, <<"clear", g>>, <<"empty", g>>)
         /\ Has(t, <<"empty", g>>) =>
              /\ own[g] = t /\ g \in alive
              /\ \E x \in tasks[g] :
                   \/ Before(t, <<"empty", g>>, <<"clear", x>>) /\ WaitsWith(x, g)
                   \/ Before(t, <<"empty", g>>, <<"added", x>>) /\ t \in holders[g]
         /\ Has(t, <<"done", g>>) \/ Has(t, <<"clear", g>>) => Has(t, <<"empty", g>>)
<1>1. /\ <<"done", g>> \in Steps /\ <<"clear", g>> \in Steps /\ <<"empty", g>> \in Steps
      /\ g \in Waitables
  BY FormsOfSteps DEF Waitables
<1>2. ASSUME NEW op \in {"done", "clear"}, Has(t, <<op, g>>)
      PROVE  Before(t, <<op, g>>, <<"empty", g>>)
  <2>1. Needy(<<op, g>>) /\ <<op, g>> \in Steps
    BY <1>1 DEF Needy
  <2>2. PICK r \in Steps : Before(t, <<op, g>>, r) /\ Backs(t, <<op, g>>, r)
    BY <1>2, <2>1 DEF GroupInv, Backed
  <2>3. r = <<"empty", g>>
    BY <2>2 DEF Backs
  <2> QED BY <2>2, <2>3
<1>3. ASSUME Has(t, <<"empty", g>>)
      PROVE  /\ own[g] = t /\ g \in alive
             /\ \E x \in tasks[g] :
                  \/ Before(t, <<"empty", g>>, <<"clear", x>>) /\ WaitsWith(x, g)
                  \/ Before(t, <<"empty", g>>, <<"added", x>>) /\ t \in holders[g]
  <2>1. Ready(t, <<"empty", g>>) /\ Needy(<<"empty", g>>)
    BY <1>1, <1>3 DEF GroupInv, StepsAreReady, Needy
  <2>2. PICK r \in Steps : Before(t, <<"empty", g>>, r) /\ Backs(t, <<"empty", g>>, r)
    BY <1>1, <1>3, <2>1 DEF GroupInv, Backed
  <2>3. \E x \in tasks[g] : \/ r = <<"clear", x>> /\ WaitsWith(x, g)
                            \/ r = <<"added", x>> /\ t \in holders[g]
    BY <2>2 DEF Backs
  <2> QED BY <2>1, <2>2, <2>3 DEF Ready
<1>4. Has(t, <<"done", g>>) \/ Has(t, <<"clear", g>>) => Has(t, <<"empty", g>>)
  BY <1>2, BeforeIsThere
<1> QED BY <1>2, <1>3, <1>4

\* Nobody uses a group that is destroyed once it has left the waitables it waits with, but
\* the thread that destroys it.
LEMMA NobodyUsesTheDying ==
  ASSUME GroupInv, NEW t \in Threads, NEW g \in Groups, Has(t, <<"destroy", g>>),
         \A x \in tasks[g] : ~ WaitsWith(x, g),
         NEW u \in Threads, NEW s \in Steps, Has(u, s), s[2] = g
  PROVE  u = t /\ s = <<"destroy", g>>
<1>0. /\ <<"destroy", g>> \in Steps /\ g \in Waitables /\ g \notin Futures
      /\ tasks[g] \subseteq Waitables
  BY FormsOfSteps, WaitGroupAssumption DEF Waitables, GroupInv, GroupTypeOK
<1>1. g \in alive /\ holders[g] = {} /\ \A p \in alive : g \notin tasks[p]
  BY <1>0 DEF GroupInv, StepsAreReady, Ready
<1>2. Ready(u, s)
  BY DEF GroupInv, StepsAreReady
<1>3. s[1] \notin {"begin", "end"}
  BY <1>0, StepForms
<1>4. s[1] # "task_done"
  <2> SUFFICES ASSUME s[1] = "task_done" PROVE FALSE
    OBVIOUS
  <2>1. s[3] \in tasks[g] /\ WaitsWith(s[3], g)
    BY <1>2 DEF Ready
  <2> QED BY <2>1
<1>5. ~ Has(u, <<"empty", g>>)
  BY <1>1, CompletionFacts
<1>6. s[1] \notin {"empty", "done", "clear"}
  <2>1. s[1] \in {"empty", "done", "clear"} => s = <<s[1], g>>
    BY StepForms
  <2>2. ~ Has(u, <<"done", g>>) /\ ~ Has(u, <<"clear", g>>)
    BY <1>5, CompletionFacts
  <2> QED BY <1>5, <2>1, <2>2
<1>7. s[1] # "added"
  <2> SUFFICES ASSUME s[1] = "added" PROVE FALSE
    OBVIOUS
  <2>1. PICK p \in Groups : u \in holders[p] /\ g \in tasks[p]
    BY <1>2 DEF Ready
  <2>2. p \in alive
    BY <2>1 DEF GroupInv, References
  <2> QED BY <1>1, <2>1, <2>2
<1>8. s[1] # "wait"
  BY <1>1, <1>2 DEF Ready
<1>9. s[1] = "destroy" /\ s = <<"destroy", g>>
  BY <1>3, <1>4, <1>6, <1>7, <1>8, StepForms
<1> QED BY <1>9 DEF GroupInv, OneDestroys

-----------------------------------------------------------------------------
(* Moves that leave the lists and the members of groups as they are.       *)

\* no report is made or promised by a move
NoReport(t, first) ==
  \A g \in Groups, x \in Waitables :
    ~ Made(t, <<"task_done", g, x>>) /\ ~ In(<<"task_done", g, x>>, first)

\* Without a report, what a group still hears of stays.
LEMMA SameReports ==
  ASSUME GroupTypeOK, Orderly, NEW t \in Threads, NEW first \in Seq(Steps), Moves(t, first),
         NoReport(t, first), NEW g \in Groups
  PROVE  Pending(g)' = Pending(g)
<1>1. \A x \in Waitables, u \in Threads :
        Has(u, <<"task_done", g, x>>)' <=> Has(u, <<"task_done", g, x>>)
  <2> SUFFICES ASSUME NEW x \in Waitables
               PROVE  \A u \in Threads :
                        Has(u, <<"task_done", g, x>>)' <=> Has(u, <<"task_done", g, x>>)
    OBVIOUS
  <2> DEFINE s == <<"task_done", g, x>>
  <2>1. s[1] # "wait" /\ ~ Made(t, s) /\ ~ In(s, first)
    BY DEF NoReport
  <2> HIDE DEF s
  <2>2. \A u \in Threads : Has(u, s)' <=> Has(u, s)
    BY <2>1, WhoHas
  <2> QED BY <2>2 DEF s
<1> QED BY <1>1, PendingAndDying

\* Counts stay right when nothing is reported, and nothing leaves a living group.
LEMMA CountedAfter ==
  ASSUME GroupInv, NEW t \in Threads, NEW first \in Seq(Steps), Moves(t, first),
         NoReport(t, first), UNCHANGED <<tasks, count, done>>, alive' \subseteq alive,
         \A g \in alive' : ~ Made(t, <<"destroy", g>>),
         \A g \in alive', x \in Waitables :
           ~ Dying(g) /\ ~ done[x] /\ WaitsWith(x, g) => WaitsWith(x, g)'
  PROVE  Counted'
<1> SUFFICES ASSUME NEW g \in alive', ~ Dying(g)'
             PROVE  /\ count'[g] = Cardinality(Owed(g)')
                    /\ \A x \in tasks'[g] : ~ done'[x] => WaitsWith(x, g)'
  BY DEF Counted
<1>0. GroupTypeOK /\ Orderly /\ g \in alive /\ g \in Groups /\ tasks[g] \subseteq Waitables
  BY DEF GroupInv, GroupTypeOK
<1>1. ~ Dying(g)
  <2> DEFINE s == <<"destroy", g>>
  <2>1. s[1] # "wait" /\ ~ Made(t, s)
    OBVIOUS
  <2>2. Dying(g) <=> \E u \in Threads : Has(u, s)
    BY PendingAndDying
  <2>3. Dying(g)' <=> \E u \in Threads : Has(u, s)'
    BY PendingAndDying
  <2> HIDE DEF s
  <2>4. \A u \in Threads : Has(u, s) => Has(u, s)'
    BY <1>0, <2>1, WhoHas
  <2> QED BY <2>2, <2>3, <2>4
<1>2. Pending(g)' = Pending(g)
  BY <1>0, SameReports
<1>3. Owed(g)' = Owed(g)
  BY <1>2 DEF Owed
<1>4. /\ count[g] = Cardinality(Owed(g))
      /\ \A x \in tasks[g] : ~ done[x] => WaitsWith(x, g)
  BY <1>0, <1>1 DEF GroupInv, Counted
<1> QED BY <1>0, <1>1, <1>3, <1>4

\* Lists stay right when neither they nor what they refer to change.
LEMMA ListsAfter ==
  ASSUME GroupInv, NEW t \in Threads, NEW first \in Seq(Steps), Moves(t, first),
         UNCHANGED <<tasks, waitGroups, done, alive>>,
         \A x \in Waitables : ~ Made(t, <<"clear", x>>)
  PROVE  Lists'
<1> SUFFICES ASSUME NEW x \in Waitables, done[x], waitGroups[x] # <<>>
             PROVE  \E u \in Threads : Has(u, <<"clear", x>>)'
  BY DEF GroupInv, Lists
<1>1. PICK u \in Threads : Has(u, <<"clear", x>>)
  BY DEF GroupInv, Lists
<1>2. Has(u, <<"clear", x>>)'
  <2> DEFINE s == <<"clear", x>>
  <2>1. s[1] # "wait" /\ ~ Made(t, s)
    OBVIOUS
  <2> HIDE DEF s
  <2> QED BY <1>1, <2>1, WhoHas DEF s, GroupInv
<1> QED BY <1>2

\* A step that only ends: it leaves the counts and the lists alone, and gives up no mutex that
\* another step relies on.
LEMMA EndingKeepsGroupInv ==
  ASSUME GroupInv, NEW t \in Threads, Moves(t, <<>>), GroupTypeOK', Sleepers',
         UNCHANGED <<tasks, count, done, waitGroups, alive, holders>>,
         NoReport(t, <<>>),
         \A x \in Waitables : ~ Made(t, <<"clear", x>>) /\ ~ Made(t, <<"destroy", x>>),
         \A u \in Threads, g \in Groups :
           Has(u, <<"empty", g>>) /\ ~ (u = t /\ Made(t, <<"empty", g>>)) => own'[g] = own[g],
         \A u \in Threads, x \in Waitables : Has(u, <<"clear", x>>) => base'[x] = base[x],
         \A u \in Threads, x \in Waitables :
           Has(u, <<"added", x>>) /\ ~ (u = t /\ Made(t, <<"added", x>>)) => base'[x] = base[x],
         \A u \in Threads, x \in Waitables :
           u # t /\ todo[u] = <<>> /\ todo'[u] = <<<<"wait", x>>>> =>
             u \in Clients /\ (x \in Groups => u \in holders[x])
  PROVE  GroupInv'
<1>0. /\ GroupTypeOK /\ Orderly /\ StepsAreReady /\ Backed /\ OneDestroys /\ References
      /\ <<>> \in Seq(Steps) /\ \A i \in DOMAIN <<>> : FALSE
  BY DEF GroupInv
<1>1. \A s : ~ In(s, <<>>)
  BY NothingInNothing
<1>2. Orderly'
  <2>1. \A x \in Waitables : ~ (Has(t, <<"clear", x>>)' /\ Has(t, <<"added", x>>)')
    <3> SUFFICES ASSUME NEW x \in Waitables, Has(t, <<"clear", x>>)', Has(t, <<"added", x>>)'
                 PROVE  FALSE
      OBVIOUS
    <3>1. Has(t, <<"clear", x>>) /\ Has(t, <<"added", x>>)
      BY <1>0, <1>1, MovedSteps
    <3> QED BY <3>1, BaseFacts
  <2> QED BY <1>0, <2>1, OrderlyAfter
<1>3. StepsAreReady'
  <2>1. ASSUME NEW u \in Threads, NEW s \in Steps, Has(u, s), Ready(u, s), ~ (u = t /\ Made(t, s))
        PROVE  Ready(u, s)'
    <3>1. s[1] = "clear" => base'[s[2]] = base[s[2]]
      BY <2>1, StepForms
    <3>2. s[1] = "added" => base'[s[2]] = base[s[2]]
      BY <2>1, StepForms
    <3>3. s[1] = "empty" => own'[s[2]] = own[s[2]]
      BY <2>1, StepForms
    <3> QED BY <2>1, <3>1, <3>2, <3>3 DEF Ready, WaitsWith
  <2>2. ASSUME NEW u \in Threads, NEW x \in Waitables,
               u # t, todo[u] = <<>>, todo'[u] = <<<<"wait", x>>>>
        PROVE  Ready(u, <<"wait", x>>)'
    BY <1>0, <2>2 DEF Ready, References
  <2> QED BY <1>0, <2>1, <2>2, ReadyAfter
<1>4. Backed'
  <2>1. \A u \in Threads, s \in Steps, r \in Steps : Backs(u, s, r) => Backs(u, s, r)'
    BY DEF Backs, WaitsWith
  <2> QED BY <1>0, <2>1, BackedAfter
<1>5. OneDestroys'
  BY <1>0, <1>1, OneDestroysAfter
<1>6. Lists'
  BY <1>0, ListsAfter
<1>7. References'
  BY <1>0 DEF References
<1>8. Counted'
  <2>1. \A g \in alive' : ~ Made(t, <<"destroy", g>>)
    BY <1>0 DEF GroupTypeOK, Waitables
  <2>2. \A g \in alive', x \in Waitables : WaitsWith(x, g) => WaitsWith(x, g)'
    BY DEF WaitsWith
  <2> QED BY <1>0, <2>1, <2>2, CountedAfter
<1> QED BY <1>2, <1>3, <1>4, <1>5, <1>6, <1>7, <1>8 DEF GroupInv

\* What only adds continuations or closes a group touches nothing of this.
LEMMA FrameKeepsGroupInv ==
  ASSUME GroupInv, GroupTypeOK',
         UNCHANGED <<todo, asleep, own, base, done, waitGroups, tasks, count, alive, holders>>
  PROVE  GroupInv'
<1>1. Orderly'
  BY DEF GroupInv, Orderly, Has
<1>2. StepsAreReady'
  BY DEF GroupInv, StepsAreReady, Has, Ready, WaitsWith
<1>3. Backed'
  BY DEF GroupInv, Backed, Has, Before, Backs, WaitsWith
<1>4. OneDestroys' /\ Sleepers' /\ References'
  BY DEF GroupInv, OneDestroys, Sleepers, References, Has
<1>5. Lists'
  BY DEF GroupInv, Lists, Has
<1>6. Counted'
  <2>1. \A g : Dying(g)' <=> Dying(g)
    BY DEF Dying
  <2>2. \A g : Pending(g)' = Pending(g)
    BY DEF Pending
  <2>3. \A g : Owed(g)' = Owed(g)
    BY <2>2 DEF Owed
  <2>4. \A x, g : WaitsWith(x, g)' <=> WaitsWith(x, g)
    BY DEF WaitsWith
  <2> QED BY <2>1, <2>3, <2>4 DEF GroupInv, Counted
<1> QED BY <1>1, <1>2, <1>3, <1>4, <1>5, <1>6 DEF GroupInv

-----------------------------------------------------------------------------
(* The steps, one by one.                                                  *)

\* Handing over continuations keeps the types.
LEMMA CallTypes ==
  ASSUME GroupTypeOK, NEW x \in Waitables, Call(x)
  PROVE  maps' \in [Waitables -> Nat] /\ called' \in [Waitables -> BOOLEAN]
  BY DEF GroupTypeOK, Call

\* and_map() and close().
LEMMA AndMapKeepsGroupInv ==
  ASSUME GroupInv, NEW c \in Clients, NEW x \in Waitables, AndMap(c, x) \/ CloseGroup(c, x)
  PROVE  GroupInv'
<1>1. /\ UNCHANGED <<todo, asleep, own, base, done, waitGroups, tasks, count, alive, holders>>
      /\ UNCHANGED called
  BY DEF AndMap, CloseGroup, calls, mutexes, groups, waiting, life, andThen
<1>2. GroupTypeOK
  BY DEF GroupInv
<1>3. maps' \in [Waitables -> Nat] /\ groupClosed' \in [Groups -> BOOLEAN]
  <2>1. CASE AndMap(c, x)
    BY <1>2, <2>1 DEF GroupTypeOK, AndMap, groups
  <2>2. CASE CloseGroup(c, x)
    BY <1>2, <2>2 DEF GroupTypeOK, CloseGroup, andThen
  <2> QED BY <2>1, <2>2
<1>4. GroupTypeOK'
  BY <1>1, <1>2, <1>3 DEF GroupTypeOK
<1> QED BY <1>1, <1>4, FrameKeepsGroupInv

\* The task of a future locks it.
LEMMA BeginStepKeepsGroupInv ==
  ASSUME GroupInv, NEW f \in Futures, BeginStep(f)
  PROVE  GroupInv'
<1>0. /\ GroupTypeOK /\ Orderly /\ StepsAreReady /\ Sleepers
      /\ f \in Threads /\ f \in Waitables /\ f \notin Groups /\ f \notin Clients
      /\ <<>> \in Seq(Steps)
  BY WaitGroupAssumption DEF GroupInv, Threads, Waitables
<1>1. /\ NextIs(f, "begin", f) /\ Then(f, <<>>) /\ own' = [own EXCEPT ![f] = f]
      /\ Call(f) \/ UNCHANGED andThen
      /\ UNCHANGED <<asleep, base, tasks, count, groupClosed, done, waitGroups, alive, holders>>
  BY DEF BeginStep, Lock, groups, waiting, life
<1>2. PICK s \in Steps : Made(f, s) /\ s = <<"begin", f>>
  BY <1>0, <1>1, NextStep
<1>3. Made(f, <<"begin", f>>) /\ todo[f] # <<>>
  BY <1>2 DEF Made
<1>4. /\ Moves(f, <<>>) /\ todo' \in [Threads -> Seq(Steps)]
      /\ \A u \in Threads \ {f} : todo'[u] = todo[u]
      /\ \A u \in Threads, x \in Waitables :
           u # f /\ todo[u] = <<>> => todo'[u] # <<<<"wait", x>>>>
  BY <1>0, <1>1, <1>3, ThenMoves
<1>5. GroupTypeOK'
  <2>1. maps' \in [Waitables -> Nat] /\ called' \in [Waitables -> BOOLEAN]
    BY <1>0, <1>1, CallTypes DEF andThen, GroupTypeOK
  <2>2. own' \in [Waitables -> Threads \cup {Nobody}]
    BY <1>0, <1>1 DEF GroupTypeOK
  <2> QED BY <1>0, <1>1, <1>4, <2>1, <2>2 DEF GroupTypeOK
<1>6. Sleepers'
  BY <1>0, <1>1, <1>4 DEF Sleepers, Threads
<1>7. \A x : /\ ~ Made(f, <<"clear", x>>) /\ ~ Made(f, <<"destroy", x>>)
             /\ \A y : ~ Made(f, <<"task_done", x, y>>)
  BY <1>3 DEF Made
<1>8. NoReport(f, <<>>)
  BY <1>7, NothingInNothing DEF NoReport
<1>9. \A g \in Groups : own'[g] = own[g]
  BY <1>0, <1>1 DEF GroupTypeOK, Waitables
<1> QED BY <1>0, <1>1, <1>4, <1>5, <1>6, <1>7, <1>8, <1>9, EndingKeepsGroupInv

\* The step that t makes is the one its name says, and no other.
LEMMA TheStep ==
  ASSUME GroupInv, NEW t \in Threads, NEW op, NEW x, NextIs(t, op, x), op # "task_done"
  PROVE  /\ todo[t] # <<>> /\ <<op, x>> \in Steps /\ Has(t, <<op, x>>) /\ Ready(t, <<op, x>>)
         /\ \A s : Made(t, s) <=> s = <<op, x>>
         /\ NoReport(t, <<>>)
         /\ <<>> \in Seq(Steps)
<1>1. PICK s \in Steps : Made(t, s) /\ Has(t, s) /\ Ready(t, s) /\ s = <<op, x>>
  BY NextStep DEF GroupInv
<1>2. \A r : Made(t, r) <=> r = <<op, x>>
  BY <1>1 DEF Made
<1>3. NoReport(t, <<>>)
  BY <1>2, NothingInNothing DEF NoReport
<1> QED BY <1>1, <1>2, <1>3 DEF Made

\* It unlocks the future and wakes those who sleep on it.
LEMMA EndStepKeepsGroupInv ==
  ASSUME GroupInv, NEW f \in Futures, EndStep(f)
  PROVE  GroupInv'
<1>0. /\ GroupTypeOK /\ Sleepers
      /\ f \in Threads /\ f \in Waitables /\ f \notin Groups
  BY WaitGroupAssumption DEF GroupInv, Threads, Waitables
<1>1. /\ NextIs(f, "end", f) /\ Notify(f, f) /\ own' = [own EXCEPT ![f] = Nobody]
      /\ Call(f) \/ UNCHANGED andThen
      /\ UNCHANGED <<base, tasks, count, groupClosed, done, waitGroups, alive, holders>>
  BY DEF EndStep, Unlock, groups, waiting, life
<1>2. /\ todo[f] # <<>> /\ \A s : Made(f, s) <=> s = <<"end", f>>
      /\ NoReport(f, <<>>)
  BY <1>0, <1>1, TheStep
<1>3. /\ Moves(f, <<>>) /\ todo' \in [Threads -> Seq(Steps)]
      /\ asleep' \in [Clients -> Waitables \cup {Nobody}]
      /\ \A u \in Threads, y \in Waitables :
           u # f /\ todo[u] = <<>> /\ todo'[u] = <<<<"wait", y>>>> =>
             y = f /\ u \in Clients /\ (f \in Groups => u \in holders[f])
      /\ Sleepers'
  BY <1>0, <1>1, <1>2, NotifyMoves
<1>4. GroupTypeOK'
  <2>1. maps' \in [Waitables -> Nat] /\ called' \in [Waitables -> BOOLEAN]
    BY <1>0, <1>1, CallTypes DEF andThen, GroupTypeOK
  <2>2. own' \in [Waitables -> Threads \cup {Nobody}]
    BY <1>0, <1>1 DEF GroupTypeOK
  <2> QED BY <1>0, <1>1, <1>3, <2>1, <2>2 DEF GroupTypeOK
<1>5. \A x : ~ Made(f, <<"clear", x>>) /\ ~ Made(f, <<"destroy", x>>)
  BY <1>2
<1>6. \A g \in Groups : own'[g] = own[g]
  BY <1>0, <1>1 DEF GroupTypeOK, Waitables
<1>7. \A u \in Threads, x \in Waitables :
        u # f /\ todo[u] = <<>> /\ todo'[u] = <<<<"wait", x>>>> =>
          u \in Clients /\ (x \in Groups => u \in holders[x])
  BY <1>0, <1>3
<1> QED BY <1>0, <1>1, <1>2, <1>3, <1>4, <1>5, <1>6, <1>7, EndingKeepsGroupInv

\* A group without tasks to wait for wakes those who sleep on it: the mutex is its own.
LEMMA EmptyStepKeepsGroupInv ==
  ASSUME GroupInv, NEW t \in Threads, NEW g \in Groups, EmptyStep(t, g)
  PROVE  GroupInv'
<1>0. GroupTypeOK /\ Sleepers /\ g \in Waitables
  BY DEF GroupInv, Waitables
<1>1. /\ NextIs(t, "empty", g) /\ Notify(t, g) /\ own' = [own EXCEPT ![g] = Nobody]
      /\ Call(g) \/ UNCHANGED andThen
      /\ UNCHANGED <<base, tasks, count, groupClosed, done, waitGroups, alive, holders>>
  BY DEF EmptyStep, Unlock, groups, waiting, life
<1>2. /\ todo[t] # <<>> /\ \A s : Made(t, s) <=> s = <<"empty", g>>
      /\ NoReport(t, <<>>) /\ Has(t, <<"empty", g>>)
  BY <1>0, <1>1, TheStep
<1>3. /\ Moves(t, <<>>) /\ todo' \in [Threads -> Seq(Steps)]
      /\ asleep' \in [Clients -> Waitables \cup {Nobody}]
      /\ \A u \in Threads, y \in Waitables :
           u # t /\ todo[u] = <<>> /\ todo'[u] = <<<<"wait", y>>>> =>
             y = g /\ u \in Clients /\ (g \in Groups => u \in holders[g])
      /\ Sleepers'
  BY <1>0, <1>1, <1>2, NotifyMoves
<1>4. GroupTypeOK'
  <2>1. maps' \in [Waitables -> Nat] /\ called' \in [Waitables -> BOOLEAN]
    BY <1>0, <1>1, CallTypes DEF andThen, GroupTypeOK
  <2>2. own' \in [Waitables -> Threads \cup {Nobody}]
    BY <1>0, <1>1 DEF GroupTypeOK
  <2> QED BY <1>0, <1>1, <1>3, <2>1, <2>2 DEF GroupTypeOK
<1>5. \A x : ~ Made(t, <<"clear", x>>) /\ ~ Made(t, <<"destroy", x>>)
  BY <1>2
<1>6. ASSUME NEW u \in Threads, NEW h \in Groups, Has(u, <<"empty", h>>),
             ~ (u = t /\ Made(t, <<"empty", h>>))
      PROVE  own'[h] = own[h]
  <2>1. own[h] = u /\ own[g] = t
    BY <1>2, <1>6, CompletionFacts
  <2>2. h # g
    BY <1>2, <1>6, <2>1
  <2> QED BY <1>0, <1>1, <2>2 DEF GroupTypeOK
<1>7. \A u \in Threads, x \in Waitables :
        u # t /\ todo[u] = <<>> /\ todo'[u] = <<<<"wait", x>>>> =>
          u \in Clients /\ (x \in Groups => u \in holders[x])
  BY <1>0, <1>3
<1> QED BY <1>0, <1>1, <1>2, <1>3, <1>4, <1>5, <1>6, <1>7, EndingKeepsGroupInv

\* add() of a waitable that is done gives up its mutex last.
LEMMA AddedStepKeepsGroupInv ==
  ASSUME GroupInv, NEW t \in Threads, NEW x \in Waitables, AddedStep(t, x)
  PROVE  GroupInv'
<1>0. GroupTypeOK /\ Sleepers
  BY DEF GroupInv
<1>1. /\ NextIs(t, "added", x) /\ Then(t, <<>>) /\ base' = [base EXCEPT ![x] = Nobody]
      /\ UNCHANGED <<asleep, own, tasks, count, groupClosed, done, waitGroups, alive, holders,
                     maps, called>>
  BY DEF AddedStep, Unlock, groups, waiting, life, andThen
<1>2. /\ todo[t] # <<>> /\ \A s : Made(t, s) <=> s = <<"added", x>>
      /\ NoReport(t, <<>>) /\ Has(t, <<"added", x>>) /\ <<>> \in Seq(Steps)
  BY <1>0, <1>1, TheStep
<1>3. /\ Moves(t, <<>>) /\ todo' \in [Threads -> Seq(Steps)]
      /\ \A u \in Threads \ {t} : todo'[u] = todo[u]
      /\ \A u \in Threads, y \in Waitables :
           u # t /\ todo[u] = <<>> => todo'[u] # <<<<"wait", y>>>>
  BY <1>0, <1>1, <1>2, ThenMoves
<1>4. GroupTypeOK'
  BY <1>0, <1>1, <1>3 DEF GroupTypeOK
<1>5. Sleepers'
  BY <1>0, <1>1, <1>2, <1>3 DEF Sleepers, Threads
<1>6. \A y : ~ Made(t, <<"clear", y>>) /\ ~ Made(t, <<"destroy", y>>)
  BY <1>2
<1>7. \A y \in Waitables : y # x => base'[y] = base[y]
  BY <1>0, <1>1 DEF GroupTypeOK
<1>8. base[x] = t /\ ~ Has(t, <<"clear", x>>)
  BY <1>2, BaseFacts
<1>9. ASSUME NEW u \in Threads, NEW y \in Waitables, Has(u, <<"clear", y>>)
      PROVE  base'[y] = base[y]
  <2>1. base[y] = u
    BY <1>9, BaseFacts
  <2> QED BY <1>7, <1>8, <1>9, <2>1
<1>10. ASSUME NEW u \in Threads, NEW y \in Waitables, Has(u, <<"added", y>>),
              ~ (u = t /\ Made(t, <<"added", y>>))
       PROVE  base'[y] = base[y]
  <2>1. base[y] = u
    BY <1>10, BaseFacts
  <2> QED BY <1>2, <1>7, <1>8, <1>10, <2>1
<1> QED BY <1>0, <1>1, <1>2, <1>3, <1>4, <1>5, <1>6, <1>9, <1>10, EndingKeepsGroupInv

\* A client that sleeps on a group holds it.
LEMMA WaitStepKeepsGroupInv ==
  ASSUME GroupInv, NEW c \in Clients, NEW x \in Waitables, WaitStep(c, x)
  PROVE  GroupInv'
<1>0. GroupTypeOK /\ Orderly /\ Sleepers /\ c \in Threads
  BY DEF GroupInv, Threads
<1>1. /\ NextIs(c, "wait", x) /\ Then(c, <<>>)
      /\ asleep' = [asleep EXCEPT ![c] = IF Over(x) THEN Nobody ELSE x]
      /\ UNCHANGED <<own, base, tasks, count, groupClosed, done, waitGroups, alive, holders,
                     maps, called>>
  BY DEF WaitStep, mutexes, groups, waiting, life, andThen
<1>2. /\ todo[c] # <<>> /\ \A s : Made(c, s) <=> s = <<"wait", x>>
      /\ NoReport(c, <<>>) /\ Has(c, <<"wait", x>>) /\ Ready(c, <<"wait", x>>)
      /\ <<>> \in Seq(Steps)
  BY <1>0, <1>1, TheStep
<1>3. /\ Moves(c, <<>>) /\ todo' \in [Threads -> Seq(Steps)]
      /\ \A u \in Threads \ {c} : todo'[u] = todo[u]
      /\ \A u \in Threads, y \in Waitables :
           u # c /\ todo[u] = <<>> => todo'[u] # <<<<"wait", y>>>>
  BY <1>0, <1>1, <1>2, ThenMoves
<1>4. asleep' \in [Clients -> Waitables \cup {Nobody}]
  BY <1>0, <1>1 DEF GroupTypeOK
<1>5. GroupTypeOK'
  BY <1>0, <1>1, <1>3, <1>4 DEF GroupTypeOK
<1>6. todo'[c] = <<>>
  <2>1. Len(todo[c]) = 1 /\ todo[c] # <<>>
    BY <1>0, <1>2 DEF Orderly, Has
  <2>2. Len(Rest(c)) = 0 /\ Rest(c) \in Seq(Steps)
    BY <1>0, <2>1, RestOfCall
  <2>3. Rest(c) = <<>>
    BY <2>2, EmptySeq
  <2> QED BY <1>3, <2>3 DEF Moves
<1>7. Sleepers'
  <2> SUFFICES ASSUME NEW d \in Clients, asleep'[d] # Nobody
               PROVE  todo'[d] = <<>> /\ (asleep'[d] \in Groups => d \in holders'[asleep'[d]])
    BY DEF Sleepers
  <2>1. CASE d = c
    <3>1. asleep'[d] = x
      BY <1>0, <1>1, <2>1 DEF GroupTypeOK
    <3> QED BY <1>1, <1>2, <1>6, <2>1, <3>1 DEF Ready
  <2>2. CASE d # c
    <3>1. asleep'[d] = asleep[d] /\ todo'[d] = todo[d]
      BY <1>0, <1>1, <1>3, <2>2 DEF GroupTypeOK, Threads
    <3> QED BY <1>0, <1>1, <3>1 DEF Sleepers
  <2> QED BY <2>1, <2>2
<1>8. \A y : ~ Made(c, <<"clear", y>>) /\ ~ Made(c, <<"destroy", y>>)
  BY <1>2
<1> QED BY <1>0, <1>1, <1>2, <1>3, <1>5, <1>7, <1>8, EndingKeepsGroupInv

\* A count that is no greater than size_t holds does not wrap.
LEMMA SmallMod ==
  ASSUME NEW i \in Nat, NEW n \in Nat, i < n
  PROVE  i % n = i
  BY Z3

\* Who reports takes one off the count of what the group is owed.
LEMMA ReportIsCounted ==
  ASSUME GroupInv, NEW t \in Threads, NEW first \in Seq(Steps), Moves(t, first),
         NEW g \in Groups, NEW x \in Waitables, Made(t, <<"task_done", g, x>>),
         \A h, y : ~ In(<<"task_done", h, y>>, first),
         UNCHANGED <<tasks, done, waitGroups, alive>>,
         count' = [count EXCEPT ![g] = (@ - 1) % WordSize]
  PROVE  Counted'
<1> DEFINE report == <<"task_done", g, x>>
<1>0. GroupTypeOK /\ Orderly
  BY DEF GroupInv
<1>1. Has(t, report) /\ report \in Steps
  BY <1>0, NothingBeforeFirst
<1>2. base[x] = t /\ done[x] /\ x \in tasks[g]
  BY <1>1, ReportFacts
<1>3. \A h \in Groups, y \in Waitables, u \in Threads :
        Has(u, <<"task_done", h, y>>)' <=>
          Has(u, <<"task_done", h, y>>) /\ ~ (u = t /\ h = g /\ y = x)
  <2> SUFFICES ASSUME NEW h \in Groups, NEW y \in Waitables
               PROVE  \A u \in Threads : Has(u, <<"task_done", h, y>>)' <=>
                        Has(u, <<"task_done", h, y>>) /\ ~ (u = t /\ h = g /\ y = x)
    OBVIOUS
  <2> DEFINE s == <<"task_done", h, y>>
  <2>1. s[1] # "wait" /\ ~ In(s, first)
    OBVIOUS
  <2>2. Made(t, s) <=> h = g /\ y = x
    BY DEF Made
  <2> HIDE DEF s
  <2>3. \A u \in Threads : Has(u, s)' <=> Has(u, s) /\ ~ (u = t /\ Made(t, s))
    BY <1>0, <2>1, WhoHas
  <2> QED BY <2>2, <2>3 DEF s
<1>4. \A u \in Threads : Has(u, report) => u = t
  BY <1>2, ReportFacts
<1>5. \A h \in Groups : Pending(h)' = IF h = g THEN Pending(h) \ {x} ELSE Pending(h)
  BY <1>3, <1>4, PendingAndDying
<1>6. ASSUME NEW h \in Groups, Dying(h) PROVE Dying(h)'
  <2> DEFINE s == <<"destroy", h>>
  <2>1. s[1] # "wait" /\ ~ Made(t, s)
    BY DEF Made
  <2>2. PICK u \in Threads : Has(u, s)
    BY <1>6, PendingAndDying
  <2>3. Has(u, s)'
    <3> HIDE DEF s
    <3> QED BY <1>0, <2>1, <2>2, WhoHas
  <2> QED BY <2>3, PendingAndDying
<1> SUFFICES ASSUME NEW h \in alive, ~ Dying(h)
             PROVE  /\ count'[h] = Cardinality(Owed(h)')
                    /\ \A y \in tasks[h] : ~ done[y] => WaitsWith(y, h)
  <2>1. \A h \in alive : h \in Groups
    BY <1>0 DEF GroupTypeOK
  <2>2. \A y, h : WaitsWith(y, h)' <=> WaitsWith(y, h)
    BY DEF WaitsWith
  <2> QED BY <1>6, <2>1, <2>2 DEF Counted
<1>7. /\ count[h] = Cardinality(Owed(h))
      /\ \A y \in tasks[h] : ~ done[y] => WaitsWith(y, h)
      /\ h \in Groups /\ tasks[h] \subseteq Waitables
      /\ count \in [Groups -> Nat]
  BY <1>0 DEF GroupInv, Counted, GroupTypeOK
<1>8. CASE h # g
  <2>1. Owed(h)' = Owed(h)
    BY <1>5, <1>7, <1>8 DEF Owed
  <2>2. count'[h] = count[h]
    BY <1>7, <1>8
  <2> QED BY <1>7, <2>1, <2>2
<1>9. CASE h = g
  <2>1. x \in Pending(g)
    BY <1>1, PendingAndDying
  <2>2. Owed(h)' = Owed(h) \ {x} /\ x \in Owed(h)
    BY <1>2, <1>5, <1>7, <1>9, <2>1 DEF Owed
  <2>3. /\ IsFiniteSet(Owed(h)) /\ Cardinality(Owed(h)) \in Nat
        /\ Cardinality(Owed(h)) <= Cardinality(Waitables) /\ Cardinality(Waitables) \in Nat
    <3>1. Owed(h) \subseteq Waitables /\ IsFiniteSet(Waitables)
      BY <1>7, WaitGroupAssumption DEF Owed
    <3> QED BY <3>1, FS_Subset, FS_CardinalityType
  <2>4. Cardinality(Owed(h) \ {x}) = Cardinality(Owed(h)) - 1 /\ Cardinality(Owed(h)) # 0
    <3>1. Cardinality(Owed(h) \ {x}) = Cardinality(Owed(h)) - 1
      BY <2>2, <2>3, FS_RemoveElement
    <3>2. Owed(h) # {}
      BY <2>2
    <3> QED BY <2>3, <3>1, <3>2, FS_EmptySet
  <2>5. (count[g] - 1) % WordSize = count[g] - 1
    <3>1. count[g] - 1 \in Nat /\ WordSize \in Nat /\ count[g] - 1 < WordSize
      BY <1>7, <1>9, <2>3, <2>4, WaitGroupAssumption
    <3> QED BY <3>1, SmallMod
  <2>6. count'[h] = count[g] - 1
    BY <1>7, <1>9, <2>5
  <2> QED BY <1>7, <1>9, <2>2, <2>4, <2>6
<1> QED BY <1>8, <1>9

\* A report to a group: the last one locks the group, which stays in being until the list of
\* the waitable that reports is cleared.
LEMMA TaskDoneStepKeepsGroupInv ==
  ASSUME GroupInv, NEW t \in Threads, NEW g \in Groups, TaskDoneStep(t, g)
  PROVE  GroupInv'
<1> DEFINE D == <<"done", g>>
           E == <<"empty", g>>
<1>0. /\ GroupTypeOK /\ Orderly /\ StepsAreReady /\ Backed /\ OneDestroys /\ Sleepers /\ References
      /\ g \in Waitables /\ D \in Steps /\ E \in Steps
      /\ D[1] = "done" /\ E[1] = "empty" /\ D[2] = g /\ E[2] = g /\ D # E
  BY FormsOfSteps DEF GroupInv, Waitables
<1>1. /\ NextIs(t, "task_done", g)
      /\ count' = [count EXCEPT ![g] = (@ - 1) % WordSize]
      /\ UNCHANGED <<asleep, base, tasks, groupClosed, done, waitGroups, alive, holders,
                     maps, called>>
  BY DEF TaskDoneStep, waiting, life, andThen
<1>2. PICK s \in Steps : /\ Made(t, s) /\ Has(t, s) /\ Ready(t, s) /\ s = <<"task_done", g, s[3]>>
  BY <1>0, <1>1, NextStep
<1>3. PICK x \in Waitables : Made(t, <<"task_done", g, x>>) /\ Has(t, <<"task_done", g, x>>)
  BY <1>2, StepForms
<1>4. /\ todo[t] # <<>>
      /\ \A r : Made(t, r) <=> r = <<"task_done", g, x>>
  BY <1>3 DEF Made
<1>5. /\ Before(t, <<"task_done", g, x>>, <<"clear", x>>)
      /\ Has(t, <<"clear", x>>) /\ base[x] = t /\ done[x]
      /\ x \in tasks[g] /\ WaitsWith(x, g) /\ g \in alive
  BY <1>3, ReportFacts
<1>6. PICK first \in Seq(Steps) :
        /\ Then(t, first)
        /\ \/ first = <<>> /\ own' = own
           \/ first = <<D, E>> /\ own[g] = Nobody /\ own' = [own EXCEPT ![g] = t]
  <2>1. <<>> \in Seq(Steps) /\ <<D, E>> \in Seq(Steps)
    BY <1>0
  <2> QED BY <2>1 DEF TaskDoneStep, Lock
<1>7. /\ Moves(t, first) /\ todo' \in [Threads -> Seq(Steps)]
      /\ \A u \in Threads \ {t} : todo'[u] = todo[u]
      /\ \A u \in Threads, y \in Waitables :
           u # t /\ todo[u] = <<>> => todo'[u] # <<<<"wait", y>>>>
  BY <1>0, <1>4, <1>6, ThenMoves
<1>8. /\ \A i \in DOMAIN first : (i = 1 /\ first[i] = D) \/ (i = 2 /\ first[i] = E)
      /\ 1 \in DOMAIN first => 2 \in DOMAIN first
  BY <1>6
<1>9. \A i \in DOMAIN first : own[g] = Nobody /\ own'[g] = t
  BY <1>0, <1>6 DEF GroupTypeOK
<1>10. \A h \in Groups : own'[h] = own[h] \/ (h = g /\ own[g] = Nobody)
  BY <1>0, <1>6 DEF GroupTypeOK, Waitables
<1>11. \A r : In(r, first) => r = D \/ r = E
  BY <1>8 DEF In
<1>12. GroupTypeOK'
  <2>1. own' \in [Waitables -> Threads \cup {Nobody}]
    BY <1>0, <1>6 DEF GroupTypeOK
  <2>2. count' \in [Groups -> Nat]
    <3>1. count[g] \in Nat /\ WordSize \in Nat \ {0} /\ count \in [Groups -> Nat]
      <4>1. Cardinality(Waitables) \in Nat
        BY WaitGroupAssumption, FS_CardinalityType
      <4> QED BY <1>0, <4>1, WaitGroupAssumption DEF GroupTypeOK
    <3>2. (count[g] - 1) % WordSize \in Nat
      BY <3>1
    <3> QED BY <1>1, <3>1, <3>2
  <2> QED BY <1>0, <1>1, <1>7, <2>1, <2>2 DEF GroupTypeOK
<1>13. Orderly'
  <2>1. \A i, k \in DOMAIN first : first[i] = first[k] => i = k
    BY <1>0, <1>8
  <2>2. \A i \in DOMAIN first : ~ Has(t, first[i])
    <3>1. own[g] = Nobody => ~ Has(t, E) /\ ~ Has(t, D)
      BY WaitGroupAssumption, CompletionFacts
    <3> QED BY <1>8, <1>9, <3>1
  <2>3. \A i \in DOMAIN first : first[i][1] # "wait"
    BY <1>0, <1>8
  <2>4. \A y \in Waitables : ~ (Has(t, <<"clear", y>>)' /\ Has(t, <<"added", y>>)')
    <3> SUFFICES ASSUME NEW y \in Waitables, Has(t, <<"clear", y>>)', Has(t, <<"added", y>>)'
                 PROVE  FALSE
      OBVIOUS
    <3>1. ~ In(<<"clear", y>>, first) /\ ~ In(<<"added", y>>, first)
      BY <1>11
    <3>2. Has(t, <<"clear", y>>) /\ Has(t, <<"added", y>>)
      BY <1>0, <1>7, <3>1, MovedSteps
    <3> QED BY <3>2, BaseFacts
  <2> QED BY <1>0, <1>7, <2>1, <2>2, <2>3, <2>4, OrderlyAfter
<1>14. StepsAreReady'
  <2>1. ASSUME NEW u \in Threads, NEW r \in Steps, Has(u, r), Ready(u, r) PROVE Ready(u, r)'
    <3>1. r[1] = "empty" => own'[r[2]] = own[r[2]]
      <4> SUFFICES ASSUME r[1] = "empty" PROVE own'[r[2]] = own[r[2]]
        OBVIOUS
      <4>1. r[2] \in Groups
        BY StepForms
      <4>2. own[r[2]] = u /\ u # Nobody
        BY <2>1, WaitGroupAssumption DEF Ready
      <4> QED BY <1>10, <4>1, <4>2
    <3> QED BY <1>1, <2>1, <3>1 DEF Ready, WaitsWith
  <2>2. \A i \in DOMAIN first : Ready(t, first[i])'
    <3>1. Ready(t, D)'
      BY <1>0, <1>1, <1>5 DEF Ready
    <3>2. own'[g] = t => Ready(t, E)'
      BY <1>0, <1>1, <1>5 DEF Ready
    <3> QED BY <1>8, <1>9, <3>1, <3>2
  <2> QED BY <1>0, <1>7, <2>1, <2>2, ReadyAfter
<1>15. Backed'
  <2>1. \A u \in Threads, q \in Steps, r \in Steps : Backs(u, q, r) => Backs(u, q, r)'
    BY <1>1 DEF Backs, WaitsWith
  <2>2. ASSUME NEW i \in DOMAIN first, Needy(first[i])
        PROVE  \E r \in Steps : /\ Backs(t, first[i], r)'
                                /\ \/ \E k \in DOMAIN first : i < k /\ first[k] = r
                                   \/ Has(t, r) /\ ~ Made(t, r)
    <3>1. CASE i = 1
      <4>1. 2 \in DOMAIN first /\ first[2] = E /\ first[i] = D /\ i < 2
        BY <1>8, <3>1
      <4>2. Backs(t, D, E)'
        BY <1>0 DEF Backs
      <4> QED BY <1>0, <4>1, <4>2
    <3>2. CASE i = 2
      <4>1. first[i] = E
        BY <1>8, <3>2
      <4>2. <<"clear", x>> \in Steps /\ ~ Made(t, <<"clear", x>>)
        BY <1>4, FormsOfSteps
      <4>3. Backs(t, E, <<"clear", x>>)'
        BY <1>0, <1>1, <1>5 DEF Backs, WaitsWith
      <4> QED BY <1>5, <4>1, <4>2, <4>3
    <3> QED BY <1>8, <3>1, <3>2
  <2> QED BY <1>0, <1>7, <2>1, <2>2, BackedAfter
<1>16. OneDestroys'
  <2>1. \A h : ~ In(<<"destroy", h>>, first)
    BY <1>11
  <2> QED BY <1>0, <1>7, <2>1, OneDestroysAfter
<1>17. Sleepers'
  BY <1>0, <1>1, <1>4, <1>7 DEF Sleepers, Threads
<1>18. Lists'
  BY <1>1, <1>4, <1>7, ListsAfter
<1>19. References'
  BY <1>0, <1>1 DEF References
<1>20. Counted'
  <2>1. \A h, y : ~ In(<<"task_done", h, y>>, first)
    BY <1>11
  <2> QED BY <1>1, <1>3, <1>7, <2>1, ReportIsCounted
<1> QED BY <1>12, <1>13, <1>14, <1>15, <1>16, <1>17, <1>18, <1>19, <1>20 DEF GroupInv

\* The list of a waitable is cleared when everyone on it has been told.
LEMMA ClearStepKeepsGroupInv ==
  ASSUME GroupInv, NEW t \in Threads, NEW x \in Waitables, ClearStep(t, x)
  PROVE  GroupInv'
<1> DEFINE C == <<"clear", x>>
<1>0. /\ GroupTypeOK /\ Orderly /\ StepsAreReady /\ Backed /\ OneDestroys /\ Sleepers /\ References
      /\ C \in Steps
  BY FormsOfSteps DEF GroupInv
<1>n. \A i \in DOMAIN <<>> : FALSE
  OBVIOUS
<1>1. /\ NextIs(t, "clear", x) /\ Then(t, <<>>) /\ base' = [base EXCEPT ![x] = Nobody]
      /\ waitGroups' = [waitGroups EXCEPT ![x] = <<>>]
      /\ UNCHANGED <<asleep, own, tasks, count, groupClosed, done, alive, holders, maps, called>>
  BY DEF ClearStep, Unlock, groups, life, andThen
<1>2. /\ todo[t] # <<>> /\ \A s : Made(t, s) <=> s = C
      /\ NoReport(t, <<>>) /\ Has(t, C) /\ <<>> \in Seq(Steps)
  BY <1>0, <1>1, TheStep
<1>3. /\ Moves(t, <<>>) /\ todo' \in [Threads -> Seq(Steps)]
      /\ \A u \in Threads \ {t} : todo'[u] = todo[u]
      /\ \A u \in Threads, y \in Waitables :
           u # t /\ todo[u] = <<>> => todo'[u] # <<<<"wait", y>>>>
  BY <1>0, <1>1, <1>2, ThenMoves
<1>4. base[x] = t /\ done[x] /\ ~ Has(t, <<"added", x>>)
  BY <1>2, BaseFacts
<1>5. /\ \A y \in Waitables : y # x => base'[y] = base[y] /\ waitGroups'[y] = waitGroups[y]
      /\ waitGroups'[x] = <<>>
  BY <1>0, <1>1 DEF GroupTypeOK
<1>6. \A y \in Waitables : \A g : y # x => (WaitsWith(y, g)' <=> WaitsWith(y, g))
  BY <1>5 DEF WaitsWith
\* only this thread has the mutex of x, and nothing of it comes before its last step
<1>7. \A u \in Threads : Has(u, C) => u = t
  BY <1>4, BaseFacts
<1>8. \A u \in Threads : \A s : ~ Before(u, s, C)
  <2> SUFFICES ASSUME NEW u \in Threads, NEW s, Before(u, s, C) PROVE FALSE
    OBVIOUS
  <2>1. u = t
    BY <1>7, BeforeIsThere
  <2>2. Made(t, C)
    BY <1>2
  <2> QED BY <1>0, <2>1, <2>2, NothingBeforeFirst
<1>9. GroupTypeOK'
  <2>1. base' \in [Waitables -> Threads \cup {Nobody}] /\ waitGroups' \in [Waitables -> Seq(Groups)]
    BY <1>0, <1>1 DEF GroupTypeOK
  <2> QED BY <1>0, <1>1, <1>3, <2>1 DEF GroupTypeOK
<1>10. Orderly'
  <2>1. \A y \in Waitables : ~ (Has(t, <<"clear", y>>)' /\ Has(t, <<"added", y>>)')
    <3> SUFFICES ASSUME NEW y \in Waitables, Has(t, <<"clear", y>>)', Has(t, <<"added", y>>)'
                 PROVE  FALSE
      OBVIOUS
    <3>1. Has(t, <<"clear", y>>) /\ Has(t, <<"added", y>>)
      BY <1>0, <1>2, <1>3, NothingInNothing, MovedSteps
    <3> QED BY <3>1, BaseFacts
  <2> QED BY <1>0, <1>n, <1>2, <1>3, <2>1, OrderlyAfter
<1>11. StepsAreReady'
  <2>1. ASSUME NEW u \in Threads, NEW s \in Steps, Has(u, s), Ready(u, s), ~ (u = t /\ Made(t, s))
        PROVE  Ready(u, s)'
    <3>1. s[1] = "clear" => base'[s[2]] = base[s[2]]
      <4> SUFFICES ASSUME s[1] = "clear" PROVE s[2] \in Waitables /\ s[2] # x
        BY <1>5
      <4> QED BY <1>2, <1>7, <2>1, StepForms
    <3>2. s[1] = "added" => base'[s[2]] = base[s[2]]
      <4> SUFFICES ASSUME s[1] = "added" PROVE s[2] \in Waitables /\ s[2] # x
        BY <1>5
      <4>1. s = <<"added", s[2]>> /\ s[2] \in Waitables
        BY StepForms
      <4>2. Has(u, <<"added", s[2]>>)
        BY <2>1, <4>1
      <4>3. base[s[2]] = u
        BY <4>1, <4>2, BaseFacts
      <4> QED BY <1>4, <4>1, <4>2, <4>3
    <3>3. s[1] = "task_done" => (WaitsWith(s[3], s[2])' <=> WaitsWith(s[3], s[2]))
      <4> SUFFICES ASSUME s[1] = "task_done" PROVE s[3] \in Waitables /\ s[3] # x
        BY <1>6
      <4>1. s = <<"task_done", s[2], s[3]>> /\ s[2] \in Groups /\ s[3] \in Waitables
        BY StepForms
      <4>2. Before(u, s, <<"clear", s[3]>>)
        BY <2>1, <4>1, ReportFacts
      <4> QED BY <1>8, <4>1, <4>2
    <3> QED BY <1>1, <2>1, <3>1, <3>2, <3>3 DEF Ready
  <2> QED BY <1>0, <1>n, <1>2, <1>3, <2>1, ReadyAfter
<1>12. Backed'
  <2>1. ASSUME NEW u \in Threads, NEW s \in Steps, NEW r \in Steps, Before(u, s, r), Backs(u, s, r)
        PROVE  Backs(u, s, r)'
    <3>1. ASSUME NEW y \in tasks[s[2]], s[1] = "empty", r = <<"clear", y>>, WaitsWith(y, s[2])
          PROVE  WaitsWith(y, s[2])'
      <4>1. y # x
        BY <1>8, <2>1, <3>1
      <4>2. s[2] \in Groups /\ y \in Waitables
        BY <1>0, <3>1, StepForms DEF GroupTypeOK
      <4> QED BY <1>6, <3>1, <4>1, <4>2
    <3> QED BY <1>1, <2>1, <3>1 DEF Backs
  <2> QED BY <1>0, <1>n, <1>2, <1>3, <2>1, BackedAfter
<1>13. OneDestroys'
  BY <1>0, <1>2, <1>3, NothingInNothing, OneDestroysAfter
<1>14. Sleepers'
  BY <1>0, <1>1, <1>2, <1>3 DEF Sleepers, Threads
<1>15. Lists'
  <2> SUFFICES ASSUME NEW y \in Waitables, y # x
               PROVE  /\ \A i \in DOMAIN waitGroups[y] :
                           /\ y \in tasks[waitGroups[y][i]]
                           /\ (y \in Groups => y \in alive) => waitGroups[y][i] \in alive
                      /\ \A i, k \in DOMAIN waitGroups[y] : waitGroups[y][i] = waitGroups[y][k] => i = k
                      /\ done[y] /\ waitGroups[y] # <<>> =>
                           \E u \in Threads : Has(u, <<"clear", y>>)'
    <3>1. \A i \in DOMAIN waitGroups'[x] : FALSE
      BY <1>5
    <3> QED BY <1>1, <1>5, <3>1 DEF Lists
  <2>1. ASSUME NEW u \in Threads, Has(u, <<"clear", y>>) PROVE Has(u, <<"clear", y>>)'
    <3> DEFINE s == <<"clear", y>>
    <3>1. s[1] # "wait" /\ ~ Made(t, s)
      BY <1>2
    <3> HIDE DEF s
    <3> QED BY <1>0, <1>2, <1>3, <2>1, <3>1, WhoHas DEF s
  <2> QED BY <2>1 DEF GroupInv, Lists
<1>16. References'
  BY <1>0, <1>1 DEF References
<1>17. Counted'
  <2>1. \A g : ~ Made(t, <<"destroy", g>>)
    BY <1>2
  <2>2. \A g \in alive', y \in Waitables : ~ done[y] /\ WaitsWith(y, g) => WaitsWith(y, g)'
    BY <1>4, <1>6
  <2> QED BY <1>0, <1>1, <1>2, <1>3, <2>1, <2>2, CountedAfter
<1> QED BY <1>9, <1>10, <1>11, <1>12, <1>13, <1>14, <1>15, <1>16, <1>17 DEF GroupInv

\* A waitable that is done tells every group on its list, and then clears the list.
LEMMA ReportSteps ==
  ASSUME GroupTypeOK, NEW x \in Waitables, NEW first, first = Reports(x) \o <<<<"clear", x>>>>
  PROVE  /\ first \in Seq(Steps)
         /\ Len(waitGroups[x]) \in Nat /\ DOMAIN waitGroups[x] = 1 .. Len(waitGroups[x])
         /\ \A i \in DOMAIN waitGroups[x] : waitGroups[x][i] \in Groups
         /\ DOMAIN first = 1 .. Len(waitGroups[x]) + 1
         /\ \A i \in DOMAIN waitGroups[x] : first[i] = <<"task_done", waitGroups[x][i], x>>
         /\ first[Len(waitGroups[x]) + 1] = <<"clear", x>>
<1> DEFINE n == Len(waitGroups[x])
           C == <<"clear", x>>
<1>1. waitGroups[x] \in Seq(Groups)
  BY DEF GroupTypeOK
<1>2. /\ n \in Nat /\ DOMAIN waitGroups[x] = 1 .. n
      /\ \A i \in DOMAIN waitGroups[x] : waitGroups[x][i] \in Groups
  BY <1>1, LenProperties, ElementOfSeq
<1>3. Reports(x) = [i \in 1 .. n |-> <<"task_done", waitGroups[x][i], x>>]
  BY <1>2 DEF Reports
<1>4. \A i \in 1 .. n : <<"task_done", waitGroups[x][i], x>> \in Steps
  BY <1>2, FormsOfSteps
<1>5. Reports(x) \in [1 .. n -> Steps]
  BY <1>3, <1>4
<1>6. Reports(x) \in Seq(Steps) /\ Len(Reports(x)) = n
  <2>1. PICK r : r = Reports(x)
    OBVIOUS
  <2>2. PICK k \in Nat : k = n
    BY <1>2
  <2>3. r \in [1 .. k -> Steps]
    BY <1>5, <2>1, <2>2
  <2>4. r \in Seq(Steps)
    BY <2>3, SeqDef
  <2>5. DOMAIN r = 1 .. k /\ DOMAIN r = 1 .. Len(r) /\ Len(r) \in Nat
    BY <2>3, <2>4, LenProperties
  <2>6. Len(r) = k
    BY <2>5
  <2> QED BY <2>1, <2>2, <2>4, <2>6
<1>7. C \in Steps
  BY FormsOfSteps
<1>8. <<C>> \in Seq(Steps) /\ Len(<<C>>) = 1 /\ <<C>>[1] = C
  BY <1>7
<1>9. PICK reports, last : reports = Reports(x) /\ last = <<C>>
  OBVIOUS
<1>10. /\ first \in Seq(Steps)
       /\ DOMAIN first = 1 .. Len(reports) + Len(last)
       /\ \A i \in 1 .. Len(reports) : first[i] = reports[i]
       /\ \A i \in 1 .. Len(last) : first[Len(reports) + i] = last[i]
  BY <1>6, <1>8, <1>9, OneAfterOther
<1>11. first[n + 1] = C
  BY <1>2, <1>6, <1>8, <1>9, <1>10
<1>12. \A i \in 1 .. n : first[i] = <<"task_done", waitGroups[x][i], x>>
  BY <1>3, <1>6, <1>9, <1>10
<1> QED BY <1>2, <1>6, <1>8, <1>9, <1>10, <1>11, <1>12

\* A waitable is done: from now on its groups are owed a report instead of its completion.
LEMMA DoneStepKeepsGroupInv ==
  ASSUME GroupInv, NEW t \in Threads, NEW x \in Waitables, DoneStep(t, x)
  PROVE  GroupInv'
<1> DEFINE C == <<"clear", x>>
           n == Len(waitGroups[x])
<1>0. /\ GroupTypeOK /\ Orderly /\ StepsAreReady /\ Backed /\ OneDestroys /\ Sleepers /\ References
      /\ Lists /\ C \in Steps
  BY FormsOfSteps DEF GroupInv
<1>1. /\ NextIs(t, "done", x) /\ base[x] = Nobody /\ base' = [base EXCEPT ![x] = t]
      /\ done' = [done EXCEPT ![x] = TRUE]
      /\ Then(t, Reports(x) \o <<C>>)
      /\ UNCHANGED <<asleep, own, tasks, count, groupClosed, waitGroups, alive, holders,
                     maps, called>>
  BY DEF DoneStep, Lock, groups, life, andThen
<1>2. /\ todo[t] # <<>> /\ \A s : Made(t, s) <=> s = <<"done", x>>
      /\ Has(t, <<"done", x>>) /\ Ready(t, <<"done", x>>)
  BY <1>0, <1>1, TheStep
<1>3. PICK first : first = Reports(x) \o <<C>>
  OBVIOUS
<1>4. /\ first \in Seq(Steps) /\ n \in Nat /\ DOMAIN waitGroups[x] = 1 .. n
      /\ \A i \in 1 .. n : waitGroups[x][i] \in Groups
      /\ DOMAIN first = 1 .. n + 1
      /\ \A i \in 1 .. n : first[i] = <<"task_done", waitGroups[x][i], x>>
      /\ first[n + 1] = C
  BY <1>0, <1>3, ReportSteps
<1>5. /\ Moves(t, first) /\ todo' \in [Threads -> Seq(Steps)]
      /\ \A u \in Threads \ {t} : todo'[u] = todo[u]
      /\ \A u \in Threads, y \in Waitables :
           u # t /\ todo[u] = <<>> => todo'[u] # <<<<"wait", y>>>>
  BY <1>0, <1>1, <1>2, <1>3, <1>4, ThenMoves
<1>6. \A i \in DOMAIN first : i \in 1 .. n \/ i = n + 1
  BY <1>4
\* nobody has the mutex of x, so nobody reports for it or is about to clear its list
<1>7. \A u \in Threads : /\ ~ Has(u, C) /\ ~ Has(u, <<"added", x>>)
                         /\ \A g \in Groups : ~ Has(u, <<"task_done", g, x>>)
  <2> SUFFICES ASSUME NEW u \in Threads
               PROVE  /\ ~ Has(u, C) /\ ~ Has(u, <<"added", x>>)
                      /\ \A g \in Groups : ~ Has(u, <<"task_done", g, x>>)
    OBVIOUS
  <2>1. base[x] # u
    BY <1>1, WaitGroupAssumption
  <2> QED BY <2>1, BaseFacts, ReportFacts
<1>8. done[x] => waitGroups[x] = <<>>
  BY <1>0, <1>7 DEF Lists
<1>9. \A s : In(s, first) <=>
              s = C \/ \E i \in 1 .. n : s = <<"task_done", waitGroups[x][i], x>>
  <2> SUFFICES ASSUME NEW s
               PROVE  In(s, first) <=>
                        s = C \/ \E i \in 1 .. n : s = <<"task_done", waitGroups[x][i], x>>
    OBVIOUS
  <2>1. PICK k \in Nat : k = n
    BY <1>4
  <2>2. /\ \A i \in 1 .. k : i \in DOMAIN first /\ i \in 1 .. n
        /\ k + 1 \in DOMAIN first /\ first[k + 1] = C
    BY <1>4, <2>1
  <2>3. ASSUME NEW i \in DOMAIN first, first[i] = s
        PROVE  s = C \/ \E j \in 1 .. n : s = <<"task_done", waitGroups[x][j], x>>
    BY <1>4, <1>6, <2>3
  <2>4. ASSUME NEW i \in 1 .. n, s = <<"task_done", waitGroups[x][i], x>> PROVE In(s, first)
    BY <1>4, <2>1, <2>2, <2>4 DEF In
  <2>5. In(C, first)
    BY <2>2 DEF In
  <2> QED BY <2>3, <2>4, <2>5 DEF In
<1>10. /\ \A y \in Waitables : y # x => base'[y] = base[y] /\ done'[y] = done[y]
       /\ base'[x] = t /\ done'[x]
  BY <1>0, <1>1 DEF GroupTypeOK
<1>11. \A y, g : WaitsWith(y, g)' <=> WaitsWith(y, g)
  BY <1>1 DEF WaitsWith
<1>12. GroupTypeOK'
  <2>1. base' \in [Waitables -> Threads \cup {Nobody}] /\ done' \in [Waitables -> BOOLEAN]
    BY <1>0, <1>1 DEF GroupTypeOK
  <2> QED BY <1>0, <1>1, <1>5, <2>1 DEF GroupTypeOK
<1>13. Orderly'
  <2>1. ASSUME NEW i \in DOMAIN first, NEW k \in DOMAIN first, first[i] = first[k] PROVE i = k
    <3>1. CASE i \in 1 .. n /\ k \in 1 .. n
      <4>1. waitGroups[x][i] = waitGroups[x][k]
        BY <1>4, <2>1, <3>1
      <4> QED BY <1>0, <1>4, <3>1, <4>1 DEF Lists
    <3>2. CASE i = n + 1 /\ k = n + 1
      BY <3>2
    <3>3. ASSUME NEW j \in 1 .. n PROVE first[j] # first[n + 1]
      <4>1. first[j][1] = "task_done" /\ first[n + 1][1] = "clear"
        BY <1>4
      <4> QED BY <4>1
    <3> QED BY <1>6, <2>1, <3>1, <3>2, <3>3
  <2>2. \A i \in DOMAIN first : ~ Has(t, first[i])
    BY <1>4, <1>6, <1>7
  <2>3. \A i \in DOMAIN first : first[i][1] # "wait"
    BY <1>4, <1>6
  <2>4. \A y \in Waitables : ~ (Has(t, <<"clear", y>>)' /\ Has(t, <<"added", y>>)')
    <3> SUFFICES ASSUME NEW y \in Waitables, Has(t, <<"clear", y>>)', Has(t, <<"added", y>>)'
                 PROVE  FALSE
      OBVIOUS
    <3>1. ~ In(<<"added", y>>, first)
      BY <1>9
    <3>2. Has(t, <<"added", y>>)
      BY <1>0, <1>4, <1>5, <3>1, MovedSteps
    <3>3. Has(t, <<"clear", y>>)
      <4>1. y # x
        BY <1>7, <3>2
      <4>2. ~ In(<<"clear", y>>, first)
        BY <1>9, <4>1
      <4> QED BY <1>0, <1>4, <1>5, <4>2, MovedSteps
    <3> QED BY <3>2, <3>3, BaseFacts
  <2> QED BY <1>0, <1>4, <1>5, <2>1, <2>2, <2>3, <2>4, OrderlyAfter
<1>14. StepsAreReady'
  <2>1. ASSUME NEW u \in Threads, NEW s \in Steps, Has(u, s), Ready(u, s), ~ (u = t /\ Made(t, s))
        PROVE  Ready(u, s)'
    <3>1. s[1] \in {"clear", "added"} => s[2] \in Waitables /\ s[2] # x
      BY <1>7, <2>1, StepForms
    <3>2. s[1] = "task_done" => s[3] \in Waitables
      BY StepForms
    <3> QED BY <1>1, <1>10, <1>11, <2>1, <3>1, <3>2 DEF Ready
  <2>2. ASSUME NEW i \in 1 .. n PROVE Ready(t, first[i])'
    <3>1. PICK g \in Groups : g = waitGroups[x][i] /\ first[i] = <<"task_done", g, x>>
      BY <1>4
    <3>2. x \in tasks[g] /\ g \in alive
      BY <1>0, <1>2, <1>4, <3>1 DEF Lists, Ready
    <3>3. WaitsWith(x, g)
      BY <1>4, <3>1 DEF WaitsWith
    <3>4. Ready(t, <<"task_done", g, x>>)'
      BY <1>1, <1>10, <1>11, <3>2, <3>3 DEF Ready
    <3> QED BY <3>1, <3>4
  <2>3. Ready(t, C)'
    BY <1>1, <1>2, <1>10 DEF Ready
  <2> QED BY <1>0, <1>4, <1>5, <1>6, <2>1, <2>2, <2>3, ReadyAfter
<1>15. Backed'
  <2>1. \A u \in Threads, s \in Steps, r \in Steps : Backs(u, s, r) => Backs(u, s, r)'
    BY <1>1, <1>11 DEF Backs
  <2>2. ASSUME NEW i \in DOMAIN first, Needy(first[i])
        PROVE  \E r \in Steps : /\ Backs(t, first[i], r)'
                                /\ \/ \E k \in DOMAIN first : i < k /\ first[k] = r
                                   \/ Has(t, r) /\ ~ Made(t, r)
    <3>1. CASE i \in 1 .. n
      <4>1. n + 1 \in DOMAIN first /\ i < n + 1
        BY <1>4, <3>1
      <4>2. Backs(t, first[i], C)'
        <5>1. PICK g : first[i] = <<"task_done", g, x>>
          BY <1>4, <3>1
        <5>2. Backs(t, <<"task_done", g, x>>, C)'
          BY DEF Backs
        <5> QED BY <5>1, <5>2
      <4> QED BY <1>0, <1>4, <4>1, <4>2
    <3>2. CASE i = n + 1
      <4>1. first[i] = C /\ x \in Groups
        BY <1>4, <2>2, <3>2 DEF Needy
      <4>2. <<"empty", x>> \in Steps /\ ~ Made(t, <<"empty", x>>)
        BY <1>2, <4>1, FormsOfSteps
      <4>3. Has(t, <<"empty", x>>)
        BY <1>2, <4>1, CompletionFacts
      <4>4. Backs(t, C, <<"empty", x>>)'
        BY DEF Backs
      <4> QED BY <4>1, <4>2, <4>3, <4>4
    <3> QED BY <1>6, <3>1, <3>2
  <2> QED BY <1>0, <1>4, <1>5, <2>1, <2>2, BackedAfter
<1>16. OneDestroys'
  <2>1. \A h : ~ In(<<"destroy", h>>, first)
    BY <1>9
  <2> QED BY <1>0, <1>4, <1>5, <2>1, OneDestroysAfter
<1>17. Sleepers'
  BY <1>0, <1>1, <1>2, <1>5 DEF Sleepers, Threads
<1>18. Lists'
  <2> SUFFICES ASSUME NEW y \in Waitables, done'[y], waitGroups[y] # <<>>
               PROVE  \E u \in Threads : Has(u, <<"clear", y>>)'
    BY <1>0, <1>1 DEF Lists
  <2>1. CASE y = x
    <3>1. Has(t, C)'
      BY <1>0, <1>4, <1>5, <1>9, MovedSteps
    <3> QED BY <2>1, <3>1
  <2>2. CASE y # x
    <3> DEFINE s == <<"clear", y>>
    <3>1. s[1] # "wait" /\ ~ Made(t, s)
      BY <1>2
    <3>2. PICK u \in Threads : Has(u, s)
      BY <1>0, <1>10, <2>2 DEF Lists
    <3>3. Has(u, s)'
      <4> HIDE DEF s
      <4> QED BY <1>0, <1>4, <1>5, <3>1, <3>2, WhoHas
    <3> QED BY <3>3
  <2> QED BY <2>1, <2>2
<1>19. References'
  BY <1>0, <1>1 DEF References
<1>20. Counted'
  <2>1. \A h \in Groups, y \in Waitables, u \in Threads :
          Has(u, <<"task_done", h, y>>)' <=>
            Has(u, <<"task_done", h, y>>) \/ (u = t /\ y = x /\ WaitsWith(x, h))
    <3> SUFFICES ASSUME NEW h \in Groups, NEW y \in Waitables
                 PROVE  \A u \in Threads : Has(u, <<"task_done", h, y>>)' <=>
                          Has(u, <<"task_done", h, y>>) \/ (u = t /\ y = x /\ WaitsWith(x, h))
      OBVIOUS
    <3> DEFINE s == <<"task_done", h, y>>
    <3>1. s[1] # "wait" /\ ~ Made(t, s)
      BY <1>2
    <3>2. In(s, first) <=> y = x /\ WaitsWith(x, h)
      BY <1>4, <1>9 DEF WaitsWith
    <3> HIDE DEF s
    <3>3. \A u \in Threads :
            Has(u, s)' <=> (u = t /\ In(s, first)) \/ (Has(u, s) /\ ~ (u = t /\ Made(t, s)))
      BY <1>0, <1>4, <1>5, <3>1, WhoHas
    <3> QED BY <3>1, <3>2, <3>3 DEF s
  <2> SUFFICES ASSUME NEW h \in alive, ~ Dying(h)'
               PROVE  /\ count[h] = Cardinality(Owed(h)')
                      /\ \A y \in tasks[h] : ~ done'[y] => WaitsWith(y, h)
    BY <1>1, <1>11 DEF Counted
  <2>2. h \in Groups /\ tasks[h] \subseteq Waitables /\ done \in [Waitables -> BOOLEAN]
    BY <1>0 DEF GroupTypeOK
  <2>3. ~ Dying(h)
    <3> DEFINE s == <<"destroy", h>>
    <3>1. s[1] # "wait" /\ ~ Made(t, s)
      BY <1>2
    <3>2. \A u \in Threads : Has(u, s) => Has(u, s)'
      <4> HIDE DEF s
      <4> QED BY <1>0, <1>4, <1>5, <3>1, WhoHas
    <3> QED BY <3>2, PendingAndDying
  <2>4. /\ count[h] = Cardinality(Owed(h))
        /\ \A y \in tasks[h] : ~ done[y] => WaitsWith(y, h)
    BY <2>2, <2>3 DEF GroupInv, Counted
  <2>5. \A y \in Waitables : y # x => (y \in Pending(h)' <=> y \in Pending(h))
    BY <2>1, <2>2, PendingAndDying
  <2>6. x \in Pending(h)' <=> WaitsWith(x, h)
    BY <1>7, <2>1, <2>2, PendingAndDying
  <2>7. x \notin Pending(h)
    BY <1>7, <2>2, PendingAndDying
  <2>8. done[x] => ~ WaitsWith(x, h)
    BY <1>8 DEF WaitsWith
  <2>9. Owed(h)' = Owed(h)
    <3>1. Owed(h)' = {y \in tasks[h] : ~ done'[y] \/ y \in Pending(h)'}
      BY <1>1 DEF Owed
    <3>2. ASSUME NEW y \in tasks[h]
          PROVE  (~ done'[y] \/ y \in Pending(h)') <=> (~ done[y] \/ y \in Pending(h))
      BY <1>10, <2>2, <2>4, <2>5, <2>6, <2>7, <2>8
    <3> QED BY <3>1, <3>2 DEF Owed
  <2> QED BY <1>10, <2>2, <2>4, <2>9
<1> QED BY <1>12, <1>13, <1>14, <1>15, <1>16, <1>17, <1>18, <1>19, <1>20 DEF GroupInv

\* Who makes no call has no step to make.
LEMMA NothingToDo ==
  ASSUME NEW t, todo[t] = <<>>
  PROVE  \A s : ~ Made(t, s) /\ ~ Has(t, s)
<1>1. \A i \in DOMAIN <<>> : FALSE
  OBVIOUS
<1> QED BY <1>1 DEF Made, Has

\* wait() and await() begin.
LEMMA WaitKeepsGroupInv ==
  ASSUME GroupInv, NEW c \in Clients, NEW x \in Waitables, Wait(c, x)
  PROVE  GroupInv'
<1> DEFINE W == <<"wait", x>>
<1>0. /\ GroupTypeOK /\ Orderly /\ StepsAreReady /\ Backed /\ OneDestroys /\ Sleepers /\ References
      /\ c \in Threads /\ W \in Steps /\ W[1] = "wait" /\ W[2] = x
  BY FormsOfSteps DEF GroupInv, Threads
<1>1. /\ todo[c] = <<>> /\ asleep[c] = Nobody /\ (x \in Groups => c \in holders[x])
      /\ Do(c, <<W>>)
      /\ UNCHANGED <<asleep, own, base, tasks, count, groupClosed, done, waitGroups, alive, holders,
                     maps, called>>
  BY DEF Wait, Idle, mutexes, groups, waiting, life, andThen
<1>2. \A s : ~ Made(c, s) /\ ~ Has(c, s)
  BY <1>1, NothingToDo
<1>3. PICK first \in Seq(Steps) : first = <<W>>
  <2> HIDE DEF W
  <2>1. <<W>> \in Seq(Steps)
    BY <1>0
  <2> QED BY <2>1
<1>4. /\ DOMAIN first = {1} /\ first[1] = W /\ Len(first) = 1
  BY <1>3
<1>5. \A s : In(s, first) <=> s = W
  BY <1>4 DEF In
<1>6. /\ Moves(c, first) /\ todo' \in [Threads -> Seq(Steps)]
      /\ \A u \in Threads \ {c} : todo'[u] = todo[u]
      /\ \A u \in Threads, y \in Waitables :
           u # c /\ todo[u] = <<>> => todo'[u] # <<<<"wait", y>>>>
  BY <1>0, <1>1, <1>3, DoMoves
<1>7. GroupTypeOK'
  BY <1>0, <1>1, <1>6 DEF GroupTypeOK
<1>8. Orderly'
  <2>1. \A y \in Waitables : ~ Has(c, <<"clear", y>>)'
    <3> SUFFICES ASSUME NEW y \in Waitables PROVE ~ Has(c, <<"clear", y>>)'
      OBVIOUS
    <3>1. ~ In(<<"clear", y>>, first)
      BY <1>5
    <3> QED BY <1>0, <1>2, <1>6, <3>1, MovedSteps
  <2>2. \A i, k \in DOMAIN first : first[i] = first[k] => i = k
    BY <1>4
  <2> QED BY <1>0, <1>1, <1>2, <1>4, <1>6, <2>1, <2>2, OrderlyAfter
<1>9. StepsAreReady'
  <2>1. \A u \in Threads, s \in Steps : Ready(u, s) => Ready(u, s)'
    BY <1>1 DEF Ready, WaitsWith
  <2>2. Ready(c, W)'
    BY <1>0, <1>1 DEF Ready, References
  <2>3. \A i \in DOMAIN first : Ready(c, first[i])'
    BY <1>4, <2>2
  <2> QED BY <1>0, <1>6, <2>1, <2>3, ReadyAfter
<1>10. Backed'
  <2>1. \A u \in Threads, s \in Steps, r \in Steps : Backs(u, s, r) => Backs(u, s, r)'
    BY <1>1 DEF Backs, WaitsWith
  <2>2. \A i \in DOMAIN first : ~ Needy(first[i])
    BY <1>0, <1>4 DEF Needy
  <2> QED BY <1>0, <1>6, <2>1, <2>2, BackedAfter
<1>11. OneDestroys'
  <2>1. \A g : ~ In(<<"destroy", g>>, first)
    BY <1>5
  <2> QED BY <1>0, <1>6, <2>1, OneDestroysAfter
<1>12. Sleepers'
  BY <1>0, <1>1, <1>6 DEF Sleepers, Threads
<1>13. Lists'
  BY <1>1, <1>2, <1>6, <1>0, ListsAfter
<1>14. References'
  BY <1>0, <1>1 DEF References
<1>15. Counted'
  <2>1. NoReport(c, first)
    BY <1>2, <1>5 DEF NoReport
  <2>2. \A g \in alive', y \in Waitables : WaitsWith(y, g) => WaitsWith(y, g)'
    BY <1>1 DEF WaitsWith
  <2> QED BY <1>0, <1>1, <1>2, <1>6, <2>1, <2>2, CountedAfter
<1> QED BY <1>7, <1>8, <1>9, <1>10, <1>11, <1>12, <1>13, <1>14, <1>15 DEF GroupInv

\* A client drops a shared_ptr: the last one begins the destruction.
LEMMA ReleaseKeepsGroupInv ==
  ASSUME GroupInv, NEW c \in Clients, NEW g \in Groups, Release(c, g)
  PROVE  GroupInv'
<1> DEFINE D == <<"destroy", g>>
<1>0. /\ GroupTypeOK /\ Orderly /\ StepsAreReady /\ Backed /\ OneDestroys /\ Sleepers /\ References
      /\ c \in Threads /\ D \in Steps /\ D[1] = "destroy" /\ D[2] = g
      /\ holders \in [Groups -> SUBSET Clients] /\ \A h \in alive : h \in Groups
  BY FormsOfSteps DEF GroupInv, Threads, GroupTypeOK
<1>1. /\ todo[c] = <<>> /\ asleep[c] = Nobody /\ c \in holders[g]
      /\ holders' = [holders EXCEPT ![g] = @ \ {c}]
      /\ Do(c, IF Referenced(g) THEN <<>> ELSE <<D>>)
      /\ UNCHANGED <<asleep, own, base, tasks, count, groupClosed, done, waitGroups, alive,
                     maps, called>>
  BY DEF Release, Idle, mutexes, groups, waiting, andThen
<1>2. \A s : ~ Made(c, s) /\ ~ Has(c, s)
  BY <1>1, NothingToDo
<1>3. PICK first \in Seq(Steps) :
        /\ Do(c, first)
        /\ \/ first = <<>>
           \/ first = <<D>> /\ holders'[g] = {} /\ \A p \in alive : g \notin tasks[p]
  <2>1. <<>> \in Seq(Steps) /\ <<D>> \in Seq(Steps)
    BY <1>0
  <2>2. CASE Referenced(g)
    BY <1>1, <2>1, <2>2
  <2>3. CASE ~ Referenced(g)
    <3>1. holders'[g] = {} /\ \A p \in alive : g \notin tasks[p]
      BY <1>1, <2>3 DEF Referenced
    <3> QED BY <1>1, <2>1, <2>3, <3>1
  <2> QED BY <2>2, <2>3
<1>4. \A i \in DOMAIN first : /\ i = 1 /\ first[i] = D
                              /\ holders'[g] = {} /\ \A p \in alive : g \notin tasks[p]
  BY <1>3
<1>5. \A s : In(s, first) => s = D
  BY <1>4 DEF In
<1>6. /\ Moves(c, first) /\ todo' \in [Threads -> Seq(Steps)]
      /\ \A u \in Threads \ {c} : todo'[u] = todo[u]
      /\ \A u \in Threads, y \in Waitables :
           u # c /\ todo[u] = <<>> => todo'[u] # <<<<"wait", y>>>>
  BY <1>0, <1>1, <1>3, DoMoves
\* a client that is in the middle of something keeps what it holds
<1>7. /\ \A h \in Groups : holders'[h] \subseteq holders[h]
      /\ \A h \in Groups : \A u : u # c /\ u \in holders[h] => u \in holders'[h]
  BY <1>0, <1>1
<1>8. g \in alive
  BY <1>0, <1>1 DEF References
<1>9. GroupTypeOK'
  <2>1. holders' \in [Groups -> SUBSET Clients]
    BY <1>0, <1>1
  <2> QED BY <1>0, <1>1, <1>6, <2>1 DEF GroupTypeOK
<1>10. Orderly'
  <2>1. \A y \in Waitables : ~ Has(c, <<"clear", y>>)'
    <3> SUFFICES ASSUME NEW y \in Waitables PROVE ~ Has(c, <<"clear", y>>)'
      OBVIOUS
    <3>1. ~ In(<<"clear", y>>, first)
      BY <1>5
    <3> QED BY <1>0, <1>2, <1>6, <3>1, MovedSteps
  <2>2. \A i, k \in DOMAIN first : first[i] = first[k] => i = k
    BY <1>4
  <2>3. \A i \in DOMAIN first : first[i][1] # "wait"
    BY <1>0, <1>4
  <2> QED BY <1>0, <1>2, <1>6, <2>1, <2>2, <2>3, OrderlyAfter
<1>11. StepsAreReady'
  <2>1. ASSUME NEW u \in Threads, NEW s \in Steps, Has(u, s), Ready(u, s) PROVE Ready(u, s)'
    <3>0. u # c
      BY <1>2, <2>1
    <3>1. s[1] = "wait" => u \in Clients /\ (s[2] \in Groups => u \in holders'[s[2]])
      BY <1>7, <2>1, <3>0 DEF Ready
    <3>2. s[1] = "added" => \E h \in Groups : u \in holders'[h] /\ s[2] \in tasks[h]
      BY <1>7, <2>1, <3>0 DEF Ready
    <3>3. s[1] = "destroy" => holders'[s[2]] = {}
      <4> SUFFICES ASSUME s[1] = "destroy" PROVE holders'[s[2]] = {}
        OBVIOUS
      <4>1. s[2] \in Groups /\ holders[s[2]] = {}
        BY <2>1, StepForms DEF Ready
      <4> QED BY <1>7, <4>1
    <3> QED BY <1>1, <2>1, <3>1, <3>2, <3>3 DEF Ready, WaitsWith
  <2>2. \A i \in DOMAIN first : Ready(c, first[i])'
    <3> SUFFICES ASSUME NEW i \in DOMAIN first PROVE Ready(c, first[i])'
      OBVIOUS
    <3>1. first[i] = D /\ holders'[g] = {} /\ \A p \in alive : g \notin tasks[p]
      BY <1>4
    <3>2. Ready(c, D)'
      BY <1>0, <1>1, <1>8, <3>1 DEF Ready
    <3> QED BY <3>1, <3>2
  <2> QED BY <1>0, <1>6, <2>1, <2>2, ReadyAfter
<1>12. Backed'
  <2>1. ASSUME NEW u \in Threads, NEW s \in Steps, NEW r \in Steps, Before(u, s, r), Backs(u, s, r)
        PROVE  Backs(u, s, r)'
    <3>1. u # c
      BY <1>2, <2>1, BeforeIsThere
    <3>2. s[1] = "empty" => s[2] \in Groups
      BY StepForms
    <3> QED BY <1>1, <1>7, <2>1, <3>1, <3>2 DEF Backs, WaitsWith
  <2>2. \A i \in DOMAIN first : ~ Needy(first[i])
    BY <1>0, <1>4 DEF Needy
  <2> QED BY <1>0, <1>6, <2>1, <2>2, BackedAfter
<1>13. OneDestroys'
  <2>1. ASSUME NEW h \in Groups, NEW u \in Threads, In(<<"destroy", h>>, first)
        PROVE  ~ Has(u, <<"destroy", h>>)
    <3>1. h = g
      BY <1>5, <2>1
    <3>2. Has(u, D) => Ready(u, D)
      BY <1>0 DEF StepsAreReady
    <3> QED BY <1>0, <1>1, <3>1, <3>2 DEF Ready
  <2> QED BY <1>0, <1>6, <2>1, OneDestroysAfter
<1>14. Sleepers'
  <2> SUFFICES ASSUME NEW d \in Clients, asleep[d] # Nobody
               PROVE  todo'[d] = <<>> /\ (asleep[d] \in Groups => d \in holders'[asleep[d]])
    BY <1>1 DEF Sleepers
  <2>1. d # c /\ d \in Threads
    BY <1>1 DEF Threads
  <2> QED BY <1>0, <1>6, <1>7, <2>1 DEF Sleepers
<1>15. Lists'
  BY <1>1, <1>2, <1>6, <1>0, ListsAfter
<1>16. References'
  BY <1>0, <1>1, <1>7 DEF References
<1>17. Counted'
  <2>1. NoReport(c, first)
    BY <1>2, <1>5 DEF NoReport
  <2>2. \A h \in alive', y \in Waitables : WaitsWith(y, h) => WaitsWith(y, h)'
    BY <1>1 DEF WaitsWith
  <2> QED BY <1>0, <1>1, <1>2, <1>6, <2>1, <2>2, CountedAfter
<1> QED BY <1>9, <1>10, <1>11, <1>12, <1>13, <1>14, <1>15, <1>16, <1>17 DEF GroupInv

\* add() of a waitable that is not done: the group is owed one more.
LEMMA AddNewKeepsGroupInv ==
  ASSUME GroupInv, NEW c \in Clients, NEW g \in Groups, NEW x \in Waitables, AddNew(c, g, x)
  PROVE  GroupInv'
<1>0. /\ GroupTypeOK /\ Orderly /\ StepsAreReady /\ Backed /\ OneDestroys /\ Sleepers /\ References
      /\ Lists /\ tasks \in [Groups -> SUBSET Waitables] /\ count \in [Groups -> Nat]
      /\ waitGroups \in [Waitables -> Seq(Groups)] /\ alive \subseteq Groups
  BY DEF GroupInv, GroupTypeOK
<1>1. /\ c \in holders[g] /\ x \notin tasks[g] /\ (x \in Groups => c \in holders[x])
      /\ ~ done[x]
      /\ tasks' = [tasks EXCEPT ![g] = @ \cup {x}]
      /\ count' = [count EXCEPT ![g] = @ + 1]
      /\ waitGroups' = [waitGroups EXCEPT ![x] = Append(@, g)]
      /\ UNCHANGED <<todo, asleep, own, base, groupClosed, done, alive, holders, maps, called>>
  BY DEF AddNew, Addable, calls, mutexes, life, andThen
<1>2. g \in alive /\ (x \in Groups => x \in alive)
  BY <1>0, <1>1 DEF References
<1>3. PICK old \in Seq(Groups), new \in Seq(Groups) :
        /\ old = waitGroups[x] /\ new = waitGroups'[x]
        /\ Len(old) \in Nat /\ DOMAIN old = 1 .. Len(old) /\ DOMAIN new = 1 .. Len(old) + 1
        /\ \A i \in 1 .. Len(old) : new[i] = old[i]
        /\ new[Len(old) + 1] = g
  <2>1. PICK old \in Seq(Groups) : old = waitGroups[x]
    BY <1>0
  <2>2. waitGroups'[x] = Append(old, g)
    BY <1>0, <1>1, <2>1
  <2>3. /\ Append(old, g) \in Seq(Groups) /\ Len(Append(old, g)) = Len(old) + 1
        /\ \A i \in 1 .. Len(old) : Append(old, g)[i] = old[i]
        /\ Append(old, g)[Len(old) + 1] = g
    BY AppendProperties
  <2>4. PICK new \in Seq(Groups) : new = Append(old, g)
    BY <2>3
  <2>5. Len(old) \in Nat /\ DOMAIN old = 1 .. Len(old) /\ DOMAIN new = 1 .. Len(new)
    BY LenProperties
  <2> QED BY <2>1, <2>2, <2>3, <2>4, <2>5
<1>4. /\ \A y \in Waitables : y # x => waitGroups'[y] = waitGroups[y]
      /\ \A h \in Groups : tasks[h] \subseteq tasks'[h] /\ tasks'[h] \subseteq tasks[h] \cup {x}
      /\ \A h \in Groups : h # g => tasks'[h] = tasks[h] /\ count'[h] = count[h]
      /\ tasks'[g] = tasks[g] \cup {x} /\ count'[g] = count[g] + 1
  BY <1>0, <1>1
<1>5. /\ \A y \in Waitables : \A h : WaitsWith(y, h) => WaitsWith(y, h)'
      /\ WaitsWith(x, g)'
  <2>1. ASSUME NEW h, WaitsWith(x, h) PROVE WaitsWith(x, h)'
    BY <1>3, <2>1 DEF WaitsWith
  <2>2. WaitsWith(x, g)'
    <3>1. Len(old) + 1 \in DOMAIN new
      BY <1>3
    <3> QED BY <1>3, <3>1 DEF WaitsWith
  <2>3. \A y \in Waitables : \A h : y # x /\ WaitsWith(y, h) => WaitsWith(y, h)'
    BY <1>4 DEF WaitsWith
  <2> QED BY <2>1, <2>2, <2>3
<1>6. GroupTypeOK'
  <2>1. tasks' \in [Groups -> SUBSET Waitables] /\ count' \in [Groups -> Nat]
    BY <1>0, <1>1
  <2>2. waitGroups' \in [Waitables -> Seq(Groups)]
    BY <1>0, <1>1, <1>3
  <2> QED BY <1>0, <1>1, <2>1, <2>2 DEF GroupTypeOK
<1>7. Orderly' /\ OneDestroys'
  <2>1. \A t, s : Has(t, s)' <=> Has(t, s)
    BY <1>1 DEF Has
  <2>2. Orderly'
    BY <1>0, <1>1, <2>1 DEF Orderly
  <2>3. OneDestroys'
    BY <1>0, <2>1 DEF OneDestroys
  <2> QED BY <2>2, <2>3
<1>8. StepsAreReady'
  <2> SUFFICES ASSUME NEW u \in Threads, NEW s \in Steps, Has(u, s), Ready(u, s)
               PROVE  Ready(u, s)'
    BY <1>0, <1>1 DEF StepsAreReady, Has
  <2>1. s[1] = "task_done" => s[3] \in tasks'[s[2]] /\ WaitsWith(s[3], s[2])'
    <3> SUFFICES ASSUME s[1] = "task_done" PROVE s[3] \in tasks'[s[2]] /\ WaitsWith(s[3], s[2])'
      OBVIOUS
    <3>1. s[2] \in Groups /\ s[3] \in Waitables
      BY StepForms
    <3> QED BY <1>4, <1>5, <3>1 DEF Ready
  <2>2. s[1] = "added" => \E h \in Groups : u \in holders[h] /\ s[2] \in tasks'[h]
    BY <1>4 DEF Ready
  <2>3. s[1] = "destroy" => \A p \in alive : s[2] \notin tasks'[p]
    <3> SUFFICES ASSUME s[1] = "destroy", NEW p \in alive, s[2] \in tasks'[p] PROVE FALSE
      OBVIOUS
    <3>1. s[2] \in Groups /\ holders[s[2]] = {} /\ s[2] \notin tasks[p]
      BY StepForms DEF Ready
    <3>2. s[2] = x
      BY <1>0, <1>4, <3>1
    <3> QED BY <1>1, <3>1, <3>2
  <2> QED BY <1>1, <2>1, <2>2, <2>3 DEF Ready
<1>9. Backed'
  <2> SUFFICES ASSUME NEW u \in Threads, NEW s \in Steps, Has(u, s), Needy(s)
               PROVE  \E r \in Steps : Before(u, s, r) /\ Backs(u, s, r)'
    BY <1>1 DEF Backed, Has, Before, Needy
  <2>1. PICK r \in Steps : Before(u, s, r) /\ Backs(u, s, r)
    BY <1>0 DEF Backed
  <2>2. s[1] = "empty" => s[2] \in Groups /\ \A y \in tasks[s[2]] : y \in Waitables
    BY <1>0, StepForms
  <2>3. Backs(u, s, r)'
    BY <1>1, <1>4, <1>5, <2>1, <2>2 DEF Backs
  <2> QED BY <2>1, <2>3
<1>10. Sleepers'
  BY <1>0, <1>1 DEF Sleepers
<1>11. Lists'
  <2>1. ASSUME NEW y \in Waitables, y # x
        PROVE  /\ \A i \in DOMAIN waitGroups'[y] :
                    /\ y \in tasks'[waitGroups'[y][i]]
                    /\ (y \in Groups => y \in alive') => waitGroups'[y][i] \in alive'
               /\ \A i, k \in DOMAIN waitGroups'[y] : waitGroups'[y][i] = waitGroups'[y][k] => i = k
               /\ done'[y] /\ waitGroups'[y] # <<>> => \E t \in Threads : Has(t, <<"clear", y>>)'
    <3>1. waitGroups'[y] = waitGroups[y]
      BY <1>4, <2>1
    <3>2. \A i \in DOMAIN waitGroups[y] : waitGroups[y][i] \in Groups
      BY <1>0, LenProperties, ElementOfSeq
    <3>3. \A i \in DOMAIN waitGroups[y] :
             /\ y \in tasks[waitGroups[y][i]]
             /\ (y \in Groups => y \in alive) => waitGroups[y][i] \in alive
      BY <1>0 DEF Lists
    <3>4. \A i, k \in DOMAIN waitGroups[y] : waitGroups[y][i] = waitGroups[y][k] => i = k
      BY <1>0 DEF Lists
    <3>5. done[y] /\ waitGroups[y] # <<>> => \E t \in Threads : Has(t, <<"clear", y>>)
      BY <1>0 DEF Lists
    <3>6. \A t \in Threads : Has(t, <<"clear", y>>) => Has(t, <<"clear", y>>)'
      BY <1>1 DEF Has
    <3>7. \A i \in DOMAIN waitGroups[y] : y \in tasks'[waitGroups[y][i]]
      BY <1>4, <3>2, <3>3
    <3>8. /\ \A i \in DOMAIN waitGroups'[y] :
                /\ y \in tasks'[waitGroups'[y][i]]
                /\ (y \in Groups => y \in alive') => waitGroups'[y][i] \in alive'
          /\ \A i, k \in DOMAIN waitGroups'[y] :
                waitGroups'[y][i] = waitGroups'[y][k] => i = k
      <4>1. PICK w : w = waitGroups[y] /\ w = waitGroups'[y]
        BY <3>1
      <4>2. alive' = alive
        BY <1>1
      <4>3. \A i \in DOMAIN w : /\ y \in tasks'[w[i]]
                                /\ (y \in Groups => y \in alive') => w[i] \in alive'
        BY <3>3, <3>7, <4>1, <4>2
      <4>4. \A i, k \in DOMAIN w : w[i] = w[k] => i = k
        BY <3>4, <4>1
      <4> QED BY <4>1, <4>3, <4>4
    <3>9. done'[y] /\ waitGroups'[y] # <<>> => \E t \in Threads : Has(t, <<"clear", y>>)'
      BY <1>1, <3>1, <3>5, <3>6
    <3> QED BY <3>8, <3>9
  <2>2. \A i \in DOMAIN old : /\ x \in tasks[old[i]] /\ old[i] \in Groups
                              /\ (x \in Groups => x \in alive) => old[i] \in alive
    BY <1>0, <1>3, LenProperties, ElementOfSeq DEF Lists
  <2>3. \A i \in DOMAIN old : old[i] # g
    BY <1>1, <2>2
  <2>4. \A i \in DOMAIN new : i \in DOMAIN old \/ i = Len(old) + 1
    BY <1>3
  <2>5. \A i \in DOMAIN new : /\ x \in tasks'[new[i]]
                              /\ (x \in Groups => x \in alive') => new[i] \in alive'
    BY <1>1, <1>2, <1>3, <1>4, <2>2, <2>4
  <2>6. \A i, k \in DOMAIN new : new[i] = new[k] => i = k
    <3>1. \A i, k \in DOMAIN old : old[i] = old[k] => i = k
      BY <1>0, <1>3 DEF Lists
    <3> QED BY <1>3, <2>3, <2>4, <3>1
  <2>7. ~ done'[x]
    BY <1>1
  <2> QED BY <1>3, <2>1, <2>5, <2>6, <2>7 DEF Lists
<1>12. References'
  BY <1>0, <1>1, <1>2, <1>4 DEF References
<1>13. Counted'
  <2> SUFFICES ASSUME NEW h \in alive, ~ Dying(h)
               PROVE  /\ count'[h] = Cardinality(Owed(h)')
                      /\ \A y \in tasks'[h] : ~ done[y] => WaitsWith(y, h)'
    <3>1. \A h : Dying(h)' <=> Dying(h)
      BY <1>1 DEF Dying
    <3> QED BY <1>1, <3>1 DEF Counted
  <2>1. /\ count[h] = Cardinality(Owed(h)) /\ h \in Groups /\ tasks[h] \subseteq Waitables
        /\ \A y \in tasks[h] : ~ done[y] => WaitsWith(y, h)
    BY <1>0 DEF GroupInv, Counted
  <2>2. \A y \in tasks'[h] : ~ done[y] => WaitsWith(y, h)'
    <3>1. CASE h = g
      BY <1>4, <1>5, <2>1, <3>1
    <3>2. CASE h # g
      BY <1>4, <1>5, <2>1, <3>2
    <3> QED BY <3>1, <3>2
  <2>3. Pending(h)' = Pending(h)
    BY <1>1 DEF Pending
  <2>4. CASE h # g
    <3>1. Owed(h)' = Owed(h) /\ count'[h] = count[h]
      BY <1>1, <1>4, <2>1, <2>3, <2>4 DEF Owed
    <3> QED BY <2>1, <2>2, <3>1
  <2>5. CASE h = g
    <3>1. Owed(h)' = Owed(h) \cup {x} /\ x \notin Owed(h)
      BY <1>1, <1>4, <2>3, <2>5 DEF Owed
    <3>2. IsFiniteSet(Owed(h))
      <4>1. Owed(h) \subseteq Waitables /\ IsFiniteSet(Waitables)
        BY <2>1, WaitGroupAssumption DEF Owed
      <4> QED BY <4>1, FS_Subset
    <3>3. Cardinality(Owed(h) \cup {x}) = Cardinality(Owed(h)) + 1
      BY <3>1, <3>2, FS_AddElement
    <3> QED BY <1>4, <2>1, <2>2, <2>5, <3>1, <3>3
  <2> QED BY <2>4, <2>5
<1> QED BY <1>6, <1>7, <1>8, <1>9, <1>10, <1>11, <1>12, <1>13 DEF GroupInv

\* what is in q is in it once
Once(q) == \A k, m \in DOMAIN q : q[k] = q[m] => k = m

\* A sequence without its entry at i has every other entry, and no more of it than before.
LEMMA WithoutOne ==
  ASSUME NEW S, NEW s \in Seq(S), NEW cut \in DOMAIN s, NEW r, r = RemoveAt(s, cut)
  PROVE  /\ r \in Seq(S)
         /\ \A k \in DOMAIN r : \E m \in DOMAIN s : r[k] = s[m]
         /\ \A m \in DOMAIN s : m # cut => \E k \in DOMAIN r : r[k] = s[m]
         /\ Once(s) => Once(r)
<1>i. PICK i \in 1 .. Len(s) : i = cut
  BY LenProperties
<1>0. Len(s) \in Nat /\ i \in Nat /\ 1 <= i /\ i <= Len(s) /\ DOMAIN s = 1 .. Len(s)
  BY LenProperties
<1>1. PICK a : a = SubSeq(s, 1, i - 1)
  OBVIOUS
<1>2. PICK b : b = SubSeq(s, i + 1, Len(s))
  OBVIOUS
<1>3. a \in Seq(S) /\ Len(a) = i - 1 /\ \A k \in 1 .. i - 1 : a[k] = s[k]
  <2>1. PICK n \in Int : n = i - 1
    BY <1>0
  <2>2. \A k \in 1 .. n : s[k] \in S
    <3>1. \A k \in 1 .. n : k \in 1 .. Len(s)
      BY <1>0, <2>1
    <3> QED BY <3>1, ElementOfSeq
  <2>3. /\ SubSeq(s, 1, n) \in Seq(S) /\ Len(SubSeq(s, 1, n)) = IF 1 <= n THEN n - 1 + 1 ELSE 0
        /\ \A k \in 1 .. n - 1 + 1 : SubSeq(s, 1, n)[k] = s[1 + k - 1]
    BY <2>2, SubSeqProperties
  <2>4. (IF 1 <= n THEN n - 1 + 1 ELSE 0) = i - 1 /\ n - 1 + 1 = i - 1
        /\ \A k \in 1 .. i - 1 : 1 + k - 1 = k
    BY <1>0, <2>1
  <2>5. a = SubSeq(s, 1, n)
    BY <1>1, <2>1
  <2> QED BY <2>3, <2>4, <2>5
<1>4. b \in Seq(S) /\ Len(b) = Len(s) - i /\ \A k \in 1 .. Len(s) - i : b[k] = s[i + k]
  <2>0. PICK n \in Nat : n = Len(s)
    BY <1>0
  <2>1. PICK m \in Int : m = i + 1 /\ n = Len(s)
    BY <1>0, <2>0
  <2>2. \A k \in m .. n : s[k] \in S
    <3>1. \A k \in m .. n : k \in 1 .. Len(s)
      BY <1>0, <2>1
    <3> QED BY <3>1, ElementOfSeq
  <2>3. /\ SubSeq(s, m, n) \in Seq(S) /\ Len(SubSeq(s, m, n)) = IF m <= n THEN n - m + 1 ELSE 0
        /\ \A k \in 1 .. n - m + 1 : SubSeq(s, m, n)[k] = s[m + k - 1]
    BY <2>2, SubSeqProperties
  <2>4. (IF m <= n THEN n - m + 1 ELSE 0) = Len(s) - i /\ n - m + 1 = Len(s) - i
        /\ \A k \in 1 .. Len(s) - i : m + k - 1 = i + k
    <3>1. i \in Nat /\ 1 <= i /\ i <= n /\ m = i + 1
      BY <1>0, <2>1
    <3>2. (IF m <= n THEN n - m + 1 ELSE 0) = n - i /\ n - m + 1 = n - i
      BY <3>1
    <3>3. \A k \in 1 .. n - i : m + k - 1 = i + k
      BY <3>1
    <3> QED BY <2>1, <3>2, <3>3
  <2>5. b = SubSeq(s, m, n)
    BY <1>2, <2>1
  <2> QED BY <2>3, <2>4, <2>5
<1>5. r = a \o b
  BY <1>i, <1>1, <1>2 DEF RemoveAt
<1>6. /\ r \in Seq(S) /\ Len(r) = Len(a) + Len(b)
      /\ DOMAIN r = 1 .. Len(a) + Len(b)
      /\ \A k \in 1 .. Len(a) : r[k] = a[k]
      /\ \A k \in 1 .. Len(b) : r[Len(a) + k] = b[k]
  <2>1. a \in Seq(S) /\ b \in Seq(S)
    BY <1>3, <1>4
  <2> QED BY <1>5, <2>1, OneAfterOther
<1>6a. Len(a) + Len(b) = Len(s) - 1
  BY <1>0, <1>3, <1>4
<1>7. ASSUME NEW k \in 1 .. Len(s) - 1 PROVE r[k] = IF k < i THEN s[k] ELSE s[k + 1]
  <2>1. CASE k < i
    <3>1. k \in 1 .. Len(a) /\ k \in 1 .. i - 1
      BY <1>0, <1>3, <2>1
    <3> QED BY <1>3, <1>6, <2>1, <3>1
  <2>2. CASE ~ (k < i)
    <3>1. PICK m \in Int : m = k - (i - 1)
      BY <1>0
    <3>2. m \in 1 .. Len(b) /\ Len(a) + m = k /\ i + m = k + 1
      BY <1>0, <1>3, <1>4, <2>2, <3>1
    <3>3. r[k] = b[m] /\ b[m] = s[k + 1]
      BY <1>4, <1>6, <3>2
    <3> QED BY <2>2, <3>3
  <2> QED BY <2>1, <2>2
<1>8. DOMAIN r = 1 .. Len(s) - 1
  BY <1>6, <1>6a
<1>9. \A k \in DOMAIN r : \E m \in DOMAIN s : m = (IF k < i THEN k ELSE k + 1) /\ r[k] = s[m]
  <2> SUFFICES ASSUME NEW k \in DOMAIN r
               PROVE  \E m \in DOMAIN s : m = (IF k < i THEN k ELSE k + 1) /\ r[k] = s[m]
    OBVIOUS
  <2>1. (IF k < i THEN k ELSE k + 1) \in DOMAIN s
    BY <1>0, <1>8
  <2> QED BY <1>7, <1>8, <2>1
<1>10. \A m \in DOMAIN s : m # i => \E k \in DOMAIN r : r[k] = s[m]
  <2> SUFFICES ASSUME NEW m \in DOMAIN s, m # i PROVE \E k \in DOMAIN r : r[k] = s[m]
    OBVIOUS
  <2>1. CASE m < i
    <3>1. m \in DOMAIN r /\ r[m] = s[m]
      BY <1>0, <1>7, <1>8, <2>1
    <3> QED BY <3>1
  <2>2. CASE ~ (m < i)
    <3>1. m - 1 \in DOMAIN r /\ ~ (m - 1 < i) /\ (m - 1) + 1 = m
      BY <1>0, <1>8, <2>2
    <3>2. r[m - 1] = s[m]
      BY <1>7, <1>8, <3>1
    <3> QED BY <3>1, <3>2
  <2> QED BY <2>1, <2>2
<1>11. ASSUME \A k, m \in DOMAIN s : s[k] = s[m] => k = m,
              NEW k \in DOMAIN r, NEW m \in DOMAIN r, r[k] = r[m]
       PROVE  k = m
  <2>1. (IF k < i THEN k ELSE k + 1) = (IF m < i THEN m ELSE m + 1)
    BY <1>9, <1>11
  <2>2. k \in Int /\ m \in Int /\ i \in Int
    BY <1>0, <1>8
  <2> QED BY <2>1, <2>2
<1>12. \A k \in DOMAIN r : \E m \in DOMAIN s : r[k] = s[m]
  BY <1>9
<1>13. Once(s) => Once(r)
  BY <1>11 DEF Once
<1> QED BY <1>i, <1>6, <1>10, <1>12, <1>13

\* A group that is destroyed leaves a waitable nobody has locked, so nobody reports for it.
LEMMA LeaveStepKeepsGroupInv ==
  ASSUME GroupInv, NEW t \in Threads, NEW g \in Groups, LeaveStep(t, g)
  PROVE  GroupInv'
<1>0. /\ GroupTypeOK /\ Orderly /\ StepsAreReady /\ Backed /\ OneDestroys /\ Sleepers /\ References
      /\ Lists /\ tasks \in [Groups -> SUBSET Waitables] /\ alive \subseteq Groups
      /\ waitGroups \in [Waitables -> Seq(Groups)]
  BY DEF GroupInv, GroupTypeOK
<1>1. /\ NextIs(t, "destroy", g)
      /\ UNCHANGED <<todo, asleep, own, base, tasks, count, groupClosed, done, alive, holders,
                     maps, called>>
  BY DEF LeaveStep, calls, mutexes, groups, life, andThen
<1>2. PICK x \in tasks[g] :
        base[x] = Nobody /\ \E i \in DOMAIN waitGroups[x] :
          /\ waitGroups[x][i] = g
          /\ waitGroups' = [waitGroups EXCEPT ![x] = RemoveAt(@, i)]
  BY DEF LeaveStep, Free
<1>3. PICK i \in DOMAIN waitGroups[x] :
        /\ waitGroups[x][i] = g
        /\ waitGroups' = [waitGroups EXCEPT ![x] = RemoveAt(@, i)]
  BY <1>2
<1>4. x \in Waitables
  BY <1>0, <1>2
<1>5. PICK old \in Seq(Groups) : old = waitGroups[x]
  BY <1>0, <1>4
<1>6. PICK j \in DOMAIN old : j = i
  BY <1>3, <1>5
<1>7. PICK new : new = RemoveAt(old, j)
  OBVIOUS
<1>8. /\ new \in Seq(Groups)
      /\ \A k \in DOMAIN new : \E m \in DOMAIN old : new[k] = old[m]
      /\ \A m \in DOMAIN old : m # j => \E k \in DOMAIN new : new[k] = old[m]
      /\ Once(old) => Once(new)
  BY <1>7, WithoutOne
<1>9. waitGroups'[x] = new
  BY <1>0, <1>3, <1>4, <1>5, <1>6, <1>7
<1>10. \A y \in Waitables : Once(waitGroups[y])
  BY <1>0 DEF Lists, Once
<1>11. old[j] = g
  BY <1>3, <1>5, <1>6
<1>12. \A y \in Waitables : y # x => waitGroups'[y] = waitGroups[y]
  BY <1>0, <1>3
<1>13. \A y \in Waitables : \A h : h # g => (WaitsWith(y, h)' <=> WaitsWith(y, h))
  <2>1. ASSUME NEW h, h # g PROVE WaitsWith(x, h)' <=> WaitsWith(x, h)
    <3>1. WaitsWith(x, h)' <=> \E k \in DOMAIN new : new[k] = h
      BY <1>9 DEF WaitsWith
    <3>2. WaitsWith(x, h) <=> \E m \in DOMAIN old : old[m] = h
      BY <1>5 DEF WaitsWith
    <3>3. (\E m \in DOMAIN old : old[m] = h) => \E k \in DOMAIN new : new[k] = h
      <4> SUFFICES ASSUME NEW m \in DOMAIN old, old[m] = h PROVE \E k \in DOMAIN new : new[k] = h
        OBVIOUS
      <4>1. m # j
        BY <1>11, <2>1
      <4>2. PICK k \in DOMAIN new : new[k] = old[m]
        BY <1>8, <4>1
      <4> QED BY <4>2
    <3>4. (\E k \in DOMAIN new : new[k] = h) => \E m \in DOMAIN old : old[m] = h
      BY <1>8
    <3> QED BY <3>1, <3>2, <3>3, <3>4
  <2>2. \A y \in Waitables : \A h : y # x => (WaitsWith(y, h)' <=> WaitsWith(y, h))
    BY <1>12 DEF WaitsWith
  <2> QED BY <2>1, <2>2
<1>14. \A y \in Waitables : \A h : y # x => (WaitsWith(y, h)' <=> WaitsWith(y, h))
  BY <1>12 DEF WaitsWith
\* nobody has the mutex of x, so nobody reports for it or is about to clear its list
<1>15. \A u \in Threads : /\ ~ Has(u, <<"clear", x>>)
                          /\ \A h \in Groups : ~ Has(u, <<"task_done", h, x>>)
  <2> SUFFICES ASSUME NEW u \in Threads
               PROVE  /\ ~ Has(u, <<"clear", x>>)
                      /\ \A h \in Groups : ~ Has(u, <<"task_done", h, x>>)
    OBVIOUS
  <2>1. base[x] # u
    BY <1>2, WaitGroupAssumption
  <2> QED BY <1>4, <2>1, BaseFacts, ReportFacts
<1>16. \A u, s, r : /\ Has(u, s)' <=> Has(u, s)
                    /\ Before(u, s, r)' <=> Before(u, s, r)
  BY <1>1 DEF Has, Before
<1>19. GroupTypeOK'
  <2>1. waitGroups' \in [Waitables -> Seq(Groups)]
    <3>1. waitGroups' = [waitGroups EXCEPT ![x] = new]
      BY <1>0, <1>3, <1>4, <1>5, <1>6, <1>7
    <3> QED BY <1>0, <1>8, <3>1
  <2> QED BY <1>0, <1>1, <2>1 DEF GroupTypeOK
<1>20. Orderly' /\ OneDestroys'
  <2>1. Orderly'
    BY <1>0, <1>1, <1>16 DEF Orderly
  <2>2. OneDestroys'
    BY <1>0, <1>16 DEF OneDestroys
  <2> QED BY <2>1, <2>2
<1>21. StepsAreReady'
  <2> SUFFICES ASSUME NEW u \in Threads, NEW s \in Steps, Has(u, s), Ready(u, s)
               PROVE  Ready(u, s)'
    BY <1>0, <1>16 DEF StepsAreReady
  <2>1. s[1] = "task_done" => WaitsWith(s[3], s[2])'
    <3> SUFFICES ASSUME s[1] = "task_done" PROVE WaitsWith(s[3], s[2])'
      OBVIOUS
    <3>1. s = <<"task_done", s[2], s[3]>> /\ s[2] \in Groups /\ s[3] \in Waitables
      BY StepForms
    <3>2. s[3] # x
      BY <1>15, <3>1
    <3> QED BY <1>14, <3>1, <3>2 DEF Ready
  <2> QED BY <1>1, <2>1 DEF Ready
<1>22. Backed'
  <2> SUFFICES ASSUME NEW u \in Threads, NEW s \in Steps, Has(u, s), Needy(s)
               PROVE  \E r \in Steps : Before(u, s, r) /\ Backs(u, s, r)'
    BY <1>16 DEF Backed, Needy
  <2>1. PICK r \in Steps : Before(u, s, r) /\ Backs(u, s, r)
    BY <1>0 DEF Backed
  <2>2. \A y : r = <<"clear", y>> => y # x
    BY <1>15, <2>1, BeforeIsThere
  <2>3. s[1] = "empty" => s[2] \in Groups /\ \A y \in tasks[s[2]] : y \in Waitables
    BY <1>0, StepForms
  <2>4. Backs(u, s, r)'
    BY <1>1, <1>14, <2>1, <2>2, <2>3 DEF Backs
  <2> QED BY <2>1, <2>4
<1>23. Sleepers' /\ References'
  BY <1>0, <1>1 DEF Sleepers, References
<1>24. Lists'
  <2>1. \A y \in Waitables : \A m \in DOMAIN waitGroups[y] :
          /\ y \in tasks[waitGroups[y][m]]
          /\ (y \in Groups => y \in alive) => waitGroups[y][m] \in alive
    BY <1>0 DEF Lists
  <2>2. \A y \in Waitables : done[y] /\ waitGroups[y] # <<>> =>
          \E u \in Threads : Has(u, <<"clear", y>>)
    BY <1>0 DEF Lists
  <2> SUFFICES ASSUME NEW y \in Waitables
               PROVE  /\ \A k \in DOMAIN waitGroups'[y] :
                           /\ y \in tasks'[waitGroups'[y][k]]
                           /\ (y \in Groups => y \in alive') => waitGroups'[y][k] \in alive'
                      /\ Once(waitGroups'[y])
                      /\ done'[y] /\ waitGroups'[y] # <<>> =>
                           \E u \in Threads : Has(u, <<"clear", y>>)'
    BY DEF Lists, Once
  <2>3. PICK w : w = waitGroups'[y]
    OBVIOUS
  <2>4. PICK v : v = waitGroups[y]
    OBVIOUS
  <2>5. /\ \A k \in DOMAIN w : \E m \in DOMAIN v : w[k] = v[m]
        /\ Once(w)
        /\ w # <<>> => v # <<>>
    <3>1. Once(v)
      BY <1>10, <2>4
    <3>2. CASE y # x
      <4>1. w = v
        BY <1>12, <2>3, <2>4, <3>2
      <4> QED BY <3>1, <4>1
    <3>3. CASE y = x
      <4>1. w = new /\ v = old
        BY <1>5, <1>9, <2>3, <2>4, <3>3
      <4>2. old # <<>>
        BY <1>6
      <4> QED BY <1>8, <3>1, <4>1, <4>2
    <3> QED BY <3>2, <3>3
  <2>6. alive' = alive /\ tasks' = tasks
    BY <1>1
  <2>7. \A k \in DOMAIN w : /\ y \in tasks'[w[k]]
                            /\ (y \in Groups => y \in alive') => w[k] \in alive'
    <3> SUFFICES ASSUME NEW k \in DOMAIN w
                 PROVE  y \in tasks[w[k]] /\ ((y \in Groups => y \in alive) => w[k] \in alive)
      BY <2>6
    <3>1. PICK m \in DOMAIN v : w[k] = v[m]
      BY <2>5
    <3> QED BY <2>1, <2>4, <3>1
  <2>8. done'[y] /\ w # <<>> => \E u \in Threads : Has(u, <<"clear", y>>)'
    BY <1>1, <1>16, <2>2, <2>4, <2>5
  <2> QED BY <2>3, <2>5, <2>7, <2>8
<1>25. Counted'
  <2> SUFFICES ASSUME NEW h \in alive, ~ Dying(h)
               PROVE  /\ count[h] = Cardinality(Owed(h)')
                      /\ \A y \in tasks[h] : ~ done[y] => WaitsWith(y, h)'
    <3>1. \A h : Dying(h)' <=> Dying(h)
      BY <1>1 DEF Dying
    <3> QED BY <1>1, <3>1 DEF Counted
  <2>1. Has(t, <<"destroy", g>>)
    BY <1>1, TheStep
  <2>2. h # g
    BY <2>1, PendingAndDying
  <2>3. Pending(h)' = Pending(h)
    BY <1>1 DEF Pending
  <2>4. Owed(h)' = Owed(h)
    BY <1>1, <2>3 DEF Owed
  <2>5. /\ count[h] = Cardinality(Owed(h)) /\ h \in Groups /\ tasks[h] \subseteq Waitables
        /\ \A y \in tasks[h] : ~ done[y] => WaitsWith(y, h)
    BY <1>0 DEF GroupInv, Counted
  <2> QED BY <1>13, <2>2, <2>4, <2>5
<1> QED BY <1>19, <1>20, <1>21, <1>22, <1>23, <1>24, <1>25 DEF GroupInv

\* The sequences that hold every element of a finite set of steps once.
LEMMA OnceEach ==
  ASSUME NEW S \in SUBSET Steps, IsFiniteSet(S), NEW rest \in SetToSeqs(S)
  PROVE  /\ rest \in Seq(Steps)
         /\ \A i \in DOMAIN rest : rest[i] \in S
         /\ \A i, k \in DOMAIN rest : rest[i] = rest[k] => i = k
<1>1. PICK n \in Nat : n = Cardinality(S)
  BY FS_CardinalityType
<1>2. rest \in [1 .. n -> S] /\ \A i, k \in 1 .. n : i # k => rest[i] # rest[k]
  BY <1>1 DEF SetToSeqs
<1>3. rest \in [1 .. n -> Steps]
  BY <1>2
<1>4. rest \in Seq(Steps)
  BY <1>3, SeqDef
<1> QED BY <1>2, <1>4

\* A group is gone, and those only it referred to begin to go.
LEMMA FreeStepKeepsGroupInv ==
  ASSUME GroupInv, NEW t \in Threads, NEW g \in Groups, FreeStep(t, g)
  PROVE  GroupInv'
<1> DEFINE D == <<"destroy", g>>
<1>0. /\ GroupTypeOK /\ Orderly /\ StepsAreReady /\ Backed /\ OneDestroys /\ Sleepers /\ References
      /\ Lists /\ tasks \in [Groups -> SUBSET Waitables] /\ alive \subseteq Groups
      /\ g \in Waitables
  BY DEF GroupInv, GroupTypeOK, Waitables
<1>1. /\ NextIs(t, "destroy", g) /\ \A x \in tasks[g] : ~ WaitsWith(x, g)
      /\ alive' = alive \ {g}
      /\ UNCHANGED <<asleep, own, base, tasks, count, groupClosed, done, waitGroups, holders,
                     maps, called>>
  BY DEF FreeStep, Freed, mutexes, groups, waiting, andThen
<1>2. /\ todo[t] # <<>> /\ \A s : Made(t, s) <=> s = D
      /\ Has(t, D) /\ Ready(t, D)
  BY <1>0, <1>1, TheStep
<1>3. g \in alive /\ holders[g] = {} /\ \A p \in alive : g \notin tasks[p]
  BY <1>2 DEF Ready
<1>4. \A x \in Orphans(g) : /\ x \in Groups /\ x \in alive /\ x # g /\ x \in tasks[g]
                            /\ holders[x] = {} /\ \A p \in alive' : x \notin tasks[p]
  BY <1>0, <1>1, <1>3 DEF Orphans, Referenced, References
<1>5. PICK rest \in Seq(Steps) :
        /\ Then(t, rest)
        /\ \A i \in DOMAIN rest : \E x \in Orphans(g) : rest[i] = <<"destroy", x>>
        /\ \A i, k \in DOMAIN rest : rest[i] = rest[k] => i = k
  <2> DEFINE S == {<<"destroy", x>> : x \in Orphans(g)}
  <2>1. PICK rest \in SetToSeqs(S) : Then(t, rest)
    BY DEF FreeStep, Freed
  <2>2. S \subseteq {"destroy"} \X Waitables
    BY <1>4 DEF Waitables
  <2>3. IsFiniteSet(S)
    <3>1. IsFiniteSet({"destroy"} \X Waitables)
      BY WaitGroupAssumption, FS_Singleton, FS_Product
    <3> HIDE DEF S
    <3> QED BY <2>2, <3>1, FS_Subset
  <2>4. S \subseteq Steps
    BY <1>4, FormsOfSteps
  <2>5. /\ rest \in Seq(Steps) /\ \A i \in DOMAIN rest : rest[i] \in S
        /\ \A i, k \in DOMAIN rest : rest[i] = rest[k] => i = k
    <3> HIDE DEF S
    <3> QED BY <2>1, <2>3, <2>4, OnceEach
  <2> QED BY <2>1, <2>5
<1>6. \A s : In(s, rest) => \E x \in Orphans(g) : s = <<"destroy", x>>
  BY <1>5 DEF In
<1>7. /\ Moves(t, rest) /\ todo' \in [Threads -> Seq(Steps)]
      /\ \A u \in Threads \ {t} : todo'[u] = todo[u]
      /\ \A u \in Threads, y \in Waitables :
           u # t /\ todo[u] = <<>> => todo'[u] # <<<<"wait", y>>>>
  BY <1>0, <1>2, <1>5, ThenMoves
\* nobody is about to destroy what only g refers to
<1>8. \A u \in Threads, x \in Orphans(g) : ~ Has(u, <<"destroy", x>>)
  <2> SUFFICES ASSUME NEW u \in Threads, NEW x \in Orphans(g), Has(u, <<"destroy", x>>)
               PROVE  FALSE
    OBVIOUS
  <2>1. <<"destroy", x>> \in Steps /\ x \in tasks[g]
    BY <1>4, FormsOfSteps
  <2>2. Ready(u, <<"destroy", x>>)
    BY <1>0, <2>1 DEF StepsAreReady
  <2> QED BY <1>3, <2>1, <2>2 DEF Ready
<1>9. \A x \in Waitables : ~ WaitsWith(x, g)
  BY <1>0, <1>1 DEF Lists, WaitsWith
<1>10. GroupTypeOK'
  BY <1>0, <1>1, <1>7 DEF GroupTypeOK
<1>11. Orderly'
  <2>1. \A i \in DOMAIN rest : ~ Has(t, rest[i]) /\ rest[i][1] # "wait"
    BY <1>5, <1>8
  <2>2. \A y \in Waitables : ~ (Has(t, <<"clear", y>>)' /\ Has(t, <<"added", y>>)')
    <3> SUFFICES ASSUME NEW y \in Waitables, Has(t, <<"clear", y>>)', Has(t, <<"added", y>>)'
                 PROVE  FALSE
      OBVIOUS
    <3>1. ~ In(<<"clear", y>>, rest) /\ ~ In(<<"added", y>>, rest)
      BY <1>6
    <3>2. Has(t, <<"clear", y>>) /\ Has(t, <<"added", y>>)
      BY <1>0, <1>7, <3>1, MovedSteps
    <3> QED BY <3>2, BaseFacts
  <2> QED BY <1>0, <1>5, <1>7, <2>1, <2>2, OrderlyAfter
<1>12. StepsAreReady'
  <2>1. ASSUME NEW u \in Threads, NEW s \in Steps, Has(u, s), Ready(u, s), ~ (u = t /\ Made(t, s))
        PROVE  Ready(u, s)'
    <3>1. s[2] # g
      BY <1>1, <1>2, <2>1, NobodyUsesTheDying
    <3> QED BY <1>1, <2>1, <3>1 DEF Ready, WaitsWith
  <2>2. ASSUME NEW i \in DOMAIN rest PROVE Ready(t, rest[i])'
    <3>1. PICK x \in Orphans(g) : rest[i] = <<"destroy", x>>
      BY <1>5
    <3>2. Ready(t, <<"destroy", x>>)'
      BY <1>1, <1>4 DEF Ready
    <3> QED BY <3>1, <3>2
  <2> QED BY <1>0, <1>5, <1>7, <2>1, <2>2, ReadyAfter
<1>13. Backed'
  <2>1. \A u \in Threads, s \in Steps, r \in Steps : Backs(u, s, r) => Backs(u, s, r)'
    BY <1>1 DEF Backs, WaitsWith
  <2>2. \A i \in DOMAIN rest : ~ Needy(rest[i])
    <3> SUFFICES ASSUME NEW i \in DOMAIN rest PROVE ~ Needy(rest[i])
      OBVIOUS
    <3>1. rest[i][1] = "destroy"
      BY <1>5
    <3> QED BY <3>1 DEF Needy
  <2> QED BY <1>0, <1>5, <1>7, <2>1, <2>2, BackedAfter
<1>14. OneDestroys'
  <2>1. \A h \in Groups, u \in Threads : In(<<"destroy", h>>, rest) => ~ Has(u, <<"destroy", h>>)
    BY <1>6, <1>8
  <2> QED BY <1>0, <1>5, <1>7, <2>1, OneDestroysAfter
<1>15. Sleepers'
  BY <1>0, <1>1, <1>2, <1>7 DEF Sleepers, Threads
<1>16. Lists'
  <2>1. ASSUME NEW x \in Waitables, done[x], waitGroups[x] # <<>>
        PROVE  \E u \in Threads : Has(u, <<"clear", x>>)'
    <3> DEFINE s == <<"clear", x>>
    <3>1. s[1] # "wait" /\ ~ Made(t, s)
      BY <1>2
    <3>2. PICK u \in Threads : Has(u, s)
      BY <1>0, <2>1 DEF Lists
    <3>3. Has(u, s)'
      <4> HIDE DEF s
      <4> QED BY <1>0, <1>5, <1>7, <3>1, <3>2, WhoHas
    <3> QED BY <3>3
  <2>2. \A x \in Waitables : \A i \in DOMAIN waitGroups[x] :
          /\ x \in tasks[waitGroups[x][i]]
          /\ (x \in Groups => x \in alive') => waitGroups[x][i] \in alive'
    BY <1>0, <1>1, <1>9 DEF Lists, WaitsWith
  <2>3. \A x \in Waitables : \A i, k \in DOMAIN waitGroups[x] :
          waitGroups[x][i] = waitGroups[x][k] => i = k
    BY <1>0 DEF Lists
  <2> QED BY <1>1, <2>1, <2>2, <2>3 DEF Lists
<1>17. References'
  BY <1>0, <1>1, <1>3 DEF References
<1>18. Counted'
  <2>1. NoReport(t, rest)
    BY <1>2, <1>6 DEF NoReport
  <2>2. \A h \in alive' : ~ Made(t, <<"destroy", h>>)
    BY <1>1, <1>2
  <2>3. \A h \in alive', y \in Waitables : WaitsWith(y, h) => WaitsWith(y, h)'
    BY <1>1 DEF WaitsWith
  <2>4. alive' \subseteq alive
    BY <1>1
  <2> QED BY <1>0, <1>1, <1>5, <1>7, <2>1, <2>2, <2>3, <2>4, CountedAfter
<1> QED BY <1>10, <1>11, <1>12, <1>13, <1>14, <1>15, <1>16, <1>17, <1>18 DEF GroupInv

\* add() of a waitable that is done: the group is owed nothing more, and one that is owed
\* nothing at all is done, with both mutexes held.
LEMMA AddDoneKeepsGroupInv ==
  ASSUME GroupInv, NEW c \in Clients, NEW g \in Groups, NEW x \in Waitables, AddDone(c, g, x)
  PROVE  GroupInv'
<1> DEFINE D == <<"done", g>>
           E == <<"empty", g>>
           A == <<"added", x>>
<1>0. /\ GroupTypeOK /\ Orderly /\ StepsAreReady /\ Backed /\ OneDestroys /\ Sleepers /\ References
      /\ Lists /\ c \in Threads /\ g \in Waitables
      /\ tasks \in [Groups -> SUBSET Waitables] /\ alive \subseteq Groups
      /\ own \in [Waitables -> Threads \cup {Nobody}] /\ base \in [Waitables -> Threads \cup {Nobody}]
  BY DEF GroupInv, GroupTypeOK, Threads, Waitables
<1>1. /\ D \in Steps /\ E \in Steps /\ A \in Steps
      /\ D[1] = "done" /\ D[2] = g /\ E[1] = "empty" /\ E[2] = g /\ A[1] = "added" /\ A[2] = x
      /\ D # E /\ D # A /\ E # A
  BY <1>0, FormsOfSteps
<1>2. /\ todo[c] = <<>> /\ asleep[c] = Nobody /\ c \in holders[g] /\ x \notin tasks[g]
      /\ (x \in Groups => c \in holders[x]) /\ done[x]
      /\ own[g] = Nobody /\ base[x] = Nobody
      /\ tasks' = [tasks EXCEPT ![g] = @ \cup {x}]
      /\ UNCHANGED <<asleep, count, groupClosed, done, waitGroups, alive, holders, maps, called>>
  BY DEF AddDone, Addable, Idle, Free, waiting, life, andThen
<1>3. \A s : ~ Made(c, s) /\ ~ Has(c, s)
  BY <1>2, NothingToDo
<1>4. g \in alive /\ (x \in Groups => x \in alive)
  BY <1>0, <1>2 DEF References
<1>5. PICK first \in Seq(Steps) :
        /\ Do(c, first)
        /\ \/ first = <<>> /\ own' = own /\ base' = base
           \/ /\ first = <<D, E, A>>
              /\ own' = [own EXCEPT ![g] = c] /\ base' = [base EXCEPT ![x] = c]
  <2>1. <<>> \in Seq(Steps) /\ <<D, E, A>> \in Seq(Steps)
    <3> HIDE DEF D, E, A
    <3> QED BY <1>1
  <2>2. CASE UNCHANGED <<todo, mutexes>>
    <3>1. todo' = [todo EXCEPT ![c] = <<>>]
      BY <1>0, <1>2, <2>2 DEF GroupTypeOK
    <3> QED BY <2>1, <2>2, <3>1 DEF Do, mutexes
  <2>3. CASE Lock(own, g, c) /\ Lock(base, x, c) /\ Do(c, <<D, E, A>>)
    BY <2>1, <2>3 DEF Lock
  <2> QED BY <2>2, <2>3 DEF AddDone
<1>6. /\ \A i \in DOMAIN first : /\ (i = 1 /\ first[i] = D) \/ (i = 2 /\ first[i] = E)
                                    \/ (i = 3 /\ first[i] = A)
                                 /\ 1 \in DOMAIN first /\ 2 \in DOMAIN first /\ 3 \in DOMAIN first
                                 /\ own'[g] = c /\ base'[x] = c
  BY <1>0, <1>5
<1>7. \A s : In(s, first) => s = D \/ s = E \/ s = A
  BY <1>6 DEF In
<1>8. /\ \A h \in Waitables : own'[h] = own[h] \/ (h = g /\ own[g] = Nobody)
      /\ \A y \in Waitables : base'[y] = base[y] \/ (y = x /\ base[x] = Nobody)
  BY <1>0, <1>2, <1>5
<1>9. /\ Moves(c, first) /\ todo' \in [Threads -> Seq(Steps)]
      /\ \A u \in Threads \ {c} : todo'[u] = todo[u]
      /\ \A u \in Threads, y \in Waitables :
           u # c /\ todo[u] = <<>> => todo'[u] # <<<<"wait", y>>>>
  BY <1>0, <1>2, <1>5, DoMoves
<1>10. /\ \A h \in Groups : tasks[h] \subseteq tasks'[h] /\ tasks'[h] \subseteq tasks[h] \cup {x}
       /\ \A h \in Groups : h # g => tasks'[h] = tasks[h]
       /\ tasks'[g] = tasks[g] \cup {x}
  BY <1>0, <1>2
<1>11. \A y, h : WaitsWith(y, h)' <=> WaitsWith(y, h)
  BY <1>2 DEF WaitsWith
<1>12. GroupTypeOK'
  <2>1. tasks' \in [Groups -> SUBSET Waitables]
    BY <1>0, <1>2
  <2>2. own' \in [Waitables -> Threads \cup {Nobody}] /\ base' \in [Waitables -> Threads \cup {Nobody}]
    BY <1>0, <1>5
  <2> QED BY <1>0, <1>2, <1>9, <2>1, <2>2 DEF GroupTypeOK
<1>13. Orderly'
  <2>1. \A i, k \in DOMAIN first : first[i] = first[k] => i = k
    BY <1>1, <1>6
  <2>2. \A i \in DOMAIN first : first[i][1] # "wait"
    BY <1>1, <1>6
  <2>3. \A y \in Waitables : ~ Has(c, <<"clear", y>>)'
    <3> SUFFICES ASSUME NEW y \in Waitables PROVE ~ Has(c, <<"clear", y>>)'
      OBVIOUS
    <3>1. ~ In(<<"clear", y>>, first)
      BY <1>7
    <3> QED BY <1>0, <1>3, <1>9, <3>1, MovedSteps
  <2> QED BY <1>0, <1>3, <1>9, <2>1, <2>2, <2>3, OrderlyAfter
<1>14. StepsAreReady'
  <2>1. ASSUME NEW u \in Threads, NEW s \in Steps, Has(u, s), Ready(u, s) PROVE Ready(u, s)'
    <3>0. u # Nobody
      BY WaitGroupAssumption
    <3>1. s[1] = "task_done" => s[3] \in tasks'[s[2]]
      BY <1>10, <2>1, StepForms DEF Ready
    <3>2. s[1] \in {"clear", "added"} => base'[s[2]] = u
      <4> SUFFICES ASSUME s[1] \in {"clear", "added"} PROVE base'[s[2]] = u
        OBVIOUS
      <4>1. s[2] \in Waitables /\ base[s[2]] = u
        BY <2>1, StepForms DEF Ready
      <4> QED BY <1>8, <3>0, <4>1
    <3>3. s[1] = "added" => \E h \in Groups : u \in holders[h] /\ s[2] \in tasks'[h]
      BY <1>10, <2>1 DEF Ready
    <3>4. s[1] = "empty" => own'[s[2]] = u
      <4> SUFFICES ASSUME s[1] = "empty" PROVE own'[s[2]] = u
        OBVIOUS
      <4>1. s[2] \in Waitables /\ own[s[2]] = u
        BY <2>1, StepForms DEF Ready, Waitables
      <4> QED BY <1>8, <3>0, <4>1
    <3>5. s[1] = "destroy" => \A p \in alive : s[2] \notin tasks'[p]
      <4> SUFFICES ASSUME s[1] = "destroy", NEW p \in alive, s[2] \in tasks'[p] PROVE FALSE
        OBVIOUS
      <4>1. s[2] \in Groups /\ holders[s[2]] = {} /\ s[2] \notin tasks[p]
        BY <2>1, StepForms DEF Ready
      <4>2. s[2] = x
        BY <1>0, <1>10, <4>1
      <4> QED BY <1>2, <4>1, <4>2
    <3> QED BY <1>2, <1>11, <2>1, <3>1, <3>2, <3>3, <3>4, <3>5 DEF Ready
  <2>2. ASSUME NEW i \in DOMAIN first PROVE Ready(c, first[i])'
    <3>1. own'[g] = c /\ base'[x] = c /\ (first[i] = D \/ first[i] = E \/ first[i] = A)
      BY <1>6
    <3>2. Ready(c, D)'
      BY <1>1, <1>2, <1>4 DEF Ready
    <3>3. Ready(c, E)'
      BY <1>1, <1>2, <1>4, <3>1 DEF Ready
    <3>4. Ready(c, A)'
      BY <1>1, <1>2, <1>4, <1>10, <3>1 DEF Ready
    <3> QED BY <3>1, <3>2, <3>3, <3>4
  <2> QED BY <1>0, <1>9, <2>1, <2>2, ReadyAfter
<1>15. Backed'
  <2>1. ASSUME NEW u \in Threads, NEW s \in Steps, NEW r \in Steps, Backs(u, s, r)
        PROVE  Backs(u, s, r)'
    <3>1. s[1] = "empty" => s[2] \in Groups
      BY StepForms
    <3> QED BY <1>2, <1>10, <1>11, <2>1, <3>1 DEF Backs
  <2>2. ASSUME NEW i \in DOMAIN first, Needy(first[i])
        PROVE  \E r \in Steps : /\ Backs(c, first[i], r)'
                                /\ \/ \E k \in DOMAIN first : i < k /\ first[k] = r
                                   \/ Has(c, r) /\ ~ Made(c, r)
    <3>1. CASE i = 1
      <4>1. 2 \in DOMAIN first /\ first[2] = E /\ first[i] = D /\ i < 2
        BY <1>6, <3>1
      <4>2. Backs(c, D, E)'
        BY <1>1 DEF Backs
      <4> QED BY <1>1, <4>1, <4>2
    <3>2. CASE i = 2
      <4>1. 3 \in DOMAIN first /\ first[3] = A /\ first[i] = E /\ i < 3
        BY <1>6, <3>2
      <4>2. Backs(c, E, A)'
        BY <1>1, <1>2, <1>10 DEF Backs
      <4> QED BY <1>1, <4>1, <4>2
    <3>3. CASE i = 3
      <4>1. first[i] = A
        BY <1>6, <3>3
      <4> QED BY <1>1, <2>2, <4>1 DEF Needy
    <3> QED BY <1>6, <3>1, <3>2, <3>3
  <2> QED BY <1>0, <1>9, <2>1, <2>2, BackedAfter
<1>16. OneDestroys'
  <2>1. \A h : ~ In(<<"destroy", h>>, first)
    BY <1>7
  <2> QED BY <1>0, <1>9, <2>1, OneDestroysAfter
<1>17. Sleepers'
  BY <1>0, <1>2, <1>9 DEF Sleepers, Threads
<1>18. Lists'
  <2>1. \A y \in Waitables, u \in Threads : Has(u, <<"clear", y>>) => Has(u, <<"clear", y>>)'
    <3> SUFFICES ASSUME NEW y \in Waitables, NEW u \in Threads, Has(u, <<"clear", y>>)
                 PROVE  Has(u, <<"clear", y>>)'
      OBVIOUS
    <3>1. u # c
      BY <1>3
    <3>2. todo'[u] = todo[u]
      BY <1>9, <3>1
    <3> QED BY <3>2 DEF Has
  <2>2. \A y \in Waitables : \A i \in DOMAIN waitGroups[y] :
          /\ y \in tasks'[waitGroups[y][i]]
          /\ (y \in Groups => y \in alive) => waitGroups[y][i] \in alive
    <3>1. \A y \in Waitables : \A i \in DOMAIN waitGroups[y] : waitGroups[y][i] \in Groups
      BY <1>0, LenProperties, ElementOfSeq DEF GroupTypeOK
    <3>2. \A y \in Waitables : \A i \in DOMAIN waitGroups[y] :
            /\ y \in tasks[waitGroups[y][i]]
            /\ (y \in Groups => y \in alive) => waitGroups[y][i] \in alive
      BY <1>0 DEF Lists
    <3> QED BY <1>10, <3>1, <3>2
  <2>3. \A y \in Waitables : \A i, k \in DOMAIN waitGroups[y] :
          waitGroups[y][i] = waitGroups[y][k] => i = k
    BY <1>0 DEF Lists
  <2>4. \A y \in Waitables : done[y] /\ waitGroups[y] # <<>> =>
          \E u \in Threads : Has(u, <<"clear", y>>)'
    BY <1>0, <2>1 DEF Lists
  <2> QED BY <1>2, <2>2, <2>3, <2>4 DEF Lists
<1>19. References'
  BY <1>0, <1>2, <1>4, <1>10 DEF References
<1>20. Counted'
  <2>1. NoReport(c, first)
    BY <1>3, <1>7 DEF NoReport
  <2> SUFFICES ASSUME NEW h \in alive, ~ Dying(h)'
               PROVE  /\ count[h] = Cardinality(Owed(h)')
                      /\ \A y \in tasks'[h] : ~ done[y] => WaitsWith(y, h)
    BY <1>2, <1>11 DEF Counted
  <2>2. h \in Groups /\ Pending(h)' = Pending(h)
    BY <1>0, <1>9, <2>1, SameReports
  <2>3. ~ Dying(h)
    <3> DEFINE s == <<"destroy", h>>
    <3>1. \A u \in Threads : Has(u, s) => Has(u, s)'
      <4> SUFFICES ASSUME NEW u \in Threads, Has(u, s) PROVE Has(u, s)'
        OBVIOUS
      <4>1. u # c
        BY <1>3
      <4>2. todo'[u] = todo[u]
        BY <1>9, <4>1
      <4> QED BY <4>2 DEF Has
    <3> QED BY <3>1, PendingAndDying
  <2>4. /\ count[h] = Cardinality(Owed(h))
        /\ \A y \in tasks[h] : ~ done[y] => WaitsWith(y, h)
    BY <2>3 DEF GroupInv, Counted
  \* nobody reports for a waitable that is not on the group's list yet
  <2>5. x \in Pending(h) => x \in tasks[h]
    <3> SUFFICES ASSUME x \in Pending(h) PROVE x \in tasks[h]
      OBVIOUS
    <3>1. PICK u \in Threads : Has(u, <<"task_done", h, x>>)
      BY PendingAndDying
    <3> QED BY <2>2, <3>1, ReportFacts
  <2>6. Owed(h)' = {y \in tasks'[h] : ~ done[y] \/ y \in Pending(h)}
    BY <1>2, <2>2 DEF Owed
  <2>7. Owed(h)' = Owed(h)
    BY <1>2, <1>10, <2>2, <2>5, <2>6 DEF Owed
  <2>8. \A y \in tasks'[h] : ~ done[y] => WaitsWith(y, h)
    BY <1>2, <1>10, <2>2, <2>4
  <2> QED BY <2>4, <2>7, <2>8
<1> QED BY <1>12, <1>13, <1>14, <1>15, <1>16, <1>17, <1>18, <1>19, <1>20 DEF GroupInv

-----------------------------------------------------------------------------
(* The invariant, and what follows from it.                                *)

\* At first every future is still to be completed, and no group has tasks.
LEMMA InitGroupInv == ASSUME GroupInit PROVE GroupInv
<1>0. /\ todo = [t \in Threads |-> IF t \in Futures THEN SetDone(t) ELSE <<>>]
      /\ asleep = [c \in Clients |-> Nobody]
      /\ done = [x \in Waitables |-> FALSE] /\ waitGroups = [x \in Waitables |-> <<>>]
      /\ tasks = [g \in Groups |-> {}] /\ count = [g \in Groups |-> 0] /\ alive = Groups
      /\ own = [x \in Waitables |-> Nobody] /\ base = [x \in Waitables |-> Nobody]
      /\ groupClosed = [g \in Groups |-> FALSE]
      /\ maps = [x \in Waitables |-> 0] /\ called = [x \in Waitables |-> FALSE]
      /\ Futures \subseteq Threads /\ Futures \subseteq Waitables /\ Futures \cap Groups = {}
      /\ Groups \subseteq Waitables /\ Filler \in Clients
  BY WaitGroupAssumption DEF GroupInit, Threads, Waitables
<1>1. holders = [g \in Groups |-> IF g \in Shared THEN Clients ELSE {Filler}]
  BY DEF GroupInit
<1>n. \A i \in DOMAIN <<>> : FALSE
  OBVIOUS
\* a future's task is still to be run, and nobody else has begun anything
<1>2. ASSUME NEW t \in Threads
      PROVE  /\ \A i \in DOMAIN todo[t] :
                  /\ t \in Futures
                  /\ \/ i = 1 /\ todo[t][i] = <<"begin", t>>
                     \/ i = 2 /\ todo[t][i] = <<"done", t>>
                     \/ i = 3 /\ todo[t][i] = <<"end", t>>
             /\ todo[t] \in Seq(Steps)
  <2>1. CASE t \in Futures
    <3>1. todo[t] = <<<<"begin", t>>, <<"done", t>>, <<"end", t>>>>
      BY <1>0, <2>1 DEF SetDone
    <3>2. <<"begin", t>> \in Steps /\ <<"done", t>> \in Steps /\ <<"end", t>> \in Steps
      BY <2>1, FormsOfSteps
    <3>3. PICK a \in Steps, b \in Steps, c \in Steps :
            a = <<"begin", t>> /\ b = <<"done", t>> /\ c = <<"end", t>>
      BY <3>2
    <3>4. todo[t] = <<a, b, c>>
      BY <3>1, <3>3
    <3>5. todo[t] \in Seq(Steps) /\ \A i \in DOMAIN todo[t] : \/ i = 1 /\ todo[t][i] = a
                                                              \/ i = 2 /\ todo[t][i] = b
                                                              \/ i = 3 /\ todo[t][i] = c
      BY <3>4
    <3> QED BY <2>1, <3>3, <3>5
  <2>2. CASE t \notin Futures
    <3>1. todo[t] = <<>>
      BY <1>0, <2>2
    <3> QED BY <1>n, <3>1
  <2> QED BY <2>1, <2>2
<1>3. ASSUME NEW t \in Threads, NEW s, Has(t, s)
      PROVE  t \in Futures /\ s[1] \in {"begin", "done", "end"} /\ s[2] = t
  <2>1. PICK i \in DOMAIN todo[t] : todo[t][i] = s
    BY <1>3 DEF Has
  <2>2. t \in Futures /\ (s = <<"begin", t>> \/ s = <<"done", t>> \/ s = <<"end", t>>)
    BY <1>2, <2>1
  <2> QED BY <2>2
<1>4. GroupTypeOK
  <2>1. todo \in [Threads -> Seq(Steps)]
    BY <1>0, <1>2
  <2>2. /\ asleep \in [Clients -> Waitables \cup {Nobody}]
        /\ own \in [Waitables -> Threads \cup {Nobody}]
        /\ base \in [Waitables -> Threads \cup {Nobody}]
        /\ done \in [Waitables -> BOOLEAN]
        /\ tasks \in [Groups -> SUBSET Waitables] /\ count \in [Groups -> Nat]
        /\ groupClosed \in [Groups -> BOOLEAN] /\ alive \in SUBSET Groups
        /\ maps \in [Waitables -> Nat] /\ called \in [Waitables -> BOOLEAN]
    BY <1>0
  <2>3. waitGroups \in [Waitables -> Seq(Groups)]
    BY <1>0
  <2>4. holders \in [Groups -> SUBSET Clients]
    BY <1>0, <1>1
  <2> QED BY <2>1, <2>2, <2>3, <2>4 DEF GroupTypeOK
<1>5. Orderly
  <2> SUFFICES ASSUME NEW t \in Threads
               PROVE  /\ \A i, k \in DOMAIN todo[t] : todo[t][i] = todo[t][k] => i = k
                      /\ \A i \in DOMAIN todo[t] : todo[t][i][1] = "wait" => Len(todo[t]) = 1
                      /\ \A x \in Waitables : ~ (Has(t, <<"clear", x>>) /\ Has(t, <<"added", x>>))
    BY DEF Orderly
  <2>1. \A i \in DOMAIN todo[t] : \/ i = 1 /\ todo[t][i][1] = "begin"
                                  \/ i = 2 /\ todo[t][i][1] = "done"
                                  \/ i = 3 /\ todo[t][i][1] = "end"
    BY <1>2
  <2>2. \A i, k \in DOMAIN todo[t] : todo[t][i] = todo[t][k] => i = k
    BY <2>1
  <2>3. \A i \in DOMAIN todo[t] : todo[t][i][1] # "wait"
    BY <2>1
  <2>4. \A x : ~ Has(t, <<"clear", x>>)
    <3> SUFFICES ASSUME NEW x, Has(t, <<"clear", x>>) PROVE FALSE
      OBVIOUS
    <3>1. PICK s : s = <<"clear", x>>
      OBVIOUS
    <3>2. s[1] = "clear"
      BY <3>1
    <3> QED BY <1>3, <3>1, <3>2
  <2> QED BY <2>2, <2>3, <2>4
<1>6. StepsAreReady
  <2> SUFFICES ASSUME NEW t \in Threads, NEW s \in Steps, Has(t, s) PROVE Ready(t, s)
    BY DEF StepsAreReady
  <2>1. t \in Futures /\ s[1] \in {"begin", "done", "end"} /\ s[2] = t
    BY <1>3
  <2> QED BY <1>0, <2>1 DEF Ready
<1>7. Backed
  <2> SUFFICES ASSUME NEW t \in Threads, NEW s \in Steps, Has(t, s), Needy(s) PROVE FALSE
    BY DEF Backed
  <2>1. t \in Futures /\ s[1] \in {"begin", "done", "end"} /\ s[2] = t
    BY <1>3
  <2> QED BY <1>0, <2>1 DEF Needy
<1>8. \A t \in Threads : \A g : ~ Has(t, <<"destroy", g>>) /\ \A x : ~ Has(t, <<"task_done", g, x>>)
  <2> SUFFICES ASSUME NEW t \in Threads, NEW g
               PROVE  ~ Has(t, <<"destroy", g>>) /\ \A x : ~ Has(t, <<"task_done", g, x>>)
    OBVIOUS
  <2>1. ~ Has(t, <<"destroy", g>>)
    <3>1. PICK s : s = <<"destroy", g>>
      OBVIOUS
    <3>2. s[1] = "destroy"
      BY <3>1
    <3> QED BY <1>3, <3>1, <3>2
  <2>2. ASSUME NEW x PROVE ~ Has(t, <<"task_done", g, x>>)
    <3>1. PICK s : s = <<"task_done", g, x>>
      OBVIOUS
    <3>2. s[1] = "task_done"
      BY <3>1
    <3> QED BY <1>3, <3>1, <3>2
  <2> QED BY <2>1, <2>2
<1>9. OneDestroys
  BY <1>8 DEF OneDestroys
<1>10. Sleepers
  BY <1>0 DEF Sleepers
<1>11. Lists
  BY <1>0, <1>n DEF Lists
<1>12. References
  BY <1>0 DEF References
<1>13. Counted
  <2> SUFFICES ASSUME NEW g \in Groups
               PROVE  count[g] = Cardinality(Owed(g)) /\ tasks[g] = {}
    BY <1>0 DEF Counted
  <2>1. tasks[g] = {} /\ count[g] = 0
    BY <1>0
  <2>2. Owed(g) = {}
    BY <2>1 DEF Owed
  <2> QED BY <2>1, <2>2, FS_EmptySet
<1> QED BY <1>4, <1>5, <1>6, <1>7, <1>9, <1>10, <1>11, <1>12, <1>13 DEF GroupInv

\* A call that goes on.
LEMMA ContinueKeepsGroupInv ==
  ASSUME GroupInv, NEW t \in Threads, Continue(t)
  PROVE  GroupInv'
<1>0. GroupTypeOK /\ Orderly /\ StepsAreReady /\ todo[t] # <<>>
  BY DEF GroupInv, Continue
<1>1. PICK x : /\ x = Head(todo[t])[2]
               /\ \/ DoneStep(t, x) \/ ClearStep(t, x) \/ AddedStep(t, x)
                  \/ t \in Clients /\ WaitStep(t, x)
                  \/ x = t /\ (BeginStep(t) \/ EndStep(t))
                  \/ /\ x \in Groups
                     /\ TaskDoneStep(t, x) \/ EmptyStep(t, x) \/ LeaveStep(t, x) \/ FreeStep(t, x)
  BY DEF Continue
\* the name of a step says what it is made on
<1>2. ASSUME NEW op, NextIs(t, op, x)
      PROVE  /\ op \in {"done", "clear", "added", "wait"} => x \in Waitables
             /\ op \in {"begin", "end"} => x \in Futures
  <2>1. PICK s \in Steps : s[1] = op /\ s[2] = x
    BY <1>0, <1>2, NextStep
  <2> QED BY <2>1, StepForms
<1>3. CASE DoneStep(t, x)
  <2>1. NextIs(t, "done", x)
    BY <1>3 DEF DoneStep
  <2>2. x \in Waitables
    BY <1>2, <2>1
  <2> QED BY <1>3, <2>2, DoneStepKeepsGroupInv
<1>4. CASE ClearStep(t, x)
  <2>1. NextIs(t, "clear", x)
    BY <1>4 DEF ClearStep
  <2>2. x \in Waitables
    BY <1>2, <2>1
  <2> QED BY <1>4, <2>2, ClearStepKeepsGroupInv
<1>5. CASE AddedStep(t, x)
  <2>1. NextIs(t, "added", x)
    BY <1>5 DEF AddedStep
  <2>2. x \in Waitables
    BY <1>2, <2>1
  <2> QED BY <1>5, <2>2, AddedStepKeepsGroupInv
<1>6. CASE t \in Clients /\ WaitStep(t, x)
  <2>1. NextIs(t, "wait", x)
    BY <1>6 DEF WaitStep
  <2>2. x \in Waitables
    BY <1>2, <2>1
  <2> QED BY <1>6, <2>2, WaitStepKeepsGroupInv
<1>7. CASE x = t /\ BeginStep(t)
  <2>1. NextIs(t, "begin", x)
    BY <1>7 DEF BeginStep
  <2>2. t \in Futures
    BY <1>2, <1>7, <2>1
  <2> QED BY <1>7, <2>2, BeginStepKeepsGroupInv
<1>8. CASE x = t /\ EndStep(t)
  <2>1. NextIs(t, "end", x)
    BY <1>8 DEF EndStep
  <2>2. t \in Futures
    BY <1>2, <1>8, <2>1
  <2> QED BY <1>8, <2>2, EndStepKeepsGroupInv
<1>9. CASE x \in Groups /\ TaskDoneStep(t, x)
  BY <1>9, TaskDoneStepKeepsGroupInv
<1>10. CASE x \in Groups /\ EmptyStep(t, x)
  BY <1>10, EmptyStepKeepsGroupInv
<1>11. CASE x \in Groups /\ LeaveStep(t, x)
  BY <1>11, LeaveStepKeepsGroupInv
<1>12. CASE x \in Groups /\ FreeStep(t, x)
  BY <1>12, FreeStepKeepsGroupInv
<1> QED BY <1>1, <1>3, <1>4, <1>5, <1>6, <1>7, <1>8, <1>9, <1>10, <1>11, <1>12

\* Whatever is done next.
LEMMA NextKeepsGroupInv == ASSUME GroupInv, GroupNext PROVE GroupInv'
<1>1. ASSUME NEW t \in Threads, Continue(t) PROVE GroupInv'
  BY <1>1, ContinueKeepsGroupInv
<1>2. ASSUME NEW c \in Clients, NEW x \in Waitables, AndMap(c, x) \/ Wait(c, x) PROVE GroupInv'
  BY <1>2, AndMapKeepsGroupInv, WaitKeepsGroupInv
<1>3. ASSUME NEW c \in Clients, NEW g \in Groups, CloseGroup(c, g) \/ Release(c, g) PROVE GroupInv'
  BY <1>3, AndMapKeepsGroupInv, ReleaseKeepsGroupInv DEF Waitables
<1>4. ASSUME NEW c \in Clients, NEW g \in Groups, NEW x \in Waitables,
             AddNew(c, g, x) \/ AddDone(c, g, x)
      PROVE  GroupInv'
  BY <1>4, AddNewKeepsGroupInv, AddDoneKeepsGroupInv
<1> QED BY <1>1, <1>2, <1>3, <1>4 DEF GroupNext, Use

\* In every behaviour every step of a call in progress finds what it relies on, a later step
\* of the same call keeps the group it uses in being, and every group counts exactly what it
\* is owed (wait_group.hpp:30-165, waitable.cpp:10-44, future.hpp:40-66).
THEOREM GroupInvariant == GroupSpec => []GroupInv
<1>1. GroupInit => GroupInv
  BY InitGroupInv
<1>2. GroupInv /\ [GroupNext]_groupVars => GroupInv'
  <2> SUFFICES ASSUME GroupInv, [GroupNext]_groupVars PROVE GroupInv'
    OBVIOUS
  <2>1. CASE GroupNext
    BY <2>1, NextKeepsGroupInv
  <2>2. CASE UNCHANGED groupVars
    <3>1. UNCHANGED <<todo, asleep, own, base, done, waitGroups, tasks, count, groupClosed, alive,
                      holders, maps, called>>
      BY <2>2 DEF groupVars, calls, mutexes, groups, waiting, life, andThen
    <3>2. GroupTypeOK'
      BY <3>1 DEF GroupInv, GroupTypeOK
    <3> QED BY <3>1, <3>2, FrameKeepsGroupInv
  <2> QED BY <2>1, <2>2
<1> QED BY <1>1, <1>2, PTL DEF GroupSpec

\* A group's count is exactly what it is still owed, for any futures, groups and threads, as
\* long as a program has fewer waitables than size_t has values (wait_group.hpp:51-55,
\* 135-143, waitable.cpp:24-44).
THEOREM GroupCountIsOwed == GroupSpec => []CountIsOwed
<1>1. GroupInv => CountIsOwed
  <2> SUFFICES ASSUME GroupInv, NEW g \in alive, ~ Dying(g)
               PROVE  /\ count[g] = Cardinality({x \in tasks[g] : ~ done[x]})
                                      + Cardinality(Pending(g))
                      /\ \A x \in tasks[g] : ~ done[x] => WaitsWith(x, g)
    BY DEF CountIsOwed
  <2>1. g \in Groups /\ tasks[g] \subseteq Waitables
    BY DEF GroupInv, GroupTypeOK
  <2>2. /\ count[g] = Cardinality(Owed(g))
        /\ \A x \in tasks[g] : ~ done[x] => WaitsWith(x, g)
    BY DEF GroupInv, Counted
  <2>3. PICK undone, reporting : undone = {x \in tasks[g] : ~ done[x]} /\ reporting = Pending(g)
    OBVIOUS
  <2>4. \A x \in reporting : x \in Waitables /\ x \in tasks[g] /\ done[x]
    BY <2>1, <2>3, ReportFacts, PendingAndDying
  <2>5. Owed(g) = undone \cup reporting /\ undone \cap reporting = {}
    BY <2>3, <2>4 DEF Owed
  <2>6. IsFiniteSet(undone) /\ IsFiniteSet(reporting)
    <3>1. undone \subseteq Waitables /\ reporting \subseteq Waitables
      BY <2>1, <2>3, <2>4
    <3> QED BY <3>1, WaitGroupAssumption, FS_Subset
  <2>7. Cardinality(undone \cup reporting) = Cardinality(undone) + Cardinality(reporting)
    <3>1. /\ Cardinality(undone \cup reporting)
               = Cardinality(undone) + Cardinality(reporting) - Cardinality(undone \cap reporting)
          /\ Cardinality(undone \cap reporting) = 0
          /\ Cardinality(undone) \in Nat /\ Cardinality(reporting) \in Nat
      BY <2>5, <2>6, FS_Union, FS_EmptySet, FS_CardinalityType
    <3> QED BY <3>1
  <2> QED BY <2>2, <2>3, <2>5, <2>7
<1> QED BY <1>1, GroupInvariant, PTL

\* No waitable keeps, and no call has still to use, the pointer of a group that has been
\* destroyed, whoever drops the last shared_ptr (wait_group.hpp:125-132).
THEOREM GroupDeadIsLeftAlone == GroupSpec => []DeadGroupIsLeftAlone
<1>1. GroupInv => DeadGroupIsLeftAlone
  <2> SUFFICES ASSUME GroupInv, NEW g \in Groups \ alive
               PROVE  /\ \A x \in Waitables : (x \in Groups => x \in alive) => ~ WaitsWith(x, g)
                      /\ \A t \in Threads : \A i \in DOMAIN todo[t] : todo[t][i][2] # g
    BY DEF DeadGroupIsLeftAlone
  <2>1. \A x \in Waitables : (x \in Groups => x \in alive) => ~ WaitsWith(x, g)
    <3> SUFFICES ASSUME NEW x \in Waitables, x \in Groups => x \in alive, WaitsWith(x, g)
                 PROVE  FALSE
      OBVIOUS
    <3>1. PICK i \in DOMAIN waitGroups[x] : waitGroups[x][i] = g
      BY DEF WaitsWith
    <3>2. waitGroups[x][i] \in alive
      BY DEF GroupInv, Lists
    <3> QED BY <3>1, <3>2
  <2>2. ASSUME NEW t \in Threads, NEW i \in DOMAIN todo[t] PROVE todo[t][i][2] # g
    <3>1. todo[t] \in Seq(Steps)
      BY DEF GroupInv, GroupTypeOK
    <3>2. PICK s \in Steps : s = todo[t][i]
      BY <3>1, LenProperties, ElementOfSeq
    <3>3. Ready(t, s)
      BY <3>2 DEF GroupInv, StepsAreReady, Has
    <3> QED BY <3>2, <3>3 DEF Ready
  <2> QED BY <2>1, <2>2
<1> QED BY <1>1, GroupInvariant, PTL
=============================================================================
