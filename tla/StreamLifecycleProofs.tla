----------------------- MODULE StreamLifecycleProofs -----------------------
(***************************************************************************)
(* The two ends of a stream agree on what was made and what has ended,     *)
(* over a network that loses, repeats and reorders without a limit: for    *)
(* any number of incarnations, any number of epochs, however they wrap,    *)
(* any seeds and any qualities of service.                                 *)
(***************************************************************************)
EXTENDS StreamLifecycle, TLAPS

EndedEpochs == {x[2] : x \in ended}
MadeBy(p) == {<<x[2], x[3]>> : x \in {y \in made : y[1] = p}}

Tellers == {"CREATE", "ACCEPT", "ALREADY_EXISTS"}  \* whose sender has made the stream
Enders == {"CLOSE", "ALREADY_CLOSED"}

TypeOK ==
  /\ stream \in [Peers -> Stream \cup {NoStream}]
  /\ epochs \in [Peers -> Epochs]
  /\ accepting \in [Peers -> BOOLEAN]
  /\ proc \in [Peers -> {"idle", "pulled", "forced", "over", "dead"}]
  /\ net \subseteq Packets

\* What a packet says has happened.
Truthful(m) ==
  /\ m.kind \in Tellers => <<m.epoch, m.qos>> \in MadeBy(Other(m.to))
  /\ m.kind = "HEARTBEAT" => \E c \in Qos : <<m.epoch, c>> \in MadeBy(m.to)
  /\ m.kind \in Enders => m.epoch \in EndedEpochs

\* What the stream of an end says has happened, and what may still be done with it.
Over == {"CLOSING", "CLOSED", "REJECTED", "ERROR"}
EndOK(p) ==
  /\ proc[p] \in {"pulled", "forced"} => Exists(p)
  /\ Exists(p) =>
       /\ <<stream[p].epoch, stream[p].qos>> \in MadeBy(p)
       /\ stream[p].state = "CREATED" => <<stream[p].epoch, stream[p].qos>> \in MadeBy(Other(p))
       /\ stream[p].state \in Over => stream[p].epoch \in EndedEpochs
       /\ ~ stream[p].held => stream[p].epoch \in EndedEpochs
       /\ stream[p].state \in {"CREATING", "CREATED"} => stream[p].active
       /\ stream[p].state = "NEW" => stream[p].queued \/ proc[p] = "pulled"
       /\ stream[p].active => ~ stream[p].queued /\ proc[p] # "pulled"
       /\ proc[p] = "pulled" => ~ stream[p].queued

\* A stream an end has made either is still there or has ended.
GoneHasEnded(p) ==
  \A e \in Epochs, c \in Qos :
    <<e, c>> \in MadeBy(p) => e \in EndedEpochs \/ (Exists(p) /\ stream[p].epoch = e)

\* The other end knows nothing of the first stream of an epoch until the thread takes it over.
Unknown(p) ==
  /\ \A m \in net : m.epoch = stream[p].epoch =>
       ~ (m.to = Other(p) /\ m.kind \in Tellers) /\ ~ (m.to = p /\ m.kind = "HEARTBEAT")
  /\ ~ (/\ Exists(Other(p)) /\ stream[Other(p)].state = "CREATED"
        /\ stream[Other(p)].epoch = stream[p].epoch)
QueuedIsUnknown(p) ==
  Exists(p) /\ stream[p].queued => stream[p].epoch \in EndedEpochs \/ Unknown(p)

Agrees(p) == EndOK(p) /\ GoneHasEnded(p) /\ QueuedIsUnknown(p)

IInv == TypeOK /\ (\A m \in net : Truthful(m)) /\ (\A p \in Peers : Agrees(p))

-----------------------------------------------------------------------------
(* What a step of one end leaves as it was.                                *)

LEMMA TwoEnds ==
  ASSUME NEW p \in Peers
  PROVE  /\ Other(p) \in Peers /\ Other(p) # p /\ Other(Other(p)) = p
         /\ \A q \in Peers : q = p \/ q = Other(p)
BY StreamAssumption DEF Peers, Other

\* The history only grows, and by what this end has made.
Frame(p) ==
  /\ stream'[Other(p)] = stream[Other(p)] /\ proc'[Other(p)] = proc[Other(p)]
  /\ MadeBy(p) \subseteq MadeBy(p)' /\ MadeBy(Other(p))' = MadeBy(Other(p))
  /\ EndedEpochs \subseteq EndedEpochs'
  /\ net \subseteq net'

\* What is sent goes to the other end, and is true.
News(p) ==
  \A m \in net' \ net :
    /\ m.to = Other(p)
    /\ m.kind \in Tellers => <<m.epoch, m.qos>> \in MadeBy(p)'
    /\ m.kind \in Enders => m.epoch \in EndedEpochs'
    /\ m.kind = "HEARTBEAT" =>
         /\ stream[p] # NoStream /\ stream[p].state = "CREATED" /\ stream[p].epoch = m.epoch

\* A stream is CREATED because of what the other end has sent.
Hears(p) ==
  stream'[p] # NoStream /\ stream'[p].state = "CREATED" =>
    \/ stream[p] # NoStream /\ stream[p].state = "CREATED" /\ stream[p].epoch = stream'[p].epoch
    \/ \E m \in net : m.to = p /\ m.kind \in Tellers /\ m.epoch = stream'[p].epoch

\* The other end, which does not move, still agrees with what has happened.
LEMMA OtherEndAgrees ==
  ASSUME IInv, NEW p \in Peers, Frame(p), News(p), Hears(p)
  PROVE  Agrees(Other(p))'
<1> DEFINE q == Other(p)
<1>0. q \in Peers /\ q # p /\ Other(q) = p
  BY TwoEnds
<1>1. EndOK(q) /\ GoneHasEnded(q) /\ QueuedIsUnknown(q)
  BY <1>0 DEF IInv, Agrees
<1>2. /\ stream'[q] = stream[q] /\ proc'[q] = proc[q] /\ MadeBy(q)' = MadeBy(q)
      /\ MadeBy(p) \subseteq MadeBy(p)' /\ EndedEpochs \subseteq EndedEpochs'
  BY DEF Frame
<1> HIDE DEF q
<1>3. EndOK(q)'
  BY <1>0, <1>1, <1>2 DEF EndOK, Exists
<1>4. GoneHasEnded(q)'
  BY <1>1, <1>2 DEF GoneHasEnded, Exists
<1>5. ASSUME stream[q] # NoStream, stream[q].queued, Unknown(q)
      PROVE  Unknown(q)'
  <2>1. ASSUME NEW m \in net', m.epoch = stream[q].epoch
        PROVE  ~ (m.to = p /\ m.kind \in Tellers) /\ ~ (m.to = q /\ m.kind = "HEARTBEAT")
    <3>1. CASE m \in net
      BY <1>0, <1>5, <2>1, <3>1 DEF Unknown
    <3>2. CASE m \notin net
      BY <1>0, <1>5, <2>1, <3>2 DEF Unknown, News, Exists, q
    <3> QED BY <3>1, <3>2
  <2>2. ~ (stream'[p] # NoStream /\ stream'[p].state = "CREATED" /\ stream'[p].epoch = stream[q].epoch)
    BY <1>0, <1>5 DEF Unknown, Hears, Exists
  <2> QED BY <1>0, <1>2, <2>1, <2>2 DEF Unknown, Exists
<1>6. QueuedIsUnknown(q)'
  BY <1>1, <1>2, <1>5 DEF QueuedIsUnknown, Exists
<1> QED BY <1>3, <1>4, <1>6 DEF Agrees, q

LEMMA StepKeepsIInv ==
  ASSUME IInv, NEW p \in Peers, TypeOK', Frame(p), News(p), Hears(p), Agrees(p)'
  PROVE  IInv'
<1>1. \A q \in Peers : Agrees(q)'
  BY TwoEnds, OtherEndAgrees
<1>2. /\ Other(p) \in Peers /\ Other(Other(p)) = p /\ net \subseteq Packets
      /\ net' \subseteq Packets
  BY TwoEnds DEF IInv, TypeOK
<1>3. \A q \in Peers : MadeBy(q) \subseteq MadeBy(q)'
  BY TwoEnds DEF Frame
<1>4. ASSUME NEW m \in net PROVE Truthful(m)'
  <2>1. m.to \in Peers
    BY <1>2 DEF Packets
  <2>2. Truthful(m) /\ Other(m.to) \in Peers
    BY <2>1, TwoEnds DEF IInv
  <2> QED BY <1>3, <2>1, <2>2 DEF Truthful, Frame
<1>5. ASSUME NEW m \in net' \ net PROVE Truthful(m)'
  <2>1. CASE m.kind = "HEARTBEAT"
    <3>1. /\ m.to = Other(p) /\ stream[p] # NoStream /\ stream[p].state = "CREATED"
          /\ stream[p].epoch = m.epoch
      BY <1>5, <2>1 DEF News
    <3>2. <<stream[p].epoch, stream[p].qos>> \in MadeBy(Other(p))
      BY <3>1 DEF IInv, Agrees, EndOK, Exists
    <3>3. stream[p].qos \in Qos
      BY <3>1 DEF IInv, TypeOK, Stream
    <3> QED BY <1>2, <1>3, <2>1, <3>1, <3>2, <3>3 DEF Truthful, Tellers, Enders
  <2>2. CASE m.kind # "HEARTBEAT"
    BY <1>2, <1>5, <2>2 DEF News, Truthful
  <2> QED BY <2>1, <2>2
<1> QED BY <1>1, <1>4, <1>5 DEF IInv

-----------------------------------------------------------------------------
(* The end that moves.                                                     *)

\* Its stream stays, in its state, or goes to one that is over, or is CREATED because the
\* other end has made it.
LEMMA StreamStays ==
  ASSUME IInv, NEW p \in Peers, Frame(p), News(p), TypeOK',
         stream[p] # NoStream, stream'[p] # NoStream,
         stream'[p].epoch = stream[p].epoch, stream'[p].qos = stream[p].qos,
         stream'[p].queued = stream[p].queued, stream'[p].active = stream[p].active,
         stream'[p].held = stream[p].held \/ stream[p].epoch \in EndedEpochs',
         MadeBy(p)' = MadeBy(p),
         proc'[p] = proc[p] \/ (proc[p] # "pulled" /\ proc'[p] # "pulled"),
         stream[p].queued => \A m \in net' \ net : m.kind \notin Tellers,
         \/ stream'[p].state = stream[p].state
         \/ stream'[p].state \in Over /\ stream[p].epoch \in EndedEpochs'
         \/ /\ stream'[p].state = "CREATED" /\ stream[p].active
            /\ <<stream[p].epoch, stream[p].qos>> \in MadeBy(Other(p))
  PROVE  Agrees(p)'
<1>0. /\ EndOK(p) /\ GoneHasEnded(p) /\ QueuedIsUnknown(p)
      /\ Other(p) \in Peers /\ Other(p) # p /\ Other(Other(p)) = p
  BY TwoEnds DEF IInv, Agrees
<1>1. /\ MadeBy(Other(p))' = MadeBy(Other(p)) /\ EndedEpochs \subseteq EndedEpochs'
      /\ stream'[Other(p)] = stream[Other(p)]
  BY DEF Frame
<1>2. EndOK(p)'
  BY <1>0, <1>1 DEF EndOK, Exists, Over
<1>3. GoneHasEnded(p)'
  BY <1>0, <1>1 DEF GoneHasEnded, Exists
<1>4. ASSUME stream[p].queued, Unknown(p) PROVE Unknown(p)'
  <2>1. ASSUME NEW m \in net', m.epoch = stream[p].epoch
        PROVE  ~ (m.to = Other(p) /\ m.kind \in Tellers) /\ ~ (m.to = p /\ m.kind = "HEARTBEAT")
    BY <1>0, <1>4, <2>1 DEF Unknown, News
  <2> QED BY <1>0, <1>1, <1>4, <2>1 DEF Unknown, Exists
<1>5. QueuedIsUnknown(p)'
  BY <1>0, <1>1, <1>4 DEF QueuedIsUnknown, Exists
<1> QED BY <1>2, <1>3, <1>5 DEF Agrees

\* It has no stream, as before.
LEMMA NoneStays ==
  ASSUME IInv, NEW p \in Peers, Frame(p),
         stream[p] = NoStream, stream'[p] = NoStream, MadeBy(p)' = MadeBy(p),
         proc'[p] = proc[p] \/ proc'[p] \notin {"pulled", "forced"}
  PROVE  Agrees(p)'
<1>1. EndOK(p) /\ GoneHasEnded(p) /\ EndedEpochs \subseteq EndedEpochs'
  BY DEF IInv, Agrees, Frame
<1> QED BY <1>1 DEF Agrees, EndOK, GoneHasEnded, QueuedIsUnknown, Exists

\* Its stream goes, and has ended.
LEMMA StreamGoes ==
  ASSUME IInv, NEW p \in Peers, Frame(p),
         stream[p] # NoStream, stream'[p] = NoStream, MadeBy(p)' = MadeBy(p),
         stream[p].epoch \in EndedEpochs', proc'[p] \notin {"pulled", "forced"}
  PROVE  Agrees(p)'
<1>1. GoneHasEnded(p) /\ EndedEpochs \subseteq EndedEpochs'
  BY DEF IInv, Agrees, Frame
<1> QED BY <1>1 DEF Agrees, EndOK, GoneHasEnded, QueuedIsUnknown, Exists

\* What leaves its thread and the queue changes; whatever else is said of it is said here.
LEMMA StreamIsTaken ==
  ASSUME IInv, NEW p \in Peers, Frame(p),
         stream[p] # NoStream, stream'[p] # NoStream,
         stream'[p].epoch = stream[p].epoch, MadeBy(p)' = MadeBy(p),
         EndOK(p)', ~ stream'[p].queued
  PROVE  Agrees(p)'
<1>1. GoneHasEnded(p) /\ EndedEpochs \subseteq EndedEpochs'
  BY DEF IInv, Agrees, Frame
<1> QED BY <1>1 DEF Agrees, GoneHasEnded, QueuedIsUnknown, Exists

-----------------------------------------------------------------------------
(* Streams and packets.                                                    *)

LEMMA StreamFields ==
  ASSUME NEW s \in Stream
  PROVE  /\ s # NoStream /\ s.epoch \in Epochs /\ s.qos \in Qos /\ s.state \in States
         /\ s.active \in BOOLEAN /\ s.queued \in BOOLEAN /\ s.held \in BOOLEAN
         /\ s.opened \in BOOLEAN /\ s.byPeer \in BOOLEAN
<1>1. s.state \in States /\ NoStream.state = "none" /\ "none" \notin States
  BY DEF Stream, NoStream, States
<1> QED BY <1>1 DEF Stream

\* A stream whose state changes, and nothing else.
LEMMA NewState ==
  ASSUME NEW s \in Stream, NEW x \in States
  PROVE  /\ [s EXCEPT !.state = x] \in Stream /\ [s EXCEPT !.state = x] # NoStream
         /\ [s EXCEPT !.state = x].state = x
         /\ [s EXCEPT !.state = x].epoch = s.epoch /\ [s EXCEPT !.state = x].qos = s.qos
         /\ [s EXCEPT !.state = x].queued = s.queued /\ [s EXCEPT !.state = x].held = s.held
         /\ [s EXCEPT !.state = x].active = s.active
<1>1. [s EXCEPT !.state = x] \in Stream
  BY DEF Stream
<1>2. [s EXCEPT !.state = x] # NoStream
  BY <1>1, StreamFields
<1> QED BY <1>1, <1>2 DEF Stream

LEMMA ConnectedStream ==
  ASSUME NEW s \in Stream
  PROVE  /\ Connected(s) \in Stream /\ Connected(s) # NoStream
         /\ \/ Connected(s).state = s.state
            \/ s.state = "CREATING" /\ Connected(s).state = "CREATED"
         /\ Connected(s).epoch = s.epoch /\ Connected(s).qos = s.qos
         /\ Connected(s).queued = s.queued /\ Connected(s).held = s.held
         /\ Connected(s).active = s.active
<1>1. CASE s.state = "CREATING"
  <2> DEFINE t == [s EXCEPT !.state = "CREATED", !.opened = TRUE]
  <2>1. t \in Stream
    BY DEF Stream, States
  <2>2. t # NoStream
    BY <2>1, StreamFields
  <2>3. Connected(s) = t
    BY <1>1 DEF Connected
  <2>4. /\ t.state = "CREATED" /\ t.epoch = s.epoch /\ t.qos = s.qos
        /\ t.queued = s.queued /\ t.held = s.held /\ t.active = s.active
    BY DEF Stream
  <2> QED BY <1>1, <2>1, <2>2, <2>3, <2>4
<1>2. CASE s.state # "CREATING"
  BY <1>2, StreamFields DEF Connected
<1> QED BY <1>1, <1>2

LEMMA PacketFields ==
  ASSUME NEW m \in Packets
  PROVE  /\ m.to \in Peers /\ m.epoch \in Epochs
         /\ m.kind \in CreateKinds \cup CloseKinds \cup {"HEARTBEAT"}
         /\ m.kind \in CreateKinds =>
              m \in [to : Peers, kind : CreateKinds, epoch : Epochs, qos : Qos]
         /\ m.kind \in CreateKinds => m.qos \in Qos
         /\ m.kind \notin CreateKinds =>
              m \in [to : Peers, kind : CloseKinds \cup {"HEARTBEAT"}, epoch : Epochs, qos : {NoQos}]
BY DEF Packets, CreateKinds, CloseKinds

-----------------------------------------------------------------------------
(* What a step of an end changes.                                          *)

Procs == {"idle", "pulled", "forced", "over", "dead"}

\* What every step of an end touches at most.
Touches(p) ==
  /\ \E s \in Stream \cup {NoStream} : stream' = [stream EXCEPT ![p] = s]
  /\ \E r \in Procs : proc' = [proc EXCEPT ![p] = r]
  /\ epochs' \in [Peers -> Epochs] /\ accepting' \in [Peers -> BOOLEAN]
  /\ net \subseteq net' /\ net' \subseteq Packets
  /\ made \subseteq made' /\ \A x \in made' \ made : x[1] = p
  /\ ended \subseteq ended'

LEMMA TouchesFrames ==
  ASSUME TypeOK, NEW p \in Peers, Touches(p)
  PROVE  TypeOK' /\ Frame(p) /\ (made' = made => MadeBy(p)' = MadeBy(p))
<1>0. Other(p) # p /\ Other(p) \in Peers
  BY TwoEnds
<1>1. TypeOK'
  BY DEF TypeOK, Touches, Procs
<1>2. stream'[Other(p)] = stream[Other(p)] /\ proc'[Other(p)] = proc[Other(p)]
  BY <1>0 DEF TypeOK, Touches
<1>3. /\ MadeBy(p) \subseteq MadeBy(p)' /\ MadeBy(Other(p))' = MadeBy(Other(p))
      /\ EndedEpochs \subseteq EndedEpochs'
  BY <1>0 DEF Touches, MadeBy, EndedEpochs
<1> QED BY <1>1, <1>2, <1>3 DEF Frame, Touches, MadeBy

\* The stream an end has, and what is known of it.
LEMMA Here ==
  ASSUME IInv, NEW p \in Peers
  PROVE  /\ TypeOK /\ EndOK(p) /\ GoneHasEnded(p) /\ stream \in [Peers -> Stream \cup {NoStream}]
         /\ proc \in [Peers -> Procs] /\ proc[p] \in Procs
         /\ epochs \in [Peers -> Epochs] /\ accepting \in [Peers -> BOOLEAN]
         /\ net \subseteq Packets /\ epochs[p] \in Epochs
         /\ stream[p] # NoStream =>
              /\ stream[p] \in Stream /\ stream[p].epoch \in Epochs /\ stream[p].qos \in Qos
              /\ stream[p].state \in States
         /\ [stream EXCEPT ![p] = stream[p]] = stream /\ [proc EXCEPT ![p] = proc[p]] = proc
<1>1. TypeOK /\ EndOK(p) /\ GoneHasEnded(p)
  BY DEF IInv, Agrees
<1>2. stream[p] # NoStream => stream[p] \in Stream
  BY <1>1 DEF TypeOK
<1> QED BY <1>1, <1>2, StreamFields DEF TypeOK, Procs

\* The rest of a step in which only the stream, the thread and the packets change.
Quiet == made' = made /\ UNCHANGED <<epochs, accepting>> /\ ended \subseteq ended'

\* A stream that ends.
LEMMA StreamEnds ==
  ASSUME IInv, NEW p \in Peers, Quiet, stream[p] # NoStream,
         \E x \in Over : stream' = [stream EXCEPT ![p] = [stream[p] EXCEPT !.state = x]],
         stream[p].epoch \in EndedEpochs',
         \/ proc' = proc
         \/ proc[p] # "pulled" /\ \E r \in Procs \ {"pulled"} : proc' = [proc EXCEPT ![p] = r],
         net \subseteq net', net' \subseteq Packets,
         \A m \in net' \ net :
           /\ m.to = Other(p) /\ m.kind \notin Tellers /\ m.kind # "HEARTBEAT"
           /\ m.kind \in Enders => m.epoch \in EndedEpochs'
  PROVE  IInv'
<1>1. PICK x \in Over : stream' = [stream EXCEPT ![p] = [stream[p] EXCEPT !.state = x]]
  OBVIOUS
<1> DEFINE s == stream[p]
           t == [s EXCEPT !.state = x]
<1>2. /\ TypeOK /\ s \in Stream /\ proc[p] \in Procs /\ proc \in [Peers -> Procs]
      /\ [proc EXCEPT ![p] = proc[p]] = proc
      /\ epochs \in [Peers -> Epochs] /\ accepting \in [Peers -> BOOLEAN]
      /\ stream \in [Peers -> Stream \cup {NoStream}]
  BY Here
<1>3. /\ t \in Stream /\ t # NoStream /\ t.state = x /\ t.epoch = s.epoch /\ t.qos = s.qos
      /\ t.queued = s.queued /\ t.held = s.held /\ t.active = s.active
      /\ x \in Over /\ x # "CREATED"
  <2>1. x \in States /\ x \in Over /\ x # "CREATED"
    BY DEF States, Over
  <2> QED BY <1>2, <2>1, NewState
<1>4. stream' = [stream EXCEPT ![p] = t]
  BY <1>1
<1> HIDE DEF t
<1>5. stream'[p] = t
  BY <1>2, <1>4
<1>6. Touches(p)
  <2>1. \E r \in Procs : proc' = [proc EXCEPT ![p] = r]
    BY <1>2
  <2> QED BY <1>2, <1>3, <1>4, <2>1 DEF Touches, Quiet
<1>7. TypeOK' /\ Frame(p) /\ MadeBy(p)' = MadeBy(p)
  BY <1>2, <1>6, TouchesFrames DEF Quiet
<1>8. News(p) /\ Hears(p)
  <2>1. News(p)
    BY DEF News
  <2>2. Hears(p)
    BY <1>3, <1>5 DEF Hears
  <2> QED BY <2>1, <2>2
<1>9. proc'[p] = proc[p] \/ (proc[p] # "pulled" /\ proc'[p] # "pulled")
  BY <1>2
<1>10. /\ stream'[p] # NoStream /\ stream'[p].epoch = stream[p].epoch
       /\ stream'[p].qos = stream[p].qos /\ stream'[p].queued = stream[p].queued
       /\ stream'[p].active = stream[p].active /\ stream'[p].held = stream[p].held
       /\ stream'[p].state \in Over
  BY <1>3, <1>5
<1>11. \A m \in net' \ net : m.kind \notin Tellers
  OBVIOUS
<1>12. Agrees(p)'
  BY <1>7, <1>8, <1>9, <1>10, <1>11, StreamStays
<1> QED BY <1>7, <1>8, <1>12, StepKeepsIInv

\* A stream that stays as it is, or none.
LEMMA StreamIsLeft ==
  ASSUME IInv, NEW p \in Peers, made' = made, ended \subseteq ended', stream' = stream,
         epochs' = epochs, accepting' \in [Peers -> BOOLEAN],
         proc' = proc \/ (proc[p] # "pulled" /\ proc' = [proc EXCEPT ![p] = "dead"]),
         net \subseteq net', net' \subseteq Packets, News(p),
         stream[p] # NoStream /\ stream[p].queued => \A m \in net' \ net : m.kind \notin Tellers
  PROVE  IInv'
<1>1. /\ TypeOK /\ proc[p] \in Procs /\ [proc EXCEPT ![p] = proc[p]] = proc
      /\ proc \in [Peers -> Procs] /\ epochs \in [Peers -> Epochs]
      /\ stream \in [Peers -> Stream \cup {NoStream}] /\ [stream EXCEPT ![p] = stream[p]] = stream
  BY Here
<1>2. Touches(p)
  <2>1. \E r \in Procs : proc' = [proc EXCEPT ![p] = r]
    BY <1>1 DEF Procs
  <2>2. \E s \in Stream \cup {NoStream} : stream' = [stream EXCEPT ![p] = s]
    BY <1>1
  <2> QED BY <1>1, <2>1, <2>2 DEF Touches
<1>3. TypeOK' /\ Frame(p) /\ MadeBy(p)' = MadeBy(p)
  BY <1>1, <1>2, TouchesFrames
<1>4. Hears(p)
  BY DEF Hears
<1>5. proc'[p] = proc[p] \/ (proc[p] # "pulled" /\ proc'[p] = "dead")
  BY <1>1
<1>6. CASE stream[p] = NoStream
  <2>1. Agrees(p)'
    BY <1>3, <1>5, <1>6, NoneStays
  <2> QED BY <1>3, <1>4, <2>1, StepKeepsIInv
<1>7. CASE stream[p] # NoStream
  <2>1. Agrees(p)'
    BY <1>3, <1>5, <1>7, StreamStays
  <2> QED BY <1>3, <1>4, <2>1, StepKeepsIInv
<1> QED BY <1>6, <1>7

\* A stream in use that hears from the one that has made its counterpart.
LEMMA StreamConnects ==
  ASSUME IInv, NEW p \in Peers, Quiet, stream[p] # NoStream, stream[p].active,
         stream' = [stream EXCEPT ![p] = Connected(stream[p])], proc' = proc,
         NEW m \in net, m.to = p, m.kind \in Tellers,
         m.epoch = stream[p].epoch, m.qos = stream[p].qos,
         net \subseteq net', net' \subseteq Packets, News(p)
  PROVE  IInv'
<1> DEFINE s == stream[p]
           t == Connected(s)
<1>1. /\ TypeOK /\ EndOK(p) /\ s \in Stream /\ proc[p] \in Procs
      /\ [proc EXCEPT ![p] = proc[p]] = proc
      /\ epochs \in [Peers -> Epochs] /\ accepting \in [Peers -> BOOLEAN]
      /\ stream \in [Peers -> Stream \cup {NoStream}]
  BY Here
<1>2. /\ t \in Stream /\ t # NoStream /\ (t.state = s.state \/ t.state = "CREATED")
      /\ t.epoch = s.epoch /\ t.qos = s.qos
      /\ t.queued = s.queued /\ t.held = s.held /\ t.active = s.active
  BY <1>1, ConnectedStream
<1> HIDE DEF t
<1>3. stream' = [stream EXCEPT ![p] = t] /\ stream'[p] = t
  BY <1>1 DEF t
<1>4. Touches(p)
  BY <1>1, <1>2, <1>3 DEF Touches, Quiet
<1>5. TypeOK' /\ Frame(p) /\ MadeBy(p)' = MadeBy(p)
  BY <1>1, <1>4, TouchesFrames DEF Quiet
<1>6. Hears(p)
  BY <1>2, <1>3 DEF Hears
<1>7. <<s.epoch, s.qos>> \in MadeBy(Other(p))
  BY DEF IInv, Truthful
<1>8. ~ s.queued
  BY <1>1 DEF EndOK, Exists
<1>9. Agrees(p)'
  BY <1>2, <1>3, <1>5, <1>7, <1>8, StreamStays
<1> QED BY <1>5, <1>6, <1>9, StepKeepsIInv

\* What the destructor and close() send tells of an end.
LEMMA CloseOfEnds ==
  ASSUME NEW p \in Peers, NEW s, s.epoch \in Epochs
  PROVE  /\ CloseOf(p, s) \subseteq Packets
         /\ \A m \in CloseOf(p, s) : m.to = Other(p) /\ m.kind = "CLOSE" /\ m.epoch = s.epoch
BY TwoEnds DEF CloseOf, ClosePacket, Packets, CloseKinds

\* A stream that is given up.
LEMMA GivenUp ==
  ASSUME NEW p, GiveUp(p)
  PROVE  ended \subseteq ended' /\ stream[p].epoch \in EndedEpochs'
<1> DEFINE x == <<p, stream[p].epoch, "givenUp">>
<1>1. x \in ended' /\ x[2] = stream[p].epoch /\ ended \subseteq ended'
  BY DEF GiveUp
<1> QED BY <1>1 DEF EndedEpochs

-----------------------------------------------------------------------------
(* The application's steps.                                                *)

\* One stream more.
LEMMA MadeOne ==
  ASSUME NEW p \in Peers, NEW e, NEW c, NEW how, made' = made \cup {<<p, e, c, how>>}
  PROVE  MadeBy(p)' = MadeBy(p) \cup {<<e, c>>}
<1> DEFINE x == <<p, e, c, how>>
           Mine(m) == {y \in m : y[1] = p}
<1>1. x[1] = p /\ x[2] = e /\ x[3] = c
  OBVIOUS
<1>2. Mine(made') = Mine(made) \cup {x}
  BY <1>1
<1> HIDE DEF x, Mine
<1>3. {<<y[2], y[3]>> : y \in Mine(made')} = {<<y[2], y[3]>> : y \in Mine(made)} \cup {<<e, c>>}
  BY <1>1, <1>2
<1> QED BY <1>3 DEF MadeBy, Mine

LEMMA CreateKeepsIInv ==
  ASSUME IInv, NEW p \in Peers, NEW qos \in Qos, Create(p, qos)
  PROVE  IInv'
<1> DEFINE e == epochs[p]
           t == [epoch |-> e, qos |-> qos, byPeer |-> FALSE, state |-> "NEW",
                 active |-> FALSE, queued |-> TRUE, held |-> TRUE, opened |-> FALSE]
<1>0. /\ TypeOK /\ EndOK(p) /\ GoneHasEnded(p) /\ proc[p] \in Procs
      /\ [proc EXCEPT ![p] = proc[p]] = proc /\ e \in Epochs /\ net \subseteq Packets
      /\ epochs \in [Peers -> Epochs] /\ accepting \in [Peers -> BOOLEAN]
      /\ stream \in [Peers -> Stream \cup {NoStream}]
  BY Here
<1>1. /\ stream[p] = NoStream /\ stream' = [stream EXCEPT ![p] = t]
      /\ epochs' = [epochs EXCEPT ![p] = NextEpoch(@)]
      /\ made' = made \cup {<<p, e, qos, "created">>}
      /\ UNCHANGED <<accepting, proc, net, ended>>
  BY DEF Create, Exists, Change
<1>2. t \in Stream /\ t # NoStream
  <2>1. t \in Stream
    BY <1>0 DEF Stream, States
  <2> QED BY <2>1, StreamFields
<1>3. NextEpoch(epochs[p]) \in Epochs
  BY <1>0, StreamAssumption DEF NextEpoch, Epochs
<1>4. Touches(p)
  <2>1. \E s \in Stream \cup {NoStream} : stream' = [stream EXCEPT ![p] = s]
    BY <1>1, <1>2
  <2>2. \E r \in Procs : proc' = [proc EXCEPT ![p] = r]
    BY <1>0, <1>1
  <2>3. epochs' \in [Peers -> Epochs]
    BY <1>0, <1>1, <1>3
  <2>4. made \subseteq made' /\ \A x \in made' \ made : x[1] = p
    BY <1>1
  <2> QED BY <1>0, <1>1, <2>1, <2>2, <2>3, <2>4 DEF Touches
<1>5. TypeOK' /\ Frame(p)
  BY <1>0, <1>4, TouchesFrames
<1>6. News(p)
  BY <1>1 DEF News
<1>7. /\ stream'[p] = t /\ stream'[p] # NoStream /\ stream'[p].epoch = e
      /\ stream'[p].qos = qos /\ stream'[p].state = "NEW" /\ stream'[p].active = FALSE
      /\ stream'[p].queued = TRUE /\ stream'[p].held = TRUE
  BY <1>0, <1>1, <1>2
<1>8. Hears(p)
  BY <1>7 DEF Hears
<1>9. MadeBy(p)' = MadeBy(p) \cup {<<e, qos>>} /\ EndedEpochs' = EndedEpochs
  BY <1>1, MadeOne DEF EndedEpochs
<1> HIDE DEF t
<1>10. EndOK(p)'
  BY <1>0, <1>1, <1>7, <1>9 DEF EndOK, Exists, Over
<1>11. GoneHasEnded(p)'
  BY <1>0, <1>1, <1>7, <1>9 DEF GoneHasEnded, Exists
<1>12. ASSUME e \notin EndedEpochs PROVE Unknown(p)'
  <2>1. \A c \in Qos : <<e, c>> \notin MadeBy(p)
    BY <1>0, <1>1, <1>12 DEF GoneHasEnded, Exists
  <2>2. Other(p) \in Peers /\ Other(p) # p /\ Other(Other(p)) = p
    BY TwoEnds
  <2>3. ASSUME NEW m \in net, m.epoch = e
        PROVE  ~ (m.to = Other(p) /\ m.kind \in Tellers) /\ ~ (m.to = p /\ m.kind = "HEARTBEAT")
    <3>1. Truthful(m) /\ m.kind \in Tellers => m.qos \in Qos
      BY <1>0, PacketFields DEF IInv, Tellers, CreateKinds
    <3> QED BY <2>1, <2>2, <2>3, <3>1 DEF IInv, Truthful
  <2>4. ~ (/\ stream[Other(p)] # NoStream /\ stream[Other(p)].state = "CREATED"
           /\ stream[Other(p)].epoch = e)
    <3>1. /\ EndOK(Other(p))
          /\ stream[Other(p)] # NoStream => stream[Other(p)].qos \in Qos
      BY <2>2, Here
    <3> QED BY <2>1, <2>2, <3>1 DEF EndOK, Exists
  <2> QED BY <1>1, <1>5, <1>7, <2>3, <2>4 DEF Unknown, Exists, Frame
<1>13. QueuedIsUnknown(p)'
  BY <1>7, <1>9, <1>12 DEF QueuedIsUnknown
<1> QED BY <1>5, <1>6, <1>8, <1>10, <1>11, <1>13, StepKeepsIInv DEF Agrees

LEMMA CloseKeepsIInv ==
  ASSUME IInv, NEW p \in Peers, Close(p)
  PROVE  IInv'
<1>1. /\ stream[p] # NoStream /\ GiveUp(p) /\ Quiet /\ proc' = proc
      /\ \E x \in Over : stream' = [stream EXCEPT ![p] = [stream[p] EXCEPT !.state = x]]
      /\ net' = net \cup CloseOf(p, stream[p])
  BY DEF Close, Exists, Change, Send, Over, GiveUp, Quiet
<1>2. stream[p].epoch \in Epochs /\ net \subseteq Packets
  BY <1>1, Here
<1>3. /\ CloseOf(p, stream[p]) \subseteq Packets
      /\ \A m \in CloseOf(p, stream[p]) :
           m.to = Other(p) /\ m.kind = "CLOSE" /\ m.epoch = stream[p].epoch
  BY <1>2, CloseOfEnds
<1>4. stream[p].epoch \in EndedEpochs'
  BY <1>1, GivenUp
<1> QED BY <1>1, <1>2, <1>3, <1>4, StreamEnds DEF Tellers

\* A stream that is taken out of the number.
LEMMA StreamIsDropped ==
  ASSUME IInv, NEW p \in Peers, Quiet, stream[p] # NoStream,
         stream' = [stream EXCEPT ![p] = NoStream], stream[p].epoch \in EndedEpochs',
         NEW r \in Procs \ {"pulled", "forced"}, proc' = [proc EXCEPT ![p] = r],
         net \subseteq net', net' \subseteq Packets,
         \A m \in net' \ net : m.to = Other(p) /\ m.kind = "CLOSE" /\ m.epoch = stream[p].epoch
  PROVE  IInv'
<1>1. /\ TypeOK /\ proc \in [Peers -> Procs] /\ stream \in [Peers -> Stream \cup {NoStream}]
      /\ epochs \in [Peers -> Epochs] /\ accepting \in [Peers -> BOOLEAN]
  BY Here
<1>2. stream'[p] = NoStream /\ proc'[p] = r
  BY <1>1
<1>3. Touches(p)
  BY <1>1 DEF Touches, Quiet
<1>4. TypeOK' /\ Frame(p) /\ MadeBy(p)' = MadeBy(p)
  BY <1>1, <1>3, TouchesFrames DEF Quiet
<1>5. News(p)
  BY DEF News, Tellers, Enders
<1>6. Hears(p)
  BY <1>2 DEF Hears
<1>7. Agrees(p)'
  BY <1>2, <1>4, StreamGoes
<1> QED BY <1>4, <1>5, <1>6, <1>7, StepKeepsIInv

LEMMA ReleaseKeepsIInv ==
  ASSUME IInv, NEW p \in Peers, Release(p)
  PROVE  IInv'
<1> DEFINE s == stream[p]
           t == [s EXCEPT !.held = FALSE]
           inUse == s.queued \/ proc[p] = "pulled"
<1>1. /\ s # NoStream /\ proc[p] # "forced" /\ made' = made /\ proc' = proc
      /\ epochs' = epochs /\ accepting' = accepting
      /\ IF IsAlive(s) THEN GiveUp(p) ELSE ended' = ended
      /\ stream' = [stream EXCEPT ![p] = IF inUse THEN t ELSE NoStream]
      /\ net' = net \cup IF inUse THEN {} ELSE CloseOf(p, s)
  BY DEF Release, Exists, Change, Send
<1>2. /\ TypeOK /\ EndOK(p) /\ s \in Stream /\ s.state \in States /\ s.epoch \in Epochs
      /\ proc[p] \in Procs /\ [proc EXCEPT ![p] = proc[p]] = proc /\ net \subseteq Packets
      /\ stream \in [Peers -> Stream \cup {NoStream}]
      /\ epochs \in [Peers -> Epochs] /\ accepting \in [Peers -> BOOLEAN]
  BY <1>1, Here
<1>3. ended \subseteq ended' /\ s.epoch \in EndedEpochs'
  <2>1. CASE IsAlive(s)
    BY <1>1, <2>1, GivenUp
  <2>2. CASE ~IsAlive(s)
    <3>1. s.state \in Over
      BY <1>2, <2>2 DEF IsAlive, Alive, States, Over
    <3>2. s.epoch \in EndedEpochs /\ ended' = ended
      BY <1>1, <1>2, <2>2, <3>1 DEF EndOK, Exists
    <3> QED BY <3>2 DEF EndedEpochs
  <2> QED BY <2>1, <2>2
<1>4. Quiet
  BY <1>1, <1>3 DEF Quiet
<1>5. CASE inUse
  <2>1. /\ t \in Stream /\ t.state = s.state /\ t.epoch = s.epoch /\ t.qos = s.qos
        /\ t.queued = s.queued /\ t.held = FALSE /\ t.active = s.active
    BY <1>2 DEF Stream
  <2>2. t # NoStream
    BY <2>1, StreamFields
  <2> HIDE DEF t
  <2>3. net' = net /\ stream' = [stream EXCEPT ![p] = t] /\ stream'[p] = t
    BY <1>1, <1>2, <1>5
  <2>4. Touches(p)
    BY <1>1, <1>2, <1>3, <2>1, <2>3 DEF Touches
  <2>5. TypeOK' /\ Frame(p) /\ MadeBy(p)' = MadeBy(p)
    BY <1>1, <1>2, <2>4, TouchesFrames
  <2>6. News(p) /\ Hears(p)
    BY <1>1, <2>1, <2>3 DEF News, Hears
  <2>7. Agrees(p)'
    BY <1>1, <1>3, <2>1, <2>2, <2>3, <2>5, <2>6, StreamStays
  <2> QED BY <2>5, <2>6, <2>7, StepKeepsIInv
<1>6. CASE ~inUse
  <2>1. /\ CloseOf(p, s) \subseteq Packets
        /\ \A m \in CloseOf(p, s) : m.to = Other(p) /\ m.kind = "CLOSE" /\ m.epoch = s.epoch
    BY <1>2, CloseOfEnds
  <2>2. /\ stream' = [stream EXCEPT ![p] = NoStream] /\ net' = net \cup CloseOf(p, s)
        /\ proc[p] \in Procs \ {"pulled", "forced"} /\ proc' = [proc EXCEPT ![p] = proc[p]]
    BY <1>1, <1>2, <1>6
  <2> QED BY <1>1, <1>2, <1>3, <1>4, <2>1, <2>2, StreamIsDropped
<1> QED BY <1>5, <1>6

LEMMA PanicInSendKeepsIInv ==
  ASSUME IInv, NEW p \in Peers, PanicInSend(p)
  PROVE  IInv'
<1>1. /\ stream[p] # NoStream /\ GiveUp(p) /\ Quiet /\ proc' = proc /\ net' = net
      /\ \E x \in Over : stream' = [stream EXCEPT ![p] = [stream[p] EXCEPT !.state = x]]
  BY DEF PanicInSend, Exists, Change, Panicked, Over, GiveUp, Quiet
<1>2. net \subseteq Packets /\ stream[p].epoch \in EndedEpochs'
  BY <1>1, Here, GivenUp
<1> QED BY <1>1, <1>2, StreamEnds

LEMMA StopAcceptingKeepsIInv ==
  ASSUME IInv, NEW p \in Peers, StopAccepting(p)
  PROVE  IInv'
<1>1. /\ made' = made /\ ended' = ended /\ stream' = stream /\ epochs' = epochs
      /\ proc' = proc /\ net' = net /\ accepting' = [accepting EXCEPT ![p] = FALSE]
  BY DEF StopAccepting
<1>2. accepting' \in [Peers -> BOOLEAN] /\ net \subseteq Packets
  BY <1>1, Here
<1>3. News(p)
  BY <1>1 DEF News
<1> QED BY <1>1, <1>2, <1>3, StreamIsLeft

-----------------------------------------------------------------------------
(* The connection's thread and its timers.                                 *)

\* CREATE is sent for a stream the sender has made.
LEMMA CreateIsNews ==
  ASSUME NEW p \in Peers, NEW e \in Epochs, NEW c \in Qos, <<e, c>> \in MadeBy(p)'
  PROVE  LET m == CreatePacket(Other(p), "CREATE", e, c)
         IN  /\ m \in Packets /\ m.to = Other(p) /\ m.epoch = e /\ <<m.epoch, m.qos>> \in MadeBy(p)'
             /\ m.kind \notin Enders /\ m.kind # "HEARTBEAT"
BY TwoEnds DEF CreatePacket, Packets, CreateKinds, Enders

LEMMA PullKeepsIInv ==
  ASSUME IInv, NEW p \in Peers, Pull(p)
  PROVE  IInv'
<1> DEFINE s == stream[p]
           t == [s EXCEPT !.queued = FALSE]
           m == CreatePacket(Other(p), "CREATE", s.epoch, s.qos)
<1>1. /\ s # NoStream /\ s.queued /\ proc[p] = "idle" /\ made' = made /\ ended' = ended
      /\ epochs' = epochs /\ accepting' = accepting /\ net' = net \cup {m}
      /\ stream' = [stream EXCEPT ![p] = t] /\ proc' = [proc EXCEPT ![p] = "pulled"]
  BY DEF Pull, Exists, Change, Send
<1>2. /\ TypeOK /\ EndOK(p) /\ s \in Stream /\ net \subseteq Packets
      /\ s.epoch \in Epochs /\ s.qos \in Qos /\ proc \in [Peers -> Procs]
      /\ stream \in [Peers -> Stream \cup {NoStream}]
      /\ epochs \in [Peers -> Epochs] /\ accepting \in [Peers -> BOOLEAN]
  BY <1>1, Here
<1>3. /\ t \in Stream /\ t.state = s.state /\ t.epoch = s.epoch /\ t.qos = s.qos
      /\ t.queued = FALSE /\ t.held = s.held /\ t.active = s.active
  BY <1>2 DEF Stream
<1>4. t # NoStream
  BY <1>3, StreamFields
<1> HIDE DEF t
<1>5. stream'[p] = t /\ proc'[p] = "pulled" /\ ~ s.active
  BY <1>1, <1>2 DEF EndOK, Exists
<1>6. <<s.epoch, s.qos>> \in MadeBy(p) /\ MadeBy(p)' = MadeBy(p)
  BY <1>1, <1>2 DEF EndOK, Exists, MadeBy
<1>7. m \in Packets /\ m.to = Other(p) /\ <<m.epoch, m.qos>> \in MadeBy(p)'
      /\ m.kind \notin Enders /\ m.kind # "HEARTBEAT"
  BY <1>2, <1>6, CreateIsNews
<1> HIDE DEF m
<1>8. Touches(p)
  <2>1. \E r \in Procs : proc' = [proc EXCEPT ![p] = r]
    BY <1>1 DEF Procs
  <2> QED BY <1>1, <1>2, <1>3, <1>7, <2>1 DEF Touches
<1>9. TypeOK' /\ Frame(p)
  BY <1>2, <1>8, TouchesFrames
<1>10. News(p)
  BY <1>1, <1>7 DEF News
<1>11. Hears(p)
  BY <1>1, <1>3, <1>5 DEF Hears
<1>12. EndedEpochs' = EndedEpochs /\ MadeBy(Other(p))' = MadeBy(Other(p))
  BY <1>1, <1>9 DEF EndedEpochs, Frame
<1>13. EndOK(p)'
  BY <1>1, <1>2, <1>3, <1>4, <1>5, <1>6, <1>12 DEF EndOK, Exists
<1>14. Agrees(p)'
  BY <1>1, <1>3, <1>4, <1>5, <1>6, <1>9, <1>13, StreamIsTaken
<1> QED BY <1>9, <1>10, <1>11, <1>14, StepKeepsIInv

LEMMA PulledKeepsIInv ==
  ASSUME IInv, NEW p \in Peers, Pulled(p)
  PROVE  IInv'
<1> DEFINE s == stream[p]
           t == [s EXCEPT !.state = "CREATING", !.active = TRUE]
<1>1. /\ proc[p] = "pulled" /\ made' = made /\ ended' = ended /\ epochs' = epochs
      /\ accepting' = accepting /\ proc' = [proc EXCEPT ![p] = "idle"]
      /\ stream' = [stream EXCEPT ![p] = IF t.held THEN t ELSE NoStream]
      /\ net' = net \cup IF t.held THEN {} ELSE CloseOf(p, t)
  BY DEF Pulled, Change, Send
<1>2. TypeOK /\ EndOK(p) /\ s # NoStream
  BY <1>1, Here DEF EndOK, Exists
<1>3. /\ s \in Stream /\ net \subseteq Packets /\ s.epoch \in Epochs /\ proc \in [Peers -> Procs]
      /\ stream \in [Peers -> Stream \cup {NoStream}]
      /\ epochs \in [Peers -> Epochs] /\ accepting \in [Peers -> BOOLEAN]
  BY <1>2, Here
<1>4. /\ t \in Stream /\ t.state = "CREATING" /\ t.epoch = s.epoch /\ t.qos = s.qos
      /\ t.queued = s.queued /\ t.held = s.held /\ t.active = TRUE
  BY <1>3 DEF Stream, States
<1>5. t # NoStream
  BY <1>4, StreamFields
<1> HIDE DEF t
<1>6. EndedEpochs' = EndedEpochs /\ MadeBy(p)' = MadeBy(p)
  BY <1>1 DEF EndedEpochs, MadeBy
<1>7. CASE s.held
  <2>1. /\ stream' = [stream EXCEPT ![p] = t] /\ stream'[p] = t /\ proc'[p] = "idle"
        /\ net' = net /\ ~ s.queued
    BY <1>1, <1>2, <1>3, <1>4, <1>7 DEF EndOK, Exists
  <2>2. Touches(p)
    <3>1. \E r \in Procs : proc' = [proc EXCEPT ![p] = r]
      BY <1>1 DEF Procs
    <3> QED BY <1>1, <1>3, <1>4, <2>1, <3>1 DEF Touches
  <2>3. TypeOK' /\ Frame(p)
    BY <1>2, <2>2, TouchesFrames
  <2>4. News(p) /\ Hears(p)
    BY <1>4, <2>1 DEF News, Hears
  <2>5. EndOK(p)'
    BY <1>1, <1>2, <1>4, <1>5, <1>6, <1>7, <2>1 DEF EndOK, Exists, Over
  <2>6. Agrees(p)'
    BY <1>2, <1>4, <1>5, <1>6, <2>1, <2>3, <2>5, StreamIsTaken
  <2> QED BY <2>3, <2>4, <2>6, StepKeepsIInv
<1>8. CASE ~ s.held
  <2>1. s.epoch \in EndedEpochs'
    BY <1>2, <1>6, <1>8 DEF EndOK, Exists
  <2>2. /\ CloseOf(p, t) \subseteq Packets
        /\ \A m \in CloseOf(p, t) : m.to = Other(p) /\ m.kind = "CLOSE" /\ m.epoch = s.epoch
    BY <1>3, <1>4, CloseOfEnds
  <2>3. Quiet /\ stream' = [stream EXCEPT ![p] = NoStream] /\ net' = net \cup CloseOf(p, t)
    BY <1>1, <1>4, <1>8 DEF Quiet
  <2>4. "idle" \in Procs \ {"pulled", "forced"}
    BY DEF Procs
  <2> QED BY <1>1, <1>2, <1>3, <2>1, <2>2, <2>3, <2>4, StreamIsDropped
<1> QED BY <1>7, <1>8

LEMMA ForceClosedKeepsIInv ==
  ASSUME IInv, NEW p \in Peers, ForceClosed(p)
  PROVE  IInv'
<1>1. /\ proc[p] = "forced" /\ made' = made /\ ended' = ended /\ epochs' = epochs
      /\ accepting' = accepting /\ net' = net
  BY DEF ForceClosed
<1>2. EndOK(p) /\ stream[p] # NoStream /\ net \subseteq Packets /\ accepting \in [Peers -> BOOLEAN]
  BY <1>1, Here DEF EndOK, Exists
<1>3. CASE stream[p].state = "CLOSING"
  <2>1. stream[p].epoch \in EndedEpochs'
    BY <1>1, <1>2, <1>3 DEF EndOK, Exists, Over, EndedEpochs
  <2>2. \E x \in Over : stream' = [stream EXCEPT ![p] = [stream[p] EXCEPT !.state = x]]
    BY <1>3 DEF ForceClosed, Change, Over
  <2>3. \E r \in Procs \ {"pulled"} : proc' = [proc EXCEPT ![p] = r]
    BY <1>3 DEF ForceClosed, Procs
  <2> QED BY <1>1, <1>2, <2>1, <2>2, <2>3, StreamEnds DEF Quiet
<1>4. CASE stream[p].state # "CLOSING"
  <2>1. stream' = stream /\ proc' = [proc EXCEPT ![p] = "dead"]
    BY <1>4 DEF ForceClosed
  <2>2. News(p)
    BY <1>1 DEF News
  <2> QED BY <1>1, <1>2, <2>1, <2>2, StreamIsLeft
<1> QED BY <1>3, <1>4

LEMMA UpdateKeepsIInv ==
  ASSUME IInv, NEW p \in Peers, Update(p)
  PROVE  IInv'
<1> DEFINE s == stream[p]
           Sent(x) == [to |-> Other(p), kind |-> x.kind, epoch |-> s.epoch, qos |-> x.qos]
<1>1. /\ s # NoStream /\ s.active /\ net' = net \cup {Sent(x) : x \in Sends(s)}
      /\ made' = made /\ ended' = ended /\ stream' = stream /\ epochs' = epochs
      /\ accepting' = accepting /\ proc' = proc
  BY DEF Update, Exists, Send
<1>2. /\ TypeOK /\ EndOK(p) /\ s \in Stream /\ net \subseteq Packets /\ s.epoch \in Epochs
      /\ s.qos \in Qos /\ accepting \in [Peers -> BOOLEAN] /\ Other(p) \in Peers
  BY <1>1, Here, TwoEnds
<1>3. /\ <<s.epoch, s.qos>> \in MadeBy(p) /\ MadeBy(p)' = MadeBy(p) /\ ~ s.queued
      /\ s.state \in Over => s.epoch \in EndedEpochs'
  BY <1>1, <1>2 DEF EndOK, Exists, MadeBy, EndedEpochs
<1>4. ASSUME NEW m \in net' \ net
      PROVE  /\ m \in Packets /\ m.to = Other(p)
             /\ m.kind \in Tellers => <<m.epoch, m.qos>> \in MadeBy(p)'
             /\ m.kind \in Enders => m.epoch \in EndedEpochs'
             /\ m.kind = "HEARTBEAT" => s.state = "CREATED" /\ s.epoch = m.epoch
  <2>1. PICK x \in Sends(s) : m = Sent(x)
    BY <1>1, <1>4
  <2>2. CASE s.state = "CREATING"
    <3>1. x.kind = "CREATE" /\ x.qos = s.qos
      BY <2>1, <2>2 DEF Sends
    <3>2. m.to = Other(p) /\ m.kind = "CREATE" /\ m.epoch = s.epoch /\ m.qos = s.qos
      BY <2>1, <3>1
    <3>3. m \in Packets
      BY <1>2, <2>1, <3>1 DEF Packets, CreateKinds
    <3> QED BY <1>3, <3>2, <3>3 DEF Enders
  <2>3. CASE s.state = "CLOSING"
    <3>1. x.kind = "CLOSE" /\ x.qos = NoQos
      BY <2>1, <2>3 DEF Sends
    <3>2. m.to = Other(p) /\ m.kind = "CLOSE" /\ m.epoch = s.epoch
      BY <2>1, <3>1
    <3>3. m \in Packets
      BY <1>2, <2>1, <3>1 DEF Packets, CloseKinds
    <3> QED BY <1>3, <2>3, <3>2, <3>3 DEF Tellers, Over
  <2>4. CASE s.state \notin {"CREATING", "CLOSING"}
    <3>1. x.kind = "HEARTBEAT" /\ x.qos = NoQos /\ s.state = "CREATED"
      BY <2>1, <2>4 DEF Sends
    <3>2. m.to = Other(p) /\ m.kind = "HEARTBEAT" /\ m.epoch = s.epoch
      BY <2>1, <3>1
    <3>3. m \in Packets
      BY <1>2, <2>1, <3>1 DEF Packets
    <3> QED BY <3>1, <3>2, <3>3 DEF Tellers, Enders
  <2> QED BY <2>2, <2>3, <2>4
<1>5. News(p) /\ net' \subseteq Packets
  BY <1>1, <1>2, <1>4 DEF News
<1> QED BY <1>1, <1>2, <1>3, <1>5, StreamIsLeft

LEMMA OverdueKeepsIInv ==
  ASSUME IInv, NEW p \in Peers, Overdue(p)
  PROVE  IInv'
<1>1. /\ stream[p] # NoStream /\ GiveUp(p) /\ Quiet /\ proc' = proc /\ net' = net
      /\ \E x \in Over : stream' = [stream EXCEPT ![p] = [stream[p] EXCEPT !.state = x]]
  BY DEF Overdue, Exists, Change, Panicked, Over, GiveUp, Quiet
<1>2. net \subseteq Packets /\ stream[p].epoch \in EndedEpochs'
  BY <1>1, Here, GivenUp
<1> QED BY <1>1, <1>2, StreamEnds

LEMMA ConnectionDiesKeepsIInv ==
  ASSUME IInv, NEW p \in Peers, ConnectionDies(p)
  PROVE  IInv'
<1> DEFINE s == stream[p]
           t == [Panicked(s) EXCEPT !.queued = FALSE]
<1>1. /\ proc[p] = "idle" /\ proc' = [proc EXCEPT ![p] = "over"] /\ made' = made
      /\ epochs' = epochs /\ accepting' = accepting /\ net' = net
      /\ IF Live(p) \/ (s # NoStream /\ s.queued) THEN GiveUp(p) ELSE ended' = ended
      /\ stream' = [stream EXCEPT ![p] = IF s = NoStream \/ ~ s.held THEN NoStream ELSE t]
  BY DEF ConnectionDies, Change, Exists, GiveUp
<1>2. /\ TypeOK /\ EndOK(p) /\ net \subseteq Packets /\ proc \in [Peers -> Procs]
      /\ stream \in [Peers -> Stream \cup {NoStream}]
      /\ epochs \in [Peers -> Epochs] /\ accepting \in [Peers -> BOOLEAN]
      /\ s # NoStream => s \in Stream
  BY Here
<1>3. ended \subseteq ended'
  BY <1>1 DEF GiveUp
<1>4. Quiet
  BY <1>1, <1>3 DEF Quiet
<1>5. MadeBy(p)' = MadeBy(p) /\ News(p) /\ proc'[p] = "over"
  BY <1>1, <1>2 DEF MadeBy, News
<1>6. "over" \in Procs \ {"pulled", "forced"}
  BY DEF Procs
<1>7. CASE s = NoStream
  <2>1. stream' = [stream EXCEPT ![p] = NoStream] /\ stream'[p] = NoStream
    BY <1>1, <1>2, <1>7
  <2>2. Touches(p)
    BY <1>1, <1>2, <1>3, <1>6, <2>1 DEF Touches
  <2>3. TypeOK' /\ Frame(p) /\ Hears(p)
    BY <1>2, <2>1, <2>2, TouchesFrames DEF Hears
  <2>4. Agrees(p)'
    BY <1>5, <1>7, <2>1, <2>3, NoneStays
  <2> QED BY <1>5, <2>3, <2>4, StepKeepsIInv
<1>8. CASE s # NoStream
  <2>1. s.epoch \in EndedEpochs'
    <3>1. CASE Live(p) \/ s.queued
      BY <1>1, <1>8, <3>1, GivenUp
    <3>2. CASE ~ Live(p) /\ ~ s.queued
      <4>1. s.state \in States
        BY <1>2, <1>8, StreamFields
      <4>2. s.state \in Over
        BY <1>1, <1>2, <1>8, <3>2, <4>1 DEF EndOK, Exists, Live, IsAlive, Alive, States, Over
      <4>3. s.epoch \in EndedEpochs
        BY <1>2, <1>8, <4>2 DEF EndOK, Exists
      <4> QED BY <1>3, <4>3 DEF EndedEpochs
    <3> QED BY <3>1, <3>2
  <2>2. CASE ~ s.held
    <3>1. stream' = [stream EXCEPT ![p] = NoStream]
      BY <1>1, <2>2
    <3> QED BY <1>1, <1>2, <1>4, <1>6, <1>8, <2>1, <3>1, StreamIsDropped
  <2>3. CASE s.held
    <3>1. /\ t \in Stream /\ t.state = "ERROR" /\ t.epoch = s.epoch /\ t.qos = s.qos
          /\ t.queued = FALSE /\ t.held = s.held
      BY <1>2, <1>8 DEF Panicked, Stream, States
    <3>2. t # NoStream
      BY <3>1, StreamFields
    <3> HIDE DEF t
    <3>3. stream' = [stream EXCEPT ![p] = t] /\ stream'[p] = t
      BY <1>1, <1>2, <1>8, <2>3
    <3>4. Touches(p)
      BY <1>1, <1>2, <1>3, <1>6, <3>1, <3>3 DEF Touches
    <3>5. TypeOK' /\ Frame(p) /\ Hears(p)
      BY <1>2, <3>1, <3>3, <3>4, TouchesFrames DEF Hears
    <3>6. EndOK(p)'
      BY <1>2, <1>5, <1>8, <2>1, <2>3, <3>1, <3>2, <3>3 DEF EndOK, Exists
    <3>7. Agrees(p)'
      BY <1>5, <1>8, <3>1, <3>2, <3>3, <3>5, <3>6, StreamIsTaken
    <3> QED BY <1>5, <3>5, <3>7, StepKeepsIInv
  <2> QED BY <2>2, <2>3
<1> QED BY <1>7, <1>8

-----------------------------------------------------------------------------
(* The packets.                                                            *)

LEMMA PanicsEnds ==
  ASSUME NEW p, Panics(p)
  PROVE  /\ \E x \in Over : stream' = [stream EXCEPT ![p] = [stream[p] EXCEPT !.state = x]]
         /\ ended \subseteq ended' /\ stream[p].epoch \in EndedEpochs'
<1> DEFINE x == <<p, stream[p].epoch, "panicked">>
<1>1. x \in ended' /\ x[2] = stream[p].epoch /\ ended \subseteq ended'
  BY DEF Panics
<1>2. \E y \in Over : stream' = [stream EXCEPT ![p] = [stream[p] EXCEPT !.state = y]]
  BY DEF Panics, Panicked, Over
<1> QED BY <1>1, <1>2 DEF EndedEpochs

\* What every handler of a packet leaves alone.
LEMMA HandlerFrame ==
  ASSUME IInv, NEW p \in Peers, NEW m \in net, NEW k, Handles(p, m, k)
  PROVE  /\ m.to = p /\ m.kind = k /\ proc[p] = "idle" /\ made' = made /\ proc' = proc
         /\ epochs' = epochs /\ accepting' = accepting /\ accepting' \in [Peers -> BOOLEAN]
         /\ m \in Packets /\ net \subseteq Packets /\ Truthful(m) /\ MadeBy(p)' = MadeBy(p)
         /\ ended \subseteq ended' => Quiet
<1>1. net \subseteq Packets /\ Truthful(m) /\ accepting \in [Peers -> BOOLEAN]
  BY Here DEF IInv
<1> QED BY <1>1 DEF Handles, Receives, Quiet, MadeBy

\* An answer goes back, with the same epoch.
LEMMA ReplyIs ==
  ASSUME IInv, NEW p \in Peers, NEW m \in net, m.to = p, NEW k, Reply(m, k),
         \/ m.kind \in CreateKinds /\ k \in CreateKinds
         \/ m.kind \notin CreateKinds /\ k \in CloseKinds
  PROVE  /\ net \subseteq net' /\ net' \subseteq Packets
         /\ \A x \in net' \ net :
              x.to = Other(p) /\ x.kind = k /\ x.epoch = m.epoch /\ x.qos = m.qos
<1> DEFINE y == [m EXCEPT !.to = Other(p), !.kind = k]
<1>1. net' = net \cup {y} /\ Other(p) \in Peers /\ m \in Packets /\ net \subseteq Packets
  BY TwoEnds, Here DEF Reply, Send
<1>2. y \in Packets /\ y.to = Other(p) /\ y.kind = k /\ y.epoch = m.epoch /\ y.qos = m.qos
  <2>1. CASE m.kind \in CreateKinds /\ k \in CreateKinds
    BY <1>1, <2>1, PacketFields DEF Packets
  <2>2. CASE m.kind \notin CreateKinds /\ k \in CloseKinds
    BY <1>1, <2>2, PacketFields DEF Packets
  <2> QED BY <2>1, <2>2
<1> QED BY <1>1, <1>2

\* A packet that changes nothing, and draws no answer.
LEMMA PacketIsIgnored ==
  ASSUME IInv, NEW p \in Peers, NEW m \in net, NEW k, Handles(p, m, k),
         stream' = stream, ended' = ended, Send({})
  PROVE  IInv'
<1>1. net' = net /\ News(p)
  BY DEF Send, News
<1> QED BY <1>1, HandlerFrame, StreamIsLeft

\* A packet that panics the stream, and draws no answer.
LEMMA PacketPanics ==
  ASSUME IInv, NEW p \in Peers, NEW m \in net, NEW k, Handles(p, m, k),
         stream[p] # NoStream, Panics(p), Send({})
  PROVE  IInv'
<1>1. net' = net
  BY DEF Send
<1> QED BY <1>1, HandlerFrame, PanicsEnds, StreamEnds

LEMMA CreateConflictKeepsIInv ==
  ASSUME IInv, NEW p \in Peers, NEW m \in net, CreateConflict(p, m)
  PROVE  IInv'
<1>1. /\ Handles(p, m, "CREATE") /\ Panics(p) /\ stream[p] # NoStream
      /\ Reply(m, "REJECT_SIMILAR_EXISTED")
  BY DEF CreateConflict, Live, Exists
<1>2. m.to = p /\ m.kind = "CREATE" /\ net \subseteq Packets /\ proc' = proc
  BY <1>1, HandlerFrame
<1>3. /\ net \subseteq net' /\ net' \subseteq Packets
      /\ \A x \in net' \ net : x.to = Other(p) /\ x.kind = "REJECT_SIMILAR_EXISTED"
  BY <1>1, <1>2, ReplyIs DEF CreateKinds
<1>4. \A x \in net' \ net : /\ x.kind \notin Tellers /\ x.kind # "HEARTBEAT"
                            /\ x.kind \notin Enders
  BY <1>3 DEF Tellers, Enders
<1>5. /\ \E x \in Over : stream' = [stream EXCEPT ![p] = [stream[p] EXCEPT !.state = x]]
      /\ Quiet /\ stream[p].epoch \in EndedEpochs'
  BY <1>1, HandlerFrame, PanicsEnds
<1> QED BY <1>1, <1>2, <1>3, <1>4, <1>5, StreamEnds

LEMMA CreateAgainKeepsIInv ==
  ASSUME IInv, NEW p \in Peers, NEW m \in net, CreateAgain(p, m)
  PROVE  IInv'
<1>1. /\ Handles(p, m, "CREATE") /\ ended' = ended /\ Reply(m, "ALREADY_EXISTS")
      /\ stream[p] # NoStream /\ stream[p].active
      /\ m.epoch = stream[p].epoch /\ m.qos = stream[p].qos
      /\ stream' = [stream EXCEPT ![p] = Connected(stream[p])]
  BY DEF CreateAgain, Live, Exists, Change
<1>2. m.to = p /\ m.kind = "CREATE" /\ proc' = proc /\ MadeBy(p)' = MadeBy(p) /\ Quiet
  BY <1>1, HandlerFrame
<1>3. /\ net \subseteq net' /\ net' \subseteq Packets
      /\ \A x \in net' \ net : /\ x.to = Other(p) /\ x.kind = "ALREADY_EXISTS"
                               /\ x.epoch = m.epoch /\ x.qos = m.qos
  BY <1>1, <1>2, ReplyIs DEF CreateKinds
<1>4. <<stream[p].epoch, stream[p].qos>> \in MadeBy(p)
  BY <1>1, Here DEF EndOK, Exists
<1>5. News(p)
  BY <1>1, <1>2, <1>3, <1>4 DEF News, Enders
<1>6. m.kind \in Tellers
  BY <1>2 DEF Tellers
<1> QED BY <1>1, <1>2, <1>3, <1>5, <1>6, StreamConnects

LEMMA CreateNewerKeepsIInv ==
  ASSUME IInv, NEW p \in Peers, NEW m \in net, CreateNewer(p, m)
  PROVE  IInv'
<1>1. /\ Handles(p, m, "CREATE") /\ stream[p] # NoStream /\ Send({})
      /\ Panics(p) \/ (stream' = stream /\ ended' = ended)
  BY DEF CreateNewer, Live, Exists
<1> QED BY <1>1, PacketIsIgnored, PacketPanics

LEMMA CreateRejectKeepsIInv ==
  ASSUME IInv, NEW p \in Peers, NEW m \in net, CreateReject(p, m)
  PROVE  IInv'
<1>1. Handles(p, m, "CREATE") /\ stream' = stream /\ ended' = ended /\ Reply(m, "REJECT")
  BY DEF CreateReject
<1>2. m.to = p /\ m.kind = "CREATE"
  BY <1>1, HandlerFrame
<1>3. /\ net \subseteq net' /\ net' \subseteq Packets
      /\ \A x \in net' \ net : x.to = Other(p) /\ x.kind = "REJECT"
  BY <1>1, <1>2, ReplyIs DEF CreateKinds
<1>4. News(p) /\ \A x \in net' \ net : x.kind \notin Tellers
  BY <1>3 DEF News, Tellers, Enders
<1> QED BY <1>1, <1>3, <1>4, HandlerFrame, StreamIsLeft

LEMMA CreateBusyKeepsIInv ==
  ASSUME IInv, NEW p \in Peers, NEW m \in net, CreateBusy(p, m)
  PROVE  IInv'
BY PacketIsIgnored DEF CreateBusy

\* A stream that adopts the epoch of a CREATE of the other end.
LEMMA CreateAcceptKeepsIInv ==
  ASSUME IInv, NEW p \in Peers, NEW m \in net, CreateAccept(p, m)
  PROVE  IInv'
<1> DEFINE new == [epoch |-> m.epoch, qos |-> m.qos, byPeer |-> TRUE,
                   state |-> "CREATING", active |-> TRUE, queued |-> FALSE,
                   held |-> TRUE, opened |-> FALSE]
           t == Connected(new)
<1>1. /\ m.to = p /\ m.kind = "CREATE" /\ proc[p] = "idle" /\ stream[p] = NoStream
      /\ stream' = [stream EXCEPT ![p] = t] /\ epochs' = [epochs EXCEPT ![p] = m.epoch]
      /\ made' = made \cup {<<p, m.epoch, m.qos, "accepted">>} /\ Reply(m, "ACCEPT")
      /\ accepting' = accepting /\ proc' = proc /\ ended' = ended
  BY DEF CreateAccept, Receives, Exists, Change
<1>2. /\ TypeOK /\ GoneHasEnded(p) /\ proc \in [Peers -> Procs] /\ proc[p] \in Procs
      /\ [proc EXCEPT ![p] = proc[p]] = proc /\ m \in Packets
      /\ stream \in [Peers -> Stream \cup {NoStream}]
      /\ epochs \in [Peers -> Epochs] /\ accepting \in [Peers -> BOOLEAN]
      /\ Other(p) \in Peers /\ Other(p) # p
  BY Here, TwoEnds
<1>3. m.epoch \in Epochs /\ m.qos \in Qos /\ <<m.epoch, m.qos>> \in MadeBy(Other(p))
  BY <1>1, <1>2, PacketFields DEF IInv, Truthful, Tellers, CreateKinds
<1>4. /\ new \in Stream /\ new.state = "CREATING" /\ new.epoch = m.epoch /\ new.qos = m.qos
      /\ new.queued = FALSE /\ new.held = TRUE /\ new.active = TRUE
  BY <1>3 DEF Stream, States
<1> HIDE DEF new
<1>5. /\ t \in Stream /\ t # NoStream /\ t.state \in {"CREATING", "CREATED"}
      /\ t.epoch = m.epoch /\ t.qos = m.qos /\ t.queued = FALSE /\ t.held = TRUE
      /\ t.active = TRUE
  BY <1>4, ConnectedStream
<1> HIDE DEF t
<1>6. stream'[p] = t /\ proc'[p] = "idle"
  BY <1>1, <1>2
<1>7. /\ net \subseteq net' /\ net' \subseteq Packets
      /\ \A x \in net' \ net : /\ x.to = Other(p) /\ x.kind = "ACCEPT"
                               /\ x.epoch = m.epoch /\ x.qos = m.qos
  BY <1>1, ReplyIs DEF CreateKinds
<1>8. MadeBy(p)' = MadeBy(p) \cup {<<m.epoch, m.qos>>} /\ EndedEpochs' = EndedEpochs
  BY <1>1, MadeOne DEF EndedEpochs
<1>9. Touches(p)
  <2>1. epochs' \in [Peers -> Epochs]
    BY <1>1, <1>2, <1>3
  <2>2. made \subseteq made' /\ \A x \in made' \ made : x[1] = p
    BY <1>1
  <2>3. \E r \in Procs : proc' = [proc EXCEPT ![p] = r]
    BY <1>1, <1>2
  <2>4. \E s \in Stream \cup {NoStream} : stream' = [stream EXCEPT ![p] = s]
    BY <1>1, <1>5
  <2> QED BY <1>1, <1>2, <1>7, <2>1, <2>2, <2>3, <2>4 DEF Touches
<1>10. TypeOK' /\ Frame(p)
  BY <1>2, <1>9, TouchesFrames
<1>11. News(p)
  BY <1>7, <1>8 DEF News, Enders
<1>12. Hears(p)
  BY <1>1, <1>5, <1>6 DEF Hears, Tellers
<1>13. EndOK(p)'
  <2>1. MadeBy(Other(p))' = MadeBy(Other(p))
    BY <1>10 DEF Frame
  <2> QED BY <1>3, <1>5, <1>6, <1>8, <2>1 DEF EndOK, Exists, Over
<1>14. GoneHasEnded(p)'
  BY <1>1, <1>2, <1>5, <1>6, <1>8 DEF GoneHasEnded, Exists
<1>15. QueuedIsUnknown(p)'
  BY <1>5, <1>6 DEF QueuedIsUnknown
<1> QED BY <1>10, <1>11, <1>12, <1>13, <1>14, <1>15, StepKeepsIInv DEF Agrees

\* An answer that is about the stream connects it.
LEMMA AnswerConnects ==
  ASSUME IInv, NEW p \in Peers, NEW m \in net, NEW k \in Tellers, Handles(p, m, k),
         IsAbout(p, m), stream' = [stream EXCEPT ![p] = Connected(stream[p])],
         ended' = ended, Send({})
  PROVE  IInv'
<1>1. /\ stream[p] # NoStream /\ stream[p].active
      /\ m.epoch = stream[p].epoch /\ m.qos = stream[p].qos /\ net' = net
  BY DEF IsAbout, Live, Exists, Send
<1>2. m.to = p /\ m.kind \in Tellers /\ proc' = proc /\ Quiet /\ net \subseteq Packets
  BY HandlerFrame
<1>3. News(p)
  BY <1>1 DEF News
<1> QED BY <1>1, <1>2, <1>3, StreamConnects

LEMMA ReceiveAcceptKeepsIInv ==
  ASSUME IInv, NEW p \in Peers, NEW m \in net, ReceiveAccept(p, m)
  PROVE  IInv'
<1>1. Handles(p, m, "ACCEPT") /\ Send({}) /\ "ACCEPT" \in Tellers
  BY DEF ReceiveAccept, Tellers
<1>2. CASE ~Live(p)
  BY <1>1, <1>2, PacketIsIgnored DEF ReceiveAccept, IsAbout
<1>3. CASE Live(p) /\ IsAbout(p, m)
  BY <1>1, <1>3, AnswerConnects DEF ReceiveAccept, Change
<1>4. CASE Live(p) /\ ~IsAbout(p, m)
  <2>1. stream[p] # NoStream /\ Panics(p)
    BY <1>4 DEF ReceiveAccept, Live, Exists
  <2> QED BY <1>1, <2>1, PacketPanics
<1> QED BY <1>2, <1>3, <1>4

LEMMA ReceiveAlreadyExistsKeepsIInv ==
  ASSUME IInv, NEW p \in Peers, NEW m \in net, ReceiveAlreadyExists(p, m)
  PROVE  IInv'
<1>1. Handles(p, m, "ALREADY_EXISTS") /\ Send({}) /\ "ALREADY_EXISTS" \in Tellers /\ ended' = ended
  BY DEF ReceiveAlreadyExists, Tellers
<1>2. CASE IsAbout(p, m)
  BY <1>1, <1>2, AnswerConnects DEF ReceiveAlreadyExists, Change
<1>3. CASE ~IsAbout(p, m)
  BY <1>1, <1>3, PacketIsIgnored DEF ReceiveAlreadyExists
<1> QED BY <1>2, <1>3

LEMMA ReceiveSimilarExistedKeepsIInv ==
  ASSUME IInv, NEW p \in Peers, NEW m \in net, ReceiveSimilarExisted(p, m)
  PROVE  IInv'
<1>1. Handles(p, m, "REJECT_SIMILAR_EXISTED") /\ Send({})
  BY DEF ReceiveSimilarExisted
<1>2. CASE IsAbout(p, m)
  <2>1. stream[p] # NoStream /\ Panics(p)
    BY <1>2 DEF ReceiveSimilarExisted, IsAbout, Live, Exists
  <2> QED BY <1>1, <2>1, PacketPanics
<1>3. CASE ~IsAbout(p, m)
  BY <1>1, <1>3, PacketIsIgnored DEF ReceiveSimilarExisted
<1> QED BY <1>2, <1>3

\* A packet that ends the stream, of whose epoch a stream has ended.
LEMMA PacketEnds ==
  ASSUME IInv, NEW p \in Peers, NEW m \in net, NEW k, Handles(p, m, k),
         stream[p] # NoStream, NEW x \in Over,
         stream' = [stream EXCEPT ![p] = [stream[p] EXCEPT !.state = x]],
         ended \subseteq ended', stream[p].epoch \in EndedEpochs',
         net \subseteq net', net' \subseteq Packets,
         \A y \in net' \ net : y.to = Other(p) /\ y.kind = "CLOSED"
  PROVE  IInv'
<1>1. Quiet /\ proc' = proc
  BY HandlerFrame
<1>2. \A y \in net' \ net : /\ y.to = Other(p) /\ y.kind \notin Tellers /\ y.kind # "HEARTBEAT"
                            /\ y.kind \in Enders => y.epoch \in EndedEpochs'
  BY DEF Tellers, Enders
<1> QED BY <1>1, <1>2, StreamEnds

LEMMA ReceiveRejectKeepsIInv ==
  ASSUME IInv, NEW p \in Peers, NEW m \in net, ReceiveReject(p, m)
  PROVE  IInv'
<1>1. Handles(p, m, "REJECT") /\ net' = net /\ net \subseteq Packets /\ Send({})
  BY Here DEF ReceiveReject, Send
<1>2. CASE IsAbout(p, m)
  <2> DEFINE x == <<p, m.epoch, "rejected">>
  <2>1. /\ stream[p] # NoStream /\ m.epoch = stream[p].epoch /\ ended' = ended \cup {x}
        /\ stream' = [stream EXCEPT ![p] = [stream[p] EXCEPT !.state = "REJECTED"]]
    BY <1>2 DEF ReceiveReject, IsAbout, Live, Exists, Change
  <2>2. x \in ended' /\ x[2] = stream[p].epoch /\ ended \subseteq ended'
    BY <2>1
  <2>3. stream[p].epoch \in EndedEpochs' /\ "REJECTED" \in Over
    BY <2>2 DEF EndedEpochs, Over
  <2> QED BY <1>1, <2>1, <2>2, <2>3, PacketEnds
<1>3. CASE ~IsAbout(p, m)
  BY <1>1, <1>3, PacketIsIgnored DEF ReceiveReject
<1> QED BY <1>2, <1>3

LEMMA ReceiveCloseKeepsIInv ==
  ASSUME IInv, NEW p \in Peers, NEW m \in net, ReceiveClose(p, m)
  PROVE  IInv'
<1>1. Handles(p, m, "CLOSE") /\ ended' = ended
  BY DEF ReceiveClose
<1>2. /\ m.to = p /\ m.kind = "CLOSE" /\ "CLOSE" \notin CreateKinds /\ m.epoch \in EndedEpochs'
      /\ "CLOSED" \in CloseKinds /\ "ALREADY_CLOSED" \in CloseKinds
  BY <1>1, HandlerFrame DEF Truthful, Enders, EndedEpochs, CreateKinds, CloseKinds
<1>3. CASE EpochMatches(p, m)
  <2>1. /\ stream[p] # NoStream /\ m.epoch = stream[p].epoch /\ Reply(m, "CLOSED")
        /\ stream' = [stream EXCEPT ![p] = [stream[p] EXCEPT !.state = "CLOSED"]]
    BY <1>3 DEF ReceiveClose, EpochMatches, Live, Exists, Change
  <2>2. /\ net \subseteq net' /\ net' \subseteq Packets
        /\ \A y \in net' \ net : y.to = Other(p) /\ y.kind = "CLOSED"
    BY <1>2, <2>1, ReplyIs
  <2>3. "CLOSED" \in Over
    BY DEF Over
  <2> QED BY <1>1, <1>2, <2>1, <2>2, <2>3, PacketEnds
<1>4. CASE ~EpochMatches(p, m)
  <2>1. stream' = stream /\ Reply(m, "ALREADY_CLOSED")
    BY <1>4 DEF ReceiveClose
  <2>2. /\ net \subseteq net' /\ net' \subseteq Packets
        /\ \A y \in net' \ net : y.to = Other(p) /\ y.kind = "ALREADY_CLOSED" /\ y.epoch = m.epoch
    BY <1>2, <2>1, ReplyIs
  <2>3. News(p) /\ \A y \in net' \ net : y.kind \notin Tellers
    BY <1>2, <2>2 DEF News, Tellers
  <2> QED BY <1>1, <2>1, <2>2, <2>3, HandlerFrame, StreamIsLeft
<1> QED BY <1>3, <1>4

LEMMA ReceiveClosedKeepsIInv ==
  ASSUME IInv, NEW p \in Peers, NEW m \in net, ReceiveClosed(p, m)
  PROVE  IInv'
<1>1. Handles(p, m, "CLOSED") /\ ended' = ended /\ Send({}) /\ net' = net /\ net \subseteq Packets
  BY Here DEF ReceiveClosed, Send
<1>2. CASE EpochMatches(p, m) /\ stream[p].state = "CLOSING"
  <2>1. /\ stream[p] # NoStream /\ "CLOSED" \in Over
        /\ stream' = [stream EXCEPT ![p] = [stream[p] EXCEPT !.state = "CLOSED"]]
    BY <1>2 DEF ReceiveClosed, EpochMatches, Live, Exists, Change, Over
  <2>2. stream[p].epoch \in EndedEpochs'
    BY <1>1, <1>2, <2>1, Here DEF EndOK, Exists, Over, EndedEpochs
  <2> QED BY <1>1, <2>1, <2>2, PacketEnds
<1>3. CASE ~ (EpochMatches(p, m) /\ stream[p].state = "CLOSING")
  BY <1>1, <1>3, PacketIsIgnored DEF ReceiveClosed
<1> QED BY <1>2, <1>3

LEMMA ReceiveAlreadyClosedKeepsIInv ==
  ASSUME IInv, NEW p \in Peers, NEW m \in net, ReceiveAlreadyClosed(p, m)
  PROVE  IInv'
<1>1. /\ m.kind = "ALREADY_CLOSED" /\ proc[p] = "idle" /\ net' = net /\ Quiet
      /\ made' = made /\ ended' = ended /\ epochs' = epochs /\ accepting' = accepting
  BY DEF ReceiveAlreadyClosed, Receives, Send, Quiet
<1>2. /\ m.epoch \in EndedEpochs' /\ net \subseteq Packets /\ accepting \in [Peers -> BOOLEAN]
      /\ News(p)
  BY <1>1, Here DEF IInv, Truthful, Enders, EndedEpochs, News
<1>3. CASE EpochMatches(p, m)
  <2>1. /\ stream[p] # NoStream /\ m.epoch = stream[p].epoch
        /\ stream' = [stream EXCEPT ![p] = [stream[p] EXCEPT !.state = "CLOSING"]]
        /\ proc' = [proc EXCEPT ![p] = "forced"]
    BY <1>3 DEF ReceiveAlreadyClosed, EpochMatches, Live, Exists, Change
  <2>2. "CLOSING" \in Over /\ "forced" \in Procs \ {"pulled"}
    BY DEF Over, Procs
  <2>3. \E x \in Over : stream' = [stream EXCEPT ![p] = [stream[p] EXCEPT !.state = x]]
    BY <2>1, <2>2
  <2> QED BY <1>1, <1>2, <2>1, <2>2, <2>3, StreamEnds
<1>4. CASE ~EpochMatches(p, m)
  <2>1. stream' = stream /\ proc' = proc
    BY <1>4 DEF ReceiveAlreadyClosed
  <2> QED BY <1>1, <1>2, <2>1, StreamIsLeft
<1> QED BY <1>3, <1>4

\* What a heartbeat tells of a stream that is not there has ended: the one it is about
\* was made here, and before the thread took that over nobody could tell of it.
LEMMA ReceiveBlockKeepsIInv ==
  ASSUME IInv, NEW p \in Peers, NEW m \in net, ReceiveBlock(p, m)
  PROVE  IInv'
<1>1. Handles(p, m, "HEARTBEAT") /\ stream' = stream /\ ended' = ended
  BY DEF ReceiveBlock
<1>2. /\ m.to = p /\ m.kind = "HEARTBEAT" /\ proc[p] = "idle" /\ m \in Packets /\ Truthful(m)
      /\ "HEARTBEAT" \notin CreateKinds /\ "ALREADY_CLOSED" \in CloseKinds
  BY <1>1, HandlerFrame DEF CreateKinds, CloseKinds
<1>3. CASE EpochMatches(p, m)
  BY <1>1, <1>3, PacketIsIgnored DEF ReceiveBlock
<1>4. CASE ~EpochMatches(p, m)
  <2>1. Reply(m, "ALREADY_CLOSED")
    BY <1>4 DEF ReceiveBlock
  <2>2. /\ net \subseteq net' /\ net' \subseteq Packets
        /\ \A y \in net' \ net : y.to = Other(p) /\ y.kind = "ALREADY_CLOSED" /\ y.epoch = m.epoch
    BY <1>2, <2>1, ReplyIs
  <2>3. m.epoch \in EndedEpochs
    <3>1. m.epoch \in Epochs /\ EndOK(p) /\ GoneHasEnded(p) /\ QueuedIsUnknown(p)
      BY <1>2, PacketFields DEF IInv, Agrees
    <3>2. m.epoch \in EndedEpochs \/ (stream[p] # NoStream /\ stream[p].epoch = m.epoch)
      BY <1>2, <3>1 DEF Truthful, GoneHasEnded, Exists
    <3>3. ASSUME stream[p] # NoStream, stream[p].epoch = m.epoch
          PROVE  m.epoch \in EndedEpochs
      <4>1. stream[p].state \in States
        BY <3>3, Here
      <4>2. CASE stream[p].state \in Over
        BY <3>1, <3>3, <4>2 DEF EndOK, Exists
      <4>3. CASE stream[p].state \notin Over
        <5>1. ~ stream[p].active
          BY <1>4, <3>3, <4>1, <4>3 DEF EpochMatches, Live, Exists, IsAlive, Alive, States, Over
        <5>2. stream[p].queued
          BY <1>2, <3>1, <3>3, <4>1, <4>3, <5>1 DEF EndOK, Exists, States, Over
        <5> QED BY <1>2, <3>1, <3>3, <5>2 DEF QueuedIsUnknown, Unknown, Exists
      <4> QED BY <4>2, <4>3
    <3> QED BY <3>2, <3>3
  <2>4. EndedEpochs' = EndedEpochs
    BY <1>1 DEF EndedEpochs
  <2>5. News(p) /\ \A y \in net' \ net : y.kind \notin Tellers
    BY <2>2, <2>3, <2>4 DEF News, Tellers
  <2> QED BY <1>1, <2>2, <2>5, HandlerFrame, StreamIsLeft
<1> QED BY <1>3, <1>4

-----------------------------------------------------------------------------
(* The theorems.                                                           *)

LEMMA InitIInv ==
  ASSUME Init
  PROVE  IInv
<1>1. TypeOK
  BY StreamAssumption DEF Init, TypeOK, Epochs
<1>2. \A p \in Peers : stream[p] = NoStream /\ proc[p] = "idle"
  BY DEF Init
<1>3. \A p \in Peers : MadeBy(p) = {}
  BY DEF Init, MadeBy
<1>4. \A p \in Peers : Agrees(p)
  BY <1>2, <1>3 DEF Agrees, EndOK, GoneHasEnded, QueuedIsUnknown, Exists
<1>5. net = {}
  BY DEF Init
<1> QED BY <1>1, <1>4, <1>5 DEF IInv

LEMMA StutterKeepsIInv ==
  ASSUME IInv, UNCHANGED vars
  PROVE  IInv'
<1>1. /\ stream' = stream /\ epochs' = epochs /\ accepting' = accepting /\ proc' = proc
      /\ net' = net /\ made' = made /\ ended' = ended
  BY DEF vars
<1>2. TypeOK' /\ EndedEpochs' = EndedEpochs
  BY <1>1 DEF IInv, TypeOK, EndedEpochs
<1>3. \A p \in Peers : MadeBy(p)' = MadeBy(p)
  BY <1>1 DEF MadeBy
<1>4. \A p \in Peers : Other(p) \in Peers
  BY TwoEnds
<1>5. ASSUME NEW m \in net PROVE Truthful(m)'
  <2>1. m.to \in Peers
    BY Here, StreamAssumption, PacketFields DEF Peers
  <2> QED BY <1>2, <1>3, <1>4, <2>1 DEF IInv, Truthful
<1>6. ASSUME NEW p \in Peers PROVE Agrees(p)'
  BY <1>1, <1>2, <1>3, <1>4, <1>6
     DEF IInv, Agrees, EndOK, GoneHasEnded, QueuedIsUnknown, Unknown, Exists
<1> QED BY <1>1, <1>2, <1>5, <1>6 DEF IInv

LEMMA PacketKeepsIInv ==
  ASSUME IInv, NEW p \in Peers, NEW m \in net, ProcessPacket(p, m)
  PROVE  IInv'
<1>1. CASE CreateConflict(p, m) \/ CreateAgain(p, m) \/ CreateNewer(p, m) \/ CreateReject(p, m)
           \/ CreateAccept(p, m) \/ CreateBusy(p, m)
  BY <1>1, CreateConflictKeepsIInv, CreateAgainKeepsIInv, CreateNewerKeepsIInv,
     CreateRejectKeepsIInv, CreateAcceptKeepsIInv, CreateBusyKeepsIInv
<1>2. CASE ReceiveAccept(p, m) \/ ReceiveReject(p, m) \/ ReceiveSimilarExisted(p, m)
           \/ ReceiveAlreadyExists(p, m)
  BY <1>2, ReceiveAcceptKeepsIInv, ReceiveRejectKeepsIInv, ReceiveSimilarExistedKeepsIInv,
     ReceiveAlreadyExistsKeepsIInv
<1>3. CASE ReceiveClose(p, m) \/ ReceiveClosed(p, m) \/ ReceiveAlreadyClosed(p, m)
           \/ ReceiveBlock(p, m)
  BY <1>3, ReceiveCloseKeepsIInv, ReceiveClosedKeepsIInv, ReceiveAlreadyClosedKeepsIInv,
     ReceiveBlockKeepsIInv
<1> QED BY <1>1, <1>2, <1>3 DEF ProcessPacket

LEMMA NextKeepsIInv ==
  ASSUME IInv, [Next]_vars
  PROVE  IInv'
<1>1. ASSUME NEW p \in Peers, PeerStep(p) PROVE IInv'
  <2>1. CASE \E qos \in Qos : Create(p, qos)
    BY <2>1, CreateKeepsIInv
  <2>2. CASE Close(p) \/ Release(p) \/ PanicInSend(p) \/ StopAccepting(p)
    BY <2>2, CloseKeepsIInv, ReleaseKeepsIInv, PanicInSendKeepsIInv, StopAcceptingKeepsIInv
  <2>3. CASE Pull(p) \/ Pulled(p) \/ ForceClosed(p) \/ Update(p)
    BY <2>3, PullKeepsIInv, PulledKeepsIInv, ForceClosedKeepsIInv, UpdateKeepsIInv
  <2>4. CASE Overdue(p) \/ ConnectionDies(p)
    BY <2>4, OverdueKeepsIInv, ConnectionDiesKeepsIInv
  <2>5. CASE \E m \in net : ProcessPacket(p, m)
    BY <2>5, PacketKeepsIInv
  <2> QED BY <1>1, <2>1, <2>2, <2>3, <2>4, <2>5 DEF PeerStep
<1> QED BY <1>1, StutterKeepsIInv DEF Next

\* What a packet says has happened, a stream that was made either is there or has ended, and
\* nobody knows of a stream whose CREATE has not been sent: through every handler, time-out,
\* panic and end of the connection.
THEOREM StreamLifecycleInvariant == Spec => []IInv
<1>1. Init => IInv
  BY InitIInv
<1>2. IInv /\ [Next]_vars => IInv'
  BY NextKeepsIInv
<1> QED BY <1>1, <1>2, PTL DEF Spec

\* A CREATED stream has a counterpart: the other end made a stream of its epoch and quality of
\* service, whatever packets of earlier streams of the number are still on their way.
THEOREM StreamLifecycleCreatedWasMade == Spec => []CreatedWasMade
<1>1. IInv => CreatedWasMade
  <2> SUFFICES ASSUME IInv, NEW p \in Peers, Exists(p), stream[p].state = "CREATED"
               PROVE  \E x \in made :
                        x[1] = Other(p) /\ x[2] = stream[p].epoch /\ x[3] = stream[p].qos
    BY DEF CreatedWasMade
  <2>1. <<stream[p].epoch, stream[p].qos>> \in MadeBy(Other(p))
    BY Here DEF EndOK
  <2>2. PICK x \in made : x[1] = Other(p) /\ <<x[2], x[3]>> = <<stream[p].epoch, stream[p].qos>>
    BY <2>1 DEF MadeBy
  <2> QED BY <2>2
<1> QED BY <1>1, StreamLifecycleInvariant, PTL

\* A stream is closed by nothing but the end of a stream of its epoch: no heartbeat that
\* crosses the handshake and no late CLOSE of another epoch closes one that is in order.
THEOREM StreamLifecycleClosedWasEnded == Spec => []ClosedWasEnded
<1>1. IInv => ClosedWasEnded
  <2> SUFFICES ASSUME IInv, NEW p \in Peers, Exists(p), stream[p].state = "CLOSED"
               PROVE  \E x \in ended : x[2] = stream[p].epoch
    BY DEF ClosedWasEnded
  <2>1. stream[p].epoch \in EndedEpochs
    BY Here DEF EndOK, Over
  <2> QED BY <2>1 DEF EndedEpochs
<1> QED BY <1>1, StreamLifecycleInvariant, PTL
=============================================================================
