--------------------------- MODULE StreamLifecycle ---------------------------
(***************************************************************************)
(* The life of the ScorpioUdpStreams that two ends of a connection make    *)
(* under one stream number: create_stream() on either end, CREATE and its  *)
(* answers, the tie-break of two that cross, close() and the destructor,   *)
(* time-outs, panics, and the end of the connection.                       *)
(*                                                                         *)
(* A number belongs to one object at a time (_stream_exists, released by   *)
(* the destructor), so an end has one stream or none.  Incarnations are    *)
(* told apart by an epoch of a few bits.                                   *)
(*                                                                         *)
(* Two threads work on a stream: the application's, and the connection's,  *)
(* which handles packets and timers.  A handler is one step except where   *)
(* the application can act in the middle of it (Pull, ForceClosed).  The   *)
(* network is a set of packets that only grows: each packet sent can       *)
(* arrive at any time after, any number of times, in any order, or never.  *)
(***************************************************************************)
EXTENDS Naturals, FiniteSets

CONSTANTS
  Dialer, Acceptor,  \* the two ends, named after how the connection was made
  Qos,               \* the qualities of service in use, all supported
  Reliable,          \* those that are acknowledged by heartbeats
  EpochCount,        \* 256 in the code
  FirstEpoch,        \* the random seed of _streams_epoch at each end
  Budgets            \* bounds, one is picked at the start: streams created and accepted
                     \* by each end, the qualities of service they ask for, and how often
                     \* anything is given up or goes wrong

Peers == {Dialer, Acceptor}

ASSUME StreamAssumption ==
  /\ Dialer # Acceptor
  /\ Reliable \subseteq Qos
  /\ EpochCount \in Nat /\ EpochCount > 0
  /\ FirstEpoch \in [Peers -> 0 .. EpochCount - 1]
  /\ Budgets \subseteq [creates : [Peers -> Nat], accepts : [Peers -> Nat],
                  qos : SUBSET Qos, ends : Nat]

VARIABLES
  stream,    \* per end: the object that holds the number, or NoStream
  epochs,    \* per end: _streams_epoch
  accepting, \* per end: _auto_accept_stream
  proc,      \* per end: what the connection's thread is doing
  net,       \* the packets ever sent
  made,      \* history: the streams each end made
  ended,     \* history: the streams that were given up, rejected or panicked
  budget     \* what the bounds leave of the one picked

vars == <<stream, epochs, accepting, proc, net, made, ended, budget>>

Other(p) == IF p = Dialer THEN Acceptor ELSE Dialer

Epochs == 0 .. EpochCount - 1
States == {"NEW", "CREATING", "CREATED", "CLOSING", "CLOSED", "REJECTED", "ERROR"}
Alive == {"NEW", "CREATING", "CREATED", "CLOSING"}

\* byPeer: _created_by_peer.  active: _activated, so _streams points to it.
\* queued: in _awaiting_streams.  held: by the application (or in _new_streams).
\* opened: it was CREATED at some time.
Stream == [epoch : Epochs, qos : Qos, byPeer : BOOLEAN, state : States,
           active : BOOLEAN, queued : BOOLEAN, held : BOOLEAN, opened : BOOLEAN]
NoStream == [state |-> "none"]

CreateKinds == {"CREATE", "ACCEPT", "REJECT", "REJECT_SIMILAR_EXISTED", "ALREADY_EXISTS"}
CloseKinds == {"CLOSE", "CLOSED", "ALREADY_CLOSED"}
NoQos == "none"

CreatePacket(q, kind, epoch, qos) == [to |-> q, kind |-> kind, epoch |-> epoch, qos |-> qos]
ClosePacket(q, kind, epoch) == [to |-> q, kind |-> kind, epoch |-> epoch, qos |-> NoQos]
HeartbeatBlock(q, epoch) == [to |-> q, kind |-> "HEARTBEAT", epoch |-> epoch, qos |-> NoQos]

Packets == [to : Peers, kind : CreateKinds, epoch : Epochs, qos : Qos]
             \cup [to : Peers, kind : CloseKinds \cup {"HEARTBEAT"}, epoch : Epochs, qos : {NoQos}]

IsAlive(s) == s.state \in Alive
Exists(p) == stream[p] # NoStream

\* get_stream, and the same checks where it is not used
Live(p) == Exists(p) /\ stream[p].active /\ IsAlive(stream[p])

Ends == budget.ends > 0 /\ budget' = [budget EXCEPT !.ends = @ - 1]
GiveUp(p) == ended' = ended \cup {<<p, stream[p].epoch, "givenUp">>}
Change(p, s) == stream' = [stream EXCEPT ![p] = s]
Send(packets) == net' = net \cup packets

\* Seeded bug: only the message is kept.
PanickedInMessage(s) == s

\* panic(), and what update() stores for a stream that is overdue
Panicked(s) == [s EXCEPT !.state = "ERROR"]

Panics(p) == /\ stream' = [stream EXCEPT ![p] = Panicked(@)]
             /\ ended' = ended \cup {<<p, stream[p].epoch, "panicked">>}

\* connected()
Connected(s) ==
  IF s.state = "CREATING" THEN [s EXCEPT !.state = "CREATED", !.opened = TRUE] ELSE s

\* What the destructor and close() send for a stream in use
CloseOf(p, s) ==
  IF s.state \in {"NEW", "CREATING", "CREATED"} /\ proc[p] # "over"
  THEN {ClosePacket(Other(p), "CLOSE", s.epoch)} ELSE {}

-----------------------------------------------------------------------------
(* The application.                                                        *)

NextEpoch(epoch) == (epoch + 1) % EpochCount

\* create_stream: claims the number, takes an epoch, queues the stream.  The
\* queue does not notice that nobody reads it any more.
Create(p, qos) ==
  /\ ~Exists(p)
  /\ budget.creates[p] > 0 /\ qos \in budget.qos
  /\ budget' = [budget EXCEPT !.creates[p] = @ - 1]
  /\ Change(p, [epoch |-> epochs[p], qos |-> qos, byPeer |-> FALSE, state |-> "NEW",
                active |-> FALSE, queued |-> TRUE, held |-> TRUE, opened |-> FALSE])
  /\ epochs' = [epochs EXCEPT ![p] = NextEpoch(@)]
  /\ made' = made \cup {<<p, epochs[p], qos, "created">>}
  /\ UNCHANGED <<accepting, proc, net, ended>>

\* close().  On a dead connection the packet cannot be sent, and the stream fails.
Close(p) ==
  /\ Exists(p) /\ stream[p].held
  /\ stream[p].state \in {"NEW", "CREATING", "CREATED"}
  /\ Ends /\ GiveUp(p)
  /\ Change(p, [stream[p] EXCEPT !.state = IF proc[p] = "over" THEN "ERROR" ELSE "CLOSING"])
  /\ Send(CloseOf(p, stream[p]))
  /\ UNCHANGED <<epochs, accepting, proc, made>>

\* The application drops the stream.  Unless the connection's thread still has
\* it, this destroys it: ~ScorpioUdpStream closes it and releases the number.
Release(p) ==
  LET s == stream[p]
      inUse == s.queued \/ proc[p] = "pulled"
  IN /\ Exists(p) /\ s.held
     /\ proc[p] # "forced"
     /\ IF IsAlive(s) THEN Ends /\ GiveUp(p) ELSE UNCHANGED <<budget, ended>>
     /\ Change(p, IF inUse THEN [s EXCEPT !.held = FALSE] ELSE NoStream)
     /\ Send(IF inUse THEN {} ELSE CloseOf(p, s))
     /\ UNCHANGED <<epochs, accepting, proc, made>>

\* A thread that is inside send() finds the window overrun
PanicInSend(p) ==
  /\ Exists(p) /\ stream[p].held /\ stream[p].opened /\ stream[p].state \in {"CREATED", "CLOSING"}
  /\ Ends /\ GiveUp(p)
  /\ Change(p, Panicked(stream[p]))
  /\ UNCHANGED <<epochs, accepting, proc, net, made>>

\* set_auto_accept_stream(false)
StopAccepting(p) ==
  /\ Ends /\ accepting[p]
  /\ accepting' = [accepting EXCEPT ![p] = FALSE]
  /\ UNCHANGED <<stream, epochs, proc, net, made, ended>>

-----------------------------------------------------------------------------
(* The connection's thread takes a created stream over.                    *)

\* pull_awaiting_streams up to the store: sends CREATE
Pull(p) ==
  /\ proc[p] = "idle" /\ Exists(p) /\ stream[p].queued
  /\ Change(p, [stream[p] EXCEPT !.queued = FALSE])
  /\ Send({CreatePacket(Other(p), "CREATE", stream[p].epoch, stream[p].qos)})
  /\ proc' = [proc EXCEPT ![p] = "pulled"]
  /\ UNCHANGED <<epochs, accepting, made, ended, budget>>

\* and from the store, which does not look at the state, to activate_stream.
\* The thread held the last reference if the application dropped its own.
Pulled(p) ==
  LET s == [stream[p] EXCEPT !.state = "CREATING", !.active = TRUE]
  IN /\ proc[p] = "pulled"
     /\ Change(p, IF s.held THEN s ELSE NoStream)
     /\ Send(IF s.held THEN {} ELSE CloseOf(p, s))
     /\ proc' = [proc EXCEPT ![p] = "idle"]
     /\ UNCHANGED <<epochs, accepting, made, ended, budget>>

-----------------------------------------------------------------------------
(* create_stream_packet_handler.                                           *)

\* The answer to m
Reply(m, kind) == Send({[m EXCEPT !.to = Other(m.to), !.kind = kind]})

Receives(p, m, kind) ==
  /\ m \in net /\ m.to = p /\ m.kind = kind
  /\ proc[p] = "idle"

\* A packet that changes nothing but the stream
Handles(p, m, kind) ==
  /\ Receives(p, m, kind)
  /\ UNCHANGED <<epochs, accepting, proc, made, budget>>

\* CREATE, with a live stream of another quality of service
CreateConflict(p, m) ==
  /\ Handles(p, m, "CREATE")
  /\ Live(p) /\ stream[p].qos # m.qos
  /\ Panics(p)
  /\ Reply(m, "REJECT_SIMILAR_EXISTED")

\* CREATE of the live stream
CreateAgain(p, m) ==
  /\ Handles(p, m, "CREATE")
  /\ Live(p) /\ stream[p].qos = m.qos /\ stream[p].epoch = m.epoch
  /\ Change(p, Connected(stream[p])) /\ UNCHANGED ended
  /\ Reply(m, "ALREADY_EXISTS")

\* Seeded bug: both ends yield.
YieldsAnyway(p) == TRUE

\* Whether the live stream gives way to one of another epoch: the peer's own
\* does, and of two that cross the one of the end that did not dial
Yields(p) == stream[p].byPeer \/ p # Dialer

\* CREATE of another incarnation.  Nothing is answered, the peer will try again.
CreateNewer(p, m) ==
  /\ Handles(p, m, "CREATE")
  /\ Live(p) /\ stream[p].qos = m.qos /\ stream[p].epoch # m.epoch
  /\ IF Yields(p) THEN Panics(p) ELSE UNCHANGED <<stream, ended>>
  /\ Send({})

CreateReject(p, m) ==
  /\ Handles(p, m, "CREATE")
  /\ ~Live(p) /\ ~accepting[p]
  /\ UNCHANGED <<stream, ended>>
  /\ Reply(m, "REJECT")

\* CREATE of a number that is free: the stream adopts the peer's epoch
CreateAccept(p, m) ==
  /\ Receives(p, m, "CREATE")
  /\ ~Exists(p) /\ accepting[p]
  /\ budget.accepts[p] > 0
  /\ budget' = [budget EXCEPT !.accepts[p] = @ - 1]
  /\ Change(p, Connected([epoch |-> m.epoch, qos |-> m.qos, byPeer |-> TRUE,
                          state |-> "CREATING", active |-> TRUE, queued |-> FALSE,
                          held |-> TRUE, opened |-> FALSE]))
  /\ epochs' = [epochs EXCEPT ![p] = m.epoch]
  /\ made' = made \cup {<<p, m.epoch, m.qos, "accepted">>}
  /\ Reply(m, "ACCEPT")
  /\ UNCHANGED <<accepting, proc, ended>>

\* The number is taken by a stream that is dead, or not activated yet
CreateBusy(p, m) ==
  /\ Handles(p, m, "CREATE")
  /\ Exists(p) /\ ~Live(p) /\ accepting[p]
  /\ UNCHANGED <<stream, ended>>
  /\ Send({})

\* Seeded bug: the epoch of an answer is not compared.
IsAboutAnyEpoch(p, m) == Live(p) /\ stream[p].qos = m.qos
IsAbout(p, m) == Live(p) /\ stream[p].epoch = m.epoch /\ stream[p].qos = m.qos

\* ACCEPT panics a live stream it does not match
ReceiveAccept(p, m) ==
  /\ Handles(p, m, "ACCEPT")
  /\ CASE ~Live(p)        -> UNCHANGED <<stream, ended>>
       [] IsAbout(p, m)   -> Change(p, Connected(stream[p])) /\ UNCHANGED ended
       [] OTHER           -> Panics(p)
  /\ Send({})

\* The other answers are ignored unless they match
ReceiveAlreadyExists(p, m) ==
  /\ Handles(p, m, "ALREADY_EXISTS")
  /\ IF IsAbout(p, m) THEN Change(p, Connected(stream[p])) ELSE UNCHANGED stream
  /\ Send({}) /\ UNCHANGED ended

ReceiveSimilarExisted(p, m) ==
  /\ Handles(p, m, "REJECT_SIMILAR_EXISTED")
  /\ IF IsAbout(p, m) THEN Panics(p) ELSE UNCHANGED <<stream, ended>>
  /\ Send({})

\* REJECT does not look at whether the stream was CREATED meanwhile
ReceiveReject(p, m) ==
  /\ Handles(p, m, "REJECT")
  /\ IF IsAbout(p, m)
     THEN /\ Change(p, [stream[p] EXCEPT !.state = "REJECTED"])
          /\ ended' = ended \cup {<<p, m.epoch, "rejected">>}
     ELSE UNCHANGED <<stream, ended>>
  /\ Send({})

-----------------------------------------------------------------------------
(* close_stream_packet_handler and the blocks of a heartbeat.              *)

\* Seeded bug: the epoch is not compared.
EpochAlwaysMatches(p, m) == Live(p)
EpochMatches(p, m) == Live(p) /\ stream[p].epoch = m.epoch

ReceiveClose(p, m) ==
  /\ Handles(p, m, "CLOSE")
  /\ IF EpochMatches(p, m)
     THEN Change(p, [stream[p] EXCEPT !.state = "CLOSED"]) /\ Reply(m, "CLOSED")
     ELSE UNCHANGED stream /\ Reply(m, "ALREADY_CLOSED")
  /\ UNCHANGED ended

ReceiveClosed(p, m) ==
  /\ Handles(p, m, "CLOSED")
  /\ IF EpochMatches(p, m) /\ stream[p].state = "CLOSING"
     THEN Change(p, [stream[p] EXCEPT !.state = "CLOSED"])
     ELSE UNCHANGED stream
  /\ Send({}) /\ UNCHANGED ended

\* ALREADY_CLOSED stores CLOSING, then asserts that it can turn it into CLOSED
ReceiveAlreadyClosed(p, m) ==
  /\ Receives(p, m, "ALREADY_CLOSED")
  /\ IF EpochMatches(p, m)
     THEN /\ Change(p, [stream[p] EXCEPT !.state = "CLOSING"])
          /\ proc' = [proc EXCEPT ![p] = "forced"]
     ELSE UNCHANGED <<stream, proc>>
  /\ Send({})
  /\ UNCHANGED <<epochs, accepting, made, ended, budget>>

ForceClosed(p) ==
  /\ proc[p] = "forced"
  /\ IF stream[p].state = "CLOSING"
     THEN /\ Change(p, [stream[p] EXCEPT !.state = "CLOSED"])
          /\ proc' = [proc EXCEPT ![p] = "idle"]
     ELSE proc' = [proc EXCEPT ![p] = "dead"] /\ UNCHANGED stream
  /\ UNCHANGED <<epochs, accepting, net, made, ended, budget>>

\* A block about an unknown stream draws ALREADY_CLOSED with the block's epoch
ReceiveBlock(p, m) ==
  /\ Handles(p, m, "HEARTBEAT")
  /\ UNCHANGED <<stream, ended>>
  /\ IF EpochMatches(p, m) THEN Send({}) ELSE Reply(m, "ALREADY_CLOSED")

ProcessPacket(p, m) ==
  \/ CreateConflict(p, m) \/ CreateAgain(p, m) \/ CreateNewer(p, m)
  \/ CreateReject(p, m) \/ CreateAccept(p, m) \/ CreateBusy(p, m)
  \/ ReceiveAccept(p, m) \/ ReceiveReject(p, m)
  \/ ReceiveSimilarExisted(p, m) \/ ReceiveAlreadyExists(p, m)
  \/ ReceiveClose(p, m) \/ ReceiveClosed(p, m) \/ ReceiveAlreadyClosed(p, m)
  \/ ReceiveBlock(p, m)

-----------------------------------------------------------------------------
(* Timers, and the end of the connection.                                  *)

\* update() and append_heartbeat_data(), every heartbeat period
Sends(s) ==
  CASE s.state = "CREATING" -> {[kind |-> "CREATE", qos |-> s.qos]}
    [] s.state = "CLOSING" -> {[kind |-> "CLOSE", qos |-> NoQos]}
    [] s.state = "CREATED" /\ s.qos \in Reliable -> {[kind |-> "HEARTBEAT", qos |-> NoQos]}
    [] OTHER -> {}

Update(p) ==
  /\ proc[p] = "idle" /\ Exists(p) /\ stream[p].active
  /\ Send({[to |-> Other(p), kind |-> x.kind, epoch |-> stream[p].epoch, qos |-> x.qos] :
             x \in Sends(stream[p])})
  /\ UNCHANGED <<stream, epochs, accepting, proc, made, ended, budget>>

\* The other end will not answer any more
Silent(p) == proc[Other(p)] \in {"over", "dead"}

\* update() of a stream whose time is over: an answer is missing although it is
\* sent again every heartbeat, because the other end does not give it or the
\* network fails for as long
Overdue(p) ==
  LET s == stream[p]
      q == Other(p)
      unanswered ==
        \/ Silent(p)
        \/ s.state = "CREATING" /\ ~Live(q) /\ budget.accepts[q] = 0
        \/ s.state = "CREATED" /\ ~(Live(q) /\ stream[q].epoch = s.epoch /\ stream[q].state = "CREATED")
  IN /\ proc[p] = "idle" /\ Exists(p) /\ s.active
     /\ \/ s.state \in {"CREATING", "CLOSING"}
        \/ s.state = "CREATED" /\ s.qos \in Reliable
     /\ IF unanswered THEN UNCHANGED budget ELSE Ends
     /\ GiveUp(p)
     /\ Change(p, Panicked(s))
     /\ UNCHANGED <<epochs, accepting, proc, net, made>>

\* The connection dies and panic_streams() takes its streams with it, those that
\* are queued included
ConnectionDies(p) ==
  LET s == stream[p]
  IN /\ proc[p] = "idle"
     /\ IF Silent(p) THEN UNCHANGED budget ELSE Ends
     /\ proc' = [proc EXCEPT ![p] = "over"]
     /\ ended' = IF Live(p) \/ (Exists(p) /\ s.queued)
                 THEN ended \cup {<<p, s.epoch, "givenUp">>} ELSE ended
     /\ Change(p, CASE ~Exists(p) -> NoStream
                    [] Exists(p) /\ ~s.held -> NoStream
                    [] OTHER -> [Panicked(s) EXCEPT !.queued = FALSE])
     /\ UNCHANGED <<epochs, accepting, net, made>>

-----------------------------------------------------------------------------
Init ==
  /\ stream = [p \in Peers |-> NoStream]
  /\ epochs = FirstEpoch
  /\ accepting = [p \in Peers |-> TRUE]
  /\ proc = [p \in Peers |-> "idle"]
  /\ net = {}
  /\ made = {} /\ ended = {}
  /\ budget \in Budgets

PeerStep(p) ==
  \/ \E qos \in Qos : Create(p, qos)
  \/ Close(p) \/ Release(p) \/ PanicInSend(p) \/ StopAccepting(p)
  \/ Pull(p) \/ Pulled(p) \/ ForceClosed(p) \/ Update(p) \/ Overdue(p) \/ ConnectionDies(p)
  \/ \E m \in net : ProcessPacket(p, m)

Next == \E p \in Peers : PeerStep(p)

Spec == Init /\ [][Next]_vars

\* What happens by itself: the connection's thread runs, and the application
\* drops a stream that is dead
ThreadStep(p) ==
  \/ Pull(p) \/ Pulled(p) \/ ForceClosed(p) \/ Update(p)
  \/ Overdue(p) /\ UNCHANGED budget
  \/ ConnectionDies(p) /\ UNCHANGED budget
  \/ Release(p) /\ UNCHANGED budget

\* Packets that are sent again and again are received in the end.  Packets do
\* not leave, and each of these steps that changes anything is taken finitely
\* often, so that one condition per end is enough.
Repeated == {"CREATE", "REJECT", "ALREADY_EXISTS", "CLOSE", "ALREADY_CLOSED", "HEARTBEAT"}

Fairness ==
  \A p \in Peers :
    WF_vars(\/ ThreadStep(p)
            \/ \E m \in net : m.kind \in Repeated /\ ProcessPacket(p, m))

FairSpec == Spec /\ Fairness

-----------------------------------------------------------------------------
(* Correctness.                                                            *)

BothCreated == \A p \in Peers : Exists(p) /\ stream[p].state = "CREATED"

\* A stream its own end created is CREATED only when the other end made one with
\* that epoch and that quality of service, whatever answers to earlier streams of
\* the number arrive.
CreatedWasMade ==
  \A p \in Peers :
    Exists(p) /\ stream[p].state = "CREATED" =>
      \E x \in made : x[1] = Other(p) /\ x[2] = stream[p].epoch /\ x[3] = stream[p].qos

\* A stream is closed only when a stream of its epoch was given up, rejected or failed:
\* neither a heartbeat that crosses the handshake nor a late CLOSE of an earlier
\* stream closes one that is in order.
ClosedWasEnded ==
  \A p \in Peers :
    Exists(p) /\ stream[p].state = "CLOSED" => \E x \in ended : x[2] = stream[p].epoch

ThreadsRun == \A p \in Peers : proc[p] # "dead"

\* Both ends converge: every creation and every close comes to an end, and a
\* reliable stream does not stay CREATED without its counterpart.
Settled ==
  \A p \in Peers : Exists(p) =>
    /\ stream[p].state \notin {"CREATING", "CLOSING"}
    /\ stream[p].state = "CREATED" /\ stream[p].qos \in Reliable =>
         /\ Live(Other(p))
         /\ stream[Other(p)].epoch = stream[p].epoch /\ stream[Other(p)].qos = stream[p].qos
Converges == <>[](ThreadsRun => Settled)

\* Of two streams that cross, the dialler's wins at both ends, unless somebody
\* gives up, does not accept or loses the connection, or they differ in their
\* quality of service.
Undisturbed ==
  /\ \A p \in Peers : accepting[p] /\ proc[p] # "over"
  /\ \A x \in ended : x[3] # "givenUp"
  /\ \A x, y \in made : x[3] = y[3]
DialerWins ==
  <>[](Undisturbed /\ (\E x \in made : x[1] = Dialer /\ x[4] = "created") =>
         /\ BothCreated /\ stream[Dialer].epoch = stream[Acceptor].epoch
         /\ stream[Acceptor].byPeer)
=============================================================================
