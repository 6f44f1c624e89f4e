----------------------------- MODULE Connection -----------------------------
(***************************************************************************)
(* ScorpioUdpConnection between two sockets: dialling, accepting,          *)
(* rejecting, closing, panicking and restarting, as the processing thread  *)
(* of each ScorpioUdp, the thread of each connection and the application   *)
(* interleave over a network that loses, delays, repeats and reorders.     *)
(*                                                                         *)
(* `net' is the set of packets in flight: any of them can be the next to   *)
(* arrive, to be lost, or to arrive while a copy of it stays in flight.    *)
(* Where packets do not leave (Leaves is FALSE) every packet ever sent can *)
(* arrive at any time after, any number of times or never.                 *)
(*                                                                         *)
(* A connection id is drawn at random by the dialler; ids are distinct     *)
(* here.  Streams, the contents of heartbeats and failing sockets are left *)
(* to other modules.  The processing thread handles one packet in one      *)
(* step, but for the window between sending CONNECT and storing CONNECTING *)
(* and for the join of a connection it closes.                             *)
(***************************************************************************)
EXTENDS Naturals, Sequences, FiniteSets

CONSTANTS
  Peers,         \* the two sockets
  Budgets,       \* bounds, one is picked at the start: how often each peer dials and
                 \* accepts the same id, and how many closes, releases, crashes, outages
                 \* of the network and ends of auto_accept happen
  MaxInFlight,   \* bound: packets in flight; one that is sent beyond it is lost
  Leaves,        \* whether packets leave the network, received or lost
  DialsAtOnce,   \* the application dials while it has fewer connections of its own alive
  ClosesNew      \* whether it closes connections that were never dialled

ASSUME ConnectionAssumption ==
  /\ \E a \in Peers : \E b \in Peers \ {a} : Peers = {a, b}
  /\ Budgets \subseteq [dials : [Peers -> Nat], accepts : Nat, ends : Nat]
  /\ {MaxInFlight, DialsAtOnce} \subseteq Nat
  /\ {Leaves, ClosesNew} \subseteq BOOLEAN

VARIABLES
  conn,      \* per peer: the ScorpioUdpConnection objects it ever made
  table,     \* per peer: its entry of _connections for the other one, 0 for none
  awaiting,  \* per peer: _awaiting_connections_channel
  proc,      \* per peer: what ScorpioUdp::processing_thread is doing
  accepting, \* per peer: _auto_accept
  net,       \* packets in flight
  budget     \* what the bounds leave of the one picked

vars == <<conn, table, awaiting, proc, accepting, net, budget>>

Other(p) == CHOOSE q \in Peers : q # p

Ids == Peers \X Nat
NoId == <<>>

States == {"NEW", "CONNECTING", "CONNECTED", "CLOSED", "REJECTED", "ERROR"}
Alive == {"NEW", "CONNECTING", "CONNECTED"}

\* thread: ScorpioUdpConnection::processing_thread is in one of the loops that wait
\* for CONNECTED, in the heartbeat loop, or has ended.
\* inbox: an ERROR packet waits in _incoming_packets.
\* held: the application has not dropped its last shared_ptr.
\* close: nobody, the application or the peer's DISCONNECT is in close(), or it returned.
\* why: what panicked or closed it.
Object == [id : Ids, dialer : BOOLEAN, state : States, stop : BOOLEAN,
           thread : {"dial", "run", "done"}, inbox : BOOLEAN, held : BOOLEAN,
           close : {"no", "app", "peer", "done"},
           why : {"none", "exists", "newer", "disconnected", "silence", "error", "crash"}]

\* The constructor
NewObject(id, dialer, state) ==
  [id |-> id, dialer |-> dialer, state |-> state, stop |-> FALSE, thread |-> "dial",
   inbox |-> FALSE, held |-> TRUE, close |-> "no", why |-> "none"]

Kinds == {"CONNECT", "ACCEPTED", "REJECTED", "ALREADY_CONNECTED",
          "DISCONNECT", "ALREADY_DISCONNECTED", "HEARTBEAT", "ERROR"}

\* A packet to q.  ERROR is the only one without a connection id.
Packet(q, kind, id) == [to |-> q, kind |-> kind, id |-> id]
PacketsTo(p) == [to : {p}, kind : Kinds \ {"ERROR"}, id : Ids]
                  \cup [to : {p}, kind : {"ERROR"}, id : {NoId}]

Objects(p) == 1 .. Len(conn[p])
Idle == [at |-> "idle"]

Ends == budget.ends > 0 /\ budget' = [budget EXCEPT !.ends = @ - 1]
Room(flying, packets) ==
  IF Cardinality(flying \cup packets) <= MaxInFlight THEN flying \cup packets ELSE flying
Send(packets) == net' = Room(net, packets)
Change(p, o, object) == conn' = [conn EXCEPT ![p][o] = object]

\* Seeded bug: the state is left as it was.
PanickedInState(object, why) == [object EXCEPT !.stop = TRUE, !.why = why]

\* panic_soft and panic, whose _panic_mutex lets the first caller through
Panicked(object, why) == [object EXCEPT !.state = "ERROR", !.stop = TRUE, !.why = why]

\* ScorpioUdpConnection::connected
Connected(object) ==
  IF object.state = "CONNECTING" THEN [object EXCEPT !.state = "CONNECTED"] ELSE object

-----------------------------------------------------------------------------
(* The application.                                                        *)

\* ScorpioUdp::connect
Connect(p) ==
  LET own == {o \in Objects(p) : conn[p][o].dialer}
      id == <<p, Cardinality(own) + 1>>
  IN /\ Cardinality(own) < budget.dials[p]
     /\ Cardinality({o \in own : conn[p][o].state \in Alive /\ conn[p][o].held}) < DialsAtOnce
     /\ conn' = [conn EXCEPT ![p] = Append(@, NewObject(id, TRUE, "NEW"))]
     /\ awaiting' = [awaiting EXCEPT ![p] = Append(@, Len(conn'[p]))]
     /\ UNCHANGED <<table, proc, accepting, net, budget>>

\* ScorpioUdpConnection::close up to the join: no thread of the connection runs
\* on, and _incoming_packets is closed
BeginClose(p, o, by) ==
  Change(p, o, [conn[p][o] EXCEPT !.stop = TRUE, !.close = by])

\* close() by the application
Close(p, o) ==
  /\ conn[p][o].held /\ conn[p][o].close = "no"
  /\ conn[p][o].state # "NEW" \/ ClosesNew
  /\ BeginClose(p, o, "app")
  /\ Ends
  /\ UNCHANGED <<table, awaiting, proc, accepting, net>>

\* The last shared_ptr goes: ~ScorpioUdpConnection calls close() again, and the
\* weak pointers to it have expired
Release(p, o) ==
  /\ conn[p][o].held /\ conn[p][o].close \in {"no", "done"}
  /\ conn[p][o].state # "NEW" \/ ClosesNew
  /\ ~(proc[p].at = "dial" /\ proc[p].obj = o)
  /\ Change(p, o, [conn[p][o] EXCEPT !.held = FALSE, !.stop = TRUE, !.close = "app"])
  /\ Ends
  /\ UNCHANGED <<table, awaiting, proc, accepting, net>>

\* close() from the join on.  A close for the peer's DISCONNECT sends nothing.
EndClose(p, o) ==
  LET c == conn[p][o]
  IN /\ c.close \in {"app", "peer"}
     /\ c.thread = "done"
     /\ Send(IF c.close = "app" THEN {Packet(Other(p), "DISCONNECT", c.id)} ELSE {})
     /\ Change(p, o, [c EXCEPT !.state = "CLOSED", !.close = "done"])
     /\ UNCHANGED <<table, awaiting, proc, accepting, budget>>

\* set_auto_accept(false)
StopAccepting(p) ==
  /\ Ends /\ accepting[p]
  /\ accepting' = [accepting EXCEPT ![p] = FALSE]
  /\ UNCHANGED <<conn, table, awaiting, proc, net>>

\* The process dies and starts again: its connections are gone without a word,
\* its socket has the old address
Restart(p) ==
  /\ Ends
  /\ conn' = [conn EXCEPT ![p] = [o \in Objects(p) |->
                IF conn[p][o].held \/ conn[p][o].close # "done"
                THEN [conn[p][o] EXCEPT !.state = "CLOSED", !.stop = TRUE, !.held = FALSE,
                        !.thread = "done", !.close = "done", !.why = "crash"]
                ELSE conn[p][o]]]
  /\ table' = [table EXCEPT ![p] = 0]
  /\ awaiting' = [awaiting EXCEPT ![p] = <<>>]
  /\ proc' = [proc EXCEPT ![p] = Idle]
  /\ accepting' = [accepting EXCEPT ![p] = TRUE]
  /\ UNCHANGED net

-----------------------------------------------------------------------------
(* Looking a connection up and dialling, on the socket's processing thread. *)

\* Seeded bug: a connection that is still dialled does not count.
LiveWhenConnected(p) == /\ table[p] # 0
                        /\ conn[p][table[p]].held
                        /\ conn[p][table[p]].state = "CONNECTED"

\* get_connection with nothing left to dial: the entry, when its object is there
\* and alive
Live(p) == /\ table[p] # 0
           /\ conn[p][table[p]].held
           /\ conn[p][table[p]].state \in Alive

\* Seeded bug: the id is not compared.
LiveAnyId(p, id) == Live(p)
LiveId(p, id) == Live(p) /\ conn[p][table[p]].id = id

\* get_connection erases an entry that is expired or dead
Looked(p) == table' = [table EXCEPT ![p] = IF Live(p) THEN @ ELSE 0]

\* The connections of awaiting[p] whose weak_ptr still locks, in their order
Lockable(p) ==
  LET locks == {i \in DOMAIN awaiting[p] : conn[p][awaiting[p][i]].held}
      Nth(k) == CHOOSE i \in locks : Cardinality({j \in locks : j <= i}) = k
  IN [k \in 1 .. Cardinality(locks) |-> awaiting[p][Nth(k)]]

\* pull_awaiting_connections up to the store: asserts that nothing happened to
\* the connection yet (the failure ends the process), and sends CONNECT
Dial(p, o, stack, lookup) ==
  IF conn[p][o].state = "NEW"
  THEN /\ Send({Packet(Other(p), "CONNECT", conn[p][o].id)})
       /\ proc' = [proc EXCEPT ![p] =
                     [at |-> "dial", obj |-> o, stack |-> stack, lookup |-> lookup]]
  ELSE proc' = [proc EXCEPT ![p] = [at |-> "dead"]] /\ UNCHANGED net

\* The thread picks a dialled connection: pull_awaiting_connections, which asks
\* get_connection first.  With an entry in the table that answers at once.
\* With none, get_connection itself pulls what is awaiting, and so on: the calls
\* nest, the last connection queued is on top of `stack'.  `lookup': the
\* outermost call is a get_connection for a packet, not the thread's own pull.
PullWithEntry(p) ==
  /\ proc[p].at = "idle" /\ awaiting[p] # <<>> /\ table[p] # 0
  /\ awaiting' = [awaiting EXCEPT ![p] = Tail(@)]
  /\ LET o == Head(awaiting[p])
     IN CASE ~conn[p][o].held -> UNCHANGED <<conn, table, proc, net>>
          [] conn[p][o].held /\ Live(p) ->
               /\ Change(p, o, Panicked(conn[p][o], "exists"))
               /\ UNCHANGED <<table, proc, net>>
          [] OTHER ->
               /\ Looked(p)
               /\ Dial(p, o, <<>>, FALSE)
               /\ UNCHANGED conn
  /\ UNCHANGED <<accepting, budget>>

Pull(p, lookup) ==
  /\ proc[p].at = "idle" /\ awaiting[p] # <<>> /\ table[p] = 0
  /\ awaiting' = [awaiting EXCEPT ![p] = <<>>]
  /\ IF Lockable(p) = <<>>
     THEN UNCHANGED <<proc, net>>
     ELSE LET nested == Lockable(p)
              n == Len(nested)
          IN Dial(p, nested[n], SubSeq(nested, 1, n - 1), lookup)
  /\ UNCHANGED <<conn, table, accepting, budget>>

\* pull_awaiting_connections stores CONNECTING whatever the state is by now, and
\* enters the connection into the table.  The call around it then finds a
\* connection alive and panics its own, and the get_connection around that one,
\* whose answer is the panicked one, erases the entry of the live one.
Dialed(p) ==
  LET o == proc[p].obj
      stack == proc[p].stack
      n == Len(stack)
      dialed == [conn EXCEPT ![p][o].state = "CONNECTING"]
      outer == stack[n]
  IN /\ proc[p].at = "dial"
     /\ IF n = 0
        THEN /\ conn' = dialed
             /\ table' = [table EXCEPT ![p] = o]
             /\ proc' = [proc EXCEPT ![p] = Idle]
             /\ UNCHANGED net
        ELSE /\ conn' = [dialed EXCEPT ![p][outer] = Panicked(@, "exists")]
             /\ table' = [table EXCEPT ![p] = IF n = 1 /\ ~proc[p].lookup THEN o ELSE 0]
             /\ IF n = 1
                THEN proc' = [proc EXCEPT ![p] = Idle] /\ UNCHANGED net
                ELSE Dial(p, stack[n - 1], SubSeq(stack, 1, n - 2), proc[p].lookup)
     /\ UNCHANGED <<awaiting, accepting, budget>>

-----------------------------------------------------------------------------
(* process_packet, one action per command and answer.                      *)

\* m is taken from the network, or a copy of it, and the answers are sent
Answer(m, packets) == \E rest \in {net} \cup (IF Leaves THEN {net \ {m}} ELSE {}) : net' = Room(rest, packets)

\* Packet m reaches process_packet, which looks the connection up
Arrives(p, m, kind) ==
  /\ m \in net /\ m.to = p /\ m.kind = kind
  /\ proc[p].at = "idle"
  /\ table[p] # 0 \/ awaiting[p] = <<>>

Receives(p, m, kind) ==
  /\ Arrives(p, m, kind)
  /\ Looked(p)
  /\ UNCHANGED <<awaiting, accepting, budget>>

\* Seeded bug: a repeated CONNECT is not answered.
ConnectAgainSilently(p, m) ==
  /\ Receives(p, m, "CONNECT")
  /\ Live(p)
  /\ IF LiveId(p, m.id)
     THEN UNCHANGED conn
     ELSE Change(p, table[p], Panicked(conn[p][table[p]], "newer"))
  /\ Answer(m, {})
  /\ UNCHANGED proc

\* CONNECT of the id the address is already connected with, or of another one:
\* the old connection is panicked and nothing is answered
ConnectAgain(p, m) ==
  /\ Receives(p, m, "CONNECT")
  /\ Live(p)
  /\ IF LiveId(p, m.id)
     THEN Answer(m, {Packet(Other(p), "ALREADY_CONNECTED", m.id)}) /\ UNCHANGED conn
     ELSE Change(p, table[p], Panicked(conn[p][table[p]], "newer")) /\ Answer(m, {})
  /\ UNCHANGED proc

\* CONNECT from an address without a live connection, auto_accept on: the new
\* connection goes into the table and to the application, ACCEPTED goes out, and
\* connected() is called
ConnectAccept(p, m) ==
  /\ Arrives(p, m, "CONNECT")
  /\ ~Live(p) /\ accepting[p]
  /\ Cardinality({o \in Objects(p) : conn[p][o].id = m.id}) < budget.accepts
  /\ conn' = [conn EXCEPT ![p] = Append(@, Connected(NewObject(m.id, FALSE, "CONNECTING")))]
  /\ table' = [table EXCEPT ![p] = Len(conn'[p])]
  /\ Answer(m, {Packet(Other(p), "ACCEPTED", m.id)})
  /\ UNCHANGED <<proc, awaiting, accepting, budget>>

ConnectReject(p, m) ==
  /\ Receives(p, m, "CONNECT")
  /\ ~Live(p) /\ ~accepting[p]
  /\ Answer(m, {Packet(Other(p), "REJECTED", m.id)})
  /\ UNCHANGED <<conn, proc>>

\* ACCEPTED for no connection, or for another id, draws an ERROR without an id
ReceiveAccepted(p, m) ==
  /\ Receives(p, m, "ACCEPTED")
  /\ IF LiveId(p, m.id)
     THEN Change(p, table[p], Connected(conn[p][table[p]])) /\ Answer(m, {})
     ELSE Answer(m, {Packet(Other(p), "ERROR", NoId)}) /\ UNCHANGED conn
  /\ UNCHANGED proc

\* REJECTED is stored without looking at the state
ReceiveRejected(p, m) ==
  /\ Receives(p, m, "REJECTED")
  /\ IF LiveId(p, m.id)
     THEN Change(p, table[p], [conn[p][table[p]] EXCEPT !.state = "REJECTED"])
     ELSE UNCHANGED conn
  /\ UNCHANGED proc /\ Answer(m, {})

ReceiveAlreadyConnected(p, m) ==
  /\ Receives(p, m, "ALREADY_CONNECTED")
  /\ IF LiveId(p, m.id)
     THEN Change(p, table[p], Connected(conn[p][table[p]]))
     ELSE UNCHANGED conn
  /\ UNCHANGED proc /\ Answer(m, {})

\* DISCONNECT of the live connection: the processing thread itself closes it, or
\* waits for the close() another thread is in
ReceiveDisconnect(p, m) ==
  /\ Receives(p, m, "DISCONNECT")
  /\ IF LiveId(p, m.id)
     THEN /\ IF conn[p][table[p]].close = "no"
             THEN BeginClose(p, table[p], "peer")
             ELSE UNCHANGED conn
          /\ proc' = [proc EXCEPT ![p] = [at |-> "close", obj |-> table[p]]]
          /\ Answer(m, {})
     ELSE /\ Answer(m, {Packet(Other(p), "ALREADY_DISCONNECTED", m.id)})
          /\ UNCHANGED <<conn, proc>>

\* close(false) returns to the processing thread
Disconnected(p) ==
  /\ proc[p].at = "close"
  /\ conn[p][proc[p].obj].close = "done"
  /\ proc' = [proc EXCEPT ![p] = Idle]
  /\ UNCHANGED <<conn, table, awaiting, accepting, net, budget>>

\* ALREADY_DISCONNECTED: the peer knows nothing of the connection
ReceiveAlreadyDisconnected(p, m) ==
  /\ Receives(p, m, "ALREADY_DISCONNECTED")
  /\ IF LiveId(p, m.id) /\ conn[p][table[p]].state = "CONNECTED"
     THEN Change(p, table[p], Panicked(conn[p][table[p]], "disconnected"))
     ELSE UNCHANGED conn
  /\ UNCHANGED proc /\ Answer(m, {})

\* Any other packet goes to the connection, whose _incoming_packets throws once
\* close() closed it: the exception ends processing_thread
Deliver(p, m, kind) ==
  LET c == conn[p][table[p]]
  IN /\ Receives(p, m, kind)
     /\ Live(p) /\ c.state = "CONNECTED"
     /\ IF c.close = "no"
        THEN Change(p, table[p], [c EXCEPT !.inbox = @ \/ kind = "ERROR"]) /\ UNCHANGED proc
        ELSE proc' = [proc EXCEPT ![p] = [at |-> "dead"]] /\ UNCHANGED conn
     /\ Answer(m, {})

\* A heartbeat of an unknown connection: reply_unknown_connection_heartbeat
\* echoes its id, if it did not do so for the address a moment ago
UnknownHeartbeat(p, m) ==
  /\ Receives(p, m, "HEARTBEAT")
  /\ ~Live(p)
  /\ Answer(m, {Packet(Other(p), "ALREADY_DISCONNECTED", m.id)})
  /\ UNCHANGED <<conn, proc>>

\* Any other packet of a connection that is not there or not CONNECTED is ignored
Ignored(p, m, kind) ==
  /\ Receives(p, m, kind)
  /\ IF Live(p) THEN conn[p][table[p]].state # "CONNECTED" ELSE kind = "ERROR"
  /\ UNCHANGED <<conn, proc>> /\ Answer(m, {})

ProcessPacket(p, m) ==
  \/ ConnectAgain(p, m) \/ ConnectAccept(p, m) \/ ConnectReject(p, m)
  \/ ReceiveAccepted(p, m) \/ ReceiveRejected(p, m) \/ ReceiveAlreadyConnected(p, m)
  \/ ReceiveDisconnect(p, m) \/ ReceiveAlreadyDisconnected(p, m)
  \/ \E kind \in {"HEARTBEAT", "ERROR"} : Deliver(p, m, kind) \/ Ignored(p, m, kind)
  \/ UnknownHeartbeat(p, m)

-----------------------------------------------------------------------------
(* ScorpioUdpConnection::processing_thread.                                *)

Thread(p, o, from, to) ==
  /\ conn[p][o].thread = from
  /\ ~conn[p][o].stop /\ conn[p][o].held
  /\ Change(p, o, [conn[p][o] EXCEPT !.thread = to])
  /\ UNCHANGED <<table, awaiting, proc, accepting, budget>>

\* Told to stop, or the object is going away
ThreadStops(p, o) ==
  /\ conn[p][o].thread # "done"
  /\ conn[p][o].stop \/ ~conn[p][o].held
  /\ Change(p, o, [conn[p][o] EXCEPT !.thread = "done"])
  /\ UNCHANGED <<table, awaiting, proc, accepting, net, budget>>

\* While CONNECTING, CONNECT is sent every heartbeat period
DialAgain(p, o) ==
  /\ conn[p][o].state = "CONNECTING"
  /\ Thread(p, o, "dial", "dial")
  /\ Send({Packet(Other(p), "CONNECT", conn[p][o].id)})

LeaveDial(p, o) ==
  /\ conn[p][o].state \notin {"NEW", "CONNECTING"}
  /\ Thread(p, o, "dial", IF conn[p][o].state = "CONNECTED" THEN "run" ELSE "done")
  /\ UNCHANGED net

\* send_heartbeat, in time
Heartbeat(p, o) ==
  /\ Thread(p, o, "run", "run")
  /\ Send({Packet(Other(p), "HEARTBEAT", conn[p][o].id)})

ThreadPanics(p, o, why) ==
  /\ conn[p][o].thread = "run"
  /\ ~conn[p][o].stop /\ conn[p][o].held
  /\ Change(p, o, [Panicked(conn[p][o], why) EXCEPT !.thread = "done"])
  /\ UNCHANGED <<table, awaiting, proc, accepting, net>>

\* handle_new_packet of an ERROR
ReceiveError(p, o) == conn[p][o].inbox /\ ThreadPanics(p, o, "error") /\ UNCHANGED budget


\* The other side's connections with the id of this one
Counterparts(p, o) ==
  {x \in Objects(Other(p)) : conn[Other(p)][x].id = conn[p][o].id}
AliveThere(p, o) == \E x \in Counterparts(p, o) : conn[Other(p)][x].state \in Alive

\* Nobody sends heartbeats of the id any more
Quiet(p, o) == \A x \in Counterparts(p, o) : conn[Other(p)][x].thread = "done"

\* send_heartbeat, nothing with our id received for SCU_UDP_TIMEOUT: the other
\* side is silent, or the network fails for as long
Silence(p, o) == /\ ThreadPanics(p, o, "silence")
                 /\ IF Quiet(p, o) THEN UNCHANGED budget ELSE Ends

Lose(m) == Leaves /\ net' = net \ {m} /\ UNCHANGED <<conn, table, awaiting, proc, accepting, budget>>

-----------------------------------------------------------------------------
Init ==
  /\ conn = [p \in Peers |-> <<>>]
  /\ table = [p \in Peers |-> 0]
  /\ awaiting = [p \in Peers |-> <<>>]
  /\ proc = [p \in Peers |-> Idle]
  /\ accepting = [p \in Peers |-> TRUE]
  /\ net = {}
  /\ budget \in Budgets

ObjectStep(p, o) ==
  \/ Close(p, o) \/ Release(p, o) \/ EndClose(p, o)
  \/ ThreadStops(p, o) \/ DialAgain(p, o) \/ LeaveDial(p, o)
  \/ Heartbeat(p, o) \/ ReceiveError(p, o) \/ Silence(p, o)

PeerStep(p) ==
  \/ Connect(p) \/ StopAccepting(p) \/ Restart(p)
  \/ PullWithEntry(p) \/ Pull(p, TRUE) \/ Pull(p, FALSE)
  \/ Dialed(p) \/ Disconnected(p)
  \/ \E m \in net : ProcessPacket(p, m)
  \/ \E o \in Objects(p) : ObjectStep(p, o)

Next == (\E p \in Peers : PeerStep(p)) \/ (\E m \in net : Lose(m))

Spec == Init /\ [][Next]_vars

\* What a thread does by itself
ThreadStep(p) ==
  \/ PullWithEntry(p) \/ Pull(p, FALSE) \/ Dialed(p) \/ Disconnected(p)
  \/ \E o \in Objects(p) :
       \/ EndClose(p, o) \/ ThreadStops(p, o) \/ DialAgain(p, o) \/ LeaveDial(p, o)
       \/ Heartbeat(p, o)
       \/ Quiet(p, o) /\ Silence(p, o)

\* What is sent again, by a timer or for every copy of what it answers, until it
\* has had its effect
Repeated == {"CONNECT", "ALREADY_CONNECTED", "REJECTED", "HEARTBEAT", "ALREADY_DISCONNECTED"}

\* The threads run; a packet that is sent again and again is received in the end
\* (any other one may never be); silence lasts when the other side sends no more
\* heartbeats.  Nobody needs to dial, to close or to crash.  One condition per
\* peer is enough: when packets do not leave, each of these steps that changes
\* anything is taken finitely often.
Fairness ==
  \A p \in Peers :
    WF_vars(\/ ThreadStep(p)
            \/ \E m \in net : m.kind \in Repeated /\ ProcessPacket(p, m))

FairSpec == Spec /\ Fairness

-----------------------------------------------------------------------------
(* Correctness.                                                            *)

\* A dialler that is CONNECTED was accepted under that very id: the other side
\* made a connection with it, however late, repeated or out of order the answers
\* to this and to earlier incarnations arrive.
ConnectedWasAccepted ==
  \A p \in Peers : \A o \in Objects(p) :
    conn[p][o].state = "CONNECTED" => Counterparts(p, o) # {}

\* A connection fails with "Peer reports this connection as disconnected" only
\* when another connection with the same id has died, on either side: a late
\* ALREADY_DISCONNECTED of an earlier incarnation does not tear down a fresh one.
DisconnectedByItsPeer ==
  \A p \in Peers : \A o \in Objects(p) :
    conn[p][o].why = "disconnected" =>
      \E q \in Peers : \E x \in Objects(q) :
        /\ <<q, x>> # <<p, o>> /\ conn[q][x].id = conn[p][o].id
        /\ conn[q][x].state \notin Alive \/ ~conn[q][x].held

\* At most one connection of the address is being established or in use, and it
\* is the one packets are dispatched to.
OneConnection ==
  \A p \in Peers : \A o \in Objects(p) :
    conn[p][o].state \in {"CONNECTING", "CONNECTED"} /\ conn[p][o].held => table[p] = o

\* A packet of another incarnation makes no connection CONNECTED, and makes none fail as
\* "disconnected", though both sides may have died and dialled again while it was on
\* its way (scorpio_udp.cpp:431-625).  Two other ways in which a late packet ends a fresh
\* connection are the code's, and no part of this: a CONNECT of another id panics the live
\* connection (ConnectAgain, scorpio_udp.cpp:454-460), and an ERROR, which carries no id,
\* panics the one that is CONNECTED when it arrives (Deliver, ReceiveError).
IncarnationsAreApart == ConnectedWasAccepted /\ DisconnectedByItsPeer

ProcessingThreadsRun == \A p \in Peers : proc[p].at # "dead"

\* Every dial gets an answer in the end: it is accepted, rejected, or fails.
DialsAreAnswered ==
  <>[](ProcessingThreadsRun =>
         \A p \in Peers : \A o \in Objects(p) : conn[p][o].state # "CONNECTING")

\* A half-open connection is noticed in the end: none stays CONNECTED when the
\* other side has none alive with its id.
HalfOpenEnds ==
  <>[](\A p \in Peers : \A o \in Objects(p) :
         conn[p][o].state = "CONNECTED" => AliveThere(p, o))
=============================================================================
