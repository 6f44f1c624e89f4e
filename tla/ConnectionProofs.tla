--------------------------- MODULE ConnectionProofs ---------------------------
(***************************************************************************)
(* Incarnations of a connection are told apart, and there is one per       *)
(* address, over a network that loses, repeats and reorders: for any       *)
(* number of dials, accepts, closes and restarts of either side, where the *)
(* application dials an address again only when its last connection with   *)
(* it is gone, and closes none that was not dialled yet.                   *)
(***************************************************************************)
EXTENDS Connection, FiniteSetTheorems, SequenceTheorems, TLAPS

\* How the application uses the library.
OneAtATime == DialsAtOnce <= 1 /\ ClosesNew = FALSE

Dead(c) == c.state \notin Alive \/ ~c.held
Open(c) == c.state \in {"CONNECTING", "CONNECTED"} /\ c.held
Waits(c) == c.state = "NEW" /\ c.held /\ c.dialer

TypeOK ==
  /\ conn \in [Peers -> Seq(Object)] /\ awaiting \in [Peers -> Seq(Nat)]
  /\ DOMAIN table = Peers /\ DOMAIN proc = Peers /\ DOMAIN accepting = Peers

\* q has sent CONNECT for the id, or accepted it.
Dials(q, x) == proc[q].at = "dial" /\ proc[q].obj = x
Known(q, id) ==
  \E x \in Objects(q) : conn[q][x].id = id /\ (conn[q][x].state # "NEW" \/ Dials(q, x))

\* The other side knows of the connection.
Heard(p, o) ==
  \E x \in Objects(Other(p)) :
    /\ conn[Other(p)][x].id = conn[p][o].id
    /\ conn[Other(p)][x].state # "NEW" \/ Dials(Other(p), x)

\* A connection with the id has died on one of the sides.
Gone(id) == \E q \in Peers : \E x \in Objects(q) : conn[q][x].id = id /\ Dead(conn[q][x])

\* What a packet says has happened.
Tellers == {"CONNECT", "ACCEPTED", "ALREADY_CONNECTED"}
Enders == {"DISCONNECT", "ALREADY_DISCONNECTED"}
Truthful(m) ==
  /\ m.to \in Peers
  /\ m.kind \in Tellers => Known(Other(m.to), m.id)
  /\ m.kind = "HEARTBEAT" => Known(m.to, m.id)
  /\ m.kind \in Enders => Gone(m.id)

\* What a connection says has happened.
ObjectOK(p, o) ==
  /\ (conn[p][o].state = "CONNECTED" \/ conn[p][o].thread = "run") => Heard(p, o)
  /\ conn[p][o].state = "NEW" => conn[p][o].thread # "run" /\ conn[p][o].close = "no"
  /\ conn[p][o].why = "disconnected" =>
       \E q \in Peers : \E x \in Objects(q) :
         /\ <<q, x>> # <<p, o>> /\ conn[q][x].id = conn[p][o].id
         /\ Dead(conn[q][x])

\* The table holds the one that is open; at most one waits to be dialled, or is dialled.
PeerOK(p) ==
  /\ table[p] \in 0 .. Len(conn[p])
  /\ table[p] # 0 => conn[p][table[p]].state # "NEW"
  /\ \A o \in Objects(p) : Open(conn[p][o]) => table[p] = o
  /\ Len(awaiting[p]) <= 1
  /\ awaiting[p] # << >> => awaiting[p][1] \in Objects(p) /\ Waits(conn[p][awaiting[p][1]])
  /\ proc[p].at = "dial" =>
       /\ awaiting[p] = << >> /\ proc[p].stack = << >>
       /\ proc[p].obj \in Objects(p) /\ Waits(conn[p][proc[p].obj])
       /\ \A o \in Objects(p) : ~ Open(conn[p][o])

IInv ==
  /\ TypeOK
  /\ \A m \in net : Truthful(m)
  /\ \A p \in Peers : PeerOK(p) /\ \A o \in Objects(p) : ObjectOK(p, o)

-----------------------------------------------------------------------------
(* What stays true of an end.                                              *)

LEMMA TwoEnds ==
  ASSUME NEW p \in Peers
  PROVE  /\ Other(p) \in Peers /\ Other(p) # p /\ Other(Other(p)) = p
         /\ \A q \in Peers : q = p \/ q = Other(p)
<1>1. PICK a \in Peers : \E b \in Peers \ {a} : Peers = {a, b}
  BY ConnectionAssumption
<1>2. \A x \in Peers : \E y \in Peers : y # x
  BY <1>1
<1>3. \A x \in Peers : Other(x) \in Peers /\ Other(x) # x
  BY <1>2 DEF Other
<1> QED BY <1>1, <1>3

\* A connection keeps its id, and what has begun or has ended stays so.
Ages(c, d) ==
  /\ d.id = c.id
  /\ c.state # "NEW" => d.state # "NEW"
  /\ Dead(c) => Dead(d)

\* What a step of one side does to the rest.
Frame(p) ==
  /\ conn'[Other(p)] = conn[Other(p)] /\ table'[Other(p)] = table[Other(p)]
  /\ awaiting'[Other(p)] = awaiting[Other(p)] /\ proc'[Other(p)] = proc[Other(p)]
  /\ Len(conn[p]) \in Nat /\ Len(conn'[p]) \in Nat /\ Len(conn[p]) <= Len(conn'[p])
  /\ \A o \in Objects(p) : Ages(conn[p][o], conn'[p][o])
  /\ proc[p].at = "dial" =>
       \/ proc'[p] = proc[p]
       \/ proc[p].obj \in Objects(p) => conn'[p][proc[p].obj].state # "NEW"

LEMMA KnownStays ==
  ASSUME NEW p \in Peers, Frame(p), NEW q \in Peers, NEW id, Known(q, id)
  PROVE  Known(q, id)'
<1>1. PICK x \in Objects(q) : conn[q][x].id = id /\ (conn[q][x].state # "NEW" \/ Dials(q, x))
  BY DEF Known
<1>2. CASE q = p
  <2>1. x \in Objects(p)'
    BY <1>2 DEF Frame, Objects
  <2>2. Ages(conn[p][x], conn'[p][x])
    BY <1>2 DEF Frame
  <2> QED BY <1>1, <1>2, <2>1, <2>2 DEF Known, Dials, Frame, Ages
<1>3. CASE q # p
  <2>1. q = Other(p)
    BY <1>3, TwoEnds
  <2> QED BY <1>1, <2>1 DEF Known, Dials, Frame, Objects
<1> QED BY <1>2, <1>3

\* A dead connection stays.
LEMMA DeadStays ==
  ASSUME NEW p \in Peers, Frame(p), NEW q \in Peers, NEW x \in Objects(q), Dead(conn[q][x])
  PROVE  x \in Objects(q)' /\ conn'[q][x].id = conn[q][x].id /\ Dead(conn'[q][x])
<1>1. CASE q = p
  BY <1>1 DEF Frame, Objects, Ages
<1>2. CASE q # p
  <2>1. q = Other(p)
    BY <1>2, TwoEnds
  <2> QED BY <2>1 DEF Frame, Objects
<1> QED BY <1>1, <1>2

LEMMA GoneStays ==
  ASSUME NEW p \in Peers, Frame(p), NEW id, Gone(id)
  PROVE  Gone(id)'
<1>0. PICK q \in Peers : \E x \in Objects(q) : conn[q][x].id = id /\ Dead(conn[q][x])
  BY DEF Gone
<1>1. PICK x \in Objects(q) : conn[q][x].id = id /\ Dead(conn[q][x])
  BY <1>0
<1>2. x \in Objects(q)' /\ conn'[q][x].id = id /\ Dead(conn'[q][x])
  BY <1>1, DeadStays
<1> QED BY <1>2 DEF Gone

LEMMA TruthStays ==
  ASSUME NEW p \in Peers, Frame(p), NEW m, Truthful(m)
  PROVE  Truthful(m)'
<1>1. m.to \in Peers /\ Other(m.to) \in Peers
  BY TwoEnds DEF Truthful
<1> QED BY <1>1, KnownStays, GoneStays DEF Truthful

\* The side that does not move.
LEMMA OtherSideStays ==
  ASSUME IInv, NEW p \in Peers, Frame(p)
  PROVE  PeerOK(Other(p))' /\ \A o \in Objects(Other(p))' : ObjectOK(Other(p), o)'
<1> DEFINE q == Other(p)
<1>0. q \in Peers /\ q # p /\ Other(q) = p
  BY TwoEnds
<1>1. PeerOK(q) /\ \A o \in Objects(q) : ObjectOK(q, o)
  BY <1>0 DEF IInv
<1>2. /\ conn'[q] = conn[q] /\ table'[q] = table[q] /\ awaiting'[q] = awaiting[q]
      /\ proc'[q] = proc[q]
  BY DEF Frame
<1> HIDE DEF q
<1>3. PeerOK(q)'
  BY <1>1, <1>2 DEF PeerOK, Objects
<1>4. ASSUME NEW o \in Objects(q)' PROVE ObjectOK(q, o)'
  <2>1. o \in Objects(q) /\ ObjectOK(q, o)
    BY <1>1, <1>2, <1>4 DEF Objects
  <2>2. ASSUME conn[q][o].state = "CONNECTED" \/ conn[q][o].thread = "run"
        PROVE  Heard(q, o)'
    <3>1. PICK id : id = conn[q][o].id
      OBVIOUS
    <3>2. Known(p, id)
      BY <1>0, <2>1, <2>2, <3>1 DEF ObjectOK, Heard, Known
    <3>3. Known(p, id)'
      BY <3>2, KnownStays
    <3> QED BY <1>0, <1>2, <3>1, <3>3 DEF Heard, Known
  <2>3. ASSUME conn[q][o].why = "disconnected"
        PROVE  \E r \in Peers : \E x \in Objects(r)' :
                 <<r, x>> # <<q, o>> /\ conn'[r][x].id = conn[q][o].id /\ Dead(conn'[r][x])
    <3>0. PICK r \in Peers : \E x \in Objects(r) :
            <<r, x>> # <<q, o>> /\ conn[r][x].id = conn[q][o].id /\ Dead(conn[r][x])
      BY <2>1, <2>3 DEF ObjectOK
    <3>1. PICK x \in Objects(r) :
            <<r, x>> # <<q, o>> /\ conn[r][x].id = conn[q][o].id /\ Dead(conn[r][x])
      BY <3>0
    <3>2. x \in Objects(r)' /\ conn'[r][x].id = conn[r][x].id /\ Dead(conn'[r][x])
      BY <3>1, DeadStays
    <3> QED BY <3>1, <3>2
  <2> QED BY <1>0, <1>2, <2>1, <2>2, <2>3 DEF ObjectOK
<1> QED BY <1>3, <1>4 DEF q

LEMMA StepKeepsIInv ==
  ASSUME IInv, NEW p \in Peers, TypeOK', Frame(p), PeerOK(p)',
         \A o \in Objects(p)' : ObjectOK(p, o)',
         \A m \in net' \ net : Truthful(m)'
  PROVE  IInv'
<1>1. \A q \in Peers : PeerOK(q)' /\ \A o \in Objects(q)' : ObjectOK(q, o)'
  BY TwoEnds, OtherSideStays
<1>2. \A m \in net : Truthful(m)'
  BY TruthStays DEF IInv
<1> QED BY <1>1, <1>2 DEF IInv

-----------------------------------------------------------------------------
(* A step that changes one connection, or none.                            *)

\* What is known of the side that moves.
LEMMA Here ==
  ASSUME IInv, NEW p \in Peers
  PROVE  /\ conn \in [Peers -> Seq(Object)] /\ awaiting \in [Peers -> Seq(Nat)]
         /\ DOMAIN conn = Peers /\ DOMAIN awaiting = Peers /\ DOMAIN table = Peers
         /\ DOMAIN proc = Peers /\ DOMAIN accepting = Peers
         /\ conn[p] \in Seq(Object) /\ Len(conn[p]) \in Nat /\ awaiting[p] \in Seq(Nat)
         /\ Len(awaiting[p]) \in Nat /\ Objects(p) \subseteq Nat
         /\ PeerOK(p) /\ table[p] \in Nat /\ (table[p] # 0 => table[p] \in Objects(p))
         /\ \A o \in Objects(p) : conn[p][o] \in Object /\ ObjectOK(p, o)
<1>1. conn[p] \in Seq(Object) /\ awaiting[p] \in Seq(Nat) /\ PeerOK(p)
  BY DEF IInv, TypeOK
<1>2. Len(conn[p]) \in Nat /\ Len(awaiting[p]) \in Nat
  BY <1>1
<1>3. table[p] \in Nat /\ (table[p] # 0 => table[p] \in Objects(p))
  BY <1>1, <1>2 DEF PeerOK, Objects
<1> QED BY <1>1, <1>2, <1>3 DEF IInv, TypeOK, Objects

\* One connection changes.
LEMMA OneChanges ==
  ASSUME conn \in [Peers -> Seq(Object)], NEW p \in Peers, NEW o \in Objects(p),
         NEW d \in Object, conn' = [conn EXCEPT ![p][o] = d]
  PROVE  /\ conn' \in [Peers -> Seq(Object)] /\ Len(conn'[p]) = Len(conn[p])
         /\ Objects(p)' = Objects(p) /\ conn'[p][o] = d
         /\ \A x \in Objects(p) \ {o} : conn'[p][x] = conn[p][x]
         /\ \A q \in Peers \ {p} : conn'[q] = conn[q]
<1>1. conn[p] \in Seq(Object) /\ o \in 1 .. Len(conn[p])
  BY DEF Objects
<1> DEFINE s == [conn[p] EXCEPT ![o] = d]
<1>2. s \in Seq(Object) /\ Len(s) = Len(conn[p]) /\ s[o] = d
      /\ \A x \in (1 .. Len(conn[p])) \ {o} : s[x] = conn[p][x]
  BY <1>1
<1>3. conn' = [conn EXCEPT ![p] = s]
  OBVIOUS
<1> HIDE DEF s
<1>4. conn'[p] = s /\ \A q \in Peers \ {p} : conn'[q] = conn[q]
  BY <1>3
<1>5. conn' \in [Peers -> Seq(Object)]
  BY <1>2, <1>3
<1> QED BY <1>2, <1>4, <1>5 DEF Objects

\* How a handler or a thread changes a connection that was there: nothing is opened, a
\* waiting one is left alone, and what the connection says from now on is so.
Handled(p, o, d) ==
  LET c == conn[p][o]
  IN /\ d \in Object /\ d.id = c.id
     /\ Dead(c) => Dead(d)
     /\ Open(d) => Open(c)
     /\ c.state = "NEW" <=> d.state = "NEW"
     /\ c.state = "NEW" =>
          d.held = c.held /\ d.dialer = c.dialer /\ d.close = c.close /\ d.thread # "run"
     /\ d.state = "CONNECTED" => c.state = "CONNECTED" \/ Known(Other(p), c.id)
     /\ d.thread = "run" => c.thread = "run" \/ c.state = "CONNECTED"
     /\ d.why = "disconnected" => c.why = "disconnected" \/ (Gone(c.id) /\ ~ Dead(c))

\* What a handler or a thread may do besides.
Besides(p) ==
  /\ awaiting' = awaiting /\ DOMAIN accepting' = Peers
  /\ DOMAIN table' = Peers /\ table'[Other(p)] = table[Other(p)]
  /\ table'[p] = table[p] \/ (table'[p] = 0 /\ ~ Live(p))
  /\ \/ proc' = proc
     \/ /\ proc[p].at # "dial" /\ proc'[p].at # "dial"
        /\ DOMAIN proc' = Peers /\ proc'[Other(p)] = proc[Other(p)]

LEMMA HandlerKeepsIInv ==
  ASSUME IInv, NEW p \in Peers, NEW o \in Objects(p), NEW d, Handled(p, o, d),
         conn' = [conn EXCEPT ![p][o] = d], Besides(p),
         \A m \in net' \ net :
           Truthful(m) \/ (m.to \in Peers /\ m.kind = "DISCONNECT" /\ m.id = d.id /\ Dead(d))
  PROVE  IInv'
<1> DEFINE c == conn[p][o]
<1>0. /\ conn \in [Peers -> Seq(Object)] /\ awaiting \in [Peers -> Seq(Nat)]
      /\ DOMAIN table = Peers /\ DOMAIN proc = Peers
      /\ Len(conn[p]) \in Nat /\ Objects(p) \subseteq Nat
      /\ PeerOK(p) /\ \A x \in Objects(p) : ObjectOK(p, x)
      /\ Other(p) \in Peers \ {p} /\ d \in Object
  BY Here, TwoEnds DEF Handled
<1>1. /\ conn' \in [Peers -> Seq(Object)] /\ Len(conn'[p]) = Len(conn[p])
      /\ Objects(p)' = Objects(p) /\ conn'[p][o] = d
      /\ \A x \in Objects(p) \ {o} : conn'[p][x] = conn[p][x]
      /\ \A q \in Peers \ {p} : conn'[q] = conn[q]
  BY <1>0, OneChanges
<1>2. TypeOK'
  BY <1>0, <1>1 DEF TypeOK, Besides
<1>3. /\ table'[Other(p)] = table[Other(p)]
      /\ table'[p] = table[p] \/ (table'[p] = 0 /\ ~ Live(p))
      /\ awaiting' = awaiting /\ proc'[Other(p)] = proc[Other(p)]
      /\ proc'[p] = proc[p] \/ (proc[p].at # "dial" /\ proc'[p].at # "dial")
  BY <1>0 DEF Besides
<1>4. \A x \in Objects(p) : Ages(conn[p][x], conn'[p][x])
  BY <1>1 DEF Handled, Ages
<1>5. Frame(p)
  BY <1>0, <1>1, <1>3, <1>4 DEF Frame
<1>6. \A x \in Objects(p) : Open(conn'[p][x]) => Open(conn[p][x])
  BY <1>1 DEF Handled
<1>7. \A x \in Objects(p) :
        /\ conn'[p][x].state = "NEW" <=> conn[p][x].state = "NEW"
        /\ Waits(conn[p][x]) => Waits(conn'[p][x])
  BY <1>1 DEF Handled, Waits
<1>8. PeerOK(p)'
  <2>1. table'[p] \in 0 .. Len(conn'[p])
    BY <1>0, <1>1, <1>3 DEF PeerOK
  <2>2. table'[p] # 0 => conn'[p][table'[p]].state # "NEW"
    <3>1. table[p] # 0 => table[p] \in Objects(p)
      BY Here
    <3> QED BY <1>0, <1>3, <1>7, <3>1 DEF PeerOK
  <2>3. ASSUME NEW x \in Objects(p), Open(conn'[p][x]) PROVE table'[p] = x
    <3>1. Open(conn[p][x]) /\ table[p] = x
      BY <1>0, <1>6, <2>3 DEF PeerOK
    <3>2. x # 0
      BY <1>0 DEF Objects
    <3>3. Live(p)
      BY <3>1, <3>2 DEF Live, Open, Alive
    <3> QED BY <1>3, <3>1, <3>3
  <2>4. Len(awaiting'[p]) <= 1
    BY <1>0, <1>3 DEF PeerOK
  <2>5. awaiting'[p] # << >> => awaiting'[p][1] \in Objects(p) /\ Waits(conn'[p][awaiting'[p][1]])
    BY <1>0, <1>3, <1>7 DEF PeerOK
  <2>6. ASSUME proc'[p].at = "dial"
        PROVE  /\ awaiting'[p] = << >> /\ proc'[p].stack = << >>
               /\ proc'[p].obj \in Objects(p) /\ Waits(conn'[p][proc'[p].obj])
               /\ \A x \in Objects(p) : ~ Open(conn'[p][x])
    <3>1. proc'[p] = proc[p]
      BY <1>3, <2>6
    <3> QED BY <1>0, <1>3, <1>6, <1>7, <2>6, <3>1 DEF PeerOK
  <2> QED BY <1>1, <2>1, <2>2, <2>3, <2>4, <2>5, <2>6 DEF PeerOK
<1>9. ASSUME NEW x \in Objects(p) PROVE ObjectOK(p, x)'
  <2>1. conn'[p][x].id = conn[p][x].id /\ ObjectOK(p, x)
    BY <1>0, <1>4 DEF Ages
  <2>2. ASSUME conn'[p][x].state = "CONNECTED" \/ conn'[p][x].thread = "run"
        PROVE  Heard(p, x)'
    <3>1. PICK id : id = conn[p][x].id
      OBVIOUS
    <3>2. Known(Other(p), id)
      <4>1. CASE conn[p][x].state = "CONNECTED" \/ conn[p][x].thread = "run"
        BY <2>1, <3>1, <4>1 DEF ObjectOK, Heard, Known
      <4>2. CASE ~ (conn[p][x].state = "CONNECTED" \/ conn[p][x].thread = "run")
        <5>1. x = o
          BY <1>1, <2>2, <4>2
        <5> QED BY <1>1, <2>2, <3>1, <4>2, <5>1 DEF Handled
      <4> QED BY <4>1, <4>2
    <3>3. Known(Other(p), id)'
      BY <1>0, <1>5, <3>2, KnownStays
    <3>4. id = conn'[p][x].id
      BY <2>1, <3>1
    <3> QED BY <3>3, <3>4 DEF Heard, Known
  <2>3. conn'[p][x].state = "NEW" => conn'[p][x].thread # "run" /\ conn'[p][x].close = "no"
    BY <1>1, <2>1 DEF ObjectOK, Handled
  <2>4. ASSUME conn'[p][x].why = "disconnected"
        PROVE  \E r \in Peers : \E y \in Objects(r)' :
                 <<r, y>> # <<p, x>> /\ conn'[r][y].id = conn[p][x].id /\ Dead(conn'[r][y])
    <3>1. \E r \in Peers : \E y \in Objects(r) :
            <<r, y>> # <<p, x>> /\ conn[r][y].id = conn[p][x].id /\ Dead(conn[r][y])
      <4>1. CASE conn[p][x].why = "disconnected"
        BY <2>1, <4>1 DEF ObjectOK
      <4>2. CASE conn[p][x].why # "disconnected"
        <5>1. Gone(conn[p][x].id) /\ ~ Dead(conn[p][x])
          BY <1>1, <2>4, <4>2 DEF Handled
        <5> QED BY <5>1 DEF Gone
      <4> QED BY <4>1, <4>2
    <3>2. PICK r \in Peers : \E y \in Objects(r) :
            <<r, y>> # <<p, x>> /\ conn[r][y].id = conn[p][x].id /\ Dead(conn[r][y])
      BY <3>1
    <3>3. PICK y \in Objects(r) :
            <<r, y>> # <<p, x>> /\ conn[r][y].id = conn[p][x].id /\ Dead(conn[r][y])
      BY <3>2
    <3>4. y \in Objects(r)' /\ conn'[r][y].id = conn[r][y].id /\ Dead(conn'[r][y])
      BY <1>5, <3>3, DeadStays
    <3> QED BY <3>3, <3>4
  <2> QED BY <2>1, <2>2, <2>3, <2>4 DEF ObjectOK
<1>10. ASSUME NEW m \in net' \ net PROVE Truthful(m)'
  <2>1. CASE Truthful(m)
    BY <1>5, <2>1, TruthStays
  <2>2. CASE m.to \in Peers /\ m.kind = "DISCONNECT" /\ m.id = d.id /\ Dead(d)
    <3>1. Gone(m.id)'
      BY <1>1, <2>2 DEF Gone
    <3> QED BY <2>2, <3>1 DEF Truthful, Tellers
  <2> QED BY <2>1, <2>2
<1> QED BY <1>1, <1>2, <1>5, <1>8, <1>9, <1>10, StepKeepsIInv

\* A step that changes no connection.
LEMMA SameConnections ==
  ASSUME IInv, NEW p \in Peers, conn' = conn, Besides(p),
         \A m \in net' \ net : Truthful(m)
  PROVE  IInv'
<1>0. /\ TypeOK /\ PeerOK(p) /\ \A x \in Objects(p) : ObjectOK(p, x)
      /\ Len(conn[p]) \in Nat /\ Objects(p) \subseteq Nat
      /\ DOMAIN table = Peers /\ DOMAIN proc = Peers /\ Other(p) \in Peers \ {p}
  BY Here, TwoEnds DEF IInv
<1>1. TypeOK'
  BY <1>0 DEF TypeOK, Besides
<1>2. /\ table'[Other(p)] = table[Other(p)]
      /\ table'[p] = table[p] \/ (table'[p] = 0 /\ ~ Live(p))
      /\ awaiting' = awaiting /\ proc'[Other(p)] = proc[Other(p)]
      /\ proc'[p] = proc[p] \/ (proc[p].at # "dial" /\ proc'[p].at # "dial")
  BY <1>0 DEF Besides
<1>3. Frame(p)
  BY <1>0, <1>2 DEF Frame, Ages
<1>4. PeerOK(p)'
  <2>1. table'[p] \in 0 .. Len(conn[p]) /\ (table'[p] # 0 => conn[p][table'[p]].state # "NEW")
    BY <1>0, <1>2 DEF PeerOK
  <2>2. ASSUME NEW x \in Objects(p), Open(conn[p][x]) PROVE table'[p] = x
    <3>1. table[p] = x /\ x # 0
      BY <1>0, <2>2 DEF PeerOK, Objects
    <3>2. Live(p)
      BY <2>2, <3>1 DEF Live, Open, Alive
    <3> QED BY <1>2, <3>1, <3>2
  <2>3. proc'[p].at = "dial" => proc'[p] = proc[p]
    BY <1>2
  <2>4. proc'[p].at = "dial" =>
          /\ awaiting[p] = << >> /\ proc'[p].stack = << >>
          /\ proc'[p].obj \in Objects(p) /\ Waits(conn[p][proc'[p].obj])
          /\ \A o \in Objects(p) : ~ Open(conn[p][o])
    BY <1>0, <2>3 DEF PeerOK
  <2>5. /\ Len(awaiting[p]) <= 1
        /\ awaiting[p] # << >> => awaiting[p][1] \in Objects(p) /\ Waits(conn[p][awaiting[p][1]])
    BY <1>0 DEF PeerOK
  <2> QED BY <1>2, <2>1, <2>2, <2>4, <2>5 DEF PeerOK, Objects
<1>5. ASSUME NEW x \in Objects(p)' PROVE ObjectOK(p, x)'
  <2>1. x \in Objects(p) /\ ObjectOK(p, x)
    BY <1>0, <1>5 DEF Objects
  <2>2. Heard(p, x) => Heard(p, x)'
    <3>1. PICK id : id = conn[p][x].id
      OBVIOUS
    <3>2. Known(Other(p), id) => Known(Other(p), id)'
      BY <1>0, <1>3, KnownStays
    <3> QED BY <3>1, <3>2 DEF Heard, Known
  <2>3. conn[p][x].why = "disconnected" =>
          \E q \in Peers : \E y \in Objects(q)' :
            <<q, y>> # <<p, x>> /\ conn[q][y].id = conn[p][x].id /\ Dead(conn[q][y])
    BY <2>1 DEF ObjectOK, Objects
  <2> QED BY <2>1, <2>2, <2>3 DEF ObjectOK
<1> QED BY <1>1, <1>3, <1>4, <1>5, TruthStays, StepKeepsIInv

-----------------------------------------------------------------------------
(* What is sent, and what a packet that arrives says.                      *)

LEMMA RoomAdds ==
  ASSUME NEW flying, NEW packets
  PROVE  Room(flying, packets) \subseteq flying \cup packets
BY DEF Room

LEMMA SendAdds ==
  ASSUME NEW packets, Send(packets)
  PROVE  net' \ net \subseteq packets
BY RoomAdds DEF Send

LEMMA AnswerAdds ==
  ASSUME NEW m, NEW packets, Answer(m, packets)
  PROVE  net' \ net \subseteq packets
<1>1. PICK rest \in {net} \cup (IF Leaves THEN {net \ {m}} ELSE {}) : net' = Room(rest, packets)
  BY DEF Answer
<1>2. rest \subseteq net
  BY <1>1
<1> QED BY <1>1, <1>2, RoomAdds

\* The connection that packets are dispatched to.
LEMMA LiveObject ==
  ASSUME IInv, NEW p \in Peers, Live(p)
  PROVE  /\ table[p] \in Objects(p) /\ conn[p][table[p]] \in Object
         /\ conn[p][table[p]].state \in {"CONNECTING", "CONNECTED"} /\ conn[p][table[p]].held
         /\ ~ Dead(conn[p][table[p]])
<1>1. table[p] \in Objects(p) /\ PeerOK(p) /\ table[p] # 0
  BY Here DEF Live
<1>2. conn[p][table[p]].state # "NEW"
  BY <1>1 DEF PeerOK
<1> QED BY <1>1, <1>2, Here DEF Live, Dead, Alive

\* Without one, nothing is open.
LEMMA NothingOpen ==
  ASSUME IInv, NEW p \in Peers, ~ Live(p), NEW o \in Objects(p)
  PROVE  ~ Open(conn[p][o])
<1>1. PeerOK(p) /\ o # 0
  BY Here DEF Objects
<1> SUFFICES ASSUME Open(conn[p][o]) PROVE FALSE
  OBVIOUS
<1>2. table[p] = o
  BY <1>1 DEF PeerOK
<1> QED BY <1>1, <1>2 DEF Live, Open, Alive

\* An id the other side talks about is one of its connections.
LEMMA KnownIsId ==
  ASSUME IInv, NEW q \in Peers, NEW id, Known(q, id)
  PROVE  id \in Ids
<1>1. PICK x \in Objects(q) : conn[q][x].id = id
  BY DEF Known
<1> QED BY <1>1, Here DEF Object

-----------------------------------------------------------------------------
(* The application and the thread of a connection.                         *)

LEMMA ObjectStepKeepsIInv ==
  ASSUME OneAtATime, IInv, NEW p \in Peers, NEW o \in Objects(p), ObjectStep(p, o)
  PROVE  IInv'
<1> DEFINE c == conn[p][o]
<1>0. /\ conn[p][o] \in Object /\ ObjectOK(p, o) /\ Other(p) \in Peers
      /\ Other(Other(p)) = p /\ DOMAIN accepting = Peers /\ DOMAIN table = Peers
  BY Here, TwoEnds
<1>1. CASE Close(p, o)
  <2> DEFINE d == [conn[p][o] EXCEPT !.stop = TRUE, !.close = "app"]
  <2>1. Handled(p, o, d)
    BY <1>0, <1>1 DEF Close, OneAtATime, Handled, Object, Dead, Open
  <2>2. conn' = [conn EXCEPT ![p][o] = d] /\ Besides(p) /\ net' = net
    BY <1>0, <1>1 DEF Close, BeginClose, Change, Besides
  <2> HIDE DEF d
  <2> QED BY <2>1, <2>2, HandlerKeepsIInv
<1>2. CASE Release(p, o)
  <2> DEFINE d == [conn[p][o] EXCEPT !.held = FALSE, !.stop = TRUE, !.close = "app"]
  <2>1. Handled(p, o, d)
    BY <1>0, <1>2 DEF Release, OneAtATime, Handled, Object, Dead, Open
  <2>2. conn' = [conn EXCEPT ![p][o] = d] /\ Besides(p) /\ net' = net
    BY <1>0, <1>2 DEF Release, Change, Besides
  <2> HIDE DEF d
  <2> QED BY <2>1, <2>2, HandlerKeepsIInv
<1>3. CASE EndClose(p, o)
  <2> DEFINE d == [conn[p][o] EXCEPT !.state = "CLOSED", !.close = "done"]
  <2>1. Handled(p, o, d) /\ Dead(d) /\ d.id = conn[p][o].id
    BY <1>0, <1>3 DEF EndClose, ObjectOK, Handled, Object, Dead, Open, Alive, States
  <2>2. conn' = [conn EXCEPT ![p][o] = d] /\ Besides(p)
    BY <1>0, <1>3 DEF EndClose, Change, Besides
  <2>3. net' \ net \subseteq {Packet(Other(p), "DISCONNECT", conn[p][o].id)}
    BY <1>3, SendAdds DEF EndClose
  <2>4. \A m \in net' \ net : m.to \in Peers /\ m.kind = "DISCONNECT" /\ m.id = d.id /\ Dead(d)
    BY <1>0, <2>1, <2>3 DEF Packet
  <2> HIDE DEF d
  <2> QED BY <2>1, <2>2, <2>4, HandlerKeepsIInv
<1>4. CASE ThreadStops(p, o)
  <2> DEFINE d == [conn[p][o] EXCEPT !.thread = "done"]
  <2>1. Handled(p, o, d)
    BY <1>0, <1>4 DEF ThreadStops, ObjectOK, Handled, Object, Dead, Open
  <2>2. conn' = [conn EXCEPT ![p][o] = d] /\ Besides(p) /\ net' = net
    BY <1>0, <1>4 DEF ThreadStops, Change, Besides
  <2> HIDE DEF d
  <2> QED BY <2>1, <2>2, HandlerKeepsIInv
<1>5. CASE DialAgain(p, o)
  <2> DEFINE d == [conn[p][o] EXCEPT !.thread = "dial"]
  <2>1. Handled(p, o, d)
    BY <1>0, <1>5 DEF DialAgain, Thread, Handled, Object, Dead, Open
  <2>2. conn' = [conn EXCEPT ![p][o] = d] /\ Besides(p)
    BY <1>0, <1>5 DEF DialAgain, Thread, Change, Besides
  <2>3. net' \ net \subseteq {Packet(Other(p), "CONNECT", conn[p][o].id)}
    BY <1>5, SendAdds DEF DialAgain
  <2>4. Known(p, conn[p][o].id)
    BY <1>5 DEF DialAgain, Known
  <2>5. \A m \in net' \ net : Truthful(m)
    BY <1>0, <2>3, <2>4 DEF Packet, Truthful, Tellers, Enders
  <2> HIDE DEF d
  <2> QED BY <2>1, <2>2, <2>5, HandlerKeepsIInv
<1>6. CASE LeaveDial(p, o)
  <2> DEFINE d == [conn[p][o] EXCEPT !.thread =
                     IF conn[p][o].state = "CONNECTED" THEN "run" ELSE "done"]
  <2>1. Handled(p, o, d)
    BY <1>0, <1>6 DEF LeaveDial, Thread, Handled, Object, Dead, Open
  <2>2. conn' = [conn EXCEPT ![p][o] = d] /\ Besides(p) /\ net' = net
    BY <1>0, <1>6 DEF LeaveDial, Thread, Change, Besides
  <2> HIDE DEF d
  <2> QED BY <2>1, <2>2, HandlerKeepsIInv
<1>7. CASE Heartbeat(p, o)
  <2> DEFINE d == [conn[p][o] EXCEPT !.thread = "run"]
  <2>1. Handled(p, o, d)
    BY <1>0, <1>7 DEF Heartbeat, Thread, ObjectOK, Handled, Object, Dead, Open
  <2>2. conn' = [conn EXCEPT ![p][o] = d] /\ Besides(p)
    BY <1>0, <1>7 DEF Heartbeat, Thread, Change, Besides
  <2>3. net' \ net \subseteq {Packet(Other(p), "HEARTBEAT", conn[p][o].id)}
    BY <1>7, SendAdds DEF Heartbeat
  <2>4. Known(Other(p), conn[p][o].id)
    BY <1>0, <1>7 DEF Heartbeat, Thread, ObjectOK, Heard, Known
  <2>5. \A m \in net' \ net : Truthful(m)
    BY <1>0, <2>3, <2>4 DEF Packet, Truthful, Tellers, Enders
  <2> HIDE DEF d
  <2> QED BY <2>1, <2>2, <2>5, HandlerKeepsIInv
<1>8. ASSUME NEW why \in {"error", "silence"}, ThreadPanics(p, o, why) PROVE IInv'
  <2> DEFINE d == [Panicked(conn[p][o], why) EXCEPT !.thread = "done"]
  <2>1. Handled(p, o, d)
    BY <1>0, <1>8 DEF ThreadPanics, Panicked, ObjectOK, Handled, Object, Dead, Open, Alive, States
  <2>2. conn' = [conn EXCEPT ![p][o] = d] /\ Besides(p) /\ net' = net
    BY <1>0, <1>8 DEF ThreadPanics, Change, Besides
  <2> HIDE DEF d
  <2> QED BY <2>1, <2>2, HandlerKeepsIInv
<1> QED BY <1>1, <1>2, <1>3, <1>4, <1>5, <1>6, <1>7, <1>8 DEF ObjectStep, ReceiveError, Silence

-----------------------------------------------------------------------------
(* The packets that arrive.                                                *)

\* A handler that changes the live connection.
LEMMA PacketKeepsIInv ==
  ASSUME IInv, NEW p \in Peers, NEW m \in net, NEW kind, Receives(p, m, kind)
  PROVE  /\ Truthful(m) /\ m.to = p /\ m.kind = kind /\ proc[p].at = "idle"
         /\ (proc' = proc \/ proc' = [proc EXCEPT ![p] = [at |-> "close", obj |-> table[p]]]
               \/ proc' = [proc EXCEPT ![p] = [at |-> "dead"]]) => Besides(p)
<1>1. /\ DOMAIN table = Peers /\ DOMAIN proc = Peers /\ DOMAIN accepting = Peers
      /\ Other(p) \in Peers \ {p} /\ Truthful(m)
  BY Here, TwoEnds DEF IInv
<1>2. /\ DOMAIN table' = Peers /\ table'[Other(p)] = table[Other(p)]
      /\ table'[p] = table[p] \/ (table'[p] = 0 /\ ~ Live(p))
  BY <1>1 DEF Receives, Looked
<1>3. m.to = p /\ m.kind = kind /\ proc[p].at = "idle" /\ awaiting' = awaiting /\ accepting' = accepting
  BY DEF Receives, Arrives
<1>4. CASE proc' = proc
  BY <1>1, <1>2, <1>3, <1>4 DEF Besides
<1>5. CASE proc' = [proc EXCEPT ![p] = [at |-> "close", obj |-> table[p]]]
  <2>1. proc'[p].at = "close" /\ proc'[Other(p)] = proc[Other(p)] /\ DOMAIN proc' = Peers
    BY <1>1, <1>5
  <2> QED BY <1>1, <1>2, <1>3, <2>1 DEF Besides
<1>6. CASE proc' = [proc EXCEPT ![p] = [at |-> "dead"]]
  <2>1. proc'[p].at = "dead" /\ proc'[Other(p)] = proc[Other(p)] /\ DOMAIN proc' = Peers
    BY <1>1, <1>6
  <2> QED BY <1>1, <1>2, <1>3, <2>1 DEF Besides
<1> QED BY <1>1, <1>3, <1>4, <1>5, <1>6

\* What is answered to a packet is true, with nothing in the answer to take on trust.
LEMMA PlainAnswer ==
  ASSUME NEW p \in Peers, NEW m, NEW kind \in {"REJECTED", "ERROR"}, NEW id,
         Answer(m, {Packet(Other(p), kind, id)})
  PROVE  \A x \in net' \ net : Truthful(x)
<1>1. net' \ net \subseteq {Packet(Other(p), kind, id)} /\ Other(p) \in Peers
  BY AnswerAdds, TwoEnds
<1> QED BY <1>1 DEF Packet, Truthful, Tellers, Enders

LEMMA NoAnswer ==
  ASSUME NEW m, Answer(m, {})
  PROVE  net' \ net = {}
BY AnswerAdds

LEMMA GoneAnswer ==
  ASSUME NEW p \in Peers, NEW m, NEW id, Gone(id),
         Answer(m, {Packet(Other(p), "ALREADY_DISCONNECTED", id)})
  PROVE  \A x \in net' \ net : Truthful(x)
<1>1. net' \ net \subseteq {Packet(Other(p), "ALREADY_DISCONNECTED", id)} /\ Other(p) \in Peers
  BY AnswerAdds, TwoEnds
<1> QED BY <1>1 DEF Packet, Truthful, Tellers, Enders

LEMMA KnownAnswer ==
  ASSUME NEW p \in Peers, NEW m, NEW kind \in {"ACCEPTED", "ALREADY_CONNECTED"}, NEW id, Known(p, id),
         Answer(m, {Packet(Other(p), kind, id)})
  PROVE  \A x \in net' \ net : Truthful(x)
<1>1. net' \ net \subseteq {Packet(Other(p), kind, id)} /\ Other(p) \in Peers /\ Other(Other(p)) = p
  BY AnswerAdds, TwoEnds
<1> QED BY <1>1 DEF Packet, Truthful, Tellers, Enders

\* How a handler changes the connection that packets are dispatched to.
LEMMA LiveHandled ==
  ASSUME IInv, NEW p \in Peers, Live(p), NEW d \in Object,
         d.id = conn[p][table[p]].id, d.thread = conn[p][table[p]].thread, d.state # "NEW",
         d.state = "CONNECTED" =>
           conn[p][table[p]].state = "CONNECTED" \/ Known(Other(p), conn[p][table[p]].id),
         d.why = "disconnected" =>
           conn[p][table[p]].why = "disconnected" \/ Gone(conn[p][table[p]].id)
  PROVE  table[p] \in Objects(p) /\ Handled(p, table[p], d)
<1> DEFINE c == conn[p][table[p]]
<1>1. table[p] \in Objects(p) /\ c.state \in {"CONNECTING", "CONNECTED"} /\ c.held /\ ~ Dead(c)
  BY LiveObject
<1>2. Open(c) /\ c.state # "NEW"
  BY <1>1 DEF Open
<1> QED BY <1>1, <1>2 DEF Handled

LEMMA ProcessPacketKeepsIInv ==
  ASSUME IInv, NEW p \in Peers, NEW m \in net, ProcessPacket(p, m), ~ ConnectAccept(p, m)
  PROVE  IInv'
<1> DEFINE t == table[p]
<1>0. Other(p) \in Peers
  BY TwoEnds
<1>1. CASE ConnectAgain(p, m)
  <2>1. Receives(p, m, "CONNECT") /\ proc' = proc /\ Live(p)
    BY <1>1 DEF ConnectAgain
  <2>2. Besides(p)
    BY <2>1, PacketKeepsIInv
  <2>3. CASE LiveId(p, m.id)
    <3>1. conn' = conn /\ Answer(m, {Packet(Other(p), "ALREADY_CONNECTED", m.id)})
      BY <1>1, <2>3 DEF ConnectAgain
    <3>2. Known(p, m.id)
      BY <2>1, <2>3, LiveObject DEF LiveId, Known
    <3>3. \A x \in net' \ net : Truthful(x)
      BY <3>1, <3>2, KnownAnswer
    <3> QED BY <2>2, <3>1, <3>3, SameConnections
  <2>4. CASE ~ LiveId(p, m.id)
    <3> DEFINE d == Panicked(conn[p][t], "newer")
    <3>1. conn' = [conn EXCEPT ![p][t] = d] /\ Answer(m, {})
      BY <1>1, <2>4 DEF ConnectAgain, Change
    <3>2. t \in Objects(p) /\ Handled(p, t, d)
      <4>1. conn[p][t] \in Object /\ conn[p][t].state \in {"CONNECTING", "CONNECTED"}
        BY <2>1, LiveObject
      <4>2. /\ d \in Object /\ d.id = conn[p][t].id /\ d.thread = conn[p][t].thread
            /\ d.state = "ERROR" /\ d.why = "newer"
        BY <4>1 DEF Object, States, Panicked
      <4> HIDE DEF d
      <4> QED BY <2>1, <4>1, <4>2, LiveHandled
    <3>3. net' \ net = {}
      BY <3>1, NoAnswer
    <3> HIDE DEF d, t
    <3> QED BY <2>2, <3>1, <3>2, <3>3, HandlerKeepsIInv
  <2> QED BY <2>3, <2>4
<1>2. CASE ConnectReject(p, m)
  <2>1. Receives(p, m, "CONNECT") /\ proc' = proc /\ conn' = conn
        /\ Answer(m, {Packet(Other(p), "REJECTED", m.id)})
    BY <1>2 DEF ConnectReject
  <2>2. Besides(p)
    BY <2>1, PacketKeepsIInv
  <2>3. \A x \in net' \ net : Truthful(x)
    BY <2>1, PlainAnswer
  <2> QED BY <2>1, <2>2, <2>3, SameConnections
<1>3. ASSUME NEW kind \in {"ACCEPTED", "ALREADY_CONNECTED"}, Receives(p, m, kind), proc' = proc,
             LiveId(p, m.id), Change(p, t, Connected(conn[p][t])), Answer(m, {})
      PROVE  IInv'
  <2>1. Besides(p) /\ Truthful(m) /\ m.to = p /\ m.kind = kind
    BY <1>3, PacketKeepsIInv
  <2>2. Known(Other(p), m.id) /\ m.id = conn[p][t].id /\ Live(p)
    BY <1>3, <2>1 DEF Truthful, Tellers, LiveId
  <2> DEFINE d == Connected(conn[p][t])
  <2>3. t \in Objects(p) /\ Handled(p, t, d)
    <3>1. conn[p][t] \in Object /\ conn[p][t].state \in {"CONNECTING", "CONNECTED"}
      BY <2>2, LiveObject
    <3>2. /\ d \in Object /\ d.id = conn[p][t].id /\ d.thread = conn[p][t].thread
          /\ d.state = "CONNECTED" /\ d.why = conn[p][t].why
      BY <3>1 DEF Object, States, Connected
    <3> HIDE DEF d
    <3> QED BY <2>2, <3>1, <3>2, LiveHandled
  <2>4. conn' = [conn EXCEPT ![p][t] = d] /\ net' \ net = {}
    BY <1>3, NoAnswer DEF Change
  <2> HIDE DEF d, t
  <2> QED BY <2>1, <2>3, <2>4, HandlerKeepsIInv
<1>4. CASE ReceiveAccepted(p, m)
  <2>1. Receives(p, m, "ACCEPTED") /\ proc' = proc
    BY <1>4 DEF ReceiveAccepted
  <2>2. CASE LiveId(p, m.id)
    BY <1>3, <1>4, <2>1, <2>2 DEF ReceiveAccepted
  <2>3. CASE ~ LiveId(p, m.id)
    <3>1. conn' = conn /\ Answer(m, {Packet(Other(p), "ERROR", NoId)})
      BY <1>4, <2>3 DEF ReceiveAccepted
    <3>2. Besides(p) /\ \A x \in net' \ net : Truthful(x)
      BY <2>1, <3>1, PacketKeepsIInv, PlainAnswer
    <3> QED BY <3>1, <3>2, SameConnections
  <2> QED BY <2>2, <2>3
<1>5. CASE ReceiveRejected(p, m)
  <2>1. Receives(p, m, "REJECTED") /\ proc' = proc /\ Answer(m, {})
    BY <1>5 DEF ReceiveRejected
  <2>2. Besides(p) /\ net' \ net = {}
    BY <2>1, PacketKeepsIInv, NoAnswer
  <2>3. CASE LiveId(p, m.id)
    <3> DEFINE d == [conn[p][t] EXCEPT !.state = "REJECTED"]
    <3>1. conn' = [conn EXCEPT ![p][t] = d] /\ Live(p)
      BY <1>5, <2>3 DEF ReceiveRejected, Change, LiveId
    <3>2. t \in Objects(p) /\ Handled(p, t, d)
      <4>1. conn[p][t] \in Object /\ conn[p][t].state \in {"CONNECTING", "CONNECTED"}
        BY <3>1, LiveObject
      <4>2. /\ d \in Object /\ d.id = conn[p][t].id /\ d.thread = conn[p][t].thread
            /\ d.state = "REJECTED" /\ d.why = conn[p][t].why
        BY <4>1 DEF Object, States
      <4> HIDE DEF d
      <4> QED BY <3>1, <4>1, <4>2, LiveHandled
    <3> HIDE DEF d, t
    <3> QED BY <2>2, <3>1, <3>2, HandlerKeepsIInv
  <2>4. CASE ~ LiveId(p, m.id)
    BY <1>5, <2>2, <2>4, SameConnections DEF ReceiveRejected
  <2> QED BY <2>3, <2>4
<1>6. CASE ReceiveAlreadyConnected(p, m)
  <2>1. Receives(p, m, "ALREADY_CONNECTED") /\ proc' = proc /\ Answer(m, {})
    BY <1>6 DEF ReceiveAlreadyConnected
  <2>2. CASE LiveId(p, m.id)
    BY <1>3, <1>6, <2>1, <2>2 DEF ReceiveAlreadyConnected
  <2>3. CASE ~ LiveId(p, m.id)
    <3>1. conn' = conn /\ Besides(p) /\ net' \ net = {}
      BY <1>6, <2>1, <2>3, PacketKeepsIInv, NoAnswer DEF ReceiveAlreadyConnected
    <3> QED BY <3>1, SameConnections
  <2> QED BY <2>2, <2>3
<1>7. CASE ReceiveDisconnect(p, m)
  <2>1. Receives(p, m, "DISCONNECT")
    BY <1>7 DEF ReceiveDisconnect
  <2>2. CASE LiveId(p, m.id)
    <3>1. proc' = [proc EXCEPT ![p] = [at |-> "close", obj |-> table[p]]] /\ Answer(m, {}) /\ Live(p)
      BY <1>7, <2>2 DEF ReceiveDisconnect, LiveId
    <3>2. Besides(p) /\ net' \ net = {}
      BY <2>1, <3>1, PacketKeepsIInv, NoAnswer
    <3>3. CASE conn[p][t].close = "no"
      <4> DEFINE d == [conn[p][t] EXCEPT !.stop = TRUE, !.close = "peer"]
      <4>1. conn' = [conn EXCEPT ![p][t] = d]
        BY <1>7, <2>2, <3>3 DEF ReceiveDisconnect, BeginClose, Change
      <4>2. t \in Objects(p) /\ Handled(p, t, d)
        <5>1. conn[p][t] \in Object /\ conn[p][t].state \in {"CONNECTING", "CONNECTED"}
          BY <3>1, LiveObject
        <5>2. /\ d \in Object /\ d.id = conn[p][t].id /\ d.thread = conn[p][t].thread
              /\ d.state = conn[p][t].state /\ d.why = conn[p][t].why
          BY <5>1 DEF Object, States
        <5> HIDE DEF d
        <5> QED BY <3>1, <5>1, <5>2, LiveHandled
      <4> HIDE DEF d, t
      <4> QED BY <3>2, <4>1, <4>2, HandlerKeepsIInv
    <3>4. CASE conn[p][t].close # "no"
      <4>1. conn' = conn
        BY <1>7, <2>2, <3>4 DEF ReceiveDisconnect
      <4> QED BY <3>2, <4>1, SameConnections
    <3> QED BY <3>3, <3>4
  <2>3. CASE ~ LiveId(p, m.id)
    <3>1. conn' = conn /\ proc' = proc /\ Answer(m, {Packet(Other(p), "ALREADY_DISCONNECTED", m.id)})
      BY <1>7, <2>3 DEF ReceiveDisconnect
    <3>2. Besides(p) /\ Gone(m.id)
      BY <2>1, <3>1, PacketKeepsIInv DEF Truthful, Enders
    <3>3. \A x \in net' \ net : Truthful(x)
      BY <3>1, <3>2, GoneAnswer
    <3> QED BY <3>1, <3>2, <3>3, SameConnections
  <2> QED BY <2>2, <2>3
<1>8. CASE ReceiveAlreadyDisconnected(p, m)
  <2>1. Receives(p, m, "ALREADY_DISCONNECTED") /\ proc' = proc /\ Answer(m, {})
    BY <1>8 DEF ReceiveAlreadyDisconnected
  <2>2. Besides(p) /\ net' \ net = {} /\ Gone(m.id)
    BY <2>1, PacketKeepsIInv, NoAnswer DEF Truthful, Enders
  <2>3. CASE LiveId(p, m.id) /\ conn[p][t].state = "CONNECTED"
    <3> DEFINE d == Panicked(conn[p][t], "disconnected")
    <3>1. conn' = [conn EXCEPT ![p][t] = d] /\ Live(p) /\ Gone(conn[p][t].id)
      BY <1>8, <2>2, <2>3 DEF ReceiveAlreadyDisconnected, Change, LiveId
    <3>2. t \in Objects(p) /\ Handled(p, t, d)
      <4>1. conn[p][t] \in Object /\ conn[p][t].state \in {"CONNECTING", "CONNECTED"}
        BY <3>1, LiveObject
      <4>2. /\ d \in Object /\ d.id = conn[p][t].id /\ d.thread = conn[p][t].thread
            /\ d.state = "ERROR" /\ d.why = "disconnected"
        BY <4>1 DEF Object, States, Panicked
      <4> HIDE DEF d
      <4> QED BY <3>1, <4>1, <4>2, LiveHandled
    <3> HIDE DEF d, t
    <3> QED BY <2>2, <3>1, <3>2, HandlerKeepsIInv
  <2>4. CASE ~ (LiveId(p, m.id) /\ conn[p][t].state = "CONNECTED")
    BY <1>8, <2>2, <2>4, SameConnections DEF ReceiveAlreadyDisconnected
  <2> QED BY <2>3, <2>4
<1>9. ASSUME NEW kind \in {"HEARTBEAT", "ERROR"}, Deliver(p, m, kind) PROVE IInv'
  <2>1. Receives(p, m, kind) /\ Answer(m, {}) /\ Live(p) /\ conn[p][t].state = "CONNECTED"
    BY <1>9 DEF Deliver
  <2>2. net' \ net = {}
    BY <2>1, NoAnswer
  <2>3. CASE conn[p][t].close = "no"
    <3> DEFINE d == [conn[p][t] EXCEPT !.inbox = @ \/ kind = "ERROR"]
    <3>1. conn' = [conn EXCEPT ![p][t] = d] /\ proc' = proc
      BY <1>9, <2>3 DEF Deliver, Change
    <3>2. t \in Objects(p) /\ Handled(p, t, d)
      <4>1. conn[p][t] \in Object /\ conn[p][t].state \in {"CONNECTING", "CONNECTED"}
        BY <2>1, LiveObject
      <4>2. /\ d \in Object /\ d.id = conn[p][t].id /\ d.thread = conn[p][t].thread
            /\ d.state = conn[p][t].state /\ d.why = conn[p][t].why
        BY <4>1 DEF Object, States
      <4> HIDE DEF d
      <4> QED BY <2>1, <4>1, <4>2, LiveHandled
    <3>3. Besides(p)
      BY <2>1, <3>1, PacketKeepsIInv
    <3> HIDE DEF d, t
    <3> QED BY <2>2, <3>1, <3>2, <3>3, HandlerKeepsIInv
  <2>4. CASE conn[p][t].close # "no"
    <3>1. conn' = conn /\ proc' = [proc EXCEPT ![p] = [at |-> "dead"]]
      BY <1>9, <2>4 DEF Deliver
    <3>2. Besides(p)
      BY <2>1, <3>1, PacketKeepsIInv
    <3> QED BY <2>2, <3>1, <3>2, SameConnections
  <2> QED BY <2>3, <2>4
<1>10. CASE UnknownHeartbeat(p, m)
  <2>1. Receives(p, m, "HEARTBEAT") /\ proc' = proc /\ conn' = conn /\ ~ Live(p)
        /\ Answer(m, {Packet(Other(p), "ALREADY_DISCONNECTED", m.id)})
    BY <1>10 DEF UnknownHeartbeat
  <2>2. Besides(p) /\ proc[p].at = "idle" /\ Known(p, m.id)
    BY <2>1, PacketKeepsIInv DEF Truthful
  <2>3. PICK x \in Objects(p) : conn[p][x].id = m.id /\ conn[p][x].state # "NEW"
    BY <2>2 DEF Known, Dials
  <2>4. Dead(conn[p][x])
    <3>1. ~ Open(conn[p][x])
      BY <2>1, <2>3, NothingOpen
    <3> QED BY <2>3, <3>1 DEF Dead, Open, Alive
  <2>5. Gone(m.id)
    BY <2>3, <2>4 DEF Gone
  <2>6. \A y \in net' \ net : Truthful(y)
    BY <2>1, <2>5, GoneAnswer
  <2> QED BY <2>1, <2>2, <2>6, SameConnections
<1>11. ASSUME NEW kind \in {"HEARTBEAT", "ERROR"}, Ignored(p, m, kind) PROVE IInv'
  <2>1. Receives(p, m, kind) /\ proc' = proc /\ conn' = conn /\ Answer(m, {})
    BY <1>11 DEF Ignored
  <2>2. Besides(p) /\ net' \ net = {}
    BY <2>1, PacketKeepsIInv, NoAnswer
  <2> QED BY <2>1, <2>2, SameConnections
<1> QED
  BY <1>1, <1>2, <1>4, <1>5, <1>6, <1>7, <1>8, <1>9, <1>10, <1>11 DEF ProcessPacket

-----------------------------------------------------------------------------
(* New connections: dialled, and accepted.                                 *)

LEMMA Appended ==
  ASSUME conn \in [Peers -> Seq(Object)], NEW p \in Peers, NEW d \in Object,
         conn' = [conn EXCEPT ![p] = Append(conn[p], d)]
  PROVE  /\ conn' \in [Peers -> Seq(Object)] /\ Len(conn'[p]) = Len(conn[p]) + 1
         /\ Objects(p)' = Objects(p) \cup {Len(conn[p]) + 1} /\ conn'[p][Len(conn[p]) + 1] = d
         /\ \A x \in Objects(p) : conn'[p][x] = conn[p][x]
         /\ \A q \in Peers \ {p} : conn'[q] = conn[q]
<1>1. conn[p] \in Seq(Object) /\ Len(conn[p]) \in Nat
  OBVIOUS
<1> DEFINE s == Append(conn[p], d)
<1>2. s \in Seq(Object) /\ Len(s) = Len(conn[p]) + 1 /\ s[Len(conn[p]) + 1] = d
      /\ \A x \in 1 .. Len(conn[p]) : s[x] = conn[p][x]
  BY <1>1
<1> HIDE DEF s
<1>3. conn'[p] = s /\ \A q \in Peers \ {p} : conn'[q] = conn[q]
  BY DEF s
<1>4. conn' \in [Peers -> Seq(Object)]
  BY <1>2 DEF s
<1>5. 1 .. (Len(conn[p]) + 1) = (1 .. Len(conn[p])) \cup {Len(conn[p]) + 1}
  BY <1>1
<1> QED BY <1>2, <1>3, <1>4, <1>5 DEF Objects

\* An old connection of the side that moves says the same.
LEMMA ObjectStays ==
  ASSUME IInv, NEW p \in Peers, Frame(p), NEW x \in Objects(p), conn'[p][x] = conn[p][x]
  PROVE  ObjectOK(p, x)'
<1>0. ObjectOK(p, x) /\ Other(p) \in Peers
  BY Here, TwoEnds
<1>1. Heard(p, x) => Heard(p, x)'
  <2>1. PICK id : id = conn[p][x].id
    OBVIOUS
  <2>2. Known(Other(p), id) => Known(Other(p), id)'
    BY <1>0, KnownStays
  <2> QED BY <2>1, <2>2 DEF Heard, Known
<1>2. ASSUME conn[p][x].why = "disconnected"
      PROVE  \E r \in Peers : \E y \in Objects(r)' :
               <<r, y>> # <<p, x>> /\ conn'[r][y].id = conn[p][x].id /\ Dead(conn'[r][y])
  <2>1. PICK r \in Peers : \E y \in Objects(r) :
          <<r, y>> # <<p, x>> /\ conn[r][y].id = conn[p][x].id /\ Dead(conn[r][y])
    BY <1>0, <1>2 DEF ObjectOK
  <2>2. PICK y \in Objects(r) :
          <<r, y>> # <<p, x>> /\ conn[r][y].id = conn[p][x].id /\ Dead(conn[r][y])
    BY <2>1
  <2>3. y \in Objects(r)' /\ conn'[r][y].id = conn[r][y].id /\ Dead(conn'[r][y])
    BY <2>2, DeadStays
  <2> QED BY <2>2, <2>3
<1> QED BY <1>0, <1>1, <1>2 DEF ObjectOK

LEMMA ConnectKeepsIInv ==
  ASSUME OneAtATime, IInv, NEW p \in Peers, Connect(p)
  PROVE  IInv'
<1> DEFINE own == {o \in Objects(p) : conn[p][o].dialer}
           alive == {o \in own : conn[p][o].state \in Alive /\ conn[p][o].held}
           id == <<p, Cardinality(own) + 1>>
           d == NewObject(id, TRUE, "NEW")
           n == Len(conn[p]) + 1
<1>0. /\ conn \in [Peers -> Seq(Object)] /\ awaiting \in [Peers -> Seq(Nat)]
      /\ Len(conn[p]) \in Nat /\ Objects(p) \subseteq Nat /\ PeerOK(p)
      /\ DOMAIN table = Peers /\ DOMAIN proc = Peers /\ DOMAIN accepting = Peers
      /\ Other(p) \in Peers \ {p} /\ awaiting[p] \in Seq(Nat)
  BY Here, TwoEnds
<1>1. IsFiniteSet(own) /\ IsFiniteSet(alive)
  <2>1. IsFiniteSet(Objects(p))
    BY <1>0, FS_Interval DEF Objects
  <2> QED BY <2>1, FS_Subset
<1>2. alive = {}
  <2>1. Cardinality(alive) \in Nat /\ DialsAtOnce \in Nat
    BY <1>1, FS_CardinalityType, ConnectionAssumption
  <2>2. Cardinality(alive) < DialsAtOnce /\ DialsAtOnce <= 1
    BY DEF Connect, OneAtATime
  <2> HIDE DEF alive
  <2>3. Cardinality(alive) = 0
    BY <2>1, <2>2
  <2> QED BY <1>1, <2>3, FS_EmptySet
<1>3. \A o \in Objects(p) : ~ Waits(conn[p][o])
  BY <1>2 DEF Waits, Alive
<1>4. awaiting[p] = << >> /\ proc[p].at # "dial"
  BY <1>0, <1>3 DEF PeerOK
<1>5. d \in Object
  <2>1. Cardinality(own) + 1 \in Nat
    BY <1>1, FS_CardinalityType
  <2> HIDE DEF own
  <2> QED BY <2>1 DEF NewObject, Object, States, Ids
<1>6. /\ conn' = [conn EXCEPT ![p] = Append(conn[p], d)]
      /\ awaiting' = [awaiting EXCEPT ![p] = Append(awaiting[p], Len(conn'[p]))]
      /\ table' = table /\ proc' = proc /\ accepting' = accepting /\ net' = net
  BY DEF Connect
<1>7. d.state = "NEW" /\ d.held /\ d.dialer /\ d.thread = "dial" /\ d.close = "no" /\ d.why = "none"
  BY DEF NewObject
<1> HIDE DEF d, id, own, alive
<1>8. /\ conn' \in [Peers -> Seq(Object)] /\ Len(conn'[p]) = n
      /\ Objects(p)' = Objects(p) \cup {n} /\ conn'[p][n] = d
      /\ \A x \in Objects(p) : conn'[p][x] = conn[p][x]
      /\ \A q \in Peers \ {p} : conn'[q] = conn[q]
  BY <1>0, <1>5, <1>6, Appended
<1>9. awaiting'[p] = <<n>> /\ awaiting'[Other(p)] = awaiting[Other(p)]
      /\ awaiting' \in [Peers -> Seq(Nat)]
  BY <1>0, <1>4, <1>6, <1>8
<1>10. TypeOK'
  BY <1>0, <1>6, <1>8, <1>9 DEF TypeOK
<1>11. n \in Nat /\ Len(conn[p]) <= n /\ n \notin Objects(p)
  BY <1>0 DEF Objects
<1>12. Frame(p)
  BY <1>0, <1>6, <1>8, <1>9, <1>11 DEF Frame, Ages
<1>13. PeerOK(p)'
  <2>1. table[p] \in 0 .. n /\ (table[p] # 0 => table[p] \in Objects(p))
    BY <1>0, Here DEF PeerOK
  <2>2. table[p] # 0 => conn'[p][table[p]].state # "NEW"
    BY <1>0, <1>8, <2>1 DEF PeerOK
  <2>3. \A o \in Objects(p)' : Open(conn'[p][o]) => table[p] = o
    BY <1>0, <1>7, <1>8 DEF PeerOK, Open
  <2>4. Len(awaiting'[p]) <= 1 /\ awaiting'[p][1] = n /\ n \in Objects(p)' /\ Waits(conn'[p][n])
    BY <1>7, <1>8, <1>9 DEF Waits
  <2> QED BY <1>4, <1>6, <1>8, <2>1, <2>2, <2>3, <2>4 DEF PeerOK
<1>14. ASSUME NEW x \in Objects(p)' PROVE ObjectOK(p, x)'
  <2>1. CASE x \in Objects(p)
    BY <1>8, <1>12, <2>1, ObjectStays
  <2>2. CASE x = n
    BY <1>7, <1>8, <2>2 DEF ObjectOK
  <2> QED BY <1>8, <2>1, <2>2
<1> QED BY <1>6, <1>10, <1>12, <1>13, <1>14, StepKeepsIInv

LEMMA ConnectAcceptKeepsIInv ==
  ASSUME IInv, NEW p \in Peers, NEW m \in net, ConnectAccept(p, m)
  PROVE  IInv'
<1> DEFINE d == Connected(NewObject(m.id, FALSE, "CONNECTING"))
           n == Len(conn[p]) + 1
<1>0. /\ conn \in [Peers -> Seq(Object)] /\ awaiting \in [Peers -> Seq(Nat)]
      /\ Len(conn[p]) \in Nat /\ Objects(p) \subseteq Nat /\ PeerOK(p)
      /\ DOMAIN table = Peers /\ DOMAIN proc = Peers /\ DOMAIN accepting = Peers
      /\ Other(p) \in Peers \ {p} /\ Other(Other(p)) = p
  BY Here, TwoEnds
<1>1. /\ m.to = p /\ m.kind = "CONNECT" /\ proc[p].at = "idle" /\ ~ Live(p)
      /\ conn' = [conn EXCEPT ![p] = Append(conn[p], d)]
      /\ table' = [table EXCEPT ![p] = Len(conn'[p])]
      /\ Answer(m, {Packet(Other(p), "ACCEPTED", m.id)})
      /\ proc' = proc /\ awaiting' = awaiting /\ accepting' = accepting
  BY DEF ConnectAccept, Arrives
<1>2. Known(Other(p), m.id)
  BY <1>1 DEF IInv, Truthful, Tellers
<1>3. m.id \in Ids
  BY <1>0, <1>2, KnownIsId
<1>4. d \in Object
  BY <1>3 DEF Connected, NewObject, Object, States
<1>5. /\ d.state = "CONNECTED" /\ d.held /\ d.thread = "dial" /\ d.close = "no" /\ d.why = "none"
      /\ d.id = m.id
  BY DEF Connected, NewObject
<1> HIDE DEF d
<1>6. /\ conn' \in [Peers -> Seq(Object)] /\ Len(conn'[p]) = n
      /\ Objects(p)' = Objects(p) \cup {n} /\ conn'[p][n] = d
      /\ \A x \in Objects(p) : conn'[p][x] = conn[p][x]
      /\ \A q \in Peers \ {p} : conn'[q] = conn[q]
  BY <1>0, <1>1, <1>4, Appended
<1>7. TypeOK'
  BY <1>0, <1>1, <1>6 DEF TypeOK
<1>8. n \in Nat /\ Len(conn[p]) <= n /\ n \notin Objects(p) /\ n # 0
  BY <1>0 DEF Objects
<1>9. table'[p] = n /\ table'[Other(p)] = table[Other(p)]
  BY <1>0, <1>1, <1>6
<1>10. Frame(p)
  BY <1>0, <1>1, <1>6, <1>8, <1>9 DEF Frame, Ages
<1>11. PeerOK(p)'
  <2>1. table'[p] \in 0 .. n /\ conn'[p][table'[p]].state # "NEW"
    BY <1>5, <1>6, <1>8, <1>9
  <2>2. \A o \in Objects(p)' : Open(conn'[p][o]) => table'[p] = o
    BY <1>1, <1>6, <1>9, NothingOpen
  <2>3. /\ Len(awaiting[p]) <= 1
        /\ awaiting[p] # << >> =>
             awaiting[p][1] \in Objects(p)' /\ Waits(conn'[p][awaiting[p][1]])
    BY <1>0, <1>6 DEF PeerOK
  <2> QED BY <1>1, <1>6, <2>1, <2>2, <2>3 DEF PeerOK
<1>12. ASSUME NEW x \in Objects(p)' PROVE ObjectOK(p, x)'
  <2>1. CASE x \in Objects(p)
    BY <1>6, <1>10, <2>1, ObjectStays
  <2>2. CASE x = n
    <3>1. PICK id : id = m.id
      OBVIOUS
    <3>2. Known(Other(p), id)'
      BY <1>0, <1>2, <1>10, <3>1, KnownStays
    <3>3. Heard(p, x)'
      BY <1>5, <1>6, <2>2, <3>1, <3>2 DEF Heard, Known
    <3> QED BY <1>5, <1>6, <2>2, <3>3 DEF ObjectOK
  <2> QED BY <1>6, <2>1, <2>2
<1>13. ASSUME NEW x \in net' \ net PROVE Truthful(x)'
  <2>1. x = Packet(Other(p), "ACCEPTED", m.id)
    BY <1>1, AnswerAdds
  <2>2. Known(p, x.id)'
    BY <1>5, <1>6, <2>1 DEF Known, Packet
  <2> QED BY <1>0, <2>1, <2>2 DEF Truthful, Tellers, Enders, Packet
<1> QED BY <1>7, <1>10, <1>11, <1>12, <1>13, StepKeepsIInv

-----------------------------------------------------------------------------
(* The processing thread dials what waits.                                 *)

\* proc goes on with connection o, for which CONNECT is sent.
LEMMA DialKeepsIInv ==
  ASSUME IInv, NEW p \in Peers, NEW o \in Objects(p), NEW lookup,
         proc[p].at = "idle", awaiting[p] # << >>, awaiting[p][1] = o,
         Dial(p, o, << >>, lookup), ~ Live(p),
         conn' = conn, awaiting' = [awaiting EXCEPT ![p] = << >>], accepting' = accepting,
         DOMAIN table' = Peers, table'[Other(p)] = table[Other(p)], table'[p] \in {table[p], 0}
  PROVE  IInv'
<1> DEFINE next == [at |-> "dial", obj |-> o, stack |-> << >>, lookup |-> lookup]
<1>0. /\ TypeOK /\ conn \in [Peers -> Seq(Object)] /\ awaiting \in [Peers -> Seq(Nat)]
      /\ Len(conn[p]) \in Nat /\ Objects(p) \subseteq Nat /\ PeerOK(p)
      /\ DOMAIN table = Peers /\ DOMAIN proc = Peers /\ DOMAIN accepting = Peers
      /\ Other(p) \in Peers \ {p} /\ Other(Other(p)) = p
      /\ \A x \in Objects(p) : ObjectOK(p, x)
  BY Here, TwoEnds DEF IInv
<1>1. Waits(conn[p][o])
  BY <1>0 DEF PeerOK
<1>2. /\ proc' = [proc EXCEPT ![p] = next]
      /\ net' \ net \subseteq {Packet(Other(p), "CONNECT", conn[p][o].id)}
  BY <1>1, SendAdds DEF Dial, Waits
<1>3. proc'[p] = next /\ proc'[Other(p)] = proc[Other(p)] /\ DOMAIN proc' = Peers
  BY <1>0, <1>2
<1>4. next.at = "dial" /\ next.obj = o /\ next.stack = << >>
  OBVIOUS
<1> HIDE DEF next
<1>5. awaiting' \in [Peers -> Seq(Nat)] /\ awaiting'[p] = << >> /\ awaiting'[Other(p)] = awaiting[Other(p)]
  BY <1>0
<1>6. TypeOK'
  BY <1>0, <1>3, <1>5 DEF TypeOK
<1>7. Frame(p)
  BY <1>0, <1>3, <1>5 DEF Frame, Ages
<1>8. \A x \in Objects(p) : ~ Open(conn[p][x])
  BY NothingOpen
<1>9. PeerOK(p)'
  <2>1. table'[p] \in 0 .. Len(conn[p]) /\ (table'[p] # 0 => conn[p][table'[p]].state # "NEW")
    BY <1>0 DEF PeerOK
  <2> QED BY <1>1, <1>3, <1>4, <1>5, <1>8, <2>1 DEF PeerOK, Objects
<1>10. ASSUME NEW x \in Objects(p)' PROVE ObjectOK(p, x)'
  BY <1>7, <1>10, ObjectStays DEF Objects
<1>11. ASSUME NEW m \in net' \ net PROVE Truthful(m)'
  <2>1. m = Packet(Other(p), "CONNECT", conn[p][o].id)
    BY <1>2
  <2>2. Known(p, m.id)'
    BY <1>3, <1>4, <2>1 DEF Known, Dials, Objects, Packet
  <2> QED BY <1>0, <2>1, <2>2 DEF Truthful, Tellers, Enders, Packet
<1> QED BY <1>6, <1>7, <1>9, <1>10, <1>11, StepKeepsIInv

LEMMA ShortQueue ==
  ASSUME NEW s \in Seq(Nat), s # << >>, Len(s) <= 1
  PROVE  Len(s) = 1 /\ Tail(s) = << >> /\ Head(s) = s[1]
<1>1. ASSUME NEW n \in Nat, n # 0, n <= 1 PROVE n = 1
  BY <1>1
<1>2. Len(s) = 1
  <2>1. Len(s) \in Nat
    BY LenProperties
  <2>2. Len(s) # 0
    BY EmptySeq
  <2> QED BY <1>1, <2>1, <2>2
<1>3. Tail(s) \in Seq(Nat) /\ Len(Tail(s)) = 0 /\ Head(s) = s[1]
  BY <1>2
<1> QED BY <1>2, <1>3, EmptySeq

\* The connection that waits is the only one in the queue.
LEMMA OneWaits ==
  ASSUME IInv, NEW p \in Peers, awaiting[p] # << >>
  PROVE  /\ Len(awaiting[p]) = 1 /\ Tail(awaiting[p]) = << >> /\ Head(awaiting[p]) = awaiting[p][1]
         /\ awaiting[p][1] \in Objects(p) /\ Waits(conn[p][awaiting[p][1]])
<1>1. awaiting[p] \in Seq(Nat) /\ PeerOK(p)
  BY Here
<1>2. /\ Len(awaiting[p]) = 1 /\ Tail(awaiting[p]) = << >>
      /\ Head(awaiting[p]) = awaiting[p][1]
  BY <1>1, ShortQueue DEF PeerOK
<1> QED BY <1>1, <1>2 DEF PeerOK

LEMMA OneIsLockable ==
  ASSUME IInv, NEW p \in Peers, awaiting[p] # << >>
  PROVE  Lockable(p) # << >> /\ Len(Lockable(p)) = 1 /\ Lockable(p)[1] = awaiting[p][1]
<1> DEFINE locks == {i \in DOMAIN awaiting[p] : conn[p][awaiting[p][i]].held}
           Nth(k) == CHOOSE i \in locks : Cardinality({j \in locks : j <= i}) = k
<1>1. awaiting[p] \in Seq(Nat) /\ Len(awaiting[p]) = 1 /\ conn[p][awaiting[p][1]].held
  BY Here, OneWaits DEF Waits
<1>2. locks = {1}
  BY <1>1
<1>3. {j \in locks : j <= 1} = {1}
  BY <1>2
<1>4. Cardinality({1}) = 1
  BY FS_Singleton
<1>5. Nth(1) = 1
  <2>1. \A i \in locks : i = 1
    BY <1>2
  <2>2. 1 \in locks /\ Cardinality({j \in locks : j <= 1}) = 1
    BY <1>2, <1>3, <1>4
  <2> HIDE DEF locks
  <2> QED BY <2>1, <2>2
<1>6. Lockable(p) = [k \in 1 .. Cardinality(locks) |-> awaiting[p][Nth(k)]]
  BY DEF Lockable
<1>7. 1 .. Cardinality(locks) = {1}
  <2>1. Cardinality(locks) = 1
    BY <1>2, <1>4
  <2>2. 1 .. 1 = {1}
    OBVIOUS
  <2> HIDE DEF locks
  <2> QED BY <2>1, <2>2
<1> HIDE DEF locks, Nth
<1>8. Lockable(p) = [k \in {1} |-> awaiting[p][Nth(k)]]
  BY <1>6, <1>7
<1>9. DOMAIN Lockable(p) = 1 .. 1 /\ Lockable(p)[1] = awaiting[p][1]
  BY <1>5, <1>8
<1>10. Lockable(p) = [k \in 1 .. 1 |-> awaiting[p][1]]
  BY <1>5, <1>8
<1>11. Len(Lockable(p)) = 1
  BY <1>10
<1> QED BY <1>9, <1>11

LEMMA PullKeepsIInv ==
  ASSUME IInv, NEW p \in Peers, NEW lookup, Pull(p, lookup)
  PROVE  IInv'
<1> DEFINE o == awaiting[p][1]
<1>1. /\ proc[p].at = "idle" /\ awaiting[p] # << >> /\ table[p] = 0
      /\ awaiting' = [awaiting EXCEPT ![p] = << >>]
      /\ conn' = conn /\ table' = table /\ accepting' = accepting
  BY DEF Pull
<1>2. o \in Objects(p) /\ Waits(conn[p][o])
  BY <1>1, OneWaits
<1>3. Dial(p, o, << >>, lookup)
  <2>1. Lockable(p) # << >> /\ Len(Lockable(p)) = 1 /\ Lockable(p)[1] = o
    BY <1>1, OneIsLockable
  <2>2. Dial(p, Lockable(p)[1], SubSeq(Lockable(p), 1, 0), lookup)
    BY <2>1 DEF Pull
  <2>3. SubSeq(Lockable(p), 1, 0) = << >>
    OBVIOUS
  <2> QED BY <2>1, <2>2, <2>3
<1>4. ~ Live(p) /\ DOMAIN table = Peers
  BY <1>1, Here DEF Live
<1> HIDE DEF o
<1>5. awaiting[p][1] = o
  BY DEF o
<1> QED BY <1>1, <1>2, <1>3, <1>4, <1>5, DialKeepsIInv

\* What the other connections say, when one that never ran leaves NEW.
LEMMA NewLeaves ==
  ASSUME IInv, NEW p \in Peers, NEW o \in Objects(p), NEW d \in Object,
         conn' = [conn EXCEPT ![p][o] = d], Waits(conn[p][o]), d.state \notin {"NEW", "CONNECTED"},
         d.id = conn[p][o].id, d.thread = conn[p][o].thread, Frame(p),
         d.why \in {conn[p][o].why, "exists"}
  PROVE  \A x \in Objects(p)' : ObjectOK(p, x)'
<1>0. conn \in [Peers -> Seq(Object)] /\ ObjectOK(p, o)
  BY Here
<1>1. /\ conn' \in [Peers -> Seq(Object)] /\ Len(conn'[p]) = Len(conn[p])
      /\ Objects(p)' = Objects(p) /\ conn'[p][o] = d
      /\ \A x \in Objects(p) \ {o} : conn'[p][x] = conn[p][x]
      /\ \A q \in Peers \ {p} : conn'[q] = conn[q]
  BY <1>0, OneChanges
<1>2. ASSUME NEW x \in Objects(p) \ {o} PROVE ObjectOK(p, x)'
  BY <1>1, ObjectStays
<1>3. d.thread # "run"
  BY <1>0 DEF ObjectOK, Waits
<1>4. ASSUME d.why = "disconnected"
      PROVE  \E r \in Peers : \E y \in Objects(r)' :
               <<r, y>> # <<p, o>> /\ conn'[r][y].id = d.id /\ Dead(conn'[r][y])
  <2>1. PICK r \in Peers : \E y \in Objects(r) :
          <<r, y>> # <<p, o>> /\ conn[r][y].id = d.id /\ Dead(conn[r][y])
    BY <1>0, <1>4 DEF ObjectOK
  <2>2. PICK y \in Objects(r) :
          <<r, y>> # <<p, o>> /\ conn[r][y].id = d.id /\ Dead(conn[r][y])
    BY <2>1
  <2>3. y \in Objects(r)' /\ conn'[r][y].id = conn[r][y].id /\ Dead(conn'[r][y])
    BY <2>2, DeadStays
  <2> QED BY <2>2, <2>3
<1>5. ObjectOK(p, o)'
  BY <1>1, <1>3, <1>4 DEF ObjectOK
<1> QED BY <1>1, <1>2, <1>5

LEMMA PullWithEntryKeepsIInv ==
  ASSUME IInv, NEW p \in Peers, PullWithEntry(p)
  PROVE  IInv'
<1> DEFINE o == awaiting[p][1]
           d == Panicked(conn[p][o], "exists")
<1>0. /\ conn \in [Peers -> Seq(Object)] /\ awaiting \in [Peers -> Seq(Nat)]
      /\ Len(conn[p]) \in Nat /\ Objects(p) \subseteq Nat /\ PeerOK(p)
      /\ DOMAIN table = Peers /\ DOMAIN proc = Peers /\ DOMAIN accepting = Peers
      /\ Other(p) \in Peers \ {p}
  BY Here, TwoEnds
<1>1. /\ proc[p].at = "idle" /\ awaiting[p] # << >> /\ table[p] # 0
      /\ awaiting' = [awaiting EXCEPT ![p] = Tail(awaiting[p])] /\ accepting' = accepting
  BY DEF PullWithEntry
<1>2. /\ o \in Objects(p) /\ Waits(conn[p][o]) /\ conn[p][o].held
      /\ Head(awaiting[p]) = o /\ Tail(awaiting[p]) = << >>
  BY <1>1, OneWaits DEF Waits
<1>3. awaiting' = [awaiting EXCEPT ![p] = << >>]
  BY <1>1, <1>2
<1>4. CASE ~ Live(p)
  <2>1. Looked(p) /\ Dial(p, o, << >>, FALSE) /\ conn' = conn
    BY <1>2, <1>4 DEF PullWithEntry
  <2>2. /\ DOMAIN table' = Peers /\ table'[Other(p)] = table[Other(p)]
        /\ table'[p] \in {table[p], 0}
    BY <1>0, <2>1 DEF Looked
  <2> HIDE DEF o
  <2>3. awaiting[p][1] = o
    BY DEF o
  <2> QED BY <1>1, <1>2, <1>3, <1>4, <2>1, <2>2, <2>3, DialKeepsIInv
<1>5. CASE Live(p)
  <2>1. conn' = [conn EXCEPT ![p][o] = d] /\ table' = table /\ proc' = proc /\ net' = net
    BY <1>2, <1>5 DEF PullWithEntry, Change
  <2>2. conn[p][o] \in Object
    BY <1>2, Here
  <2>3. /\ d \in Object /\ d.state = "ERROR" /\ d.id = conn[p][o].id /\ d.why = "exists"
        /\ d.thread = conn[p][o].thread
    BY <2>2 DEF Panicked, Object, States
  <2> HIDE DEF d, o
  <2>4. /\ conn' \in [Peers -> Seq(Object)] /\ Len(conn'[p]) = Len(conn[p])
        /\ Objects(p)' = Objects(p) /\ conn'[p][o] = d
        /\ \A x \in Objects(p) \ {o} : conn'[p][x] = conn[p][x]
        /\ \A q \in Peers \ {p} : conn'[q] = conn[q]
    <3>1. conn \in [Peers -> Seq(Object)] /\ o \in Objects(p) /\ d \in Object
      BY <1>0, <1>2, <2>3
    <3>2. conn' = [conn EXCEPT ![p][o] = d]
      BY <2>1
    <3> QED BY <3>1, <3>2, OneChanges
  <2>5. awaiting' \in [Peers -> Seq(Nat)] /\ awaiting'[p] = << >> /\ awaiting'[Other(p)] = awaiting[Other(p)]
    BY <1>0, <1>3
  <2>6. TypeOK'
    BY <1>0, <1>1, <2>1, <2>4, <2>5 DEF TypeOK
  <2>7. \A x \in Objects(p) : Ages(conn[p][x], conn'[p][x])
    BY <1>2, <2>3, <2>4 DEF Ages, Dead, Alive
  <2>8. Frame(p)
    BY <1>0, <1>1, <2>1, <2>4, <2>5, <2>7 DEF Frame
  <2>9. PeerOK(p)'
    <3>1. \A x \in Objects(p) : Open(conn'[p][x]) => table[p] = x
      BY <1>0, <2>3, <2>4 DEF PeerOK, Open
    <3>2. table[p] \in 0 .. Len(conn[p]) /\ conn'[p][table[p]].state # "NEW"
      <4>1. /\ table[p] \in Objects(p) /\ conn[p][table[p]].state # "NEW"
            /\ table[p] \in 0 .. Len(conn[p])
        BY <1>0, <1>1, Here DEF PeerOK
      <4>2. CASE table[p] = o
        BY <2>3, <2>4, <4>1, <4>2
      <4>3. CASE table[p] # o
        BY <2>4, <4>1, <4>3
      <4> QED BY <4>2, <4>3
    <3>3. proc'[p].at = "idle"
      BY <1>1, <2>1
    <3>4. Len(awaiting'[p]) <= 1
      BY <2>5
    <3> QED BY <2>1, <2>4, <2>5, <3>1, <3>2, <3>3, <3>4 DEF PeerOK
  <2>10. \A x \in Objects(p)' : ObjectOK(p, x)'
    BY <1>2, <2>1, <2>3, <2>8, NewLeaves
  <2> QED BY <2>1, <2>6, <2>8, <2>9, <2>10, StepKeepsIInv
<1> QED BY <1>4, <1>5

LEMMA DialedKeepsIInv ==
  ASSUME IInv, NEW p \in Peers, Dialed(p)
  PROVE  IInv'
<1> DEFINE o == proc[p].obj
           d == [conn[p][o] EXCEPT !.state = "CONNECTING"]
<1>0. /\ conn \in [Peers -> Seq(Object)] /\ awaiting \in [Peers -> Seq(Nat)]
      /\ Len(conn[p]) \in Nat /\ Objects(p) \subseteq Nat /\ PeerOK(p)
      /\ DOMAIN table = Peers /\ DOMAIN proc = Peers /\ DOMAIN accepting = Peers
      /\ Other(p) \in Peers \ {p}
  BY Here, TwoEnds
<1>1. proc[p].at = "dial" /\ awaiting' = awaiting /\ accepting' = accepting
  BY DEF Dialed
<1>2. /\ awaiting[p] = << >> /\ proc[p].stack = << >> /\ o \in Objects(p) /\ Waits(conn[p][o])
      /\ \A x \in Objects(p) : ~ Open(conn[p][x])
  BY <1>0, <1>1 DEF PeerOK
<1>3. /\ conn' = [conn EXCEPT ![p][o] = d] /\ table' = [table EXCEPT ![p] = o]
      /\ proc' = [proc EXCEPT ![p] = Idle] /\ net' = net
  BY <1>2 DEF Dialed
<1>4. conn[p][o] \in Object
  BY <1>2, Here
<1>5. /\ d \in Object /\ d.state = "CONNECTING" /\ d.id = conn[p][o].id /\ d.why = conn[p][o].why
      /\ d.thread = conn[p][o].thread /\ d.held = conn[p][o].held
  BY <1>4 DEF Object, States
<1>6. proc[p].obj = o
  OBVIOUS
<1> HIDE DEF d, o
<1>7. /\ conn' \in [Peers -> Seq(Object)] /\ Len(conn'[p]) = Len(conn[p])
      /\ Objects(p)' = Objects(p) /\ conn'[p][o] = d
      /\ \A x \in Objects(p) \ {o} : conn'[p][x] = conn[p][x]
      /\ \A q \in Peers \ {p} : conn'[q] = conn[q]
  BY <1>0, <1>2, <1>3, <1>5, OneChanges
<1>8. /\ table'[p] = o /\ table'[Other(p)] = table[Other(p)] /\ DOMAIN table' = Peers
      /\ proc'[p] = Idle /\ proc'[Other(p)] = proc[Other(p)] /\ DOMAIN proc' = Peers
  BY <1>0, <1>3
<1>9. TypeOK'
  BY <1>0, <1>1, <1>7, <1>8 DEF TypeOK
<1>10. \A x \in Objects(p) : Ages(conn[p][x], conn'[p][x])
  BY <1>2, <1>5, <1>7 DEF Ages, Dead, Waits, Alive
<1>11. Frame(p)
  BY <1>0, <1>1, <1>5, <1>6, <1>7, <1>8, <1>10 DEF Frame
<1>12. PeerOK(p)'
  <2>1. \A x \in Objects(p) : Open(conn'[p][x]) => x = o
    BY <1>2, <1>7
  <2>2. o \in 0 .. Len(conn[p])
    BY <1>0, <1>2 DEF Objects
  <2>3. Len(awaiting'[p]) <= 1 /\ awaiting'[p] = << >> /\ proc'[p].at # "dial"
    BY <1>1, <1>2, <1>8 DEF Idle
  <2>4. conn'[p][o].state # "NEW"
    BY <1>5, <1>7
  <2> QED BY <1>7, <1>8, <2>1, <2>2, <2>3, <2>4 DEF PeerOK
<1>13. \A x \in Objects(p)' : ObjectOK(p, x)'
  BY <1>2, <1>3, <1>5, <1>11, NewLeaves
<1> QED BY <1>3, <1>9, <1>11, <1>12, <1>13, StepKeepsIInv

LEMMA RestartKeepsIInv ==
  ASSUME IInv, NEW p \in Peers, Restart(p)
  PROVE  IInv'
<1> DEFINE Fallen(c) == IF c.held \/ c.close # "done"
                        THEN [c EXCEPT !.state = "CLOSED", !.stop = TRUE, !.held = FALSE,
                                       !.thread = "done", !.close = "done", !.why = "crash"]
                        ELSE c
           s == [o \in Objects(p) |-> Fallen(conn[p][o])]
<1>0. /\ conn \in [Peers -> Seq(Object)] /\ awaiting \in [Peers -> Seq(Nat)]
      /\ Len(conn[p]) \in Nat /\ Objects(p) \subseteq Nat
      /\ DOMAIN table = Peers /\ DOMAIN proc = Peers /\ DOMAIN accepting = Peers
      /\ Other(p) \in Peers \ {p} /\ \A o \in Objects(p) : conn[p][o] \in Object
  BY Here, TwoEnds
<1>1. ASSUME NEW o \in Objects(p)
      PROVE  LET c == conn[p][o]
                 d == Fallen(c)
             IN /\ d \in Object /\ d.id = c.id /\ Dead(d) /\ (c.state # "NEW" => d.state # "NEW")
                /\ d = c \/ (d.state = "CLOSED" /\ d.thread = "done" /\ d.why = "crash")
  <2> DEFINE c == conn[p][o]
  <2>1. c \in Object
    BY <1>0
  <2>2. CASE c.held \/ c.close # "done"
    <3>1. Fallen(c) = [c EXCEPT !.state = "CLOSED", !.stop = TRUE, !.held = FALSE,
                                !.thread = "done", !.close = "done", !.why = "crash"]
      BY <2>2
    <3> HIDE DEF Fallen, c
    <3>2. Fallen(c) \in Object
      BY <2>1, <3>1 DEF Object, States
    <3>3. /\ Fallen(c).id = c.id /\ Fallen(c).state = "CLOSED" /\ Fallen(c).held = FALSE
          /\ Fallen(c).thread = "done" /\ Fallen(c).why = "crash"
      BY <2>1, <3>1 DEF Object
    <3> QED BY <3>2, <3>3 DEF c, Dead
  <2>3. CASE ~ c.held /\ c.close = "done"
    <3>1. Fallen(c) = c
      BY <2>3
    <3> QED BY <2>1, <2>3, <3>1 DEF Dead
  <2> QED BY <2>2, <2>3
<1>2. conn' = [conn EXCEPT ![p] = s]
  BY DEF Restart
<1>3. /\ table' = [table EXCEPT ![p] = 0] /\ awaiting' = [awaiting EXCEPT ![p] = << >>]
      /\ proc' = [proc EXCEPT ![p] = Idle] /\ accepting' = [accepting EXCEPT ![p] = TRUE]
      /\ net' = net
  BY DEF Restart
<1> HIDE DEF Fallen
<1>4. s \in Seq(Object) /\ Len(s) = Len(conn[p]) /\ \A o \in Objects(p) : s[o] = Fallen(conn[p][o])
  <2>1. s \in [1 .. Len(conn[p]) -> Object]
    BY <1>1 DEF Objects
  <2>2. s \in Seq(Object)
    BY <1>0, <2>1
  <2>3. DOMAIN s = 1 .. Len(conn[p])
    BY DEF Objects
  <2>4. Len(s) = Len(conn[p])
    BY <1>0, <2>2, <2>3
  <2> QED BY <2>2, <2>4
<1> HIDE DEF s
<1>5. /\ conn'[p] = s /\ \A q \in Peers \ {p} : conn'[q] = conn[q]
      /\ conn' \in [Peers -> Seq(Object)] /\ Objects(p)' = Objects(p)
  BY <1>0, <1>2, <1>4 DEF Objects
<1>6. /\ table'[p] = 0 /\ table'[Other(p)] = table[Other(p)] /\ DOMAIN table' = Peers
      /\ proc'[p] = Idle /\ proc'[Other(p)] = proc[Other(p)] /\ DOMAIN proc' = Peers
      /\ DOMAIN accepting' = Peers
  BY <1>0, <1>3
<1>7. /\ awaiting'[p] = << >> /\ awaiting'[Other(p)] = awaiting[Other(p)]
      /\ awaiting' \in [Peers -> Seq(Nat)]
  BY <1>0, <1>3
<1>8. TypeOK'
  BY <1>5, <1>6, <1>7 DEF TypeOK
<1>9. \A x \in Objects(p) :
        /\ conn'[p][x].id = conn[p][x].id /\ Dead(conn'[p][x])
        /\ conn[p][x].state # "NEW" => conn'[p][x].state # "NEW"
        /\ \/ conn'[p][x] = conn[p][x]
           \/ /\ conn'[p][x].state = "CLOSED" /\ conn'[p][x].thread = "done"
              /\ conn'[p][x].why = "crash"
  BY <1>1, <1>4, <1>5
<1>10. Frame(p)
  <2>1. \A x \in Objects(p) : Waits(conn[p][x]) => conn'[p][x].state # "NEW"
    BY <1>9 DEF Waits, Dead, Alive
  <2>2. proc[p].at = "dial" => conn'[p][proc[p].obj].state # "NEW"
    BY <2>1, Here DEF PeerOK
  <2>3. \A x \in Objects(p) : Ages(conn[p][x], conn'[p][x])
    BY <1>9 DEF Ages
  <2>4. Len(conn'[p]) = Len(conn[p]) /\ Len(conn[p]) <= Len(conn[p])
    BY <1>0, <1>4, <1>5
  <2> QED BY <1>0, <1>5, <1>6, <1>7, <2>2, <2>3, <2>4 DEF Frame
<1>11. PeerOK(p)'
  <2>1. \A x \in Objects(p) : ~ Open(conn'[p][x])
    BY <1>9 DEF Open, Dead, Alive
  <2>2. Len(awaiting'[p]) <= 1 /\ proc'[p].at = "idle" /\ table'[p] \in 0 .. Len(conn'[p])
    <3>1. Len(awaiting'[p]) <= 1
      BY <1>7
    <3>2. proc'[p].at = "idle"
      BY <1>6 DEF Idle
    <3>3. 0 \in 0 .. Len(conn'[p])
      BY <1>0, <1>4, <1>5
    <3> QED BY <1>6, <3>1, <3>2, <3>3
  <2> QED BY <1>5, <1>6, <1>7, <2>1, <2>2 DEF PeerOK
<1>12. ASSUME NEW x \in Objects(p)' PROVE ObjectOK(p, x)'
  <2>1. x \in Objects(p)
    BY <1>5
  <2>2. CASE conn'[p][x] = conn[p][x]
    BY <1>10, <2>1, <2>2, ObjectStays
  <2>3. CASE conn'[p][x] # conn[p][x]
    BY <1>9, <2>1, <2>3 DEF ObjectOK
  <2> QED BY <2>2, <2>3
<1> QED BY <1>3, <1>8, <1>10, <1>11, <1>12, StepKeepsIInv

-----------------------------------------------------------------------------

LEMMA InitIInv == Init => IInv
<1> SUFFICES ASSUME Init PROVE IInv
  OBVIOUS
<1>1. \A p \in Peers : conn[p] = << >> /\ awaiting[p] = << >> /\ table[p] = 0 /\ proc[p] = Idle
  BY DEF Init
<1>2. TypeOK /\ net = {}
  BY DEF Init, TypeOK
<1>3. Len(<< >>) = 0
  OBVIOUS
<1>4. \A p \in Peers : Objects(p) = {}
  BY <1>1, <1>3 DEF Objects
<1>5. \A p \in Peers : PeerOK(p)
  BY <1>1, <1>3, <1>4 DEF PeerOK, Idle
<1> QED BY <1>2, <1>4, <1>5 DEF IInv

LEMMA NextKeepsIInv ==
  ASSUME OneAtATime, IInv, [Next]_vars
  PROVE  IInv'
<1>1. ASSUME NEW p \in Peers, StopAccepting(p) \/ Disconnected(p) PROVE IInv'
  <2>0. /\ DOMAIN table = Peers /\ DOMAIN proc = Peers /\ DOMAIN accepting = Peers
        /\ Other(p) \in Peers \ {p}
    BY Here, TwoEnds
  <2>1. CASE StopAccepting(p)
    <3>1. Besides(p) /\ conn' = conn /\ net' = net
      BY <2>0, <2>1 DEF StopAccepting, Besides
    <3> QED BY <3>1, SameConnections
  <2>2. CASE Disconnected(p)
    <3>1. proc' = [proc EXCEPT ![p] = Idle] /\ proc[p].at # "dial"
      BY <2>2 DEF Disconnected
    <3>2. proc'[p] = Idle /\ proc'[Other(p)] = proc[Other(p)] /\ DOMAIN proc' = Peers
      BY <2>0, <3>1
    <3>3. table' = table /\ awaiting' = awaiting /\ accepting' = accepting /\ conn' = conn /\ net' = net
      BY <2>2 DEF Disconnected
    <3>4. Idle.at # "dial"
      BY DEF Idle
    <3>5. Besides(p)
      BY <2>0, <3>1, <3>2, <3>3, <3>4 DEF Besides
    <3> QED BY <3>3, <3>5, SameConnections
  <2> QED BY <1>1, <2>1, <2>2
<1>2. ASSUME conn' = conn, table' = table, awaiting' = awaiting, proc' = proc,
             accepting' = accepting, net' \subseteq net
      PROVE  IInv'
  <2>1. PICK p \in Peers : TRUE
    BY ConnectionAssumption
  <2>2. Besides(p)
    <3>1. DOMAIN table = Peers /\ DOMAIN accepting = Peers
      BY <2>1, Here
    <3> QED BY <1>2, <3>1 DEF Besides
  <2> QED BY <1>2, <2>2, SameConnections
<1>3. ASSUME NEW p \in Peers, PeerStep(p) PROVE IInv'
  <2>1. CASE Connect(p)
    BY <2>1, ConnectKeepsIInv
  <2>2. CASE StopAccepting(p) \/ Disconnected(p)
    BY <1>1, <2>2
  <2>3. CASE Restart(p)
    BY <2>3, RestartKeepsIInv
  <2>4. CASE PullWithEntry(p)
    BY <2>4, PullWithEntryKeepsIInv
  <2>5. CASE Pull(p, TRUE) \/ Pull(p, FALSE)
    BY <2>5, PullKeepsIInv
  <2>6. CASE Dialed(p)
    BY <2>6, DialedKeepsIInv
  <2>7. ASSUME NEW m \in net, ProcessPacket(p, m) PROVE IInv'
    BY <2>7, ConnectAcceptKeepsIInv, ProcessPacketKeepsIInv
  <2>8. ASSUME NEW o \in Objects(p), ObjectStep(p, o) PROVE IInv'
    BY <2>8, ObjectStepKeepsIInv
  <2> QED BY <1>3, <2>1, <2>2, <2>3, <2>4, <2>5, <2>6, <2>7, <2>8 DEF PeerStep
<1>4. ASSUME NEW m \in net, Lose(m) PROVE IInv'
  <2>1. net' \subseteq net
    BY <1>4 DEF Lose
  <2> QED BY <1>2, <1>4, <2>1 DEF Lose
<1>5. CASE UNCHANGED vars
  BY <1>2, <1>5 DEF vars
<1> QED BY <1>3, <1>4, <1>5 DEF Next

\* Packets say what has happened, the table holds the open connection, and one at most
\* waits to be dialled: with one dial at a time, always.
THEOREM ConnectionInvariant == OneAtATime => (Spec => []IInv)
<1> SUFFICES ASSUME OneAtATime PROVE Spec => []IInv
  OBVIOUS
<1>1. IInv /\ [Next]_vars => IInv'
  BY NextKeepsIInv
<1> QED BY <1>1, InitIInv, PTL DEF Spec

\* A dialler is CONNECTED only under an id that the other side made a connection for, and
\* is told that it is disconnected only when a connection with its id has died: late,
\* repeated and reordered packets of other incarnations do neither.
THEOREM ConnectionIncarnationsAreApart == OneAtATime => (Spec => []IncarnationsAreApart)
<1>1. IInv => IncarnationsAreApart
  <2> SUFFICES ASSUME IInv, NEW p \in Peers, NEW o \in Objects(p)
               PROVE  /\ conn[p][o].state = "CONNECTED" => Counterparts(p, o) # {}
                      /\ conn[p][o].why = "disconnected" =>
                           \E q \in Peers : \E x \in Objects(q) :
                             /\ <<q, x>> # <<p, o>> /\ conn[q][x].id = conn[p][o].id
                             /\ conn[q][x].state \notin Alive \/ ~conn[q][x].held
    BY DEF IncarnationsAreApart, ConnectedWasAccepted, DisconnectedByItsPeer
  <2>1. ObjectOK(p, o)
    BY Here
  <2> QED BY <2>1 DEF ObjectOK, Heard, Counterparts, Dead
<1> QED BY <1>1, ConnectionInvariant, PTL

\* At most one connection of the address is being established or in use, and it is the
\* one get_connection finds, whatever the network and the other side do.
THEOREM ConnectionOneConnection == OneAtATime => (Spec => []OneConnection)
<1>1. IInv => OneConnection
  BY DEF IInv, PeerOK, Open, OneConnection
<1> QED BY <1>1, ConnectionInvariant, PTL
=============================================================================
