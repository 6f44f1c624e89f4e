------------------------------ MODULE UdpSocket ------------------------------
(***************************************************************************)
(* network::UdpSocket (udp.cpp): an atomic descriptor that one thread      *)
(* opens and binds while others send, receive and close, without a lock.   *)
(* Every operation loads the descriptor once and uses what it loaded.      *)
(*                                                                         *)
(* The descriptors are the process's: the operating system gives a closed  *)
(* number to whoever opens something next.                                 *)
(***************************************************************************)
EXTENDS Naturals

CONSTANTS
  Descriptors, \* the numbers the operating system gives out
  NoFd,        \* -1
  Callers,     \* threads that use the socket
  Opener,      \* the one of them that opens and binds it
  MaxCalls     \* bound: calls of all threads

ASSUME SocketCallsAssumption ==
  Opener \in Callers /\ NoFd \notin Descriptors /\ MaxCalls \in Nat

VARIABLES
  fd,    \* _socket_fd
  bound, \* _is_bound
  owner, \* what a descriptor is: "free", "socket" or some "other" file
  call,  \* of every thread: the step of the call it is in, the descriptor it has
         \* loaded, and where to go on after close()
  calls
udpVars == <<fd, bound, owner, call, calls>>

Idle == [at |-> "idle", fd |-> NoFd, after |-> "idle"]
At(t, step) == call[t].at = step
Go(t, step) == call' = [call EXCEPT ![t].at = step]
GoWith(t, step, d) == call' = [call EXCEPT ![t].at = step, ![t].fd = d]
Return(t) == call' = [call EXCEPT ![t] = Idle]

UdpInit == /\ fd = NoFd /\ bound = FALSE /\ calls = 0
           /\ owner = [d \in Descriptors |-> "free"]
           /\ call = [t \in Callers |-> Idle]

BeginCall(t, step, after) ==
  /\ At(t, "idle") /\ calls < MaxCalls
  /\ calls' = calls + 1
  /\ call' = [call EXCEPT ![t] = [at |-> step, fd |-> NoFd, after |-> after]]
  /\ UNCHANGED <<fd, bound, owner>>

-----------------------------------------------------------------------------
(* close(), which open() begins with                                       *)

EndClose(t) == IF call[t].after = "idle" THEN Return(t) ELSE Go(t, call[t].after)

LoadExpected(t) ==
  /\ At(t, "close")
  /\ IF fd = NoFd THEN EndClose(t) ELSE GoWith(t, "exchange", fd)
  /\ UNCHANGED <<fd, bound, owner, calls>>

\* Seeded bug: -1 is stored without comparing.
ExchangeBlindly(t) ==
  /\ At(t, "exchange")
  /\ fd' = NoFd /\ Go(t, "release")
  /\ UNCHANGED <<bound, owner, calls>>

Exchange(t) ==
  /\ At(t, "exchange")
  /\ IF fd = call[t].fd THEN fd' = NoFd /\ Go(t, "release")
                        ELSE UNCHANGED fd /\ EndClose(t)
  /\ UNCHANGED <<bound, owner, calls>>

\* shutdown() and ::close()
ReleaseFd(t) ==
  /\ At(t, "release")
  /\ owner' = [owner EXCEPT ![call[t].fd] = "free"]
  /\ Go(t, "unbind")
  /\ UNCHANGED <<fd, bound, calls>>

Unbind(t) == /\ At(t, "unbind")
             /\ bound' = FALSE /\ EndClose(t)
             /\ UNCHANGED <<fd, owner, calls>>

-----------------------------------------------------------------------------
(* open(): a descriptor, or -1, is made and then stored                    *)

MakeSocket(t) ==
  /\ At(t, "socket")
  /\ \/ \E d \in Descriptors : /\ owner[d] = "free"
                               /\ owner' = [owner EXCEPT ![d] = "socket"]
                               /\ GoWith(t, "store", d)
     \/ GoWith(t, "store", NoFd) /\ UNCHANGED owner
  /\ UNCHANGED <<fd, bound, calls>>

StoreFd(t) == /\ At(t, "store")
              /\ fd' = call[t].fd /\ Return(t)
              /\ UNCHANGED <<bound, owner, calls>>

-----------------------------------------------------------------------------
(* bind()                                                                  *)

\* ScorpioUdp::listen() looks for itself, and calls bind()
Listen(t) ==
  /\ At(t, "listen")
  /\ IF bound THEN Return(t) ELSE Go(t, "bind")
  /\ UNCHANGED <<fd, bound, owner, calls>>

CheckBind(t) ==
  /\ At(t, "bind")
  /\ IF fd = NoFd \/ bound THEN Return(t) ELSE GoWith(t, "name", fd)
  /\ UNCHANGED <<fd, bound, owner, calls>>

\* ::bind() refuses what is not a socket
NameSocket(t) ==
  /\ At(t, "name")
  /\ \/ owner[call[t].fd] # "free" /\ Go(t, "bound")
     \/ Return(t)
  /\ UNCHANGED <<fd, bound, owner, calls>>

StoreBound(t) == /\ At(t, "bound")
                 /\ bound' = TRUE /\ Return(t)
                 /\ UNCHANGED <<fd, owner, calls>>

-----------------------------------------------------------------------------
(* send() and receive(): the system call gets the descriptor loaded before *)

LoadToSend(t) ==
  /\ At(t, "send")
  /\ IF fd = NoFd THEN Return(t) ELSE GoWith(t, "sendto", fd)
  /\ UNCHANGED <<fd, bound, owner, calls>>

\* interrupted or full buffers: another attempt; transient conditions count as sent
SendTo(t) == /\ At(t, "sendto")
             /\ Return(t)
             /\ UNCHANGED <<fd, bound, owner, calls>>

LoadToReceive(t) ==
  /\ At(t, "receive")
  /\ IF fd = NoFd THEN Return(t) ELSE GoWith(t, "recvfrom", fd)
  /\ UNCHANGED <<fd, bound, owner, calls>>

ReceiveFrom(t) == /\ At(t, "recvfrom")
                  /\ Return(t)
                  /\ UNCHANGED <<fd, bound, owner, calls>>

-----------------------------------------------------------------------------
\* The rest of the process opens and closes files.
OtherFile ==
  /\ \E d \in Descriptors : \/ owner[d] = "free" /\ owner' = [owner EXCEPT ![d] = "other"]
                            \/ owner[d] = "other" /\ owner' = [owner EXCEPT ![d] = "free"]
  /\ UNCHANGED <<fd, bound, call, calls>>

CallerStep(t) ==
  \/ LoadExpected(t) \/ Exchange(t) \/ ReleaseFd(t) \/ Unbind(t) \/ MakeSocket(t) \/ StoreFd(t)
  \/ Listen(t) \/ CheckBind(t) \/ NameSocket(t) \/ StoreBound(t)
  \/ LoadToSend(t) \/ SendTo(t) \/ LoadToReceive(t) \/ ReceiveFrom(t)

UdpNext ==
  \/ \E t \in Callers : \/ CallerStep(t)
                        \/ \E step \in {"close", "send", "receive"} : BeginCall(t, step, "idle")
  \/ BeginCall(Opener, "close", "socket") \/ BeginCall(Opener, "listen", "idle")
  \/ OtherFile

UdpSpec == UdpInit /\ [][UdpNext]_udpVars

-----------------------------------------------------------------------------
\* In the hands of a thread: made and not yet stored, or taken out to be closed
InHand(t, d) == call[t].fd = d /\ call[t].at \in {"store", "release"}

\* A descriptor of the socket is in one place: stored, or in the hands of one thread.
\* So none leaks, and ::close() is called once for each, never on a number that has
\* become another file's, whichever threads close the socket together (udp.cpp:47-60).
DescriptorsAreOwned ==
  \A d \in Descriptors :
    /\ owner[d] = "socket" => fd = d \/ \E t \in Callers : InHand(t, d)
    /\ fd = d => owner[d] = "socket" /\ \A t \in Callers : ~InHand(t, d)
    /\ \A t, u \in Callers : InHand(t, d) /\ InHand(u, d) => owner[d] = "socket" /\ t = u
=============================================================================
