------------------------------- MODULE MCParts -------------------------------
(***************************************************************************)
(* Small instances of components that have nothing to do with each other.  *)
(* A behaviour is one of one of them, the others stay as they were made;   *)
(* their state spaces add up.                                              *)
(***************************************************************************)
EXTENDS Orderer, UdpSocket, RosVariable, ThreadStreams, TwoSidedVector, TLC

CONSTANTS Streams, End, opener, closer, p, q

VARIABLES
  part, \* the component that moves
  masked, alive, reporting, next, heartbeat, starts,                \* HeartbeatScan
  pipeline, iter, produced,                                         \* Itertools
  pc, held, stop, open, closed, threads, threadsLock, panicLock,
  panic, incoming, outgoing, failures, destroyed,                   \* Socket
  message, packets,                                                 \* WireFormat
  left, right, signed, result,                                      \* SatMath
  mode, preopened, operations, file, used, broken, undestroyed,
  expected,                                                         \* BufferedFileSaver
  range, begin, extra, tasks, returned                              \* ForEachRange

scanVars == <<masked, alive, reporting, next, heartbeat, starts>>
iteratorVars == <<pipeline, iter, produced>>
socketVars == <<pc, held, stop, open, closed, threads, threadsLock, panicLock, panic,
                incoming, outgoing, failures, destroyed>>
wireVars == <<message, packets>>
mathVars == <<left, right, signed, result>>
saverVars == <<mode, preopened, operations, file, used, broken, undestroyed, expected>>
rangeVars == <<range, begin, extra, tasks, returned>>

\* two bits a word, two words a group
Scan == INSTANCE HeartbeatScan WITH
  WordSize <- 2, Groups <- 2, Capacity <- 3, Sizes <- {1, 2}, MaxStarts <- 4, MaxAtOnce <- 3

Elements == {<<>>, <<1>>, <<2, 2>>, <<1, 2, 1>>, <<1, 1, 2, 1>>, <<0, 2, 2, 1>>}
Short == [kind |-> "iter", seq |-> <<2, 1>>]
Transformations == [kind : {"map", "filter", "unique", "dedup"}]
                     \cup [kind : {"first", "skip"}, n : {0, 1, 2, 5}]
                     \cup [kind : {"zip", "chain"}, other : {Short}]

Iterators == INSTANCE Itertools WITH
  Sources <- Elements, Stages <- Transformations, MaxStages <- 2

Sock == INSTANCE Socket WITH Room <- 2, Failures <- 1

\* numbers whose bytes differ, a counter of 32 bits at its ends, messages of one packet
\* to four
Wire == INSTANCE WireFormat WITH
  MaxPacketSize <- 12, Numbers <- {1, 258}, FirstSeqs <- {0, 65535, 2147483600},
  Lengths <- {0, 1, 3, 4, 5, 6, 9, 12}, Depths <- {0, 1, 256, 65535}

\* two statements and one
MCStatements == p :> <<2, 3>> @@ q :> <<3>>

Math == INSTANCE SatMath WITH Bits <- 4, Undefined <- None, a <- left, b <- right

Saver == INSTANCE BufferedFileSaver WITH
  Modes <- {"none", "app", "in"}, Offsets <- {-1, 0}, MaxOperations <- 3, Failures <- 1,
  alive <- undestroyed

Ranges == INSTANCE ForEachRange WITH Bits <- 4, MaxThreads <- 4, Endless <- None

ASSUME PartsAssumption ==
  /\ Scan!ScanAssumption /\ Iterators!ItertoolsAssumption /\ Sock!SocketAssumption
  /\ Wire!WireAssumption /\ Math!SatMathAssumption /\ Saver!SaverAssumption
  /\ Ranges!ForEachRangeAssumption

Parts == {"orderer", "scan", "iterators", "socket", "udp", "wire", "ros", "streams",
          "vector", "math", "saver", "ranges"}

\* The initial states of a part are those of its Init; the others take one of theirs.
PartsInit ==
  /\ part \in Parts
  /\ Init /\ (part # "orderer" => size = CHOOSE n \in Sizes : TRUE)
  /\ Scan!Init
  /\ Iterators!Init /\ (part # "iterators" => pipeline = <<[Short EXCEPT !.seq = <<>>]>>)
  /\ Sock!Init
  /\ UdpInit
  /\ IF part = "wire" THEN Wire!Init ELSE message = None /\ packets = <<>>
  /\ RosInit /\ (part # "ros" => value = 0 /\ retained = 0 /\ writable)
  /\ StreamsInit /\ (part # "streams" => class = "ostream")
  /\ VectorInit /\ (part # "vector" => starting_point = 0 /\ content = <<>>)
  /\ IF part = "math" THEN Math!Init
     ELSE left = 0 /\ right = 0 /\ signed = FALSE /\ result = <<>>
  /\ Saver!Init /\ (part # "saver" => mode = "app" /\ ~preopened /\ ~file.exists)
  /\ IF part = "ranges" THEN Ranges!Init
     ELSE range = <<>> /\ begin = 0 /\ extra = 0 /\ tasks = <<>> /\ returned = FALSE

\* Steps of a part, the others standing still
OrdererMoves == /\ part = "orderer" /\ Next
                /\ UNCHANGED <<part, scanVars, iteratorVars, socketVars, udpVars, wireVars,
                               rosVars, streamVars, vectorVars, mathVars, saverVars, rangeVars>>
ScanMoves(A) == /\ part = "scan" /\ A
                /\ UNCHANGED <<part, vars, iteratorVars, socketVars, udpVars, wireVars,
                               rosVars, streamVars, vectorVars, mathVars, saverVars, rangeVars>>
IteratorsMove == /\ part = "iterators" /\ Iterators!Next
                 /\ UNCHANGED <<part, vars, scanVars, socketVars, udpVars, wireVars,
                                rosVars, streamVars, vectorVars, mathVars, saverVars, rangeVars>>
SocketMoves(A) == /\ part = "socket" /\ A
                  /\ UNCHANGED <<part, vars, scanVars, iteratorVars, udpVars, wireVars,
                                 rosVars, streamVars, vectorVars, mathVars, saverVars, rangeVars>>
UdpMoves == /\ part = "udp" /\ UdpNext
            /\ UNCHANGED <<part, vars, scanVars, iteratorVars, socketVars, wireVars,
                           rosVars, streamVars, vectorVars, mathVars, saverVars, rangeVars>>
WireMoves == /\ part = "wire" /\ Wire!Next
             /\ UNCHANGED <<part, vars, scanVars, iteratorVars, socketVars, udpVars,
                            rosVars, streamVars, vectorVars, mathVars, saverVars, rangeVars>>
RosMoves == /\ part = "ros" /\ RosNext
            /\ UNCHANGED <<part, vars, scanVars, iteratorVars, socketVars, udpVars,
                           wireVars, streamVars, vectorVars, mathVars, saverVars, rangeVars>>
StreamsMove == /\ part = "streams" /\ StreamsNext
               /\ UNCHANGED <<part, vars, scanVars, iteratorVars, socketVars, udpVars,
                              wireVars, rosVars, vectorVars, mathVars, saverVars, rangeVars>>
VectorMoves == /\ part = "vector" /\ VectorNext
               /\ UNCHANGED <<part, vars, scanVars, iteratorVars, socketVars, udpVars,
                              wireVars, rosVars, streamVars, mathVars, saverVars, rangeVars>>
MathMoves == /\ part = "math" /\ Math!Next
             /\ UNCHANGED <<part, vars, scanVars, iteratorVars, socketVars, udpVars,
                            wireVars, rosVars, streamVars, vectorVars, saverVars, rangeVars>>
SaverMoves == /\ part = "saver" /\ Saver!Next
              /\ UNCHANGED <<part, vars, scanVars, iteratorVars, socketVars, udpVars, wireVars,
                             rosVars, streamVars, vectorVars, mathVars, rangeVars>>
RangesMove == /\ part = "ranges" /\ Ranges!Next
              /\ UNCHANGED <<part, vars, scanVars, iteratorVars, socketVars, udpVars, wireVars,
                             rosVars, streamVars, vectorVars, mathVars, saverVars>>

PartsNext ==
  \/ OrdererMoves \/ ScanMoves(Scan!Next) \/ IteratorsMove \/ SocketMoves(Sock!Next)
  \/ UdpMoves \/ WireMoves \/ RosMoves \/ StreamsMove \/ VectorMoves \/ MathMoves
  \/ SaverMoves \/ RangesMove

partsVars == <<part, vars, scanVars, iteratorVars, socketVars, udpVars, wireVars, rosVars,
               streamVars, vectorVars, mathVars, saverVars, rangeVars>>

PartsSpec == PartsInit /\ [][PartsNext]_partsVars

\* The fairness of Scan!FairSpec and Sock!FairSpec
FairPartsSpec ==
  /\ PartsSpec
  /\ WF_partsVars(ScanMoves(Scan!Heartbeat))
  /\ WF_partsVars(ScanMoves(\E s \in Streams : Scan!Destroy(s)))
  /\ WF_partsVars(SocketMoves(Sock!Receives)) /\ WF_partsVars(SocketMoves(Sock!Sends))
  /\ WF_partsVars(SocketMoves(Sock!Processes)) /\ WF_partsVars(SocketMoves(Sock!Proceeds("app")))

-----------------------------------------------------------------------------
\* A stream that did not fit into a heartbeat is reported again and again
\* (scorpio_udp.cpp:1509), except while the word of the stream the scan starts from is
\* empty, when the scan passes streams over (scorpio_udp.cpp:1514).
EveryStreamIsHeard == Scan!EveryStreamIsHeard

\* A pipeline of lazy iterators yields what its transformations make of the whole
\* source (itertools.hpp:147-595).
PipelineIsItsReference == Iterators!PipelineIsItsReference

\* A socket that nobody holds is destroyed, and when its destructor returns its threads are
\* gone (scorpio_udp.cpp:188-251).
DestructionEnds == Sock!DestructionEnds

\* The receiver reads from every packet what the sender wrote into it
\* (scorpio_udp.cpp:67-121, 760-833).
PacketsAreReadBack == part = "wire" => Wire!PacketsAreReadBack

\* Saturating arithmetic returns the exact result clamped to the type
\* (sat_math.hpp:28-110).
ResultsAreClamped == Math!ResultsAreClamped

\* What a flush() could not write it reports, or the next one does
\* (buffered_file_saver.cpp:32-61).
LossesAreReported == Saver!LossesAreReported

\* Every index of a range is given to exactly one task (thread_pool.hpp:101-120).
IndicesAreDealtOut == part = "ranges" => Ranges!IndicesAreDealtOut
=============================================================================
