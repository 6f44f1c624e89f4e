---------------------------- MODULE HeartbeatScan ----------------------------
(***************************************************************************)
(* Which streams a heartbeat reports: ScorpioUdpConnection::send_heartbeat *)
(* walks the two-level mask of activated streams, starting at the stream   *)
(* that did not fit into the heartbeat before, and append_heartbeat_data   *)
(* adds the blocks of reliable streams until one does not fit.             *)
(*                                                                         *)
(* The number of a stream is cut into the index of its group (an element   *)
(* of _streams_mask_level_2), the index of its word in the group (an       *)
(* element of _streams_mask) and its bit in the word.                      *)
(*                                                                         *)
(* Masks change under a mutex, one stream at a time; the scan does not     *)
(* take it, but it runs on the thread that activates streams, so only      *)
(* streams that end can change what it sees, and one that ends during a    *)
(* scan is here one that ends before or after it.                          *)
(***************************************************************************)
EXTENDS Naturals, Sequences, FiniteSets, SequencesExt

CONSTANTS
  WordSize,   \* bits of a word, and words of a group: 64 in the code
  Groups,     \* 16 in the code
  Streams,    \* the numbers in use
  Capacity,   \* room for blocks in a heartbeat
  Sizes,      \* sizes a block can have; the held ranges of a stream change all the time
  MaxStarts,  \* bound: streams activated in a behaviour
  MaxAtOnce   \* bound: streams activated at a time

ScanAssumption ==
  /\ {WordSize, Groups, Capacity, MaxStarts, MaxAtOnce} \subseteq Nat
  /\ WordSize > 0 /\ Groups > 0
  /\ Streams \subseteq 0 .. Groups * WordSize * WordSize - 1
  /\ Sizes \subseteq 1 .. Capacity

VARIABLES
  masked,    \* the streams whose mask bits are set
  alive,     \* those whose weak_ptr in _streams locks
  reporting, \* those that are reliable and CREATED
  next,      \* _next_stream_to_heartbeat
  heartbeat, \* the last heartbeat, until a stream comes or goes
  starts     \* streams activated so far

vars == <<masked, alive, reporting, next, heartbeat, starts>>

Unsent == [start |-> 0, blocks |-> <<>>, full |-> TRUE]

Word(s) == s \div WordSize
Group(s) == Word(s) \div WordSize
WordInGroup(w) == w % WordSize
Bit(s) == s % WordSize
Words == {Word(s) : s \in masked}

-----------------------------------------------------------------------------
(* Streams come and go.                                                    *)

\* activate_stream, which asserts that the bit is not set; _stream_exists keeps
\* the number of a stream that is not quite destroyed from being used
Activate(s) ==
  /\ s \notin masked
  /\ starts < MaxStarts /\ Cardinality(masked) < MaxAtOnce
  /\ masked' = masked \cup {s} /\ alive' = alive \cup {s}
  /\ starts' = starts + 1 /\ heartbeat' = Unsent
  /\ UNCHANGED <<reporting, next>>

\* A reliable stream is CREATED
Opens(s) ==
  /\ s \in alive \ reporting
  /\ reporting' = reporting \cup {s} /\ heartbeat' = Unsent
  /\ UNCHANGED <<masked, alive, next, starts>>

\* The last shared_ptr goes, on some thread of the application
Expire(s) ==
  /\ s \in alive
  /\ alive' = alive \ {s} /\ reporting' = reporting \ {s} /\ heartbeat' = Unsent
  /\ UNCHANGED <<masked, next, starts>>

\* and the destructor clears the mask
Destroy(s) ==
  /\ s \in masked \ alive
  /\ masked' = masked \ {s} /\ heartbeat' = Unsent
  /\ UNCHANGED <<alive, reporting, next, starts>>

-----------------------------------------------------------------------------
(* The scan.                                                               *)

\* A group's words and streams are met in order, from the group of the start.
Turn(g) == (g + Groups - Group(next)) % Groups
WordTurn(w) == Turn(w \div WordSize) * WordSize + WordInGroup(w)

\* The words of the first loop.  The offset of the starting word counts in the
\* first group that has any word.
LoopWords ==
  LET ofFirst == {w \in Words : \A v \in Words : Turn(w \div WordSize) <= Turn(v \div WordSize)}
  IN {w \in Words : w \in ofFirst => WordInGroup(w) >= WordInGroup(Word(next))}

\* The offset of the starting bit counts in the first word that is not empty.
Loop ==
  LET words == LoopWords
      first == {w \in words : \A v \in words : WordTurn(w) <= WordTurn(v)}
  IN {s \in masked : Word(s) \in words /\ (Word(s) \in first => Bit(s) >= Bit(next))}

\* The second loop: what comes before the starting stream in its group
LeftOver == {s \in masked : Group(s) = Group(next) /\ s < next}

\* The streams of a loop that have something to append, in the order they are asked
InOrder(streams) ==
  SetToSortSeq(streams \cap reporting,
               LAMBDA s, t : WordTurn(Word(s)) * WordSize + Bit(s) < WordTurn(Word(t)) * WordSize + Bit(t))

\* What the first n blocks take
Total(asked, size, n) == MapThenSumSet(LAMBDA k : size[asked[k]], 1 .. n)

\* append_heartbeat_data: the first block is forced
Fits(asked, size, n) == n = 1 \/ Total(asked, size, n) <= Capacity

\* Seeded bug: the scan always starts at the first stream.
ResumeAtFirst(s) == 0

\* _next_stream_to_heartbeat after a heartbeat into which s did not fit
ResumeAt(s) == s

SendHeartbeat(asked, size) ==
  LET unfit == {k \in 1 .. Len(asked) : ~Fits(asked, size, k)}
      first == CHOOSE k \in unfit : \A j \in unfit : k <= j
      fits == 1 .. IF unfit = {} THEN Len(asked) ELSE first - 1
  IN /\ heartbeat' = [start |-> next, blocks |-> [k \in fits |-> asked[k]], full |-> unfit # {}]
     /\ next' = IF unfit = {} THEN next ELSE ResumeAt(asked[first])

Heartbeat ==
  /\ UNCHANGED <<masked, alive, reporting, starts>>
  /\ \E asked \in {InOrder(Loop) \o InOrder(LeftOver)}, size \in [reporting -> Sizes] :
       SendHeartbeat(asked, size)

-----------------------------------------------------------------------------
Init == /\ masked = {} /\ alive = {} /\ reporting = {}
        /\ next = 0 /\ heartbeat = Unsent /\ starts = 0

Next == \/ \E s \in Streams : Activate(s) \/ Opens(s) \/ Expire(s) \/ Destroy(s)
        \/ Heartbeat

Spec == Init /\ [][Next]_vars

\* The connection's thread sends heartbeats.  One that leaves every variable as it
\* is reports again what the one before it did.
FairSpec == Spec /\ WF_vars(Heartbeat) /\ \A s \in Streams : WF_vars(Destroy(s))

-----------------------------------------------------------------------------
(* Correctness.                                                            *)

\* A stream that did not fit is not passed over: every reliable stream is
\* reported again and again, however large the blocks of the others are, but for
\* one case that is excepted.  While the word of the stream the scan starts from is
\* empty, as after that stream ended alone in its word, no claim is made: the offset
\* of the bit is then applied to the next word that is not empty, and in the first
\* group that has any word the offset of the word (scorpio_udp.cpp:1514-1531).  The
\* second loop makes up only for streams that precede the starting one in its group:
\* any other that is before these offsets is passed over, in every scan.
EveryStreamIsHeard ==
  \A s \in Streams :
    <>[](s \in reporting /\ Word(next) \in Words) => []<>(s \in ToSet(heartbeat.blocks))
=============================================================================
