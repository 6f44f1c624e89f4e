------------------------------- MODULE Orderer -------------------------------
(***************************************************************************)
(* scorpio_utils::network::Orderer<T> (network/orderer.hpp): the reorder   *)
(* buffer of a reliable stream.  A ring of `size' optional slots, a count  *)
(* of the full ones, and the list of held index ranges that heartbeats     *)
(* report to the peer, which add() and next() keep up to date              *)
(* incrementally instead of scanning the ring.                             *)
(*                                                                         *)
(* `out' is a history variable, the values next() has handed out; the      *)
(* reorder counter, which only diagnostics read, is left out.              *)
(***************************************************************************)
EXTENDS Integers, Sequences, FiniteSets

CONSTANTS Indices, Values, Sizes, None

ASSUME OrdererAssumption ==
  /\ Indices \subseteq Nat
  /\ Sizes \subseteq Nat \ {0}
  /\ None \notin Values

VARIABLES data,    \* _data: slot |-> value or None
          size,    \* _data.size()
          cur,     \* _current_index
          count,   \* _current_count
          ranges,  \* _held_ranges: sequence of <<begin, end>>, end exclusive
          out,     \* history: the values returned by next()
          answer   \* the last operation and what it returned

vars == <<data, size, cur, count, ranges, out, answer>>

Slot(index) == index % size

-----------------------------------------------------------------------------
(* The list of held ranges.                                                *)

\* std::upper_bound: the first range that begins after index, or the end
UpperBound(r, index) ==
  CHOOSE k \in 1 .. Len(r) + 1 :
    /\ \A j \in 1 .. k - 1 : r[j][1] <= index
    /\ \A j \in k .. Len(r) : index < r[j][1]

InsertRange(r, k, range) ==
  [j \in 1 .. Len(r) + 1 |->
     IF j < k THEN r[j] ELSE IF j = k THEN range ELSE r[j - 1]]

EraseRange(r, k) ==
  [j \in 1 .. Len(r) - 1 |-> IF j < k THEN r[j] ELSE r[j + 1]]

\* grow the range that ends at index, or start one of its own: the list, and
\* the position of the range that now ends at index + 1
Absorb(r, index) ==
  LET k == UpperBound(r, index) IN
  IF k > 1 /\ r[k - 1][2] = index
  THEN [list |-> [r EXCEPT ![k - 1] = <<r[k - 1][1], index + 1>>], at |-> k - 1]
  ELSE [list |-> InsertRange(r, k, <<index, index + 1>>), at |-> k]

\* join the range at position k with its successor when they touch
JoinNext(r, k) ==
  IF k < Len(r) /\ r[k][2] = r[k + 1][1]
  THEN EraseRange([r EXCEPT ![k] = <<r[k][1], r[k + 1][2]>>], k + 1)
  ELSE r

InsertIntoRanges(r, index) ==
  LET a == Absorb(r, index) IN JoinNext(a.list, a.at)

\* Seeded bug: a range is dropped as soon as its first index is consumed.
ConsumeWholeRange(r, index) ==
  IF r # <<>> /\ r[1][1] < index THEN EraseRange(r, 1) ELSE r

\* what is left of the list once everything below `index' has been consumed
ConsumeBelow(r, index) ==
  IF r # <<>> /\ r[1][1] < index
  THEN IF r[1][2] <= index
       THEN EraseRange(r, 1)
       ELSE [r EXCEPT ![1] = <<index, r[1][2]>>]
  ELSE r

\* get_contained(): the consumed prefix, joined with the first held range
\* when that begins where the prefix ends, and the other held ranges
Contained ==
  IF ranges # <<>> /\ ranges[1][1] = cur
  THEN [ranges EXCEPT ![1] = <<0, ranges[1][2]>>]
  ELSE <<(<<0, cur>>)>> \o ranges

-----------------------------------------------------------------------------
Init == /\ size \in Sizes
        /\ data = [s \in 0 .. size - 1 |-> None]
        /\ cur = 0
        /\ count = 0
        /\ ranges = <<>>
        /\ out = <<>>
        /\ answer = <<"ctor", None>>

Reject(verdict) ==
  /\ answer' = <<"add", verdict>>
  /\ UNCHANGED <<data, size, cur, count, ranges, out>>

Add(index, value) ==
  \/ index < cur /\ Reject("TOO_OLD")
  \/ index >= cur + size /\ Reject("TOO_NEW")
  \/ /\ cur <= index /\ index < cur + size
     /\ data[Slot(index)] # None
     /\ Reject("ALREADY_PRESENT")
  \/ /\ cur <= index /\ index < cur + size
     /\ data[Slot(index)] = None
     /\ data' = [data EXCEPT ![Slot(index)] = value]
     /\ count' = count + 1
     /\ ranges' = InsertIntoRanges(ranges, index)
     /\ answer' = <<"add", "SUCCESS">>
     /\ UNCHANGED <<size, cur, out>>

TakeNext ==
  \/ /\ count = 0 \/ data[Slot(cur)] = None
     /\ answer' = <<"next", None>>
     /\ UNCHANGED <<data, size, cur, count, ranges, out>>
  \/ /\ count # 0 /\ data[Slot(cur)] # None
     /\ data' = [data EXCEPT ![Slot(cur)] = None]
     /\ count' = count - 1
     /\ cur' = cur + 1
     /\ ranges' = ConsumeBelow(ranges, cur + 1)
     /\ out' = Append(out, data[Slot(cur)])
     /\ answer' = <<"next", data[Slot(cur)]>>
     /\ UNCHANGED size

\* Seeded bug: the ring is resized although packets are held in it.
SetSizeAlways(n) ==
  /\ size' = n
  /\ data' = [s \in 0 .. n - 1 |-> IF s < size THEN data[s] ELSE None]
  /\ answer' = <<"set_size", TRUE>>
  /\ UNCHANGED <<cur, count, ranges, out>>

\* vector::resize keeps the slots both sizes have and value-initialises others
SetSize(n) ==
  \/ /\ count # 0
     /\ answer' = <<"set_size", FALSE>>
     /\ UNCHANGED <<data, size, cur, count, ranges, out>>
  \/ /\ count = 0
     /\ size' = n
     /\ data' = [s \in 0 .. n - 1 |-> IF s < size THEN data[s] ELSE None]
     /\ answer' = <<"set_size", TRUE>>
     /\ UNCHANGED <<cur, count, ranges, out>>

Next == \/ \E index \in Indices, value \in Values : Add(index, value)
        \/ TakeNext
        \/ \E n \in Sizes : SetSize(n)

Spec == Init /\ [][Next]_vars

-----------------------------------------------------------------------------
(* Properties.                                                             *)

TypeOK == /\ size \in Sizes
          /\ data \in [0 .. size - 1 -> Values \cup {None}]
          /\ cur \in Nat
          /\ count \in Nat
          /\ ranges \in Seq(Nat \X Nat)
          /\ out \in Seq(Values)

Window == cur .. cur + size - 1

HeldIndices == {i \in Window : data[Slot(i)] # None}

\* The count kept by add() and next() is the number of full slots, which is
\* what makes set_size() refuse, and next() return early, at the right time.
CountIsExact == count = Cardinality(HeldIndices)

Apart(r, least) ==
  /\ \A k \in DOMAIN r : least <= r[k][1] /\ r[k][1] < r[k][2]
  /\ \A j, k \in DOMAIN r : j < k => r[j][2] < r[k][1]

\* The comment on _held_ranges (orderer.hpp:27): sorted, disjoint, not even
\* adjacent, and nothing in them lies below the current index.
RangesApart == Apart(ranges, cur)

Covered(r) == UNION {r[k][1] .. r[k][2] - 1 : k \in DOMAIN r}

\* The incrementally maintained ranges list exactly the indices whose slot is
\* full.  A range too wide makes the peer forget a packet that was lost; one
\* too narrow makes it resend for ever what has arrived.
RangesAreHeldIndices == Covered(ranges) = HeldIndices

\* get_contained(), which the peer's heartbeats carry: a first range from 0
\* and maximal runs after it, together everything received, delivered or not.
ContainedIsExact ==
  /\ Contained[1][1] = 0
  /\ Covered(Contained) = (0 .. cur - 1) \cup HeldIndices
  /\ \A k \in 1 .. Len(Contained) - 1 : Contained[k][2] < Contained[k + 1][1]

\* The ring buffer implements the window of accepted pairs: every verdict of
\* add(), every value next() returns and every answer of set_size() is the
\* one OrdererSpec gives, in particular next() yields the accepted values in
\* index order, each exactly once.
Abstract ==
  INSTANCE OrdererSpec WITH
    accepted <- [i \in (0 .. cur - 1) \cup HeldIndices |->
                   IF i < cur THEN out[i + 1] ELSE data[Slot(i)]]

ImplementsOrdererSpec == Abstract!Spec
==============================================================================
