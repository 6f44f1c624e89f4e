----------------------------- MODULE OrdererSpec -----------------------------
(***************************************************************************)
(* What scorpio_utils::network::Orderer promises to the stream that owns   *)
(* it, independently of its ring buffer and of its list of held ranges:    *)
(* a set of accepted (index, value) pairs over a sliding window of `size'  *)
(* indices that starts at `cur'.                                           *)
(*                                                                         *)
(*   add(index, value)  accepts the pair iff the index lies in the window  *)
(*                      and holds nothing yet, and says why otherwise;     *)
(*   next()             hands out the value accepted for `cur', once;      *)
(*   set_size(n)        resizes the window, only while nothing is held.    *)
(***************************************************************************)
EXTENDS Integers

CONSTANTS Indices,  \* the indices a caller may pass to add()
          Values,   \* the values that are ordered
          Sizes,    \* the buffer sizes that may be asked for
          None      \* std::nullopt

VARIABLES cur,       \* the index next() waits for
          size,      \* the length of the window
          accepted,  \* index |-> value, everything add() ever took
          answer     \* the last operation and what it returned

vars == <<cur, size, accepted, answer>>

Verdict(index) ==
  IF index < cur THEN "TOO_OLD"
  ELSE IF cur + size <= index THEN "TOO_NEW"
  ELSE IF index \in DOMAIN accepted THEN "ALREADY_PRESENT"
  ELSE "SUCCESS"

Held == {i \in DOMAIN accepted : i >= cur}

Init == /\ cur = 0
        /\ size \in Sizes
        /\ accepted = [i \in {} |-> None]
        /\ answer = <<"ctor", None>>

Add(index, value) ==
  /\ answer' = <<"add", Verdict(index)>>
  /\ accepted' = IF Verdict(index) = "SUCCESS"
                 THEN [i \in DOMAIN accepted \cup {index} |->
                         IF i = index THEN value ELSE accepted[i]]
                 ELSE accepted
  /\ UNCHANGED <<cur, size>>

TakeNext ==
  \/ /\ cur \in DOMAIN accepted
     /\ answer' = <<"next", accepted[cur]>>
     /\ cur' = cur + 1
     /\ UNCHANGED <<size, accepted>>
  \/ /\ cur \notin DOMAIN accepted
     /\ answer' = <<"next", None>>
     /\ UNCHANGED <<cur, size, accepted>>

SetSize(n) ==
  /\ answer' = <<"set_size", Held = {}>>
  /\ size' = IF Held = {} THEN n ELSE size
  /\ UNCHANGED <<cur, accepted>>

Next == \/ \E index \in Indices, value \in Values : Add(index, value)
        \/ TakeNext
        \/ \E n \in Sizes : SetSize(n)

Spec == Init /\ [][Next]_vars
==============================================================================
