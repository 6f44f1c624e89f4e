---------------------------- MODULE BoundedQueue ----------------------------
(***************************************************************************)
(* What Channel<T, Size> promises its senders and receivers: a FIFO queue  *)
(* of at most Size items from which each item is reserved by one receiver, *)
(* in order, and then returned to that receiver and to no other.           *)
(***************************************************************************)
EXTENDS Integers, Sequences

CONSTANTS Receivers, Items, Size, Nothing

VARIABLES queue,     \* accepted items that no receiver has reserved
          reserved,  \* receiver |-> the item it is about to return, or Nothing
          got        \* receiver |-> the item it returned last, or Nothing

vars == <<queue, reserved, got>>

Init == /\ queue = <<>>
        /\ reserved = [r \in Receivers |-> Nothing]
        /\ got = [r \in Receivers |-> Nothing]

Send == /\ Len(queue) < Size
        /\ \E item \in Items : queue' = Append(queue, item)
        /\ UNCHANGED <<reserved, got>>

Reserve(r) == /\ queue # <<>> /\ reserved[r] = Nothing
              /\ reserved' = [reserved EXCEPT ![r] = Head(queue)]
              /\ queue' = Tail(queue)
              /\ UNCHANGED got

Return(r) == /\ reserved[r] # Nothing
             /\ got' = [got EXCEPT ![r] = reserved[r]]
             /\ reserved' = [reserved EXCEPT ![r] = Nothing]
             /\ UNCHANGED queue

Next == Send \/ \E r \in Receivers : Reserve(r) \/ Return(r)

Spec == Init /\ [][Next]_vars
==============================================================================
