--------------------------- MODULE TwoSidedVector ----------------------------
(***************************************************************************)
(* geometry::TwoSidedVector (two_sided_vector.hpp): a vector with indices  *)
(* on both sides of a starting point, kept as two vectors.                 *)
(***************************************************************************)
EXTENDS Integers, Sequences

CONSTANTS
  Units,   \* what the ends of a vector may be made with
  Items,   \* what it holds
  NoValue, \* std::nullopt
  MaxSize  \* bound: indices are at most this far from the starting point

ASSUME TwoSidedAssumption ==
  Units \subseteq Int /\ NoValue \notin Items /\ MaxSize \in Nat

VARIABLES
  starting_point,
  non_negative, negative, \* the two vectors
  content                 \* history: what was put at each index
vectorVars == <<starting_point, non_negative, negative, content>>

get_negative_end == starting_point - Len(negative) - 1
get_positive_end == Len(non_negative) + starting_point
is_contained(n) == n < get_positive_end /\ n > get_negative_end

\* Positions in the vectors count from 0.
negative_to_positive(n) == -(n - starting_point + 1)

\* get_val(), get_ptr(), get_mut_ptr()
get_val(n) ==
  IF ~is_contained(n) THEN NoValue
  ELSE IF n < starting_point THEN negative[negative_to_positive(n) + 1]
                             ELSE non_negative[n - starting_point + 1]

Filled(length, v) == [i \in 1 .. length |-> v]

\* The constructors: empty at 0, from one end, from two ends, from values
VectorInit ==
  /\ negative = <<>>
  /\ \E end \in Units, v \in Items, length \in 0 .. MaxSize :
       /\ starting_point \in {0, end + 1}
       /\ non_negative = Filled(length, v)
       /\ content = [n \in starting_point .. starting_point + length - 1 |-> v]

\* v is put at n; at every new index of a range
Holds(n, v) == content' = [i \in DOMAIN content \cup {n} |-> IF i = n THEN v ELSE content[i]]
Gets(new, v) ==
  content' = [i \in DOMAIN content \cup new |-> IF i \in DOMAIN content THEN content[i] ELSE v]

set_value(n, v) ==
  /\ is_contained(n)
  /\ IF n < starting_point
     THEN negative' = [negative EXCEPT ![negative_to_positive(n) + 1] = v] /\ UNCHANGED non_negative
     ELSE non_negative' = [non_negative EXCEPT ![n - starting_point + 1] = v] /\ UNCHANGED negative
  /\ Holds(n, v)
  /\ UNCHANGED starting_point

\* Seeded bug: the index is taken for the size.
ResizedToIndex(s, length, v) == s \o Filled(length - 1 - Len(s), v)

\* std::vector::resize() to more elements
Resized(s, length, v) == s \o Filled(length - Len(s), v)

resize_to_contain(n, v) ==
  /\ \/ /\ n >= get_positive_end
        /\ non_negative' = Resized(non_negative, n - starting_point + 1, v)
        /\ Gets(get_positive_end .. n, v)
        /\ UNCHANGED negative
     \/ /\ n <= get_negative_end
        /\ negative' = Resized(negative, negative_to_positive(n) + 1, v)
        /\ Gets(n .. get_negative_end, v)
        /\ UNCHANGED non_negative
  /\ UNCHANGED starting_point

clear == /\ negative' = <<>> /\ non_negative' = <<>> /\ content' = <<>>
         /\ UNCHANGED starting_point

push_back(v) == /\ Len(non_negative) < MaxSize
                /\ non_negative' = Append(non_negative, v)
                /\ Holds(get_positive_end, v)
                /\ UNCHANGED <<starting_point, negative>>

push_front(v) == /\ Len(negative) < MaxSize
                 /\ negative' = Append(negative, v)
                 /\ Holds(get_negative_end, v)
                 /\ UNCHANGED <<starting_point, non_negative>>

Around == starting_point - MaxSize .. starting_point + MaxSize - 1

VectorNext ==
  \/ \E v \in Items : \/ push_back(v) \/ push_front(v)
                      \/ \E n \in Around : set_value(n, v) \/ resize_to_contain(n, v)
  \/ clear
VectorSpec == VectorInit /\ [][VectorNext]_vectorVars

-----------------------------------------------------------------------------
\* Every index shows what was put there last, and an index where nothing is shows
\* nothing, in whatever order the two sides grow, are filled and are cleared
\* (two_sided_vector.hpp:33-149).
IndicesKeepTheirValues ==
  \A n \in starting_point - MaxSize - 1 .. starting_point + MaxSize :
    get_val(n) = IF n \in DOMAIN content THEN content[n] ELSE NoValue
=============================================================================
