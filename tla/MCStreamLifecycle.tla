------------------------- MODULE MCStreamLifecycle -------------------------
EXTENDS StreamLifecycle

CONSTANTS d, a, q1, q2

\* Distinct seeds: the same one at both ends has one chance in 256.
Seeds == [p \in Peers |-> IF p = d THEN 0 ELSE 2]

Budget(createsD, createsA, accepts, qos, ends) ==
  [creates |-> [p \in Peers |-> IF p = d THEN createsD ELSE createsA],
   accepts |-> [p \in Peers |-> accepts], qos |-> qos, ends |-> ends]

\* One end creates a stream again; both create at once, of the same or of another
\* quality of service.
LifecycleBudgets ==
  {Budget(2, 0, 1, {q1}, 1), Budget(2, 0, 2, {q2}, 1),
   Budget(1, 1, 1, {q1}, 1), Budget(1, 1, 1, {q1, q2}, 0)}
=============================================================================
