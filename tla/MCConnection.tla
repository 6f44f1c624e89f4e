----------------------------- MODULE MCConnection -----------------------------
(* Small instances of Connection; the configurations pick one of the budgets.  *)
EXTENDS Connection

CONSTANTS a, b  \* the two peers

\* (dials of a, dials of b, accepts of an id, ends)
Budget(dialsA, dialsB, accepts, ends) ==
  [dials |-> [p \in Peers |-> IF p = a THEN dialsA ELSE dialsB],
   accepts |-> accepts, ends |-> ends]

\* One side dials again after a crash, a close or an outage; or both dial at once
SafetyBudgets == {Budget(2, 0, 1, 1), Budget(1, 1, 1, 0)}
\* Answers to a dial across a crash; both dial at once
LivenessBudgets == {Budget(1, 0, 2, 1), Budget(1, 1, 1, 0)}
==============================================================================
