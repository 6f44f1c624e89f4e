------------------------------ MODULE MCSignal ------------------------------
(* Three threads on one Signal that starts with a count of up to two.       *)
EXTENDS Signal

==============================================================================
