----------------------------- MODULE MCWaitGroup -----------------------------
(* A group of a future and of another group, which has the same future and  *)
(* one with a value; a client that fills them and one that waits.           *)
EXTENDS WaitGroup
CONSTANTS f1, f2, g1, g2
MCWanted == g1 :> {f1, g2} @@ g2 :> {f1, f2}
==============================================================================
