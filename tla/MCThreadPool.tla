---------------------------- MODULE MCThreadPool ----------------------------
(* Small pools; the configurations say how often the pool is resized.       *)
EXTENDS ThreadPool
==============================================================================
