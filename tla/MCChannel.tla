------------------------------ MODULE MCChannel ------------------------------
(* A small instance of Channel.                                              *)
EXTENDS Channel
==============================================================================
