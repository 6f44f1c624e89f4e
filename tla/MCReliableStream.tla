-------------------------- MODULE MCReliableStream --------------------------
(* A small instance of ReliableStream; the configuration gives the bounds.   *)
EXTENDS ReliableStream
==============================================================================
