---------------------------- MODULE MCEagerSelect ----------------------------
(* A small instance of EagerSelect.                                         *)
EXTENDS EagerSelect
==============================================================================
