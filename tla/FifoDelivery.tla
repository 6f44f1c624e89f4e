---------------------------- MODULE FifoDelivery ----------------------------
(***************************************************************************)
(* What a RELIABLE_ORDERED stream promises (SCORPIO_UDP_PROTOCOL.md,       *)
(* "All delivered, in order"), whatever the network does: what the         *)
(* receiving side has consumed is at any time a prefix of what the sending *)
(* side was given, both only ever grow, and nothing is made up, repeated,  *)
(* reordered or left out.                                                  *)
(***************************************************************************)
EXTENDS Integers, Sequences

CONSTANT Packets    \* the packets a message may be made of

VARIABLES sent,     \* every packet of every message given to the stream
          received  \* the packets consumed by the receiving side

vars == <<sent, received>>

Init == sent = <<>> /\ received = <<>>

Send == /\ \E n \in 1 .. Len(sent') : sent = SubSeq(sent', 1, Len(sent') - n)
        /\ \A k \in 1 .. Len(sent') : sent'[k] \in Packets
        /\ UNCHANGED received

Receive == /\ \E n \in Len(received) + 1 .. Len(sent) :
                received' = SubSeq(sent, 1, n)
           /\ UNCHANGED sent

Next == Send \/ Receive

Spec == Init /\ [][Next]_vars
==============================================================================
