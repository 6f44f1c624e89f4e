------------------------- MODULE MCUnreliableStream -------------------------
EXTENDS UnreliableStream
=============================================================================
