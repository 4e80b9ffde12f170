----------------------------- MODULE MCFraming -----------------------------
(* Instances of Framing with a buffer of 8 bytes and lengths in radix 4.   *)
EXTENDS Framing

CONSTANT garbage

\* In the order of the branches: no body, one byte of length, two bytes that
\* just fit, a body shorter than the buffer that does not fit, dropped in one
\* full buffer, in one and a byte, in three.
MCPackets == {0, 3, 4, 6, 8, 9, 17}
=============================================================================
