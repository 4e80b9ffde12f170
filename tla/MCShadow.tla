------------------------------ MODULE MCShadow ------------------------------
(* Constants of the run of Shadow.                                         *)
EXTENDS Shadow

CONSTANTS k1, k2, none

MCKeys == {k1, k2}
MCUses == {<<k1, FALSE>>, <<k1, TRUE>>, <<k2, FALSE>>}
=============================================================================
