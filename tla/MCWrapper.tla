----------------------------- MODULE MCWrapper -----------------------------
(* The run of Wrapper.                                                     *)
EXTENDS Wrapper
=============================================================================
