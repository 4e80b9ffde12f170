---------------------------- MODULE MCKeepAlive ----------------------------
(* Constants of the model-checking run of KeepAlive.                      *)
EXTENDS KeepAlive

\* The interval just leaves room for an answer and a gap.
MCInterval == 6
MCYieldGap == 2
MCDelay == 3
MCMaxBacklog == 2
=============================================================================
