---------------------------- MODULE MCReconnect ----------------------------
(* Constants of the model-checking runs of Reconnect.                      *)
EXTENDS Reconnect

CONSTANTS t1, t2, none

MCTopics == {t1, t2}
MCNumHandlers == 3

\* In seconds, as in aws_iot_config.h.
MCMinWait == 1
MCMaxWait == 128
=============================================================================
