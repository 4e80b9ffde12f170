----------------------------- MODULE MCRequests -----------------------------
(* Constants of the run of Requests.                                       *)
EXTENDS Requests

CONSTANTS t1, t2, none

MCTopics == {t1, t2}
=============================================================================
