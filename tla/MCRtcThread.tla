--------------------------- MODULE MCRtcThread ---------------------------
(* Three callers, so that both queues can fill up while the loop runs.      *)
EXTENDS RtcThread

CONSTANTS c1, c2, c3
MCCallers == {c1, c2, c3}
==========================================================================
