--------------------------- MODULE ThreadCalls ---------------------------
(* What Backend and the proxies expect of an rtc::Thread, without queues,   *)
(* locks and wake-ups: calls run one at a time, each at most once, a call   *)
(* returns only after it has run, and nothing runs once Stop has returned.  *)
(* A call that has not run when the thread stops may stay pending.          *)
CONSTANT Callers

VARIABLES call, thread

callVars == <<call, thread>>

CallsInit == call = [c \in Callers |-> "idle"] /\ thread = "running"

Moves(c, from, to) == call[c] = from /\ call' = [call EXCEPT ![c] = to]

Call(c) == thread # "deleted" /\ Moves(c, "idle", "pending") /\ UNCHANGED thread

Execute(c) ==
    /\ thread \in {"running", "quitting"}
    /\ \A d \in Callers : call[d] # "executing"
    /\ Moves(c, "pending", "executing")
    /\ UNCHANGED thread

Finish(c) ==
    /\ thread \in {"running", "quitting"}
    /\ Moves(c, "executing", "done")
    /\ UNCHANGED thread

Returns(c) == Moves(c, "done", "idle") /\ UNCHANGED thread

StopCalled == thread = "running" /\ thread' = "quitting" /\ UNCHANGED call

StopDone ==
    /\ thread = "quitting" /\ thread' = "stopped"
    /\ \A c \in Callers : call[c] # "executing"
    /\ UNCHANGED call

Deleted == thread = "stopped" /\ thread' = "deleted" /\ UNCHANGED call

CallsNext ==
    \/ \E c \in Callers : Call(c) \/ Execute(c) \/ Finish(c) \/ Returns(c)
    \/ StopCalled \/ StopDone \/ Deleted

CallsSpec == CallsInit /\ [][CallsNext]_callVars
==========================================================================
