---------------------------- MODULE RtcThread ----------------------------
(* One rtc::Thread of rtc_base: its message loop, the threads that call     *)
(* into it (Thread::Send, and the Post and wait of the proxies'             *)
(* SynchronousMethodCall), and the owner that stops it.  Backend creates    *)
(* three of them and every call on the PeerConnection goes through one.     *)
(* The handlers of these calls send nothing back to their callers.          *)
EXTENDS Naturals, Sequences

CONSTANT Callers

VARIABLES
    stop,      \* stop_
    loop,      \* where the message loop is
    signaled,  \* the socket server's event: WakeUp sets it, Wait resets it
    sendlist,  \* callers whose Send is queued
    msgq,      \* callers whose posted call is queued
    caller,    \* where each caller is
    current,   \* the callers whose handler runs: none or one
    ready,     \* callers whose handler returned
    owner      \* where the owner is

threadVars == <<stop, loop, signaled, sendlist, msgq, caller, current, ready, owner>>

ThreadInit ==
    /\ stop = FALSE /\ loop = "receive" /\ signaled = FALSE
    /\ sendlist = <<>> /\ msgq = <<>>
    /\ caller = [c \in Callers |-> "idle"]
    /\ current = {} /\ ready = {} /\ owner = "running"

Step(c, from, to) == caller[c] = from /\ caller' = [caller EXCEPT ![c] = to]

IsQuitting == stop

--------------------------------------------------------------------------
(* Thread::Send: not at all when the thread is quitting; otherwise the      *)
(* message is queued, the loop woken, and the caller waits for ready.       *)

SendBegins(c) ==
    /\ owner # "deleted" /\ ~IsQuitting
    /\ Step(c, "idle", "sending")
    /\ UNCHANGED <<stop, loop, signaled, sendlist, msgq, current, ready, owner>>

SendQueues(c) ==
    /\ Step(c, "sending", "queued")
    /\ sendlist' = Append(sendlist, c)
    /\ UNCHANGED <<stop, loop, signaled, msgq, current, ready, owner>>

(* SynchronousMethodCall::Invoke: MessageQueue::Post drops the message when *)
(* the thread is quitting, and the caller waits all the same.               *)

InvokeBegins(c) ==
    /\ owner # "deleted"
    /\ Step(c, "idle", IF IsQuitting THEN "waiting" ELSE "posting")
    /\ UNCHANGED <<stop, loop, signaled, sendlist, msgq, current, ready, owner>>

PostQueues(c) ==
    /\ Step(c, "posting", "queued")
    /\ msgq' = Append(msgq, c)
    /\ UNCHANGED <<stop, loop, signaled, sendlist, current, ready, owner>>

(* Mutant: the loop is not woken. *)
NoWakeUp(c) ==
    /\ Step(c, "queued", "waiting")
    /\ UNCHANGED <<stop, loop, signaled, sendlist, msgq, current, ready, owner>>

(* WakeUpSocketServer, after either queue was filled. *)
WakeUp(c) ==
    /\ Step(c, "queued", "waiting")
    /\ signaled' = TRUE
    /\ UNCHANGED <<stop, loop, sendlist, msgq, current, ready, owner>>

(* Mutant: a caller that is woken does not look whether its call ran. *)
ReturnsWoken(c) ==
    /\ Step(c, "waiting", "idle")
    /\ ready' = ready \ {c}
    /\ UNCHANGED <<stop, loop, signaled, sendlist, msgq, current, owner>>

(* The caller's wait is one step: the loop that serves what this thread     *)
(* sends back and looks at ready whenever its wait on the socket server     *)
(* ends or fails, and the wake-up the caller then gives itself.             *)
Return(c) ==
    /\ c \in ready
    /\ Step(c, "waiting", "idle")
    /\ ready' = ready \ {c}
    /\ UNCHANGED <<stop, loop, signaled, sendlist, msgq, current, owner>>

--------------------------------------------------------------------------
(* The loop: ReceiveSends, then one message of the queue, dispatched by     *)
(* ProcessMessages, then again; with both empty it exits or sleeps.  The    *)
(* lock is not held while a handler runs.                                   *)

(* Mutant: the whole list is taken and dispatched at once. *)
ReceiveAllSends ==
    /\ loop = "receive"
    /\ current' = {sendlist[i] : i \in 1 .. Len(sendlist)}
    /\ sendlist' = <<>>
    /\ loop' = IF sendlist = <<>> THEN "queue" ELSE "dispatch"
    /\ UNCHANGED <<stop, signaled, msgq, caller, ready, owner>>

ReceiveSends ==
    /\ loop = "receive"
    /\ IF sendlist = <<>>
       THEN loop' = "queue" /\ UNCHANGED <<sendlist, current>>
       ELSE /\ current' = {Head(sendlist)}
            /\ sendlist' = Tail(sendlist)
            /\ loop' = "dispatch"
    /\ UNCHANGED <<stop, signaled, msgq, caller, ready, owner>>

Get ==
    /\ loop = "queue"
    /\ IF msgq = <<>>
       THEN loop' = "check" /\ UNCHANGED <<msgq, current>>
       ELSE /\ current' = {Head(msgq)}
            /\ msgq' = Tail(msgq)
            /\ loop' = "dispatch"
    /\ UNCHANGED <<stop, signaled, sendlist, caller, ready, owner>>

(* Mutant: ready is not set. *)
DispatchSilently ==
    /\ loop = "dispatch"
    /\ current' = {} /\ loop' = "receive"
    /\ UNCHANGED <<stop, signaled, sendlist, msgq, caller, ready, owner>>

(* The handler returns and the caller's ready flag or event is set.  After  *)
(* a Send the loop goes on with the sends, after a message Get begins with  *)
(* them: the next step is the same.                                         *)
Dispatch ==
    /\ loop = "dispatch"
    /\ ready' = ready \cup current
    /\ current' = {} /\ loop' = "receive"
    /\ UNCHANGED <<stop, signaled, sendlist, msgq, caller, owner>>

CheckQuitting ==
    /\ loop = "check"
    /\ loop' = IF IsQuitting THEN "exited" ELSE "wait"
    /\ UNCHANGED <<stop, signaled, sendlist, msgq, caller, current, ready, owner>>

Wait ==
    /\ loop = "wait" /\ signaled
    /\ signaled' = FALSE /\ loop' = "receive"
    /\ UNCHANGED <<stop, sendlist, msgq, caller, current, ready, owner>>

--------------------------------------------------------------------------
(* The owner: Thread::Stop is Quit and Join; ~Thread then empties the       *)
(* message queue, but not the list of sends.                                *)

Quit ==
    /\ owner = "running"
    /\ stop' = TRUE /\ owner' = "quitting"
    /\ UNCHANGED <<loop, signaled, sendlist, msgq, caller, current, ready>>

(* Mutant: Quit does not wake the loop. *)
QuitSleeps ==
    /\ owner = "quitting"
    /\ owner' = "joining"
    /\ UNCHANGED <<stop, loop, signaled, sendlist, msgq, caller, current, ready>>

QuitWakes ==
    /\ owner = "quitting"
    /\ signaled' = TRUE /\ owner' = "joining"
    /\ UNCHANGED <<stop, loop, sendlist, msgq, caller, current, ready>>

(* Mutant: Join does not wait. *)
JoinAtOnce ==
    /\ owner = "joining"
    /\ owner' = "joined"
    /\ UNCHANGED <<stop, loop, signaled, sendlist, msgq, caller, current, ready>>

Join ==
    /\ owner = "joining" /\ loop = "exited"
    /\ owner' = "joined"
    /\ UNCHANGED <<stop, loop, signaled, sendlist, msgq, caller, current, ready>>

(* The thread is deleted while nobody is inside one of its methods (a       *)
(* caller that waits is inside Event::Wait, or polls its own ready flag).   *)
DoDestroy ==
    /\ owner = "joined"
    /\ \A c \in Callers : caller[c] \in {"idle", "waiting"}
    /\ msgq' = <<>> /\ owner' = "deleted"
    /\ UNCHANGED <<stop, loop, signaled, sendlist, caller, current, ready>>

--------------------------------------------------------------------------
LoopGoesOn == ReceiveSends \/ Get \/ Dispatch \/ CheckQuitting \/ Wait
CallerGoesOn(c) == SendQueues(c) \/ PostQueues(c) \/ WakeUp(c) \/ Return(c)
OwnerGoesOn == QuitWakes \/ Join

ThreadNext ==
    \/ LoopGoesOn
    \/ \E c \in Callers : CallerGoesOn(c) \/ SendBegins(c) \/ InvokeBegins(c)
    \/ Quit \/ OwnerGoesOn \/ DoDestroy

(* Every thread that can run is scheduled; nobody has to call or to stop.   *)
ThreadSpec ==
    /\ ThreadInit /\ [][ThreadNext]_threadVars
    /\ WF_threadVars(LoopGoesOn) /\ WF_threadVars(OwnerGoesOn)
    /\ \A c \in Callers : WF_threadVars(CallerGoesOn(c))

--------------------------------------------------------------------------
(* Every variable keeps its type. *)
ThreadTypeOK ==
    /\ stop \in BOOLEAN /\ signaled \in BOOLEAN
    /\ loop \in {"receive", "queue", "dispatch", "check", "wait", "exited"}
    /\ sendlist \in Seq(Callers) /\ msgq \in Seq(Callers)
    /\ caller \in [Callers -> {"idle", "sending", "posting", "queued", "waiting"}]
    /\ current \in {{}} \cup {{c} : c \in Callers} /\ ready \subseteq Callers
    /\ owner \in {"running", "quitting", "joining", "joined", "deleted"}

In(c, q) == \E i \in 1 .. Len(q) : q[i] = c

(* No wake-up is lost: a loop that sleeps with its event reset has nothing  *)
(* to do, or the one who gave it something is about to wake it.             *)
NoLostWakeUp ==
    loop = "wait" /\ ~signaled =>
        /\ sendlist # <<>> \/ msgq # <<>>
               => \E c \in Callers : caller[c] = "queued"
        /\ stop => owner = "quitting"

(* A caller that waits is in a queue, in its handler or was told that it    *)
(* ran, unless the thread was told to stop: nothing else loses a call.      *)
NoLostCall ==
    \A c \in Callers : caller[c] = "waiting" =>
        stop \/ c \in ready \cup current \/ In(c, sendlist) \/ In(c, msgq)

(* What Join is for: when Stop has returned no handler runs on the thread.  *)
NothingRunsAfterStop ==
    owner \in {"joined", "deleted"} => current = {} /\ loop = "exited"

(* Stop returns, whatever the callers do meanwhile. *)
StopReturns == owner = "quitting" ~> owner = "joined"

(* Every Send returns while nobody stops the thread, however many others    *)
(* send and post.                                                           *)
SendsReturn ==
    \A c \in Callers : In(c, sendlist) ~> (caller[c] = "idle" \/ stop)

(* ReceiveSends goes on as long as there are sends, so a posted call only   *)
(* returns for certain when the sends pause.                                *)
PostsReturn ==
    \/ []<>(sendlist # <<>>)
    \/ \A c \in Callers : In(c, msgq) ~> (caller[c] = "idle" \/ stop)

(* The refinement mapping to ThreadCalls. *)
AbsCall ==
    [c \in Callers |->
        IF caller[c] = "idle" THEN "idle"
        ELSE IF c \in current THEN "executing"
        ELSE IF c \in ready THEN "done" ELSE "pending"]

AbsThread ==
    CASE owner = "running" -> "running"
      [] owner \in {"quitting", "joining"} -> "quitting"
      [] owner = "joined" -> "stopped"
      [] owner = "deleted" -> "deleted"

Abs == INSTANCE ThreadCalls WITH call <- AbsCall, thread <- AbsThread

(* The queues, the wake-ups and the quit flag implement ThreadCalls: every  *)
(* call runs at most once and alone, returns only after it ran, and nothing *)
(* runs after Stop.                                                         *)
ImplementsCalls == Abs!CallsSpec
==========================================================================
