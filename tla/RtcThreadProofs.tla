------------------------- MODULE RtcThreadProofs -------------------------
(* The invariants of RtcThread and its refinement of ThreadCalls, for any   *)
(* set of callers.                                                          *)
EXTENDS RtcThread, TLAPS

--------------------------------------------------------------------------
(* Queues.                                                                  *)

Distinct(q) == \A i, j \in 1 .. Len(q) : q[i] = q[j] => i = j

(* Appending a message (sendlist_.push_back, msgq_.push_back) adds it to    *)
(* the queue and nothing else, and keeps a queue of distinct callers so.    *)
LEMMA AppendFacts ==
    ASSUME NEW S, NEW q \in Seq(S), NEW e \in S
    PROVE  /\ Append(q, e) \in Seq(S)
           /\ Append(q, e) # <<>>
           /\ \A c : In(c, Append(q, e)) <=> In(c, q) \/ c = e
           /\ Distinct(q) /\ ~In(e, q) => Distinct(Append(q, e))
<1> DEFINE a == Append(q, e)
<1>1. /\ a \in Seq(S)
      /\ Len(q) \in Nat /\ Len(a) = Len(q) + 1
      /\ \A i \in 1 .. Len(q) : a[i] = q[i]
      /\ a[Len(q) + 1] = e
  OBVIOUS
<1>2. a # <<>>
  BY <1>1
<1>3. ASSUME NEW c PROVE In(c, a) <=> In(c, q) \/ c = e
  <2>1. In(c, a) => In(c, q) \/ c = e
    BY <1>1 DEF In
  <2>2. In(c, q) => In(c, a)
    BY <1>1 DEF In
  <2>3. c = e => In(c, a)
    <3>1. Len(q) + 1 \in 1 .. Len(a)
      BY <1>1
    <3> QED BY <1>1, <3>1 DEF In
  <2> QED BY <2>1, <2>2, <2>3
<1>4. ASSUME Distinct(q), ~In(e, q) PROVE Distinct(a)
  BY <1>1, <1>4 DEF Distinct, In
<1> QED BY <1>1, <1>2, <1>3, <1>4

(* Taking the first message off a queue (PopSendMessageFromThread, and      *)
(* msgq_.pop_front in Get) removes that caller only.                        *)
LEMMA TailFacts ==
    ASSUME NEW S, NEW q \in Seq(S), q # <<>>
    PROVE  /\ Tail(q) \in Seq(S)
           /\ Head(q) \in S
           /\ \A c : In(c, q) <=> c = Head(q) \/ In(c, Tail(q))
           /\ Distinct(q) => Distinct(Tail(q)) /\ ~In(Head(q), Tail(q))
<1> DEFINE t == Tail(q)
<1>1. /\ t \in Seq(S) /\ Head(q) \in S /\ Head(q) = q[1]
      /\ Len(q) \in Nat /\ Len(q) > 0 /\ Len(t) = Len(q) - 1
      /\ \A i \in 1 .. Len(t) : t[i] = q[i + 1]
  OBVIOUS
<1>2. ASSUME NEW c PROVE In(c, q) <=> c = Head(q) \/ In(c, t)
  <2>1. ASSUME In(c, q) PROVE c = Head(q) \/ In(c, t)
    <3>1. PICK i \in 1 .. Len(q) : q[i] = c
      BY <2>1 DEF In
    <3>2. CASE i = 1
      BY <1>1, <3>1, <3>2
    <3>3. CASE i # 1
      <4>1. i - 1 \in 1 .. Len(t) /\ t[i - 1] = q[i]
        BY <1>1, <3>1, <3>3
      <4> QED BY <3>1, <4>1 DEF In
    <3> QED BY <3>2, <3>3
  <2>2. c = Head(q) => In(c, q)
    <3>1. 1 \in 1 .. Len(q)
      BY <1>1
    <3> QED BY <1>1, <3>1 DEF In
  <2>3. ASSUME In(c, t) PROVE In(c, q)
    <3>1. PICK i \in 1 .. Len(t) : t[i] = c
      BY <2>3 DEF In
    <3>2. i + 1 \in 1 .. Len(q) /\ q[i + 1] = c
      BY <1>1, <3>1
    <3> QED BY <3>2 DEF In
  <2> QED BY <2>1, <2>2, <2>3
<1>3. ASSUME Distinct(q) PROVE Distinct(t) /\ ~In(Head(q), t)
  <2>1. Distinct(t)
    BY <1>1, <1>3 DEF Distinct
  <2>2. ~In(Head(q), t)
    BY <1>1, <1>3 DEF Distinct, In
  <2> QED BY <2>1, <2>2
<1> QED BY <1>1, <1>2, <1>3

(* Nobody is in an empty queue. *)
LEMMA EmptyFacts == (\A c : ~In(c, <<>>)) /\ Distinct(<<>>) /\ <<>> \in Seq(Callers)
BY DEF In, Distinct
--------------------------------------------------------------------------
(* The inductive invariant.                                                 *)

Queued(c) == In(c, sendlist) \/ In(c, msgq)
Outside(c) == caller[c] \in {"idle", "sending", "posting"}

(* A call is in at most one place, and in none before it was queued. *)
OnePlace ==
    /\ Distinct(sendlist) /\ Distinct(msgq)
    /\ \A c \in Callers :
        /\ Outside(c) => ~Queued(c) /\ c \notin current \cup ready
        /\ ~(In(c, sendlist) /\ In(c, msgq))
        /\ Queued(c) => c \notin current \cup ready
        /\ ~(c \in current /\ c \in ready)

(* A queued call stays somewhere until it returns. *)
SomePlace ==
    \A c \in Callers : ~Outside(c) => stop \/ c \in ready \cup current \/ Queued(c)

(* Who asks the loop to look again, in each place where it has looked. *)
Woken ==
    /\ ~signaled /\ loop \in {"queue", "check", "wait"} /\ sendlist # <<>>
           => \E c \in Callers : caller[c] = "queued"
    /\ ~signaled /\ loop \in {"check", "wait"} /\ msgq # <<>>
           => \E c \in Callers : caller[c] = "queued"
    /\ ~signaled /\ loop = "wait" /\ stop => owner = "quitting"

Phases ==
    /\ current # {} => loop = "dispatch"
    /\ stop <=> owner # "running"
    /\ loop = "exited" => stop
    /\ owner \in {"joined", "deleted"} => loop = "exited"

TInv == ThreadTypeOK /\ OnePlace /\ SomePlace /\ Woken /\ Phases

(* A new thread satisfies it. *)
LEMMA TInvInit == ThreadInit => TInv
BY EmptyFacts DEF ThreadInit, TInv, ThreadTypeOK, OnePlace, SomePlace, Woken, Phases, Queued, Outside

(* Send found the thread running. *)
LEMMA SendBeginsKeeps ==
    ASSUME TInv, NEW c \in Callers, SendBegins(c)
    PROVE  TInv'
<1>2. ThreadTypeOK'
  BY DEF TInv, ThreadTypeOK, OnePlace, SomePlace, Woken, Phases, Queued, Outside, SendBegins, Step, IsQuitting
<1>3. OnePlace'
  BY DEF TInv, ThreadTypeOK, OnePlace, SomePlace, Woken, Phases, Queued, Outside, SendBegins, Step, IsQuitting
<1>4. SomePlace'
  BY DEF TInv, ThreadTypeOK, OnePlace, SomePlace, Woken, Phases, Queued, Outside, SendBegins, Step, IsQuitting
<1>5. Woken'
  BY DEF TInv, ThreadTypeOK, OnePlace, SomePlace, Woken, Phases, Queued, Outside, SendBegins, Step, IsQuitting
<1>6. Phases'
  BY DEF TInv, ThreadTypeOK, OnePlace, SomePlace, Woken, Phases, Queued, Outside, SendBegins, Step, IsQuitting
<1> QED BY <1>2, <1>3, <1>4, <1>5, <1>6 DEF TInv

(* Post is called, and returns at once if the thread is quitting. *)
LEMMA InvokeBeginsKeeps ==
    ASSUME TInv, NEW c \in Callers, InvokeBegins(c)
    PROVE  TInv'
<1>2. ThreadTypeOK'
  BY DEF TInv, ThreadTypeOK, OnePlace, SomePlace, Woken, Phases, Queued, Outside, InvokeBegins, Step, IsQuitting
<1>3. OnePlace'
  BY DEF TInv, ThreadTypeOK, OnePlace, SomePlace, Woken, Phases, Queued, Outside, InvokeBegins, Step, IsQuitting
<1>4. SomePlace'
  BY DEF TInv, ThreadTypeOK, OnePlace, SomePlace, Woken, Phases, Queued, Outside, InvokeBegins, Step, IsQuitting
<1>5. Woken'
  BY DEF TInv, ThreadTypeOK, OnePlace, SomePlace, Woken, Phases, Queued, Outside, InvokeBegins, Step, IsQuitting
<1>6. Phases'
  BY DEF TInv, ThreadTypeOK, OnePlace, SomePlace, Woken, Phases, Queued, Outside, InvokeBegins, Step, IsQuitting
<1> QED BY <1>2, <1>3, <1>4, <1>5, <1>6 DEF TInv

(* A Send is appended to sendlist_. *)
LEMMA SendQueuesKeeps ==
    ASSUME TInv, NEW c \in Callers, SendQueues(c)
    PROVE  TInv'
<1>1. /\ sendlist' \in Seq(Callers) /\ sendlist' # <<>>
      /\ \A d : In(d, sendlist') <=> In(d, sendlist) \/ d = c
      /\ Distinct(sendlist')
  BY AppendFacts DEF TInv, ThreadTypeOK, OnePlace, Queued, Outside, SendQueues, Step
<1>2. ThreadTypeOK'
  BY <1>1 DEF TInv, ThreadTypeOK, OnePlace, SomePlace, Woken, Phases, Queued, Outside, SendQueues, Step
<1>3. OnePlace'
  BY <1>1 DEF TInv, ThreadTypeOK, OnePlace, SomePlace, Woken, Phases, Queued, Outside, SendQueues, Step
<1>4. SomePlace'
  BY <1>1 DEF TInv, ThreadTypeOK, OnePlace, SomePlace, Woken, Phases, Queued, Outside, SendQueues, Step
<1>5. Woken'
  BY <1>1 DEF TInv, ThreadTypeOK, OnePlace, SomePlace, Woken, Phases, Queued, Outside, SendQueues, Step
<1>6. Phases'
  BY <1>1 DEF TInv, ThreadTypeOK, OnePlace, SomePlace, Woken, Phases, Queued, Outside, SendQueues, Step
<1> QED BY <1>2, <1>3, <1>4, <1>5, <1>6 DEF TInv

(* A message is appended to msgq_. *)
LEMMA PostQueuesKeeps ==
    ASSUME TInv, NEW c \in Callers, PostQueues(c)
    PROVE  TInv'
<1>1. /\ msgq' \in Seq(Callers) /\ msgq' # <<>>
      /\ \A d : In(d, msgq') <=> In(d, msgq) \/ d = c
      /\ Distinct(msgq')
  BY AppendFacts DEF TInv, ThreadTypeOK, OnePlace, Queued, Outside, PostQueues, Step
<1>2. ThreadTypeOK'
  BY <1>1 DEF TInv, ThreadTypeOK, OnePlace, SomePlace, Woken, Phases, Queued, Outside, PostQueues, Step
<1>3. OnePlace'
  BY <1>1 DEF TInv, ThreadTypeOK, OnePlace, SomePlace, Woken, Phases, Queued, Outside, PostQueues, Step
<1>4. SomePlace'
  BY <1>1 DEF TInv, ThreadTypeOK, OnePlace, SomePlace, Woken, Phases, Queued, Outside, PostQueues, Step
<1>5. Woken'
  BY <1>1 DEF TInv, ThreadTypeOK, OnePlace, SomePlace, Woken, Phases, Queued, Outside, PostQueues, Step
<1>6. Phases'
  BY <1>1 DEF TInv, ThreadTypeOK, OnePlace, SomePlace, Woken, Phases, Queued, Outside, PostQueues, Step
<1> QED BY <1>2, <1>3, <1>4, <1>5, <1>6 DEF TInv

(* The event is set. *)
LEMMA WakeUpKeeps ==
    ASSUME TInv, NEW c \in Callers, WakeUp(c)
    PROVE  TInv'
<1>2. ThreadTypeOK'
  BY DEF TInv, ThreadTypeOK, OnePlace, SomePlace, Woken, Phases, Queued, Outside, WakeUp, Step
<1>3. OnePlace'
  BY DEF TInv, ThreadTypeOK, OnePlace, SomePlace, Woken, Phases, Queued, Outside, WakeUp, Step
<1>4. SomePlace'
  BY DEF TInv, ThreadTypeOK, OnePlace, SomePlace, Woken, Phases, Queued, Outside, WakeUp, Step
<1>5. Woken'
  BY DEF TInv, ThreadTypeOK, OnePlace, SomePlace, Woken, Phases, Queued, Outside, WakeUp, Step
<1>6. Phases'
  BY DEF TInv, ThreadTypeOK, OnePlace, SomePlace, Woken, Phases, Queued, Outside, WakeUp, Step
<1> QED BY <1>2, <1>3, <1>4, <1>5, <1>6 DEF TInv

(* The caller goes on. *)
LEMMA ReturnKeeps ==
    ASSUME TInv, NEW c \in Callers, Return(c)
    PROVE  TInv'
<1>2. ThreadTypeOK'
  BY DEF TInv, ThreadTypeOK, OnePlace, SomePlace, Woken, Phases, Queued, Outside, Return, Step
<1>3. OnePlace'
  BY DEF TInv, ThreadTypeOK, OnePlace, SomePlace, Woken, Phases, Queued, Outside, Return, Step
<1>4. SomePlace'
  BY DEF TInv, ThreadTypeOK, OnePlace, SomePlace, Woken, Phases, Queued, Outside, Return, Step
<1>5. Woken'
  BY DEF TInv, ThreadTypeOK, OnePlace, SomePlace, Woken, Phases, Queued, Outside, Return, Step
<1>6. Phases'
  BY DEF TInv, ThreadTypeOK, OnePlace, SomePlace, Woken, Phases, Queued, Outside, Return, Step
<1> QED BY <1>2, <1>3, <1>4, <1>5, <1>6 DEF TInv

(* The loop takes a Send. *)
LEMMA ReceiveSendsKeeps ==
    ASSUME TInv, ReceiveSends
    PROVE  TInv'
<1>1. sendlist # <<>> =>
      /\ sendlist' \in Seq(Callers) /\ Head(sendlist) \in Callers
      /\ \A d : In(d, sendlist) <=> d = Head(sendlist) \/ In(d, sendlist')
      /\ Distinct(sendlist') /\ ~In(Head(sendlist), sendlist')
  <2> SUFFICES ASSUME sendlist # <<>>
               PROVE  /\ sendlist' \in Seq(Callers) /\ Head(sendlist) \in Callers
                      /\ \A d : In(d, sendlist) <=> d = Head(sendlist) \/ In(d, sendlist')
                      /\ Distinct(sendlist') /\ ~In(Head(sendlist), sendlist')
    OBVIOUS
  <2>1. sendlist \in Seq(Callers) /\ Distinct(sendlist) /\ sendlist' = Tail(sendlist)
    BY DEF TInv, ThreadTypeOK, OnePlace, ReceiveSends
  <2> QED BY <2>1, TailFacts
<1>2. ThreadTypeOK'
  BY <1>1 DEF TInv, ThreadTypeOK, OnePlace, SomePlace, Woken, Phases, Queued, Outside, ReceiveSends
<1>3. OnePlace'
  BY <1>1 DEF TInv, ThreadTypeOK, OnePlace, SomePlace, Woken, Phases, Queued, Outside, ReceiveSends
<1>4. SomePlace'
  BY <1>1 DEF TInv, ThreadTypeOK, OnePlace, SomePlace, Woken, Phases, Queued, Outside, ReceiveSends
<1>5. Woken'
  BY <1>1 DEF TInv, ThreadTypeOK, OnePlace, SomePlace, Woken, Phases, Queued, Outside, ReceiveSends
<1>6. Phases'
  BY <1>1 DEF TInv, ThreadTypeOK, OnePlace, SomePlace, Woken, Phases, Queued, Outside, ReceiveSends
<1> QED BY <1>2, <1>3, <1>4, <1>5, <1>6 DEF TInv

(* The loop takes a message. *)
LEMMA GetKeeps ==
    ASSUME TInv, Get
    PROVE  TInv'
<1>1. msgq # <<>> =>
      /\ msgq' \in Seq(Callers) /\ Head(msgq) \in Callers
      /\ \A d : In(d, msgq) <=> d = Head(msgq) \/ In(d, msgq')
      /\ Distinct(msgq') /\ ~In(Head(msgq), msgq')
  <2> SUFFICES ASSUME msgq # <<>>
               PROVE  /\ msgq' \in Seq(Callers) /\ Head(msgq) \in Callers
                      /\ \A d : In(d, msgq) <=> d = Head(msgq) \/ In(d, msgq')
                      /\ Distinct(msgq') /\ ~In(Head(msgq), msgq')
    OBVIOUS
  <2>1. msgq \in Seq(Callers) /\ Distinct(msgq) /\ msgq' = Tail(msgq)
    BY DEF TInv, ThreadTypeOK, OnePlace, Get
  <2> QED BY <2>1, TailFacts
<1>2. ThreadTypeOK'
  BY <1>1 DEF TInv, ThreadTypeOK, OnePlace, SomePlace, Woken, Phases, Queued, Outside, Get
<1>3. OnePlace'
  BY <1>1 DEF TInv, ThreadTypeOK, OnePlace, SomePlace, Woken, Phases, Queued, Outside, Get
<1>4. SomePlace'
  BY <1>1 DEF TInv, ThreadTypeOK, OnePlace, SomePlace, Woken, Phases, Queued, Outside, Get
<1>5. Woken'
  BY <1>1 DEF TInv, ThreadTypeOK, OnePlace, SomePlace, Woken, Phases, Queued, Outside, Get
<1>6. Phases'
  BY <1>1 DEF TInv, ThreadTypeOK, OnePlace, SomePlace, Woken, Phases, Queued, Outside, Get
<1> QED BY <1>2, <1>3, <1>4, <1>5, <1>6 DEF TInv

(* The handler returns. *)
LEMMA DispatchKeeps ==
    ASSUME TInv, Dispatch
    PROVE  TInv'
<1>2. ThreadTypeOK'
  BY DEF TInv, ThreadTypeOK, OnePlace, SomePlace, Woken, Phases, Queued, Outside, Dispatch
<1>3. OnePlace'
  BY DEF TInv, ThreadTypeOK, OnePlace, SomePlace, Woken, Phases, Queued, Outside, Dispatch
<1>4. SomePlace'
  BY DEF TInv, ThreadTypeOK, OnePlace, SomePlace, Woken, Phases, Queued, Outside, Dispatch
<1>5. Woken'
  BY DEF TInv, ThreadTypeOK, OnePlace, SomePlace, Woken, Phases, Queued, Outside, Dispatch
<1>6. Phases'
  BY DEF TInv, ThreadTypeOK, OnePlace, SomePlace, Woken, Phases, Queued, Outside, Dispatch
<1> QED BY <1>2, <1>3, <1>4, <1>5, <1>6 DEF TInv

(* The loop exits, or is about to sleep. *)
LEMMA CheckQuittingKeeps ==
    ASSUME TInv, CheckQuitting
    PROVE  TInv'
<1>2. ThreadTypeOK'
  BY DEF TInv, ThreadTypeOK, OnePlace, SomePlace, Woken, Phases, Queued, Outside, CheckQuitting, IsQuitting
<1>3. OnePlace'
  BY DEF TInv, ThreadTypeOK, OnePlace, SomePlace, Woken, Phases, Queued, Outside, CheckQuitting, IsQuitting
<1>4. SomePlace'
  BY DEF TInv, ThreadTypeOK, OnePlace, SomePlace, Woken, Phases, Queued, Outside, CheckQuitting, IsQuitting
<1>5. Woken'
  BY DEF TInv, ThreadTypeOK, OnePlace, SomePlace, Woken, Phases, Queued, Outside, CheckQuitting, IsQuitting
<1>6. Phases'
  BY DEF TInv, ThreadTypeOK, OnePlace, SomePlace, Woken, Phases, Queued, Outside, CheckQuitting, IsQuitting
<1> QED BY <1>2, <1>3, <1>4, <1>5, <1>6 DEF TInv

(* The loop wakes up. *)
LEMMA WaitKeeps ==
    ASSUME TInv, Wait
    PROVE  TInv'
<1>2. ThreadTypeOK'
  BY DEF TInv, ThreadTypeOK, OnePlace, SomePlace, Woken, Phases, Queued, Outside, Wait
<1>3. OnePlace'
  BY DEF TInv, ThreadTypeOK, OnePlace, SomePlace, Woken, Phases, Queued, Outside, Wait
<1>4. SomePlace'
  BY DEF TInv, ThreadTypeOK, OnePlace, SomePlace, Woken, Phases, Queued, Outside, Wait
<1>5. Woken'
  BY DEF TInv, ThreadTypeOK, OnePlace, SomePlace, Woken, Phases, Queued, Outside, Wait
<1>6. Phases'
  BY DEF TInv, ThreadTypeOK, OnePlace, SomePlace, Woken, Phases, Queued, Outside, Wait
<1> QED BY <1>2, <1>3, <1>4, <1>5, <1>6 DEF TInv

(* The quit flag is set. *)
LEMMA QuitKeeps ==
    ASSUME TInv, Quit
    PROVE  TInv'
<1>2. ThreadTypeOK'
  BY DEF TInv, ThreadTypeOK, OnePlace, SomePlace, Woken, Phases, Queued, Outside, Quit
<1>3. OnePlace'
  BY DEF TInv, ThreadTypeOK, OnePlace, SomePlace, Woken, Phases, Queued, Outside, Quit
<1>4. SomePlace'
  BY DEF TInv, ThreadTypeOK, OnePlace, SomePlace, Woken, Phases, Queued, Outside, Quit
<1>5. Woken'
  BY DEF TInv, ThreadTypeOK, OnePlace, SomePlace, Woken, Phases, Queued, Outside, Quit
<1>6. Phases'
  BY DEF TInv, ThreadTypeOK, OnePlace, SomePlace, Woken, Phases, Queued, Outside, Quit
<1> QED BY <1>2, <1>3, <1>4, <1>5, <1>6 DEF TInv

(* Quit sets the event. *)
LEMMA QuitWakesKeeps ==
    ASSUME TInv, QuitWakes
    PROVE  TInv'
<1>2. ThreadTypeOK'
  BY DEF TInv, ThreadTypeOK, OnePlace, SomePlace, Woken, Phases, Queued, Outside, QuitWakes
<1>3. OnePlace'
  BY DEF TInv, ThreadTypeOK, OnePlace, SomePlace, Woken, Phases, Queued, Outside, QuitWakes
<1>4. SomePlace'
  BY DEF TInv, ThreadTypeOK, OnePlace, SomePlace, Woken, Phases, Queued, Outside, QuitWakes
<1>5. Woken'
  BY DEF TInv, ThreadTypeOK, OnePlace, SomePlace, Woken, Phases, Queued, Outside, QuitWakes
<1>6. Phases'
  BY DEF TInv, ThreadTypeOK, OnePlace, SomePlace, Woken, Phases, Queued, Outside, QuitWakes
<1> QED BY <1>2, <1>3, <1>4, <1>5, <1>6 DEF TInv

(* The loop has exited. *)
LEMMA JoinKeeps ==
    ASSUME TInv, Join
    PROVE  TInv'
<1>2. ThreadTypeOK'
  BY DEF TInv, ThreadTypeOK, OnePlace, SomePlace, Woken, Phases, Queued, Outside, Join
<1>3. OnePlace'
  BY DEF TInv, ThreadTypeOK, OnePlace, SomePlace, Woken, Phases, Queued, Outside, Join
<1>4. SomePlace'
  BY DEF TInv, ThreadTypeOK, OnePlace, SomePlace, Woken, Phases, Queued, Outside, Join
<1>5. Woken'
  BY DEF TInv, ThreadTypeOK, OnePlace, SomePlace, Woken, Phases, Queued, Outside, Join
<1>6. Phases'
  BY DEF TInv, ThreadTypeOK, OnePlace, SomePlace, Woken, Phases, Queued, Outside, Join
<1> QED BY <1>2, <1>3, <1>4, <1>5, <1>6 DEF TInv

(* The message queue is emptied. *)
LEMMA DoDestroyKeeps ==
    ASSUME TInv, DoDestroy
    PROVE  TInv'
<1>2. ThreadTypeOK'
  BY EmptyFacts DEF TInv, ThreadTypeOK, OnePlace, SomePlace, Woken, Phases, Queued, Outside, DoDestroy
<1>3. OnePlace'
  BY EmptyFacts DEF TInv, ThreadTypeOK, OnePlace, SomePlace, Woken, Phases, Queued, Outside, DoDestroy
<1>4. SomePlace'
  BY EmptyFacts DEF TInv, ThreadTypeOK, OnePlace, SomePlace, Woken, Phases, Queued, Outside, DoDestroy
<1>5. Woken'
  BY EmptyFacts DEF TInv, ThreadTypeOK, OnePlace, SomePlace, Woken, Phases, Queued, Outside, DoDestroy
<1>6. Phases'
  BY EmptyFacts DEF TInv, ThreadTypeOK, OnePlace, SomePlace, Woken, Phases, Queued, Outside, DoDestroy
<1> QED BY <1>2, <1>3, <1>4, <1>5, <1>6 DEF TInv

(* Every step of the thread, its callers and its owner keeps TInv. *)
LEMMA TInvNext == TInv /\ [ThreadNext]_threadVars => TInv'
<1> SUFFICES ASSUME TInv, [ThreadNext]_threadVars PROVE TInv'
  OBVIOUS
<1>1. CASE LoopGoesOn
  BY <1>1, ReceiveSendsKeeps, GetKeeps, DispatchKeeps, CheckQuittingKeeps, WaitKeeps DEF LoopGoesOn
<1>2. ASSUME NEW c \in Callers, CallerGoesOn(c) PROVE TInv'
  BY <1>2, SendQueuesKeeps, PostQueuesKeeps, WakeUpKeeps, ReturnKeeps DEF CallerGoesOn
<1>3. ASSUME NEW c \in Callers, SendBegins(c) \/ InvokeBegins(c) PROVE TInv'
  BY <1>3, SendBeginsKeeps, InvokeBeginsKeeps
<1>4. CASE Quit \/ OwnerGoesOn \/ DoDestroy
  BY <1>4, QuitKeeps, QuitWakesKeeps, JoinKeeps, DoDestroyKeeps DEF OwnerGoesOn
<1>5. CASE UNCHANGED threadVars
  BY <1>5 DEF threadVars, TInv, ThreadTypeOK, OnePlace, SomePlace, Woken, Phases, Queued, Outside
<1> QED BY <1>1, <1>2, <1>3, <1>4, <1>5 DEF ThreadNext

(* TInv is an invariant of the thread. *)
THEOREM ThreadInvariance == ThreadSpec => []TInv
<1>1. ThreadInit => TInv
  BY TInvInit
<1>2. TInv /\ [ThreadNext]_threadVars => TInv'
  BY TInvNext
<1> QED BY <1>1, <1>2, PTL DEF ThreadSpec

(* Type correctness, with at most one handler at a time. *)
THEOREM ThreadTypeCorrect == ThreadSpec => []ThreadTypeOK
<1>1. TInv => ThreadTypeOK
  BY DEF TInv
<1> QED BY <1>1, ThreadInvariance, PTL

(* The event of the socket server is enough: Send, Post and Quit fill a     *)
(* queue or set the flag before they signal, Get looks after it was woken.  *)
THEOREM WakeUpsNotLost == ThreadSpec => []NoLostWakeUp
<1>1. TInv => NoLostWakeUp
  BY DEF TInv, Woken, NoLostWakeUp
<1> QED BY <1>1, ThreadInvariance, PTL

(* Only a Stop loses calls. *)
THEOREM CallsNotLost == ThreadSpec => []NoLostCall
<1>1. TInv => NoLostCall
  BY DEF TInv, SomePlace, NoLostCall, Queued, Outside
<1> QED BY <1>1, ThreadInvariance, PTL

(* Nothing runs on a thread that was joined. *)
THEOREM QuietAfterStop == ThreadSpec => []NothingRunsAfterStop
<1>1. TInv => NothingRunsAfterStop
  BY DEF TInv, Phases, NothingRunsAfterStop
<1> QED BY <1>1, ThreadInvariance, PTL

--------------------------------------------------------------------------
(* The refinement.                                                          *)

(* A new thread is a new thread of ThreadCalls. *)
LEMMA AbsInit == ThreadInit => Abs!CallsInit
BY DEF ThreadInit, Abs!CallsInit, AbsCall, AbsThread

(* Every step is one of ThreadCalls or changes nothing there. *)
LEMMA AbsNext ==
    ASSUME TInv, [ThreadNext]_threadVars
    PROVE  [Abs!CallsNext]_(Abs!callVars)
<1> USE DEF Abs!callVars
<1>1. ASSUME NEW c \in Callers, SendBegins(c) \/ InvokeBegins(c)
      PROVE  Abs!Call(c)
  BY <1>1 DEF SendBegins, InvokeBegins, Step, Abs!Call, Abs!Moves, AbsCall, AbsThread,
     TInv, ThreadTypeOK, OnePlace, Outside
<1>2. ASSUME NEW c \in Callers, SendQueues(c) \/ PostQueues(c) \/ WakeUp(c)
      PROVE  UNCHANGED <<AbsCall, AbsThread>>
  BY <1>2 DEF SendQueues, PostQueues, WakeUp, Step, AbsCall, AbsThread, TInv, ThreadTypeOK
<1>3. ASSUME NEW c \in Callers, Return(c) PROVE Abs!Returns(c)
  BY <1>3 DEF Return, Step, Abs!Returns, Abs!Moves, AbsCall, AbsThread, TInv, ThreadTypeOK, OnePlace
<1>4. CASE ReceiveSends \/ Get
  <2>1. CASE UNCHANGED current
    BY <1>4, <2>1 DEF ReceiveSends, Get, AbsCall, AbsThread
  <2>2. CASE current' # current
    <3>1. PICK c \in Callers : current' = {c} /\ Queued(c)
      <4>1. CASE ReceiveSends
        BY <2>2, <4>1, TailFacts DEF ReceiveSends, Queued, TInv, ThreadTypeOK
      <4>2. CASE Get
        BY <2>2, <4>2, TailFacts DEF Get, Queued, TInv, ThreadTypeOK
      <4> QED BY <1>4, <4>1, <4>2
    <3>2. current = {} /\ c \notin ready /\ caller[c] # "idle" /\ owner \notin {"joined", "deleted"}
      BY <1>4, <3>1 DEF ReceiveSends, Get, TInv, Phases, OnePlace, Outside
    <3>3. UNCHANGED <<caller, ready, owner>>
      BY <1>4 DEF ReceiveSends, Get
    <3>4. Abs!Execute(c)
      BY <3>1, <3>2, <3>3 DEF Abs!Execute, Abs!Moves, AbsCall, AbsThread, TInv, ThreadTypeOK
    <3> QED BY <3>4 DEF Abs!CallsNext
  <2> QED BY <2>1, <2>2
<1>5. CASE Dispatch
  <2>1. CASE current = {}
    BY <1>5, <2>1 DEF Dispatch, AbsCall, AbsThread
  <2>2. CASE current # {}
    <3>1. PICK c \in Callers : current = {c}
      BY <2>2 DEF TInv, ThreadTypeOK
    <3>2. caller[c] # "idle" /\ c \notin ready /\ owner \notin {"joined", "deleted"}
      BY <3>1, <1>5 DEF Dispatch, TInv, Phases, OnePlace, Outside
    <3>3. Abs!Finish(c)
      BY <1>5, <3>1, <3>2 DEF Dispatch, Abs!Finish, Abs!Moves, AbsCall, AbsThread, TInv, ThreadTypeOK
    <3> QED BY <3>3 DEF Abs!CallsNext
  <2> QED BY <2>1, <2>2
<1>6. CASE CheckQuitting \/ Wait \/ QuitWakes
  BY <1>6 DEF CheckQuitting, Wait, QuitWakes, AbsCall, AbsThread
<1>7. CASE Quit
  <2>1. Abs!StopCalled
    BY <1>7 DEF Quit, Abs!StopCalled, AbsCall, AbsThread
  <2> QED BY <2>1 DEF Abs!CallsNext
<1>8. CASE Join
  <2>1. current = {}
    BY <1>8 DEF Join, TInv, Phases
  <2>2. Abs!StopDone
    BY <1>8, <2>1 DEF Join, Abs!StopDone, AbsCall, AbsThread
  <2> QED BY <2>2 DEF Abs!CallsNext
<1>9. CASE DoDestroy
  <2>1. Abs!Deleted
    BY <1>9 DEF DoDestroy, Abs!Deleted, AbsCall, AbsThread
  <2> QED BY <2>1 DEF Abs!CallsNext
<1>10. CASE UNCHANGED threadVars
  BY <1>10 DEF threadVars, AbsCall, AbsThread
<1> QED
  BY <1>1, <1>2, <1>3, <1>4, <1>5, <1>6, <1>7, <1>8, <1>9, <1>10
     DEF ThreadNext, LoopGoesOn, CallerGoesOn, OwnerGoesOn, Abs!CallsNext

(* The message loop implements what its users expect of a thread: calls run *)
(* one at a time, at most once, return only after they ran, and none runs   *)
(* once Stop has returned.                                                  *)
THEOREM ThreadImplementsCalls == ThreadSpec => ImplementsCalls
<1>1. ThreadInit => Abs!CallsInit
  BY AbsInit
<1>2. TInv /\ [ThreadNext]_threadVars => [Abs!CallsNext]_(Abs!callVars)
  BY AbsNext
<1> QED BY <1>1, <1>2, ThreadInvariance, PTL DEF ThreadSpec, ImplementsCalls, Abs!CallsSpec
==========================================================================
