---------------------------- MODULE AppProofs ----------------------------
(* The whole program does what its parts do alone: App implements the       *)
(* dialog and implements Backend, so that the dialog's properties hold in   *)
(* it, and Backend's are proved here.                                       *)
EXTENDS App, VideoChatProofs

(* The places of initLocalInfo after the connection was made. *)
Camera == {"capture", "track", "add", "block", "return"}

(* What the threads are, by where the GUI thread is in Backend. *)
Up == {"running", "failed"}

ThreadsByPhase ==
    /\ at \in {"idle", "factory", "hung"} => \A t \in B!Threads : thread[t] \in Up
    /\ at \in {"connection", "senders", "ready"} \cup Camera =>
            \A t \in B!Threads : thread[t] = "running"
    /\ at = "starting" => \A t \in B!Threads : thread[t] \in Up \cup {"none"}
    /\ at = "stopping" => \A t \in B!Threads : thread[t] \in B!Stopping \cup {"stopped"}
    /\ at = "deleting" => \A t \in B!Threads : thread[t] \in {"stopped", "deleted"}
    /\ at = "release" => \A t \in B!Threads : thread[t] = "deleted"

(* The constructor starts the threads in order. *)
StartedInOrder ==
    at = "starting" =>
        /\ thread["signaling"] = "none"
        /\ thread["network"] = "none" => thread["worker"] = "none"

(* The connection needs the factory. *)
MembersInOrder ==
    /\ m_peerConnection = "live" => m_pcfIface = "live"
    /\ at \in {"starting", "idle", "factory"} => m_pcfIface = "null"
    /\ at \in {"connection", "senders"} \cup Camera => m_pcfIface = "live"
    /\ at \in Camera => m_peerConnection = "live"

(* What the local pointers of initLocalInfo hold together with the track,   *)
(* and what is left of it when they have gone.                              *)
Opened == [source |-> {"video_device"}, track |-> {}, sender |-> {}]
Wrapped == [source |-> {"video_device", "track"}, track |-> {"video_track"}, sender |-> {}]
Added == [source |-> {"video_device", "track"}, track |-> {"video_track", "sender"},
          sender |-> {"result_or_error", "transceiver"}]
Leaving == [source |-> {"video_device", "track"}, track |-> {"sender"},
            sender |-> {"transceiver"}]
Kept == [source |-> {"track"}, track |-> {"sender"}, sender |-> {"transceiver"}]

RefsByPhase ==
    /\ at \in {"starting", "idle", "factory", "connection", "senders", "capture"} =>
            refs = B!NoRefs
    /\ at = "track" => refs = Opened
    /\ at = "add" => refs = Wrapped
    /\ at = "block" => refs \in {Wrapped, Added}
    /\ at = "return" => refs \in {Opened, Leaving}
    /\ at \in {"ready", "stopping", "deleting", "release", "done", "hung", "undefined"} =>
            refs = B!NoRefs \/ (refs = Kept /\ m_peerConnection = "live")

(* The inductive invariant of Backend. *)
BInv ==
    /\ B!BackendTypeOK
    /\ ThreadsByPhase /\ StartedInOrder /\ MembersInOrder /\ RefsByPhase
    /\ B!HangsOnlyWithoutThread /\ B!UndefinedNeedsFactory

--------------------------------------------------------------------------
(* Both parts.                                                              *)

(* A step of the program is a step of the dialog and the server, or leaves  *)
(* them alone.                                                              *)
LEMMA StepOfDialog == [AppNext]_appVars => [Next]_vars
<1>. SUFFICES ASSUME [AppNext]_appVars PROVE [Next]_vars
  OBVIOUS
<1>1. CASE UNCHANGED appVars
  BY <1>1 DEF appVars
<1>2. CASE \E name \in Names \cup {NoName}, filled, ok \in BOOLEAN :
             LoginClick(name, filled, ok)
  BY <1>2 DEF LoginClick, Next, on_login_btn_clicked
<1>3. CASE Close
  BY <1>3 DEF Close, Next
<1>4. CASE Slots
  BY <1>4 DEF Slots, Next, on_login_btn_clicked
<1>5. CASE Server
  BY <1>5 DEF Server, Next
<1>6. CASE UNCHANGED vars
  BY <1>6
<1>. QED  BY <1>1, <1>2, <1>3, <1>4, <1>5, <1>6 DEF AppNext, BackendGoesOn

(* And a step of Backend, or leaves it alone. *)
LEMMA StepOfBackend == [AppNext]_appVars => [B!BackendNext]_backend
<1>. SUFFICES ASSUME [AppNext]_appVars PROVE [B!BackendNext]_backend
  OBVIOUS
<1>1. CASE UNCHANGED appVars
  BY <1>1 DEF appVars
<1>2. CASE \E name \in Names \cup {NoName}, filled, ok \in BOOLEAN :
             LoginClick(name, filled, ok)
  BY <1>2 DEF LoginClick, B!BackendNext
<1>3. CASE Close
  BY <1>3 DEF Close, B!BackendNext
<1>4. CASE Slots \/ Server
  BY <1>4 DEF Slots, Server
<1>5. CASE \/ BackendGoesOn(B!MainGoesOn) \/ BackendGoesOn(B!NetworkGoesOn)
           \/ BackendGoesOn(B!SignalingGoesOn) \/ BackendGoesOn(B!Exit("worker"))
  BY <1>5 DEF BackendGoesOn, B!BackendNext
<1>. QED  BY <1>1, <1>2, <1>3, <1>4, <1>5 DEF AppNext

(* Mapped to its sockets, its requests and the wire, the program behaves as *)
(* VideoChat does alone: neither initLocalInfo inside the login click nor   *)
(* ~Backend inside ~VideoChat adds a behaviour to the dialog.               *)
THEOREM AppImplementsDialog == AppSpec => Init /\ [][Next]_vars
BY StepOfDialog, PTL DEF AppSpec, AppInit

(* And Backend is used as BackendSpec says: initLocalInfo and the           *)
(* destructor are called where its own Next allows them.                    *)
THEOREM AppImplementsBackend == AppSpec => B!BackendInit /\ [][B!BackendNext]_backend
BY StepOfBackend, PTL DEF AppSpec, AppInit

--------------------------------------------------------------------------
(* Backend's invariant.                                                     *)

(* The constructor's member initialisers. *)
LEMMA InitBInv == B!BackendInit => BInv
BY DEF B!BackendInit, B!NoRefs, B!Holders, BInv, B!BackendTypeOK, B!Threads, ThreadsByPhase,
       Camera, StartedInOrder, MembersInOrder, RefsByPhase, Up, B!HangsOnlyWithoutThread, B!UndefinedNeedsFactory

(* The threads by name. *)
LEMMA ThreeThreads ==
    /\ \A t \in B!Threads : t \in {"network", "worker", "signaling"}
    /\ {"network", "worker", "signaling"} = B!Threads
BY DEF B!Threads

(* FirstIn, thread by thread: what the constructor and the destructor know  *)
(* of the threads before the one they come to.                              *)
LEMMA FirstInMeans ==
    ASSUME NEW t \in B!Threads, NEW S, B!FirstIn(t, S)
    PROVE  /\ thread[t] \in S
           /\ t = "worker" => thread["network"] \notin S
           /\ t = "signaling" => thread["network"] \notin S /\ thread["worker"] \notin S
<1>1. PICK i \in 1 .. 3 : /\ t = B!Started[i] /\ thread[t] \in S
                          /\ \A j \in 1 .. i - 1 : thread[B!Started[j]] \notin S
  BY DEF B!FirstIn
<1>2. i \in {1, 2, 3} /\ B!Started[1] = "network" /\ B!Started[2] = "worker"
        /\ B!Started[3] = "signaling"
  BY DEF B!Started
<1>. QED  BY <1>1, <1>2

(* A thread is started. *)
LEMMA StartBInv ==
    ASSUME BInv, NEW t \in B!Threads, NEW s \in {"running", "failed"}, B!Start(t, s)
    PROVE  BInv'
<1>1. /\ at = "starting" /\ B!FirstIn(t, {"none"})
      /\ thread' = [thread EXCEPT ![t] = s]
      /\ at' = IF t = "signaling" THEN "idle" ELSE at
      /\ UNCHANGED <<m_pcfIface, m_peerConnection, refs, cert>>
  BY DEF B!Start, B!Become
<1>2. /\ thread[t] = "none"
      /\ t = "worker" => thread["network"] # "none"
      /\ t = "signaling" => thread["network"] # "none" /\ thread["worker"] # "none"
  BY <1>1, FirstInMeans
<1>3. B!BackendTypeOK'
  BY <1>1 DEF BInv, B!BackendTypeOK
<1>. QED
  BY <1>1, <1>2, <1>3
  DEF BInv, B!BackendTypeOK, B!Threads, ThreadsByPhase, Camera, StartedInOrder,
      MembersInOrder, RefsByPhase, Up, B!HangsOnlyWithoutThread, B!UndefinedNeedsFactory

(* The steps of initLocalInfo, and the two calls of the dialog: no thread   *)
(* changes its state.                                                       *)
LEMMA InitLocalInfoBInv ==
    ASSUME BInv, B!InitLocalInfoGoesOn \/ B!initLocalInfo \/ B!Destroy
    PROVE  BInv'
<1>. USE DEF BInv, B!BackendTypeOK, B!Threads, ThreadsByPhase, Camera, StartedInOrder,
             MembersInOrder, RefsByPhase, Up, B!HangsOnlyWithoutThread,
             B!UndefinedNeedsFactory
<1>1. ASSUME NEW b \in BOOLEAN, B!CreatePeerConnectionFactory(b) PROVE BInv'
  BY <1>1 DEF B!CreatePeerConnectionFactory, B!Reaches
<1>2. ASSUME NEW b \in BOOLEAN, B!CreatePeerConnection(b) PROVE BInv'
  BY <1>2 DEF B!CreatePeerConnection
<1>3. ASSUME NEW b \in BOOLEAN, B!CreateCapture(b) PROVE BInv'
  BY <1>3 DEF B!CreateCapture, B!Holders, B!NoRefs, Opened
<1>4. ASSUME NEW b \in BOOLEAN, B!AddTrack(b) PROVE BInv'
  <2>1. /\ at = "add" /\ at' = "block"
        /\ UNCHANGED <<thread, m_pcfIface, m_peerConnection, cert>>
    BY <1>4 DEF B!AddTrack
  <2>2. refs' \in {Wrapped, Added}
    <3>1. refs = Wrapped
      BY <2>1
    <3>. QED  BY <1>4, <3>1 DEF B!AddTrack, Wrapped, Added
  <2>3. refs' \in B!Holders
    BY <2>2 DEF B!Holders, Wrapped, Added
  <2>. QED  BY <2>1, <2>2, <2>3
<1>5. CASE B!FactoryBlocks
  BY <1>5 DEF B!FactoryBlocks, B!Blocked, B!Reaches
<1>6. CASE B!GetSenders
  BY <1>6 DEF B!GetSenders, B!sending, B!NoRefs
<1>7. CASE B!initLocalInfo
  BY <1>7 DEF B!initLocalInfo
<1>8. CASE B!Destroy
  BY <1>8 DEF B!Destroy, B!Stopping
<1>9. CASE B!CreateVideoTrack
  <2>1. /\ at = "track" /\ at' = "add"
        /\ UNCHANGED <<thread, m_pcfIface, m_peerConnection, cert>>
    BY <1>9 DEF B!CreateVideoTrack
  <2>2. refs' = Wrapped
    <3>1. refs = Opened
      BY <2>1
    <3>. QED  BY <1>9, <3>1 DEF B!CreateVideoTrack, Opened, Wrapped
  <2>3. refs' \in B!Holders
    BY <2>2 DEF B!Holders, Wrapped
  <2>. QED  BY <2>1, <2>2, <2>3
<1>10. CASE B!LeaveBlock
  BY <1>10 DEF B!LeaveBlock, B!Release, B!Holders, Wrapped, Added, Opened, Leaving
<1>11. CASE B!Return
  BY <1>11 DEF B!Return, B!Release, B!Holders, B!NoRefs, Opened, Leaving, Kept
<1>. QED
  BY <1>1, <1>2, <1>3, <1>4, <1>5, <1>6, <1>7, <1>8, <1>9, <1>10, <1>11
  DEF B!InitLocalInfoGoesOn

(* The way of the certificate concerns no invariant. *)
LEMMA CertBInv ==
    ASSUME BInv, \/ B!Generate \/ B!GenerateDone \/ B!SetLocalCertificate
                 \/ B!OnFailure \/ B!OnSuccess \/ B!SendQueued
    PROVE  BInv'
<1>1. /\ UNCHANGED <<thread, m_pcfIface, m_peerConnection, refs, at>>
      /\ cert' \in {"generating", "answered", "failed", "sending", "queued", "dropped", "set"}
  BY DEF B!Cert, B!Generate, B!GenerateDone, B!SetLocalCertificate, B!OnFailure,
         B!OnSuccess, B!SendQueued
<1>. QED
  BY <1>1
  DEF BInv, B!BackendTypeOK, ThreadsByPhase, Camera, StartedInOrder, MembersInOrder,
      RefsByPhase, B!HangsOnlyWithoutThread, B!UndefinedNeedsFactory

(* A thread's loop ends: it was told to quit, so the destructor is stopping *)
(* the threads, or the process is lost or done.                             *)
LEMMA ExitBInv ==
    ASSUME BInv, NEW t \in B!Threads, B!Exit(t)
    PROVE  BInv'
<1>1. /\ thread[t] = "quitting"
      /\ thread' = [thread EXCEPT ![t] = "exited"]
      /\ UNCHANGED <<m_pcfIface, m_peerConnection, refs, cert, at>>
  BY DEF B!Exit, B!Become
<1>2. B!BackendTypeOK'
  BY <1>1 DEF BInv, B!BackendTypeOK
<1>3. at \in {"stopping", "done", "undefined"}
  BY <1>1 DEF BInv, B!BackendTypeOK, ThreadsByPhase, Camera, Up
<1>. QED
  BY <1>1, <1>2, <1>3
  DEF BInv, B!BackendTypeOK, B!Threads, ThreadsByPhase, Camera, StartedInOrder,
      MembersInOrder, RefsByPhase, B!Stopping, B!HangsOnlyWithoutThread,
      B!UndefinedNeedsFactory

(* The destructor: the stops, the deletion of the threads, and the release  *)
(* of the members.                                                          *)
LEMMA DestructorBInv ==
    ASSUME BInv, B!DestructorGoesOn
    PROVE  BInv'
<1>1. ASSUME NEW t \in B!Threads, B!Quit(t) PROVE BInv'
  <2>1. /\ at = "stopping"
        /\ thread' = [thread EXCEPT ![t] = "quitting"]
        /\ UNCHANGED <<m_pcfIface, m_peerConnection, refs, cert, at>>
    BY <1>1 DEF B!Quit, B!Become
  <2>2. B!BackendTypeOK'
    BY <2>1 DEF BInv, B!BackendTypeOK
  <2>. QED
    BY <2>1, <2>2
    DEF BInv, B!BackendTypeOK, B!Threads, ThreadsByPhase, Camera, StartedInOrder,
        MembersInOrder, RefsByPhase, B!Stopping, B!HangsOnlyWithoutThread,
        B!UndefinedNeedsFactory
<1>2. ASSUME NEW t \in B!Threads, B!Join(t) PROVE BInv'
  <2>1. /\ at = "stopping" /\ B!FirstIn(t, B!Stopping)
        /\ thread' = [thread EXCEPT ![t] = "stopped"]
        /\ at' = IF t = "signaling" THEN "deleting" ELSE at
        /\ UNCHANGED <<m_pcfIface, m_peerConnection, refs, cert>>
    BY <1>2 DEF B!Join, B!Become
  <2>2. B!BackendTypeOK'
    BY <2>1 DEF BInv, B!BackendTypeOK
  <2>3. t = "signaling" => /\ thread["network"] \notin B!Stopping
                           /\ thread["worker"] \notin B!Stopping
    BY <2>1, FirstInMeans
  <2>. QED
    BY <2>1, <2>2, <2>3
    DEF BInv, B!BackendTypeOK, B!Threads, ThreadsByPhase, Camera, StartedInOrder,
        MembersInOrder, RefsByPhase, B!Stopping, B!HangsOnlyWithoutThread,
        B!UndefinedNeedsFactory
<1>3. ASSUME NEW t \in B!Threads, B!Delete(t) PROVE BInv'
  <2>1. /\ at = "deleting"
        /\ thread' = [thread EXCEPT ![t] = "deleted"]
        /\ at' = IF t = "network" THEN "release" ELSE at
        /\ UNCHANGED <<m_pcfIface, m_peerConnection, refs, cert>>
        /\ \E i \in 1 .. 3 : t = B!Started[i]
                               /\ \A j \in i + 1 .. 3 : thread[B!Started[j]] = "deleted"
    BY <1>3 DEF B!Delete, B!Become
  <2>2. B!BackendTypeOK'
    BY <2>1 DEF BInv, B!BackendTypeOK
  <2>3. t = "network" => thread["worker"] = "deleted" /\ thread["signaling"] = "deleted"
    <3>1. PICK i \in 1 .. 3 : t = B!Started[i]
                               /\ \A j \in i + 1 .. 3 : thread[B!Started[j]] = "deleted"
      BY <2>1
    <3>2. i \in {1, 2, 3} /\ B!Started[1] = "network" /\ B!Started[2] = "worker"
            /\ B!Started[3] = "signaling"
      BY DEF B!Started
    <3>3. t = "network" => i = 1
      BY <3>1, <3>2
    <3>4. i = 1 => thread[B!Started[2]] = "deleted" /\ thread[B!Started[3]] = "deleted"
      BY <3>1
    <3>. QED  BY <3>2, <3>3, <3>4
  <2>. QED
    BY <2>1, <2>2, <2>3
    DEF BInv, B!BackendTypeOK, B!Threads, ThreadsByPhase, Camera, StartedInOrder,
        MembersInOrder, RefsByPhase, B!HangsOnlyWithoutThread, B!UndefinedNeedsFactory
<1>4. CASE B!ReleaseNothing
  BY <1>4
  DEF B!ReleaseNothing, BInv, B!BackendTypeOK, ThreadsByPhase, Camera, StartedInOrder,
      MembersInOrder, RefsByPhase, B!HangsOnlyWithoutThread, B!UndefinedNeedsFactory
<1>5. CASE B!ReleaseProxies
  BY <1>5
  DEF B!ReleaseProxies, B!Blocked, BInv, B!BackendTypeOK, B!Threads, ThreadsByPhase,
      Camera, StartedInOrder, MembersInOrder, RefsByPhase, B!HangsOnlyWithoutThread,
      B!UndefinedNeedsFactory
<1>. QED  BY <1>1, <1>2, <1>3, <1>4, <1>5 DEF B!DestructorGoesOn

(* Every step of Backend keeps its invariant. *)
LEMMA NextBInv == BInv /\ [B!BackendNext]_backend => BInv'
<1>. SUFFICES ASSUME BInv, [B!BackendNext]_backend PROVE BInv'
  OBVIOUS
<1>1. CASE UNCHANGED backend
  BY <1>1
  DEF backend, BInv, B!BackendTypeOK, ThreadsByPhase, Camera, StartedInOrder,
      MembersInOrder, RefsByPhase, B!HangsOnlyWithoutThread, B!UndefinedNeedsFactory
<1>2. CASE B!Constructor
  BY <1>2, StartBInv DEF B!Constructor
<1>3. CASE B!InitLocalInfoGoesOn \/ B!initLocalInfo \/ B!Destroy
  BY <1>3, InitLocalInfoBInv
<1>4. CASE B!DestructorGoesOn
  BY <1>4, DestructorBInv
<1>5. CASE B!NetworkGoesOn \/ B!SignalingGoesOn \/ B!Exit("worker")
  BY <1>5, CertBInv, ExitBInv, ThreeThreads DEF B!NetworkGoesOn, B!SignalingGoesOn
<1>. QED  BY <1>1, <1>2, <1>3, <1>4, <1>5 DEF B!BackendNext, B!MainGoesOn

--------------------------------------------------------------------------
(* The dialog with its Backend.                                             *)

(* The inductive invariant of the program. *)
AInv == IInv /\ BInv /\ BackendFreshAtLogin

(* control_socket is allocated by the login click that calls initLocalInfo  *)
(* and by nothing else, and stays allocated: until then Backend has done no *)
(* more than start its threads.                                             *)
LEMMA FreshKept ==
    ASSUME AInv, [AppNext]_appVars
    PROVE  BackendFreshAtLogin'
<1>. SUFFICES ASSUME phase' = "running", control_socket' = "null"
              PROVE  at' \in {"starting", "idle"}
  BY DEF BackendFreshAtLogin
<1>1. CASE UNCHANGED appVars
  BY <1>1 DEF appVars, backend, vars, client, AInv, BackendFreshAtLogin
<1>2. ASSUME NEW name \in Names \cup {NoName}, NEW filled \in BOOLEAN, NEW ok \in BOOLEAN,
             LoginClick(name, filled, ok)
      PROVE  at' \in {"starting", "idle"}
  <2>1. Login(name, filled, ok)
    BY <1>2 DEF LoginClick
  <2>2. CASE filled /\ name # NoName
    BY <2>1, <2>2 DEF Login, InitializeConnection
  <2>3. CASE ~(filled /\ name # NoName)
    BY <1>2, <2>1, <2>3 DEF LoginClick, Login, backend, AInv, BackendFreshAtLogin
  <2>. QED  BY <2>2, <2>3
<1>3. CASE Close
  BY <1>3 DEF Close, Destroy, UndefinedBehaviour
<1>4. CASE Slots
  <2>1. phase = "running" /\ control_socket = "null"
    <3>1. CASE LoginRefused
      BY <3>1 DEF LoginRefused
    <3>2. CASE on_listView_peers_doubleClicked
      BY <3>2 DEF on_listView_peers_doubleClicked
    <3>3. CASE onControlRead
      BY <3>3 DEF onControlRead, OutOfRange, UndefinedBehaviour, client
    <3>4. CASE onDataRead
      BY <3>4 DEF onDataRead, OutOfRange, UndefinedBehaviour, client
    <3>5. CASE ControlDrops \/ DataDrops
      BY <3>5 DEF ControlDrops, DataDrops
    <3>. QED  BY <1>4, <3>1, <3>2, <3>3, <3>4, <3>5 DEF Slots
  <2>. QED  BY <1>4, <2>1 DEF Slots, backend, AInv, BackendFreshAtLogin
<1>5. CASE Server
  BY <1>5 DEF Server, ServerRegisters, ServerAnswersSignIn, ServerAnswersWait, client,
              backend, AInv, BackendFreshAtLogin
<1>6. CASE \/ BackendGoesOn(B!MainGoesOn) \/ BackendGoesOn(B!NetworkGoesOn)
           \/ BackendGoesOn(B!SignalingGoesOn) \/ BackendGoesOn(B!Exit("worker"))
  <2>1. phase = "running" /\ control_socket = "null"
    BY <1>6 DEF BackendGoesOn, vars, client
  <2>2. at \in {"starting", "idle"}
    BY <2>1 DEF AInv, BackendFreshAtLogin
  <2>3. CASE B!Constructor
    BY <2>2, <2>3 DEF B!Constructor, B!Start
  <2>4. CASE B!InitLocalInfoGoesOn
    BY <2>2, <2>4 DEF B!InitLocalInfoGoesOn, B!CreatePeerConnectionFactory,
        B!CreatePeerConnection, B!CreateCapture, B!AddTrack, B!FactoryBlocks, B!GetSenders,
        B!CreateVideoTrack, B!LeaveBlock, B!Return
  <2>5. CASE B!DestructorGoesOn
    BY <2>2, <2>5 DEF B!DestructorGoesOn, B!Quit, B!Join, B!Delete, B!ReleaseNothing,
        B!ReleaseProxies
  <2>6. CASE B!NetworkGoesOn \/ B!SignalingGoesOn \/ B!Exit("worker")
    BY <2>2, <2>6 DEF B!NetworkGoesOn, B!SignalingGoesOn, B!Generate, B!GenerateDone,
        B!SetLocalCertificate, B!OnFailure, B!OnSuccess, B!SendQueued, B!Cert, B!Exit
  <2>. QED  BY <1>6, <2>3, <2>4, <2>5, <2>6 DEF BackendGoesOn, B!MainGoesOn
<1>. QED  BY <1>1, <1>2, <1>3, <1>4, <1>5, <1>6 DEF AppNext

(* The invariant holds in every behaviour of the program. *)
LEMMA AppInvariance == AppSpec => []AInv
<1>1. AppInit => AInv
  BY InitIInv, InitBInv DEF AppInit, AInv, BackendFreshAtLogin, B!BackendInit
<1>2. AInv /\ [AppNext]_appVars => AInv'
  BY NextIInv, NextBInv, StepOfDialog, StepOfBackend, FreshKept DEF AInv
<1>. QED  BY <1>1, <1>2, PTL DEF AppSpec

(* Every variable of the dialog and of Backend keeps its type. *)
THEOREM AppTypeCorrect == AppSpec => []AppTypeOK
<1>1. AInv => AppTypeOK
  BY DEF AInv, IInv, BInv, AppTypeOK
<1>. QED  BY <1>1, AppInvariance, PTL

(* Whenever a login click would be let through, initLocalInfo was never     *)
(* called: the factory and the connection are assigned once.                *)
THEOREM BackendIsFreshAtLogin == AppSpec => []BackendFreshAtLogin
<1>1. AInv => BackendFreshAtLogin
  BY DEF AInv
<1>. QED  BY <1>1, AppInvariance, PTL

(* The GUI thread hangs in a call of Backend only if a thread was not       *)
(* started.                                                                 *)
THEOREM AppHangsOnlyWithoutThread == AppSpec => []HangsOnlyWithoutThread
<1>1. AInv => HangsOnlyWithoutThread
  BY DEF AInv, BInv, HangsOnlyWithoutThread
<1>. QED  BY <1>1, AppInvariance, PTL

(* Backend meets undefined behaviour only with a live factory. *)
THEOREM AppUndefinedNeedsFactory == AppSpec => []UndefinedNeedsFactory
<1>1. AInv => UndefinedNeedsFactory
  BY DEF AInv, BInv, UndefinedNeedsFactory
<1>. QED  BY <1>1, AppInvariance, PTL

(* The camera stays open after initLocalInfo exactly if the connection has  *)
(* a sender, whichever step failed and although the references are released *)
(* one after the other.                                                     *)
THEOREM AppCameraHasSender == AppSpec => []CameraHasSender
<1>1. BInv => B!CameraHasSender
  BY DEF BInv, B!BackendTypeOK, RefsByPhase, MembersInOrder, Camera, B!CameraHasSender,
         B!sending, B!capturing, B!NoRefs, Opened, Wrapped, Added, Leaving, Kept
<1>2. AInv => CameraHasSender
  BY <1>1 DEF AInv, CameraHasSender
<1>. QED  BY <1>2, AppInvariance, PTL

(* The dialog's own guarantees hold with Backend inside its handlers: what  *)
(* it sends carries the id the server gave it, it signs in and initialises  *)
(* Backend once, its peer list is what the server said, and it stays armed  *)
(* for the next event of the server.                                        *)
THEOREM AppKeepsDialogSafe ==
    AppSpec => [](/\ RequestsCarryAssignedId /\ SessionStartedOnce
                  /\ PeersTruthful /\ ArmedUnlessCalling)
<1>1. AInv => /\ RequestsCarryAssignedId /\ SessionStartedOnce
              /\ PeersTruthful /\ ArmedUnlessCalling
  BY DEF AInv, IInv
<1>. QED  BY <1>1, AppInvariance, PTL
==========================================================================
