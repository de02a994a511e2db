------------------------------- MODULE App -------------------------------
(* The program: the VideoChat dialog and the Backend it owns.  The GUI      *)
(* thread runs Backend's constructor before the dialog is usable, runs      *)
(* initLocalInfo inside the login click and ~Backend inside ~VideoChat, and *)
(* handles no event meanwhile; if a call of Backend never returns, it never *)
(* does.  The server and the rtc threads go on beside it.                   *)
EXTENDS VideoChat

VARIABLES thread, m_pcfIface, m_peerConnection, refs, cert, at

B == INSTANCE Backend

backend == <<thread, m_pcfIface, m_peerConnection, refs, cert, at>>
appVars == <<vars, backend>>

AppInit == Init /\ B!BackendInit

(* The GUI thread is in its event loop. *)
EventLoop == at \in {"idle", "ready"}

(* The dialog met undefined behaviour: nothing more is said of the process. *)
Lost == phase \in {"torn", "out_of_range", "null_pointer"}

--------------------------------------------------------------------------
(* Mutant: initLocalInfo before the check of the fields. *)
LoginInitsFirst(name, filled, ok) ==
    /\ EventLoop
    /\ Login(name, filled, ok)
    /\ B!initLocalInfo

(* A login that dials goes on in initLocalInfo, whether or not the dial     *)
(* succeeded; any other click only concerns the dialog.                     *)
LoginClick(name, filled, ok) ==
    /\ EventLoop
    /\ Login(name, filled, ok)
    /\ IF filled /\ name # NoName THEN B!initLocalInfo ELSE UNCHANGED backend

(* delete be is the last thing ~VideoChat does. *)
Close ==
    /\ EventLoop
    /\ Destroy
    /\ IF phase' = "closed" THEN B!Destroy ELSE UNCHANGED backend

(* The slots that do not touch Backend. *)
Slots ==
    /\ EventLoop
    /\ \/ LoginRefused \/ on_listView_peers_doubleClicked
       \/ onControlRead \/ onDataRead
       \/ ControlDrops \/ DataDrops
    /\ UNCHANGED backend

Server ==
    /\ ServerRegisters \/ ServerAnswersSignIn \/ ServerAnswersWait
    /\ UNCHANGED backend

BackendGoesOn(A) == ~Lost /\ A /\ UNCHANGED vars

AppNext ==
    \/ \E name \in Names \cup {NoName}, filled, ok \in BOOLEAN : LoginClick(name, filled, ok)
    \/ Close
    \/ Slots
    \/ Server
    \/ BackendGoesOn(B!MainGoesOn)
    \/ BackendGoesOn(B!NetworkGoesOn)
    \/ BackendGoesOn(B!SignalingGoesOn)
    \/ BackendGoesOn(B!Exit("worker"))

(* The event loop handles a pending readyRead(), and every thread goes on   *)
(* with what it is doing.                                                   *)
AppSpec ==
    /\ AppInit /\ [][AppNext]_appVars
    /\ WF_appVars(EventLoop /\ onControlRead /\ UNCHANGED backend)
    /\ WF_appVars(EventLoop /\ onDataRead /\ UNCHANGED backend)
    /\ WF_appVars(BackendGoesOn(B!MainGoesOn))
    /\ WF_appVars(BackendGoesOn(B!NetworkGoesOn))
    /\ WF_appVars(BackendGoesOn(B!SignalingGoesOn))
    /\ WF_appVars(BackendGoesOn(B!Exit("worker")))

--------------------------------------------------------------------------
(* Every variable of both parts keeps its type. *)
AppTypeOK == TypeOK /\ B!BackendTypeOK

(* Backend is written to be initialised once, and initLocalInfo would       *)
(* replace a live factory otherwise: whenever a click would be let through, *)
(* it has never been called.                                                *)
BackendFreshAtLogin ==
    phase = "running" /\ control_socket = "null" => at \in {"starting", "idle"}

(* A call of Backend blocks the GUI thread for ever only because a thread   *)
(* could not be started: neither the order of the clicks nor that of the    *)
(* destruction makes it call a thread that was stopped.                     *)
HangsOnlyWithoutThread == B!HangsOnlyWithoutThread

(* The Backend meets undefined behaviour only with a live factory: a dialog *)
(* whose factory could not be made is closed cleanly.                       *)
UndefinedNeedsFactory == B!UndefinedNeedsFactory

(* The camera stays open exactly as long as it is needed: not longer than   *)
(* initLocalInfo unless the connection has a sender, whichever step failed, *)
(* and while it has one, although both local pointers have gone.            *)
CameraHasSender == B!CameraHasSender

(* The destructor of a dialog that was signed in comes to an end, whatever  *)
(* the threads are doing, unless the certificate was sent just as the       *)
(* network thread quit.                                                     *)
StopsEndUnlessCertLost == B!StopsEndUnlessCertLost

(* The answer to the sign-in arrives while the click that asked for it is   *)
(* still in initLocalInfo.  It is read all the same, and the client starts  *)
(* to wait for peers, unless the Backend hangs or the dialog is lost.       *)
SignInAnswerIsRead ==
    (phase = "running" /\ wire["control"] # NoBytes)
        ~> (data_socket # "null" \/ at \in {"hung", "undefined"} \/ phase # "running")
==========================================================================
