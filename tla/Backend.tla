----------------------------- MODULE Backend -----------------------------
(* Backend: its three rtc threads, the factory, the peer connection and the *)
(* camera, from the constructor through initLocalInfo to the destructor and *)
(* the destruction of the members.  A call through a proxy runs on the      *)
(* signaling thread (and from there on the worker and network threads); as  *)
(* RtcThread shows, it returns if the thread runs and blocks for ever if it *)
(* does not; on a deleted thread it is undefined.                           *)
EXTENDS Naturals, Sequences

Threads == {"network", "worker", "signaling"}
Started == <<"network", "worker", "signaling">>

VARIABLES
    thread,      \* Threads -> none, running, failed (Start), quitting, exited,
                 \* stopped (joined), deleted
    m_pcfIface,  \* null or live
    m_peerConnection,
    refs,        \* who holds a scoped_refptr to the camera's source, to its
                 \* track and to the track's sender
    cert,        \* where the certificate of the connection is
    at           \* where the main thread is; "hung" and "undefined" are final

backendVars == <<thread, m_pcfIface, m_peerConnection, refs, cert, at>>

Holders == [source : SUBSET {"video_device", "track"},
            track  : SUBSET {"video_track", "sender"},
            sender : SUBSET {"result_or_error", "transceiver"}]
NoRefs == [source |-> {}, track |-> {}, sender |-> {}]

(* The source owns the capturer, which closes the camera when it goes. *)
capturing == refs.source # {}

(* The connection has a sender. *)
sending == "transceiver" \in refs.sender

(* Mutant: a raw pointer that is not set. *)
InitWithoutNull ==
    /\ thread = [t \in Threads |-> "none"]
    /\ m_pcfIface = "null" /\ m_peerConnection = "uninitialised"
    /\ refs = NoRefs
    /\ cert = "none" /\ at = "starting"

BackendInit ==
    /\ thread = [t \in Threads |-> "none"]
    /\ m_pcfIface = "null" /\ m_peerConnection = "null"
    /\ refs = NoRefs
    /\ cert = "none" /\ at = "starting"

Become(t, s) == thread' = [thread EXCEPT ![t] = s]

(* t is the first of the threads, in the order of their declaration, that   *)
(* is in one of the states of S.                                            *)
FirstIn(t, S) == \E i \in 1 .. 3 :
    t = Started[i] /\ thread[t] \in S /\ \A j \in 1 .. i - 1 : thread[Started[j]] \notin S

--------------------------------------------------------------------------
(* The constructor; the result of Start is not looked at.                   *)

Start(t, started) ==
    /\ at = "starting" /\ FirstIn(t, {"none"})
    /\ Become(t, started)
    /\ at' = IF t = "signaling" THEN "idle" ELSE at
    /\ UNCHANGED <<m_pcfIface, m_peerConnection, refs, cert>>

--------------------------------------------------------------------------
(* initLocalInfo, called once, by the login click, after the dial.          *)

Reaches(ts) == \A t \in ts : thread[t] = "running"

(* The main thread does not come back from its call. *)
Blocked(ts) ==
    /\ ~Reaches(ts)
    /\ at' = IF thread["signaling"] = "deleted" THEN "undefined" ELSE "hung"
    /\ UNCHANGED <<thread, m_pcfIface, m_peerConnection, refs, cert>>

initLocalInfo ==
    /\ at = "idle" /\ at' = "factory"
    /\ UNCHANGED <<thread, m_pcfIface, m_peerConnection, refs, cert>>

(* Mutant: the factory is not tested. *)
FactoryUntested(made) ==
    /\ at = "factory" /\ Reaches(Threads)
    /\ m_pcfIface' = IF made THEN "live" ELSE "null"
    /\ at' = IF made THEN "connection" ELSE "undefined"
    /\ UNCHANGED <<thread, m_peerConnection, refs, cert>>

(* PeerConnectionFactory::Initialize runs on the signaling thread and, in   *)
(* ChannelManager::Init, on the network and the worker thread.              *)
CreatePeerConnectionFactory(made) ==
    /\ at = "factory" /\ Reaches(Threads)
    /\ m_pcfIface' = IF made THEN "live" ELSE "null"
    /\ at' = IF made THEN "connection" ELSE "ready"
    /\ UNCHANGED <<thread, m_peerConnection, refs, cert>>

FactoryBlocks == at = "factory" /\ Blocked(Threads)

(* All threads run, or the factory would not have returned.  Null when      *)
(* PeerConnection::Initialize fails; otherwise a certificate was requested, *)
(* which is generated while initLocalInfo goes on.                          *)
CreatePeerConnection(made) ==
    /\ at = "connection"
    /\ m_peerConnection' = IF made THEN "live" ELSE "null"
    /\ cert' = IF made THEN "requested" ELSE cert
    /\ at' = "senders"
    /\ UNCHANGED <<thread, m_pcfIface, refs>>

(* m_peerConnection is used without a test. *)
GetSenders ==
    /\ at = "senders"
    /\ at' = IF m_peerConnection = "null" THEN "undefined"
             ELSE IF sending THEN "ready" ELSE "capture"
    /\ UNCHANGED <<thread, m_pcfIface, m_peerConnection, refs, cert>>

(* CaptureTrackSource::Create on the main thread opens a camera or not.     *)
CreateCapture(opened) ==
    /\ at = "capture"
    /\ refs' = [refs EXCEPT !.source = IF opened THEN {"video_device"} ELSE {}]
    /\ at' = IF opened THEN "track" ELSE "ready"
    /\ UNCHANGED <<thread, m_pcfIface, m_peerConnection, cert>>

(* Mutant: the track keeps a raw pointer to its source. *)
CreateVideoTrackRaw ==
    /\ at = "track" /\ at' = "add"
    /\ refs' = [refs EXCEPT !.track = {"video_track"}]
    /\ UNCHANGED <<thread, m_pcfIface, m_peerConnection, cert>>

(* VideoTrack refers to its source. *)
CreateVideoTrack ==
    /\ at = "track" /\ at' = "add"
    /\ refs' = [refs EXCEPT !.track = {"video_track"}, !.source = @ \cup {"track"}]
    /\ UNCHANGED <<thread, m_pcfIface, m_peerConnection, cert>>

(* A track that is refused gets no sender; otherwise the sender refers to   *)
(* the track, the transceiver and the result to the sender.                 *)
AddTrack(ok) ==
    /\ at = "add" /\ at' = "block"
    /\ refs' = IF ok THEN [refs EXCEPT !.track = @ \cup {"sender"},
                                       !.sender = {"result_or_error", "transceiver"}]
               ELSE refs
    /\ UNCHANGED <<thread, m_pcfIface, m_peerConnection, cert>>

(* Release: an object without references goes, and with it its own. *)
Release(r) ==
    LET track == IF r.sender = {} THEN r.track \ {"sender"} ELSE r.track
        source == IF track = {} THEN r.source \ {"track"} ELSE r.source
    IN  [source |-> source, track |-> track, sender |-> r.sender]

(* The end of the block: result_or_error and video_track go. *)
LeaveBlock ==
    /\ at = "block" /\ at' = "return"
    /\ refs' = Release([refs EXCEPT !.sender = @ \ {"result_or_error"},
                                    !.track = @ \ {"video_track"}])
    /\ UNCHANGED <<thread, m_pcfIface, m_peerConnection, cert>>

(* The end of initLocalInfo: video_device goes. *)
Return ==
    /\ at = "return" /\ at' = "ready"
    /\ refs' = Release([refs EXCEPT !.source = @ \ {"video_device"}])
    /\ UNCHANGED <<thread, m_pcfIface, m_peerConnection, cert>>

--------------------------------------------------------------------------
(* The certificate: generated on the network thread, handed to the          *)
(* signaling thread, and from there sent back to the network thread.        *)

Cert(from, to) ==
    /\ cert = from /\ cert' = to
    /\ UNCHANGED <<thread, m_pcfIface, m_peerConnection, refs, at>>

Alive(t) == thread[t] \in {"running", "quitting"} /\ at # "undefined"

Generate == Alive("network") /\ Cert("requested", "generating")

(* Post to a signaling thread that is not quitting: its Stop comes last. *)
GenerateDone == Alive("network") /\ Cert("generating", "answered")

OnFailure == Alive("signaling") /\ Cert("answered", "failed")

(* SetLocalCertificate: Send gives up when the network thread is quitting.  *)
OnSuccess ==
    /\ Alive("signaling")
    /\ Cert("answered", IF thread["network"] = "running" THEN "sending" ELSE "dropped")

(* It was not, a moment ago. *)
SendQueued == Alive("signaling") /\ Cert("sending", "queued")

SetLocalCertificate == Alive("network") /\ Cert("queued", "set")

--------------------------------------------------------------------------
(* The destructor stops the threads in order; then the members go, in the   *)
(* reverse order of their declaration: the threads, m_peerConnection,       *)
(* m_pcfIface.                                                              *)

Destroy ==
    /\ at \in {"idle", "ready"} /\ at' = "stopping"
    /\ UNCHANGED <<thread, m_pcfIface, m_peerConnection, refs, cert>>

Stopping == {"running", "quitting", "exited", "failed"}

(* Mutant: the worker thread is joined without being told to quit. *)
QuitNotWorker(t) ==
    /\ at = "stopping" /\ FirstIn(t, Stopping) /\ thread[t] = "running" /\ t # "worker"
    /\ Become(t, "quitting")
    /\ UNCHANGED <<m_pcfIface, m_peerConnection, refs, cert, at>>

Quit(t) ==
    /\ at = "stopping" /\ FirstIn(t, Stopping) /\ thread[t] = "running"
    /\ Become(t, "quitting")
    /\ UNCHANGED <<m_pcfIface, m_peerConnection, refs, cert, at>>

(* The loop ends when its messages are handled, and not within a handler.   *)
(* It does not look again for a Send that came in the meantime.             *)
Exit(t) ==
    /\ thread[t] = "quitting"
    /\ t = "network" => cert \notin {"requested", "generating"}
    /\ t = "signaling" => cert \notin {"answered", "sending", "queued"}
    /\ Become(t, "exited")
    /\ UNCHANGED <<m_pcfIface, m_peerConnection, refs, cert, at>>

(* A thread that was not started is not joined. *)
Join(t) ==
    /\ at = "stopping" /\ FirstIn(t, Stopping) /\ thread[t] \in {"exited", "failed"}
    /\ Become(t, "stopped")
    /\ at' = IF t = "signaling" THEN "deleting" ELSE at
    /\ UNCHANGED <<m_pcfIface, m_peerConnection, refs, cert>>

(* Mutant: the threads are declared before the connection. *)
DeleteLater(t) ==
    /\ at = "deleting" /\ t = "signaling"
    /\ at' = "release"
    /\ UNCHANGED <<thread, m_pcfIface, m_peerConnection, refs, cert>>

Delete(t) ==
    /\ at = "deleting" /\ thread[t] = "stopped"
    /\ \E i \in 1 .. 3 : t = Started[i] /\ \A j \in i + 1 .. 3 : thread[Started[j]] = "deleted"
    /\ Become(t, "deleted")
    /\ at' = IF t = "network" THEN "release" ELSE at
    /\ UNCHANGED <<m_pcfIface, m_peerConnection, refs, cert>>

(* The proxies' destructors marshal DestroyInternal to the signaling thread. *)
ReleaseNothing ==
    /\ at = "release" /\ m_pcfIface = "null" /\ m_peerConnection = "null"
    /\ at' = "done"
    /\ UNCHANGED <<thread, m_pcfIface, m_peerConnection, refs, cert>>

ReleaseProxies ==
    /\ at = "release" /\ "live" \in {m_pcfIface, m_peerConnection}
    /\ Blocked({"signaling"})

--------------------------------------------------------------------------
Constructor == \E t \in Threads, s \in {"running", "failed"} : Start(t, s)

InitLocalInfoGoesOn ==
    \/ \E b \in BOOLEAN :
        \/ CreatePeerConnectionFactory(b) \/ CreatePeerConnection(b)
        \/ CreateCapture(b) \/ AddTrack(b)
    \/ FactoryBlocks \/ GetSenders \/ CreateVideoTrack \/ LeaveBlock \/ Return

DestructorGoesOn ==
    \/ \E t \in Threads : Quit(t) \/ Join(t) \/ Delete(t)
    \/ ReleaseNothing \/ ReleaseProxies

MainGoesOn == Constructor \/ InitLocalInfoGoesOn \/ DestructorGoesOn

NetworkGoesOn == Generate \/ GenerateDone \/ SetLocalCertificate \/ Exit("network")
SignalingGoesOn == OnFailure \/ OnSuccess \/ SendQueued \/ Exit("signaling")

BackendNext ==
    \/ MainGoesOn \/ initLocalInfo \/ Destroy
    \/ NetworkGoesOn \/ SignalingGoesOn \/ Exit("worker")

(* Every thread goes on with what it is doing; nobody has to log in or to   *)
(* close the dialog.                                                        *)
BackendSpec ==
    /\ BackendInit /\ [][BackendNext]_backendVars
    /\ WF_backendVars(MainGoesOn) /\ WF_backendVars(NetworkGoesOn)
    /\ WF_backendVars(SignalingGoesOn) /\ WF_backendVars(Exit("worker"))

--------------------------------------------------------------------------
(* Every variable keeps its type. *)
BackendTypeOK ==
    /\ thread \in [Threads -> {"none", "running", "failed", "quitting", "exited", "stopped", "deleted"}]
    /\ m_pcfIface \in {"null", "live"} /\ m_peerConnection \in {"null", "live"}
    /\ refs \in Holders
    /\ cert \in {"none", "requested", "generating", "answered", "failed", "sending",
                 "queued", "dropped", "set"}
    /\ at \in {"starting", "idle", "factory", "connection", "senders", "capture",
               "track", "add", "block", "return", "ready", "stopping", "deleting", "release", "done",
               "hung", "undefined"}

(* A call through a proxy blocks the main thread for ever only because a    *)
(* thread could not be started: neither the order of the calls nor that of  *)
(* the destruction makes it call a thread that was stopped.                 *)
HangsOnlyWithoutThread == at = "hung" => \E t \in Threads : thread[t] = "failed"

(* Undefined behaviour needs a factory: a dialog closed before the login,   *)
(* or whose factory could not be made, goes away cleanly.                   *)
UndefinedNeedsFactory == at = "undefined" => m_pcfIface = "live"

(* The camera stays open exactly as long as it is needed: not longer than   *)
(* initLocalInfo unless the connection has a sender, whichever step failed, *)
(* and while it has one, although both local pointers have gone.            *)
CameraHasSender ==
    /\ sending => capturing /\ m_peerConnection = "live"
    /\ capturing => sending \/ at \in {"track", "add", "block", "return"}

(* The network thread has gone with the Send of the certificate unanswered. *)
CertLost == cert \in {"sending", "queued"} /\ thread["network"] \in {"exited", "stopped"}

(* The stops come to an end, whatever the threads are doing, unless the     *)
(* certificate was sent just as the network thread quit.                    *)
StopsEndUnlessCertLost ==
    at = "stopping" ~> (at \in {"done", "undefined"} \/ CertLost)

(* rtc_base/thread.cc:449: a thread can exit only via Join, so Send must    *)
(* complete: the destructor gets past its three Stops.                      *)
StopsEnd == at = "stopping" ~> at \in {"done", "undefined"}

(* webrtc/pc/peer_connection_factory.cc:146: the worker and the signaling   *)
(* thread outlive what the factory owns.                                    *)
ThreadsOutliveFactory ==
    m_pcfIface = "live" => \A t \in {"worker", "signaling"} : thread[t] # "deleted"
==========================================================================
