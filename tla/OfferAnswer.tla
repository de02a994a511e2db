--------------------------- MODULE OfferAnswer ---------------------------
(* MyWidget: one offer made, shown, applied and answered by hand, with the  *)
(* ICE candidates copied the same way.  The GUI thread runs the slots; its  *)
(* calls on the connection run on the signaling thread, where the proxy     *)
(* posts them behind the messages that are there already.  The model lets   *)
(* a call run at once, before them or after: every order of the code is     *)
(* among its own, with others that the code does not have.  The certificate *)
(* comes from the network thread, which also gathers the candidates; what   *)
(* the observers hear on the signaling thread reaches the widget as a       *)
(* queued signal.                                                           *)
EXTENDS Naturals, Sequences

CONSTANTS
    Mids,   \* the m= sections of the offer, by name, in order
    NoMid,  \* an empty "sdpMid"
    Stray   \* a mid the session does not have

MidSet == {Mids[i] : i \in 1 .. Len(Mids)}

ASSUME MidsAssumption ==
    /\ Mids \in Seq(STRING) /\ Mids # <<>>
    /\ NoMid \notin MidSet /\ Stray \notin MidSet

VARIABLES
    at,                \* the GUI thread: idle, offering (before CreateOffer), gathering
                       \* (before MaybeStartGathering); closed and undefined are final
    m_pcfIface, m_peerConnection,  \* null or live
    events,            \* signals queued to the widget
    m_pOfferText,      \* the offer is shown
    m_pOwnICEText,     \* the mids of the lines shown
    msgq,              \* messages posted to the signaling thread
    cert,              \* certificate_request_state_: none, waiting, succeeded, failed
    requested,         \* the network thread is to generate the certificate
    pending_requests,  \* create_session_description_requests_: how many
    offer,             \* what MySDObserver heard: nothing, success, failure
    set_local,         \* what SetLocalDescription's observer heard
    signaling_state,
    session_error,
    pending_local, current_local,  \* null or offer
    remote,            \* the remote description
    described,         \* the candidates in it, by section
    channels,          \* the sections with a media channel
    transports,        \* the sections with a transport of their own
    gathering,         \* the transports gather candidates
    checks             \* remote candidates handed to a transport

widget == <<at, m_pcfIface, m_peerConnection, m_pOfferText, m_pOwnICEText>>
factory == <<cert, requested, pending_requests, offer>>
session == <<signaling_state, session_error, pending_local, current_local, remote,
             channels, transports>>
ice == <<described, checks>>
offerVars == <<widget, events, msgq, factory, set_local, session, ice, gathering>>

NoDescription == [kind |-> "null", bundle |-> FALSE, rejected |-> {}, candidates |-> {}]

(* What can be pasted as an answer: text that is no description, one whose  *)
(* sections, keys or passwords do not do for the offer, or an answer that   *)
(* bundles its sections or not, rejects some, and has candidates for some.  *)
Answers == [kind : {"null", "invalid", "answer"}, bundle : BOOLEAN,
            rejected : SUBSET MidSet, candidates : SUBSET MidSet]

(* What can be pasted as a candidate: its mid, and whether it parses.       *)
Lines == [mid : MidSet \cup {NoMid, Stray}, parses : BOOLEAN]

OfferInit ==
    /\ at = "idle" /\ m_pcfIface = "null" /\ m_peerConnection = "null"
    /\ events = <<>> /\ m_pOfferText = FALSE /\ m_pOwnICEText = {}
    /\ msgq = <<>>
    /\ cert = "none" /\ requested = FALSE /\ pending_requests = 0
    /\ offer = "none" /\ set_local = "none"
    /\ signaling_state = "stable" /\ session_error = FALSE
    /\ pending_local = "null" /\ current_local = "null" /\ remote = NoDescription
    /\ described = {} /\ channels = {} /\ transports = {}
    /\ gathering = FALSE /\ checks = {}

Msg(type, mid) == [type |-> type, mid |-> mid]

(* local_description(): the pending one before the current one. *)
local_description == IF pending_local # "null" THEN pending_local ELSE current_local

--------------------------------------------------------------------------
(* OnStartClicked.  A factory that could not be made may be tried again; a  *)
(* connection that could not is used all the same; without a camera no      *)
(* offer is made, and no later click makes one.  A new connection has no    *)
(* sender and accepts the stream.                                           *)
OnStartClicked(made) ==
    /\ at = "idle" /\ m_pcfIface = "null"
    /\ m_pcfIface' = IF made = "nothing" THEN "null" ELSE "live"
    /\ m_peerConnection' = IF made \in {"connection", "stream"} THEN "live" ELSE "null"
    /\ cert' = IF m_peerConnection' = "live" THEN "waiting" ELSE cert
    /\ requested' = (m_peerConnection' = "live")
    /\ at' = CASE made = "factory" -> "undefined"
               [] made = "stream" -> "offering"
               [] OTHER -> "idle"
    /\ UNCHANGED <<events, m_pOfferText, m_pOwnICEText, msgq, pending_requests, offer,
                   set_local, session, ice, gathering>>

(* InternalCreateOffer makes the description or not, and posts which.       *)
Created(ok) == Msg(IF ok THEN "create_ok" ELSE "create_failed", NoMid)

(* WebRtcSessionDescriptionFactory::CreateOffer waits for the certificate.  *)
CreateOffer(ok) ==
    /\ at = "offering" /\ at' = "idle"
    /\ pending_requests' = IF cert = "waiting" THEN pending_requests + 1 ELSE pending_requests
    /\ msgq' = CASE cert = "waiting" -> msgq
                 [] cert = "failed" -> Append(msgq, Created(FALSE))
                 [] OTHER -> Append(msgq, Created(ok))
    /\ UNCHANGED <<m_pcfIface, m_peerConnection, m_pOfferText, m_pOwnICEText, events,
                   cert, requested, offer, set_local, session, ice, gathering>>

--------------------------------------------------------------------------
(* SetLocalDescription of the offer shown: refused, failed within           *)
(* ApplyLocalDescription, or applied.                                       *)

ExpectSetLocalDescription == signaling_state \in {"stable", "have_local_offer"}

LocalApplied ==
    /\ pending_local' = "offer"
    /\ transports' = MidSet /\ channels' = MidSet
    /\ signaling_state' = "have_local_offer"
    /\ UNCHANGED <<session_error, current_local, remote>>

(* At the transports (which may be there or not), or at the media channels, *)
(* when the state has changed already.                                      *)
LocalFails ==
    /\ pending_local' = "offer"
    /\ session_error' = TRUE
    /\ \/ signaling_state' = signaling_state /\ channels' \in {{}, MidSet}
          /\ transports' \in {{}, MidSet} /\ (channels' # {} => transports' # {})
       \/ signaling_state' = "have_local_offer" /\ channels' = MidSet /\ transports' = MidSet
    /\ UNCHANGED <<current_local, remote>>

(* Mutant: the transports gather before the success is posted. *)
SetLocalDescriptionGathers(result) ==
    /\ result = "applied" /\ ~session_error /\ ExpectSetLocalDescription /\ LocalApplied
    /\ msgq' = msgq \o <<Msg("candidate", Mids[1]), Msg("set_ok", NoMid)>>
    /\ at' = "gathering"

(* Refused: no description, an earlier error, the wrong state, or not valid.*)
SetLocalDescription(result) ==
    /\ \/ result = "refused" /\ UNCHANGED session
       \/ /\ ~session_error /\ ExpectSetLocalDescription
          /\ \/ result = "applied" /\ LocalApplied
             \/ result = "fails" /\ LocalFails
    /\ msgq' = Append(msgq, Msg(IF result = "applied" THEN "set_ok" ELSE "set_failed", NoMid))
    /\ at' = IF result = "applied" THEN "gathering" ELSE "idle"

OnLocalSDPInfo(result) ==
    /\ at = "idle" /\ events # <<>> /\ Head(events).type = "offer"
    /\ events' = Tail(events)
    /\ m_pOfferText' = TRUE
    /\ SetLocalDescription(result)
    /\ UNCHANGED <<m_pcfIface, m_peerConnection, m_pOwnICEText, factory, set_local, ice,
                   gathering>>

(* The last thing SetLocalDescription does. *)
MaybeStartGathering ==
    /\ at = "gathering" /\ at' = "idle"
    /\ gathering' = TRUE
    /\ UNCHANGED <<m_pcfIface, m_peerConnection, m_pOfferText, m_pOwnICEText, events, msgq,
                   factory, set_local, session, ice>>

OnLocalIceCandidate ==
    /\ at = "idle" /\ events # <<>> /\ Head(events).type = "ice"
    /\ events' = Tail(events)
    /\ m_pOwnICEText' = m_pOwnICEText \cup {Head(events).mid}
    /\ UNCHANGED <<at, m_pcfIface, m_peerConnection, m_pOfferText, msgq, factory, set_local,
                   session, ice, gathering>>

--------------------------------------------------------------------------
(* OnAnswerClicked.  The connection is used without a test.                 *)

(* Mutant: an earlier failure does not count. *)
AcceptsAfterError(answer) ==
    answer.kind = "answer" /\ signaling_state = "have_local_offer"

(* SetRemoteDescription and ValidateSessionDescription. *)
AcceptsRemote(answer) ==
    answer.kind = "answer" /\ ~session_error /\ signaling_state = "have_local_offer"

(* The section whose transport carries the bundle: the first not rejected.  *)
BundledMid(answer) ==
    Mids[CHOOSE i \in 1 .. Len(Mids) :
            /\ Mids[i] \notin answer.rejected
            /\ \A j \in 1 .. i - 1 : Mids[j] \in answer.rejected]

(* The transports an answer leaves: one for a bundle, none for a rejected   *)
(* section.                                                                 *)
Remaining(answer) ==
    IF answer.bundle /\ answer.rejected # MidSet
    THEN {BundledMid(answer)} ELSE MidSet \ answer.rejected

RemoteApplied(answer) ==
    /\ remote' = answer
    /\ pending_local' = "null" /\ current_local' = pending_local
    /\ transports' = Remaining(answer) /\ channels' = MidSet \ answer.rejected
    /\ signaling_state' = "stable"
    /\ described' = answer.candidates
    /\ checks' = {[mid |-> m, transport |-> m] :
                    m \in (answer.candidates \ answer.rejected) \cap Remaining(answer)}
    /\ UNCHANGED session_error

(* The descriptions have moved by then; the transports may be between the   *)
(* old and the new; at the media the state has changed already.  Its        *)
(* candidates are not used.                                                 *)
RemoteFails(answer) ==
    /\ remote' = answer
    /\ pending_local' = "null" /\ current_local' = pending_local
    /\ session_error' = TRUE
    /\ described' = answer.candidates /\ UNCHANGED checks
    /\ \/ /\ signaling_state' = signaling_state /\ channels' = channels
          /\ \E gone \in SUBSET (transports \ Remaining(answer)) : transports' = transports \ gone
       \/ /\ signaling_state' = "stable" /\ channels' = MidSet \ answer.rejected
          /\ transports' = Remaining(answer)

SetRemoteDescription(answer) ==
    IF AcceptsRemote(answer) THEN RemoteApplied(answer) \/ RemoteFails(answer)
    ELSE UNCHANGED <<session, ice>>

OnAnswerClicked(answer) ==
    /\ at = "idle"
    /\ IF m_peerConnection = "null" THEN at' = "undefined" /\ UNCHANGED <<session, ice>>
       ELSE at' = at /\ SetRemoteDescription(answer)
    /\ UNCHANGED <<m_pcfIface, m_peerConnection, m_pOfferText, m_pOwnICEText, events, msgq,
                   factory, set_local, gathering>>

--------------------------------------------------------------------------
(* OnRemoteICEClicked: every line with three parts goes to AddIceCandidate. *)

(* A line {"sdpMLineIndex":N,"sdpMid":"M","candidate":"C"} is cut at every  *)
(* comma and quote, and the third piece of each part is kept: M and C, and, *)
(* for N, which has no quotes, the text :N, of which atoi makes 0, the      *)
(* first section.  An empty M leaves two parts, and the line is passed over.*)
Sent(line) == line.mid # NoMid /\ line.parses
SectionByIndex(line) == Mids[1]

(* Mutant: an unknown mid is passed on to the transports. *)
AddCandidateAnyMid(line) == remote.kind # "null"

(* The section is valid; JsepSessionDescription::AddCandidate goes by mid.  *)
AddCandidate(line) == remote.kind # "null" /\ line.mid \in MidSet

(* UseCandidate goes by index, if that section has a channel; a transport   *)
(* that does not exist is passed over.                                      *)
UsesCandidate(line) == SectionByIndex(line) \in channels \cap transports

AddIceCandidates(lines) ==
    LET added == {l \in lines : AddCandidate(l)} IN
    /\ described' = described \cup ({l.mid : l \in added} \cap MidSet)
    /\ checks' = checks \cup {[mid |-> l.mid, transport |-> SectionByIndex(l)] :
                                l \in {a \in added : UsesCandidate(a)}}

OnRemoteICEClicked(lines) ==
    /\ at = "idle"
    /\ LET sent == {l \in lines : Sent(l)} IN
       IF m_peerConnection = "null"
       THEN at' = (IF sent = {} THEN at ELSE "undefined") /\ UNCHANGED ice
       ELSE at' = at /\ AddIceCandidates(sent)
    /\ UNCHANGED <<m_pcfIface, m_peerConnection, m_pOfferText, m_pOwnICEText, events, msgq,
                   factory, set_local, session, gathering>>

(* ~MyWidget: the threads go before the connection and the factory, whose   *)
(* destructors are calls on the signaling thread (Backend).                 *)
Close ==
    /\ at = "idle"
    /\ at' = IF m_pcfIface = "live" THEN "undefined" ELSE "closed"
    /\ UNCHANGED <<m_pcfIface, m_peerConnection, m_pOfferText, m_pOwnICEText, events, msgq,
                   factory, set_local, session, ice, gathering>>

--------------------------------------------------------------------------
(* The network thread.                                                      *)

Alive == at \notin {"closed", "undefined"}

GenerateCertificate(ok) ==
    /\ Alive /\ requested
    /\ requested' = FALSE
    /\ msgq' = Append(msgq, Msg(IF ok THEN "cert_ok" ELSE "cert_failed", NoMid))
    /\ UNCHANGED <<widget, events, cert, pending_requests, offer, set_local, session, ice,
                   gathering>>

(* A transport finds a candidate; one on its way for each section is enough.*)
CandidateGathered(mid) ==
    /\ Alive /\ gathering /\ mid \in transports
    /\ \A i \in 1 .. Len(msgq) : msgq[i] # Msg("candidate", mid)
    /\ \A i \in 1 .. Len(events) : events[i] # Msg("ice", mid)
    /\ msgq' = Append(msgq, Msg("candidate", mid))
    /\ UNCHANGED <<widget, events, factory, set_local, session, ice, gathering>>

--------------------------------------------------------------------------
(* The signaling thread handles its messages in order, between the calls.   *)

Handles(type) ==
    /\ at \in {"idle", "offering"}
    /\ msgq # <<>> /\ Head(msgq).type = type

Answered(ok) == [i \in 1 .. pending_requests |-> Created(ok)]

(* Mutant: the requests that wait are not looked at. *)
SetCertificateForgets(ok) ==
    /\ Handles("cert_ok")
    /\ cert' = "succeeded"
    /\ msgq' = Tail(msgq)
    /\ UNCHANGED <<widget, events, requested, pending_requests, offer, set_local, session,
                   ice, gathering>>

SetCertificate(ok) ==
    /\ Handles("cert_ok")
    /\ cert' = "succeeded"
    /\ pending_requests' = 0
    /\ msgq' = Tail(msgq) \o Answered(ok)
    /\ UNCHANGED <<widget, events, requested, offer, set_local, session, ice, gathering>>

OnCertificateRequestFailed ==
    /\ Handles("cert_failed")
    /\ cert' = "failed"
    /\ pending_requests' = 0
    /\ msgq' = Tail(msgq) \o Answered(FALSE)
    /\ UNCHANGED <<widget, events, requested, offer, set_local, session, ice, gathering>>

(* MySDObserver::OnSuccess sends the text to the widget. *)
OnCreateSuccess ==
    /\ Handles("create_ok")
    /\ msgq' = Tail(msgq)
    /\ offer' = "success"
    /\ events' = Append(events, Msg("offer", NoMid))
    /\ UNCHANGED <<widget, cert, requested, pending_requests, set_local, session, ice,
                   gathering>>

OnCreateFailure ==
    /\ Handles("create_failed")
    /\ msgq' = Tail(msgq)
    /\ offer' = "failure"
    /\ UNCHANGED <<widget, events, cert, requested, pending_requests, set_local, session, ice,
                   gathering>>

OnSetComplete ==
    /\ Handles("set_ok") \/ Handles("set_failed")
    /\ msgq' = Tail(msgq)
    /\ set_local' = IF Head(msgq).type = "set_ok" THEN "success" ELSE "failure"
    /\ UNCHANGED <<widget, events, factory, session, ice, gathering>>

(* OnTransportControllerCandidatesGathered and MyConnectionObserver: the    *)
(* line names the section in the local description, and is lost without one.*)
OnIceCandidate ==
    /\ Handles("candidate")
    /\ msgq' = Tail(msgq)
    /\ events' = IF local_description = "null" THEN events
                 ELSE Append(events, Msg("ice", Head(msgq).mid))
    /\ UNCHANGED <<widget, factory, set_local, session, ice, gathering>>

--------------------------------------------------------------------------
WidgetGoesOn ==
    \/ \E ok \in BOOLEAN : CreateOffer(ok)
    \/ \E result \in {"refused", "fails", "applied"} : OnLocalSDPInfo(result)
    \/ MaybeStartGathering \/ OnLocalIceCandidate

SignalingGoesOn ==
    \/ \E ok \in BOOLEAN : SetCertificate(ok)
    \/ OnCertificateRequestFailed
    \/ OnCreateSuccess \/ OnCreateFailure \/ OnSetComplete \/ OnIceCandidate

User ==
    \/ \E made \in {"nothing", "factory", "connection", "stream"} : OnStartClicked(made)
    \/ \E answer \in Answers : OnAnswerClicked(answer)
    \/ \E lines \in SUBSET Lines : OnRemoteICEClicked(lines)
    \/ Close

OfferNext ==
    \/ User \/ WidgetGoesOn \/ SignalingGoesOn
    \/ \E ok \in BOOLEAN : GenerateCertificate(ok)
    \/ \E mid \in MidSet : CandidateGathered(mid)

(* The threads go on with what they have to do; nobody has to click, and no *)
(* candidate has to be found.                                               *)
OfferSpec ==
    /\ OfferInit /\ [][OfferNext]_offerVars
    /\ WF_offerVars(WidgetGoesOn) /\ WF_offerVars(SignalingGoesOn)
    /\ WF_offerVars(\E ok \in BOOLEAN : GenerateCertificate(ok))

--------------------------------------------------------------------------
(* Every variable keeps its type, and a final state is one of the two. *)
OfferTypeOK ==
    /\ at \in {"idle", "offering", "gathering", "closed", "undefined"}
    /\ m_pcfIface \in {"null", "live"} /\ m_peerConnection \in {"null", "live"}
    /\ events \in Seq([type : {"offer", "ice"}, mid : MidSet \cup {NoMid}])
    /\ m_pOfferText \in BOOLEAN /\ m_pOwnICEText \subseteq MidSet
    /\ msgq \in Seq([type : {"cert_ok", "cert_failed", "create_ok", "create_failed",
                              "set_ok", "set_failed", "candidate"},
                      mid : MidSet \cup {NoMid}])
    /\ cert \in {"none", "waiting", "succeeded", "failed"}
    /\ requested \in BOOLEAN /\ pending_requests \in 0 .. 1
    /\ offer \in {"none", "success", "failure"} /\ set_local \in {"none", "success", "failure"}
    /\ signaling_state \in {"stable", "have_local_offer"} /\ session_error \in BOOLEAN
    /\ pending_local \in {"null", "offer"} /\ current_local \in {"null", "offer"}
    /\ remote \in Answers
    /\ described \subseteq MidSet /\ channels \subseteq MidSet /\ transports \subseteq MidSet
    /\ gathering \in BOOLEAN
    /\ checks \subseteq [mid : MidSet, transport : MidSet]

(* No candidate is signalled before SetLocalDescription was said to have    *)
(* completed: the success is posted before the transports start to gather,  *)
(* although they do so on another thread.                                   *)
CandidatesAfterSuccess ==
    m_pOwnICEText # {} \/ (\E i \in 1 .. Len(events) : events[i].type = "ice")
        => set_local = "success"

(* Once the offer is applied there is a local description, whatever answers *)
(* are pasted, in whatever state and however they fail: the move of the     *)
(* pending description to the current one happens at most once.             *)
LocalOfferKept == gathering => local_description = "offer"

(* A candidate a transport checks is in the remote description, which is    *)
(* what a later negotiation would start from.                               *)
CheckedIsDescribed == \A c \in checks : c.mid \in described

(* Every offer asked for is shown and its application reported, or refused, *)
(* whether the certificate came before or after the request.                *)
OfferSettled ==
    at = "offering" ~> (offer = "failure" \/ set_local # "none" \/ ~Alive)

(* webrtc/api/jsep.h:61: the index of a candidate is that of the section it *)
(* is associated with: its checks are those of the transport that carries   *)
(* the section its mid names.                                               *)
CandidateInItsSection ==
    \A c \in checks :
        c.transport = IF remote.bundle /\ c.mid \notin remote.rejected
                      THEN BundledMid(remote) ELSE c.mid
==========================================================================
