---------------------------- MODULE VideoChat ----------------------------
(* The VideoChat dialog of video_chat.cpp: the user's clicks and the Qt     *)
(* slots of the control and the data socket, in the one GUI thread, against *)
(* the HTTP/1.0 peer server (external).                                     *)
(*                                                                          *)
(* A handler runs to its end before the next event is handled: connected()  *)
(* is emitted inside waitForConnected(), so onControlConnect and            *)
(* onDataConnect are part of the handler that dialled.  Whether a dial      *)
(* succeeds is the parameter ok.                                            *)
EXTENDS Naturals, Sequences

CONSTANTS Names,      \* user names
          Ids,        \* the ids the server hands out
          NoName,     \* the empty user name field
          Uninit,     \* my_id before the first assignment: it is not initialised
          NoPeer,     \* peers has no entry for a name
          NoBytes,    \* nothing to read on a socket
          Leftover,       \* the rest of a response whose beginning was already read
          MaxLines    \* bound: the longest peer listing of a response

ASSUME IdsAssumption == Ids \subseteq Nat \ {0}
ASSUME NullsAssumption == /\ NoName \notin Names
                          /\ Uninit \notin Ids \cup {0}
                          /\ NoPeer \notin Ids \cup {0}
                          /\ NoBytes # Leftover
ASSUME MaxLinesAssumption == MaxLines \in Nat \ {0}

Sockets == {"control", "data"}
Entry == [name : Names, id : Ids, up : BOOLEAN]
Listing == UNION {[1 .. m -> Entry] : m \in 1 .. MaxLines}
Response == [kind : {"list"}, id : Ids, lines : Listing]
              \cup [kind : {"json"}, id : Ids, lines : {<<>>}]

ASSUME WireAssumption == NoBytes \notin Response /\ Leftover \notin Response

VARIABLES
    phase,        \* "running", "closed" after ~VideoChat, or the undefined
                  \* behaviour met, of which nothing further is said
    control_socket, data_socket,   \* "null", or the state of the QTcpSocket
    username, my_id, peers,
    shown,        \* the names in model, the list view
    isLoggedIn, isSigningOut, isCalling,
    refused,      \* the last click on login printed "Already logged in"
    inits,        \* calls of be->initLocalInfo()
    signIns,      \* GET /sign_in requests written
    sent,         \* the other requests written: verb and peer_id
    issued,       \* server: every registration <<name, id>> so far
    ask,          \* server: the unanswered request of each connection
    wire          \* the bytes received on each socket and not yet read

client == <<control_socket, data_socket, username, my_id, peers, shown,
            isLoggedIn, isSigningOut, isCalling, refused>>
counts == <<inits, signIns, sent>>
net == <<issued, ask, wire>>
vars == <<phase, client, counts, net>>

Init ==
    /\ phase = "running"
    /\ control_socket = "null" /\ data_socket = "null"
    /\ username = NoName /\ my_id = Uninit
    /\ peers = [n \in Names |-> NoPeer] /\ shown = {}
    /\ isLoggedIn = FALSE /\ isSigningOut = FALSE /\ isCalling = FALSE
    /\ refused = FALSE /\ inits = 0 /\ signIns = 0 /\ sent = {}
    /\ issued = {}
    /\ ask = [s \in Sockets |-> "none"]
    /\ wire = [s \in Sockets |-> NoBytes]

--------------------------------------------------------------------------
(* Reading: readAll() and the split at the blank line and at line ends.     *)

(* Mutant: the splits keep empty parts, so the empty piece after the last   *)
(* line has no tmp[2].                                                      *)
ChunksKeepEmptyParts(r) ==
    {[parsed |-> FALSE, lines |-> <<>>, rest |-> NoBytes]}

(* What one readAll() can return of the pending bytes r: all of them, or,   *)
(* where TCP cuts the response, a beginning.  It is parsed if it has the    *)
(* header and at least one line, none of them torn; otherwise body[1] or    *)
(* tmp[2] is out of range.  The tail of a response has no header, so it     *)
(* never parses.                                                            *)
Chunks(r) ==
    IF r = Leftover
    THEN {[parsed |-> FALSE, lines |-> <<>>, rest |-> NoBytes]}
    ELSE {[parsed |-> TRUE, lines |-> r.lines, rest |-> NoBytes]}
           \cup {[parsed |-> FALSE, lines |-> <<>>, rest |-> Leftover]}
           \cup {[parsed |-> TRUE, lines |-> SubSeq(r.lines, 1, k),
                  rest |-> Leftover] : k \in 1 .. Len(r.lines)}
           \cup {[parsed |-> TRUE, lines |-> <<>>, rest |-> Leftover] :
                  x \in {r.kind} \cap {"json"}}

(* c is not a whole response. *)
Torn(r, c) == r = Leftover \/ c.rest = Leftover

(* if (name.compare(username) && status) *)
Listed(e) == e.name # username /\ e.up

NamesOf(lines) == {lines[i].name : i \in {j \in DOMAIN lines : Listed(lines[j])}}

(* The lines that assign peers[n]; of several, the last one stays. *)
LinesFor(lines, n) == {i \in DOMAIN lines : Listed(lines[i]) /\ lines[i].name = n}
LastFor(lines, n) ==
    CHOOSE i \in LinesFor(lines, n) : \A j \in LinesFor(lines, n) : j <= i

(* Mutant: every name gets the id of the first line. *)
NewPeersFirstId(lines) ==
    [n \in Names |-> IF LinesFor(lines, n) = {} THEN peers[n] ELSE lines[1].id]

NewPeers(lines) ==
    [n \in Names |-> IF LinesFor(lines, n) = {} THEN peers[n]
                     ELSE lines[LastFor(lines, n)].id]

(* Mutant: the expression does not match, and the text of no match is 0. *)
PragmaIdUnmatched(r) == 0

(* rx.indexIn(body[0]): the id of the Pragma line. *)
PragmaId(r) == r.id

(* Mutant: a message is dropped whether or not a call is on. *)
DropsMessageAlways(r) == r.kind = "json"

(* if (isCalling) return, for a message. *)
DropsMessage(r) == r.kind = "json" /\ isCalling

(* The access of a missing list element or through a null pointer. *)
UndefinedBehaviour(what) == phase' = what /\ UNCHANGED <<client, counts, net>>

(* body[1] or tmp[2], of a fragment or of a whole response. *)
OutOfRange(r, c) == UndefinedBehaviour(IF Torn(r, c) THEN "torn" ELSE "out_of_range")

--------------------------------------------------------------------------
(* The connected() slots, part of the handler that dials.                   *)

(* Mutant: the test of isSigningOut is missing. *)
SignsInAlways(signingOut) == signIns' = signIns + 1 /\ isLoggedIn' = TRUE

onControlConnect(signingOut) ==
    IF signingOut
    THEN UNCHANGED <<signIns, isLoggedIn>>
    ELSE signIns' = signIns + 1 /\ isLoggedIn' = TRUE

(* Mutant: the socket is dialled before the Pragma line is parsed. *)
WaitsWithOldId(id) == sent' = sent \cup {[verb |-> "wait", id |-> my_id]}

onDataConnect(id) == sent' = sent \cup {[verb |-> "wait", id |-> id]}

(* connectToHost and waitForConnected of the data socket; left is what the  *)
(* control socket has still to read.  Close() is empty.                     *)
DialData(id, ok, left) ==
    /\ data_socket' = IF ok THEN "connected" ELSE "unconnected"
    /\ IF ok THEN onDataConnect(id) ELSE UNCHANGED sent
    /\ ask' = [ask EXCEPT !["data"] = IF ok THEN "wait" ELSE "none"]
    /\ wire' = [wire EXCEPT !["control"] = left, !["data"] = NoBytes]

(* InitializeConnection: control_socket stays allocated when the dial fails. *)
InitializeConnection(ok) ==
    /\ shown' = {}
    /\ control_socket' = IF ok THEN "connected" ELSE "unconnected"
    /\ ask' = [ask EXCEPT !["control"] = IF ok THEN "sign_in" ELSE "none"]
    /\ IF ok THEN onControlConnect(isSigningOut)
             ELSE UNCHANGED <<signIns, isLoggedIn>>

--------------------------------------------------------------------------
(* The user.                                                                *)

(* A click on login: name is the user name field, filled says whether host  *)
(* and port are given.  initLocalInfo() runs whether or not the dial        *)
(* succeeded.                                                               *)
LoginRefused ==
    /\ phase = "running" /\ control_socket # "null"
    /\ refused' = TRUE
    /\ UNCHANGED <<phase, control_socket, data_socket, username, my_id, peers,
                   shown, isLoggedIn, isSigningOut, isCalling, counts, net>>

Login(name, filled, ok) ==
    /\ phase = "running" /\ control_socket = "null"
    /\ username' = name
    /\ refused' = FALSE
    /\ IF filled /\ name # NoName
       THEN InitializeConnection(ok) /\ inits' = inits + 1
       ELSE UNCHANGED <<shown, control_socket, ask, signIns, isLoggedIn, inits>>
    /\ UNCHANGED <<phase, data_socket, my_id, peers, isSigningOut, isCalling,
                   sent, issued, wire>>

on_login_btn_clicked ==
    \/ LoginRefused
    \/ \E name \in Names \cup {NoName}, filled, ok \in BOOLEAN :
           Login(name, filled, ok)

(* peers[...] inserts 0 for a name it does not know; the request that is    *)
(* composed from it is never written.                                       *)
on_listView_peers_doubleClicked ==
    /\ phase = "running"
    /\ \E n \in shown :
           peers' = [peers EXCEPT ![n] = IF @ = NoPeer THEN 0 ELSE @]
    /\ isCalling' = TRUE
    /\ UNCHANGED <<phase, control_socket, data_socket, username, my_id, shown,
                   isLoggedIn, isSigningOut, refused, counts, net>>

(* ~VideoChat, at the end of main.  Both sockets are dereferenced before    *)
(* they are tested; the sign-out needs a control socket still connected.    *)
SignOut(ok) ==
    /\ isSigningOut' = TRUE
    /\ IF control_socket = "connected" /\ ok
       THEN /\ onControlConnect(isSigningOut')
            /\ sent' = sent \cup {[verb |-> "sign_out", id |-> my_id]}
       ELSE UNCHANGED <<signIns, isLoggedIn, sent>>

Destroy ==
    /\ phase = "running"
    /\ \/ /\ "null" \in {control_socket, data_socket}
          /\ UndefinedBehaviour("null_pointer")
       \/ /\ "null" \notin {control_socket, data_socket}
          /\ \E ok \in BOOLEAN : SignOut(ok)
          /\ phase' = "closed"
          /\ control_socket' = "unconnected" /\ data_socket' = "unconnected"
          /\ ask' = [s \in Sockets |-> "none"]
          /\ wire' = [s \in Sockets |-> NoBytes]
          /\ UNCHANGED <<username, my_id, peers, shown, isCalling, refused,
                         inits, issued>>

--------------------------------------------------------------------------
(* The readyRead() slots.                                                   *)

(* Mutant: the test of the data socket turned round. *)
onControlReadInverted ==
    /\ phase = "running" /\ wire["control"] # NoBytes
    /\ \E c \in Chunks(wire["control"]) :
           \/ ~c.parsed /\ OutOfRange(wire["control"], c)
           \/ /\ c.parsed
              /\ my_id' = PragmaId(wire["control"])
              /\ shown' = NamesOf(c.lines)
              /\ IF data_socket # "connected"
                 THEN /\ wire' = [wire EXCEPT !["control"] = c.rest]
                      /\ UNCHANGED <<data_socket, sent, ask>>
                 ELSE \E ok \in BOOLEAN : DialData(my_id', ok, c.rest)
              /\ UNCHANGED <<phase, control_socket, username, peers, isLoggedIn,
                             isSigningOut, isCalling, refused, inits, signIns,
                             issued>>

(* The sign-in answer: the id of the Pragma line, and a list of names; the  *)
(* ids of the list are not kept.                                            *)
onControlRead ==
    /\ phase = "running" /\ wire["control"] # NoBytes
    /\ \E c \in Chunks(wire["control"]) :
           \/ ~c.parsed /\ OutOfRange(wire["control"], c)
           \/ /\ c.parsed
              /\ my_id' = PragmaId(wire["control"])
              /\ shown' = NamesOf(c.lines)
              /\ IF data_socket = "connected"
                 THEN /\ wire' = [wire EXCEPT !["control"] = c.rest]
                      /\ UNCHANGED <<data_socket, sent, ask>>
                 ELSE \E ok \in BOOLEAN : DialData(my_id', ok, c.rest)
              /\ UNCHANGED <<phase, control_socket, username, peers, isLoggedIn,
                             isSigningOut, isCalling, refused, inits, signIns,
                             issued>>

(* The answer to /wait: a list, a message that arrives while a call is on   *)
(* (early return: the socket is neither closed nor dialled again), or any   *)
(* other message, which is parsed and ignored.                              *)
ApplyList(lines) ==
    /\ peers' = NewPeers(lines)
    /\ shown' = NamesOf(lines)

onDataRead ==
    /\ phase = "running" /\ wire["data"] # NoBytes
    /\ \E c \in Chunks(wire["data"]) :
           \/ ~c.parsed /\ OutOfRange(wire["data"], c)
           \/ /\ c.parsed /\ DropsMessage(wire["data"])
              /\ wire' = [wire EXCEPT !["data"] = c.rest]
              /\ UNCHANGED <<phase, client, counts, issued, ask>>
           \/ /\ c.parsed /\ ~DropsMessage(wire["data"])
              /\ IF wire["data"].kind = "list"
                 THEN ApplyList(c.lines) ELSE UNCHANGED <<peers, shown>>
              /\ \E ok \in BOOLEAN : DialData(my_id, ok, wire["control"])
              /\ UNCHANGED <<phase, control_socket, username, my_id, isLoggedIn,
                             isSigningOut, isCalling, refused, inits, signIns,
                             issued>>

--------------------------------------------------------------------------
(* The peer server, modelled from how the client uses it.                   *)

Fresh(i) == \A r \in issued : r[2] # i

Listings(reg) ==
    {l \in Listing : \A i \in DOMAIN l : <<l[i].name, l[i].id>> \in reg}

ServerRegisters ==
    /\ phase = "running"
    /\ \E n \in Names, i \in Ids :
           Fresh(i) /\ issued' = issued \cup {<<n, i>>}
    /\ UNCHANGED <<phase, client, counts, ask, wire>>

ServerAnswersSignIn ==
    /\ phase = "running" /\ ask["control"] = "sign_in"
    /\ \E i \in Ids :
           /\ Fresh(i)
           /\ issued' = issued \cup {<<username, i>>}
           /\ \E l \in Listings(issued') :
                  wire' = [wire EXCEPT !["control"] =
                              [kind |-> "list", id |-> i, lines |-> l]]
    /\ ask' = [ask EXCEPT !["control"] = "none"]
    /\ UNCHANGED <<phase, client, counts>>

ServerAnswersWait ==
    /\ phase = "running" /\ ask["data"] = "wait"
    /\ \E r \in [kind : {"list"}, id : {my_id}, lines : Listings(issued)]
                  \cup [kind : {"json"}, id : {my_id}, lines : {<<>>}] :
           wire' = [wire EXCEPT !["data"] = r]
    /\ ask' = [ask EXCEPT !["data"] = "none"]
    /\ UNCHANGED <<phase, client, counts, issued>>

(* A connection ends, after the bytes before the end were read; the         *)
(* disconnected() slots only log.                                           *)
ControlDrops ==
    /\ phase = "running" /\ control_socket = "connected"
    /\ wire["control"] = NoBytes
    /\ control_socket' = "unconnected"
    /\ ask' = [ask EXCEPT !["control"] = "none"]
    /\ UNCHANGED <<phase, data_socket, username, my_id, peers, shown, isLoggedIn,
                   isSigningOut, isCalling, refused, counts, issued, wire>>

DataDrops ==
    /\ phase = "running" /\ data_socket = "connected"
    /\ wire["data"] = NoBytes
    /\ data_socket' = "unconnected"
    /\ ask' = [ask EXCEPT !["data"] = "none"]
    /\ UNCHANGED <<phase, control_socket, username, my_id, peers, shown,
                   isLoggedIn, isSigningOut, isCalling, refused, counts, issued,
                   wire>>

Next ==
    \/ on_login_btn_clicked
    \/ on_listView_peers_doubleClicked
    \/ Destroy
    \/ onControlRead
    \/ onDataRead
    \/ ServerRegisters
    \/ ServerAnswersSignIn
    \/ ServerAnswersWait
    \/ ControlDrops
    \/ DataDrops

(* The Qt event loop delivers a pending readyRead(). *)
Fairness == WF_vars(onControlRead) /\ WF_vars(onDataRead)

Spec == Init /\ [][Next]_vars /\ Fairness

--------------------------------------------------------------------------
(* Properties.                                                              *)

(* Every variable keeps its type. *)
TypeOK ==
    /\ phase \in {"running", "closed", "torn", "out_of_range", "null_pointer"}
    /\ control_socket \in {"null", "unconnected", "connected"}
    /\ data_socket \in {"null", "unconnected", "connected"}
    /\ username \in Names \cup {NoName}
    /\ my_id \in Ids \cup {Uninit}
    /\ peers \in [Names -> Ids \cup {0, NoPeer}]
    /\ shown \subseteq Names
    /\ isLoggedIn \in BOOLEAN /\ isSigningOut \in BOOLEAN /\ isCalling \in BOOLEAN
    /\ refused \in BOOLEAN
    /\ inits \in Nat /\ signIns \in Nat
    /\ sent \subseteq [verb : {"wait", "sign_out"}, id : Ids \cup {Uninit}]
    /\ issued \subseteq Names \X Ids
    /\ ask \in [Sockets -> {"none", "sign_in", "wait"}]
    /\ wire \in [Sockets -> Response \cup {NoBytes, Leftover}]

(* my_id is uninitialised until onControlRead, yet every peer_id that       *)
(* onDataConnect and ~VideoChat put into a request is one the server gave   *)
(* to this user name.                                                       *)
RequestsCarryAssignedId == \A m \in sent : <<username, m.id>> \in issued

(* One session per dialog: however often login is clicked and however the   *)
(* dials end, at most one sign_in is written and the Backend is initialised *)
(* at most once, so neither the server nor the camera sees a second client; *)
(* the re-dial of ~VideoChat does not sign in again.                        *)
SessionStartedOnce == signIns <= 1 /\ inits <= 1

(* peers is never cleaned up and is filled from lists that overlap, with    *)
(* names used twice: an id it holds for a name is one the server gave to    *)
(* that name, or the 0 that the lookup of a double click inserts.           *)
PeersTruthful ==
    \A n \in Names : peers[n] \in {0, NoPeer} \/ <<n, peers[n]>> \in issued

(* While no call was started, a connected data socket is never idle: it has *)
(* a wait outstanding or an answer to read, whatever was received before.   *)
ArmedUnlessCalling ==
    phase = "running" /\ data_socket = "connected" /\ ~isCalling
        => ask["data"] = "wait" \/ wire["data"] # NoBytes

(* Apart from responses that TCP tore, the only undefined behaviour of the *)
(* dialog is closing it before the sign-in answer was read: the parsers     *)
(* find every part of a whole response, and ~VideoChat finds both sockets   *)
(* once my_id is known.                                                     *)
UndefinedOnlyBeforeSignIn ==
    /\ phase # "out_of_range"
    /\ phase = "null_pointer" => my_id = Uninit

(* A wait that was answered is asked again, unless the user called someone, *)
(* the dial failed or the dialog was left: the client keeps listening.      *)
AnsweredWaitIsRepeated ==
    (phase = "running" /\ wire["data"] # NoBytes)
        ~> (ask["data"] = "wait" \/ data_socket = "unconnected"
               \/ isCalling \/ phase # "running")

(* video_chat.cpp:61 logs "Already logged in" when it refuses a click.      *)
RefusedOnlyIfLoggedIn == refused => isLoggedIn
==========================================================================
