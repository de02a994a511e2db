------------------------- MODULE VideoChatProofs -------------------------
(* The safety properties of VideoChat for every set of names and ids, every *)
(* listing length, with responses cut anywhere.                              *)
EXTENDS VideoChat, TLAPS, WellFoundedInduction

(* Before the first dial nothing was started or sent. *)
NothingBeforeLogin ==
    control_socket = "null" =>
        /\ data_socket = "null" /\ my_id = Uninit
        /\ signIns = 0 /\ inits = 0 /\ sent = {}
        /\ ask["control"] = "none" /\ wire["control"] = NoBytes

(* Only a valid name signs in, and only a running dialog is not signing out. *)
SignInNamed == ask["control"] = "sign_in" => username \in Names
NotSigningOut == phase = "running" => ~isSigningOut

(* my_id, once set, is the id the server gave to the user name, and it is   *)
(* set before the data socket exists.                                       *)
MyIdAssigned == my_id # Uninit => <<username, my_id>> \in issued
DataNeedsId == data_socket # "null" <=> my_id # Uninit

(* A wait is outstanding, or its answer pending, only on a connected socket. *)
WaitNeedsData ==
    ask["data"] # "none" \/ wire["data"] # NoBytes => data_socket = "connected"

(* Every listing in flight holds registrations, and the answer to the       *)
(* sign-in carries the id given to the user name.                           *)
WireTruthful ==
    /\ \A s \in Sockets : wire[s] \in Response =>
           \A i \in DOMAIN wire[s].lines :
               <<wire[s].lines[i].name, wire[s].lines[i].id>> \in issued
    /\ wire["control"] \in Response => <<username, wire["control"].id>> \in issued

(* The inductive invariant. *)
IInv ==
    /\ TypeOK
    /\ NothingBeforeLogin /\ SignInNamed /\ NotSigningOut
    /\ MyIdAssigned /\ DataNeedsId /\ WaitNeedsData
    /\ WireTruthful
    /\ RequestsCarryAssignedId /\ SessionStartedOnce
    /\ PeersTruthful /\ ArmedUnlessCalling /\ UndefinedOnlyBeforeSignIn

--------------------------------------------------------------------------
(* Lemmas on the helpers that read a response.                              *)

(* A non-empty set of line numbers has a largest element: the last line of  *)
(* onDataRead's loop that assigns a name.                                   *)
LEMMA LargestLine ==
    ASSUME NEW m \in Nat, NEW S, S \subseteq 1 .. m, S # {}
    PROVE  \E i \in S : \A j \in S : j <= i
<1> DEFINE T == {x \in Nat : \E i \in S : x = m - i}
           R == OpToRel(<, Nat)
<1>1. T \subseteq Nat /\ T # {}
  <2>1. PICK i \in S : TRUE
    OBVIOUS
  <2>2. m - i \in T
    BY <2>1
  <2> QED BY <2>2
<1>2. \E x \in T : \A y \in T : ~(<<y, x>> \in R)
  <2> HIDE DEF T
  <2> QED BY <1>1, NatLessThanWellFounded, WFMin, Zenon
<1>3. PICK x \in T : \A y \in T : ~(<<y, x>> \in R)
  BY <1>2
<1>4. \A y \in T : ~(y < x)
  <2> SUFFICES ASSUME NEW y \in T, y < x PROVE FALSE
    OBVIOUS
  <2>1. <<y, x>> \in Nat \X Nat /\ <<y, x>>[1] < <<y, x>>[2]
    BY <1>1
  <2>2. <<y, x>> \in R
    BY <2>1 DEF OpToRel
  <2> QED BY <1>3, <2>2
<1>5. PICK i \in S : x = m - i
  BY <1>3
<1>6. \A j \in S : m - j \in T
  OBVIOUS
<1>7. \A j \in S : j <= i
  BY <1>4, <1>5, <1>6
<1> QED BY <1>5, <1>7

(* The lines of a response are a sequence of entries. *)
LEMMA ResponseLines ==
    ASSUME NEW r \in Response
    PROVE  /\ r.lines \in Seq(Entry) /\ r.id \in Ids
           /\ r.kind \in {"list", "json"}
           /\ r # NoBytes /\ r # Leftover
<1>1. CASE r \in [kind : {"list"}, id : Ids, lines : Listing]
  <2>1. PICK m \in 1 .. MaxLines : r.lines \in [1 .. m -> Entry]
    BY <1>1 DEF Listing
  <2> QED BY <1>1, <2>1, MaxLinesAssumption, WireAssumption
<1>2. CASE r \in [kind : {"json"}, id : Ids, lines : {<<>>}]
  <2>1. r.lines = <<>> /\ r.id \in Ids /\ r.kind = "json"
    BY <1>2
  <2> QED BY <2>1, WireAssumption
<1> QED BY <1>1, <1>2 DEF Response

(* A parsed chunk is a beginning of the lines of a response that was on the *)
(* wire, and what does not parse is not a whole response.                   *)
LEMMA ChunkOfResponse ==
    ASSUME NEW r \in Response \cup {Leftover}, NEW c \in Chunks(r)
    PROVE  /\ c.rest \in {NoBytes, Leftover}
           /\ c.parsed => /\ r \in Response
                          /\ c.lines \in Seq(Entry)
                          /\ DOMAIN c.lines \subseteq DOMAIN r.lines
                          /\ \A i \in DOMAIN c.lines : c.lines[i] = r.lines[i]
           /\ ~c.parsed => Torn(r, c)
<1>1. CASE r = Leftover
  BY <1>1 DEF Chunks, Torn
<1>2. CASE r # Leftover
  <2>1. r \in Response /\ r.lines \in Seq(Entry)
    BY <1>2, ResponseLines
  <2>2. \A k \in 1 .. Len(r.lines) :
           LET l == SubSeq(r.lines, 1, k) IN
           /\ l \in Seq(Entry) /\ DOMAIN l \subseteq DOMAIN r.lines
           /\ \A i \in DOMAIN l : l[i] = r.lines[i]
    BY <2>1
  <2>3. /\ <<>> \in Seq(Entry) /\ DOMAIN <<>> \subseteq DOMAIN r.lines
        /\ \A i \in DOMAIN <<>> : <<>>[i] = r.lines[i]
    OBVIOUS
  <2>4. CASE c = [parsed |-> TRUE, lines |-> r.lines, rest |-> NoBytes]
    BY <2>1, <2>4
  <2>5. CASE c = [parsed |-> FALSE, lines |-> <<>>, rest |-> Leftover]
    BY <2>5 DEF Torn
  <2>6. CASE \E k \in 1 .. Len(r.lines) :
               c = [parsed |-> TRUE, lines |-> SubSeq(r.lines, 1, k),
                    rest |-> Leftover]
    BY <2>1, <2>2, <2>6
  <2>7. CASE c = [parsed |-> TRUE, lines |-> <<>>, rest |-> Leftover]
    BY <2>1, <2>3, <2>7
  <2> QED BY <1>2, <2>4, <2>5, <2>6, <2>7 DEF Chunks
<1> QED BY <1>1, <1>2

(* What onDataRead stores for a name is an id some line gave that name. *)
LEMMA NewPeersFromLines ==
    ASSUME NEW lines \in Seq(Entry), NEW n \in Names
    PROVE  \/ NewPeers(lines)[n] = peers[n]
           \/ \E i \in DOMAIN lines : /\ lines[i].name = n
                                      /\ NewPeers(lines)[n] = lines[i].id
<1>1. CASE LinesFor(lines, n) = {}
  BY <1>1 DEF NewPeers
<1>2. CASE LinesFor(lines, n) # {}
  <2>1. LinesFor(lines, n) \subseteq 1 .. Len(lines) /\ Len(lines) \in Nat
    BY DEF LinesFor
  <2>2. \E i \in LinesFor(lines, n) : \A j \in LinesFor(lines, n) : j <= i
    BY <1>2, <2>1, LargestLine
  <2>3. LastFor(lines, n) \in LinesFor(lines, n)
    BY <2>2, Zenon DEF LastFor
  <2>4. NewPeers(lines)[n] = lines[LastFor(lines, n)].id
    BY <1>2 DEF NewPeers
  <2> QED BY <2>3, <2>4 DEF LinesFor
<1> QED BY <1>1, <1>2

(* The list view only ever shows names. *)
LEMMA NamesOfTyped ==
    ASSUME NEW lines \in Seq(Entry)
    PROVE  NamesOf(lines) \subseteq Names
<1>1. \A i \in DOMAIN lines : lines[i] \in Entry
  OBVIOUS
<1>2. \A i \in DOMAIN lines : lines[i].name \in Names
  BY <1>1 DEF Entry
<1> QED BY <1>2, Zenon DEF NamesOf

--------------------------------------------------------------------------
(* The invariant holds initially and every step preserves it.               *)

(* The constructor establishes the invariant. *)
LEMMA InitIInv == Init => IInv
<1> SUFFICES ASSUME Init PROVE IInv
  OBVIOUS
<1>1. TypeOK
  BY DEF Init, TypeOK, Sockets
<1>2. \A s \in Sockets : wire[s] \notin Response
  BY WireAssumption DEF Init
<1> QED
  BY <1>1, <1>2, NullsAssumption
  DEF Init, IInv, NothingBeforeLogin, SignInNamed, NotSigningOut, MyIdAssigned,
      DataNeedsId, WaitNeedsData, WireTruthful, Sockets,
      RequestsCarryAssignedId, SessionStartedOnce, PeersTruthful,
      ArmedUnlessCalling, UndefinedOnlyBeforeSignIn

(* Undefined behaviour is only met as UndefinedOnlyBeforeSignIn says. *)
LEMMA UndefinedIInv ==
    ASSUME IInv, NEW what,
           \/ what = "torn"
           \/ what = "null_pointer" /\ data_socket = "null",
           UndefinedBehaviour(what)
    PROVE  IInv'
BY DEF UndefinedBehaviour, client, counts, net, IInv, TypeOK, NothingBeforeLogin,
       SignInNamed, NotSigningOut, MyIdAssigned, DataNeedsId, WaitNeedsData,
       WireTruthful, RequestsCarryAssignedId, SessionStartedOnce,
       PeersTruthful, ArmedUnlessCalling, UndefinedOnlyBeforeSignIn

(* A refused click changes nothing but the message. *)
LEMMA LoginRefusedIInv == ASSUME IInv, LoginRefused PROVE IInv'
BY DEF LoginRefused, counts, net, IInv, TypeOK, NothingBeforeLogin,
       SignInNamed, NotSigningOut, MyIdAssigned, DataNeedsId, WaitNeedsData,
       WireTruthful, RequestsCarryAssignedId, SessionStartedOnce,
       PeersTruthful, ArmedUnlessCalling, UndefinedOnlyBeforeSignIn

(* A login that is let through is the first one: nothing was sent before. *)
LEMMA LoginIInv ==
    ASSUME IInv, NEW name \in Names \cup {NoName}, NEW filled \in BOOLEAN,
           NEW ok \in BOOLEAN, Login(name, filled, ok)
    PROVE  IInv'
<1> USE DEF Login, InitializeConnection, onControlConnect
<1>1. TypeOK'
  <2>1. isLoggedIn' = TRUE \/ isLoggedIn' = isLoggedIn
    BY Zenon
  <2>2. isLoggedIn' \in BOOLEAN
    BY <2>1 DEF IInv, TypeOK
  <2>3. /\ signIns' \in Nat /\ inits' \in Nat /\ shown' \subseteq Names
        /\ control_socket' \in {"null", "unconnected", "connected"}
    BY DEF IInv, TypeOK
  <2>4. ask' \in [Sockets -> {"none", "sign_in", "wait"}]
    BY DEF IInv, TypeOK, Sockets
  <2> QED BY <2>2, <2>3, <2>4 DEF IInv, TypeOK
<1>2. /\ NothingBeforeLogin' /\ SignInNamed' /\ NotSigningOut'
      /\ SessionStartedOnce'
  BY DEF IInv, TypeOK, Sockets, NothingBeforeLogin, SignInNamed, NotSigningOut,
         SessionStartedOnce
<1>3. MyIdAssigned' /\ DataNeedsId' /\ RequestsCarryAssignedId'
  BY DEF IInv, NothingBeforeLogin, MyIdAssigned, DataNeedsId,
         RequestsCarryAssignedId
<1>4. WaitNeedsData' /\ ArmedUnlessCalling'
  BY DEF IInv, TypeOK, Sockets, NothingBeforeLogin, WaitNeedsData,
         ArmedUnlessCalling
<1>5. WireTruthful'
  BY WireAssumption DEF IInv, TypeOK, NothingBeforeLogin, WireTruthful
<1>6. PeersTruthful' /\ UndefinedOnlyBeforeSignIn'
  BY DEF IInv, PeersTruthful, UndefinedOnlyBeforeSignIn
<1> QED BY <1>1, <1>2, <1>3, <1>4, <1>5, <1>6 DEF IInv

(* A double click changes peers at most by a 0. *)
LEMMA DoubleClickIInv ==
    ASSUME IInv, on_listView_peers_doubleClicked PROVE IInv'
<1> USE DEF on_listView_peers_doubleClicked, counts, net
<1>1. TypeOK'
  BY DEF IInv, TypeOK
<1>2. PeersTruthful'
  BY DEF IInv, TypeOK, PeersTruthful
<1> QED
  BY <1>1, <1>2
  DEF IInv, NothingBeforeLogin, SignInNamed, NotSigningOut, MyIdAssigned,
      DataNeedsId, WaitNeedsData, WireTruthful,
      RequestsCarryAssignedId, SessionStartedOnce, ArmedUnlessCalling,
      UndefinedOnlyBeforeSignIn

(* The destructor signs out with an id the server gave. *)
LEMMA DestroyIInv == ASSUME IInv, Destroy PROVE IInv'
<1>1. CASE "null" \in {control_socket, data_socket}
  <2>1. data_socket = "null"
    BY <1>1 DEF IInv, NothingBeforeLogin
  <2> QED BY <1>1, <2>1, UndefinedIInv DEF Destroy
<1>2. CASE "null" \notin {control_socket, data_socket}
  <2>1. PICK ok \in BOOLEAN : SignOut(ok)
    BY <1>2 DEF Destroy
  <2> USE <1>2, <2>1 DEF Destroy, SignOut, onControlConnect
  <2>2. TypeOK'
    BY DEF IInv, TypeOK, Sockets
  <2>3. my_id # Uninit /\ <<username, my_id>> \in issued
    BY DEF IInv, DataNeedsId, MyIdAssigned
  <2>4. RequestsCarryAssignedId' /\ SessionStartedOnce'
    BY <2>3 DEF IInv, RequestsCarryAssignedId, SessionStartedOnce
  <2>5. WireTruthful'
    BY WireAssumption, NullsAssumption DEF Sockets, WireTruthful
  <2>6. PeersTruthful' /\ MyIdAssigned' /\ DataNeedsId'
    BY <2>3 DEF IInv, PeersTruthful, MyIdAssigned, DataNeedsId
  <2>7. /\ NothingBeforeLogin' /\ SignInNamed' /\ NotSigningOut'
        /\ WaitNeedsData' /\ ArmedUnlessCalling' /\ UndefinedOnlyBeforeSignIn'
    BY DEF Sockets, NothingBeforeLogin, SignInNamed, NotSigningOut,
           WaitNeedsData, ArmedUnlessCalling, UndefinedOnlyBeforeSignIn
  <2> QED BY <2>2, <2>4, <2>5, <2>6, <2>7 DEF IInv
<1> QED BY <1>1, <1>2

(* A successful or failed dial of the data socket with the id the server    *)
(* gave, for the conjuncts both readyRead slots share.                      *)
LEMMA DialDataFacts ==
    ASSUME IInv, NEW id \in Ids, <<username, id>> \in issued,
           issued' = issued, username' = username,
           NEW ok \in BOOLEAN,
           NEW left \in Response \cup {NoBytes, Leftover}, DialData(id, ok, left)
    PROVE  /\ RequestsCarryAssignedId'
           /\ sent' \subseteq [verb : {"wait", "sign_out"}, id : Ids \cup {Uninit}]
           /\ data_socket' \in {"unconnected", "connected"}
           /\ ask' \in [Sockets -> {"none", "sign_in", "wait"}]
           /\ ask'["control"] = ask["control"]
           /\ wire' \in [Sockets -> Response \cup {NoBytes, Leftover}]
           /\ wire'["control"] = left /\ wire'["data"] = NoBytes
           /\ WaitNeedsData'
           /\ ArmedUnlessCalling'
<1> USE DEF DialData, onDataConnect
<1>1. /\ data_socket' \in {"unconnected", "connected"}
      /\ ask' \in [Sockets -> {"none", "sign_in", "wait"}]
      /\ ask'["control"] = ask["control"]
      /\ ask'["data"] = IF ok THEN "wait" ELSE "none"
  BY DEF IInv, TypeOK, Sockets
<1>2. /\ wire' \in [Sockets -> Response \cup {NoBytes, Leftover}]
      /\ wire'["control"] = left /\ wire'["data"] = NoBytes
  BY DEF IInv, TypeOK, Sockets
<1>3. WaitNeedsData' /\ ArmedUnlessCalling'
  BY <1>1, <1>2 DEF WaitNeedsData, ArmedUnlessCalling
<1>4. sent' \subseteq sent \cup {[verb |-> "wait", id |-> id]}
  OBVIOUS
<1>5. sent' \subseteq [verb : {"wait", "sign_out"}, id : Ids \cup {Uninit}]
  BY <1>4 DEF IInv, TypeOK
<1>6. RequestsCarryAssignedId'
  BY <1>4 DEF IInv, RequestsCarryAssignedId
<1> QED BY <1>1, <1>2, <1>3, <1>5, <1>6

(* Reading and closing only remove bytes, or leave the rest of a response.  *)
LEMMA WireAfterRead ==
    ASSUME IInv, issued' = issued, username' = username,
           \A s \in Sockets : \/ wire'[s] = wire[s]
                              \/ wire'[s] = NoBytes
                              \/ wire'[s] = Leftover
    PROVE  WireTruthful'
<1>1. \A s \in Sockets : wire'[s] \in Response => wire'[s] = wire[s]
  BY WireAssumption
<1>2. \A s \in Sockets : wire'[s] \in Response =>
         \A i \in DOMAIN wire'[s].lines :
             <<wire'[s].lines[i].name, wire'[s].lines[i].id>> \in issued'
  BY <1>1 DEF IInv, WireTruthful
<1>3. wire'["control"] \in Response
        => <<username', wire'["control"].id>> \in issued'
  BY <1>1 DEF IInv, WireTruthful, Sockets
<1> QED BY <1>2, <1>3 DEF WireTruthful

(* The sign-in answer gives my_id its value before the data socket is used. *)
LEMMA ControlReadIInv == ASSUME IInv, onControlRead PROVE IInv'
<1>1. wire["control"] \in Response \cup {Leftover}
  BY DEF IInv, TypeOK, onControlRead, Sockets
<1>2. PICK c \in Chunks(wire["control"]) :
        \/ ~c.parsed /\ OutOfRange(wire["control"], c)
        \/ /\ c.parsed
           /\ my_id' = PragmaId(wire["control"])
           /\ shown' = NamesOf(c.lines)
           /\ IF data_socket = "connected"
              THEN /\ wire' = [wire EXCEPT !["control"] = c.rest]
                   /\ UNCHANGED <<data_socket, sent, ask>>
              ELSE \E ok \in BOOLEAN : DialData(my_id', ok, c.rest)
           /\ UNCHANGED <<phase, control_socket, username, peers, isLoggedIn,
                          isSigningOut, isCalling, refused, inits, signIns,
                          issued>>
  BY DEF onControlRead
<1>3. CASE ~c.parsed /\ OutOfRange(wire["control"], c)
  <2>1. UndefinedBehaviour("torn")
    BY <1>1, <1>3, ChunkOfResponse DEF OutOfRange
  <2> QED BY <2>1, UndefinedIInv
<1>4. CASE c.parsed
  <2>1. /\ wire["control"] \in Response /\ c.lines \in Seq(Entry)
        /\ c.rest \in {NoBytes, Leftover}
    BY <1>1, <1>4, ChunkOfResponse
  <2> DEFINE id == wire["control"].id
  <2>2. id \in Ids /\ id # Uninit /\ <<username, id>> \in issued
    BY <2>1, ResponseLines, NullsAssumption DEF IInv, WireTruthful
  <2>3. CASE OutOfRange(wire["control"], c) /\ ~c.parsed
    BY <1>4, <2>3
  <2>4. CASE /\ my_id' = id /\ shown' = NamesOf(c.lines)
             /\ UNCHANGED <<phase, control_socket, username, peers, isLoggedIn,
                          isSigningOut, isCalling, refused, inits, signIns,
                          issued>>
             /\ IF data_socket = "connected"
                THEN /\ wire' = [wire EXCEPT !["control"] = c.rest]
                     /\ UNCHANGED <<data_socket, sent, ask>>
                ELSE \E ok \in BOOLEAN : DialData(my_id', ok, c.rest)
    <3> HIDE DEF id
    <3>1. /\ RequestsCarryAssignedId'
          /\ sent' \subseteq [verb : {"wait", "sign_out"}, id : Ids \cup {Uninit}]
          /\ data_socket' \in {"unconnected", "connected"}
          /\ ask' \in [Sockets -> {"none", "sign_in", "wait"}]
          /\ ask'["control"] = ask["control"]
          /\ wire' \in [Sockets -> Response \cup {NoBytes, Leftover}]
          /\ wire'["control"] = c.rest
          /\ wire'["data"] \in {wire["data"], NoBytes}
          /\ WaitNeedsData'
          /\ ArmedUnlessCalling'
      <4>1. CASE data_socket = "connected"
        BY <2>1, <2>4, <4>1
        DEF IInv, TypeOK, Sockets, RequestsCarryAssignedId, WaitNeedsData,
            ArmedUnlessCalling
      <4>2. CASE data_socket # "connected"
        <5>1. PICK ok \in BOOLEAN : DialData(id, ok, c.rest)
          BY <2>4, <4>2
        <5> QED BY <2>1, <2>2, <2>4, <5>1, DialDataFacts
      <4> QED BY <4>1, <4>2
    <3>2. TypeOK'
      BY <2>1, <2>2, <2>4, <3>1, NamesOfTyped DEF IInv, TypeOK
    <3>3. WireTruthful'
      BY <2>1, <2>4, <3>1, WireAfterRead DEF Sockets
    <3>4. MyIdAssigned' /\ DataNeedsId'
      BY <2>2, <2>4, <3>1 DEF MyIdAssigned, DataNeedsId
    <3>5. control_socket # "null"
      BY <2>1, WireAssumption DEF IInv, NothingBeforeLogin
    <3>6. /\ NothingBeforeLogin' /\ SignInNamed' /\ NotSigningOut'
          /\ SessionStartedOnce' /\ PeersTruthful' /\ UndefinedOnlyBeforeSignIn'
      BY <2>4, <3>1, <3>5, onControlRead
      DEF onControlRead, IInv, NothingBeforeLogin, SignInNamed, NotSigningOut,
          SessionStartedOnce, PeersTruthful, UndefinedOnlyBeforeSignIn
    <3> QED BY <3>1, <3>2, <3>3, <3>4, <3>6 DEF IInv
  <2> QED BY <1>2, <1>4, <2>3, <2>4 DEF PragmaId
<1> QED BY <1>2, <1>3, <1>4

(* The answer to a wait: the message dropped during a call, and the others, *)
(* after which the data socket is dialled again.                            *)
LEMMA DataReadIInv == ASSUME IInv, onDataRead PROVE IInv'
<1> DEFINE r == wire["data"]
<1>1. r \in Response \cup {Leftover} /\ phase = "running"
  BY DEF IInv, TypeOK, onDataRead, Sockets
<1>2. PICK c \in Chunks(r) :
        \/ ~c.parsed /\ OutOfRange(r, c)
        \/ /\ c.parsed /\ DropsMessage(r)
           /\ wire' = [wire EXCEPT !["data"] = c.rest]
           /\ UNCHANGED <<phase, client, counts, issued, ask>>
        \/ /\ c.parsed /\ ~DropsMessage(r)
           /\ IF r.kind = "list"
              THEN ApplyList(c.lines) ELSE UNCHANGED <<peers, shown>>
           /\ \E ok \in BOOLEAN : DialData(my_id, ok, wire["control"])
           /\ UNCHANGED <<phase, control_socket, username, my_id, isLoggedIn,
                          isSigningOut, isCalling, refused, inits, signIns,
                          issued>>
  BY DEF onDataRead
<1> HIDE DEF r
<1>3. data_socket = "connected" /\ my_id \in Ids /\ <<username, my_id>> \in issued
  BY DEF onDataRead, IInv, TypeOK, WaitNeedsData, DataNeedsId, MyIdAssigned
<1>4. control_socket # "null"
  BY <1>3 DEF IInv, NothingBeforeLogin
<1>5. CASE ~c.parsed /\ OutOfRange(r, c)
  <2>1. UndefinedBehaviour("torn")
    BY <1>1, <1>5, ChunkOfResponse DEF OutOfRange
  <2> QED BY <2>1, UndefinedIInv
<1>6. CASE /\ c.parsed /\ DropsMessage(r)
           /\ wire' = [wire EXCEPT !["data"] = c.rest]
           /\ UNCHANGED <<phase, client, counts, issued, ask>>
  <2>1. c.rest \in {NoBytes, Leftover}
    BY <1>1, ChunkOfResponse
  <2>2. /\ wire' \in [Sockets -> Response \cup {NoBytes, Leftover}]
        /\ wire'["control"] = wire["control"] /\ wire'["data"] = c.rest
    BY <1>6, <2>1 DEF IInv, TypeOK, Sockets
  <2>3. TypeOK'
    BY <1>6, <2>2 DEF IInv, TypeOK, client, counts
  <2>4. WireTruthful'
    BY <1>6, <2>1, <2>2, WireAfterRead DEF Sockets, client
  <2>5. WaitNeedsData' /\ ArmedUnlessCalling'
    BY <1>3, <1>6 DEF client, WaitNeedsData, ArmedUnlessCalling, DropsMessage
  <2> QED
    BY <1>4, <1>6, <2>2, <2>3, <2>4, <2>5
    DEF client, counts, IInv, NothingBeforeLogin, SignInNamed, NotSigningOut,
        MyIdAssigned, DataNeedsId, RequestsCarryAssignedId, SessionStartedOnce,
        PeersTruthful, UndefinedOnlyBeforeSignIn
<1>7. CASE /\ c.parsed
           /\ IF r.kind = "list"
              THEN ApplyList(c.lines) ELSE UNCHANGED <<peers, shown>>
           /\ \E ok \in BOOLEAN : DialData(my_id, ok, wire["control"])
           /\ UNCHANGED <<phase, control_socket, username, my_id, isLoggedIn,
                          isSigningOut, isCalling, refused, inits, signIns,
                          issued>>
  <2>1. /\ r \in Response /\ c.lines \in Seq(Entry)
        /\ DOMAIN c.lines \subseteq DOMAIN r.lines
        /\ \A i \in DOMAIN c.lines : c.lines[i] = r.lines[i]
    BY <1>1, <1>7, ChunkOfResponse
  <2>2. \A i \in DOMAIN c.lines :
           <<c.lines[i].name, c.lines[i].id>> \in issued /\ c.lines[i].id \in Ids
    <3>1. \A i \in DOMAIN r.lines : <<r.lines[i].name, r.lines[i].id>> \in issued
      BY <2>1 DEF r, IInv, WireTruthful, Sockets
    <3>2. \A i \in DOMAIN c.lines : c.lines[i] \in Entry
      BY <2>1
    <3>3. \A i \in DOMAIN c.lines : c.lines[i].id \in Ids
      BY <3>2 DEF Entry
    <3>4. ASSUME NEW i \in DOMAIN c.lines
          PROVE  <<c.lines[i].name, c.lines[i].id>> \in issued
      <4>1. i \in DOMAIN r.lines /\ c.lines[i] = r.lines[i]
        BY <2>1
      <4> QED BY <3>1, <4>1, Zenon
    <3> QED BY <3>3, <3>4
  <2>3. PICK ok \in BOOLEAN : DialData(my_id, ok, wire["control"])
    BY <1>7
  <2>4. wire["control"] \in Response \cup {NoBytes, Leftover}
    BY DEF IInv, TypeOK, Sockets
  <2>5. /\ RequestsCarryAssignedId'
        /\ sent' \subseteq [verb : {"wait", "sign_out"}, id : Ids \cup {Uninit}]
        /\ data_socket' \in {"unconnected", "connected"}
        /\ ask' \in [Sockets -> {"none", "sign_in", "wait"}]
        /\ ask'["control"] = ask["control"]
        /\ wire' \in [Sockets -> Response \cup {NoBytes, Leftover}]
        /\ wire'["control"] = wire["control"] /\ wire'["data"] = NoBytes
        /\ WaitNeedsData' /\ ArmedUnlessCalling'
    BY <1>3, <1>7, <2>3, <2>4, DialDataFacts
  <2>6. /\ peers' \in [Names -> Ids \cup {0, NoPeer}]
        /\ shown' \subseteq Names
        /\ PeersTruthful'
    <3>1. CASE UNCHANGED <<peers, shown>>
      BY <1>7, <3>1 DEF IInv, TypeOK, PeersTruthful
    <3>2. CASE ApplyList(c.lines)
      <4>1. peers' = NewPeers(c.lines) /\ shown' = NamesOf(c.lines)
        BY <3>2 DEF ApplyList
      <4>2. \A n \in Names :
               peers'[n] = peers[n] \/ (peers'[n] \in Ids /\ <<n, peers'[n]>> \in issued)
        BY <2>1, <2>2, <4>1, NewPeersFromLines
      <4>3. DOMAIN peers' = Names /\ peers' = [n \in Names |-> peers'[n]]
        BY <4>1 DEF NewPeers
      <4>4. peers' \in [Names -> Ids \cup {0, NoPeer}]
        BY <4>2, <4>3 DEF IInv, TypeOK
      <4> QED
        BY <1>7, <2>1, <4>1, <4>2, <4>4, NamesOfTyped DEF IInv, PeersTruthful
    <3> QED BY <1>7, <3>1, <3>2
  <2>7. TypeOK'
    BY <1>7, <2>5, <2>6 DEF IInv, TypeOK
  <2>8. WireTruthful'
    BY <1>7, <2>5, WireAfterRead DEF Sockets
  <2> QED
    BY <1>1, <1>3, <1>4, <1>7, <2>5, <2>6, <2>7, <2>8
    DEF IInv, NothingBeforeLogin, SignInNamed, NotSigningOut, MyIdAssigned,
        DataNeedsId, SessionStartedOnce, UndefinedOnlyBeforeSignIn
<1> QED BY <1>2, <1>5, <1>6, <1>7

(* Another client registers: the registrations only grow. *)
LEMMA RegistersIInv == ASSUME IInv, ServerRegisters PROVE IInv'
<1> USE DEF ServerRegisters, client, counts
<1>1. issued \subseteq issued' /\ issued' \subseteq Names \X Ids
  BY DEF IInv, TypeOK
<1>2. TypeOK'
  BY <1>1 DEF IInv, TypeOK
<1>3. MyIdAssigned' /\ RequestsCarryAssignedId' /\ PeersTruthful'
  BY <1>1 DEF IInv, MyIdAssigned, RequestsCarryAssignedId, PeersTruthful
<1>4. WireTruthful'
  BY <1>1 DEF IInv, WireTruthful
<1> QED
  BY <1>2, <1>3, <1>4
  DEF IInv, NothingBeforeLogin, SignInNamed, NotSigningOut, DataNeedsId,
      WaitNeedsData, SessionStartedOnce, ArmedUnlessCalling,
      UndefinedOnlyBeforeSignIn

(* The answer to the sign-in registers the user name with the id it sends. *)
LEMMA AnswersSignInIInv == ASSUME IInv, ServerAnswersSignIn PROVE IInv'
<1>1. username \in Names /\ control_socket # "null"
  BY DEF ServerAnswersSignIn, IInv, SignInNamed, NothingBeforeLogin
<1>2. PICK i \in Ids, l \in Listings(issued') :
        /\ issued' = issued \cup {<<username, i>>}
        /\ wire' = [wire EXCEPT !["control"] =
                       [kind |-> "list", id |-> i, lines |-> l]]
  BY DEF ServerAnswersSignIn
<1> DEFINE r == [kind |-> "list", id |-> i, lines |-> l]
<1>3. r \in Response /\ r.id = i /\ r.lines = l
  BY DEF Listings, Response
<1>4. \A j \in DOMAIN l : <<l[j].name, l[j].id>> \in issued'
  BY DEF Listings
<1> HIDE DEF r
<1>5. /\ wire' \in [Sockets -> Response \cup {NoBytes, Leftover}]
      /\ wire'["control"] = r /\ wire'["data"] = wire["data"]
  BY <1>2, <1>3 DEF r, IInv, TypeOK, Sockets
<1>6. /\ ask' \in [Sockets -> {"none", "sign_in", "wait"}]
      /\ ask'["control"] = "none" /\ ask'["data"] = ask["data"]
  BY DEF ServerAnswersSignIn, IInv, TypeOK, Sockets
<1>7. issued \subseteq issued' /\ issued' \subseteq Names \X Ids
  BY <1>1, <1>2 DEF IInv, TypeOK
<1> USE DEF client, counts
<1>8. UNCHANGED <<phase, client, counts>>
  BY DEF ServerAnswersSignIn
<1>9. TypeOK'
  BY <1>5, <1>6, <1>7, <1>8 DEF IInv, TypeOK
<1>10. MyIdAssigned' /\ RequestsCarryAssignedId' /\ PeersTruthful'
  BY <1>7, <1>8 DEF IInv, MyIdAssigned, RequestsCarryAssignedId, PeersTruthful
<1>11. WireTruthful'
  <2>1. \A j \in DOMAIN r.lines :
           <<r.lines[j].name, r.lines[j].id>> \in issued'
    BY <1>3, <1>4
  <2>2. wire["data"] \in Response =>
           \A j \in DOMAIN wire["data"].lines :
               <<wire["data"].lines[j].name, wire["data"].lines[j].id>> \in issued'
    BY <1>7 DEF IInv, WireTruthful, Sockets
  <2>3. <<username', r.id>> \in issued'
    BY <1>2, <1>3, <1>8
  <2> QED BY <1>5, <2>1, <2>2, <2>3 DEF WireTruthful, Sockets
<1>12. WaitNeedsData' /\ ArmedUnlessCalling'
  BY <1>5, <1>6, <1>8 DEF IInv, WaitNeedsData, ArmedUnlessCalling
<1> QED
  BY <1>1, <1>6, <1>8, <1>9, <1>10, <1>11, <1>12
  DEF IInv, NothingBeforeLogin, SignInNamed, NotSigningOut, DataNeedsId,
      SessionStartedOnce, UndefinedOnlyBeforeSignIn

(* The answer to a wait lists registrations, or is a message. *)
LEMMA AnswersWaitIInv == ASSUME IInv, ServerAnswersWait PROVE IInv'
<1>1. data_socket = "connected" /\ my_id \in Ids
  BY DEF ServerAnswersWait, IInv, TypeOK, WaitNeedsData, DataNeedsId
<1>2. PICK r \in [kind : {"list"}, id : {my_id}, lines : Listings(issued)]
                   \cup [kind : {"json"}, id : {my_id}, lines : {<<>>}] :
        wire' = [wire EXCEPT !["data"] = r]
  BY DEF ServerAnswersWait
<1>3. r \in Response
  BY <1>1 DEF Response, Listings
<1>4. \A j \in DOMAIN r.lines : <<r.lines[j].name, r.lines[j].id>> \in issued
  BY DEF Listings
<1>5. /\ wire' \in [Sockets -> Response \cup {NoBytes, Leftover}]
      /\ wire'["data"] = r /\ wire'["control"] = wire["control"]
  BY <1>2, <1>3 DEF IInv, TypeOK, Sockets
<1>6. /\ ask' \in [Sockets -> {"none", "sign_in", "wait"}]
      /\ ask'["control"] = ask["control"]
      /\ ask'["data"] = "none"
  BY DEF ServerAnswersWait, IInv, TypeOK, Sockets
<1> USE DEF client, counts
<1>7. UNCHANGED <<phase, client, counts, issued>>
  BY DEF ServerAnswersWait
<1>8. TypeOK'
  BY <1>5, <1>6, <1>7 DEF IInv, TypeOK
<1>9. WireTruthful'
  BY <1>4, <1>5, <1>7 DEF IInv, WireTruthful, Sockets
<1>10. WaitNeedsData' /\ ArmedUnlessCalling'
  BY <1>1, <1>3, <1>5, <1>7, WireAssumption DEF WaitNeedsData, ArmedUnlessCalling
<1> QED
  BY <1>5, <1>6, <1>7, <1>8, <1>9, <1>10
  DEF IInv, NothingBeforeLogin, SignInNamed, NotSigningOut, MyIdAssigned,
      DataNeedsId, RequestsCarryAssignedId, SessionStartedOnce, PeersTruthful,
      UndefinedOnlyBeforeSignIn

(* A connection that ends leaves no request and no bytes behind. *)
LEMMA DropsIInv == ASSUME IInv, ControlDrops \/ DataDrops PROVE IInv'
<1>1. /\ ask' \in [Sockets -> {"none", "sign_in", "wait"}]
      /\ \A s \in Sockets : ask'[s] \in {ask[s], "none"}
      /\ DataDrops => ask'["data"] = "none"
      /\ ControlDrops => ask'["data"] = ask["data"]
  BY DEF ControlDrops, DataDrops, IInv, TypeOK, Sockets
<1> USE DEF ControlDrops, DataDrops, counts
<1>2. TypeOK'
  BY <1>1 DEF IInv, TypeOK
<1>3. WireTruthful'
  BY WireAfterRead
<1>4. NothingBeforeLogin' /\ SignInNamed'
  BY <1>1 DEF IInv, NothingBeforeLogin, SignInNamed, Sockets
<1>5. WaitNeedsData' /\ ArmedUnlessCalling'
  BY <1>1 DEF IInv, WaitNeedsData, ArmedUnlessCalling
<1> QED
  BY <1>2, <1>3, <1>4, <1>5
  DEF IInv, NotSigningOut, MyIdAssigned, DataNeedsId, RequestsCarryAssignedId,
      SessionStartedOnce, PeersTruthful, UndefinedOnlyBeforeSignIn

(* A step that changes nothing preserves it. *)
LEMMA StutterIInv == ASSUME IInv, UNCHANGED vars PROVE IInv'
BY DEF vars, client, counts, net, IInv, TypeOK, NothingBeforeLogin, SignInNamed,
       NotSigningOut, MyIdAssigned, DataNeedsId, WaitNeedsData, WireTruthful, RequestsCarryAssignedId, SessionStartedOnce,
       PeersTruthful, ArmedUnlessCalling, UndefinedOnlyBeforeSignIn

(* Every step of the dialog or of the server preserves it. *)
LEMMA NextIInv == IInv /\ [Next]_vars => IInv'
<1>1. ASSUME IInv, Next PROVE IInv'
  BY <1>1, LoginRefusedIInv, LoginIInv, DoubleClickIInv, DestroyIInv,
     ControlReadIInv, DataReadIInv, RegistersIInv, AnswersSignInIInv,
     AnswersWaitIInv, DropsIInv
  DEF Next, on_login_btn_clicked
<1> QED BY <1>1, StutterIInv

--------------------------------------------------------------------------
(* The theorems.                                                            *)

(* The invariant holds in every state of every behaviour. *)
THEOREM Invariance == Spec => []IInv
BY InitIInv, NextIInv, PTL DEF Spec

(* The variables keep their types: my_id is never anything but an id or     *)
(* uninitialised, and peers holds ids.                                      *)
THEOREM TypeCorrect == Spec => []TypeOK
BY Invariance, PTL DEF IInv

(* No request carries the uninitialised my_id, or another client's id.      *)
THEOREM RequestsIdentified == Spec => []RequestsCarryAssignedId
BY Invariance, PTL DEF IInv

(* At most one sign-in and one Backend initialisation per dialog.           *)
THEOREM SingleSession == Spec => []SessionStartedOnce
BY Invariance, PTL DEF IInv

(* The ids that peers holds were given to the names they are stored under.  *)
THEOREM PeersAreTruthful == Spec => []PeersTruthful
BY Invariance, PTL DEF IInv

(* Without a call the data socket is never connected and idle.              *)
THEOREM StaysArmed == Spec => []ArmedUnlessCalling
BY Invariance, PTL DEF IInv

(* Apart from torn responses, only closing before the sign-in answer is     *)
(* undefined.                                                               *)
THEOREM ParsersStayInRange == Spec => []UndefinedOnlyBeforeSignIn
BY Invariance, PTL DEF IInv
==========================================================================
