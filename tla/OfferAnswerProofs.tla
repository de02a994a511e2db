------------------------ MODULE OfferAnswerProofs ------------------------
(* The safety properties of OfferAnswer, for an offer with any sections.    *)
(* Everything rests on the offer being one: it is in one place at a time on *)
(* its way from CreateOffer to the widget, so that SetLocalDescription is   *)
(* called once and its outcome posted once.                                 *)
EXTENDS OfferAnswer, SequenceTheorems, WellFoundedInduction, TLAPS

Certs == {"cert_ok", "cert_failed"}
Creates == {"create_ok", "create_failed"}
Sets == {"set_ok", "set_failed"}

(* The messages and the signals: a candidate is one of a section. *)
Msgs == [type : Certs \cup Creates \cup Sets, mid : {NoMid}]
            \cup [type : {"candidate"}, mid : MidSet]
Events == [type : {"offer"}, mid : {NoMid}] \cup [type : {"ice"}, mid : MidSet]

(* A queue has something of a type, or one thing at most. *)
Has(q, T) == \E i \in 1 .. Len(q) : q[i].type \in T
AtMostOne(q, T) ==
    \A i, j \in 1 .. Len(q) : q[i].type \in T /\ q[j].type \in T => i = j

(* No candidate is ahead of the success. *)
Ordered(q) ==
    \A i \in 1 .. Len(q) : q[i].type = "candidate" =>
        \E j \in 1 .. i - 1 : q[j].type = "set_ok"

(* What the posting, or the taking, of something of type t does to that. *)
PostedTo(q, r, t, T) ==
    /\ Has(r, T) <=> (Has(q, T) \/ t \in T)
    /\ AtMostOne(q, T) /\ ~(t \in T /\ Has(q, T)) => AtMostOne(r, T)
TakenFrom(q, r, t, T) ==
    /\ Has(q, T) <=> (Has(r, T) \/ t \in T)
    /\ AtMostOne(q, T) => AtMostOne(r, T) /\ ~(t \in T /\ Has(r, T))

QueuesTyped == msgq \in Seq(Msgs) /\ events \in Seq(Events)

(* As OfferTypeOK has it. *)
QueuesShaped ==
    /\ events \in Seq([type : {"offer", "ice"}, mid : MidSet \cup {NoMid}])
    /\ msgq \in Seq([type : {"cert_ok", "cert_failed", "create_ok", "create_failed",
                              "set_ok", "set_failed", "candidate"},
                      mid : MidSet \cup {NoMid}])

(* The offer is asked for at most once: before OnStartClicked it is nowhere. *)
NotYetAsked ==
    m_pcfIface = "null" =>
        /\ at \notin {"offering", "gathering"} /\ pending_requests = 0
        /\ ~Has(msgq, Creates) /\ ~Has(events, {"offer"}) /\ ~m_pOfferText

(* Then it is with the widget, with the factory, in a message or in a       *)
(* signal, and in one of them only.                                         *)
OnePlace ==
    /\ at = "offering" => pending_requests = 0
    /\ at = "offering" \/ pending_requests # 0 =>
            ~Has(msgq, Creates) /\ ~Has(events, {"offer"}) /\ ~m_pOfferText
    /\ Has(msgq, Creates) => ~Has(events, {"offer"}) /\ ~m_pOfferText
    /\ Has(events, {"offer"}) => ~m_pOfferText
    /\ AtMostOne(msgq, Creates) /\ AtMostOne(events, {"offer"})

(* Until it is shown the connection is as it was made. *)
Untouched ==
    ~m_pOfferText =>
        /\ ~Has(msgq, Sets) /\ set_local = "none" /\ ~gathering /\ at # "gathering"
        /\ signaling_state = "stable" /\ ~session_error
        /\ pending_local = "null" /\ remote.kind = "null"

(* The outcome of SetLocalDescription is told once. *)
ToldOnce ==
    /\ AtMostOne(msgq, Sets)
    /\ Has(msgq, Sets) => set_local = "none"

(* The success is posted before the transports gather, and is ahead of all  *)
(* candidates in the queue.                                                 *)
SuccessFirst ==
    /\ gathering \/ at = "gathering" => set_local = "success" \/ Has(msgq, {"set_ok"})
    /\ set_local = "success" \/ Ordered(msgq)
    /\ m_pOwnICEText # {} \/ Has(events, {"ice"}) => set_local = "success"

(* An answer is accepted only while the pending offer waits for it. *)
OfferWaits ==
    /\ signaling_state = "have_local_offer" /\ ~session_error =>
            pending_local = "offer" /\ remote.kind = "null"
    /\ gathering \/ at = "gathering" => local_description = "offer"
    /\ remote.kind = "null" => checks = {}
    /\ CheckedIsDescribed

OInv ==
    /\ OfferTypeOK /\ QueuesTyped
    /\ NotYetAsked /\ OnePlace /\ Untouched /\ ToldOnce /\ SuccessFirst /\ OfferWaits

--------------------------------------------------------------------------
(* Queues.                                                                  *)

(* What is in a queue after something was posted. *)
LEMMA Posted ==
    ASSUME NEW S, NEW q \in Seq(S), NEW m \in S, NEW T
    PROVE  /\ Append(q, m) \in Seq(S)
           /\ PostedTo(q, Append(q, m), m.type, T)
<1>1. /\ Append(q, m) \in Seq(S)
      /\ Len(q) \in Nat /\ Len(Append(q, m)) = Len(q) + 1
      /\ \A i \in 1 .. Len(q) : Append(q, m)[i] = q[i]
      /\ Append(q, m)[Len(q) + 1] = m
  BY AppendProperties, LenProperties
<1>. DEFINE r == Append(q, m)
<1>2. \A i \in 1 .. Len(r) : i \in 1 .. Len(q) \/ i = Len(q) + 1
  BY <1>1
<1>3. 1 .. Len(q) \subseteq 1 .. Len(r) /\ Len(q) + 1 \in 1 .. Len(r)
  BY <1>1
<1>. HIDE DEF r
<1>4. \A i \in 1 .. Len(q) : r[i] = q[i]
  BY <1>1 DEF r
<1>5. r[Len(q) + 1] = m
  BY <1>1 DEF r
<1>6. Has(r, T) <=> (Has(q, T) \/ m.type \in T)
  BY <1>2, <1>3, <1>4, <1>5, Zenon DEF Has
<1>7. AtMostOne(q, T) /\ ~(m.type \in T /\ Has(q, T)) => AtMostOne(r, T)
  BY <1>2, <1>3, <1>4, <1>5, Zenon DEF AtMostOne, Has
<1>. QED  BY <1>1, <1>6, <1>7 DEF r, PostedTo

(* And after its head was taken. *)
LEMMA Taken ==
    ASSUME NEW S, NEW q \in Seq(S), q # <<>>, NEW T
    PROVE  /\ Tail(q) \in Seq(S) /\ Head(q) \in S
           /\ TakenFrom(q, Tail(q), Head(q).type, T)
<1>1. /\ Tail(q) \in Seq(S) /\ Head(q) \in S /\ Head(q) = q[1]
      /\ Len(q) \in Nat /\ Len(q) > 0 /\ Len(Tail(q)) = Len(q) - 1
      /\ \A i \in 1 .. Len(q) - 1 : Tail(q)[i] = q[i + 1]
  BY HeadTailProperties, EmptySeq, LenProperties
<1>. DEFINE r == Tail(q)
<1>2. \A i \in 1 .. Len(r) : i + 1 \in 1 .. Len(q) /\ i + 1 # 1 /\ r[i] = q[i + 1]
  BY <1>1
<1>3. \A i \in 1 .. Len(q) : i = 1 \/ \E k \in 1 .. Len(r) : i = k + 1
  <2>1. \A i \in 1 .. Len(q) : i = 1 \/ (i - 1 \in 1 .. Len(r) /\ i = (i - 1) + 1)
    BY <1>1
  <2>. QED  BY <2>1, Zenon
<1>4. 1 \in 1 .. Len(q) /\ q[1] = Head(q)
  BY <1>1
<1>5. \A i, j \in 1 .. Len(r) : i + 1 = j + 1 => i = j
  BY <1>1
<1>. HIDE DEF r
<1>6. Has(q, T) <=> (Has(r, T) \/ Head(q).type \in T)
  BY <1>2, <1>3, <1>4, Zenon DEF Has
<1>7. AtMostOne(q, T) => AtMostOne(r, T)
  BY <1>2, <1>5, Zenon DEF AtMostOne
<1>8. AtMostOne(q, T) /\ Head(q).type \in T => ~Has(r, T)
  BY <1>2, <1>4, Zenon DEF AtMostOne, Has
<1>. QED  BY <1>1, <1>6, <1>7, <1>8 DEF r, TakenFrom

(* The success stays ahead of the candidates. *)
LEMMA OrderedPosted ==
    ASSUME NEW S, NEW q \in Seq(S), NEW m \in S, Ordered(q),
           m.type = "candidate" => Has(q, {"set_ok"})
    PROVE  Ordered(Append(q, m))
<1>1. /\ Len(q) \in Nat /\ Len(Append(q, m)) = Len(q) + 1
      /\ \A i \in 1 .. Len(q) : Append(q, m)[i] = q[i]
      /\ Append(q, m)[Len(q) + 1] = m
  BY AppendProperties, LenProperties
<1>. DEFINE r == Append(q, m)
<1>. SUFFICES ASSUME NEW i \in 1 .. Len(r), r[i].type = "candidate"
              PROVE  \E j \in 1 .. i - 1 : r[j].type = "set_ok"
  BY DEF Ordered
<1>2. CASE i \in 1 .. Len(q)
  <2>1. PICK j \in 1 .. i - 1 : q[j].type = "set_ok"
    BY <1>1, <1>2 DEF Ordered
  <2>2. r[j] = q[j]
    BY <1>1, <1>2
  <2>. QED  BY <2>1, <2>2
<1>3. CASE i = Len(q) + 1
  <2>1. PICK j \in 1 .. Len(q) : q[j].type \in {"set_ok"}
    BY <1>1, <1>3 DEF Has
  <2>2. r[j] = q[j] /\ j \in 1 .. i - 1
    BY <1>1, <1>3
  <2>. QED  BY <2>1, <2>2
<1>. QED  BY <1>1, <1>2, <1>3

(* Its head is no candidate, and taking anything else keeps the order. *)
LEMMA OrderedTaken ==
    ASSUME NEW S, NEW q \in Seq(S), q # <<>>, Ordered(q)
    PROVE  /\ Head(q).type # "candidate"
           /\ Head(q).type # "set_ok" => Ordered(Tail(q))
<1>1. /\ Head(q) = q[1]
      /\ Len(q) \in Nat /\ Len(q) > 0 /\ Len(Tail(q)) = Len(q) - 1
      /\ \A i \in 1 .. Len(q) - 1 : Tail(q)[i] = q[i + 1]
  BY HeadTailProperties, EmptySeq, LenProperties
<1>2. Head(q).type # "candidate"
  BY <1>1 DEF Ordered
<1>. DEFINE r == Tail(q)
<1>3. ASSUME Head(q).type # "set_ok", NEW i \in 1 .. Len(r), r[i].type = "candidate"
      PROVE  \E j \in 1 .. i - 1 : r[j].type = "set_ok"
  <2>1. i + 1 \in 1 .. Len(q) /\ q[i + 1].type = "candidate"
    BY <1>1, <1>3
  <2>2. PICK j \in 1 .. (i + 1) - 1 : q[j].type = "set_ok"
    BY <2>1 DEF Ordered
  <2>3. j # 1
    BY <1>1, <1>3, <2>2
  <2>4. j - 1 \in 1 .. i - 1 /\ j - 1 \in 1 .. Len(q) - 1 /\ (j - 1) + 1 = j
    BY <1>1, <2>2, <2>3
  <2>5. r[j - 1] = q[j]
    BY <1>1, <2>4
  <2>. QED  BY <2>2, <2>4, <2>5
<1>. QED  BY <1>2, <1>3 DEF Ordered

(* The same of the two queues, for the types the invariant speaks of. *)
LEMMA MsgPosted ==
    ASSUME NEW q \in Seq(Msgs), NEW m \in Msgs
    PROVE  /\ Append(q, m) \in Seq(Msgs)
           /\ PostedTo(q, Append(q, m), m.type, Creates)
           /\ PostedTo(q, Append(q, m), m.type, Sets)
           /\ PostedTo(q, Append(q, m), m.type, {"set_ok"})
           /\ Ordered(q) /\ (m.type = "candidate" => Has(q, {"set_ok"}))
                => Ordered(Append(q, m))
BY Posted, OrderedPosted, Zenon

(* The head of the signaling thread's queue. *)
LEMMA MsgTaken ==
    ASSUME NEW q \in Seq(Msgs), q # <<>>
    PROVE  /\ Tail(q) \in Seq(Msgs) /\ Head(q) \in Msgs
           /\ TakenFrom(q, Tail(q), Head(q).type, Creates)
           /\ TakenFrom(q, Tail(q), Head(q).type, Sets)
           /\ TakenFrom(q, Tail(q), Head(q).type, {"set_ok"})
           /\ Ordered(q) => /\ Head(q).type # "candidate"
                            /\ Head(q).type # "set_ok" => Ordered(Tail(q))
BY Taken, OrderedTaken, Zenon

(* A signal to the widget. *)
LEMMA EventPosted ==
    ASSUME NEW q \in Seq(Events), NEW m \in Events
    PROVE  /\ Append(q, m) \in Seq(Events)
           /\ PostedTo(q, Append(q, m), m.type, {"offer"})
           /\ PostedTo(q, Append(q, m), m.type, {"ice"})
BY Posted, Zenon

(* The widget takes one. *)
LEMMA EventTaken ==
    ASSUME NEW q \in Seq(Events), q # <<>>
    PROVE  /\ Tail(q) \in Seq(Events) /\ Head(q) \in Events
           /\ TakenFrom(q, Tail(q), Head(q).type, {"offer"})
           /\ TakenFrom(q, Tail(q), Head(q).type, {"ice"})
BY Taken, Zenon

(* The messages and the signals have their types. *)
LEMMA MsgTyped ==
    ASSUME NEW type, NEW mid
    PROVE  /\ Msg(type, mid).type = type /\ Msg(type, mid).mid = mid
           /\ type \in Certs \cup Creates \cup Sets /\ mid = NoMid => Msg(type, mid) \in Msgs
           /\ type = "candidate" /\ mid \in MidSet => Msg(type, mid) \in Msgs
           /\ type = "offer" /\ mid = NoMid => Msg(type, mid) \in Events
           /\ type = "ice" /\ mid \in MidSet => Msg(type, mid) \in Events
BY DEF Msg, Msgs, Events

(* The messages and signals of the invariant are those of OfferTypeOK. *)
LEMMA QueuesAre == QueuesTyped => QueuesShaped
<1>1. Events \subseteq [type : {"offer", "ice"}, mid : MidSet \cup {NoMid}]
  BY DEF Events
<1>2. Msgs \subseteq [type : {"cert_ok", "cert_failed", "create_ok", "create_failed",
                           "set_ok", "set_failed", "candidate"},
                   mid : MidSet \cup {NoMid}]
  BY DEF Msgs, Certs, Creates, Sets
<1>3. \A S, T : S \subseteq T => \A q \in Seq(S) : q \in Seq(T)
  OBVIOUS
<1>. QED  BY <1>1, <1>2, <1>3, Zenon DEF QueuesTyped, QueuesShaped

(* The same in the next state. *)
LEMMA QueuesArePrimed == QueuesTyped' => QueuesShaped'
BY QueuesAre, PTL

(* The requests that waited are answered by one message, or there was none. *)
LEMMA AnsweredPosts ==
    ASSUME pending_requests \in 0 .. 1, NEW ok \in BOOLEAN, NEW q \in Seq(Msgs)
    PROVE  q \o Answered(ok) = IF pending_requests = 0 THEN q ELSE Append(q, Created(ok))
<1>1. CASE pending_requests = 0
  <2>1. Answered(ok) = <<>>
    BY <1>1 DEF Answered
  <2>. QED  BY <1>1, <2>1, ConcatEmptySeq
<1>2. CASE pending_requests = 1
  <2>1. Answered(ok) = <<Created(ok)>>
    BY <1>2 DEF Answered
  <2>2. Created(ok) \in Msgs
    BY MsgTyped DEF Created, Creates
  <2>. QED  BY <1>2, <2>1, <2>2, AppendIsConcat
<1>. QED  BY <1>1, <1>2

(* The section that carries a bundle is one of the offer's. *)
LEMMA BundledIsSection ==
    ASSUME NEW answer \in Answers, answer.rejected # MidSet
    PROVE  BundledMid(answer) \in MidSet
<1>. DEFINE free == {i \in 1 .. Len(Mids) : Mids[i] \notin answer.rejected}
<1>0. Len(Mids) \in Nat
  BY MidsAssumption, LenProperties
<1>1. free # {} /\ free \subseteq Nat
  BY <1>0 DEF Answers, MidSet
<1>2. PICK i \in free : \A j \in free : ~(<<j, i>> \in OpToRel(<, Nat))
  BY <1>1, NatLessThanWellFounded, WFMin
<1>3. \A x, y \in Nat : x < y => <<x, y>> \in OpToRel(<, Nat)
  BY DEF OpToRel
<1>5. \A j \in 1 .. i - 1 : Mids[j] \in answer.rejected
  <2>. SUFFICES ASSUME NEW j \in 1 .. i - 1, Mids[j] \notin answer.rejected  PROVE FALSE
    OBVIOUS
  <2>1. j \in 1 .. Len(Mids) /\ j \in Nat /\ i \in Nat /\ j < i
    BY <1>0
  <2>2. j \in free
    BY <2>1
  <2>. QED  BY <1>2, <1>3, <2>1, <2>2, Zenon
<1>4. BundledMid(answer) = Mids[CHOOSE k \in 1 .. Len(Mids) :
            /\ Mids[k] \notin answer.rejected
            /\ \A j \in 1 .. k - 1 : Mids[j] \in answer.rejected]
  BY DEF BundledMid
<1>. QED  BY <1>4, <1>5 DEF MidSet

(* An answer leaves transports of the offer's sections only. *)
LEMMA RemainingSections ==
    ASSUME NEW answer \in Answers
    PROVE  Remaining(answer) \subseteq MidSet
BY BundledIsSection DEF Remaining

(* The invariant holds of the widget that was just made. *)
LEMMA InitOInv == OfferInit => OInv
<1>. SUFFICES ASSUME OfferInit PROVE OInv
  OBVIOUS
<1>0. NoDescription \in Answers
  BY DEF NoDescription, Answers
<1>1. OfferTypeOK
  <2>1. QueuesShaped
    BY DEF OfferInit, QueuesShaped
  <2>3. pending_requests \in 0 .. 1
    BY DEF OfferInit
  <2>. QED  BY <1>0, <2>1, <2>3 DEF OfferInit, OfferTypeOK, QueuesShaped
<1>4. QueuesTyped
  BY DEF OfferInit, QueuesTyped
<1>2. \A T : ~Has(<<>>, T) /\ AtMostOne(<<>>, T)
  BY DEF Has, AtMostOne
<1>3. Ordered(<<>>)
  BY DEF Ordered
<1>. QED
  BY <1>1, <1>2, <1>3, <1>4 DEF OfferInit, OInv, NotYetAsked, OnePlace, Untouched,
     ToldOnce, SuccessFirst,
     OfferWaits, NoDescription, local_description, CheckedIsDescribed

--------------------------------------------------------------------------
(* The steps.                                                               *)

(* The first click asks for the one offer. *)
LEMMA OnStartClickedKeeps ==
    ASSUME OInv, NEW made \in {"nothing", "factory", "connection", "stream"},
           OnStartClicked(made)
    PROVE  OInv'
<1>1. QueuesTyped'
  BY DEF OInv, QueuesTyped, OnStartClicked
<1>2. QueuesShaped'
  BY <1>1, QueuesArePrimed
<1>3. OfferTypeOK'
  BY <1>2 DEF OInv, OfferTypeOK, QueuesShaped, OnePlace, OnStartClicked, widget,
     factory, session, ice
<1>4. NotYetAsked'
  BY DEF OInv, OfferTypeOK, OnStartClicked, widget, factory, session, ice,
     NotYetAsked, OnePlace
<1>5. OnePlace'
  BY DEF OInv, OfferTypeOK, OnStartClicked, widget, factory, session, ice, OnePlace,
     NotYetAsked
<1>6. Untouched'
  BY DEF OInv, OfferTypeOK, OnStartClicked, widget, factory, session, ice,
     Untouched, NotYetAsked, OnePlace
<1>7. ToldOnce'
  BY DEF OInv, OfferTypeOK, OnStartClicked, widget, factory, session, ice, ToldOnce,
     Untouched
<1>8. SuccessFirst'
  BY DEF OInv, OfferTypeOK, OnStartClicked, widget, factory, session, ice,
     SuccessFirst, Untouched, ToldOnce
<1>9. OfferWaits'
  BY DEF OInv, OfferTypeOK, OnStartClicked, widget, factory, session, ice,
     OfferWaits, Untouched, local_description, CheckedIsDescribed
<1>. QED  BY <1>1, <1>3, <1>4, <1>5, <1>6, <1>7, <1>8, <1>9 DEF OInv

(* Gathering starts with the success posted and the offer pending. *)
LEMMA MaybeStartGatheringKeeps ==
    ASSUME OInv, MaybeStartGathering
    PROVE  OInv'
<1>1. QueuesTyped'
  BY DEF OInv, QueuesTyped, MaybeStartGathering
<1>2. QueuesShaped'
  BY <1>1, QueuesArePrimed
<1>3. OfferTypeOK'
  BY <1>2 DEF OInv, OfferTypeOK, QueuesShaped, OnePlace, MaybeStartGathering,
     widget, factory, session, ice
<1>4. NotYetAsked'
  BY DEF OInv, OfferTypeOK, MaybeStartGathering, widget, factory, session, ice,
     NotYetAsked, OnePlace
<1>5. OnePlace'
  BY DEF OInv, OfferTypeOK, MaybeStartGathering, widget, factory, session, ice,
     OnePlace, NotYetAsked
<1>6. Untouched'
  BY DEF OInv, OfferTypeOK, MaybeStartGathering, widget, factory, session, ice,
     Untouched, NotYetAsked, OnePlace
<1>7. ToldOnce'
  BY DEF OInv, OfferTypeOK, MaybeStartGathering, widget, factory, session, ice,
     ToldOnce, Untouched
<1>8. SuccessFirst'
  BY DEF OInv, OfferTypeOK, MaybeStartGathering, widget, factory, session, ice,
     SuccessFirst, Untouched, ToldOnce
<1>9. OfferWaits'
  BY DEF OInv, OfferTypeOK, MaybeStartGathering, widget, factory, session, ice,
     OfferWaits, Untouched, local_description, CheckedIsDescribed
<1>. QED  BY <1>1, <1>3, <1>4, <1>5, <1>6, <1>7, <1>8, <1>9 DEF OInv

(* Closing touches the widget only. *)
LEMMA CloseKeeps ==
    ASSUME OInv, Close
    PROVE  OInv'
<1>1. QueuesTyped'
  BY DEF OInv, QueuesTyped, Close
<1>2. QueuesShaped'
  BY <1>1, QueuesArePrimed
<1>3. OfferTypeOK'
  BY <1>2 DEF OInv, OfferTypeOK, QueuesShaped, OnePlace, Close, widget, factory,
     session, ice
<1>4. NotYetAsked'
  BY DEF OInv, OfferTypeOK, Close, widget, factory, session, ice, NotYetAsked,
     OnePlace
<1>5. OnePlace'
  BY DEF OInv, OfferTypeOK, Close, widget, factory, session, ice, OnePlace,
     NotYetAsked
<1>6. Untouched'
  BY DEF OInv, OfferTypeOK, Close, widget, factory, session, ice, Untouched,
     NotYetAsked, OnePlace
<1>7. ToldOnce'
  BY DEF OInv, OfferTypeOK, Close, widget, factory, session, ice, ToldOnce,
     Untouched
<1>8. SuccessFirst'
  BY DEF OInv, OfferTypeOK, Close, widget, factory, session, ice, SuccessFirst,
     Untouched, ToldOnce
<1>9. OfferWaits'
  BY DEF OInv, OfferTypeOK, Close, widget, factory, session, ice, OfferWaits,
     Untouched, local_description, CheckedIsDescribed
<1>. QED  BY <1>1, <1>3, <1>4, <1>5, <1>6, <1>7, <1>8, <1>9 DEF OInv

(* The network thread posts the certificate, or that there is none. *)
LEMMA GenerateCertificateKeeps ==
    ASSUME OInv, NEW ok \in BOOLEAN, GenerateCertificate(ok)
    PROVE  OInv'
<1>1. PICK m \in Msgs : m.type \in Certs /\ msgq' = Append(msgq, m)
  BY MsgTyped DEF GenerateCertificate, Certs
<1>2. /\ msgq' \in Seq(Msgs)
      /\ Has(msgq', Creates) <=> Has(msgq, Creates)
      /\ Has(msgq', Sets) <=> Has(msgq, Sets)
      /\ Has(msgq', {"set_ok"}) <=> Has(msgq, {"set_ok"})
      /\ AtMostOne(msgq', Creates) /\ AtMostOne(msgq', Sets)
      /\ Ordered(msgq) => Ordered(msgq')
  BY <1>1, MsgPosted DEF PostedTo, Certs, Creates, Sets, OInv, OnePlace, ToldOnce,
     QueuesTyped
<1>3. QueuesTyped'
  BY <1>1, <1>2 DEF OInv, QueuesTyped, GenerateCertificate
<1>4. QueuesShaped'
  BY <1>3, QueuesArePrimed
<1>5. /\ requested' \in BOOLEAN
      /\ UNCHANGED <<at, m_pcfIface, m_peerConnection, m_pOfferText, m_pOwnICEText, cert,
                     pending_requests, offer, set_local, signaling_state, session_error,
                     pending_local, current_local, remote, channels, transports, described,
                     checks, gathering>>
  BY DEF GenerateCertificate, widget, factory, session, ice
<1>6. OfferTypeOK'
  BY <1>4, <1>5 DEF OInv, OfferTypeOK, QueuesShaped, OnePlace
<1>7. NotYetAsked'
  BY <1>1, <1>2 DEF OInv, OfferTypeOK, GenerateCertificate, widget, factory,
     session, ice, NotYetAsked, OnePlace
<1>8. OnePlace'
  BY <1>1, <1>2 DEF OInv, OfferTypeOK, GenerateCertificate, widget, factory,
     session, ice, OnePlace, NotYetAsked
<1>9. Untouched'
  BY <1>1, <1>2 DEF OInv, OfferTypeOK, GenerateCertificate, widget, factory,
     session, ice, Untouched, NotYetAsked, OnePlace
<1>10. ToldOnce'
  BY <1>1, <1>2 DEF OInv, OfferTypeOK, GenerateCertificate, widget, factory,
     session, ice, ToldOnce, Untouched
<1>11. SuccessFirst'
  BY <1>1, <1>2 DEF OInv, OfferTypeOK, GenerateCertificate, widget, factory,
     session, ice, SuccessFirst, Untouched, ToldOnce
<1>12. OfferWaits'
  BY <1>1, <1>2 DEF OInv, OfferTypeOK, GenerateCertificate, widget, factory,
     session, ice, OfferWaits, Untouched, local_description, CheckedIsDescribed
<1>. QED  BY <1>3, <1>6, <1>7, <1>8, <1>9, <1>10, <1>11, <1>12 DEF OInv

(* A candidate goes behind the success. *)
LEMMA CandidateGatheredKeeps ==
    ASSUME OInv, NEW mid \in MidSet, CandidateGathered(mid)
    PROVE  OInv'
<1>1. PICK m \in Msgs : m.type = "candidate" /\ msgq' = Append(msgq, m)
  BY MsgTyped DEF CandidateGathered
<1>2. /\ msgq' \in Seq(Msgs)
      /\ Has(msgq', Creates) <=> Has(msgq, Creates)
      /\ Has(msgq', Sets) <=> Has(msgq, Sets)
      /\ Has(msgq', {"set_ok"}) <=> Has(msgq, {"set_ok"})
      /\ AtMostOne(msgq', Creates) /\ AtMostOne(msgq', Sets)
      /\ Ordered(msgq) /\ Has(msgq, {"set_ok"}) => Ordered(msgq')
  BY <1>1, MsgPosted DEF PostedTo, Certs, Creates, Sets, OInv, OnePlace, ToldOnce,
     QueuesTyped
<1>3. QueuesTyped'
  BY <1>1, <1>2 DEF OInv, QueuesTyped, CandidateGathered
<1>4. QueuesShaped'
  BY <1>3, QueuesArePrimed
<1>5. OfferTypeOK'
  BY <1>4 DEF OInv, OfferTypeOK, QueuesShaped, OnePlace, CandidateGathered, widget,
     factory, session, ice
<1>6. NotYetAsked'
  BY <1>1, <1>2 DEF OInv, OfferTypeOK, CandidateGathered, widget, factory, session,
     ice, NotYetAsked, OnePlace
<1>7. OnePlace'
  BY <1>1, <1>2 DEF OInv, OfferTypeOK, CandidateGathered, widget, factory, session,
     ice, OnePlace, NotYetAsked
<1>8. Untouched'
  BY <1>1, <1>2 DEF OInv, OfferTypeOK, CandidateGathered, widget, factory, session,
     ice, Untouched, NotYetAsked, OnePlace
<1>9. ToldOnce'
  BY <1>1, <1>2 DEF OInv, OfferTypeOK, CandidateGathered, widget, factory, session,
     ice, ToldOnce, Untouched
<1>10. SuccessFirst'
  BY <1>1, <1>2 DEF OInv, OfferTypeOK, CandidateGathered, widget, factory, session,
     ice, SuccessFirst, Untouched, ToldOnce
<1>11. OfferWaits'
  BY <1>1, <1>2 DEF OInv, OfferTypeOK, CandidateGathered, widget, factory, session,
     ice, OfferWaits, Untouched, local_description, CheckedIsDescribed
<1>. QED  BY <1>3, <1>5, <1>6, <1>7, <1>8, <1>9, <1>10, <1>11 DEF OInv

(* The widget shows a candidate. *)
LEMMA OnLocalIceCandidateKeeps ==
    ASSUME OInv, OnLocalIceCandidate
    PROVE  OInv'
<1>1. /\ events' \in Seq(Events) /\ Head(events).mid \in MidSet
      /\ Has(events', {"offer"}) <=> Has(events, {"offer"})
      /\ Has(events', {"ice"}) => Has(events, {"ice"})
      /\ Has(events, {"ice"}) /\ AtMostOne(events', {"offer"})
  BY EventTaken DEF OInv, OnePlace, QueuesTyped, TakenFrom, Events,
     OnLocalIceCandidate
<1>2. QueuesTyped'
  BY <1>1 DEF OInv, QueuesTyped, OnLocalIceCandidate
<1>3. QueuesShaped'
  BY <1>2, QueuesArePrimed
<1>4. OfferTypeOK'
  BY <1>1, <1>3 DEF OInv, OfferTypeOK, QueuesShaped, OnePlace, OnLocalIceCandidate,
     widget, factory, session, ice
<1>5. NotYetAsked'
  BY <1>1 DEF OInv, OfferTypeOK, OnLocalIceCandidate, widget, factory, session, ice,
     NotYetAsked, OnePlace
<1>6. OnePlace'
  BY <1>1 DEF OInv, OfferTypeOK, OnLocalIceCandidate, widget, factory, session, ice,
     OnePlace, NotYetAsked
<1>7. Untouched'
  BY <1>1 DEF OInv, OfferTypeOK, OnLocalIceCandidate, widget, factory, session, ice,
     Untouched, NotYetAsked, OnePlace
<1>8. ToldOnce'
  BY <1>1 DEF OInv, OfferTypeOK, OnLocalIceCandidate, widget, factory, session, ice,
     ToldOnce, Untouched
<1>9. SuccessFirst'
  BY <1>1 DEF OInv, OfferTypeOK, OnLocalIceCandidate, widget, factory, session, ice,
     SuccessFirst, Untouched, ToldOnce
<1>10. OfferWaits'
  BY <1>1 DEF OInv, OfferTypeOK, OnLocalIceCandidate, widget, factory, session, ice,
     OfferWaits, Untouched, local_description, CheckedIsDescribed
<1>. QED  BY <1>2, <1>4, <1>5, <1>6, <1>7, <1>8, <1>9, <1>10 DEF OInv

(* The offer goes from the message to the signal. *)
LEMMA OnCreateSuccessKeeps ==
    ASSUME OInv, OnCreateSuccess
    PROVE  OInv'
<1>1. /\ msgq' \in Seq(Msgs)
      /\ Has(msgq, Creates) /\ ~Has(msgq', Creates)
      /\ Has(msgq', Sets) <=> Has(msgq, Sets)
      /\ Has(msgq', {"set_ok"}) <=> Has(msgq, {"set_ok"})
      /\ AtMostOne(msgq', Creates) /\ AtMostOne(msgq', Sets)
      /\ Ordered(msgq) => Ordered(msgq')
  BY MsgTaken DEF OInv, OnePlace, ToldOnce, QueuesTyped, PostedTo, TakenFrom,
     Creates, Sets, Msgs, Events, Handles, OnCreateSuccess
<1>2. /\ events' \in Seq(Events) /\ Has(events', {"offer"})
      /\ Has(events', {"ice"}) <=> Has(events, {"ice"})
      /\ AtMostOne(events', {"offer"})
  BY <1>1, EventPosted, MsgTyped DEF OInv, OnePlace, ToldOnce, QueuesTyped,
     PostedTo, TakenFrom, Creates, Sets, Msgs, Events, Handles, OnCreateSuccess
<1>3. QueuesTyped'
  BY <1>1, <1>2 DEF OInv, QueuesTyped, OnCreateSuccess
<1>4. QueuesShaped'
  BY <1>3, QueuesArePrimed
<1>5. OfferTypeOK'
  BY <1>4 DEF OInv, OfferTypeOK, QueuesShaped, OnePlace, OnCreateSuccess, widget,
     factory, session, ice
<1>6. NotYetAsked'
  BY <1>1, <1>2 DEF OInv, OfferTypeOK, OnCreateSuccess, widget, factory, session,
     ice, NotYetAsked, OnePlace
<1>7. OnePlace'
  BY <1>1, <1>2 DEF OInv, OfferTypeOK, OnCreateSuccess, widget, factory, session,
     ice, OnePlace, NotYetAsked
<1>8. Untouched'
  BY <1>1, <1>2 DEF OInv, OfferTypeOK, OnCreateSuccess, widget, factory, session,
     ice, Untouched, NotYetAsked, OnePlace
<1>9. ToldOnce'
  BY <1>1, <1>2 DEF OInv, OfferTypeOK, OnCreateSuccess, widget, factory, session,
     ice, ToldOnce, Untouched
<1>10. SuccessFirst'
  BY <1>1, <1>2 DEF OInv, OfferTypeOK, OnCreateSuccess, widget, factory, session,
     ice, SuccessFirst, Untouched, ToldOnce
<1>11. OfferWaits'
  BY <1>1, <1>2 DEF OInv, OfferTypeOK, OnCreateSuccess, widget, factory, session,
     ice, OfferWaits, Untouched, local_description, CheckedIsDescribed
<1>. QED  BY <1>3, <1>5, <1>6, <1>7, <1>8, <1>9, <1>10, <1>11 DEF OInv

(* Or it is gone. *)
LEMMA OnCreateFailureKeeps ==
    ASSUME OInv, OnCreateFailure
    PROVE  OInv'
<1>1. /\ msgq' \in Seq(Msgs)
      /\ Has(msgq, Creates) /\ ~Has(msgq', Creates)
      /\ Has(msgq', Sets) <=> Has(msgq, Sets)
      /\ Has(msgq', {"set_ok"}) <=> Has(msgq, {"set_ok"})
      /\ AtMostOne(msgq', Creates) /\ AtMostOne(msgq', Sets)
      /\ Ordered(msgq) => Ordered(msgq')
  BY MsgTaken DEF OInv, OnePlace, ToldOnce, QueuesTyped, PostedTo, TakenFrom,
     Creates, Sets, Msgs, Events, Handles, OnCreateFailure
<1>2. QueuesTyped'
  BY <1>1 DEF OInv, QueuesTyped, OnCreateFailure
<1>3. QueuesShaped'
  BY <1>2, QueuesArePrimed
<1>4. OfferTypeOK'
  BY <1>3 DEF OInv, OfferTypeOK, QueuesShaped, OnePlace, OnCreateFailure, widget,
     factory, session, ice
<1>5. NotYetAsked'
  BY <1>1 DEF OInv, OfferTypeOK, OnCreateFailure, widget, factory, session, ice,
     NotYetAsked, OnePlace
<1>6. OnePlace'
  BY <1>1 DEF OInv, OfferTypeOK, OnCreateFailure, widget, factory, session, ice,
     OnePlace, NotYetAsked
<1>7. Untouched'
  BY <1>1 DEF OInv, OfferTypeOK, OnCreateFailure, widget, factory, session, ice,
     Untouched, NotYetAsked, OnePlace
<1>8. ToldOnce'
  BY <1>1 DEF OInv, OfferTypeOK, OnCreateFailure, widget, factory, session, ice,
     ToldOnce, Untouched
<1>9. SuccessFirst'
  BY <1>1 DEF OInv, OfferTypeOK, OnCreateFailure, widget, factory, session, ice,
     SuccessFirst, Untouched, ToldOnce
<1>10. OfferWaits'
  BY <1>1 DEF OInv, OfferTypeOK, OnCreateFailure, widget, factory, session, ice,
     OfferWaits, Untouched, local_description, CheckedIsDescribed
<1>. QED  BY <1>2, <1>4, <1>5, <1>6, <1>7, <1>8, <1>9, <1>10 DEF OInv

(* The outcome of SetLocalDescription is told, and not again. *)
LEMMA OnSetCompleteKeeps ==
    ASSUME OInv, OnSetComplete
    PROVE  OInv'
<1>1. /\ msgq \in Seq(Msgs) /\ msgq # <<>> /\ msgq' = Tail(msgq)
      /\ Head(msgq).type \in Sets /\ AtMostOne(msgq, Creates) /\ AtMostOne(msgq, Sets)
      /\ set_local' = IF Head(msgq).type = "set_ok" THEN "success" ELSE "failure"
  BY DEF OInv, OnePlace, ToldOnce, QueuesTyped, Handles, Sets, OnSetComplete
<1>2. /\ msgq' \in Seq(Msgs)
      /\ Has(msgq', Creates) <=> Has(msgq, Creates)
      /\ Has(msgq, Sets) /\ ~Has(msgq', Sets)
      /\ AtMostOne(msgq', Creates) /\ AtMostOne(msgq', Sets)
      /\ Has(msgq, {"set_ok"}) => Has(msgq', {"set_ok"}) \/ Head(msgq).type = "set_ok"
      /\ Ordered(msgq) => Head(msgq).type = "set_ok" \/ Ordered(msgq')
  BY <1>1, MsgTaken DEF TakenFrom, Creates, Sets
<1>3. Has(msgq, {"set_ok"}) => set_local' = "success"
  BY <1>1, <1>2 DEF Has, Sets
<1>4. Ordered(msgq) => set_local' = "success" \/ Ordered(msgq')
  BY <1>1, <1>2
<1>5. QueuesTyped'
  BY <1>1, <1>2, <1>3, <1>4 DEF OInv, QueuesTyped, OnSetComplete
<1>6. QueuesShaped'
  BY <1>5, QueuesArePrimed
<1>7. OfferTypeOK'
  BY <1>1, <1>2, <1>3, <1>4, <1>6 DEF OInv, OfferTypeOK, QueuesShaped, OnePlace,
     OnSetComplete, widget, factory, session, ice
<1>8. NotYetAsked'
  BY <1>1, <1>2, <1>3, <1>4 DEF OInv, OfferTypeOK, OnSetComplete, widget, factory,
     session, ice, NotYetAsked, OnePlace
<1>9. OnePlace'
  BY <1>1, <1>2, <1>3, <1>4 DEF OInv, OfferTypeOK, OnSetComplete, widget, factory,
     session, ice, OnePlace, NotYetAsked
<1>10. Untouched'
  BY <1>1, <1>2, <1>3, <1>4 DEF OInv, OfferTypeOK, OnSetComplete, widget, factory,
     session, ice, Untouched, NotYetAsked, OnePlace
<1>11. ToldOnce'
  BY <1>1, <1>2, <1>3, <1>4 DEF OInv, OfferTypeOK, OnSetComplete, widget, factory,
     session, ice, ToldOnce, Untouched
<1>12. SuccessFirst'
  BY <1>1, <1>2, <1>3, <1>4 DEF OInv, OfferTypeOK, OnSetComplete, widget, factory,
     session, ice, SuccessFirst, Untouched, ToldOnce
<1>13. OfferWaits'
  BY <1>1, <1>2, <1>3, <1>4 DEF OInv, OfferTypeOK, OnSetComplete, widget, factory,
     session, ice, OfferWaits, Untouched, local_description, CheckedIsDescribed
<1>. QED  BY <1>5, <1>7, <1>8, <1>9, <1>10, <1>11, <1>12, <1>13 DEF OInv

(* An answer moves the pending offer to the current one, once. *)
LEMMA OnAnswerClickedKeeps ==
    ASSUME OInv, NEW answer \in Answers, OnAnswerClicked(answer)
    PROVE  OInv'
<1>1. /\ Remaining(answer) \subseteq MidSet /\ answer.rejected \subseteq MidSet
      /\ answer.candidates \subseteq MidSet
  BY RemainingSections DEF Answers
<1>2. QueuesTyped'
  BY <1>1 DEF OInv, QueuesTyped, OnAnswerClicked
<1>3. QueuesShaped'
  BY <1>2, QueuesArePrimed
<1>4. OfferTypeOK'
  <2>1. /\ at' \in {"idle", "undefined"}
        /\ UNCHANGED <<m_pcfIface, m_peerConnection, m_pOfferText, m_pOwnICEText, cert, requested,
                       pending_requests, offer, set_local, gathering>>
    BY DEF OnAnswerClicked, factory
  <2>2. CASE UNCHANGED <<session, ice>>
    BY <1>3, <2>1, <2>2 DEF OInv, OfferTypeOK, QueuesShaped, session, ice
  <2>3. CASE RemoteApplied(answer)
    <3>1. \A m \in MidSet : [mid |-> m, transport |-> m] \in [mid : MidSet, transport : MidSet]
      OBVIOUS
    <3>2. checks' \subseteq [mid : MidSet, transport : MidSet]
      BY <1>1, <2>3, <3>1 DEF RemoteApplied
    <3>. QED  BY <1>3, <1>1, <2>1, <2>3, <3>2 DEF OInv, OfferTypeOK, QueuesShaped,
       RemoteApplied
  <2>4. CASE RemoteFails(answer)
    BY <1>3, <1>1, <2>1, <2>4 DEF OInv, OfferTypeOK, QueuesShaped, RemoteFails
  <2>. QED  BY <2>2, <2>3, <2>4 DEF OnAnswerClicked, SetRemoteDescription
<1>5. NotYetAsked'
  BY <1>1 DEF OInv, OfferTypeOK, OnAnswerClicked, widget, factory, session, ice,
     SetRemoteDescription, AcceptsRemote, RemoteApplied, RemoteFails, NotYetAsked,
     OnePlace
<1>6. OnePlace'
  BY <1>1 DEF OInv, OfferTypeOK, OnAnswerClicked, widget, factory, session, ice,
     SetRemoteDescription, AcceptsRemote, RemoteApplied, RemoteFails, OnePlace,
     NotYetAsked
<1>7. Untouched'
  BY <1>1 DEF OInv, OfferTypeOK, OnAnswerClicked, widget, factory, session, ice,
     SetRemoteDescription, AcceptsRemote, RemoteApplied, RemoteFails, Untouched,
     NotYetAsked, OnePlace
<1>8. ToldOnce'
  BY <1>1 DEF OInv, OfferTypeOK, OnAnswerClicked, widget, factory, session, ice,
     SetRemoteDescription, AcceptsRemote, RemoteApplied, RemoteFails, ToldOnce,
     Untouched
<1>9. SuccessFirst'
  BY <1>1 DEF OInv, OfferTypeOK, OnAnswerClicked, widget, factory, session, ice,
     SetRemoteDescription, AcceptsRemote, RemoteApplied, RemoteFails, SuccessFirst,
     Untouched, ToldOnce
<1>10. OfferWaits'
  BY <1>1 DEF OInv, OfferTypeOK, OnAnswerClicked, widget, factory, session, ice,
     SetRemoteDescription, AcceptsRemote, RemoteApplied, RemoteFails, OfferWaits,
     Untouched, local_description, CheckedIsDescribed
<1>. QED  BY <1>2, <1>4, <1>5, <1>6, <1>7, <1>8, <1>9, <1>10 DEF OInv

(* What is given to a transport was added to the description. *)
LEMMA OnRemoteICEClickedKeeps ==
    ASSUME OInv, NEW lines \in SUBSET Lines, OnRemoteICEClicked(lines)
    PROVE  OInv'
<1>1. Mids[1] \in MidSet
  BY MidsAssumption, EmptySeq, LenProperties DEF MidSet
<1>2. QueuesTyped'
  BY <1>1 DEF OInv, QueuesTyped, OnRemoteICEClicked
<1>3. QueuesShaped'
  BY <1>2, QueuesArePrimed
<1>4. OfferTypeOK'
  BY <1>1, <1>3 DEF OInv, OfferTypeOK, QueuesShaped, OnePlace, OnRemoteICEClicked,
     widget, factory, session, ice, AddIceCandidates, AddCandidate, SectionByIndex,
     Lines
<1>5. NotYetAsked'
  BY <1>1 DEF OInv, OfferTypeOK, OnRemoteICEClicked, widget, factory, session, ice,
     AddIceCandidates, AddCandidate, SectionByIndex, Lines, NotYetAsked, OnePlace
<1>6. OnePlace'
  BY <1>1 DEF OInv, OfferTypeOK, OnRemoteICEClicked, widget, factory, session, ice,
     AddIceCandidates, AddCandidate, SectionByIndex, Lines, OnePlace, NotYetAsked
<1>7. Untouched'
  BY <1>1 DEF OInv, OfferTypeOK, OnRemoteICEClicked, widget, factory, session, ice,
     AddIceCandidates, AddCandidate, SectionByIndex, Lines, Untouched, NotYetAsked,
     OnePlace
<1>8. ToldOnce'
  BY <1>1 DEF OInv, OfferTypeOK, OnRemoteICEClicked, widget, factory, session, ice,
     AddIceCandidates, AddCandidate, SectionByIndex, Lines, ToldOnce, Untouched
<1>9. SuccessFirst'
  BY <1>1 DEF OInv, OfferTypeOK, OnRemoteICEClicked, widget, factory, session, ice,
     AddIceCandidates, AddCandidate, SectionByIndex, Lines, SuccessFirst, Untouched,
     ToldOnce
<1>10. OfferWaits'
  BY <1>1 DEF OInv, OfferTypeOK, OnRemoteICEClicked, widget, factory, session, ice,
     AddIceCandidates, AddCandidate, SectionByIndex, Lines, OfferWaits, Untouched,
     local_description, CheckedIsDescribed
<1>. QED  BY <1>2, <1>4, <1>5, <1>6, <1>7, <1>8, <1>9, <1>10 DEF OInv

(* The request that waited becomes a message. *)
LEMMA SetCertificateKeeps ==
    ASSUME OInv, NEW ok \in BOOLEAN, SetCertificate(ok)
    PROVE  OInv'
<1>1. /\ msgq \in Seq(Msgs) /\ msgq # <<>> /\ Head(msgq).type \in Certs
      /\ AtMostOne(msgq, Creates) /\ AtMostOne(msgq, Sets)
      /\ pending_requests \in 0 .. 1 /\ (pending_requests # 0 => ~Has(msgq, Creates))
  BY DEF OInv, OfferTypeOK, OnePlace, ToldOnce, QueuesTyped, Handles, Certs,
     SetCertificate
<1>2. /\ Tail(msgq) \in Seq(Msgs)
      /\ Has(Tail(msgq), Creates) <=> Has(msgq, Creates)
      /\ Has(Tail(msgq), Sets) <=> Has(msgq, Sets)
      /\ Has(Tail(msgq), {"set_ok"}) <=> Has(msgq, {"set_ok"})
      /\ AtMostOne(Tail(msgq), Creates) /\ AtMostOne(Tail(msgq), Sets)
      /\ Ordered(msgq) => Ordered(Tail(msgq))
  BY <1>1, MsgTaken DEF TakenFrom, Certs, Creates, Sets
<1>3. msgq' = IF pending_requests = 0 THEN Tail(msgq) ELSE Append(Tail(msgq), Created(ok))
  BY <1>1, <1>2, AnsweredPosts DEF SetCertificate
<1>4. Created(ok) \in Msgs /\ Created(ok).type \in Creates
  BY MsgTyped DEF Created, Creates
<1>5. /\ msgq' \in Seq(Msgs)
      /\ Has(msgq', Creates) => Has(msgq, Creates) \/ pending_requests # 0
      /\ Has(msgq', Sets) <=> Has(msgq, Sets)
      /\ Has(msgq', {"set_ok"}) <=> Has(msgq, {"set_ok"})
      /\ AtMostOne(msgq', Creates) /\ AtMostOne(msgq', Sets)
      /\ Ordered(msgq) => Ordered(msgq')
  BY <1>1, <1>2, <1>3, <1>4, MsgPosted DEF PostedTo, Creates, Sets
<1>6. QueuesTyped'
  BY <1>1, <1>5 DEF OInv, QueuesTyped, SetCertificate
<1>7. QueuesShaped'
  BY <1>6, QueuesArePrimed
<1>8. /\ cert' \in {"succeeded", "failed"} /\ pending_requests' = 0
      /\ UNCHANGED <<at, m_pcfIface, m_peerConnection, m_pOfferText, m_pOwnICEText, requested,
                     offer, set_local, signaling_state, session_error, pending_local,
                     current_local, remote, channels, transports, described, checks, gathering>>
  BY DEF SetCertificate, widget, factory, session, ice
<1>9. OfferTypeOK'
  BY <1>7, <1>8 DEF OInv, OfferTypeOK, QueuesShaped, OnePlace
<1>10. NotYetAsked'
  BY <1>1, <1>5 DEF OInv, OfferTypeOK, SetCertificate, widget, factory, session,
     ice, NotYetAsked, OnePlace
<1>11. OnePlace'
  BY <1>1, <1>5 DEF OInv, OfferTypeOK, SetCertificate, widget, factory, session,
     ice, OnePlace, NotYetAsked
<1>12. Untouched'
  BY <1>1, <1>5 DEF OInv, OfferTypeOK, SetCertificate, widget, factory, session,
     ice, Untouched, NotYetAsked, OnePlace
<1>13. ToldOnce'
  BY <1>1, <1>5 DEF OInv, OfferTypeOK, SetCertificate, widget, factory, session,
     ice, ToldOnce, Untouched
<1>14. SuccessFirst'
  BY <1>1, <1>5 DEF OInv, OfferTypeOK, SetCertificate, widget, factory, session,
     ice, SuccessFirst, Untouched, ToldOnce
<1>15. OfferWaits'
  BY <1>1, <1>5 DEF OInv, OfferTypeOK, SetCertificate, widget, factory, session,
     ice, OfferWaits, Untouched, local_description, CheckedIsDescribed
<1>. QED  BY <1>6, <1>9, <1>10, <1>11, <1>12, <1>13, <1>14, <1>15 DEF OInv

(* It does so too when there is no certificate. *)
LEMMA OnCertificateRequestFailedKeeps ==
    ASSUME OInv, OnCertificateRequestFailed
    PROVE  OInv'
<1>1. /\ msgq \in Seq(Msgs) /\ msgq # <<>> /\ Head(msgq).type \in Certs
      /\ AtMostOne(msgq, Creates) /\ AtMostOne(msgq, Sets)
      /\ pending_requests \in 0 .. 1 /\ (pending_requests # 0 => ~Has(msgq, Creates))
  BY DEF OInv, OfferTypeOK, OnePlace, ToldOnce, QueuesTyped, Handles, Certs,
     OnCertificateRequestFailed
<1>2. /\ Tail(msgq) \in Seq(Msgs)
      /\ Has(Tail(msgq), Creates) <=> Has(msgq, Creates)
      /\ Has(Tail(msgq), Sets) <=> Has(msgq, Sets)
      /\ Has(Tail(msgq), {"set_ok"}) <=> Has(msgq, {"set_ok"})
      /\ AtMostOne(Tail(msgq), Creates) /\ AtMostOne(Tail(msgq), Sets)
      /\ Ordered(msgq) => Ordered(Tail(msgq))
  BY <1>1, MsgTaken DEF TakenFrom, Certs, Creates, Sets
<1>3. msgq' = IF pending_requests = 0 THEN Tail(msgq) ELSE Append(Tail(msgq), Created(FALSE))
  BY <1>1, <1>2, AnsweredPosts DEF OnCertificateRequestFailed
<1>4. Created(FALSE) \in Msgs /\ Created(FALSE).type \in Creates
  BY MsgTyped DEF Created, Creates
<1>5. /\ msgq' \in Seq(Msgs)
      /\ Has(msgq', Creates) => Has(msgq, Creates) \/ pending_requests # 0
      /\ Has(msgq', Sets) <=> Has(msgq, Sets)
      /\ Has(msgq', {"set_ok"}) <=> Has(msgq, {"set_ok"})
      /\ AtMostOne(msgq', Creates) /\ AtMostOne(msgq', Sets)
      /\ Ordered(msgq) => Ordered(msgq')
  BY <1>1, <1>2, <1>3, <1>4, MsgPosted DEF PostedTo, Creates, Sets
<1>6. QueuesTyped'
  BY <1>1, <1>5 DEF OInv, QueuesTyped, OnCertificateRequestFailed
<1>7. QueuesShaped'
  BY <1>6, QueuesArePrimed
<1>8. /\ cert' \in {"succeeded", "failed"} /\ pending_requests' = 0
      /\ UNCHANGED <<at, m_pcfIface, m_peerConnection, m_pOfferText, m_pOwnICEText, requested,
                     offer, set_local, signaling_state, session_error, pending_local,
                     current_local, remote, channels, transports, described, checks, gathering>>
  BY DEF OnCertificateRequestFailed, widget, factory, session, ice
<1>9. OfferTypeOK'
  BY <1>7, <1>8 DEF OInv, OfferTypeOK, QueuesShaped, OnePlace
<1>10. NotYetAsked'
  BY <1>1, <1>5 DEF OInv, OfferTypeOK, OnCertificateRequestFailed, widget, factory,
     session, ice, NotYetAsked, OnePlace
<1>11. OnePlace'
  BY <1>1, <1>5 DEF OInv, OfferTypeOK, OnCertificateRequestFailed, widget, factory,
     session, ice, OnePlace, NotYetAsked
<1>12. Untouched'
  BY <1>1, <1>5 DEF OInv, OfferTypeOK, OnCertificateRequestFailed, widget, factory,
     session, ice, Untouched, NotYetAsked, OnePlace
<1>13. ToldOnce'
  BY <1>1, <1>5 DEF OInv, OfferTypeOK, OnCertificateRequestFailed, widget, factory,
     session, ice, ToldOnce, Untouched
<1>14. SuccessFirst'
  BY <1>1, <1>5 DEF OInv, OfferTypeOK, OnCertificateRequestFailed, widget, factory,
     session, ice, SuccessFirst, Untouched, ToldOnce
<1>15. OfferWaits'
  BY <1>1, <1>5 DEF OInv, OfferTypeOK, OnCertificateRequestFailed, widget, factory,
     session, ice, OfferWaits, Untouched, local_description, CheckedIsDescribed
<1>. QED  BY <1>6, <1>9, <1>10, <1>11, <1>12, <1>13, <1>14, <1>15 DEF OInv

(* The request waits for the certificate, or becomes a message. *)
LEMMA CreateOfferKeeps ==
    ASSUME OInv, NEW ok \in BOOLEAN, CreateOffer(ok)
    PROVE  OInv'
<1>1. /\ msgq \in Seq(Msgs) /\ ~Has(msgq, Creates)
      /\ AtMostOne(msgq, Creates) /\ AtMostOne(msgq, Sets)
  BY DEF OInv, OnePlace, ToldOnce, QueuesTyped, CreateOffer
<1>2. \A b \in BOOLEAN : Created(b) \in Msgs /\ Created(b).type \in Creates
  BY MsgTyped DEF Created, Creates
<1>3. PICK m \in Msgs : /\ m.type \in Creates
                           /\ msgq' = IF cert = "waiting" THEN msgq ELSE Append(msgq, m)
  BY <1>2 DEF CreateOffer
<1>4. /\ msgq' \in Seq(Msgs)
      /\ Has(msgq', Creates) => cert # "waiting"
      /\ Has(msgq', Sets) <=> Has(msgq, Sets)
      /\ Has(msgq', {"set_ok"}) <=> Has(msgq, {"set_ok"})
      /\ AtMostOne(msgq', Creates) /\ AtMostOne(msgq', Sets)
      /\ Ordered(msgq) => Ordered(msgq')
  BY <1>1, <1>3, MsgPosted DEF PostedTo, Creates, Sets
<1>5. QueuesTyped'
  BY <1>1, <1>4 DEF OInv, QueuesTyped, CreateOffer
<1>6. QueuesShaped'
  BY <1>5, QueuesArePrimed
<1>7. /\ at = "offering" /\ at' = "idle"
      /\ pending_requests' = IF cert = "waiting" THEN pending_requests + 1 ELSE pending_requests
      /\ UNCHANGED <<m_pcfIface, m_peerConnection, m_pOfferText, m_pOwnICEText, cert, requested,
                     offer, set_local, signaling_state, session_error, pending_local,
                     current_local, remote, channels, transports, described, checks, gathering>>
  BY DEF CreateOffer, widget, factory, session, ice
<1>8. OfferTypeOK'
  BY <1>6, <1>7 DEF OInv, OfferTypeOK, QueuesShaped, OnePlace
<1>9. NotYetAsked'
  BY <1>1, <1>4 DEF OInv, OfferTypeOK, CreateOffer, widget, factory, session, ice,
     NotYetAsked, OnePlace
<1>10. OnePlace'
  BY <1>1, <1>4 DEF OInv, OfferTypeOK, CreateOffer, widget, factory, session, ice,
     OnePlace, NotYetAsked
<1>11. Untouched'
  BY <1>1, <1>4 DEF OInv, OfferTypeOK, CreateOffer, widget, factory, session, ice,
     Untouched, NotYetAsked, OnePlace
<1>12. ToldOnce'
  BY <1>1, <1>4 DEF OInv, OfferTypeOK, CreateOffer, widget, factory, session, ice,
     ToldOnce, Untouched
<1>13. SuccessFirst'
  BY <1>1, <1>4 DEF OInv, OfferTypeOK, CreateOffer, widget, factory, session, ice,
     SuccessFirst, Untouched, ToldOnce
<1>14. OfferWaits'
  BY <1>1, <1>4 DEF OInv, OfferTypeOK, CreateOffer, widget, factory, session, ice,
     OfferWaits, Untouched, local_description, CheckedIsDescribed
<1>. QED  BY <1>5, <1>8, <1>9, <1>10, <1>11, <1>12, <1>13, <1>14 DEF OInv

(* The offer is shown: SetLocalDescription was not called before. *)
LEMMA OnLocalSDPInfoKeeps ==
    ASSUME OInv, NEW result \in {"refused", "fails", "applied"}, OnLocalSDPInfo(result)
    PROVE  OInv'
<1>1. /\ events' \in Seq(Events) /\ Has(events, {"offer"}) /\ ~Has(events', {"offer"})
      /\ Has(events', {"ice"}) <=> Has(events, {"ice"})
      /\ AtMostOne(events', {"offer"})
  BY EventTaken DEF OInv, OnePlace, QueuesTyped, TakenFrom, OnLocalSDPInfo
<1>2. /\ ~m_pOfferText /\ ~Has(msgq, Sets) /\ ~Has(msgq, Creates)
      /\ at = "idle" /\ pending_requests = 0 /\ m_pcfIface # "null"
  BY <1>1 DEF OInv, OfferTypeOK, NotYetAsked, OnePlace, Untouched, OnLocalSDPInfo
<1>3. PICK m \in Msgs : /\ m.type = (IF result = "applied" THEN "set_ok" ELSE "set_failed")
                           /\ msgq' = Append(msgq, m)
  BY MsgTyped DEF OnLocalSDPInfo, SetLocalDescription, Sets
<1>4. /\ msgq' \in Seq(Msgs) /\ ~Has(msgq', Creates)
      /\ result = "applied" => Has(msgq', {"set_ok"})
      /\ AtMostOne(msgq', Creates) /\ AtMostOne(msgq', Sets)
      /\ Ordered(msgq) => Ordered(msgq')
  BY <1>2, <1>3, MsgPosted DEF OInv, OnePlace, ToldOnce, QueuesTyped, PostedTo,
     Creates, Sets
<1>5. QueuesTyped'
  BY <1>1, <1>2, <1>4 DEF OInv, QueuesTyped, OnLocalSDPInfo
<1>6. QueuesShaped'
  BY <1>5, QueuesArePrimed
<1>7. OfferTypeOK'
  <2>1. /\ at' \in {"idle", "gathering"} /\ m_pOfferText' \in BOOLEAN
        /\ UNCHANGED <<m_pcfIface, m_peerConnection, m_pOwnICEText, cert, requested,
                       pending_requests, offer, set_local, described, checks, gathering>>
    BY DEF OnLocalSDPInfo, SetLocalDescription, factory, ice
  <2>2. CASE UNCHANGED session
    BY <1>6, <2>1, <2>2 DEF OInv, OfferTypeOK, QueuesShaped, session
  <2>3. CASE LocalApplied
    BY <1>6, <2>1, <2>3 DEF OInv, OfferTypeOK, QueuesShaped, LocalApplied
  <2>4. CASE LocalFails
    BY <1>6, <2>1, <2>4 DEF OInv, OfferTypeOK, QueuesShaped, LocalFails
  <2>. QED  BY <2>2, <2>3, <2>4 DEF OnLocalSDPInfo, SetLocalDescription
<1>8. NotYetAsked'
  BY <1>1, <1>2, <1>4 DEF OInv, OfferTypeOK, OnLocalSDPInfo, widget, factory,
     session, ice, SetLocalDescription, LocalApplied, LocalFails, NotYetAsked,
     OnePlace
<1>9. OnePlace'
  BY <1>1, <1>2, <1>4 DEF OInv, OfferTypeOK, OnLocalSDPInfo, widget, factory,
     session, ice, SetLocalDescription, LocalApplied, LocalFails, OnePlace,
     NotYetAsked
<1>10. Untouched'
  BY <1>1, <1>2, <1>4 DEF OInv, OfferTypeOK, OnLocalSDPInfo, widget, factory,
     session, ice, SetLocalDescription, LocalApplied, LocalFails, Untouched,
     NotYetAsked, OnePlace
<1>11. ToldOnce'
  BY <1>1, <1>2, <1>4 DEF OInv, OfferTypeOK, OnLocalSDPInfo, widget, factory,
     session, ice, SetLocalDescription, LocalApplied, LocalFails, ToldOnce,
     Untouched
<1>12. SuccessFirst'
  BY <1>1, <1>2, <1>4 DEF OInv, OfferTypeOK, OnLocalSDPInfo, widget, factory,
     session, ice, SetLocalDescription, LocalApplied, LocalFails, SuccessFirst,
     Untouched, ToldOnce
<1>13. OfferWaits'
  BY <1>1, <1>2, <1>4 DEF OInv, OfferTypeOK, OnLocalSDPInfo, widget, factory,
     session, ice, SetLocalDescription, LocalApplied, LocalFails, OfferWaits,
     Untouched, local_description, CheckedIsDescribed
<1>. QED  BY <1>5, <1>7, <1>8, <1>9, <1>10, <1>11, <1>12, <1>13 DEF OInv

(* A candidate at the head means that the success was told. *)
LEMMA OnIceCandidateKeeps ==
    ASSUME OInv, OnIceCandidate
    PROVE  OInv'
<1>1. /\ msgq' \in Seq(Msgs) /\ Head(msgq).mid \in MidSet
      /\ Has(msgq', Creates) <=> Has(msgq, Creates)
      /\ Has(msgq', Sets) <=> Has(msgq, Sets)
      /\ ~Ordered(msgq)
      /\ AtMostOne(msgq', Creates) /\ AtMostOne(msgq', Sets)
  BY MsgTaken DEF OInv, OnePlace, ToldOnce, QueuesTyped, PostedTo, TakenFrom,
     Creates, Sets, Msgs, Events, Handles, Certs, OnIceCandidate
<1>2. /\ events' \in Seq(Events) /\ (Has(events', {"offer"}) <=> Has(events, {"offer"}))
      /\ AtMostOne(events', {"offer"})
  BY <1>1, EventPosted, MsgTyped DEF OInv, OnePlace, QueuesTyped, PostedTo,
     OnIceCandidate
<1>3. QueuesTyped'
  BY <1>1, <1>2 DEF OInv, QueuesTyped, OnIceCandidate
<1>4. QueuesShaped'
  BY <1>3, QueuesArePrimed
<1>5. OfferTypeOK'
  BY <1>4 DEF OInv, OfferTypeOK, QueuesShaped, OnePlace, OnIceCandidate, widget,
     factory, session, ice
<1>6. NotYetAsked'
  BY <1>1, <1>2 DEF OInv, OfferTypeOK, OnIceCandidate, widget, factory, session,
     ice, NotYetAsked, OnePlace
<1>7. OnePlace'
  BY <1>1, <1>2 DEF OInv, OfferTypeOK, OnIceCandidate, widget, factory, session,
     ice, OnePlace, NotYetAsked
<1>8. Untouched'
  BY <1>1, <1>2 DEF OInv, OfferTypeOK, OnIceCandidate, widget, factory, session,
     ice, Untouched, NotYetAsked, OnePlace
<1>9. ToldOnce'
  BY <1>1, <1>2 DEF OInv, OfferTypeOK, OnIceCandidate, widget, factory, session,
     ice, ToldOnce, Untouched
<1>10. SuccessFirst'
  BY <1>1, <1>2 DEF OInv, OfferTypeOK, OnIceCandidate, widget, factory, session,
     ice, SuccessFirst, Untouched, ToldOnce
<1>11. OfferWaits'
  BY <1>1, <1>2 DEF OInv, OfferTypeOK, OnIceCandidate, widget, factory, session,
     ice, OfferWaits, Untouched, local_description, CheckedIsDescribed
<1>. QED  BY <1>3, <1>5, <1>6, <1>7, <1>8, <1>9, <1>10, <1>11 DEF OInv

--------------------------------------------------------------------------
(* Every step keeps the invariant. *)
LEMMA NextKeeps == OInv /\ [OfferNext]_offerVars => OInv'
<1>. SUFFICES ASSUME OInv, [OfferNext]_offerVars  PROVE OInv'
  OBVIOUS
<1>1. CASE User
  BY <1>1, OnStartClickedKeeps, OnAnswerClickedKeeps, OnRemoteICEClickedKeeps,
     CloseKeeps
     DEF User
<1>2. CASE WidgetGoesOn
  BY <1>2, CreateOfferKeeps, OnLocalSDPInfoKeeps, MaybeStartGatheringKeeps,
     OnLocalIceCandidateKeeps DEF WidgetGoesOn
<1>3. CASE SignalingGoesOn
  BY <1>3, SetCertificateKeeps, OnCertificateRequestFailedKeeps,
     OnCreateSuccessKeeps,
     OnCreateFailureKeeps, OnSetCompleteKeeps, OnIceCandidateKeeps DEF SignalingGoesOn
<1>4. CASE \E ok \in BOOLEAN : GenerateCertificate(ok)
  BY <1>4, GenerateCertificateKeeps
<1>5. CASE \E mid \in MidSet : CandidateGathered(mid)
  BY <1>5, CandidateGatheredKeeps
<1>6. CASE UNCHANGED offerVars
  BY <1>6 DEF offerVars, widget, factory, session, ice, OInv, OfferTypeOK,
     QueuesTyped,
     NotYetAsked, OnePlace, Untouched, ToldOnce, SuccessFirst, OfferWaits, local_description,
     CheckedIsDescribed
<1>. QED  BY <1>1, <1>2, <1>3, <1>4, <1>5, <1>6 DEF OfferNext

(* It holds always. *)
LEMMA Invariant == OfferSpec => []OInv
BY InitOInv, NextKeeps, PTL DEF OfferSpec

(* The state of the widget, the connection and the two queues keeps its     *)
(* type: above all CreateOffer's request waits at most once, whenever the   *)
(* certificate comes, and an answer leaves transports of the offer's        *)
(* sections only.                                                           *)
THEOREM OfferTypeCorrect == OfferSpec => []OfferTypeOK
<1>1. OInv => OfferTypeOK
  BY DEF OInv
<1>. QED  BY Invariant, <1>1, PTL

(* MyWidget never receives a candidate, and shows none, before the success  *)
(* of SetLocalDescription was handled, although the transports gather on    *)
(* another thread: peer_connection.cc posts the success first.              *)
THEOREM SuccessBeforeCandidates == OfferSpec => []CandidatesAfterSuccess
<1>1. OInv => CandidatesAfterSuccess
  BY DEF OInv, SuccessFirst, CandidatesAfterSuccess, Has
<1>. QED  BY Invariant, <1>1, PTL

(* While the transports gather the connection has its local description,    *)
(* which OnTransportControllerCandidatesGathered needs to name the section  *)
(* of a candidate; no sequence of pasted answers, accepted, refused or      *)
(* failed half way, takes it away.                                          *)
THEOREM OfferIsKept == OfferSpec => []LocalOfferKept
<1>1. OInv => LocalOfferKept
  BY DEF OInv, OfferWaits, LocalOfferKept
<1>. QED  BY Invariant, <1>1, PTL

(* Every remote candidate handed to a transport is in the remote            *)
(* description, also after an answer that failed half way.                  *)
THEOREM ChecksDescribed == OfferSpec => []CheckedIsDescribed
<1>1. OInv => CheckedIsDescribed
  BY DEF OInv, OfferWaits
<1>. QED  BY Invariant, <1>1, PTL
==========================================================================
