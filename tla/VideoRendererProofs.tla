----------------------- MODULE VideoRendererProofs -----------------------
(* Memory safety of VideoRenderer::OnFrame for every number of threads and  *)
(* every set of frame sizes.                                                *)
EXTENDS VideoRenderer, TLAPS

(* The thread between lock and unlock of OnFrame is the one that holds      *)
(* mutex_onFrame, so there is one at most.                                  *)
Exclusive ==
    \A t \in Threads : pc[t] \in {"sizing", "converting"} => mutex_onFrame = t

(* image_ is always the buffer allocated for width_ and height_. *)
ImageAsSized == image = size

(* The inductive invariant. *)
RInv == RendererTypeOK /\ Exclusive /\ ImageAsSized /\ ImageFits

(* Turning a frame keeps it a pair of numbers. *)
LEMMA RotateTyped ==
    ASSUME NEW s \in Sizes, NEW r \in Rotations
    PROVE  Rotate(s, r) \in Nat \X Nat
BY SizesAssumption DEF Rotate

(* A new renderer satisfies the invariant. *)
LEMMA RendererInitInv == RendererInit => RInv
<1>1. NoSize \in Nat \X Nat
  BY DEF NoSize
<1>2. RendererInit => RendererTypeOK
  BY <1>1 DEF RendererInit, RendererTypeOK
<1> QED
  BY <1>2 DEF RendererInit, RInv, Exclusive, ImageAsSized, ImageFits

(* Each step of OnFrame preserves it. *)
LEMMA RendererNextInv == RInv /\ [RendererNext]_rendererVars => RInv'
<1> SUFFICES ASSUME RInv, [RendererNext]_rendererVars PROVE RInv'
  OBVIOUS
<1> USE DEF RInv, RendererTypeOK, Goto
<1>1. ASSUME NEW t \in Threads, NEW s \in Sizes, NEW r \in Rotations, Call(t, s, r)
      PROVE  RInv'
  <2>1. RendererTypeOK'
    BY <1>1, RotateTyped DEF Call
  <2>2. Exclusive' /\ ImageAsSized'
    BY <1>1 DEF Call, Exclusive, ImageAsSized
  <2>3. ImageFits'
    BY <1>1 DEF Call, ImageFits
  <2> QED BY <2>1, <2>2, <2>3
<1>2. ASSUME NEW t \in Threads, LockOnFrame(t) PROVE RInv'
  <2>1. RendererTypeOK' /\ ImageAsSized' /\ ImageFits'
    BY <1>2 DEF LockOnFrame, ImageAsSized, ImageFits
  <2>2. Exclusive'
    <3>1. \A u \in Threads : pc[u] \notin {"sizing", "converting"}
      BY <1>2, FreeAssumption DEF LockOnFrame, Exclusive
    <3> QED BY <1>2, <3>1 DEF LockOnFrame, Exclusive
  <2> QED BY <2>1, <2>2
<1>3. ASSUME NEW t \in Threads, setSize(t) PROVE RInv'
  <2>1. size' = buffer[t] /\ image' = buffer[t]
    BY <1>3 DEF setSize, SameSize, ImageAsSized
  <2>2. \A u \in Threads : u # t => pc[u] # "converting" /\ pc'[u] = pc[u]
    BY <1>3 DEF setSize, Exclusive
  <2>3. repeated' \in BOOLEAN
    BY <1>3, Zenon DEF setSize
  <2>4. RendererTypeOK'
    BY <1>3, <2>1, <2>3 DEF setSize
  <2>5. Exclusive'
    BY <1>3 DEF setSize, Exclusive
  <2>6. ImageFits'
    BY <1>3, <2>1, <2>2 DEF setSize, ImageFits
  <2> QED BY <2>1, <2>4, <2>5, <2>6 DEF ImageAsSized
<1>4. ASSUME NEW t \in Threads, Convert(t) PROVE RInv'
  <2>1. RendererTypeOK' /\ ImageAsSized' /\ ImageFits'
    BY <1>4 DEF Convert, ImageAsSized, ImageFits
  <2>2. Exclusive'
    BY <1>4 DEF Convert, Exclusive
  <2> QED BY <2>1, <2>2
<1>5. ASSUME NEW t \in Threads, StreamVideo(t) PROVE RInv'
  BY <1>5 DEF StreamVideo, Exclusive, ImageAsSized, ImageFits
<1>6. CASE UNCHANGED rendererVars
  BY <1>6 DEF rendererVars, Exclusive, ImageAsSized, ImageFits
<1> QED
  BY <1>1, <1>2, <1>3, <1>4, <1>5, <1>6 DEF RendererNext, OnFrame

(* The invariant holds throughout. *)
THEOREM RendererInvariance == RendererSpec => []RInv
BY RendererInitInv, RendererNextInv, PTL DEF RendererSpec

(* The mutexes, the sizes and the buffers keep their types. *)
THEOREM RendererTypeCorrect == RendererSpec => []RendererTypeOK
BY RendererInvariance, PTL DEF RInv

(* Every conversion fits the image it writes into.                          *)
THEOREM ConversionInBounds == RendererSpec => []ImageFits
BY RendererInvariance, PTL DEF RInv
==========================================================================
