-------------------------- MODULE VideoRenderer --------------------------
(* VideoRenderer of video_renderer.cpp: OnFrame, called by the threads that *)
(* deliver frames, with its two QMutexes and the image buffer it fills.     *)
(* A QMutex is not recursive: a second lock by the same thread blocks too.  *)
EXTENDS Naturals

CONSTANTS Threads,   \* the threads that deliver frames to this renderer
          Sizes,     \* the <<width, height>> of the frames delivered
          Rotations, \* the degrees by which a frame may still be turned
          Free       \* a mutex nobody holds

ASSUME SizesAssumption == Sizes \subseteq (Nat \ {0}) \X (Nat \ {0})
ASSUME RotationsAssumption == Rotations \subseteq {0, 90, 180, 270}
ASSUME FreeAssumption == Free \notin Threads

VARIABLES
    mutex_onFrame, mutex_setSize,  \* the holder
    size,      \* <<width_, height_>>
    image,     \* the <<width, height>> image_ was allocated for
    pc,        \* where each thread is
    buffer,    \* the size of the converted frame of each thread
    repeated   \* some frame had the size of the one before it

rendererVars == <<mutex_onFrame, mutex_setSize, size, image, pc, buffer, repeated>>

NoSize == <<0, 0>>

RendererInit ==
    /\ mutex_onFrame = Free /\ mutex_setSize = Free
    /\ size = NoSize /\ image = NoSize
    /\ pc = [t \in Threads |-> "idle"]
    /\ buffer = [t \in Threads |-> NoSize]
    /\ repeated = FALSE

(* Mutant: the turned frame is cropped to the part that overlaps. *)
RotateCropped(s, r) == IF r \in {90, 270} THEN <<s[1], s[2] - s[1]>> ELSE s

(* I420Buffer::Rotate *)
Rotate(s, r) == IF r \in {90, 270} THEN <<s[2], s[1]>> ELSE s

(* Mutant: only the width is compared. *)
SameWidth(s) == size[1] = s[1]

SameSize(s) == size = s

Goto(t, from, to) == pc[t] = from /\ pc' = [pc EXCEPT ![t] = to]

(* A thread calls OnFrame with a frame. *)
Call(t, s, r) ==
    /\ Goto(t, "idle", "entering")
    /\ buffer' = [buffer EXCEPT ![t] = Rotate(s, r)]
    /\ UNCHANGED <<mutex_onFrame, mutex_setSize, size, image, repeated>>

LockOnFrame(t) ==
    /\ Goto(t, "entering", "sizing")
    /\ mutex_onFrame = Free
    /\ mutex_onFrame' = t
    /\ UNCHANGED <<mutex_setSize, size, image, buffer, repeated>>

(* setSize: when the size is the same it returns with mutex_setSize locked. *)
setSize(t) ==
    /\ Goto(t, "sizing", "converting")
    /\ mutex_setSize = Free
    /\ IF SameSize(buffer[t])
       THEN /\ mutex_setSize' = t
            /\ UNCHANGED <<size, image>>
       ELSE /\ size' = buffer[t]
            /\ image' = buffer[t]
            /\ UNCHANGED mutex_setSize
    /\ repeated' = (repeated \/ size = buffer[t])
    /\ UNCHANGED <<mutex_onFrame, buffer>>

(* Mutant: mutex_onFrame is not released. *)
ConvertKeepsLock(t) ==
    /\ Goto(t, "converting", "streaming")
    /\ UNCHANGED <<mutex_onFrame, mutex_setSize, size, image, buffer, repeated>>

(* I420ToABGR fills the image, then mutex_onFrame is released. *)
Convert(t) ==
    /\ Goto(t, "converting", "streaming")
    /\ mutex_onFrame' = Free
    /\ UNCHANGED <<mutex_setSize, size, image, buffer, repeated>>

(* StreamVideo only looks at the image; then OnFrame returns. *)
StreamVideo(t) ==
    /\ Goto(t, "streaming", "idle")
    /\ UNCHANGED <<mutex_onFrame, mutex_setSize, size, image, buffer, repeated>>

OnFrame(t) == LockOnFrame(t) \/ setSize(t) \/ Convert(t) \/ StreamVideo(t)

RendererNext ==
    \E t \in Threads :
        \/ \E s \in Sizes, r \in Rotations : Call(t, s, r)
        \/ OnFrame(t)

(* A thread inside OnFrame that can go on does so; nothing is assumed of    *)
(* the order in which a QMutex is handed out.                               *)
RendererSpec ==
    /\ RendererInit /\ [][RendererNext]_rendererVars
    /\ \A t \in Threads : WF_rendererVars(OnFrame(t))

--------------------------------------------------------------------------
(* Every variable keeps its type. *)
RendererTypeOK ==
    /\ mutex_onFrame \in Threads \cup {Free}
    /\ mutex_setSize \in Threads \cup {Free}
    /\ size \in Nat \X Nat /\ image \in Nat \X Nat
    /\ pc \in [Threads -> {"idle", "entering", "sizing", "converting", "streaming"}]
    /\ buffer \in [Threads -> Nat \X Nat]
    /\ repeated \in BOOLEAN

(* I420ToABGR writes the rows of the frame into image_ with the stride      *)
(* width_ * 4: the buffer has exactly the shape of the frame that is being  *)
(* converted, whatever other threads deliver and however frames are turned. *)
ImageFits ==
    \A t \in Threads : pc[t] = "converting" => image = buffer[t] /\ size = buffer[t]

(* A sink renders every frame it is given, also three of the same size:     *)
(* media/base/video_broadcaster_unittest.cc:70 expects 3 rendered frames.   *)
EveryFrameRendered ==
    \A t \in Threads : pc[t] = "entering" ~> pc[t] = "idle"
==========================================================================
