---------------------- MODULE CapturePipelineProofs ----------------------
(* The capture pipeline for every set of encoders, limits, devices and      *)
(* frame sizes: who is called, with which frame, and what is left when the  *)
(* capturer is destroyed.                                                   *)
EXTENDS CapturePipeline, VideoRendererProofs, FrameScalingProofs

InCaptureProcess == {"select", "adapt", "handoff", "deliver", "view"}
Broadcasting == {"deliver", "view"}

(* The capture thread holds the locks of the scopes it is in, and nobody    *)
(* else holds one over a step.                                              *)
LockHolders ==
    /\ captureCritSect = IF thread \in InCaptureProcess THEN Camera ELSE Free
    /\ apiCs = IF thread \in InCaptureProcess \ {"select"} THEN Camera ELSE Free
    /\ sinks_and_wants_lock = IF thread \in Broadcasting THEN Camera ELSE Free

(* The capture thread exists between StartCapture and the join, its device  *)
(* is closed and its callback gone before another device is tried.          *)
ThreadByControl ==
    /\ control \notin {"up", "update", "setting", "join"} => thread = "none"
    /\ control \in {"off", "open", "none", "dereg", "gone"} => ~captureStarted
    /\ control \in {"off", "open", "none", "gone"} => ~dataCallBack

(* A device is tried only if there is one. *)
DeviceInRange ==
    /\ device \in 0 .. NumDevices + 1
    /\ control = "off" => device = 0
    /\ control \notin {"off", "none"} => device \in 1 .. NumDevices

(* What the broadcaster wants, the adapter works on, or is about to. *)
WantsPassedOn ==
    /\ current_wants = UpdateWants(wants)
    /\ control = "setting" => read_wants = current_wants
    /\ control \notin {"update", "setting"} => request = current_wants

(* A broadcast calls sinks that are still registered, and a registered      *)
(* encoder exists.                                                          *)
TodoRegistered == todo \subseteq Registered /\ (todo # {} => thread \in Broadcasting)
RegisteredAlive == Registered \cap Encoders \subseteq alive

(* A frame on its way has a size a renderer can be given, and if it is      *)
(* settled no registered sink asked for less.                               *)
FrameSized == thread \in {"handoff"} \cup Broadcasting => frame \in Sizes
SettledFits == settled => \A s \in Registered : Pixels(frame) <= wants[s]

(* The capture thread is inside the renderer exactly while it delivers.     *)
ViewCalled == thread = "view" <=> pc[Camera] # "idle"

(* The inductive invariant. *)
CInv ==
    /\ TypeOK /\ RInv
    /\ LockHolders /\ ThreadByControl /\ DeviceInRange
    /\ WantsPassedOn /\ TodoRegistered /\ RegisteredAlive
    /\ FrameSized /\ SettledFits /\ ViewCalled

--------------------------------------------------------------------------
(* The aggregate of the wants.                                              *)

(* A set of limits has a smallest one. *)
LEMMA SmallestOf ==
    ASSUME NEW S, S \subseteq Nat, S # {}
    PROVE  Smallest(S) \in S /\ \A x \in S : Smallest(S) <= x
<1>1. PICK m \in S : \A x \in S : ~(<<x, m>> \in OpToRel(<, Nat))
  BY NatLessThanWellFounded, WFMin, Zenon
<1>2. ASSUME NEW x \in S PROVE m <= x
  <2>. SUFFICES ASSUME x < m PROVE FALSE
    OBVIOUS
  <2>1. <<x, m>> \in Nat \X Nat /\ <<x, m>>[1] < <<x, m>>[2]
    OBVIOUS
  <2>2. <<x, m>> \in OpToRel(<, Nat)
    BY <2>1 DEF OpToRel
  <2>. QED  BY <1>1, <2>2, Zenon
<1>3. \E n \in S : \A x \in S : n <= x
  BY <1>2
<1>. QED  BY <1>3 DEF Smallest

(* UpdateWants: a limit, and none of a registered sink is below it. *)
LEMMA UpdateWantsBound ==
    ASSUME NEW w \in [Sinks -> Limits \cup {Unregistered}]
    PROVE  /\ UpdateWants(w) \in Limits
           /\ \A s \in Sinks : w[s] # Unregistered => UpdateWants(w) <= w[s]
<1>. DEFINE L == {w[s] : s \in {t \in Sinks : w[t] # Unregistered}} \cup {NoLimit}
<1>1. L \subseteq Limits /\ L # {}
  BY LimitsAssumption
<1>2. L \subseteq Nat
  BY <1>1, LimitsAssumption
<1>3. UpdateWants(w) = Smallest(L)
  BY DEF UpdateWants
<1>4. \A s \in Sinks : w[s] # Unregistered => w[s] \in L
  OBVIOUS
<1>. HIDE DEF L
<1>5. Smallest(L) \in L /\ \A x \in L : Smallest(L) <= x
  BY <1>1, <1>2, SmallestOf
<1>. QED  BY <1>1, <1>3, <1>4, <1>5

(* Without a sink nothing is limited. *)
LEMMA NothingWanted == UpdateWants([s \in Sinks |-> Unregistered]) = NoLimit
<1>. DEFINE w == [s \in Sinks |-> Unregistered]
            L == {w[s] : s \in {t \in Sinks : w[t] # Unregistered}} \cup {NoLimit}
<1>1. L = {NoLimit}
  OBVIOUS
<1>2. Smallest({NoLimit}) \in {NoLimit}
  BY SmallestOf, LimitsAssumption
<1>. QED  BY <1>1, <1>2 DEF UpdateWants

(* The adapted frame is within the request. *)
LEMMA AdaptedFits ==
    ASSUME request \in Limits, request > 0
    PROVE  AdaptedSize \in Sizes /\ Pixels(AdaptedSize) <= request
<1>1. request \in Nat /\ request \in Limits \ {0}
  BY LimitsAssumption
<1>2. AdaptedSize \in Sizes
  BY <1>1, LimitsAssumption DEF AdaptedSize
<1>3. Full \in (Nat \ {0}) \X (Nat \ {0}) /\ FitsInt(Pixels(Full))
  BY LimitsAssumption, SizesAssumption
<1>4. Pixels(ScaledSize(Full, request, request)) <= request
  BY <1>1, <1>3, ScaledSizeInBounds
<1>. QED  BY <1>2, <1>4 DEF AdaptedSize

--------------------------------------------------------------------------
(* The renderer among the sinks.                                            *)

(* A step of the pipeline is a step of the renderer's specification: it is  *)
(* called by the one capture thread, with a frame of a known size.          *)
LEMMA StepOfRenderer == CInv /\ [Next]_vars => [RendererNext]_rendererVars
<1>. SUFFICES ASSUME CInv, [Next]_vars PROVE [RendererNext]_rendererVars
  OBVIOUS
<1>0. Camera \in Threads /\ 0 \in Rotations
  BY CameraAssumption
<1>1. CASE UNCHANGED vars
  BY <1>1 DEF vars
<1>2. CASE DeliverToView
  <2>1. frame \in Sizes
    BY <1>2 DEF DeliverToView, CInv, FrameSized, Broadcasting
  <2>2. Call(Camera, frame, 0)
    BY <1>2 DEF DeliverToView
  <2>. QED  BY <1>0, <2>1, <2>2 DEF RendererNext
<1>3. CASE ViewRuns
  BY <1>0, <1>3 DEF ViewRuns, RendererNext
<1>4. CASE ControlGoesOn
  BY <1>4 DEF ControlGoesOn, Create, InitFails, StartCapture, ReadWants,
              OnResolutionFramerateRequest, Join, CloseDevice, DeRegister
<1>5. CASE \/ EnterCaptureProcess \/ NoFrame(NextRound) \/ NoFrame("exited")
           \/ IncomingFrame \/ AdaptDrops \/ AdaptFrameResolution \/ BroadcastBegins
           \/ BroadcastEnds \/ \E s \in Encoders : DeliverToEncoder(s)
  BY <1>5 DEF EnterCaptureProcess, NoFrame, IncomingFrame, AdaptDrops, AdaptFrameResolution,
              BroadcastBegins, BroadcastEnds, DeliverToEncoder
<1>6. CASE \/ \E s \in Encoders, l \in Limits : AddOrUpdateSink(s, l)
           \/ AddOrUpdateSink(View, NoLimit)
           \/ \E s \in Encoders : RemoveSink(s)
           \/ \E s \in Sinks : DestroySink(s)
           \/ Destroy
  BY <1>6 DEF AddOrUpdateSink, RemoveSink, DestroySink, Destroy
<1>. QED  BY <1>1, <1>2, <1>3, <1>4, <1>5, <1>6 DEF Next, CameraGoesOn

--------------------------------------------------------------------------
(* The invariant, step by step.  Every lemma takes the renderer's part from *)
(* StepOfRenderer and RendererNextInv.                                      *)

(* No device is open, no sink registered. *)
LEMMA InitCInv == Init => CInv
<1>. SUFFICES ASSUME Init PROVE CInv
  OBVIOUS
<1>1. RInv
  BY RendererInitInv DEF Init
<1>2. WantsPassedOn
  BY NothingWanted DEF Init, WantsPassedOn
<1>3. TypeOK
  <2>1. NoLimit \in Limits /\ 0 \in 0 .. NumDevices + 1
    BY LimitsAssumption, DevicesAssumption
  <2>2. wants \in [Sinks -> Limits \cup {Unregistered}]
    BY DEF Init
  <2>3. {captureCritSect, apiCs, sinks_and_wants_lock} \subseteq {Free, Camera, "control"}
    BY DEF Init
  <2>4. RendererTypeOK
    BY <1>1 DEF RInv
  <2>. QED  BY <2>1, <2>2, <2>3, <2>4 DEF Init, TypeOK
<1>4. ViewCalled
  BY CameraAssumption DEF Init, RendererInit, ViewCalled
<1>. QED
  BY <1>1, <1>2, <1>3, <1>4, DevicesAssumption
  DEF Init, CInv, LockHolders, ThreadByControl, DeviceInRange, TodoRegistered,
      RegisteredAlive, FrameSized, SettledFits, Registered, InCaptureProcess, Broadcasting

(* Creating the capturer and trying the devices. *)
LEMMA TryDeviceCInv ==
    ASSUME CInv, RInv', Create \/ InitFails
    PROVE  CInv'
<1>1. /\ control \in {"off", "open"} /\ control' \in {"open", "none"}
      /\ device' \in 1 .. NumDevices + 1
      /\ control' = "open" => device' <= NumDevices
      /\ UNCHANGED <<opened, cameraVars, locks, wantsVars, frameVars, rendererVars>>
  BY DevicesAssumption DEF Create, InitFails, TryDevice, CInv, DeviceInRange
<1>2. /\ UNCHANGED <<opened, thread, stop_flag, captureStarted, dataCallBack>>
      /\ UNCHANGED <<captureCritSect, apiCs, sinks_and_wants_lock>>
      /\ UNCHANGED <<wants, current_wants, read_wants, request>>
      /\ UNCHANGED <<frame, todo, alive, settled, pc>>
  BY <1>1 DEF cameraVars, locks, wantsVars, frameVars, rendererVars
<1>. QED
  BY <1>1, <1>2, DevicesAssumption
  DEF CInv, TypeOK, RInv, LockHolders, ThreadByControl, DeviceInRange, WantsPassedOn,
      TodoRegistered, RegisteredAlive, FrameSized, SettledFits, ViewCalled, Registered

(* StartCapture, Destroy, and the rest of VcmCapturer::Destroy: the thread  *)
(* comes and goes, outside CaptureProcess.                                  *)
LEMMA StartStopCInv ==
    ASSUME CInv, RInv',
           StartCapture(TRUE) \/ StartCapture(FALSE) \/ Destroy \/ Join \/ CloseDevice
    PROVE  CInv'
<1>1. /\ UNCHANGED <<device, captureCritSect, apiCs, sinks_and_wants_lock>>
      /\ UNCHANGED <<wants, current_wants, read_wants, request>>
      /\ UNCHANGED <<frame, todo, alive, settled, pc>>
  BY DEF StartCapture, Destroy, Join, CloseDevice, locks, wantsVars, frameVars, rendererVars
<1>2. /\ control \in {"open", "up", "join", "close"} /\ control' \in {"up", "join", "close", "dereg"}
      /\ opened' \in BOOLEAN /\ stop_flag' \in BOOLEAN
      /\ captureStarted' \in BOOLEAN /\ dataCallBack' \in BOOLEAN
  BY Zenon DEF StartCapture, Destroy, Join, CloseDevice, CInv, TypeOK
<1>3. /\ \/ thread' = thread
         \/ thread \in {"none", "exited"} /\ thread' \in {"none", "loop"}
      /\ control' \notin {"up", "join"} => thread' = "none"
      /\ control' = "dereg" => ~captureStarted'
  BY DEF StartCapture, Destroy, Join, CloseDevice, CInv, ThreadByControl
<1>4. LockHolders' /\ ThreadByControl' /\ DeviceInRange' /\ WantsPassedOn'
  BY <1>1, <1>2, <1>3
  DEF CInv, TypeOK, LockHolders, ThreadByControl, DeviceInRange, WantsPassedOn,
      InCaptureProcess, Broadcasting
<1>5. TodoRegistered' /\ RegisteredAlive' /\ FrameSized' /\ SettledFits' /\ ViewCalled'
  BY <1>1, <1>3
  DEF CInv, TodoRegistered, RegisteredAlive, FrameSized, SettledFits, ViewCalled,
      Registered, Broadcasting
<1>6. TypeOK'
  BY <1>1, <1>2, <1>3, Zenon DEF CInv, TypeOK, RInv
<1>. QED  BY <1>4, <1>5, <1>6 DEF CInv

(* DeRegisterCaptureDataCallback ends Destroy, or is followed by the next   *)
(* device.                                                                  *)
LEMMA DeRegisterCInv ==
    ASSUME CInv, RInv', DeRegister
    PROVE  CInv'
<1>1. /\ control = "dereg" /\ dataCallBack' = FALSE
      /\ UNCHANGED <<opened, thread, stop_flag, captureStarted>>
      /\ UNCHANGED <<captureCritSect, apiCs, sinks_and_wants_lock>>
      /\ UNCHANGED <<wants, current_wants, read_wants, request>>
      /\ UNCHANGED <<frame, todo, alive, settled, pc>>
  BY DEF DeRegister, locks, wantsVars, frameVars, rendererVars
<1>2. /\ control' \in {"gone", "open", "none"}
      /\ device' \in 1 .. NumDevices + 1
      /\ control' # "none" => device' <= NumDevices
  BY DevicesAssumption DEF DeRegister, TryDevice, CInv, DeviceInRange
<1>3. ThreadByControl'
  BY <1>1, <1>2 DEF CInv, ThreadByControl
<1>4. DeviceInRange'
  BY <1>1, <1>2, DevicesAssumption DEF CInv, DeviceInRange
<1>5. TypeOK'
  <2>1. RendererTypeOK' /\ device' \in 0 .. NumDevices + 1
    BY <1>2, DevicesAssumption DEF RInv
  <2>. QED  BY <1>1, <1>2, <2>1 DEF CInv, TypeOK
<1>. QED
  BY <1>1, <1>2, <1>3, <1>4, <1>5
  DEF CInv, LockHolders, WantsPassedOn, TodoRegistered, RegisteredAlive, FrameSized,
      SettledFits, ViewCalled, Registered

(* A change of the wants needs the broadcaster's lock, so no broadcast is   *)
(* under way; the adapter is told in the next two steps.                    *)
LEMMA SetWantsCInv ==
    ASSUME CInv, RInv', NEW s \in Sinks, NEW l \in Limits \cup {Unregistered},
           control = "up", sinks_and_wants_lock = Free,
           SetWants(s, l), control' = "update",
           alive \subseteq alive', alive' \subseteq Sinks,
           s \in Encoders /\ l # Unregistered => s \in alive',
           UNCHANGED <<device, opened, cameraVars, locks, read_wants, request, frame, todo,
                       rendererVars>>
    PROVE  CInv'
<1>1. /\ UNCHANGED <<device, opened, thread, stop_flag, captureStarted, dataCallBack>>
      /\ UNCHANGED <<captureCritSect, apiCs, sinks_and_wants_lock>>
      /\ UNCHANGED <<read_wants, request, frame, todo, pc>>
      /\ wants' = [wants EXCEPT ![s] = l]
      /\ current_wants' = UpdateWants(wants') /\ settled' = FALSE
  BY DEF SetWants, cameraVars, locks, rendererVars
<1>2. wants' \in [Sinks -> Limits \cup {Unregistered}]
  BY <1>1 DEF CInv, TypeOK
<1>3. current_wants' \in Limits
  BY <1>1, <1>2, UpdateWantsBound
<1>4. todo = {}
  <2>1. Camera # Free
    BY CameraAssumption, FreeAssumption
  <2>. QED  BY <2>1 DEF CInv, LockHolders, TodoRegistered
<1>5. TypeOK'
  <2>1. RendererTypeOK'
    BY DEF RInv
  <2>. QED  BY <1>1, <1>2, <1>3, <2>1 DEF CInv, TypeOK
<1>6. RegisteredAlive'
  BY <1>1, <1>2 DEF CInv, TypeOK, RegisteredAlive, Registered
<1>7. WantsPassedOn'
  BY <1>1 DEF WantsPassedOn
<1>8. LockHolders' /\ ThreadByControl' /\ DeviceInRange' /\ FrameSized' /\ ViewCalled'
  BY <1>1 DEF CInv, LockHolders, ThreadByControl, DeviceInRange, FrameSized, ViewCalled
<1>9. TodoRegistered' /\ SettledFits'
  BY <1>1, <1>4 DEF TodoRegistered, SettledFits
<1>. QED  BY <1>5, <1>6, <1>7, <1>8, <1>9 DEF CInv

(* UpdateVideoAdapter passes the aggregate on. *)
LEMMA UpdateVideoAdapterCInv ==
    ASSUME CInv, RInv', ReadWants \/ OnResolutionFramerateRequest
    PROVE  CInv'
<1>1. /\ UNCHANGED <<device, opened, thread, stop_flag, captureStarted, dataCallBack>>
      /\ UNCHANGED <<captureCritSect, apiCs, sinks_and_wants_lock, wants, current_wants>>
      /\ UNCHANGED <<frame, todo, alive, settled, pc>>
  BY DEF ReadWants, OnResolutionFramerateRequest, cameraVars, locks, frameVars, rendererVars
<1>2. \/ /\ control = "update" /\ control' = "setting"
         /\ read_wants' = current_wants /\ request' = request
      \/ /\ control = "setting" /\ control' = "up"
         /\ request' = read_wants /\ read_wants' = read_wants
  BY DEF ReadWants, OnResolutionFramerateRequest
<1>. QED
  BY <1>1, <1>2
  DEF CInv, TypeOK, RInv, LockHolders, ThreadByControl, DeviceInRange, WantsPassedOn,
      TodoRegistered, RegisteredAlive, FrameSized, SettledFits, ViewCalled, Registered

(* A sink is destroyed: an encoder only after it was removed. *)
LEMMA DestroySinkCInv ==
    ASSUME CInv, RInv', NEW s \in Sinks, DestroySink(s)
    PROVE  CInv'
<1>1. /\ UNCHANGED <<control, device, opened, thread, stop_flag, captureStarted, dataCallBack>>
      /\ UNCHANGED <<captureCritSect, apiCs, sinks_and_wants_lock>>
      /\ UNCHANGED <<wants, current_wants, read_wants, request, frame, todo, settled, pc>>
      /\ alive' = alive \ {s} /\ (wants[s] = Unregistered \/ s = View)
  BY DEF DestroySink, controlVars, cameraVars, locks, wantsVars, rendererVars
<1>2. RegisteredAlive'
  BY <1>1, SinksAssumption DEF CInv, RegisteredAlive, Registered
<1>. QED
  BY <1>1, <1>2
  DEF CInv, TypeOK, RInv, LockHolders, ThreadByControl, DeviceInRange, WantsPassedOn,
      TodoRegistered, FrameSized, SettledFits, ViewCalled, Registered

(* The capture thread runs only while the capturer is up or being stopped. *)
LEMMA ThreadRuns ==
    ASSUME CInv, thread \notin {"none"}
    PROVE  control \in {"up", "update", "setting", "join"}
BY DEF CInv, TypeOK, ThreadByControl

(* CaptureProcess up to the adapter, and a frame that is not passed on: the *)
(* thread takes and releases the locks, and touches no frame.               *)
LEMMA CaptureProcessCInv ==
    ASSUME CInv, RInv',
           \/ EnterCaptureProcess \/ NoFrame(NextRound) \/ NoFrame("exited")
           \/ IncomingFrame \/ AdaptDrops
    PROVE  CInv'
<1>1. /\ UNCHANGED <<control, device, opened, stop_flag, captureStarted, dataCallBack>>
      /\ UNCHANGED <<sinks_and_wants_lock, wants, current_wants, read_wants, request>>
      /\ UNCHANGED <<frame, todo, alive, settled, pc>>
  BY DEF EnterCaptureProcess, NoFrame, IncomingFrame, AdaptDrops, controlVars, wantsVars,
         frameVars, rendererVars
<1>2. /\ thread \in {"loop", "select", "adapt"}
      /\ thread' \in {"loop", "select", "adapt", "exited"}
      /\ captureCritSect' = IF thread' \in {"select", "adapt"} THEN Camera ELSE Free
      /\ apiCs' = IF thread' = "adapt" THEN Camera ELSE Free
  BY DEF EnterCaptureProcess, NoFrame, IncomingFrame, AdaptDrops, NextRound, CInv,
         LockHolders, InCaptureProcess
<1>3. control \in {"up", "update", "setting", "join"}
  BY <1>2, ThreadRuns
<1>4. LockHolders'
  BY <1>1, <1>2 DEF CInv, LockHolders, InCaptureProcess, Broadcasting
<1>5. TypeOK'
  <2>1. RendererTypeOK'
    BY DEF RInv
  <2>. QED  BY <1>1, <1>2, <2>1 DEF CInv, TypeOK
<1>6. ThreadByControl' /\ DeviceInRange' /\ WantsPassedOn' /\ FrameSized' /\ ViewCalled'
  BY <1>1, <1>2, <1>3
  DEF CInv, ThreadByControl, DeviceInRange, WantsPassedOn, FrameSized, ViewCalled, Broadcasting
<1>7. TodoRegistered' /\ RegisteredAlive' /\ SettledFits'
  BY <1>1, <1>2
  DEF CInv, TodoRegistered, RegisteredAlive, SettledFits, Registered, Broadcasting
<1>. QED  BY <1>4, <1>5, <1>6, <1>7 DEF CInv

(* The adapter scales the frame to what it was last asked for; between the  *)
(* calls on the capturer that is the aggregate of the wants.                *)
LEMMA AdaptCInv ==
    ASSUME CInv, RInv', AdaptFrameResolution
    PROVE  CInv'
<1>1. /\ UNCHANGED <<control, device, opened, stop_flag, captureStarted, dataCallBack>>
      /\ UNCHANGED <<captureCritSect, apiCs, sinks_and_wants_lock>>
      /\ UNCHANGED <<wants, current_wants, read_wants, request>>
      /\ UNCHANGED <<todo, alive, pc>>
      /\ thread = "adapt" /\ thread' = "handoff" /\ request > 0
      /\ frame' = AdaptedSize /\ settled' = (control = "up")
  BY DEF AdaptFrameResolution, controlVars, locks, wantsVars, rendererVars
<1>2. request \in Limits /\ wants \in [Sinks -> Limits \cup {Unregistered}]
  BY DEF CInv, TypeOK
<1>3. frame' \in Sizes /\ Pixels(frame') <= request
  BY <1>1, <1>2, AdaptedFits
<1>4. SettledFits'
  <2>. SUFFICES ASSUME control = "up", NEW s \in Registered
                PROVE  Pixels(frame') <= wants[s]
    BY <1>1 DEF SettledFits, Registered
  <2>1. request = UpdateWants(wants)
    BY DEF CInv, WantsPassedOn
  <2>2. request <= wants[s]
    BY <1>2, <2>1, UpdateWantsBound DEF Registered
  <2>3. request \in Nat /\ wants[s] \in Nat /\ Pixels(frame') \in Nat
    <3>1. wants[s] \in Limits
      BY <1>2 DEF Registered
    <3>2. frame'[1] \in Nat /\ frame'[2] \in Nat
      BY <1>3, SizesAssumption
    <3>3. \A a, b \in Nat : a * b \in Nat
      OBVIOUS
    <3>4. Pixels(frame') \in Nat
      BY <3>2, <3>3 DEF Pixels
    <3>. QED  BY <1>2, <3>1, <3>4, LimitsAssumption
  <2>. QED  BY <1>3, <2>2, <2>3
<1>5. TypeOK'
  <2>1. RendererTypeOK' /\ settled' \in BOOLEAN
    BY <1>1 DEF RInv
  <2>. QED  BY <1>1, <1>3, <2>1 DEF CInv, TypeOK
<1>6. control \in {"up", "update", "setting", "join"}
  BY <1>1, ThreadRuns
<1>. QED
  BY <1>1, <1>3, <1>4, <1>5, <1>6
  DEF CInv, LockHolders, ThreadByControl, DeviceInRange, WantsPassedOn, TodoRegistered,
      RegisteredAlive, FrameSized, ViewCalled, Registered, InCaptureProcess, Broadcasting

(* The broadcast begins with the sinks registered when it takes the lock,   *)
(* calls them, and ends when none is left.                                  *)
LEMMA BroadcastCInv ==
    ASSUME CInv, RInv',
           BroadcastBegins \/ BroadcastEnds \/ \E s \in Encoders : DeliverToEncoder(s)
    PROVE  CInv'
<1>1. /\ UNCHANGED <<control, device, opened, stop_flag, captureStarted, dataCallBack>>
      /\ UNCHANGED <<wants, current_wants, read_wants, request, alive, pc>>
  BY DEF BroadcastBegins, BroadcastEnds, DeliverToEncoder, controlVars, cameraVars, wantsVars,
         rendererVars
<1>2. /\ thread \in {"handoff", "deliver"} /\ thread' \in {"deliver", "loop", "exited"}
      /\ todo' \subseteq Registered
      /\ thread' # "deliver" => todo' = {}
      /\ \/ frame' = frame /\ settled' = settled
         \/ frame' = NoSize /\ settled' = FALSE /\ thread' # "deliver"
  BY DEF BroadcastBegins, BroadcastEnds, DeliverToEncoder, cameraVars, NextRound, CInv,
         TodoRegistered
<1>3. LockHolders'
  BY DEF BroadcastBegins, BroadcastEnds, DeliverToEncoder, cameraVars, locks, NextRound,
         CInv, LockHolders, InCaptureProcess, Broadcasting
<1>4. control \in {"up", "update", "setting", "join"}
  BY <1>2, ThreadRuns
<1>5. TypeOK'
  <2>1. RendererTypeOK' /\ todo' \subseteq Sinks /\ settled' \in BOOLEAN
    BY <1>2 DEF CInv, TypeOK, RInv, Registered
  <2>2. {captureCritSect', apiCs', sinks_and_wants_lock'} \subseteq {Free, Camera, "control"}
    BY <1>3 DEF LockHolders
  <2>. QED  BY <1>1, <1>2, <2>1, <2>2 DEF CInv, TypeOK
<1>6. ThreadByControl' /\ DeviceInRange' /\ WantsPassedOn' /\ ViewCalled'
  BY <1>1, <1>2, <1>4
  DEF CInv, ThreadByControl, DeviceInRange, WantsPassedOn, ViewCalled
<1>7. FrameSized' /\ SettledFits'
  BY <1>1, <1>2 DEF CInv, FrameSized, SettledFits, Registered, Broadcasting
<1>8. TodoRegistered' /\ RegisteredAlive'
  BY <1>1, <1>2 DEF CInv, TodoRegistered, RegisteredAlive, Registered, Broadcasting
<1>. QED  BY <1>3, <1>5, <1>6, <1>7, <1>8 DEF CInv

(* The renderer is called and runs on the capture thread. *)
LEMMA ViewCInv ==
    ASSUME CInv, RInv', DeliverToView \/ ViewRuns
    PROVE  CInv'
<1>1. /\ UNCHANGED <<control, device, opened, stop_flag, captureStarted, dataCallBack>>
      /\ UNCHANGED <<captureCritSect, apiCs, sinks_and_wants_lock>>
      /\ UNCHANGED <<wants, current_wants, read_wants, request>>
      /\ UNCHANGED <<frame, alive, settled>>
  BY DEF DeliverToView, ViewRuns, controlVars, cameraVars, locks, wantsVars, frameVars
<1>2. /\ thread \in Broadcasting /\ thread' \in Broadcasting
      /\ todo' \subseteq todo
  BY DEF DeliverToView, ViewRuns, frameVars, Broadcasting
<1>3. ViewCalled'
  <2>1. CASE DeliverToView
    <3>1. pc' = [pc EXCEPT ![Camera] = "entering"] /\ thread' = "view"
      BY <2>1 DEF DeliverToView, Call, Goto
    <3>2. pc'[Camera] = "entering"
      BY <3>1, CameraAssumption DEF CInv, TypeOK, RendererTypeOK
    <3>. QED  BY <3>1, <3>2 DEF ViewCalled
  <2>2. CASE ViewRuns
    BY <2>2 DEF ViewRuns, ViewCalled
  <2>. QED  BY <2>1, <2>2
<1>4. control \in {"up", "update", "setting", "join"}
  BY <1>2, ThreadRuns DEF Broadcasting
<1>5. TypeOK'
  <2>1. RendererTypeOK'
    BY DEF RInv
  <2>. QED  BY <1>1, <1>2, <2>1 DEF CInv, TypeOK, Broadcasting
<1>6. LockHolders' /\ ThreadByControl' /\ DeviceInRange' /\ WantsPassedOn'
  BY <1>1, <1>2, <1>4
  DEF CInv, LockHolders, ThreadByControl, DeviceInRange, WantsPassedOn, InCaptureProcess,
      Broadcasting
<1>7. TodoRegistered' /\ RegisteredAlive' /\ FrameSized' /\ SettledFits'
  BY <1>1, <1>2
  DEF CInv, TodoRegistered, RegisteredAlive, FrameSized, SettledFits, Registered, Broadcasting
<1>. QED  BY <1>3, <1>5, <1>6, <1>7 DEF CInv

(* Every step of the pipeline keeps the invariant. *)
LEMMA NextCInv == CInv /\ [Next]_vars => CInv'
<1>. SUFFICES ASSUME CInv, [Next]_vars PROVE CInv'
  OBVIOUS
<1>0. RInv'
  BY StepOfRenderer, RendererNextInv DEF CInv
<1>1. CASE UNCHANGED vars
  <2>1. /\ UNCHANGED <<control, device, opened, thread, stop_flag, captureStarted>>
        /\ UNCHANGED <<dataCallBack, captureCritSect, apiCs, sinks_and_wants_lock>>
        /\ UNCHANGED <<wants, current_wants, read_wants, request>>
        /\ UNCHANGED <<frame, todo, alive, settled, pc>>
    BY <1>1 DEF vars, pipelineVars, controlVars, cameraVars, locks, wantsVars, frameVars,
                rendererVars
  <2>. QED
    BY <1>0, <2>1
    DEF CInv, TypeOK, RInv, LockHolders, ThreadByControl, DeviceInRange, WantsPassedOn,
        TodoRegistered, RegisteredAlive, FrameSized, SettledFits, ViewCalled, Registered
<1>2. CASE ControlGoesOn
  BY <1>0, <1>2, TryDeviceCInv, StartStopCInv, UpdateVideoAdapterCInv, DeRegisterCInv
  DEF ControlGoesOn
<1>3. CASE CameraGoesOn
  BY <1>0, <1>3, CaptureProcessCInv, AdaptCInv, BroadcastCInv, ViewCInv DEF CameraGoesOn
<1>4. ASSUME NEW s \in Sinks, NEW l \in Limits, AddOrUpdateSink(s, l) PROVE CInv'
  <2>1. /\ control = "up" /\ sinks_and_wants_lock = Free /\ SetWants(s, l)
        /\ control' = "update" /\ alive' = alive \cup {s}
        /\ UNCHANGED <<device, opened, cameraVars, locks, read_wants, request, frame, todo,
                       rendererVars>>
    BY <1>4 DEF AddOrUpdateSink
  <2>2. alive \subseteq alive' /\ alive' \subseteq Sinks /\ s \in alive'
    BY <2>1 DEF CInv, TypeOK
  <2>3. l \in Limits \cup {Unregistered}
    OBVIOUS
  <2>. QED  BY <1>0, <2>1, <2>2, <2>3, SetWantsCInv
<1>5. ASSUME NEW s \in Encoders, RemoveSink(s) PROVE CInv'
  <2>1. /\ control = "up" /\ sinks_and_wants_lock = Free /\ SetWants(s, Unregistered)
        /\ control' = "update" /\ alive' = alive
        /\ UNCHANGED <<device, opened, cameraVars, locks, read_wants, request, frame, todo,
                       rendererVars>>
    BY <1>5 DEF RemoveSink
  <2>2. alive \subseteq alive' /\ alive' \subseteq Sinks
    BY <2>1 DEF CInv, TypeOK
  <2>3. Unregistered \in Limits \cup {Unregistered} /\ s \in Sinks
    BY DEF Sinks
  <2>. QED  BY <1>0, <2>1, <2>2, <2>3, SetWantsCInv
<1>6. CASE \E s \in Sinks : DestroySink(s)
  BY <1>0, <1>6, DestroySinkCInv
<1>7. CASE Destroy
  BY <1>0, <1>7, StartStopCInv
<1>8. Encoders \subseteq Sinks /\ View \in Sinks /\ NoLimit \in Limits
  BY LimitsAssumption DEF Sinks
<1>. QED  BY <1>1, <1>2, <1>3, <1>4, <1>5, <1>6, <1>7, <1>8 DEF Next

(* The invariant holds throughout. *)
LEMMA PipelineInvariance == Spec => []CInv
BY InitCInv, NextCInv, PTL DEF Spec

--------------------------------------------------------------------------
(* Every variable of the pipeline keeps its type. *)
THEOREM PipelineTypeCorrect == Spec => []TypeOK
<1>1. CInv => TypeOK
  BY DEF CInv
<1>. QED  BY <1>1, PipelineInvariance, PTL

(* A broadcast that is under way never calls an encoder that was removed    *)
(* and destroyed: RemoveSink waits for the broadcaster's lock.              *)
THEOREM NoDestroyedEncoderCalled == Spec => []NoFrameToDestroyedEncoder
<1>1. CInv => NoFrameToDestroyedEncoder
  BY DEF CInv, TodoRegistered, RegisteredAlive, NoFrameToDestroyedEncoder
<1>. QED  BY <1>1, PipelineInvariance, PTL

(* Between the calls on the capturer the adapter works on the aggregate of  *)
(* the sinks' wants.                                                        *)
THEOREM AdapterIsUpToDate == Spec => []AdapterFollowsSinks
<1>1. CInv => AdapterFollowsSinks
  BY DEF CInv, WantsPassedOn, AdapterFollowsSinks
<1>. QED  BY <1>1, PipelineInvariance, PTL

(* A frame that no call on the capturer has overtaken is within the limit   *)
(* of every sink it is delivered to.                                        *)
THEOREM SettledFrameWithinWants == Spec => []FrameWithinWants
<1>1. CInv => FrameWithinWants
  BY DEF CInv, SettledFits, TodoRegistered, FrameWithinWants
<1>. QED  BY <1>1, PipelineInvariance, PTL

(* When Destroy has returned, or Create has given up, the capture thread is *)
(* gone, the device closed and the callback cleared.                        *)
THEOREM PipelineQuietAfterDestroy == Spec => []QuietAfterDestroy
<1>1. CInv => QuietAfterDestroy
  BY DEF CInv, ThreadByControl, QuietAfterDestroy
<1>. QED  BY <1>1, PipelineInvariance, PTL

(* The pipeline implements the environment that VideoRenderer's own         *)
(* specification assumes: only the capture thread calls OnFrame, one call   *)
(* at a time, with frames of known sizes.                                   *)
THEOREM PipelineImplementsRenderer == Spec => RendererInit /\ [][RendererNext]_rendererVars
<1>1. Init => RendererInit
  BY DEF Init
<1>. QED  BY <1>1, StepOfRenderer, PipelineInvariance, PTL DEF Spec

(* So the conversion of a camera frame, scaled or not, fits the image. *)
THEOREM PipelineConversionInBounds == Spec => []ImageFits
<1>1. CInv => ImageFits
  BY DEF CInv, RInv
<1>. QED  BY <1>1, PipelineInvariance, PTL
==========================================================================
