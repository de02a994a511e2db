------------------------- MODULE CapturePipeline -------------------------
(* From the camera to the sinks: the V4L2 capture thread, VcmCapturer and   *)
(* TestVideoCapturer, the VideoAdapter and the VideoBroadcaster, and a      *)
(* VideoRenderer among the sinks.  The other side is the sequence of calls  *)
(* made on the capturer: it is created on the GUI thread, sinks are added   *)
(* and removed on the worker thread only (WebRtcVideoSendStream posts there *)
(* what the encoder asks for), and the last reference destroys it, so these *)
(* calls follow one another and are the one thread "control".               *)
EXTENDS VideoRenderer, FrameScaling

CONSTANTS Camera,      \* the capture thread, the only one that delivers frames
          Encoders,    \* sinks that call RemoveSink before they are destroyed
          View,        \* the VideoRenderer, which need not be added
                       \* (backend.cpp:69 has its creation commented out)
          NumDevices,  \* video devices found
          Full,        \* the size of a camera frame
          Limits,      \* the values of max_pixel_count
          NoLimit,     \* its default, above every frame
          Unregistered \* not a sink of the broadcaster

Sinks == Encoders \cup {View}

ASSUME CameraAssumption == Threads = {Camera} /\ 0 \in Rotations
ASSUME SinksAssumption == View \notin Encoders
ASSUME DevicesAssumption == NumDevices \in Nat
ASSUME LimitsAssumption ==
    /\ Limits \subseteq Nat /\ NoLimit \in Limits /\ Unregistered \notin Limits
    /\ \A l \in Limits : l <= NoLimit
    /\ Full \in Sizes /\ Pixels(Full) <= NoLimit /\ FitsInt(Pixels(Full))
    /\ \A l \in Limits \ {0} : ScaledSize(Full, l, l) \in Sizes

VARIABLES
    control,        \* where the calls on the capturer are
    device,         \* the device VcmCapturer::Init tries
    opened,         \* Init succeeded for it
    thread,         \* where the capture thread is
    stop_flag,      \* PlatformThread: the thread is to end
    captureStarted, \* _captureStarted, with the device open and _pool mapped
    dataCallBack,   \* _dataCallBack is the capturer
    captureCritSect, apiCs, sinks_and_wants_lock,  \* held over several steps
    wants,          \* the wants of each sink of the broadcaster
    current_wants,  \* their aggregate
    read_wants,     \* UpdateVideoAdapter: the aggregate it has read
    request,        \* the adapter's resolution_request_max_pixel_count_
    frame,          \* the frame on its way
    todo,           \* the sinks the broadcast of it has still to call
    alive,          \* the sinks that exist
    settled         \* the frame was adapted to the wants the sinks still have

controlVars == <<control, device, opened>>
cameraVars == <<thread, stop_flag, captureStarted, dataCallBack>>
locks == <<captureCritSect, apiCs, sinks_and_wants_lock>>
wantsVars == <<wants, current_wants, read_wants, request>>
frameVars == <<frame, todo, alive, settled>>
pipelineVars == <<controlVars, cameraVars, locks, wantsVars, frameVars>>
vars == <<pipelineVars, rendererVars>>

Init ==
    /\ RendererInit
    /\ control = "off" /\ device = 0 /\ opened = FALSE
    /\ thread = "none" /\ stop_flag = FALSE
    /\ captureStarted = FALSE /\ dataCallBack = FALSE
    /\ captureCritSect = Free /\ apiCs = Free /\ sinks_and_wants_lock = Free
    /\ wants = [s \in Sinks |-> Unregistered]
    /\ current_wants = NoLimit /\ read_wants = NoLimit /\ request = NoLimit
    /\ frame = NoSize /\ todo = {} /\ alive = {} /\ settled = FALSE

Registered == {s \in Sinks : wants[s] # Unregistered}

--------------------------------------------------------------------------
(* CaptureTrackSource::Create and VcmCapturer::Init.                        *)

(* Mutant: one device too many is tried. *)
TryDeviceTooMany(i) ==
    /\ device' = i
    /\ control' = IF i <= NumDevices + 1 THEN "open" ELSE "none"

(* Create tries the devices in order and gives up after the last. *)
TryDevice(i) ==
    /\ device' = i
    /\ control' = IF i <= NumDevices THEN "open" ELSE "none"

Create ==
    /\ control = "off" /\ TryDevice(1)
    /\ UNCHANGED <<opened, cameraVars, locks, wantsVars, frameVars, rendererVars>>

(* The device has no name or no module, or StartCapture fails before it     *)
(* starts the capture thread: Destroy has nothing to stop.                  *)
InitFails ==
    /\ control = "open" /\ TryDevice(device + 1)
    /\ UNCHANGED <<opened, cameraVars, locks, wantsVars, frameVars, rendererVars>>

(* StartCapture starts the thread, then turns the stream on; when that      *)
(* fails, Init calls Destroy with the thread running; the call and the stop *)
(* flag it sets are one step with the failure.  What StopCapture leaves of  *)
(* a stream that was not turned on, the buffers and the descriptor (which   *)
(* the module's destructor closes), is not in the state.                    *)
StartCapture(streamOn) ==
    /\ control = "open"
    /\ dataCallBack' = TRUE
    /\ thread' = "loop"
    /\ captureStarted' = streamOn /\ opened' = streamOn
    /\ control' = IF streamOn THEN "up" ELSE "join"
    /\ stop_flag' = ~streamOn
    /\ UNCHANGED <<device, locks, wantsVars, frameVars, rendererVars>>

--------------------------------------------------------------------------
(* TestVideoCapturer::AddOrUpdateSink and RemoveSink.                       *)

Smallest(S) == CHOOSE m \in S : \A x \in S : m <= x

(* Mutant: the largest limit is kept. *)
UpdateWantsLargest(w) ==
    LET L == {w[s] : s \in {t \in Sinks : w[t] # Unregistered}} \cup {0}
    IN  CHOOSE m \in L : \A x \in L : x <= m

(* VideoBroadcaster::UpdateWants: the smallest max_pixel_count, if any.     *)
(* The other fields it aggregates are left out: rotation_applied,           *)
(* target_pixel_count with its clamp to the limit and max_framerate_fps.    *)
UpdateWants(w) ==
    Smallest({w[s] : s \in {t \in Sinks : w[t] # Unregistered}} \cup {NoLimit})

SetWants(s, l) ==
    /\ wants' = [wants EXCEPT ![s] = l]
    /\ current_wants' = UpdateWants(wants')
    /\ settled' = FALSE

AddOrUpdateSink(s, l) ==
    /\ control = "up" /\ sinks_and_wants_lock = Free
    /\ s \in alive \/ wants[s] = Unregistered
    /\ SetWants(s, l)
    /\ alive' = alive \cup {s}
    /\ control' = "update"
    /\ UNCHANGED <<device, opened, cameraVars, locks, read_wants, request,
                   frame, todo, rendererVars>>

RemoveSink(s) ==
    /\ control = "up" /\ sinks_and_wants_lock = Free
    /\ wants[s] # Unregistered
    /\ SetWants(s, Unregistered)
    /\ control' = "update"
    /\ UNCHANGED <<device, opened, cameraVars, locks, read_wants, request,
                   frame, todo, alive, rendererVars>>

(* Mutant: the adapter is asked for what it was asked before. *)
ReadWantsOld ==
    /\ control = "update" /\ sinks_and_wants_lock = Free
    /\ read_wants' = request
    /\ control' = "setting"
    /\ UNCHANGED <<device, opened, cameraVars, locks, wants, current_wants,
                   request, frameVars, rendererVars>>

(* UpdateVideoAdapter: broadcaster_.wants(), then                           *)
(* OnResolutionFramerateRequest.                                            *)
ReadWants ==
    /\ control = "update" /\ sinks_and_wants_lock = Free
    /\ read_wants' = current_wants
    /\ control' = "setting"
    /\ UNCHANGED <<device, opened, cameraVars, locks, wants, current_wants,
                   request, frameVars, rendererVars>>

OnResolutionFramerateRequest ==
    /\ control = "setting"
    /\ request' = read_wants
    /\ control' = "up"
    /\ UNCHANGED <<device, opened, cameraVars, locks, wants, current_wants,
                   read_wants, frameVars, rendererVars>>

(* An encoder is destroyed after RemoveSink; ~VideoRenderer does not call   *)
(* it and leaves its address with the broadcaster.                          *)
DestroySink(s) ==
    /\ control = "up" /\ s \in alive
    /\ wants[s] = Unregistered \/ s = View
    /\ alive' = alive \ {s}
    /\ UNCHANGED <<controlVars, cameraVars, locks, wantsVars, frame, todo,
                   settled, rendererVars>>

--------------------------------------------------------------------------
(* VcmCapturer::Destroy: StopCapture, which joins the capture thread and    *)
(* only then takes _captureCritSect, and DeRegisterCaptureDataCallback.     *)

(* Mutant: _captureCritSect is taken before the thread is joined. *)
DestroyHoldsCritSect ==
    /\ control = "up" /\ captureCritSect = Free
    /\ captureCritSect' = "control"
    /\ stop_flag' = TRUE
    /\ control' = "join"
    /\ UNCHANGED <<device, opened, thread, captureStarted, dataCallBack, apiCs,
                   sinks_and_wants_lock, wantsVars, frameVars, rendererVars>>

Destroy ==
    /\ control = "up"
    /\ stop_flag' = TRUE
    /\ control' = "join"
    /\ UNCHANGED <<device, opened, thread, captureStarted, dataCallBack, locks,
                   wantsVars, frameVars, rendererVars>>

(* Mutant: StopCapture does not wait for the thread. *)
NoJoin ==
    /\ control = "join"
    /\ control' = "close"
    /\ UNCHANGED <<device, opened, cameraVars, locks, wantsVars, frameVars,
                   rendererVars>>

Join ==
    /\ control = "join" /\ thread = "exited"
    /\ thread' = "none" /\ stop_flag' = FALSE
    /\ control' = "close"
    /\ UNCHANGED <<device, opened, captureStarted, dataCallBack, locks,
                   wantsVars, frameVars, rendererVars>>

CloseDevice ==
    /\ control = "close" /\ captureCritSect = Free
    /\ captureStarted' = FALSE
    /\ control' = "dereg"
    /\ UNCHANGED <<device, opened, thread, stop_flag, dataCallBack, locks,
                   wantsVars, frameVars, rendererVars>>

(* After a failed Init the next device is tried. *)
DeRegister ==
    /\ control = "dereg" /\ apiCs = Free
    /\ dataCallBack' = FALSE
    /\ IF opened
       THEN control' = "gone" /\ UNCHANGED device
       ELSE TryDevice(device + 1)
    /\ UNCHANGED <<opened, thread, stop_flag, captureStarted, locks, wantsVars,
                   frameVars, rendererVars>>

--------------------------------------------------------------------------
(* The capture thread.                                                      *)

(* PlatformThread::Run looks at the stop flag after each CaptureProcess. *)
NextRound == IF stop_flag THEN "exited" ELSE "loop"

EnterCaptureProcess ==
    /\ thread = "loop" /\ captureCritSect = Free
    /\ captureCritSect' = Camera
    /\ thread' = "select"
    /\ UNCHANGED <<controlVars, stop_flag, captureStarted, dataCallBack, apiCs,
                   sinks_and_wants_lock, wantsVars, frameVars, rendererVars>>

(* select times out or reports nothing, the stream is not on, or the buffer *)
(* is unusable (next is NextRound); or select fails (next is "exited").     *)
NoFrame(next) ==
    /\ thread = "select"
    /\ captureCritSect' = Free
    /\ thread' = next
    /\ UNCHANGED <<controlVars, stop_flag, captureStarted, dataCallBack, apiCs,
                   sinks_and_wants_lock, wantsVars, frameVars, rendererVars>>

(* IncomingFrame converts the buffer and delivers it under _apiCs. *)
IncomingFrame ==
    /\ thread = "select" /\ captureStarted /\ dataCallBack /\ apiCs = Free
    /\ apiCs' = Camera
    /\ thread' = "adapt"
    /\ UNCHANGED <<controlVars, stop_flag, captureStarted, dataCallBack,
                   captureCritSect, sinks_and_wants_lock, wantsVars, frameVars,
                   rendererVars>>

(* TestVideoCapturer::OnFrame: the adapter drops the frame (frame rate, or  *)
(* no pixels wanted) or scales it to the request; a frame that fits is      *)
(* passed as it is.                                                         *)
AdaptDrops ==
    /\ thread = "adapt"
    /\ apiCs' = Free /\ captureCritSect' = Free
    /\ thread' = NextRound
    /\ UNCHANGED <<controlVars, stop_flag, captureStarted, dataCallBack,
                   sinks_and_wants_lock, wantsVars, frameVars, rendererVars>>

(* Without a target_pixel_count the limit is the target; what a target does *)
(* is VideoAdapter's subject.                                              *)
AdaptedSize == ScaledSize(Full, request, request)

AdaptFrameResolution ==
    /\ thread = "adapt" /\ request > 0
    /\ frame' = AdaptedSize
    /\ settled' = (control = "up")
    /\ thread' = "handoff"
    /\ UNCHANGED <<controlVars, stop_flag, captureStarted, dataCallBack, locks,
                   wantsVars, todo, alive, rendererVars>>

(* Mutant: VideoBroadcaster::OnFrame does not take the lock. *)
BroadcastUnlocked ==
    /\ thread = "handoff"
    /\ todo' = Registered
    /\ thread' = "deliver"
    /\ UNCHANGED <<controlVars, stop_flag, captureStarted, dataCallBack, locks,
                   wantsVars, frame, alive, settled, rendererVars>>

(* VideoBroadcaster::OnFrame holds its lock while it calls the sinks. *)
BroadcastBegins ==
    /\ thread = "handoff" /\ sinks_and_wants_lock = Free
    /\ sinks_and_wants_lock' = Camera
    /\ todo' = Registered
    /\ thread' = "deliver"
    /\ UNCHANGED <<controlVars, stop_flag, captureStarted, dataCallBack,
                   captureCritSect, apiCs, wantsVars, frame, alive, settled,
                   rendererVars>>

(* An encoder queues the frame and returns. *)
DeliverToEncoder(s) ==
    /\ thread = "deliver" /\ s \in todo \cap Encoders
    /\ todo' = todo \ {s}
    /\ UNCHANGED <<controlVars, cameraVars, locks, wantsVars, frame, alive,
                   settled, rendererVars>>

DeliverToView ==
    /\ thread = "deliver" /\ View \in todo
    /\ Call(Camera, frame, 0)
    /\ thread' = "view"
    /\ UNCHANGED <<controlVars, stop_flag, captureStarted, dataCallBack, locks,
                   wantsVars, frameVars>>

ViewRuns ==
    /\ thread = "view"
    /\ OnFrame(Camera)
    /\ IF pc'[Camera] = "idle"
       THEN thread' = "deliver" /\ todo' = todo \ {View}
       ELSE UNCHANGED <<thread, todo>>
    /\ UNCHANGED <<controlVars, stop_flag, captureStarted, dataCallBack, locks,
                   wantsVars, frame, alive, settled>>

BroadcastEnds ==
    /\ thread = "deliver" /\ todo = {}
    /\ sinks_and_wants_lock' = Free /\ apiCs' = Free /\ captureCritSect' = Free
    /\ frame' = NoSize /\ settled' = FALSE
    /\ thread' = NextRound
    /\ UNCHANGED <<controlVars, stop_flag, captureStarted, dataCallBack,
                   wantsVars, todo, alive, rendererVars>>

--------------------------------------------------------------------------
ControlGoesOn ==
    \/ Create \/ InitFails \/ StartCapture(TRUE) \/ StartCapture(FALSE)
    \/ ReadWants \/ OnResolutionFramerateRequest
    \/ Join \/ CloseDevice \/ DeRegister

CameraGoesOn ==
    \/ EnterCaptureProcess
    \/ NoFrame(NextRound) \/ NoFrame("exited")
    \/ IncomingFrame
    \/ AdaptDrops \/ AdaptFrameResolution
    \/ BroadcastBegins
    \/ \E s \in Encoders : DeliverToEncoder(s)
    \/ DeliverToView \/ ViewRuns
    \/ BroadcastEnds

Next ==
    \/ ControlGoesOn
    \/ CameraGoesOn
    \/ \E s \in Encoders, l \in Limits : AddOrUpdateSink(s, l)
    \/ AddOrUpdateSink(View, NoLimit)
    \/ \E s \in Encoders : RemoveSink(s)
    \/ \E s \in Sinks : DestroySink(s)
    \/ Destroy

(* Both threads are scheduled by the operating system.  Which call is made  *)
(* next on the capturer is nobody's obligation.                             *)
Spec == Init /\ [][Next]_vars /\ WF_vars(ControlGoesOn) /\ WF_vars(CameraGoesOn)

--------------------------------------------------------------------------
(* Every variable keeps its type. *)
TypeOK ==
    /\ RendererTypeOK
    /\ control \in {"off", "open", "none", "up", "update", "setting", "join",
                    "close", "dereg", "gone"}
    /\ device \in 0 .. NumDevices + 1 /\ opened \in BOOLEAN
    /\ thread \in {"none", "loop", "select", "adapt", "handoff", "deliver",
                   "view", "exited"}
    /\ stop_flag \in BOOLEAN
    /\ captureStarted \in BOOLEAN /\ dataCallBack \in BOOLEAN
    /\ {captureCritSect, apiCs, sinks_and_wants_lock} \subseteq {Free, Camera, "control"}
    /\ wants \in [Sinks -> Limits \cup {Unregistered}]
    /\ current_wants \in Limits /\ read_wants \in Limits /\ request \in Limits
    /\ frame \in Sizes \cup {NoSize}
    /\ todo \subseteq Sinks /\ alive \subseteq Sinks
    /\ settled \in BOOLEAN

(* An encoder that called RemoveSink and was destroyed is never called by a *)
(* broadcast that is under way: RemoveSink waits for it.                    *)
NoFrameToDestroyedEncoder == todo \cap Encoders \subseteq alive

(* Between calls on the capturer the adapter works on exactly the aggregate *)
(* of what the registered sinks want: no update is lost between the         *)
(* broadcaster, which is told first, and the adapter.                       *)
AdapterFollowsSinks == control = "up" => request = UpdateWants(wants)

(* A frame adapted after a call on the capturer returned, and not overtaken *)
(* by another call, is within the limit of every sink it is delivered to.   *)
FrameWithinWants ==
    settled => \A s \in todo : Pixels(frame) <= wants[s]

(* Once Destroy has returned, or Create has given up, the capture thread is *)
(* gone and neither the device's buffers nor the capturer are used by it;   *)
(* while the device is being closed the thread is not in CaptureProcess.    *)
QuietAfterDestroy ==
    /\ control \in {"dereg", "gone", "none"} => thread = "none"
    /\ control \in {"gone", "none"} => ~dataCallBack /\ ~captureStarted

(* StopCapture returns: joining the capture thread never waits for a thread *)
(* that waits for the lock of the one that joins.  Only a VideoRenderer     *)
(* that was given two frames of one size can block it.                      *)
DestroyReturnsUnlessRepeated ==
    control = "join" ~> control \notin {"join", "close", "dereg"} \/ repeated
==========================================================================
