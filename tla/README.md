# Verification of video-chat

TLA+ modules, TLC runs and TLAPS proofs for *video-chat*, a Qt client that signs
in to an HTTP peer server, lists the other clients and prepares a WebRTC
connection with the local camera. The repository is mostly vendored WebRTC,
abseil, OpenSSL and libyuv; its own program is about 1 500 lines of C++ in
`src/*.cpp` and `src/peer_connection/`. The project models that program, and of
the vendored code the classes whose protocol the program depends on: the message
loop of `rtc::Thread`, the V4L2 capture thread, the video broadcaster and adapter,
and of `PeerConnection` the calls and callbacks the program uses. Nearly all of the
repository's lines are vendored code the program never calls or calls without
depending on its order; the share of lines the modules cover is small for that reason,
while of the program's own sources every function that changes state is modelled.

To repeat a check: `tlc -config <run>.cfg <module>` for a run of the table below,
`tlapm <module>` for a module with proofs.

## 1. Inventory

| Part | State it keeps | Operations | What makes it correct |
|---|---|---|---|
| **VideoChat** dialog (`video_chat.cpp`) | two sockets, `username`, `my_id`, `peers`, the list view, three flags | the login click, double click on a peer, the `connected`/`readyRead`/`disconnected` slots of both sockets, the destructor | requests carry the id the server assigned; one session; `peers` tells the truth; the long poll is kept up |
| **Peer server** (external) | registrations | answers `/sign_in` and `/wait`, hangs up | – (environment) |
| **Backend** (`backend.cpp`) | three `rtc::Thread`s, factory, peer connection, camera | constructor, `initLocalInfo`, destructor | no call to a thread that is gone; the camera stays open exactly while there is a sender for it; closing ends |
| **rtc::Thread** (`rtc_base/thread.cc`, `message_queue.cc`, `api/proxy.cc`) | `stop_`, `sendlist_`, `msgq_`, the socket server's event | `Send`, `Post`, the loop, `Stop`, the destructor | no lost wake-up, no lost call, nothing runs after `Stop`, calls return |
| **Capture pipeline** (`peer_connection/{capturetracksource,vcmcapturer,video_capturer}`, V4L2 module, broadcaster, adapter) | the device, the capture thread, three locks, the wants of the sinks | `Create`, `Init`, `AddOrUpdateSink`, `RemoveSink`, `OnFrame`, `Destroy` | no frame to a destroyed sink; frames fit what sinks want; `Destroy` returns with the thread gone |
| **VideoRenderer** (`peer_connection/video_renderer.cpp`) | `image_`, `width_`, `height_`, two mutexes | `OnFrame`, `setSize` | the conversion stays inside the image; `OnFrame` returns |
| **VideoAdapter** (`media/base/video_adapter.cc`) | the request of the sinks, the next frame's target time | `AdaptFrameResolution`, `OnResolutionFramerateRequest` | frames fit, do not vanish and keep the rate; neither a jump of the clock nor the target of an older rate makes it drop frames for as long as two intervals |
| **MyWidget** and the observers (`mywidget.cpp`, `my*observer.cpp`), with the session description factory and `PeerConnection` below | factory, connection, text fields; certificate state, waiting requests, signaling state, descriptions, channels, transports | start, answer, remote ICE, the queued signals, the destructor; `CreateOffer`, `SetLocalDescription`, `SetRemoteDescription`, `AddIceCandidate`, gathering | every offer is settled; the offer is never lost; candidates are signalled after the success and checked where they belong |

**Interactions.** The dialog owns the Backend and runs in the GUI thread. The login
click dials the control socket and then calls `initLocalInfo`, whether or not the
dial succeeded. `connected()` is emitted inside `waitForConnected()`, so a
`connected` slot runs within the handler that dialled. Backend's calls on the
factory and on the connection go through proxies: they are posted to the signaling
thread, which sends to the worker and the network thread, and the caller blocks.
The camera is opened by the GUI thread, delivers frames on a thread of its own, and
its sinks are added and removed on the worker thread. `VideoRenderer` is one such
sink; its creation is commented out in `backend.cpp:69`, and it is modelled as the
code stands. `MyWidget`, the older window, is compiled and `main.cpp` includes its header,
but `main.cpp` creates only `VideoChat`: nothing of it runs in the program as built, and
it is modelled on its own.

**Hard behaviours.** A response read in fragments. A dial that times out and the
retry after it. A close at any moment: before the sign-in answer, during a call,
while WebRTC generates a certificate in the background. A sink destroyed while a
frame is being broadcast. `StopCapture` joining a thread that delivers under two
locks. A wake-up between the loop's look at its queues and its wait. A mutex that
an early return leaves locked. The answer to the sign-in, which arrives while the
click that asked for it is still in `initLocalInfo`. An offer asked for before, while
or after its certificate is made. Answers and candidates pasted at any moment, twice,
or half applied. `PROJECT.json` lists each of them at its line under
`hazards`, with the properties that cover it.

## 2. Modules

| Module | Models | Actions and code |
|---|---|---|
| `VideoChat` | dialog and peer server | one action per slot and click, named as in the code; `Destroy` is `~VideoChat`; `Server...` and `...Drops` are the environment |
| `VideoChatProofs` | | the inductive invariant and six theorems |
| `VideoRenderer` | renderer | `Call` (with `I420Buffer::Rotate`), `LockOnFrame`, `setSize`, `Convert`, `StreamVideo`: the steps of `OnFrame`, cut where a lock is taken or released |
| `VideoRendererProofs` | | memory safety for any number of threads |
| `FrameScaling` | the arithmetic of the adapter: `scale_pixel_count`, `roundUp`, `FindScale` (its loop is a recursive function), `ScaledSize` | no state |
| `FrameScalingProofs` | | that `FindScale`'s loop runs and ends, and what it and `ScaledSize` return, for every frame |
| `VideoAdapter` | one adapter, its frames and its requests; EXTENDS `FrameScaling` | `Drop` and `Keep` are the two ways through `AdaptFrameResolution`, with `KeepFrame`; `OnResolutionFramerateRequest`. `first`, `lastKept`, `pace`, `base`, `kept` are history variables |
| `VideoAdapterProofs` | | the inductive invariant and five theorems; EXTENDS `FrameScalingProofs` |
| `CapturePipeline` | capture thread, capturer, adapter, broadcaster; EXTENDS `VideoRenderer`, whose `OnFrame` is the step of the view, and `FrameScaling` | `ControlGoesOn` is the sequence of calls on the capturer, `CameraGoesOn` the capture thread |
| `CapturePipelineProofs` | | the inductive invariant, five safety theorems, the refinement of the renderer's specification; EXTENDS `VideoRendererProofs` and `FrameScalingProofs` |
| `RtcThread` | one `rtc::Thread`, its callers and its owner | callers: `SendBegins`, `SendQueues`, `InvokeBegins`, `PostQueues`, `WakeUp`, `Return`; loop: `ReceiveSends`, `Get`, `Dispatch`, `CheckQuitting`, `Wait`; owner: `Quit`, `QuitWakes`, `Join`, `DoDestroy` |
| `ThreadCalls` | abstract specification: what Backend expects of a thread | a call is idle, pending, executing, done |
| `RtcThreadProofs` | | the inductive invariant, four safety theorems, the refinement |
| `Backend` | Backend with its three threads at the level of `ThreadCalls` | one action per step of the constructor, of `initLocalInfo`, of the destructor and of the certificate task; `refs` has the holders of references to the camera's source, its track and the track's sender, and `Release` lets an object without holders go, with the references it holds itself |
| `App` | the program: EXTENDS `VideoChat`, INSTANCE of `Backend` | `LoginClick` and `Close` are a dialog's step and the Backend's at once; the slots need the GUI thread back in its event loop; the server and the rtc threads go on meanwhile |
| `AppProofs` | | the refinements of the dialog's and of Backend's specification, Backend's inductive invariant and six theorems; EXTENDS `VideoChatProofs` |
| `OfferAnswer` | `MyWidget`, its observers, the session description factory and the connection | the slots by name, the calls they make as operators (`SetLocalDescription`, `SetRemoteDescription`, `AddIceCandidates`); `Handles(...)` are the messages of the signaling thread |
| `OfferAnswerProofs` | | the inductive invariant and four theorems |
| `MC...` | the instances for TLC | |

`PROJECT.json` maps each definition to its lines. Definitions whose comment begins
with *Mutant:* are altered forms of the definition after them, each a plausible bug;
TLC finds the property they are paired with violated when they replace it, so every
property depends on the code it is about. They occur in no specification.

**Data abstracted.** A response is a record (kind, id of the Pragma line, listing
lines); the HTTP text, JSON and the list view's layout are left out, and what
splitting and indexing do to a fragment is `Chunks`: parsed if header and at least
one whole line arrived, out of range otherwise. A cut that leaves the parser out of
range is the state `torn`; the same with a whole response would be `out_of_range`. `my_id` before its first assignment
is the value `Uninit`. Undefined behaviour ends a behaviour in a state of its own
(`phase`, `at`), of which nothing further is said. A frame is its width and height, and a timestamp in `VideoAdapter`, whose clock has few
ticks per second. In `CapturePipeline` the adapter's scaling is exact and its pacing, which
needs the clock, is a choice; `VideoAdapter` has both. Of a sink's wants
`CapturePipeline` has `max_pixel_count`; `rotation_applied`, `target_pixel_count` with its
clamp (`video_broadcaster.cc:113-121, 128-131`) and `max_framerate_fps` are left out, and
no property of it depends on them. The buffers and the descriptor that `StopCapture` leaves
after a failed STREAMON (`video_capture_linux.cc:270`), which the module's destructor
closes, are not in its state either. `OfferAnswer` knows a description
by its sections, its bundle and its candidates; what else makes one invalid or makes its
application fail is a choice. The line a candidate is copied as is modelled by what the
split at commas and quotes keeps of it (`Sent`, `SectionByIndex`). The certificate of a connection is its stage. The audio
track of `initLocalInfo` is created but never added to the connection, so it has no
state.

**Atomicity.** A Qt slot is one step, because nothing else runs in the GUI thread
meanwhile and the server cannot be seen to act in between except through the wire,
which a slot reads once; in `App` the login click is cut at the calls of `initLocalInfo`,
because the rtc threads and the server act between them. In `OfferAnswer` a slot's call on
the connection is one step of the signaling thread. The proxy posts such a call behind the
messages that are there already (`webrtc/api/proxy.cc:26`); the model lets it run at once,
so it has every order of the code and some more: the safety it shows holds for the code,
and the counterexample of `offer_candidates` needs no such order.
`SetLocalDescription` is cut between the post of the success and the start
of the gathering, and `OnStartClicked` before `CreateOffer`. The other threads are cut wherever a lock is taken or
released or a variable shared without one is read. A caller's wait in `Thread::Send`
(`thread.cc:413-440`), with its failed waits, is one step of `RtcThread`, and a failed
STREAMON is one step with the `Destroy` it leads to.

## 3. Runs

| Run | Instance | States | Shows |
|---|---|---|---|
| `videochat_safety` | 2 names, 3 ids, listings up to 2 lines, responses cut anywhere | 137 226 | all properties of the dialog, with liveness; a cut leads to undefined behaviour or to a true prefix, never to a wrong id |
| `videochat_refused` | | violation | a failed dial leaves the user "Already logged in" |
| `renderer_safety` | 2 threads, 3 sizes, 3 rotations | 7 165 | the conversion fits the image |
| `renderer_frames` | 1 thread | violation | the third frame of one size blocks |
| `capture_safety` | 2 devices, 2 encoders and the view, 3 sizes, 4 limits | 377 000 | safety of the pipeline; `Destroy` returns unless the renderer's lock was left locked |
| `adapter` | 3 frame shapes, 20 requests, timestamps 0..11 | 239 406 | scaling and pacing |
| `thread_safety` | 3 callers | 31 762 | no lost wake-up or call, refinement of `ThreadCalls`, liveness |
| `app` | the dialog with 2 names and 1 line, Backend | 100 799 | every failure and every moment of closing of both together |
| `backend_members` | Backend alone | violation | the threads are deleted before the factory |
| `backend_stops` | Backend alone | violation | the destructor may wait for ever |
| `offer_answer` | sections audio and video | 43 864 | candidates after the success, the offer kept, what is checked is described, every offer settled |
| `offer_candidates` | the same | violation | a candidate of the video section goes to the audio transport |

**Why the bounds are enough.** Two names are the user's own and another's; three
ids are the user's and two registrations that share a name, so that a later line
overwrites an earlier entry of `peers`; two lines are the smallest listing in which
names can repeat and in which a proper prefix exists. There is no bound on the
number of clicks, answers or dials: the counters `signIns` and `inits` stay finite
because the code bounds them. Two renderer threads are the smallest contention, and
the three sizes include two of the same width and one that a rotation changes. Two
devices make a failed one be followed by another. The limits 0, 8, 18 and 32 make the
adapter drop, halve, scale by 3/4 and pass a frame of 8x4 pixels. The adapter's frames
include a square and a long one, so that the denominators of the series do not divide
their sides, and its clock ends after several intervals of every rate: it can jump back
by more than the two intervals, of 4 ticks at most, that decide whether a target is given up. Two sections are
what `MyWidget` offers, and the least with a wrong one; nothing else is bounded there
but the candidates on their way, one for each section. Three callers let one send, one
post and one be in the handler while the owner stops. `Backend` has no parameters; the
dialog in `app` has a shorter listing than in its own run, because the Backend does not
see the list. What is proved (section 5) does not depend on these bounds.

**Deadlock.** Every cfg but that of the adapter, which never stops, says
`CHECK_DEADLOCK FALSE`, because the system may end: the dialog or the widget is closed,
the thread or the capturer is deleted. That nothing *else* stops is stated by the
liveness properties.

No run uses symmetry: the ids are numbers, and most runs check liveness.

## 4. Fairness

Weak fairness only, and only of what goes on by itself once begun.

- `VideoChat`: the Qt event loop delivers a pending `readyRead()`. Nobody has to
  click, the server has to answer nothing and no dial has to succeed.
- `VideoRenderer`: a thread in `OnFrame` that can go on does. Nothing is assumed of
  the order in which a `QMutex` is handed out; the liveness of the sink is checked with
  the one delivering thread that the broadcaster has.
- `CapturePipeline`: the capture thread and a call in progress on the capturer are
  scheduled by the operating system. `Destroy` and the sinks are nobody's obligation.
- `RtcThread`: the loop, each caller inside a call and the owner inside `Stop` are
  scheduled. This does not make posted calls return: `ReceiveSends` goes on as long as
  there are sends, so `PostsReturn` excepts senders that never pause.
- `Backend` and `App`: the main, network, signaling and worker threads go on, and the
  event loop, once the GUI thread is back in it, delivers a pending `readyRead()`; nobody
  has to log in or to close the dialog.
- `OfferAnswer`: the GUI thread finishes a slot and handles queued signals, the signaling
  thread its messages, the network thread the request for a certificate. Nobody has to
  click and no candidate has to be found.
- `VideoAdapter` states no liveness: its calls return by themselves.

## 5. Proofs

Checked by TLAPS, for every value of the constants that satisfies the named
assumptions. These say that the null values are not ordinary values, that ids are
positive, that frame sizes are pairs of positive numbers, that rotations are
multiples of 90, that a listing has a finite maximum (`MaxLinesAssumption`), that an
offer has at least one section (`MidsAssumption`), and that nine times the pixels of a
camera frame fit an int (`SizesAssumption`, `LimitsAssumption`: `Fraction` multiplies the
count by the square of a numerator, 1 or 3, in int arithmetic, so the code itself needs
it; 16 000 x 14 000 pixels do).

Every safety property that a passing run checks is proved, and so is every refinement.

**VideoChatProofs.** `TypeCorrect`, `RequestsIdentified`, `SingleSession`,
`PeersAreTruthful`, `StaysArmed` and `ParsersStayInRange` prove the six safety
properties of `videochat_safety`, for any names, ids and listing length, with
responses that may be cut. None of them is inductive alone. A request carries an assigned id because
`my_id` is assigned once set (`MyIdAssigned`), the data socket exists exactly when it
is set (`DataNeedsId`), and the answer on the wire carries the id given to this name
(`WireTruthful`), which in turn needs a sign-in to be asked only under a valid name
(`SignInNamed`). `SingleSession` needs that nothing was sent before the first
dial (`NothingBeforeLogin`). `ArmedUnlessCalling` needs that an outstanding wait or
unread answer is on a connected socket (`WaitNeedsData`). `IInv` is
their conjunction. The lemmas before it say what `Chunks`, `NewPeers` and `NamesOf`
return; `LargestLine` shows that the last line for a name exists.

**VideoRendererProofs.** `ConversionInBounds`: for any number of threads, sizes and
rotations, the image has exactly the shape of the frame being converted. It needs
that the thread between lock and unlock holds `mutex_onFrame` (`Exclusive`) and that
the image is always the one allocated for the current size (`ImageAsSized`).

**RtcThreadProofs.** For any set of callers: `WakeUpsNotLost`, `CallsNotLost`,
`QuietAfterStop`, and `ThreadImplementsCalls`, the refinement of `ThreadCalls`. The
invariant `TInv` says that a call is in at most one of queue, handler and ready set
(`OnePlace`), in at least one until it returns or the thread stops (`SomePlace`), who
still owes a wake-up at each place where the loop has looked (`Woken`), and how loop
and owner go together (`Phases`). `NoLostWakeUp` speaks of the sleeping loop only; it
is not inductive, because the loop may already have looked at one queue when a caller
fills it, and `Woken` covers those places. The mapping makes a call pending from the moment
it begins until its handler runs, so enqueuing, waking and the loop's looks are stutters.

**OfferAnswerProofs.** For an offer with any sections: `OfferTypeCorrect`,
`SuccessBeforeCandidates`, `OfferIsKept` and `ChecksDescribed`, the safety properties of
`offer_answer`. All of them rest on `SetLocalDescription` being called once, which no
guard in the code says: the invariant `OInv` follows the one offer on its way and says
that it is nowhere before the first click (`NotYetAsked`), then in one of the widget, the
factory's waiting requests, the signaling thread's queue and the queued signals
(`OnePlace`), and that the connection is as it was made until the offer is shown
(`Untouched`). So the outcome is posted once (`ToldOnce`) and ahead of every candidate
(`SuccessFirst`); and an answer is accepted only while the pending offer waits for it and
no candidate has been used (`OfferWaits`). The lemmas about queues (`Posted`, `Taken`,
`OrderedPosted`, `OrderedTaken`) keep sequences out of the steps.

**AppProofs.** The program is the dialog with Backend inside two of its handlers.
`AppImplementsDialog` and `AppImplementsBackend` show that a step of `App` is a step or a
stutter of each part's own specification, so what is proved of a part holds in the
program: `AppKeepsDialogSafe` takes over the invariant of `VideoChatProofs`. Backend's
own properties (`AppHangsOnlyWithoutThread`, `AppUndefinedNeedsFactory`,
`AppCameraHasSender`) need `BInv`: what the three threads are at each place of the GUI
thread (`ThreadsByPhase`), that they are started in order (`StartedInOrder`), that the
connection needs the factory (`MembersInOrder`), and who holds the camera's source, track
and sender at each place of `initLocalInfo` (`RefsByPhase`): the camera is let go by a
cascade of releases, and `CameraHasSender` says only where the cascade ends.
`BackendIsFreshAtLogin` relates the two parts: a login click is let through only while
`initLocalInfo` was never called. `AInv` is the dialog's `IInv`, `BInv` and that
property.

**FrameScalingProofs.** `FindScale`'s loop is a recursive function, which the prover does
not unfold by itself. `LoopRuns` shows that it exists and that its values are those of a
run of the loop, state by state, with an induction over the *set* of the good
iterations (`InductionUpTo`, from the least element of a set of numbers);
`LoopEnds` that 32 turns reach the target for every count that fits an int, because two
turns halve the factor. Loop invariants then hold at the end of the run. `LoopInv`: what
was found is within the limit, and its denominator is bounded, since the factor before it
was above the target. `ClosestSoFar`: none of the factors tried comes closer; it needs
that `ScaleDown` takes the series in order and leaves no factor out (`NextInSeries`), and
at the end that smaller factors leave fewer pixels (`SmallerFactor`). The results are
`FindScaleClosest` and, with what `roundUp` does to a side (`RoundUpCuts`, `SideShrinks`,
`SidesWithinCount`), `ScaledSizeInBounds`. The bound on the target in `OutputInBounds`,
16 times the ratio of the sides, is the one that comes out of this proof.

**VideoAdapterProofs.** For every camera, every request and every sequence of timestamps:
`AdapterOutputInBounds` and `AdapterClosestScale` from `FrameScalingProofs`, and the
pacing, `AdapterRateBounded` and `AdapterSinksNotStarved`. `PInv` says that the targets
since the last reset stand one interval apart (`SeriesOfTargets`), that a target is
never further from the last kept frame than the interval it was set with (`TargetNear`),
which survives a change of the rate because the interval is remembered in `pace`, and that
the first of the frames dropped in a row was early for the target and within two
intervals of it (`FirstInRange`). The target does not move while frames are dropped, so
they all lie in that range; without the range test of `KeepFrame`
(`video_adapter.cc:140`) a clock set back would drop frames until it has caught up, and
TLC shows it (`InRangeUnchecked`).

**CapturePipelineProofs.** For any devices, encoders, limits and sizes: the safety
properties of `capture_safety`. `CInv` says which locks the capture thread holds at each
of its places (`LockHolders`), when it exists (`ThreadByControl`), that the aggregate the
broadcaster computed is the one the adapter has or is about to get (`WantsPassedOn`), and
that whoever is still to be called in a broadcast is registered, hence alive
(`TodoRegistered`, `RegisteredAlive`). `SettledFrameWithinWants` also needs
`ScaledSizeInBounds`: a scaled frame is within the aggregate, and the aggregate is the
smallest of the limits (`UpdateWantsBound`). `PipelineImplementsRenderer` discharges the
environment that `VideoRenderer` assumes, so `ConversionInBounds` carries over to
`PipelineConversionInBounds`.

**Only model-checked**: the liveness properties `AnsweredWaitIsRepeated`,
`DestroyReturnsUnlessRepeated`, `StopReturns`, `SendsReturn`, `PostsReturn`,
`StopsEndUnlessCertLost`, `SignInAnswerIsRead` and `OfferSettled`, because the prover
handles neither fairness nor ENABLED. The refinements proved are of initial states and
steps; that `RtcThread` is as live as its callers need is what `SendsReturn` and
`PostsReturn` check.

## 6. Findings

1. `videochat_refused`: `InitializeConnection` leaves `control_socket` allocated when
   the dial fails (`Close()` is empty), so every further login is refused as
   "Already logged in" (`video_chat.cpp:60-61`).
2. `renderer_frames`: `setSize` returns with `mutex_setSize` locked when the size is
   unchanged (`video_renderer.cpp:17-20`). The third frame of one size blocks the
   capture thread, and with it `StopCapture`. `capture_safety` shows that nothing else does.
3. `backend_members`: the threads are declared after the factory and the connection
   (`backend.h:51-53`) and thus deleted first; the proxies' destructors then use a
   deleted thread, against `peer_connection_factory.cc:146`.
4. `backend_stops`: closing while the certificate is being handed over loses a `Send`
   from the signaling to the network thread, and the `Stop` of the signaling thread
   waits for ever, against `thread.cc:448-450`. `StopsEndUnlessCertLost` shows that
   this is the only case.

5. `offer_candidates`: of the index in a pasted candidate, which has no quotes, the split
   keeps `:N`, and `atoi` makes 0 of it (`mywidget.cpp:121`); `AddIceCandidate` describes
   the candidate by its mid and hands it to the transport of the first section, against
   `webrtc/api/jsep.h:61`. With bundling, where there is one transport, nobody notices.

Two more on which no doc or test says anything: closing the dialog before the sign-in
answer was read uses a null socket pointer (`UndefinedOnlyBeforeSignIn` says that nothing
else does), and the comment at `video_adapter.cc:71` calls 240x125 what `FindScale` makes
240x135.

## 7. Not modelled, and the plan

Not modelled, and not planned:

- `MainWindow`, `CustomSocketServer`, `CustomSocket`: commented out in
  `video_chat.pro`, never built. `WidgetStreamer` is used nowhere; the `.ui` forms
  have no behaviour.
- Of `PeerConnection`, the answering side, renegotiation, data channels, Unified Plan and
  statistics, which the program does not use, and ICE checks, DTLS, codecs and media, which
  are below the calls it makes. Of the adapter, `OnOutputFormatRequest`, which the
  capturer does not call. Of `rtc::Thread`, delayed messages, `Peek`, `Dispose` and `Clear` of one handler,
  which these calls do not use.
- abseil, OpenSSL, libyuv and the rest of WebRTC: third-party code below the interfaces
  modelled.

The order of the work was: the dialog (the program's own protocol), the renderer and
the pipeline around it, the thread all calls go through, the Backend on top of it; then
the adapter's arithmetic and pacing, the composition of dialog and Backend, and the offer
of `MyWidget`; then the proofs of every safety property. Next, in this order:

1. An abstract contract of a video source (sinks that are registered get frames, a
   removed sink gets none) that `CapturePipeline` implements, with its refinement proved.
2. The pacing of `VideoAdapter` inside `CapturePipeline`, which there is a choice: that
   a step of the capture thread is a step of the adapter.
3. Backend's calls as steps of `ThreadCalls`, one instance for each of its threads.
