----------------------------- MODULE VideoPath -----------------------------
(***************************************************************************)
(* The video path of the application, from the camera to the display:      *)
(*                                                                         *)
(*   camera interrupt -> thread flag -> interrupt thread -> event queue    *)
(*     -> VStreamVideoSource -> AppDisplay (VStreamVideoSink) -> LCD       *)
(*     -> the block is released -> the next capture is started             *)
(*                                                                         *)
(* Nothing but this loop starts a capture.  The drivers are VStreamVideoIn *)
(* and Lcd; the event queue is its abstract specification, PriorityFifo,   *)
(* which the module EventQueue is shown to implement.                      *)
(***************************************************************************)
EXTENDS VStreamVideoIn, Lcd, Sequences, FiniteSets

CONSTANTS
  NbPriorities,    \* priorities of the event queue
  Capacity,        \* the most events a priority holds
  OtherPriorities, \* the priorities at which other nodes send events
  NoMsg            \* the event thread serves nothing

\* kDo for the video source; any other event; the values of held.
KDo == [node |-> "videoSource", priority |-> NbPriorities - 1]
Other(p) == [node |-> "other", priority |-> p]
Events == {KDo} \cup {Other(p) : p \in OtherPriorities}
Nothing == -1

ASSUME PathAssumption ==
  /\ NbPriorities \in Nat \ {0}
  /\ Capacity \in Nat \ {0}
  /\ OtherPriorities \subseteq 0 .. NbPriorities - 1
  /\ NoMsg \notin Events
  /\ DrawnFrames = Frames

VARIABLES
  running,   \* osKernelStart has been called
  video_src, \* the pointer of the interrupt thread is set
  vflag,     \* VIDEO_SRC_EVT is set on the interrupt thread
  pcI,       \* the interrupt thread: "wait" or "push"
  pcE,       \* the event thread, and app_main before the kernel runs
  held,      \* currentCameraFrame: the block it is in, or Nothing
  evq,       \* the events that wait, by priority
  serving    \* the event being handled

path  == <<running, video_src>>
waits == <<evq, serving>>
vars  == <<videoIn, videoOut, path, vflag, pcI, pcE, held, waits>>

Queue == INSTANCE PriorityFifo WITH Message <- Events, q <- evq, phase <- "open"

Init ==
  /\ VideoInInit
  /\ LcdInit
  /\ running = FALSE
  /\ video_src = FALSE
  /\ vflag = FALSE
  /\ pcI = "wait"
  /\ pcE = "construct"
  /\ held = Nothing
  /\ Queue!Init

Goto(from, to) == pcE = from /\ pcE' = to

(***************************************************************************)
(* app_main: the constructor of VStreamVideoSource starts the first        *)
(* capture; AppDisplay::init draws and shows a first image (the steps of   *)
(* the display below); the kernel starts.                                  *)
(***************************************************************************)
Construct ==
  /\ Goto("construct", "draw")
  /\ Start
  /\ UNCHANGED <<videoOut, path, vflag, pcI, held, waits>>

SetVideoSrc ==
  /\ Goto("publish", "boot")
  /\ video_src' = TRUE
  /\ UNCHANGED <<videoIn, videoOut, running, vflag, pcI, held, waits>>

KernelStart ==
  /\ Goto("boot", "idle")
  /\ running' = TRUE
  /\ UNCHANGED <<videoIn, videoOut, video_src, vflag, pcI, held, waits>>

(***************************************************************************)
(* Interrupts.                                                             *)
(***************************************************************************)

\* CameraInterrupt with a bug: every event is announced as data.
CameraInterrupt_AnyEvent(ev) ==
  /\ Interrupt(ev)
  /\ vflag' = (vflag \/ Reported(ev) # {})
  /\ UNCHANGED <<videoOut, path, pcI, pcE, held, waits>>

\* The camera interrupt and VideoSrc_Event_Callback: nothing is done about
\* the end of the stream, and the data that came with it is not announced.
CameraInterrupt(ev) ==
  /\ Interrupt(ev)
  /\ vflag' = (vflag \/ ("DATA" \in Reported(ev) /\ "EOS" \notin Reported(ev)))
  /\ UNCHANGED <<videoOut, path, pcI, pcE, held, waits>>

LcdInterrupt ==
  /\ Scanline0 \/ DsiError
  /\ UNCHANGED <<videoIn, path, vflag, pcI, pcE, held, waits>>

(***************************************************************************)
(* interrupt_thread.                                                       *)
(***************************************************************************)

Wake ==
  /\ running
  /\ pcI = "wait"
  /\ vflag
  /\ vflag' = FALSE
  /\ pcI' = IF video_src THEN "push" ELSE "wait"
  /\ UNCHANGED <<videoIn, videoOut, path, pcE, held, waits>>

\* A kDo for which the queue has no room is lost.
PushKDo ==
  /\ pcI = "push"
  /\ pcI' = "wait"
  /\ \/ Queue!Enqueue(KDo)
     \/ Len(evq[KDo.priority]) >= Capacity /\ UNCHANGED waits
  /\ UNCHANGED <<videoIn, videoOut, path, vflag, pcE, held>>

\* Other nodes of the graph send their events.
OtherPush ==
  /\ running
  /\ \E p \in OtherPriorities : Queue!Enqueue(Other(p))
  /\ UNCHANGED <<videoIn, videoOut, path, vflag, pcI, pcE, held>>

(***************************************************************************)
(* The event thread.                                                       *)
(***************************************************************************)

TakeEvent ==
  /\ running
  /\ Goto("idle", "serve")
  /\ \E p \in 0 .. NbPriorities - 1 : Queue!Dequeue(p)
  /\ UNCHANGED <<videoIn, videoOut, path, vflag, pcI, held>>

Serve(node) == pcE = "serve" /\ serving # NoMsg /\ serving.node = node

\* A spectrogram is stored; it is drawn with the next camera frame.
ServeOther ==
  /\ Serve("other")
  /\ Goto("serve", "idle")
  /\ Queue!Release
  /\ UNCHANGED <<videoIn, videoOut, path, vflag, pcI, held>>

\* VStreamVideoSource::processEvent with a bug: the block goes back to the
\* driver before the display has drawn it.
SourceEvent_EarlyRelease ==
  /\ Serve("videoSource")
  /\ Goto("serve", "draw")
  /\ CanGet
  /\ held' = hVideoIn.idx_get
  /\ hVideoIn' = [hVideoIn EXCEPT !.idx_get = Following(@), !.idx_rel = Following(@),
                                  !.active = TRUE, !.flags = SingleFlags \ {"BUF_FULL"}]
  /\ cpi' = [cpi EXCEPT !.mode = "frame", !.block = hVideoIn.idx_in, !.vsync = FALSE]
  /\ UNCHANGED <<content, videoOut, path, vflag, pcI, waits>>

\* VStreamVideoSource::processEvent with a bug: the block that is lent next
\* time is handed to the display.
SourceEvent_NextBlock ==
  /\ Serve("videoSource")
  /\ CanGet
  /\ GetBlock
  /\ held' = Following(hVideoIn.idx_get)
  /\ pcE' = "draw"
  /\ UNCHANGED <<videoOut, path, vflag, pcI, waits>>

\* VStreamVideoSource::processEvent: the frame is handed to the display
\* synchronously, or there is no block and the event ends.
SourceEvent ==
  /\ Serve("videoSource")
  /\ IF CanGet
       THEN /\ GetBlock
            /\ held' = hVideoIn.idx_get
            /\ pcE' = "draw"
            /\ UNCHANGED waits
       ELSE /\ Queue!Release
            /\ pcE' = "idle"
            /\ UNCHANGED <<videoIn, held>>
  /\ UNCHANGED <<videoOut, path, vflag, pcI>>

(***************************************************************************)
(* VStreamVideoSink::renderNewFrame, and init when the kernel does not run *)
(* yet.  Only one thread draws, so inRender is always found false.         *)
(***************************************************************************)

DrawBegin ==
  /\ Goto("draw", "drawing")
  /\ BeginDraw
  /\ UNCHANGED <<videoIn, path, vflag, pcI, held, waits>>

\* What the frame copied from the block shows.
HeldFrame ==
  IF held = Nothing THEN Background
  ELSE IF content[held] = Torn THEN Partial ELSE content[held]

DrawEnd ==
  /\ Goto("drawing", IF running THEN "wait_lcd" ELSE "switch")
  /\ EndDraw(HeldFrame)
  /\ UNCHANGED <<videoIn, path, vflag, pcI, held, waits>>

\* The loop that waits until the last image has been taken by the display.
WaitLcd ==
  /\ Goto("wait_lcd", "switch")
  /\ ~hVideoOut.active
  /\ UNCHANGED <<videoIn, videoOut, path, vflag, pcI, held, waits>>

Switch ==
  /\ Goto("switch", "show")
  /\ SwitchBuffers
  /\ UNCHANGED <<videoIn, path, vflag, pcI, held, waits>>

Show ==
  /\ Goto("show", "update")
  /\ ShowBegin
  /\ UNCHANGED <<videoIn, path, vflag, pcI, held, waits>>

Update ==
  /\ Goto("update", IF running THEN "release" ELSE "publish")
  /\ ShowUpdate \/ ShowFails \/ ShowStartFails
  /\ UNCHANGED <<videoIn, path, vflag, pcI, held, waits>>

(***************************************************************************)
(* release_video_frame, called when currentCameraFrame is reset.           *)
(***************************************************************************)

Release ==
  /\ Goto("release", IF CanRelease THEN "wait_camera" ELSE "idle")
  /\ IF CanRelease
       THEN ReleaseBlock /\ UNCHANGED waits
       ELSE Queue!Release /\ UNCHANGED videoIn \* refused: nothing is restarted
  /\ held' = Nothing
  /\ UNCHANGED <<videoOut, path, vflag, pcI>>

\* One turn of the loop that waits until no capture is active.
WaitCamera ==
  /\ Goto("wait_camera", IF hVideoIn.active THEN "wait_camera" ELSE "restart")
  /\ GetStatus
  /\ UNCHANGED <<videoOut, path, vflag, pcI, held, waits>>

\* The next capture, and the end of the event.
Restart ==
  /\ Goto("restart", "idle")
  /\ Start
  /\ Queue!Release
  /\ UNCHANGED <<videoOut, path, vflag, pcI, held>>

(***************************************************************************)
(* Specification.                                                          *)
(***************************************************************************)

Boot == Construct \/ SetVideoSrc \/ KernelStart

Render == DrawBegin \/ DrawEnd \/ WaitLcd \/ Switch \/ Show \/ Update

EventThread ==
  TakeEvent \/ ServeOther \/ SourceEvent \/ Render \/ Release \/ WaitCamera \/ Restart

Next ==
  \/ Boot
  \/ \E ev \in SUBSET {"VSYNC", "STOPPED", "ERROR"} : CameraInterrupt(ev)
  \/ LcdInterrupt
  \/ Wake
  \/ PushKDo
  \/ OtherPush
  \/ EventThread

Spec == Init /\ [][Next]_vars

(***************************************************************************)
(* Threads that can run do, a capture ends, and the display reaches its    *)
(* next frame.                                                             *)
(***************************************************************************)
CaptureEnds ==
  \E ev \in SUBSET {"VSYNC", "STOPPED", "ERROR"} : "STOPPED" \in ev /\ CameraInterrupt(ev)

Fairness ==
  /\ WF_vars(Boot)
  /\ WF_vars(CaptureEnds)
  /\ WF_vars(Scanline0 /\ LcdInterrupt)
  /\ WF_vars(Wake \/ PushKDo)
  /\ WF_vars(EventThread)

FairSpec == Spec /\ Fairness

(***************************************************************************)
(* Properties.                                                             *)
(***************************************************************************)

\* Type correctness of the drivers, the flags, the threads and the queue.
TypeOK ==
  /\ VideoInTypeOK
  /\ LcdTypeOK
  /\ running \in BOOLEAN
  /\ video_src \in BOOLEAN
  /\ vflag \in BOOLEAN
  /\ pcI \in {"wait", "push"}
  /\ pcE \in {"construct", "publish", "boot", "idle", "serve", "draw", "drawing",
              "wait_lcd", "switch", "show", "update", "release", "wait_camera", "restart"}
  /\ held \in Blocks \cup {Nothing}
  /\ evq \in [0 .. NbPriorities - 1 -> Seq(Events)]
  /\ \A p \in 0 .. NbPriorities - 1 : Len(evq[p]) <= Capacity
  /\ serving \in Events \cup {NoMsg}

\* The kDo events that wait in the queue.
WaitingKDo == {i \in 1 .. Len(evq[KDo.priority]) : evq[KDo.priority][i] = KDo}

\* The places where the one frame can be: about to be captured for the first
\* time, in the camera, signalled, about to be pushed, in the event thread.
Places ==
  {place \in {"construct", "camera", "flag", "interrupt", "event"} :
     \/ place = "construct" /\ pcE = "construct"
     \/ place = "camera" /\ cpi.mode # "off"
     \/ place = "flag" /\ vflag
     \/ place = "interrupt" /\ pcI = "push"
     \/ place = "event" /\ serving = KDo}

\* A thread flag counts to one, a kDo can find its ring full and a frame can be
\* lost by an error; there is never more than one frame on its way round the
\* loop, so no DATA event is ever merged with another one in the flag.
OneFrameInFlight == Cardinality(Places) + Cardinality(WaitingKDo) <= 1

\* The event thread reads and writes the flags of the camera handle without
\* masking interrupts.  It only does so while no interrupt of the camera can
\* come: from GetBlock up to the call that starts the next capture.
HandleExclusive ==
  serving = KDo => cpi.mode = "off" /\ ~hVideoIn.active

\* The image the display takes next is one that has been drawn completely,
\* from one whole camera frame: the camera never writes into the block that is
\* being drawn, and drawing never goes on in the image from one frame of the
\* display to its next one.  Within one frame it may: the loop draws before it
\* waits (WaitLcd), in the image that is still scanned.
NextImageWhole == cdc.on => image[cdc.next] # Partial

\* Every frame that is drawn is the one captured after the last one drawn:
\* none is drawn twice and none is skipped, whatever fails.
FramesInOrder ==
  [][DrawEnd /\ running => HeldFrame = NextFrame(image[hVideoOut.idx_current])]_vars

\* Without camera errors every frame number is drawn and given to the display
\* again and again, although the display may refuse addresses and report
\* errors.  The loop ends in one place only: the controller is off and, as
\* FLAGS_START is set, never started again (its first start failed, or a DSI
\* error stopped it), and renderNewFrame waits for it for ever.
EveryFrameRendered ==
  \/ \A f \in Frames : []<>(pcE = "update" /\ image[hVideoOut.idx_current] = f)
  \/ <>[](pcE = "wait_lcd" /\ hVideoOut.started /\ ~cdc.on)
=============================================================================
