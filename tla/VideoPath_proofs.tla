-------------------------- MODULE VideoPath_proofs --------------------------
(***************************************************************************)
(* Proofs about VideoPath, for any number of blocks and frame numbers, any *)
(* queue and any other events, with failing captures, camera errors and    *)
(* display errors: one frame at a time goes round the loop, no call meets  *)
(* the camera interrupt, and whole frames are drawn in order.              *)
(***************************************************************************)
EXTENDS VideoPath, VStreamVideoIn_proofs, FiniteSetTheorems

(***************************************************************************)
(* The inductive invariant.                                                *)
(***************************************************************************)

\* The places of app_main, before the kernel runs, and of the event thread.
PlaceInv ==
  /\ pcE \in {"construct", "publish", "boot"} => ~running
  /\ pcE \in {"idle", "serve", "wait_lcd", "release", "wait_camera", "restart"} => running
  /\ ~running => serving = NoMsg /\ pcI = "wait" /\ WaitingKDo = {} /\ held = Nothing
  /\ pcE = "construct" => cpi.mode = "off" /\ ~vflag
  /\ pcE = "idle" => serving = NoMsg
  /\ running /\ pcE \notin {"idle", "serve"} => serving = KDo

Queued == WaitingKDo # {}

\* The frame is in one place.
FlightInv ==
  /\ Capturing => ~vflag /\ pcI # "push" /\ ~Queued /\ serving # KDo
  /\ vflag => pcI # "push" /\ ~Queued /\ serving # KDo
  /\ pcI = "push" => ~Queued /\ serving # KDo
  /\ Queued => serving # KDo
  /\ \A i, j \in WaitingKDo : i = j

\* A frame has been captured and the display has not got it.
Signalled == vflag \/ pcI = "push" \/ Queued \/ (serving = KDo /\ pcE = "serve")

\* The event thread has the frame.
InHand == running /\ pcE \notin {"idle", "serve"}

\* The image that has been drawn last, and the one to draw in next.
Drawn  == image[hVideoOut.idx_current]
Canvas == image[Rendering]

\* Before a capture, and during one, there is no frame to ask for; after it
\* there is one, and it is the last one captured.
RingInv ==
  /\ pcE = "construct" \/ Capturing \/ InHand => hVideoIn.idx_in = hVideoIn.idx_get
  /\ Capturing => cpi.block = hVideoIn.idx_in
  /\ Signalled => hVideoIn.idx_in = Following(hVideoIn.idx_get)
                  /\ content[hVideoIn.idx_get] = cpi.last
  /\ InHand /\ pcE \in {"draw", "drawing"} => held # Nothing
  /\ InHand /\ held # Nothing => content[held] = cpi.last

\* The last frame captured is the one after the image the display has, or
\* that image once it is drawn.
FrameInv ==
  /\ Signalled \/ (InHand /\ pcE \in {"draw", "drawing"}) => cpi.last = NextFrame(Drawn)
  /\ InHand /\ pcE \in {"wait_lcd", "switch"} => Canvas = cpi.last
  /\ pcE = "construct" \/ Capturing
       \/ (InHand /\ pcE \in {"show", "update", "release", "wait_camera", "restart"})
     => NextFrame(cpi.last) = NextFrame(Drawn)
  /\ ~running => Drawn = Background /\ (pcE = "switch" => Canvas = Background)

\* Only the image that is being drawn is partial, and it is not shown.
ImageInv ==
  /\ Drawn # Partial
  /\ pcE # "drawing" => Canvas # Partial
  /\ cdc.on /\ pcE \notin {"show", "update"} => cdc.next = hVideoOut.idx_current

(***************************************************************************)
(* Types.  A priority only holds events of that priority.                  *)
(***************************************************************************)
Of(p) == {m \in Events : m.priority = p}

QueueType ==
  /\ evq = [p \in 0 .. NbPriorities - 1 |-> evq[p]]
  /\ \A p \in 0 .. NbPriorities - 1 : evq[p] \in Seq(Of(p)) /\ Len(evq[p]) <= Capacity
  /\ serving \in Events \cup {NoMsg}

ThreadType ==
  /\ running \in BOOLEAN
  /\ video_src \in BOOLEAN
  /\ vflag \in BOOLEAN
  /\ pcI \in {"wait", "push"}
  /\ pcE \in {"construct", "publish", "boot", "idle", "serve", "draw", "drawing",
              "wait_lcd", "switch", "show", "update", "release", "wait_camera", "restart"}
  /\ held \in Blocks \cup {Nothing}

TypeInv == VideoInTypeOK /\ LcdTypeOK /\ ThreadType /\ QueueType

USE DEF videoIn, videoOut, path, waits

(***************************************************************************)
(* Facts about the queue.                                                  *)
(***************************************************************************)

\* The events, and the priorities at which they wait.
LEMMA EventFacts ==
  /\ KDo \in Events /\ NoMsg \notin Events /\ NoMsg # KDo
  /\ KDo.node = "videoSource"
  /\ KDo.priority = NbPriorities - 1 /\ KDo.priority \in 0 .. NbPriorities - 1
  /\ \A p \in OtherPriorities :
       Other(p) \in Events /\ Other(p) # KDo /\ Other(p).node = "other"
  /\ \A m \in Events : /\ m.priority \in 0 .. NbPriorities - 1
                       /\ Queue!LevelOf(m) = m.priority
                       /\ m # KDo => m.node = "other"
<1>1. /\ KDo.node = "videoSource" /\ KDo.priority = NbPriorities - 1
      /\ \A p \in OtherPriorities : Other(p).node = "other" /\ Other(p).priority = p
  BY DEF KDo, Other
<1>2. \A m \in Events : m.priority \in 0 .. NbPriorities - 1
  BY <1>1, PathAssumption DEF Events
<1>3. \A m \in Events : Queue!LevelOf(m) = m.priority
  BY <1>2, PathAssumption DEF Queue!LevelOf
<1> QED
  BY <1>1, <1>2, <1>3, PathAssumption DEF Events

\* An event is put behind the others of its priority.
LEMMA EnqueueFacts ==
  ASSUME QueueType, NEW m \in Events, Queue!Enqueue(m)
  PROVE  /\ QueueType'
         /\ UNCHANGED serving
         /\ evq'[KDo.priority] = IF m.priority = KDo.priority
                                   THEN Append(evq[KDo.priority], m) ELSE evq[KDo.priority]
<1>1. m.priority \in 0 .. NbPriorities - 1 /\ Queue!LevelOf(m) = m.priority
  BY EventFacts
<1>2. /\ evq' = [evq EXCEPT ![m.priority] = Append(@, m)]
      /\ Len(evq[m.priority]) < Capacity
      /\ UNCHANGED serving
  BY <1>1 DEF Queue!Enqueue
<1>3. \A p \in 0 .. NbPriorities - 1 :
        evq'[p] = IF p = m.priority THEN Append(evq[p], m) ELSE evq[p]
  BY <1>1, <1>2 DEF QueueType
<1>4. ASSUME NEW p \in 0 .. NbPriorities - 1
      PROVE  evq'[p] \in Seq(Of(p)) /\ Len(evq'[p]) <= Capacity
  <2>1. evq[p] \in Seq(Of(p)) /\ Len(evq[p]) \in Nat
    BY DEF QueueType
  <2>2. CASE p = m.priority
    <3>1. m \in Of(p)
      BY <2>2 DEF Of
    <3>2. Append(evq[p], m) \in Seq(Of(p)) /\ Len(Append(evq[p], m)) = Len(evq[p]) + 1
      BY <2>1, <3>1
    <3>3. Len(evq[p]) + 1 <= Capacity
      BY <1>2, <2>1, <2>2, PathAssumption
    <3> QED
      BY <1>3, <2>2, <3>2, <3>3
  <2>3. CASE p # m.priority
    BY <1>3, <2>1, <2>3 DEF QueueType
  <2> QED
    BY <2>2, <2>3
<1> QED
  BY <1>2, <1>3, <1>4, EventFacts DEF QueueType

\* The kDo events that wait do not change with the queue left alone.
LEMMA QueueFrame ==
  ASSUME QueueType, UNCHANGED evq, serving' \in Events \cup {NoMsg}
  PROVE  QueueType' /\ WaitingKDo' = WaitingKDo
BY DEF QueueType, WaitingKDo

\* Events of other nodes leave the kDo events as they are.
LEMMA EnqueueOther ==
  ASSUME QueueType, NEW m \in Events, m # KDo, Queue!Enqueue(m)
  PROVE  WaitingKDo' = WaitingKDo
<1>1. evq[KDo.priority] \in Seq(Of(KDo.priority))
  BY EventFacts DEF QueueType
<1>2. evq'[KDo.priority] = evq[KDo.priority]
        \/ evq'[KDo.priority] = Append(evq[KDo.priority], m)
  BY EnqueueFacts
<1> QED
  BY <1>1, <1>2 DEF WaitingKDo

\* A kDo comes behind the other events.
LEMMA EnqueueKDo ==
  ASSUME QueueType, Queue!Enqueue(KDo)
  PROVE  WaitingKDo' = WaitingKDo \cup {Len(evq[KDo.priority]) + 1}
<1>1. evq[KDo.priority] \in Seq(Of(KDo.priority))
  BY EventFacts DEF QueueType
<1>2. evq'[KDo.priority] = Append(evq[KDo.priority], KDo)
  BY EnqueueFacts, EventFacts
<1> QED
  BY <1>1, <1>2 DEF WaitingKDo

\* The event taken is the first of its priority: if it is a kDo, it was the
\* first one waiting.
LEMMA DequeueFacts ==
  ASSUME QueueType, NEW p \in 0 .. NbPriorities - 1, Queue!Dequeue(p)
  PROVE  /\ QueueType'
         /\ serving = NoMsg
         /\ serving' \in Events
         /\ serving' = KDo => 1 \in WaitingKDo
         /\ \A i \in WaitingKDo' : i + 1 \in WaitingKDo \/ i \in WaitingKDo
         /\ \A i, j \in WaitingKDo' :
              i # j => \E k, l \in WaitingKDo : k # l
         /\ serving' = KDo => \A i \in WaitingKDo' : i + 1 \in WaitingKDo /\ i + 1 # 1
<1>1. /\ serving = NoMsg /\ evq[p] # <<>> /\ serving' = Head(evq[p])
      /\ evq' = [evq EXCEPT ![p] = Tail(@)]
  BY DEF Queue!Dequeue
<1>2. evq[p] \in Seq(Of(p)) /\ Len(evq[p]) \in Nat /\ Len(evq[p]) <= Capacity
  BY DEF QueueType
<1>3. /\ Head(evq[p]) \in Of(p) /\ Head(evq[p]) = evq[p][1]
      /\ Tail(evq[p]) \in Seq(Of(p))
      /\ Len(Tail(evq[p])) = Len(evq[p]) - 1
      /\ Len(evq[p]) >= 1
      /\ \A i \in 1 .. Len(evq[p]) - 1 : Tail(evq[p])[i] = evq[p][i + 1]
  BY <1>1, <1>2
<1>4. \A l \in 0 .. NbPriorities - 1 :
        evq'[l] = IF l = p THEN Tail(evq[p]) ELSE evq[l]
  BY <1>1 DEF QueueType
<1>5. ASSUME NEW l \in 0 .. NbPriorities - 1
      PROVE  evq'[l] \in Seq(Of(l)) /\ Len(evq'[l]) <= Capacity
  <2>1. CASE l = p
    <3>1. Len(evq[p]) - 1 <= Capacity
      BY <1>2, PathAssumption
    <3> QED
      BY <1>3, <1>4, <2>1, <3>1
  <2>2. CASE l # p
    BY <1>4, <2>2 DEF QueueType
  <2> QED
    BY <2>1, <2>2
<1>6. serving' \in Events
  BY <1>1, <1>3 DEF Of
<1>7. QueueType'
  BY <1>1, <1>5, <1>6 DEF QueueType
<1>8. CASE p = KDo.priority
  <2>1. WaitingKDo = {i \in 1 .. Len(evq[p]) : evq[p][i] = KDo}
    BY <1>8 DEF WaitingKDo
  <2>2. WaitingKDo' = {i \in 1 .. Len(evq[p]) - 1 : evq[p][i + 1] = KDo}
    <3>1. evq'[KDo.priority] = Tail(evq[p])
      BY <1>4, <1>8
    <3>2. WaitingKDo' = {i \in 1 .. Len(Tail(evq[p])) : Tail(evq[p])[i] = KDo}
      BY <3>1 DEF WaitingKDo
    <3> QED
      BY <1>3, <3>2
  <2>3. \A i \in WaitingKDo' : i + 1 \in WaitingKDo /\ i + 1 # 1 /\ i \in Nat
    BY <1>2, <2>1, <2>2
  <2>4. serving' = KDo => 1 \in WaitingKDo
    BY <1>1, <1>2, <1>3, <2>1
  <2>5. \A i, j \in WaitingKDo' : i # j => i + 1 # j + 1
    BY <2>3
  <2> QED
    BY <1>1, <1>6, <1>7, <2>3, <2>4, <2>5
<1>9. CASE p # KDo.priority
  <2>1. WaitingKDo' = WaitingKDo
    BY <1>4, <1>9, EventFacts DEF WaitingKDo
  <2>2. serving' # KDo
    BY <1>1, <1>3, <1>9 DEF Of
  <2> QED
    BY <1>1, <1>6, <1>7, <2>1, <2>2
<1> QED
  BY <1>8, <1>9
(***************************************************************************)
(* Type correctness.                                                       *)
(***************************************************************************)

\* A frame is not one of the other contents of an image.
LEMMA PictureFacts ==
  /\ \A f \in Frames : f # Partial /\ f # Background
  /\ NextFrame(NbFrames) = NextFrame(Background)
BY NumberFacts DEF Frames, Partial, Background

\* The display driver keeps its types.
LEMMA LcdType ==
  ASSUME LcdTypeOK,
         \/ Scanline0 \/ DsiError \/ BeginDraw \/ SwitchBuffers \/ ShowBegin
         \/ ShowUpdate \/ ShowFails \/ ShowStartFails
         \/ \E f \in Frames \cup {Background, Partial} : EndDraw(f)
  PROVE  LcdTypeOK'
<1> USE DEF LcdTypeOK, Images
<1>1. CASE Scanline0 \/ DsiError
  BY <1>1 DEF Scanline0, DsiError
<1>2. CASE BeginDraw
  BY <1>2 DEF BeginDraw, Rendering
<1>3. CASE \E f \in Frames \cup {Background, Partial} : EndDraw(f)
  BY <1>3, PathAssumption DEF EndDraw, Rendering
<1>4. CASE SwitchBuffers
  BY <1>4 DEF SwitchBuffers
<1>5. CASE ShowBegin \/ ShowFails \/ ShowStartFails
  BY <1>5 DEF ShowBegin, ShowFails, ShowStartFails
<1>6. CASE ShowUpdate
  <2>1. hVideoOut.idx_current \in Images
    OBVIOUS
  <2> QED
    BY <1>6, <2>1 DEF ShowUpdate
<1> QED
  BY <1>1, <1>2, <1>3, <1>4, <1>5, <1>6

\* What is drawn is a frame, or nothing of the camera.
LEMMA HeldFrameType ==
  ASSUME VideoInTypeOK, held \in Blocks \cup {Nothing}
  PROVE  HeldFrame \in Frames \cup {Background, Partial}
BY DEF HeldFrame, VideoInTypeOK, Blocks, Nothing

\* The types hold before the kernel runs.
LEMMA TypeInit == Init => TypeInv
<1> SUFFICES ASSUME Init PROVE TypeInv
  OBVIOUS
<1>1. VideoInTypeOK
  <2>1. hVideoIn = [active |-> FALSE, overflow |-> FALSE, eos |-> FALSE,
                    flags |-> {"BUF_EMPTY"}, idx_in |-> 0, idx_get |-> 0, idx_rel |-> 0]
        /\ {"BUF_EMPTY"} \in SUBSET Flags
    BY DEF Init, VideoInInit, Flags
  <2>2. cpi = [mode |-> "off", block |-> 0, vsync |-> FALSE, last |-> NbFrames]
        /\ content = [b \in Blocks |-> Torn]
    BY DEF Init, VideoInInit
  <2> QED
    BY <2>1, <2>2, NumberFacts DEF VideoInTypeOK
<1>2. LcdTypeOK
  BY DEF Init, LcdInit, LcdTypeOK, Images
<1>3. ThreadType
  BY DEF Init, ThreadType
<1>4. evq = [p \in 0 .. NbPriorities - 1 |-> <<>>] /\ serving = NoMsg
  BY DEF Init, Queue!Init, Queue!Levels
<1>5. QueueType
  BY <1>4, PathAssumption DEF QueueType
<1> QED
  BY <1>1, <1>2, <1>3, <1>5 DEF TypeInv

\* Every step keeps the types, whatever fails.
LEMMA TypeNext == TypeInv /\ [Next]_vars => TypeInv'
<1> SUFFICES ASSUME TypeInv, [Next]_vars PROVE TypeInv'
  OBVIOUS
<1>0. VideoInTypeOK /\ LcdTypeOK /\ ThreadType /\ QueueType
  BY DEF TypeInv
<1>1. UNCHANGED videoIn => VideoInTypeOK'
  BY <1>0 DEF VideoInTypeOK
<1>2. UNCHANGED videoOut => LcdTypeOK'
  BY <1>0 DEF LcdTypeOK
<1>3. UNCHANGED waits => QueueType'
  BY <1>0 DEF QueueType
<1>4. Queue!Release => QueueType'
  BY <1>0 DEF QueueType, Queue!Release
<1> USE DEF ThreadType, TypeInv, Goto
<1>5. CASE Boot
  BY <1>0, <1>1, <1>2, <1>3, <1>5, CallType DEF Boot, Construct, SetVideoSrc, KernelStart
<1>6. CASE \E ev \in CameraEvents : CameraInterrupt(ev)
  BY <1>0, <1>2, <1>3, <1>6, InterruptType DEF CameraInterrupt
<1>7. CASE LcdInterrupt
  BY <1>0, <1>1, <1>3, <1>7, LcdType DEF LcdInterrupt
<1>8. CASE Wake
  BY <1>0, <1>1, <1>2, <1>3, <1>8 DEF Wake
<1>9. CASE PushKDo \/ OtherPush
  BY <1>0, <1>1, <1>2, <1>3, <1>9, EnqueueFacts, EventFacts DEF PushKDo, OtherPush
<1>10. CASE TakeEvent \/ ServeOther
  BY <1>0, <1>1, <1>2, <1>4, <1>10, DequeueFacts DEF TakeEvent, ServeOther
<1>11. CASE SourceEvent
  <2>1. hVideoIn.idx_get \in Blocks
    BY <1>0 DEF VideoInTypeOK
  <2> QED
    BY <1>0, <1>1, <1>2, <1>3, <1>4, <1>11, <2>1, CallType DEF SourceEvent
<1>12. CASE Render
  <2>1. HeldFrame \in Frames \cup {Background, Partial}
    BY <1>0, HeldFrameType
  <2>2. CASE DrawBegin \/ DrawEnd
    BY <1>0, <1>1, <1>3, <2>1, <2>2, LcdType DEF DrawBegin, DrawEnd
  <2>3. CASE WaitLcd \/ Switch \/ Show \/ Update
    BY <1>0, <1>1, <1>2, <1>3, <2>3, LcdType DEF WaitLcd, Switch, Show, Update
  <2> QED
    BY <1>12, <2>2, <2>3 DEF Render
<1>13. CASE Release
  BY <1>0, <1>1, <1>2, <1>3, <1>4, <1>13, CallType DEF Release
<1>14. CASE WaitCamera \/ Restart
  BY <1>0, <1>2, <1>3, <1>4, <1>14, CallType DEF WaitCamera, Restart
<1>15. CASE UNCHANGED vars
  BY <1>0, <1>1, <1>2, <1>3, <1>15 DEF vars
<1> QED
  BY <1>5, <1>6, <1>7, <1>8, <1>9, <1>10, <1>11, <1>12, <1>13, <1>14, <1>15
  DEF Next, EventThread, CameraEvents

\* Every variable keeps its type, whatever fails and however late the camera
\* interrupt is: indices stay in the ring, and the queue in its capacity.
THEOREM TypeCorrectness == Spec => []TypeOK
<1>1. TypeInv => TypeOK
  <2> SUFFICES ASSUME TypeInv PROVE TypeOK
    OBVIOUS
  <2>1. ASSUME NEW p \in 0 .. NbPriorities - 1
        PROVE  evq[p] \in Seq(Events)
    <3>1. evq[p] \in Seq(Of(p)) /\ Of(p) \subseteq Events
      BY DEF TypeInv, QueueType, Of
    <3>2. \A S, T : S \subseteq T => Seq(S) \subseteq Seq(T)
      BY SMT
    <3> QED
      BY <3>1, <3>2
  <2> QED
    BY <2>1 DEF TypeInv, QueueType, ThreadType, TypeOK
<1> QED
  BY <1>1, TypeInit, TypeNext, PTL DEF Spec

(***************************************************************************)
(* One frame goes round the loop.                                          *)
(***************************************************************************)

Flow == PlaceInv /\ FlightInv /\ HandleInv

\* The loop is empty before the first capture.
LEMMA FlowInit == Init => Flow
<1> SUFFICES ASSUME Init PROVE Flow
  OBVIOUS
<1>1. evq = [p \in 0 .. NbPriorities - 1 |-> <<>>] /\ serving = NoMsg
  BY DEF Init, Queue!Init, Queue!Levels
<1>2. WaitingKDo = {}
  BY <1>1, EventFacts DEF WaitingKDo
<1> QED
  BY <1>1, <1>2, EventFacts
  DEF Init, VideoInInit, Flow, PlaceInv, FlightInv, HandleInv, Capturing, Queued

\* Each step moves the frame to the next place of the loop, or loses it.
LEMMA FlowNext ==
  ASSUME "late_vsync" \notin Faults, TypeInv, Flow, [Next]_vars
  PROVE  Flow'
<1>0. VideoInTypeOK /\ ThreadType /\ QueueType /\ PlaceInv /\ FlightInv /\ HandleInv
  BY DEF TypeInv, Flow
<1>1. UNCHANGED evq => WaitingKDo' = WaitingKDo
  BY DEF WaitingKDo
<1>2. Queue!Release => UNCHANGED evq /\ serving' = NoMsg /\ serving # NoMsg
  BY DEF Queue!Release
<1>3. NoMsg # KDo /\ KDo.node = "videoSource"
      /\ \A p \in OtherPriorities : Other(p) \in Events /\ Other(p) # KDo
      /\ \A m \in Events : m # KDo => m.node = "other"
  BY EventFacts
<1> USE DEF ThreadType, Flow, PlaceInv, FlightInv, HandleInv, Capturing, Queued, Goto
<1>4. CASE Boot
  <2>1. CASE Construct
    BY <1>0, <1>1, <1>3, <2>1, StartFacts DEF Construct
  <2>2. CASE SetVideoSrc \/ KernelStart
    BY <1>0, <1>1, <2>2 DEF SetVideoSrc, KernelStart
  <2> QED
    BY <1>4, <2>1, <2>2 DEF Boot
<1>5. CASE \E ev \in CameraEvents : CameraInterrupt(ev)
  <2>1. PICK ev \in CameraEvents : CameraInterrupt(ev)
    BY <1>5
  <2>2. Interrupt(ev)
    BY <2>1 DEF CameraInterrupt
  <2> QED
    BY <1>0, <1>1, <2>1, <2>2, InterruptFacts DEF CameraInterrupt
<1>6. CASE LcdInterrupt \/ UNCHANGED vars
  BY <1>0, <1>1, <1>6 DEF LcdInterrupt, vars
<1>7. CASE Wake
  BY <1>0, <1>1, <1>7 DEF Wake
<1>8. CASE PushKDo
  <2>1. CASE UNCHANGED waits
    BY <1>0, <1>1, <1>8, <2>1 DEF PushKDo
  <2>2. CASE Queue!Enqueue(KDo)
    <3>1. WaitingKDo' = {Len(evq[KDo.priority]) + 1} /\ UNCHANGED serving
      BY <1>0, <1>8, <2>2, EnqueueKDo, EnqueueFacts, EventFacts DEF PushKDo
    <3> QED
      BY <1>0, <1>8, <3>1 DEF PushKDo
  <2> QED
    BY <1>8, <2>1, <2>2 DEF PushKDo
<1>9. CASE OtherPush
  <2>1. WaitingKDo' = WaitingKDo /\ UNCHANGED serving
    BY <1>0, <1>3, <1>9, EnqueueOther, EnqueueFacts DEF OtherPush
  <2> QED
    BY <1>0, <1>9, <2>1 DEF OtherPush
<1>10. CASE TakeEvent
  <2>1. PICK p \in 0 .. NbPriorities - 1 : Queue!Dequeue(p)
    BY <1>10 DEF TakeEvent
  <2>2. /\ serving = NoMsg
        /\ serving' = KDo => Queued /\ WaitingKDo' = {}
        /\ WaitingKDo' # {} => Queued
        /\ \A i, j \in WaitingKDo' : i = j
    BY <1>0, <2>1, DequeueFacts
  <2> QED
    BY <1>0, <1>3, <1>10, <2>2 DEF TakeEvent
<1>11. CASE ServeOther
  BY <1>0, <1>1, <1>2, <1>3, <1>11 DEF ServeOther, Serve
<1>12. CASE SourceEvent
  <2>1. serving = KDo
    BY <1>0, <1>3, <1>12, EventFacts DEF SourceEvent, Serve, QueueType
  <2> QED
    BY <1>0, <1>1, <1>2, <1>3, <1>12, <2>1, BlockFacts DEF SourceEvent, Serve
<1>13. CASE Render
  <2>1. CASE DrawBegin \/ DrawEnd \/ WaitLcd
    BY <1>0, <1>1, <2>1 DEF DrawBegin, DrawEnd, WaitLcd
  <2>2. CASE Switch \/ Show \/ Update
    BY <1>0, <1>1, <2>2 DEF Switch, Show, Update
  <2> QED
    BY <1>13, <2>1, <2>2 DEF Render
<1>14. CASE Release
  BY <1>0, <1>1, <1>2, <1>3, <1>14, BlockFacts DEF Release
<1>15. CASE WaitCamera
  BY <1>0, <1>1, <1>15, BlockFacts DEF WaitCamera
<1>16. CASE Restart
  BY <1>0, <1>1, <1>2, <1>3, <1>16, StartFacts DEF Restart
<1> QED
  BY <1>4, <1>5, <1>6, <1>7, <1>8, <1>9, <1>10, <1>11, <1>12, <1>13, <1>14, <1>15, <1>16
  DEF Next, EventThread, CameraEvents

\* If the camera interrupt is served before the sensor's next frame starts,
\* the invariant holds, for any other failures.
LEMMA FlowInvariance ==
  ASSUME "late_vsync" \notin Faults
  PROVE  Spec => [](TypeInv /\ Flow)
<1>1. TypeInv /\ Flow /\ [Next]_vars => TypeInv' /\ Flow'
  BY TypeNext, FlowNext
<1> QED
  BY <1>1, TypeInit, FlowInit, PTL DEF Spec

\* There is one frame on its way at most, so the thread flag, which does not
\* count, never merges two.
THEOREM OneFrame ==
  ASSUME "late_vsync" \notin Faults
  PROVE  Spec => []OneFrameInFlight
<1>1. ASSUME TypeInv, Flow
      PROVE  OneFrameInFlight
  <2> USE DEF Flow, PlaceInv, FlightInv, HandleInv, Capturing, Queued
  <2>1. Cardinality({}) = 0
    BY FS_EmptySet
  <2>2. \A x : Cardinality({x}) = 1
    BY FS_Singleton
  <2>3. WaitingKDo = {} \/ \E i \in WaitingKDo : WaitingKDo = {i}
    BY <1>1
  <2>4. Places = {} \/ \E x \in Places : Places = {x}
    BY <1>1, EventFacts DEF Places
  <2>5. Places = {} \/ WaitingKDo = {}
    BY <1>1, EventFacts DEF Places
  <2>6. Cardinality(Places) \in {0, 1} /\ Cardinality(WaitingKDo) \in {0, 1}
        /\ (Cardinality(Places) = 0 \/ Cardinality(WaitingKDo) = 0)
    BY <2>1, <2>2, <2>3, <2>4, <2>5
  <2> QED
    BY <2>6 DEF OneFrameInFlight
<1> QED
  BY <1>1, FlowInvariance, PTL

\* The event thread calls the camera driver only when no camera interrupt can
\* come, so no read-modify-write of the handle is cut.
THEOREM HandleExclusion ==
  ASSUME "late_vsync" \notin Faults
  PROVE  Spec => []HandleExclusive
<1>1. TypeInv /\ Flow => HandleExclusive
  BY DEF Flow, FlightInv, HandleInv, Capturing, HandleExclusive
<1> QED
  BY <1>1, FlowInvariance, PTL

(***************************************************************************)
(* The frames that are drawn.                                              *)
(***************************************************************************)

\* Before the first capture nothing has been drawn.
LEMMA PictureInit == Init => RingInv /\ FrameInv /\ ImageInv
<1> SUFFICES ASSUME Init PROVE RingInv /\ FrameInv /\ ImageInv
  OBVIOUS
<1>1. evq = [p \in 0 .. NbPriorities - 1 |-> <<>>] /\ serving = NoMsg
  BY DEF Init, Queue!Init, Queue!Levels
<1>2. WaitingKDo = {}
  BY <1>1, EventFacts DEF WaitingKDo
<1>3. Drawn = Background /\ Canvas = Background /\ Background # Partial
  BY DEF Init, LcdInit, Drawn, Canvas, Rendering, Images, Background, Partial
<1>4. NextFrame(cpi.last) = NextFrame(Background)
  BY PictureFacts DEF Init, VideoInInit
<1> QED
  BY <1>1, <1>2, <1>3, <1>4, EventFacts
  DEF Init, VideoInInit, LcdInit, RingInv, FrameInv, ImageInv, Capturing, Signalled, InHand, Queued

\* What the operations of the display do to the two images.
LEMMA DrawFacts ==
  ASSUME LcdTypeOK
  PROVE  /\ (Scanline0 \/ DsiError \/ ShowBegin \/ ShowUpdate \/ ShowFails \/ ShowStartFails
                \/ UNCHANGED videoOut)
              => /\ Drawn' = Drawn /\ Canvas' = Canvas
                 /\ hVideoOut'.idx_current = hVideoOut.idx_current
         /\ BeginDraw => Drawn' = Drawn
         /\ \A f : EndDraw(f) => Drawn' = Drawn /\ Canvas' = f
         /\ SwitchBuffers => Drawn' = Canvas /\ Canvas' = Drawn
<1> USE DEF LcdTypeOK, Images, Drawn, Canvas, Rendering
<1>1. ASSUME Scanline0 \/ DsiError \/ ShowBegin \/ ShowFails \/ ShowStartFails
             \/ UNCHANGED videoOut
      PROVE  /\ Drawn' = Drawn /\ Canvas' = Canvas
             /\ hVideoOut'.idx_current = hVideoOut.idx_current
  BY <1>1 DEF Scanline0, DsiError, ShowBegin, ShowFails, ShowStartFails
<1>2. ASSUME ShowUpdate
      PROVE  /\ Drawn' = Drawn /\ Canvas' = Canvas
             /\ hVideoOut'.idx_current = hVideoOut.idx_current
  BY <1>2 DEF ShowUpdate
<1>3. BeginDraw => Drawn' = Drawn
  BY DEF BeginDraw
<1>4. ASSUME NEW f, EndDraw(f)
      PROVE  Drawn' = Drawn /\ Canvas' = f
  BY <1>4 DEF EndDraw
<1>5. SwitchBuffers => Drawn' = Canvas /\ Canvas' = Drawn
  BY DEF SwitchBuffers
<1> QED
  BY <1>1, <1>2, <1>3, <1>4, <1>5

\* While the frame is in the event thread it is in the block the display
\* reads, otherwise in the one that is lent next.
LEMMA RingNext ==
  ASSUME "late_vsync" \notin Faults, TypeInv, Flow, RingInv, [Next]_vars
  PROVE  RingInv'
<1>0. VideoInTypeOK /\ ThreadType /\ QueueType /\ PlaceInv /\ FlightInv /\ HandleInv
  BY DEF TypeInv, Flow
<1>1. UNCHANGED evq => WaitingKDo' = WaitingKDo
  BY DEF WaitingKDo
<1>2. Queue!Release => UNCHANGED evq /\ serving' = NoMsg /\ serving # NoMsg
  BY DEF Queue!Release
<1>3. NoMsg # KDo /\ KDo.node = "videoSource"
      /\ \A p \in OtherPriorities : Other(p) \in Events /\ Other(p) # KDo
      /\ \A m \in Events : m # KDo => m.node = "other"
  BY EventFacts
<1> USE DEF ThreadType, PlaceInv, FlightInv, HandleInv, RingInv, Capturing, Queued, Signalled,
            InHand, Goto
<1>4. CASE Boot
  <2>1. CASE Construct
    BY <1>0, <1>1, <1>3, <2>1, StartFacts DEF Construct
  <2>2. CASE SetVideoSrc \/ KernelStart
    BY <1>0, <1>1, <1>3, <2>2 DEF SetVideoSrc, KernelStart
  <2> QED
    BY <1>4, <2>1, <2>2 DEF Boot
<1>5. CASE \E ev \in CameraEvents : CameraInterrupt(ev)
  <2>1. PICK ev \in CameraEvents : CameraInterrupt(ev)
    BY <1>5
  <2>2. Interrupt(ev)
    BY <2>1 DEF CameraInterrupt
  <2>3. ~Signalled /\ ~InHand
    BY <1>0, <2>2, InterruptFacts
  <2>4. CASE "STOPPED" \in ev
    BY <1>0, <1>1, <2>1, <2>2, <2>3, <2>4, InterruptFacts DEF CameraInterrupt
  <2>5. CASE "STOPPED" \notin ev
    BY <1>0, <1>1, <2>1, <2>2, <2>3, <2>5, InterruptFacts DEF CameraInterrupt
  <2> QED
    BY <2>4, <2>5
<1>6. CASE LcdInterrupt \/ UNCHANGED vars
  BY <1>0, <1>1, <1>6 DEF LcdInterrupt, vars
<1>7. CASE Wake
  BY <1>0, <1>1, <1>7 DEF Wake
<1>8. CASE PushKDo
  <2>1. UNCHANGED serving
    BY <1>0, <1>3, <1>8, EnqueueFacts, EventFacts DEF PushKDo
  <2> QED
    BY <1>0, <1>8, <2>1 DEF PushKDo
<1>9. CASE OtherPush
  <2>1. WaitingKDo' = WaitingKDo /\ UNCHANGED serving
    BY <1>0, <1>3, <1>9, EnqueueOther, EnqueueFacts DEF OtherPush
  <2> QED
    BY <1>0, <1>9, <2>1 DEF OtherPush
<1>10. CASE TakeEvent
  <2>1. PICK p \in 0 .. NbPriorities - 1 : Queue!Dequeue(p)
    BY <1>10 DEF TakeEvent
  <2>2. /\ serving = NoMsg
        /\ serving' = KDo => Queued
        /\ WaitingKDo' # {} => Queued
    BY <1>0, <2>1, DequeueFacts
  <2> QED
    BY <1>0, <1>3, <1>10, <2>2 DEF TakeEvent
<1>11. CASE ServeOther
  BY <1>0, <1>1, <1>2, <1>3, <1>11 DEF ServeOther, Serve
<1>12. CASE SourceEvent
  <2>1. serving = KDo
    BY <1>0, <1>3, <1>12, EventFacts DEF SourceEvent, Serve, QueueType
  <2>2. hVideoIn.idx_get # Nothing
    BY <1>0 DEF VideoInTypeOK, Blocks, Nothing
  <2> QED
    BY <1>0, <1>1, <1>2, <1>3, <1>12, <2>1, <2>2, BlockFacts DEF SourceEvent, Serve
<1>13. CASE Render
  <2>1. CASE DrawBegin \/ DrawEnd \/ WaitLcd
    BY <1>0, <1>1, <2>1 DEF DrawBegin, DrawEnd, WaitLcd
  <2>2. CASE Switch \/ Show \/ Update
    BY <1>0, <1>1, <2>2 DEF Switch, Show, Update
  <2> QED
    BY <1>13, <2>1, <2>2 DEF Render
<1>14. CASE Release
  BY <1>0, <1>1, <1>2, <1>3, <1>14, BlockFacts DEF Release
<1>15. CASE WaitCamera
  BY <1>0, <1>1, <1>3, <1>15, BlockFacts DEF WaitCamera
<1>16. CASE Restart
  BY <1>0, <1>1, <1>2, <1>3, <1>16, StartFacts DEF Restart
<1> QED
  BY <1>4, <1>5, <1>6, <1>7, <1>8, <1>9, <1>10, <1>11, <1>12, <1>13, <1>14, <1>15, <1>16
  DEF Next, EventThread, CameraEvents

\* What the display gets from the held block is the last frame, whole.
LEMMA HeldFacts ==
  ASSUME TypeInv, Flow, RingInv, pcE = "drawing"
  PROVE  /\ running => HeldFrame = cpi.last
         /\ ~running => HeldFrame = Background
         /\ HeldFrame # Partial
<1>1. VideoInTypeOK /\ ThreadType /\ PlaceInv
  BY DEF TypeInv, Flow
<1>2. cpi.last \in Frames /\ Background # Partial
  BY <1>1 DEF VideoInTypeOK, Background, Partial
<1>3. CASE running
  <2>1. held # Nothing /\ content[held] = cpi.last
    BY <1>3 DEF RingInv, InHand
  <2> QED
    BY <1>2, <1>3, <2>1, NumberFacts, PictureFacts DEF HeldFrame
<1>4. CASE ~running
  BY <1>1, <1>2, <1>4 DEF HeldFrame, PlaceInv
<1> QED
  BY <1>3, <1>4

\* The numbers of the last frame captured and of the last image drawn go on
\* together.
LEMMA FrameNext ==
  ASSUME "late_vsync" \notin Faults, TypeInv, Flow, RingInv, FrameInv, [Next]_vars
  PROVE  FrameInv'
<1>0. VideoInTypeOK /\ LcdTypeOK /\ ThreadType /\ QueueType /\ PlaceInv /\ FlightInv /\ HandleInv
  BY DEF TypeInv, Flow
<1>1. UNCHANGED evq => WaitingKDo' = WaitingKDo
  BY DEF WaitingKDo
<1>2. Queue!Release => UNCHANGED evq /\ serving' = NoMsg /\ serving # NoMsg
  BY DEF Queue!Release
<1>3. NoMsg # KDo /\ KDo.node = "videoSource" /\ KDo \in Events
      /\ \A p \in OtherPriorities : Other(p) \in Events /\ Other(p) # KDo
      /\ \A m \in Events : m # KDo => m.node = "other"
  BY EventFacts
<1>4. UNCHANGED videoOut => Drawn' = Drawn /\ Canvas' = Canvas
  BY <1>0, DrawFacts
<1> USE DEF ThreadType, PlaceInv, FlightInv, HandleInv, FrameInv, Capturing, Queued, Signalled,
            InHand, Goto
<1>5. CASE Boot
  <2>1. CASE Construct
    BY <1>0, <1>1, <1>3, <1>4, <2>1, StartFacts DEF Construct
  <2>2. CASE SetVideoSrc \/ KernelStart
    BY <1>0, <1>1, <1>3, <1>4, <2>2 DEF SetVideoSrc, KernelStart
  <2> QED
    BY <1>5, <2>1, <2>2 DEF Boot
<1>6. CASE \E ev \in CameraEvents : CameraInterrupt(ev)
  <2>1. PICK ev \in CameraEvents : CameraInterrupt(ev)
    BY <1>6
  <2>2. Interrupt(ev)
    BY <2>1 DEF CameraInterrupt
  <2>3. Capturing /\ ~Signalled /\ ~InHand
    BY <1>0, <2>2, InterruptFacts
  <2>4. cpi'.last = (IF "STOPPED" \in ev THEN NextFrame(cpi.last) ELSE cpi.last)
        /\ (vflag' => "STOPPED" \in ev) /\ (cpi'.mode # "off" => "STOPPED" \notin ev)
    BY <1>0, <2>1, <2>2, <2>3, InterruptFacts DEF CameraInterrupt
  <2>5. UNCHANGED <<videoOut, path, pcI, pcE, held, waits>>
    BY <2>1 DEF CameraInterrupt
  <2> QED
    BY <1>0, <1>1, <1>4, <2>3, <2>4, <2>5
<1>7. CASE LcdInterrupt
  BY <1>0, <1>1, <1>7, DrawFacts DEF LcdInterrupt
<1>8. CASE Wake \/ UNCHANGED vars
  BY <1>0, <1>1, <1>4, <1>8 DEF Wake, vars
<1>9. CASE PushKDo
  <2>1. UNCHANGED serving
    BY <1>0, <1>3, <1>9, EnqueueFacts DEF PushKDo
  <2> QED
    BY <1>0, <1>4, <1>9, <2>1 DEF PushKDo
<1>10. CASE OtherPush
  <2>1. WaitingKDo' = WaitingKDo /\ UNCHANGED serving
    BY <1>0, <1>3, <1>10, EnqueueOther, EnqueueFacts DEF OtherPush
  <2> QED
    BY <1>0, <1>4, <1>10, <2>1 DEF OtherPush
<1>11. CASE TakeEvent
  <2>1. PICK p \in 0 .. NbPriorities - 1 : Queue!Dequeue(p)
    BY <1>11 DEF TakeEvent
  <2>2. /\ serving = NoMsg
        /\ serving' = KDo => Queued
        /\ WaitingKDo' # {} => Queued
    BY <1>0, <2>1, DequeueFacts
  <2> QED
    BY <1>0, <1>3, <1>4, <1>11, <2>2 DEF TakeEvent
<1>12. CASE ServeOther
  BY <1>0, <1>1, <1>2, <1>3, <1>4, <1>12 DEF ServeOther, Serve
<1>13. CASE SourceEvent
  <2>1. serving = KDo
    BY <1>0, <1>3, <1>13, EventFacts DEF SourceEvent, Serve, QueueType
  <2> QED
    BY <1>0, <1>1, <1>2, <1>3, <1>4, <1>13, <2>1, BlockFacts DEF SourceEvent, Serve
<1>14. CASE Render
  <2>1. CASE DrawBegin
    BY <1>0, <1>1, <2>1, DrawFacts DEF DrawBegin
  <2>2. CASE DrawEnd
    <3>1. Drawn' = Drawn /\ Canvas' = HeldFrame
      BY <1>0, <2>2, DrawFacts DEF DrawEnd
    <3> QED
      BY <1>0, <1>1, <2>2, <3>1, HeldFacts DEF DrawEnd
  <2>3. CASE WaitLcd
    BY <1>0, <1>1, <1>4, <2>3 DEF WaitLcd
  <2>4. CASE Switch
    BY <1>0, <1>1, <2>4, DrawFacts DEF Switch
  <2>5. CASE Show \/ Update
    BY <1>0, <1>1, <2>5, DrawFacts DEF Show, Update
  <2> QED
    BY <1>14, <2>1, <2>2, <2>3, <2>4, <2>5 DEF Render
<1>15. CASE Release
  BY <1>0, <1>1, <1>2, <1>3, <1>4, <1>15, BlockFacts DEF Release
<1>16. CASE WaitCamera
  BY <1>0, <1>1, <1>3, <1>4, <1>16, BlockFacts DEF WaitCamera
<1>17. CASE Restart
  BY <1>0, <1>1, <1>2, <1>3, <1>4, <1>17, StartFacts DEF Restart
<1> QED
  BY <1>5, <1>6, <1>7, <1>8, <1>9, <1>10, <1>11, <1>12, <1>13, <1>14, <1>15, <1>16, <1>17
  DEF Next, EventThread, CameraEvents

\* The images, if the controller never refuses an address.
LEMMA ImageNext ==
  ASSUME "update" \notin LcdFaults, TypeInv, Flow, RingInv, ImageInv, [Next]_vars
  PROVE  ImageInv'
<1>0. LcdTypeOK /\ ThreadType
  BY DEF TypeInv
<1>1. UNCHANGED videoOut => Drawn' = Drawn /\ Canvas' = Canvas
  BY <1>0, DrawFacts
<1> USE DEF ThreadType, ImageInv, Goto
<1>2. CASE Boot \/ Wake \/ PushKDo \/ OtherPush \/ TakeEvent \/ ServeOther \/ UNCHANGED vars
  BY <1>0, <1>1, <1>2 DEF Boot, Construct, SetVideoSrc, KernelStart, Wake, PushKDo, OtherPush,
     TakeEvent, ServeOther, vars
<1>3. CASE \E ev \in CameraEvents : CameraInterrupt(ev)
  BY <1>0, <1>1, <1>3 DEF CameraInterrupt
<1>4. CASE SourceEvent \/ Release \/ WaitCamera \/ Restart
  BY <1>0, <1>1, <1>4 DEF SourceEvent, Serve, Release, WaitCamera, Restart
<1>5. CASE LcdInterrupt
  <2>1. cdc'.on => cdc.on /\ cdc'.next = cdc.next
    BY <1>0, <1>5 DEF LcdInterrupt, Scanline0, DsiError, LcdTypeOK
  <2>2. Drawn' = Drawn /\ Canvas' = Canvas /\ hVideoOut'.idx_current = hVideoOut.idx_current
    BY <1>0, <1>5, DrawFacts DEF LcdInterrupt
  <2> QED
    BY <1>0, <1>5, <2>1, <2>2 DEF LcdInterrupt
<1>6. CASE DrawBegin
  BY <1>0, <1>6, DrawFacts DEF DrawBegin, BeginDraw
<1>7. CASE DrawEnd
  <2>1. Drawn' = Drawn /\ Canvas' = HeldFrame
    BY <1>0, <1>7, DrawFacts DEF DrawEnd
  <2> QED
    BY <1>0, <1>7, <2>1, HeldFacts DEF DrawEnd, EndDraw
<1>8. CASE WaitLcd
  BY <1>0, <1>1, <1>8 DEF WaitLcd
<1>9. CASE Switch
  BY <1>0, <1>9, DrawFacts DEF Switch
<1>10. CASE Show
  BY <1>0, <1>10, DrawFacts DEF Show
<1>11. CASE Update
  <2>1. ShowUpdate \/ ShowStartFails
    BY <1>11 DEF Update, ShowFails
  <2>2. cdc'.next = hVideoOut.idx_current /\ hVideoOut'.idx_current = hVideoOut.idx_current
    <3>1. CASE ShowUpdate
      BY <1>0, <3>1 DEF ShowUpdate, LcdTypeOK
    <3>2. CASE ShowStartFails
      BY <1>0, <3>2 DEF ShowStartFails, LcdTypeOK
    <3> QED
      BY <2>1, <3>1, <3>2
  <2>3. Drawn' = Drawn /\ Canvas' = Canvas
    BY <1>0, <2>1, DrawFacts
  <2> QED
    BY <1>0, <1>11, <2>2, <2>3 DEF Update, Drawn
<1> QED
  BY <1>2, <1>3, <1>4, <1>5, <1>6, <1>7, <1>8, <1>9, <1>10, <1>11
  DEF Next, EventThread, Render, CameraEvents

\* The three invariants about frames and images.
LEMMA PictureInvariance ==
  ASSUME "late_vsync" \notin Faults
  PROVE  Spec => [](TypeInv /\ Flow /\ RingInv /\ FrameInv)
<1>1. TypeInv /\ Flow /\ RingInv /\ FrameInv /\ [Next]_vars
        => TypeInv' /\ Flow' /\ RingInv' /\ FrameInv'
  BY TypeNext, FlowNext, RingNext, FrameNext
<1>2. Init => TypeInv /\ Flow /\ RingInv /\ FrameInv
  BY TypeInit, FlowInit, PictureInit
<1> QED
  BY <1>1, <1>2, PTL DEF Spec

\* While the kernel runs, every frame drawn is the one captured after the
\* last one drawn, however captures fail and kDo events are refused.
THEOREM FramesOrdered ==
  ASSUME "late_vsync" \notin Faults
  PROVE  Spec => FramesInOrder
<1>1. TypeInv /\ Flow /\ RingInv /\ FrameInv /\ [Next]_vars
        => (DrawEnd /\ running => HeldFrame = NextFrame(image[hVideoOut.idx_current]))
  <2> SUFFICES ASSUME TypeInv, Flow, RingInv, FrameInv, DrawEnd, running
               PROVE  HeldFrame = NextFrame(Drawn)
    BY DEF Drawn
  <2>1. pcE = "drawing"
    BY DEF DrawEnd, Goto
  <2> QED
    BY <2>1, HeldFacts DEF FrameInv, InHand
<1>2. TypeInv /\ Flow /\ RingInv /\ FrameInv /\ [Next]_vars
        => [DrawEnd /\ running => HeldFrame = NextFrame(image[hVideoOut.idx_current])]_vars
  BY <1>1
<1> QED
  BY <1>2, PictureInvariance, PTL DEF Spec, FramesInOrder

\* If the controller refuses no address, the image it shows from its next
\* frame on is complete, at whatever point of renderNewFrame that comes.
THEOREM NextImagesWhole ==
  ASSUME "late_vsync" \notin Faults, "update" \notin LcdFaults
  PROVE  Spec => []NextImageWhole
<1>1. Init => ImageInv
  BY PictureInit
<1>2. TypeInv /\ Flow /\ RingInv /\ ImageInv /\ [Next]_vars => ImageInv'
  BY ImageNext
<1>3. TypeInv /\ ImageInv => NextImageWhole
  BY DEF TypeInv, LcdTypeOK, Images, ImageInv, Drawn, Canvas, Rendering, NextImageWhole
<1> QED
  BY <1>1, <1>2, <1>3, PictureInvariance, PTL DEF Spec
=============================================================================
