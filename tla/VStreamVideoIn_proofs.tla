------------------------ MODULE VStreamVideoIn_proofs ------------------------
(***************************************************************************)
(* Lemmas about the operations of the camera driver and its interrupt, for *)
(* the proofs about the two modules that use it.                           *)
(***************************************************************************)
EXTENDS VStreamVideoIn, TLAPS

USE DEF videoIn

Capturing == cpi.mode # "off"

\* The capture under way is a single one, and its first vsync the first.
HandleInv ==
  /\ cpi.mode # "video"
  /\ Capturing /\ ~cpi.vsync => "SYNC" \notin hVideoIn.flags
  /\ hVideoIn.active => Capturing

(***************************************************************************)
(* Facts about the camera driver.                                          *)
(***************************************************************************)

\* Indices stay in the ring, frame numbers in their cycle.
LEMMA NumberFacts ==
  /\ \A b \in Blocks : Following(b) \in Blocks
  /\ \A f \in Frames : NextFrame(f) \in Frames /\ f # Torn
  /\ 0 \in Blocks /\ NbFrames \in Frames
  /\ NextFrame(NbFrames) = NextFrame(0)
<1>1. \A i \in Int : i % NbBlocks \in 0 .. NbBlocks - 1 /\ i % NbFrames \in 0 .. NbFrames - 1
  BY BlocksAssumption
<1>2. NbFrames % NbFrames = 0 /\ 0 % NbFrames = 0
  BY BlocksAssumption
<1> QED
  BY <1>1, <1>2, BlocksAssumption DEF Blocks, Following, Frames, NextFrame, Torn

\* A call keeps the types of the driver.
LEMMA CallType ==
  ASSUME VideoInTypeOK, Start \/ GetBlock \/ ReleaseBlock \/ GetStatus
  PROVE  VideoInTypeOK'
<1>1. CASE Start
  BY <1>1 DEF Start, StartCapture, StartFails, StartRefused, SingleFlags, VideoInTypeOK, Flags
<1>2. CASE GetBlock
  BY <1>2, NumberFacts DEF GetBlock, VideoInTypeOK, Flags
<1>3. CASE ReleaseBlock
  BY <1>3, NumberFacts DEF ReleaseBlock, VideoInTypeOK, Flags
<1>4. CASE GetStatus
  BY <1>4 DEF GetStatus, VideoInTypeOK
<1> QED
  BY <1>1, <1>2, <1>3, <1>4

\* What Start does, in a state without a capture.
LEMMA StartFacts ==
  ASSUME VideoInTypeOK, Start
  PROVE  /\ UNCHANGED content /\ cpi'.last = cpi.last
         /\ hVideoIn'.idx_in = hVideoIn.idx_in /\ hVideoIn'.idx_get = hVideoIn.idx_get
         /\ \/ /\ cpi'.mode = "frame" /\ cpi'.block = hVideoIn.idx_in /\ ~cpi'.vsync
               /\ "SYNC" \notin hVideoIn'.flags
               /\ cpi.mode = "off"
            \/ UNCHANGED cpi /\ hVideoIn'.active = hVideoIn.active
<1>1. CASE StartCapture
  BY <1>1 DEF StartCapture, SingleFlags, VideoInTypeOK
<1>2. CASE StartFails \/ StartRefused
  BY <1>2 DEF StartFails, StartRefused, VideoInTypeOK
<1> QED
  BY <1>1, <1>2 DEF Start

\* What GetBlock, ReleaseBlock and GetStatus do.
LEMMA BlockFacts ==
  ASSUME VideoInTypeOK, GetBlock \/ ReleaseBlock \/ GetStatus
  PROVE  /\ UNCHANGED <<cpi, content>>
         /\ hVideoIn'.active = hVideoIn.active
         /\ hVideoIn'.idx_in = hVideoIn.idx_in
         /\ GetBlock => hVideoIn'.idx_get = Following(hVideoIn.idx_get)
         /\ ReleaseBlock \/ GetStatus => hVideoIn'.idx_get = hVideoIn.idx_get
<1>1. ASSUME GetBlock
      PROVE  /\ UNCHANGED <<cpi, content>>
             /\ hVideoIn'.active = hVideoIn.active
             /\ hVideoIn'.idx_in = hVideoIn.idx_in
             /\ hVideoIn'.idx_get = Following(hVideoIn.idx_get)
  BY <1>1 DEF GetBlock, VideoInTypeOK
<1>2. ASSUME ReleaseBlock \/ GetStatus
      PROVE  /\ UNCHANGED <<cpi, content>>
             /\ hVideoIn'.active = hVideoIn.active
             /\ hVideoIn'.idx_in = hVideoIn.idx_in
             /\ hVideoIn'.idx_get = hVideoIn.idx_get
  BY <1>2 DEF ReleaseBlock, GetStatus, VideoInTypeOK
<1> QED
  BY <1>1, <1>2

CameraEvents == SUBSET {"VSYNC", "STOPPED", "ERROR"}

\* The handle after the parts of the interrupt.
LEMMA AfterFacts ==
  ASSUME VideoInTypeOK, NEW ev \in CameraEvents
  PROVE  LET h == AfterEvents(ev) IN
         /\ h \in [active : BOOLEAN, overflow : BOOLEAN, eos : BOOLEAN, flags : SUBSET Flags,
                   idx_in : Blocks, idx_get : Blocks, idx_rel : Blocks]
         /\ h.idx_get = hVideoIn.idx_get /\ h.idx_rel = hVideoIn.idx_rel
         /\ "LIMIT_OWN" \in h.flags <=> "LIMIT_OWN" \in hVideoIn.flags
         /\ ~Restarts(ev) => ("BUF_FULL" \in h.flags <=>
              "BUF_FULL" \in hVideoIn.flags
                \/ ("STOPPED" \in ev /\ Following(hVideoIn.idx_in) = hVideoIn.idx_rel))
         /\ h.active => hVideoIn.active /\ "STOPPED" \notin ev /\ "ERROR" \notin ev
         /\ ~Restarts(ev) => h.idx_in = IF "STOPPED" \in ev THEN Following(hVideoIn.idx_in)
                                                            ELSE hVideoIn.idx_in
<1> DEFINE HandleType == [active : BOOLEAN, overflow : BOOLEAN, eos : BOOLEAN,
                          flags : SUBSET Flags,
                          idx_in : Blocks, idx_get : Blocks, idx_rel : Blocks]
<1>1. ASSUME NEW g \in HandleType
      PROVE  /\ OnStopped(g) \in HandleType
             /\ OnStopped(g).idx_get = g.idx_get /\ OnStopped(g).idx_rel = g.idx_rel
             /\ "LIMIT_OWN" \in OnStopped(g).flags <=> "LIMIT_OWN" \in g.flags
             /\ "BUF_FULL" \in OnStopped(g).flags <=>
                  "BUF_FULL" \in g.flags \/ Following(g.idx_in) = g.idx_rel
             /\ ~OnStopped(g).active
             /\ OnStopped(g).idx_in = Following(g.idx_in)
             /\ "SYNC" \in OnStopped(g).flags <=> "SYNC" \in g.flags
  BY NumberFacts DEF OnStopped, Flags
<1>2. ASSUME NEW g \in HandleType
      PROVE  /\ OnVsync(g) \in HandleType
             /\ OnVsync(g).idx_get = g.idx_get /\ OnVsync(g).idx_rel = g.idx_rel
             /\ "LIMIT_OWN" \in OnVsync(g).flags <=> "LIMIT_OWN" \in g.flags
             /\ "SYNC" \notin g.flags =>
                  ("BUF_FULL" \in OnVsync(g).flags <=> "BUF_FULL" \in g.flags)
             /\ OnVsync(g).active = g.active
             /\ "SYNC" \notin g.flags => OnVsync(g).idx_in = g.idx_in
  <2>1. CASE "SYNC" \notin g.flags
    BY <2>1 DEF OnVsync, Flags
  <2>2. CASE "SYNC" \in g.flags
    <3>1. Following(g.idx_in) \in Blocks
      BY NumberFacts
    <3> QED
      BY <2>2, <3>1 DEF OnVsync, Flags
  <2> QED
    BY <2>1, <2>2
<1>3. ASSUME NEW g \in HandleType
      PROVE  /\ OnError(g) \in HandleType
             /\ OnError(g).idx_get = g.idx_get /\ OnError(g).idx_rel = g.idx_rel
             /\ OnError(g).flags = g.flags
             /\ ~OnError(g).active
             /\ OnError(g).idx_in = g.idx_in
  BY DEF OnError
<1> HIDE DEF HandleType
<1> DEFINE h1 == IF "STOPPED" \in ev THEN OnStopped(hVideoIn) ELSE hVideoIn
           h2 == IF "VSYNC" \in ev THEN OnVsync(h1) ELSE h1
           h3 == IF "ERROR" \in ev THEN OnError(h2) ELSE h2
<1>4. hVideoIn \in HandleType /\ hVideoIn.active \in BOOLEAN
  BY DEF VideoInTypeOK, HandleType
<1>5. /\ h1 \in HandleType /\ h1.idx_get = hVideoIn.idx_get /\ h1.idx_rel = hVideoIn.idx_rel
      /\ "LIMIT_OWN" \in h1.flags <=> "LIMIT_OWN" \in hVideoIn.flags
      /\ "BUF_FULL" \in h1.flags <=>
           "BUF_FULL" \in hVideoIn.flags
             \/ ("STOPPED" \in ev /\ Following(hVideoIn.idx_in) = hVideoIn.idx_rel)
      /\ h1.active => hVideoIn.active /\ "STOPPED" \notin ev
      /\ h1.idx_in = IF "STOPPED" \in ev THEN Following(hVideoIn.idx_in) ELSE hVideoIn.idx_in
      /\ "SYNC" \in h1.flags <=> "SYNC" \in hVideoIn.flags
  BY <1>1, <1>4
<1> HIDE DEF h1
<1>6. /\ h2 \in HandleType /\ h2.idx_get = h1.idx_get /\ h2.idx_rel = h1.idx_rel
      /\ "LIMIT_OWN" \in h2.flags <=> "LIMIT_OWN" \in h1.flags
      /\ ~Restarts(ev) => ("BUF_FULL" \in h2.flags <=> "BUF_FULL" \in h1.flags)
      /\ h2.active => h1.active
      /\ ~Restarts(ev) => h2.idx_in = h1.idx_in
  BY <1>2, <1>5 DEF Restarts
<1> HIDE DEF h2
<1>7. /\ h3 \in HandleType /\ h3.idx_get = h2.idx_get /\ h3.idx_rel = h2.idx_rel
      /\ h3.flags = h2.flags
      /\ h3.active => h2.active /\ "ERROR" \notin ev
      /\ h3.idx_in = h2.idx_in
  BY <1>3, <1>6
<1>8. AfterEvents(ev) = h3
  BY DEF AfterEvents, h1, h2
<1> QED
  BY <1>5, <1>6, <1>7, <1>8 DEF HandleType

\* An interrupt keeps the types of the driver.
LEMMA InterruptType ==
  ASSUME VideoInTypeOK, NEW ev \in CameraEvents, Interrupt(ev)
  PROVE  VideoInTypeOK'
<1>1. /\ hVideoIn' = AfterEvents(ev)
      /\ hVideoIn' \in [active : BOOLEAN, overflow : BOOLEAN, eos : BOOLEAN,
                        flags : SUBSET Flags,
                        idx_in : Blocks, idx_get : Blocks, idx_rel : Blocks]
  BY AfterFacts DEF Interrupt
<1>2. /\ cpi \in [mode : {"off", "frame", "video"}, block : Blocks,
                  vsync : BOOLEAN, last : Frames]
      /\ content \in [Blocks -> Frames \cup {Torn}]
      /\ NextFrame(cpi.last) \in Frames /\ AfterEvents(ev).idx_in \in Blocks
  BY <1>1, NumberFacts DEF VideoInTypeOK
<1>3. CASE Restarts(ev)
  <2>1. PICK f \in Frames, c \in Frames \cup {Torn} :
          /\ cpi' = [mode |-> "video", block |-> AfterEvents(ev).idx_in, vsync |-> TRUE,
                     last |-> f]
          /\ content' = [[content EXCEPT ![cpi.block] = c]
                           EXCEPT ![AfterEvents(ev).idx_in] = Torn]
    BY <1>2, <1>3 DEF Interrupt
  <2> QED
    BY <1>1, <1>2, <2>1 DEF VideoInTypeOK
<1>4. CASE ~Restarts(ev)
  BY <1>1, <1>2, <1>4 DEF Interrupt, VideoInTypeOK
<1> QED
  BY <1>3, <1>4

\* While the interrupt is served before the sensor starts its next frame, a
\* capture reports one vsync, and never goes over to the next frame.
LEMMA InterruptFacts ==
  ASSUME VideoInTypeOK, HandleInv, "late_vsync" \notin Faults,
         NEW ev \in CameraEvents, Interrupt(ev)
  PROVE  /\ ~Restarts(ev) /\ cpi.mode = "frame" /\ cpi'.mode \in {"frame", "off"}
         /\ cpi'.vsync /\ cpi'.block = cpi.block
         /\ hVideoIn'.active => hVideoIn.active /\ cpi'.mode = "frame"
         /\ hVideoIn'.idx_get = hVideoIn.idx_get
         /\ "DATA" \in Reported(ev) <=> "STOPPED" \in ev
         /\ "STOPPED" \in ev =>
              /\ cpi'.mode = "off" /\ cpi'.last = NextFrame(cpi.last)
              /\ content'[cpi.block] = cpi'.last
              /\ hVideoIn'.idx_in = Following(hVideoIn.idx_in)
         /\ "STOPPED" \notin ev =>
              cpi'.last = cpi.last /\ hVideoIn'.idx_in = hVideoIn.idx_in
<1>1. cpi.mode = "frame" /\ cpi \in [mode : {"off", "frame", "video"}, block : Blocks,
                                     vsync : BOOLEAN, last : Frames]
      /\ content \in [Blocks -> Frames \cup {Torn}]
  BY DEF Interrupt, HandleInv, VideoInTypeOK
<1>2. ~Restarts(ev)
  BY <1>1 DEF Interrupt, Reportable, Restarts, HandleInv, Capturing
<1>3. hVideoIn' = AfterEvents(ev)
  BY DEF Interrupt
<1>4. PICK mode \in {cpi.mode, "off"} :
        /\ mode # cpi.mode => "STOPPED" \in ev \/ "ERROR" \in ev
        /\ "STOPPED" \in ev => mode = "off"
        /\ cpi' = [cpi EXCEPT !.mode = mode, !.vsync = TRUE,
                              !.last = IF "STOPPED" \in ev THEN NextFrame(cpi.last) ELSE cpi.last]
        /\ content' = [content EXCEPT ![cpi.block] =
                         IF "STOPPED" \in ev
                           THEN (IF "STOPPED" \in ev THEN NextFrame(cpi.last) ELSE cpi.last)
                           ELSE Torn]
  BY <1>2 DEF Interrupt
<1>5. "DATA" \in Reported(ev) <=> "STOPPED" \in ev
  BY <1>2 DEF Reported
<1>6. /\ cpi'.mode \in {"frame", "off"} /\ cpi'.vsync /\ cpi'.block = cpi.block
      /\ "STOPPED" \in ev =>
           cpi'.mode = "off" /\ cpi'.last = NextFrame(cpi.last) /\ content'[cpi.block] = cpi'.last
      /\ "STOPPED" \notin ev => cpi'.last = cpi.last
      /\ cpi'.mode = "off" => "STOPPED" \in ev \/ "ERROR" \in ev
  BY <1>1, <1>4
<1>7. /\ hVideoIn'.active => hVideoIn.active /\ "STOPPED" \notin ev /\ "ERROR" \notin ev
      /\ hVideoIn'.idx_get = hVideoIn.idx_get
      /\ hVideoIn'.idx_in = IF "STOPPED" \in ev THEN Following(hVideoIn.idx_in)
                                               ELSE hVideoIn.idx_in
  BY <1>2, <1>3, AfterFacts
<1> QED
  BY <1>1, <1>2, <1>5, <1>6, <1>7
=============================================================================
