--------------------------- MODULE VStreamVideoIn ---------------------------
(***************************************************************************)
(* The camera stream of camera.c: a ring of NbBlocks frame blocks that the *)
(* camera interface (CPI, external) fills and the application borrows.     *)
(*                                                                         *)
(* The module holds the handle, the operations of the driver and the       *)
(* interrupt.  Who calls them, and in which order, is left to the modules  *)
(* that extend it: VideoClient (any client) and VideoPath (the node of the *)
(* application).  A call is one step: both clients only call while no      *)
(* interrupt of the driver can change the handle, which VideoPath checks.  *)
(***************************************************************************)
EXTENDS Integers

CONSTANTS
  NbBlocks, \* buf.block_num, CAMERA_NB_BUFFERS in the application
  NbFrames, \* bound: frames are numbered 1 .. NbFrames, over and over
  Faults    \* what the hardware may do wrong: "capture": CaptureFrame fails,
            \* "error": a CPI error event, "late_vsync": the interrupt is
            \* served after the sensor has started its next frame

ASSUME BlocksAssumption == NbBlocks \in Nat \ {0} /\ NbFrames \in Nat \ {0}
ASSUME FaultsAssumption == Faults \subseteq {"capture", "error", "late_vsync"}

Blocks == 0 .. NbBlocks - 1
Frames == 1 .. NbFrames
Torn   == 0               \* a block that does not hold one whole frame

VARIABLES
  hVideoIn, \* the handle: active, overflow, eos, flags, idx_in, idx_get, idx_rel
  cpi,      \* the camera interface: what it captures, and where
  content   \* content[b]: the frame in block b, or Torn

videoIn == <<hVideoIn, cpi, content>>

Flags == {"SINGLE", "LIMIT_OWN", "BUF_EMPTY", "BUF_FULL", "SYNC"}

(***************************************************************************)
(* Initialize, then SetBuf: an empty ring, nothing is captured.            *)
(***************************************************************************)
VideoInInit ==
  /\ hVideoIn = [active |-> FALSE, overflow |-> FALSE, eos |-> FALSE,
                 flags |-> {"BUF_EMPTY"}, idx_in |-> 0, idx_get |-> 0, idx_rel |-> 0]
  /\ cpi = [mode |-> "off", block |-> 0, vsync |-> FALSE, last |-> NbFrames]
  /\ content = [b \in Blocks |-> Torn]

\* Following with a bug: the end of the ring is not noticed.
Following_NoWrap(b) == b + 1

Following(b) == (b + 1) % NbBlocks
NextFrame(f) == (f % NbFrames) + 1

(***************************************************************************)
(* The interrupt, DriverCPI_Callback.  Several events may come in one call *)
(* and are handled in the order: stopped, vsync, error.                    *)
(***************************************************************************)

\* CAMERA_CAPTURE_STOPPED: the block at idx_in has its frame.
OnStopped(h) ==
  LET in == Following(h.idx_in) IN
  [h EXCEPT !.active = FALSE,
            !.idx_in = in,
            !.flags = (@ \ {"BUF_EMPTY"})
                        \cup IF in = h.idx_rel THEN {"BUF_FULL"} ELSE {}]

\* FRAME_VSYNC_DETECTED: the first one of a capture is only noted; another
\* one is taken for the next frame of a continuous capture.
OnVsync(h) ==
  LET in == Following(h.idx_in)
      full == in = h.idx_rel IN
  IF "SYNC" \notin h.flags
    THEN [h EXCEPT !.flags = @ \cup {"SYNC"}]
    ELSE [h EXCEPT !.idx_in = in,
                   !.overflow = @ \/ full,
                   !.flags = (@ \ {"BUF_EMPTY"})
                               \cup IF full THEN {"BUF_FULL"} ELSE {}]

OnError(h) == [h EXCEPT !.active = FALSE, !.eos = TRUE]

\* The handle after the events ev.
AfterEvents(ev) ==
  LET h1 == IF "STOPPED" \in ev THEN OnStopped(hVideoIn) ELSE hVideoIn
      h2 == IF "VSYNC" \in ev THEN OnVsync(h1) ELSE h1
  IN  IF "ERROR" \in ev THEN OnError(h2) ELSE h2

\* A vsync of a capture that already had one starts a continuous capture.
Restarts(ev) == "VSYNC" \in ev /\ "SYNC" \in hVideoIn.flags

\* What the callback of the stream's client is told.
Reported(ev) ==
  (IF "STOPPED" \in ev \/ Restarts(ev) THEN {"DATA"} ELSE {})
    \cup IF "ERROR" \in ev THEN {"EOS"} ELSE {}

\* The events one interrupt may report: a vsync, the end of the capture (with
\* its vsync if that has not been served), an error at any time.
Reportable(ev) ==
  /\ ev # {}
  /\ ev \subseteq {"VSYNC", "STOPPED", "ERROR"}
  /\ "VSYNC" \in ev /\ cpi.vsync =>
       cpi.mode = "video" \/ ("late_vsync" \in Faults /\ "STOPPED" \in ev)
  /\ "STOPPED" \in ev => cpi.mode = "frame" /\ (cpi.vsync \/ "VSYNC" \in ev)
  /\ "ERROR" \in ev => "error" \in Faults

\* An error may end the capture or not.
Interrupt(ev) ==
  /\ cpi.mode # "off"
  /\ Reportable(ev)
  /\ hVideoIn' = AfterEvents(ev)
  /\ LET whole == "STOPPED" \in ev
         frame == IF whole THEN NextFrame(cpi.last) ELSE cpi.last
         here  == [content EXCEPT ![cpi.block] = IF whole THEN frame ELSE Torn]
         in    == AfterEvents(ev).idx_in
     IN  IF Restarts(ev)
           THEN /\ cpi' = [mode |-> "video", block |-> in, vsync |-> TRUE, last |-> frame]
                /\ content' = [here EXCEPT ![in] = Torn]
           ELSE /\ content' = here
                /\ \E mode \in {cpi.mode, "off"} :
                     /\ mode # cpi.mode => whole \/ "ERROR" \in ev
                     /\ whole => mode = "off"
                     /\ cpi' = [cpi EXCEPT !.mode = mode, !.vsync = TRUE, !.last = frame]

(***************************************************************************)
(* The calls of the client.                                                *)
(***************************************************************************)

\* MayStart with a bug: a full ring is not noticed.
MayStart_IgnoresFull == ~hVideoIn.active

MayStart == "BUF_FULL" \notin hVideoIn.flags /\ ~hVideoIn.active

SingleFlags == (hVideoIn.flags \ {"SYNC"}) \cup {"SINGLE"}

\* Start(VSTREAM_MODE_SINGLE): capture one frame into the block at idx_in.
StartCapture ==
  /\ MayStart
  /\ cpi.mode = "off"
  /\ hVideoIn' = [hVideoIn EXCEPT !.active = TRUE, !.flags = SingleFlags]
  /\ cpi' = [cpi EXCEPT !.mode = "frame", !.block = hVideoIn.idx_in, !.vsync = FALSE]
  /\ UNCHANGED content

\* CaptureFrame has failed: the stream is not active.
StartFails ==
  /\ MayStart
  /\ "capture" \in Faults \/ cpi.mode # "off"
  /\ hVideoIn' = [hVideoIn EXCEPT !.flags = SingleFlags]
  /\ UNCHANGED <<cpi, content>>

\* The ring is full, or the stream already active.
StartRefused ==
  /\ ~MayStart
  /\ UNCHANGED videoIn

Start == StartCapture \/ StartFails \/ StartRefused

Stop ==
  /\ hVideoIn' = [hVideoIn EXCEPT !.active = FALSE]
  /\ cpi' = IF hVideoIn.active THEN [cpi EXCEPT !.mode = "off"] ELSE cpi
  /\ UNCHANGED content

\* GetBlock lends the block at idx_get, unless all the blocks are lent.
CanGet == "LIMIT_OWN" \notin hVideoIn.flags

\* GetBlock with a bug: the index does not move on.
GetBlock_KeepsIndex ==
  LET get == Following(hVideoIn.idx_get) IN
  /\ CanGet
  /\ hVideoIn' = [hVideoIn EXCEPT
       !.flags = (@ \ {"BUF_FULL"})
                   \cup (IF get = hVideoIn.idx_rel THEN {"LIMIT_OWN"} ELSE {})
                   \cup (IF get = hVideoIn.idx_in THEN {"BUF_EMPTY"} ELSE {})]
  /\ UNCHANGED <<cpi, content>>

\* GetBlock with a bug: the ring stays full.
GetBlock_KeepsFull ==
  LET get == Following(hVideoIn.idx_get) IN
  /\ CanGet
  /\ hVideoIn' = [hVideoIn EXCEPT
       !.idx_get = get,
       !.flags = @ \cup (IF get = hVideoIn.idx_rel THEN {"LIMIT_OWN"} ELSE {})
                   \cup (IF get = hVideoIn.idx_in THEN {"BUF_EMPTY"} ELSE {})]
  /\ UNCHANGED <<cpi, content>>

GetBlock ==
  LET get == Following(hVideoIn.idx_get) IN
  /\ CanGet
  /\ hVideoIn' = [hVideoIn EXCEPT
       !.idx_get = get,
       !.flags = (@ \ {"BUF_FULL"})
                   \cup (IF get = hVideoIn.idx_rel THEN {"LIMIT_OWN"} ELSE {})
                   \cup (IF get = hVideoIn.idx_in THEN {"BUF_EMPTY"} ELSE {})]
  /\ UNCHANGED <<cpi, content>>

CanRelease == hVideoIn.idx_rel # hVideoIn.idx_get \/ "LIMIT_OWN" \in hVideoIn.flags

ReleaseBlock ==
  /\ CanRelease
  /\ hVideoIn' = [hVideoIn EXCEPT !.idx_rel = Following(@), !.flags = @ \ {"LIMIT_OWN"}]
  /\ UNCHANGED <<cpi, content>>

\* The status bits are cleared when they are read.
GetStatus ==
  /\ hVideoIn' = [hVideoIn EXCEPT !.overflow = FALSE, !.eos = FALSE]
  /\ UNCHANGED <<cpi, content>>

(***************************************************************************)
(* Properties of the handle.                                               *)
(***************************************************************************)

VideoInTypeOK ==
  /\ hVideoIn \in [active : BOOLEAN, overflow : BOOLEAN, eos : BOOLEAN,
                   flags : SUBSET Flags,
                   idx_in : Blocks, idx_get : Blocks, idx_rel : Blocks]
  /\ cpi \in [mode : {"off", "frame", "video"}, block : Blocks,
              vsync : BOOLEAN, last : Frames]
  /\ content \in [Blocks -> Frames \cup {Torn}]

\* The distance from block a to block b around the ring.
Ahead(a, b) == (b + NbBlocks - a) % NbBlocks

\* The blocks lent to the client: from idx_rel up to idx_get, all of them when
\* the limit flag is set.
Lent ==
  IF "LIMIT_OWN" \in hVideoIn.flags THEN Blocks
  ELSE {b \in Blocks : Ahead(hVideoIn.idx_rel, b) < Ahead(hVideoIn.idx_rel, hVideoIn.idx_get)}
=============================================================================
