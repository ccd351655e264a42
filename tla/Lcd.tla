-------------------------------- MODULE Lcd --------------------------------
(***************************************************************************)
(* The display driver of lcd.c: two images, the display controller (CDC,   *)
(* external) scans one while the application draws the other.  A new       *)
(* address given to the controller is used from its next frame on.         *)
(***************************************************************************)
EXTENDS Integers

CONSTANTS
  DrawnFrames, \* the camera frames an image can show
  LcdFaults    \* what the hardware may do wrong: "update": the controller
               \* refuses an address, "start": it takes the address and does
               \* not start, "dsi": a DSI error event

Images == {0, 1}
Background == 0       \* an image without a camera frame
Partial == -1         \* an image that is being drawn, or shows a torn frame

ASSUME DrawnAssumption == DrawnFrames \subseteq Nat \ {0}
ASSUME LcdFaultsAssumption == LcdFaults \subseteq {"update", "start", "dsi"}

VARIABLES
  hVideoOut, \* the handle: idx_current, active, started (FLAGS_START)
  cdc,       \* the controller: on, the image it scans, the one it scans next
  image      \* image[i]: what has been drawn in image i

videoOut == <<hVideoOut, cdc, image>>

\* Initialize, then SetBuf.
LcdInit ==
  /\ hVideoOut = [idx_current |-> 0, active |-> FALSE, started |-> FALSE]
  /\ cdc = [on |-> FALSE, scan |-> 0, next |-> 0]
  /\ image = [i \in Images |-> Background]

\* GetRenderingBlock with a bug: the image that is shown is drawn again.
Rendering_Current == hVideoOut.idx_current

\* GetRenderingBlock.
Rendering == 1 - hVideoOut.idx_current

\* DriverCDC_Callback, SCANLINE0: the next frame of the display begins.
Scanline0 ==
  /\ cdc.on
  /\ cdc' = [cdc EXCEPT !.scan = cdc.next]
  /\ hVideoOut' = [hVideoOut EXCEPT !.active = FALSE]
  /\ UNCHANGED image

\* DSI_ERROR: the controller may have stopped; FLAGS_START stays set.
DsiError ==
  /\ "dsi" \in LcdFaults
  /\ cdc.on
  /\ \E on \in BOOLEAN : cdc' = [cdc EXCEPT !.on = on]
  /\ hVideoOut' = [hVideoOut EXCEPT !.active = FALSE]
  /\ UNCHANGED image

\* drawFrame clears the image, and in the end it shows the frame f.
BeginDraw ==
  /\ image' = [image EXCEPT ![Rendering] = Partial]
  /\ UNCHANGED <<hVideoOut, cdc>>

EndDraw(f) ==
  /\ image' = [image EXCEPT ![Rendering] = f]
  /\ UNCHANGED <<hVideoOut, cdc>>

\* SwitchBuffers: what was drawn becomes the current image.
SwitchBuffers ==
  /\ hVideoOut' = [hVideoOut EXCEPT !.idx_current = 1 - @]
  /\ UNCHANGED <<cdc, image>>

\* Start, up to the statement that gives the controller its new address: an
\* interrupt can come between the two.
ShowBegin ==
  /\ ~hVideoOut.active
  /\ hVideoOut' = [hVideoOut EXCEPT !.active = TRUE]
  /\ UNCHANGED <<cdc, image>>

\* CDC200_FRAMEBUF_UPDATE; the first call also starts the controller, which
\* later calls do not.
ShowUpdate ==
  /\ cdc' = IF hVideoOut.started
              THEN [cdc EXCEPT !.next = hVideoOut.idx_current]
              ELSE [on |-> TRUE, scan |-> hVideoOut.idx_current,
                    next |-> hVideoOut.idx_current]
  /\ hVideoOut' = [hVideoOut EXCEPT !.started = TRUE]
  /\ UNCHANGED image

\* The controller has refused the address.
ShowFails ==
  /\ "update" \in LcdFaults
  /\ hVideoOut' = [hVideoOut EXCEPT !.active = FALSE]
  /\ UNCHANGED <<cdc, image>>

\* The controller has taken the address and its start fails: FLAGS_START is
\* set all the same, so that no later call starts the controller.
ShowStartFails ==
  /\ "start" \in LcdFaults
  /\ ~hVideoOut.started
  /\ cdc' = [cdc EXCEPT !.next = hVideoOut.idx_current]
  /\ hVideoOut' = [hVideoOut EXCEPT !.started = TRUE, !.active = FALSE]
  /\ UNCHANGED image

LcdTypeOK ==
  /\ hVideoOut \in [idx_current : Images, active : BOOLEAN, started : BOOLEAN]
  /\ cdc \in [on : BOOLEAN, scan : Images, next : Images]
  /\ image \in [Images -> DrawnFrames \cup {Background, Partial}]
=============================================================================
