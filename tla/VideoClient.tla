---------------------------- MODULE VideoClient ----------------------------
(***************************************************************************)
(* Any client of the camera stream, in single mode: it starts captures,    *)
(* asks for one block per DATA event, and returns blocks when it likes, but *)
(* all of them before it starts the next capture: GetBlock clears BUF_FULL *)
(* already, so Start would not see a full ring.  It makes its calls        *)
(* between two captures, when no interrupt can come.                       *)
(***************************************************************************)
EXTENDS VStreamVideoIn

VARIABLE data  \* DATA events not yet answered by a GetBlock

vars == <<videoIn, data>>

Init == VideoInInit /\ data = 0

ClientStart ==
  /\ cpi.mode = "off"
  /\ Lent = {}
  /\ Start
  /\ UNCHANGED data

ClientStop == Stop /\ UNCHANGED data

ClientGet ==
  /\ cpi.mode = "off"
  /\ data > 0
  /\ GetBlock
  /\ data' = data - 1

ClientRelease ==
  /\ cpi.mode = "off"
  /\ ReleaseBlock
  /\ UNCHANGED data

ClientStatus == cpi.mode = "off" /\ GetStatus /\ UNCHANGED data

Camera(ev) ==
  /\ Interrupt(ev)
  /\ data' = IF "DATA" \in Reported(ev) THEN data + 1 ELSE data

Next ==
  \/ ClientStart
  \/ ClientStop
  \/ ClientGet
  \/ ClientRelease
  \/ ClientStatus
  \/ \E ev \in SUBSET {"VSYNC", "STOPPED", "ERROR"} : Camera(ev)

Spec == Init /\ [][Next]_vars

\* Type correctness of the handle, the camera interface and the client.
TypeOK == VideoInTypeOK /\ data \in 0 .. NbBlocks

\* The blocks that hold a frame nobody has asked for.
Unread == {b \in Blocks : Ahead(hVideoIn.idx_get, b) < data}

\* The camera never writes into a block that is lent to the client or that
\* holds a frame the client has still to ask for.  Start has to see that the
\* ring is full, from a flag that the interrupt sets and GetBlock clears.
NoOverwrite == cpi.mode # "off" => cpi.block \notin Lent \cup Unread

\* The three indices, the flags and the contents agree: the frames that are
\* lent or unread are whole, and counted back from idx_in they are the last
\* ones captured, each once and in order.
NewestFramesKept ==
  \A b \in Lent \cup Unread :
    \/ Following(b) = hVideoIn.idx_in /\ content[b] = cpi.last
    \/ /\ Following(b) \in Lent \cup Unread
       /\ content[Following(b)] = NextFrame(content[b])
=============================================================================
