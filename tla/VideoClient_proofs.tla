------------------------- MODULE VideoClient_proofs -------------------------
(***************************************************************************)
(* Proofs about VideoClient, for any number of blocks and frame numbers:   *)
(* the camera never writes to a block that the client has or has still to  *)
(* get, and the client gets the last frames, whole and in order.           *)
(***************************************************************************)
EXTENDS VideoClient, VStreamVideoIn_proofs

USE DEF videoIn

(***************************************************************************)
(* Distances around the ring.                                              *)
(***************************************************************************)

\* The remainders of the code as differences.
LEMMA RingFacts ==
  /\ NbBlocks \in Nat /\ NbBlocks > 0
  /\ \A b \in Blocks : Following(b) = IF b = NbBlocks - 1 THEN 0 ELSE b + 1
  /\ \A a, b \in Blocks : Ahead(a, b) = IF b >= a THEN b - a ELSE b - a + NbBlocks
<1>1. \A n \in Nat \ {0}, k \in Nat : k < n => k % n = k /\ n % n = 0
  BY SMTT(30)
<1>2. \A n \in Nat \ {0}, k \in Nat : k < n => (k + n) % n = k
  BY SMTT(30)
<1>3. \A b \in Blocks : Following(b) = IF b = NbBlocks - 1 THEN 0 ELSE b + 1
  BY <1>1, BlocksAssumption DEF Blocks, Following
<1>4. ASSUME NEW a \in Blocks, NEW b \in Blocks
      PROVE  Ahead(a, b) = IF b >= a THEN b - a ELSE b - a + NbBlocks
  <2>1. CASE b >= a
    <3>1. b - a \in Nat /\ b - a < NbBlocks /\ b + NbBlocks - a = (b - a) + NbBlocks
      BY <2>1, BlocksAssumption DEF Blocks
    <3> QED
      BY <1>2, <2>1, <3>1, BlocksAssumption DEF Ahead
  <2>2. CASE b < a
    <3>1. b - a + NbBlocks \in Nat /\ b - a + NbBlocks < NbBlocks
          /\ b + NbBlocks - a = b - a + NbBlocks
      BY <2>2, BlocksAssumption DEF Blocks
    <3>2. ~(b >= a)
      BY <2>2 DEF Blocks
    <3> QED
      BY <1>1, <3>1, <3>2, BlocksAssumption DEF Ahead
  <2> QED
    BY <2>1, <2>2 DEF Blocks
<1> QED
  BY <1>3, <1>4, BlocksAssumption

\* What Following and Ahead have to do with each other.
LEMMA AheadFacts ==
  /\ \A a, b \in Blocks : Ahead(a, b) \in 0 .. NbBlocks - 1
  /\ \A a, b \in Blocks : Ahead(a, b) = 0 <=> a = b
  /\ \A a, b, c \in Blocks : Ahead(a, b) = Ahead(a, c) => b = c
  /\ \A a, b \in Blocks : Ahead(a, Following(b)) =
       IF Ahead(a, b) = NbBlocks - 1 THEN 0 ELSE Ahead(a, b) + 1
  /\ \A a, b \in Blocks : Ahead(Following(a), b) =
       IF a = b THEN NbBlocks - 1 ELSE Ahead(a, b) - 1
  /\ \A a, g, b \in Blocks : Ahead(a, b) =
       IF Ahead(a, g) + Ahead(g, b) >= NbBlocks
         THEN Ahead(a, g) + Ahead(g, b) - NbBlocks
         ELSE Ahead(a, g) + Ahead(g, b)
<1>1. \A a, b \in Blocks : Ahead(a, b) \in 0 .. NbBlocks - 1
  BY RingFacts DEF Blocks
<1>2. \A a, b \in Blocks : Ahead(a, b) = 0 <=> a = b
  BY RingFacts DEF Blocks
<1>3. \A a, b, c \in Blocks : Ahead(a, b) = Ahead(a, c) => b = c
  BY RingFacts DEF Blocks
<1>4. ASSUME NEW a \in Blocks, NEW b \in Blocks
      PROVE  Ahead(a, Following(b)) =
               IF Ahead(a, b) = NbBlocks - 1 THEN 0 ELSE Ahead(a, b) + 1
  <2>1. /\ Following(b) \in Blocks
        /\ Following(b) = IF b = NbBlocks - 1 THEN 0 ELSE b + 1
        /\ a \in 0 .. NbBlocks - 1 /\ b \in 0 .. NbBlocks - 1 /\ NbBlocks \in Nat
    BY RingFacts, NumberFacts DEF Blocks
  <2>2. /\ Ahead(a, b) = IF b >= a THEN b - a ELSE b - a + NbBlocks
        /\ Ahead(a, Following(b)) =
             IF Following(b) >= a THEN Following(b) - a ELSE Following(b) - a + NbBlocks
    BY <2>1, RingFacts
  <2>3. CASE b = NbBlocks - 1
    BY <2>1, <2>2, <2>3
  <2>4. CASE b # NbBlocks - 1
    BY <2>1, <2>2, <2>4
  <2> QED
    BY <2>3, <2>4
<1>5. ASSUME NEW a \in Blocks, NEW b \in Blocks
      PROVE  Ahead(Following(a), b) = IF a = b THEN NbBlocks - 1 ELSE Ahead(a, b) - 1
  <2>1. /\ Following(a) \in Blocks
        /\ Following(a) = IF a = NbBlocks - 1 THEN 0 ELSE a + 1
        /\ a \in 0 .. NbBlocks - 1 /\ b \in 0 .. NbBlocks - 1 /\ NbBlocks \in Nat
    BY RingFacts, NumberFacts DEF Blocks
  <2>2. /\ Ahead(a, b) = IF b >= a THEN b - a ELSE b - a + NbBlocks
        /\ Ahead(Following(a), b) =
             IF b >= Following(a) THEN b - Following(a) ELSE b - Following(a) + NbBlocks
    BY <2>1, RingFacts
  <2>3. CASE a = NbBlocks - 1
    BY <2>1, <2>2, <2>3
  <2>4. CASE a # NbBlocks - 1
    BY <2>1, <2>2, <2>4
  <2> QED
    BY <2>3, <2>4
<1>6. ASSUME NEW a \in Blocks, NEW g \in Blocks, NEW b \in Blocks
      PROVE  Ahead(a, b) = IF Ahead(a, g) + Ahead(g, b) >= NbBlocks
                             THEN Ahead(a, g) + Ahead(g, b) - NbBlocks
                             ELSE Ahead(a, g) + Ahead(g, b)
  BY RingFacts DEF Blocks
<1> QED
  BY <1>1, <1>2, <1>3, <1>4, <1>5, <1>6

\* No two blocks are followed by the same one.
LEMMA FollowingInjective ==
  ASSUME NEW b \in Blocks, NEW c \in Blocks, Following(b) = Following(c)
  PROVE  b = c
<1>1. b \in 0 .. NbBlocks - 1 /\ c \in 0 .. NbBlocks - 1 /\ NbBlocks \in Nat
  BY BlocksAssumption DEF Blocks
<1>2. \A x, y \in 0 .. NbBlocks - 1 :
        (IF x = NbBlocks - 1 THEN 0 ELSE x + 1) = (IF y = NbBlocks - 1 THEN 0 ELSE y + 1)
          => x = y
  BY <1>1
<1>3. (IF b = NbBlocks - 1 THEN 0 ELSE b + 1) = (IF c = NbBlocks - 1 THEN 0 ELSE c + 1)
  BY RingFacts, Zenon
<1> QED
  BY <1>1, <1>2, <1>3, Zenon

(***************************************************************************)
(* The inductive invariant.                                                *)
(***************************************************************************)

\* How many blocks the client has.
LentCount ==
  IF "LIMIT_OWN" \in hVideoIn.flags THEN NbBlocks
  ELSE Ahead(hVideoIn.idx_rel, hVideoIn.idx_get)

\* How many blocks the camera may not write to.
Taken == LentCount + data

\* They are the ones from idx_rel up to idx_in.
Window == {b \in Blocks : Ahead(hVideoIn.idx_rel, b) < Taken}

\* The indices, the flags and the unanswered events count the same blocks, and
\* a capture that is under way writes to a free one.
RingInv ==
  /\ data \in Nat /\ Taken <= NbBlocks
  /\ Ahead(hVideoIn.idx_rel, hVideoIn.idx_in) = IF Taken = NbBlocks THEN 0 ELSE Taken
  /\ "LIMIT_OWN" \in hVideoIn.flags => hVideoIn.idx_get = hVideoIn.idx_rel
  /\ data = NbBlocks => "BUF_FULL" \in hVideoIn.flags
  /\ Capturing => LentCount = 0 /\ data < NbBlocks /\ cpi.block = hVideoIn.idx_in

\* Each taken block holds the frame after that of the block before it.
OrderInv ==
  \A b \in Window :
    IF Following(b) = hVideoIn.idx_in
      THEN content[b] = cpi.last
      ELSE Following(b) \in Window /\ content[Following(b)] = NextFrame(content[b])

ClientInv == VideoInTypeOK /\ HandleInv /\ RingInv /\ OrderInv

\* The number of blocks lent is a number of blocks.
LEMMA CountType ==
  ASSUME VideoInTypeOK
  PROVE  /\ LentCount \in 0 .. NbBlocks
         /\ hVideoIn.idx_rel \in Blocks /\ hVideoIn.idx_get \in Blocks
         /\ hVideoIn.idx_in \in Blocks
         /\ NbBlocks \in Nat /\ NbBlocks > 0
  BY AheadFacts, RingFacts DEF VideoInTypeOK, LentCount

\* The window is what the client has or has still to ask for.
LEMMA WindowFact ==
  ASSUME VideoInTypeOK, RingInv
  PROVE  Window = Lent \cup Unread
<1>1. CASE "LIMIT_OWN" \in hVideoIn.flags
  <2>1. data = 0 /\ Taken = NbBlocks
    BY <1>1, RingFacts DEF RingInv, Taken, LentCount
  <2> QED
    BY <1>1, <2>1, AheadFacts, CountType DEF Window, Lent, Unread
<1>2. CASE "LIMIT_OWN" \notin hVideoIn.flags
  <2>1. ASSUME NEW b \in Blocks
        PROVE  Ahead(hVideoIn.idx_rel, b) < Taken <=>
                 \/ Ahead(hVideoIn.idx_rel, b) < Ahead(hVideoIn.idx_rel, hVideoIn.idx_get)
                 \/ Ahead(hVideoIn.idx_get, b) < data
    <3>1. /\ hVideoIn.idx_rel \in Blocks /\ hVideoIn.idx_get \in Blocks
          /\ Taken = Ahead(hVideoIn.idx_rel, hVideoIn.idx_get) + data
          /\ data \in Nat /\ Taken <= NbBlocks
      BY <1>2, CountType DEF RingInv, Taken, LentCount
    <3> QED
      BY <3>1, AheadFacts, RingFacts
  <2> QED
    BY <1>2, <2>1 DEF Window, Lent, Unread
<1> QED
  BY <1>1, <1>2

\* The invariant implies the properties.
LEMMA ClientInvImplies ==
  ClientInv => TypeOK /\ NoOverwrite /\ NewestFramesKept
<1> SUFFICES ASSUME ClientInv PROVE TypeOK /\ NoOverwrite /\ NewestFramesKept
  OBVIOUS
<1>1. TypeOK
  BY CountType DEF ClientInv, RingInv, Taken, TypeOK
<1>2. NoOverwrite
  <2>1. ASSUME Capturing PROVE cpi.block \notin Window
    BY <2>1, CountType DEF ClientInv, RingInv, Window, Taken
  <2> QED
    BY <2>1, WindowFact DEF ClientInv, NoOverwrite, Capturing
<1>3. NewestFramesKept
  BY WindowFact DEF ClientInv, OrderInv, NewestFramesKept
<1> QED
  BY <1>1, <1>2, <1>3

\* It holds at the start, with an empty ring.
LEMMA ClientInvInit == Init => ClientInv
<1> SUFFICES ASSUME Init PROVE ClientInv
  OBVIOUS
<1>1. VideoInTypeOK
  BY NumberFacts DEF Init, VideoInInit, VideoInTypeOK, Flags
<1>2. HandleInv
  BY DEF Init, VideoInInit, HandleInv, Capturing
<1>3. LentCount = 0 /\ Taken = 0 /\ data = 0 /\ Window = {}
  BY <1>1, AheadFacts, CountType DEF Init, VideoInInit, LentCount, Taken, Window
<1>4. RingInv
  BY <1>1, <1>2, <1>3, AheadFacts, CountType
  DEF Init, VideoInInit, RingInv, Capturing
<1> QED
  BY <1>1, <1>2, <1>3, <1>4 DEF ClientInv, OrderInv

(***************************************************************************)
(* The steps.                                                              *)
(***************************************************************************)

\* A step that moves no index, answers no event and fills no block keeps the
\* window and the order of the frames.
LEMMA SameRing ==
  ASSUME ClientInv, UNCHANGED data,
         hVideoIn'.idx_in = hVideoIn.idx_in,
         hVideoIn'.idx_get = hVideoIn.idx_get,
         hVideoIn'.idx_rel = hVideoIn.idx_rel,
         "LIMIT_OWN" \in hVideoIn'.flags <=> "LIMIT_OWN" \in hVideoIn.flags,
         "BUF_FULL" \in hVideoIn.flags => "BUF_FULL" \in hVideoIn'.flags,
         Capturing' => LentCount = 0 /\ data < NbBlocks /\ cpi'.block = hVideoIn.idx_in,
         cpi'.last = cpi.last,
         \A b \in Window : content'[b] = content[b]
  PROVE  RingInv' /\ OrderInv'
<1>1. LentCount' = LentCount /\ Taken' = Taken /\ Window' = Window
  BY DEF LentCount, Taken, Window, Ahead
<1>2. RingInv'
  BY <1>1 DEF ClientInv, RingInv, Ahead
<1>3. ASSUME NEW b \in Window
      PROVE  IF Following(b) = hVideoIn'.idx_in
               THEN content'[b] = cpi'.last
               ELSE Following(b) \in Window /\ content'[Following(b)] = NextFrame(content'[b])
  BY <1>3 DEF ClientInv, OrderInv
<1> QED
  BY <1>1, <1>2, <1>3 DEF OrderInv, Following, NextFrame

\* The client starts a capture when it has returned all the blocks.
LEMMA StartStep ==
  ASSUME ClientInv, ClientStart
  PROVE  ClientInv'
<1>1. VideoInTypeOK /\ VideoInTypeOK' /\ cpi.mode = "off"
  BY CallType DEF ClientInv, ClientStart
<1>2. /\ hVideoIn'.idx_in = hVideoIn.idx_in /\ hVideoIn'.idx_get = hVideoIn.idx_get
      /\ hVideoIn'.idx_rel = hVideoIn.idx_rel
      /\ "LIMIT_OWN" \in hVideoIn'.flags <=> "LIMIT_OWN" \in hVideoIn.flags
      /\ "BUF_FULL" \in hVideoIn'.flags <=> "BUF_FULL" \in hVideoIn.flags
      /\ UNCHANGED content /\ cpi'.last = cpi.last
      /\ Capturing' => cpi'.block = hVideoIn.idx_in /\ "BUF_FULL" \notin hVideoIn.flags
  <2>1. CASE StartCapture
    BY <1>1, <2>1 DEF StartCapture, SingleFlags, MayStart, VideoInTypeOK, Capturing
  <2>2. CASE StartFails
    BY <1>1, <2>2 DEF StartFails, SingleFlags, VideoInTypeOK, Capturing
  <2>3. CASE StartRefused
    BY <1>1, <2>3 DEF StartRefused, VideoInTypeOK, Capturing
  <2> QED
    BY <2>1, <2>2, <2>3 DEF ClientStart, Start
<1>3. LentCount = 0
  <2>1. "LIMIT_OWN" \notin hVideoIn.flags
    BY <1>1, CountType DEF ClientStart, Lent
  <2>2. hVideoIn.idx_rel \notin Lent
    BY DEF ClientStart
  <2>3. Ahead(hVideoIn.idx_rel, hVideoIn.idx_rel) = 0
    BY <1>1, AheadFacts, CountType
  <2> QED
    BY <1>1, <2>1, <2>2, <2>3, AheadFacts, CountType DEF Lent, LentCount
<1>4. Capturing' => data < NbBlocks
  BY <1>1, <1>2, <1>3, CountType DEF ClientInv, RingInv, Taken
<1>5. HandleInv'
  BY <1>1, StartFacts DEF ClientStart, ClientInv, HandleInv, Capturing
<1>6. RingInv' /\ OrderInv'
  BY <1>2, <1>3, <1>4, SameRing DEF ClientStart
<1> QED
  BY <1>1, <1>5, <1>6 DEF ClientInv

\* Stop ends the capture of an active stream.
LEMMA StopStep ==
  ASSUME ClientInv, ClientStop
  PROVE  ClientInv'
<1>1. VideoInTypeOK' /\ HandleInv'
  BY DEF ClientInv, ClientStop, Stop, VideoInTypeOK, HandleInv, Capturing
<1>2. /\ hVideoIn'.idx_in = hVideoIn.idx_in /\ hVideoIn'.idx_get = hVideoIn.idx_get
      /\ hVideoIn'.idx_rel = hVideoIn.idx_rel /\ hVideoIn'.flags = hVideoIn.flags
      /\ UNCHANGED <<content, data>> /\ cpi'.last = cpi.last
      /\ Capturing' => Capturing /\ UNCHANGED cpi
  BY DEF ClientInv, ClientStop, Stop, VideoInTypeOK, Capturing
<1>3. RingInv' /\ OrderInv'
  BY <1>2, SameRing DEF ClientInv, RingInv
<1> QED
  BY <1>1, <1>3 DEF ClientInv

\* Reading the status moves nothing.
LEMMA StatusStep ==
  ASSUME ClientInv, ClientStatus
  PROVE  ClientInv'
<1>1. VideoInTypeOK'
  BY CallType DEF ClientInv, ClientStatus
<1>2. /\ hVideoIn'.idx_in = hVideoIn.idx_in /\ hVideoIn'.idx_get = hVideoIn.idx_get
      /\ hVideoIn'.idx_rel = hVideoIn.idx_rel /\ hVideoIn'.flags = hVideoIn.flags
      /\ hVideoIn'.active = hVideoIn.active
      /\ UNCHANGED <<content, data, cpi>> /\ ~Capturing'
  BY DEF ClientInv, ClientStatus, GetStatus, VideoInTypeOK, Capturing
<1>3. HandleInv'
  BY <1>2 DEF ClientInv, HandleInv, Capturing
<1>4. RingInv' /\ OrderInv'
  BY <1>2, SameRing
<1> QED
  BY <1>1, <1>3, <1>4 DEF ClientInv

\* GetBlock turns an unread block into a lent one.
LEMMA GetStep ==
  ASSUME ClientInv, ClientGet
  PROVE  ClientInv'
<1>1. VideoInTypeOK /\ VideoInTypeOK' /\ RingInv
  BY CallType DEF ClientInv, ClientGet
<1>2. /\ hVideoIn'.idx_in = hVideoIn.idx_in /\ hVideoIn'.idx_rel = hVideoIn.idx_rel
      /\ hVideoIn'.idx_get = Following(hVideoIn.idx_get)
      /\ hVideoIn'.active = hVideoIn.active
      /\ "SYNC" \in hVideoIn'.flags <=> "SYNC" \in hVideoIn.flags
      /\ "LIMIT_OWN" \notin hVideoIn.flags
      /\ "LIMIT_OWN" \in hVideoIn'.flags <=> Following(hVideoIn.idx_get) = hVideoIn.idx_rel
      /\ UNCHANGED <<cpi, content>> /\ ~Capturing'
      /\ data' = data - 1 /\ data > 0
  BY <1>1 DEF ClientGet, GetBlock, CanGet, VideoInTypeOK, Capturing
<1>3. LentCount' = LentCount + 1
  <2>1. Ahead(hVideoIn.idx_rel, Following(hVideoIn.idx_get)) =
          IF LentCount = NbBlocks - 1 THEN 0 ELSE LentCount + 1
    BY <1>1, <1>2, AheadFacts, CountType DEF LentCount
  <2>2. Following(hVideoIn.idx_get) \in Blocks
    BY <1>1, CountType, NumberFacts
  <2>3. "LIMIT_OWN" \in hVideoIn'.flags <=> LentCount = NbBlocks - 1
    BY <1>1, <1>2, <2>1, <2>2, AheadFacts, CountType
  <2>4. LentCount' = IF "LIMIT_OWN" \in hVideoIn'.flags THEN NbBlocks
                     ELSE Ahead(hVideoIn.idx_rel, Following(hVideoIn.idx_get))
    BY <1>2 DEF LentCount, Ahead
  <2> QED
    BY <1>1, <2>1, <2>3, <2>4, CountType
<1>4. Taken' = Taken /\ Window' = Window
  <2>1. Taken' = Taken
    BY <1>1, <1>2, <1>3, CountType DEF RingInv, Taken
  <2> QED
    BY <1>2, <2>1 DEF Window, Ahead
<1>5. RingInv'
  <2>1. data' \in Nat /\ data' < NbBlocks
    BY <1>1, <1>2, CountType DEF RingInv, Taken
  <2> QED
    BY <1>1, <1>2, <1>4, <2>1, CountType DEF RingInv, Ahead
<1>6. OrderInv'
  BY <1>2, <1>4 DEF ClientInv, OrderInv, Following, NextFrame
<1>7. HandleInv'
  BY <1>2 DEF ClientInv, HandleInv, Capturing
<1> QED
  BY <1>1, <1>5, <1>6, <1>7 DEF ClientInv

\* ReleaseBlock returns the oldest block.
LEMMA ReleaseStep ==
  ASSUME ClientInv, ClientRelease
  PROVE  ClientInv'
<1>1. VideoInTypeOK /\ VideoInTypeOK' /\ RingInv
  BY CallType DEF ClientInv, ClientRelease
<1>2. /\ hVideoIn'.idx_in = hVideoIn.idx_in /\ hVideoIn'.idx_get = hVideoIn.idx_get
      /\ hVideoIn'.idx_rel = Following(hVideoIn.idx_rel)
      /\ hVideoIn'.active = hVideoIn.active
      /\ "SYNC" \in hVideoIn'.flags <=> "SYNC" \in hVideoIn.flags
      /\ "BUF_FULL" \in hVideoIn'.flags <=> "BUF_FULL" \in hVideoIn.flags
      /\ "LIMIT_OWN" \notin hVideoIn'.flags
      /\ hVideoIn.idx_rel # hVideoIn.idx_get \/ "LIMIT_OWN" \in hVideoIn.flags
      /\ UNCHANGED <<cpi, content, data>> /\ ~Capturing'
  BY <1>1 DEF ClientRelease, ReleaseBlock, CanRelease, VideoInTypeOK, Capturing
<1>3. LentCount > 0 /\ LentCount' = LentCount - 1
  <2>1. LentCount' = Ahead(Following(hVideoIn.idx_rel), hVideoIn.idx_get)
    BY <1>2 DEF LentCount, Ahead
  <2>2. CASE "LIMIT_OWN" \in hVideoIn.flags
    <3>1. hVideoIn.idx_get = hVideoIn.idx_rel /\ LentCount = NbBlocks
      BY <1>1, <2>2 DEF RingInv, LentCount
    <3> QED
      BY <1>1, <2>1, <3>1, AheadFacts, CountType
  <2>3. CASE "LIMIT_OWN" \notin hVideoIn.flags
    <3>1. /\ hVideoIn.idx_get # hVideoIn.idx_rel
          /\ LentCount = Ahead(hVideoIn.idx_rel, hVideoIn.idx_get)
      BY <1>2, <2>3 DEF LentCount
    <3> QED
      BY <1>1, <2>1, <3>1, AheadFacts, CountType
  <2> QED
    BY <2>2, <2>3
<1>4. Taken' = Taken - 1 /\ Taken \in 1 .. NbBlocks
  BY <1>1, <1>2, <1>3, CountType DEF RingInv, Taken
<1>5. ASSUME NEW b \in Blocks
      PROVE  b \in Window' <=> b \in Window /\ b # hVideoIn.idx_rel
  <2>1. b \in Window' <=> Ahead(Following(hVideoIn.idx_rel), b) < Taken - 1
    BY <1>2, <1>4 DEF Window, Ahead
  <2> QED
    BY <1>1, <1>4, <2>1, AheadFacts, CountType DEF Window
<1>6. RingInv'
  <2>1. Ahead(Following(hVideoIn.idx_rel), hVideoIn.idx_in) = Taken - 1
    <3>1. CASE hVideoIn.idx_in = hVideoIn.idx_rel
      <4>1. Ahead(hVideoIn.idx_rel, hVideoIn.idx_in) = 0
        BY <1>1, <3>1, AheadFacts, CountType
      <4>2. Taken = NbBlocks
        BY <1>1, <1>4, <4>1, CountType DEF RingInv
      <4>3. Ahead(Following(hVideoIn.idx_rel), hVideoIn.idx_in) = NbBlocks - 1
        BY <1>1, <3>1, AheadFacts, CountType
      <4> QED
        BY <4>2, <4>3
    <3>2. CASE hVideoIn.idx_in # hVideoIn.idx_rel
      BY <1>1, <1>4, <3>2, AheadFacts, CountType DEF RingInv
    <3> QED
      BY <3>1, <3>2
  <2>2. Ahead(hVideoIn.idx_rel, hVideoIn.idx_in)' =
          Ahead(Following(hVideoIn.idx_rel), hVideoIn.idx_in)
    BY <1>2 DEF Ahead
  <2> QED
    BY <1>1, <1>2, <1>4, <2>1, <2>2, CountType DEF RingInv
<1>7. OrderInv'
  <2>1. ASSUME NEW b \in Window, b # hVideoIn.idx_rel, Following(b) # hVideoIn.idx_in
        PROVE  Following(b) # hVideoIn.idx_rel
    <3>1. SUFFICES ASSUME Following(b) = hVideoIn.idx_rel PROVE FALSE
      OBVIOUS
    <3>2. b \in Blocks /\ Ahead(hVideoIn.idx_rel, b) < Taken
      BY DEF Window
    <3>3. Ahead(hVideoIn.idx_rel, b) = NbBlocks - 1
      BY <1>1, <3>1, <3>2, AheadFacts, CountType
    <3>4. Taken = NbBlocks
      BY <1>4, <3>2, <3>3, CountType, <1>1
    <3>5. hVideoIn.idx_in = hVideoIn.idx_rel
      BY <1>1, <3>4, AheadFacts, CountType DEF RingInv
    <3> QED
      BY <2>1, <3>1, <3>5
  <2>2. ASSUME NEW b \in Window'
        PROVE  IF Following(b) = hVideoIn'.idx_in
                 THEN content'[b] = cpi'.last
                 ELSE Following(b) \in Window' /\ content'[Following(b)] = NextFrame(content'[b])
    <3>1. b \in Blocks /\ Following(b) \in Blocks
      BY <2>2, NumberFacts DEF Window, Blocks
    <3>2. b \in Window /\ b # hVideoIn.idx_rel
      BY <1>5, <2>2, <3>1
    <3> QED
      BY <1>2, <1>5, <2>1, <3>1, <3>2 DEF ClientInv, OrderInv
  <2> QED
    BY <2>2 DEF OrderInv, Following, NextFrame
<1>8. HandleInv'
  BY <1>2 DEF ClientInv, HandleInv, Capturing
<1> QED
  BY <1>1, <1>6, <1>7, <1>8 DEF ClientInv

\* An interrupt that ends the capture adds a block to the window; the others
\* only spoil the block that is captured.
LEMMA CameraStep ==
  ASSUME ClientInv, "late_vsync" \notin Faults, NEW ev \in CameraEvents, Camera(ev)
  PROVE  ClientInv'
<1>1. VideoInTypeOK /\ VideoInTypeOK' /\ HandleInv /\ RingInv /\ Capturing /\ Interrupt(ev)
  BY InterruptType DEF ClientInv, Camera, Interrupt, Capturing
<1>2. /\ ~Restarts(ev)
      /\ cpi.mode = "frame" /\ cpi'.mode \in {"frame", "off"}
      /\ cpi'.vsync /\ cpi'.block = cpi.block
      /\ hVideoIn'.active => cpi'.mode = "frame"
      /\ hVideoIn'.idx_get = hVideoIn.idx_get
      /\ "DATA" \in Reported(ev) <=> "STOPPED" \in ev
      /\ "STOPPED" \in ev =>
           /\ cpi'.mode = "off" /\ cpi'.last = NextFrame(cpi.last)
           /\ content'[cpi.block] = cpi'.last
           /\ hVideoIn'.idx_in = Following(hVideoIn.idx_in)
      /\ "STOPPED" \notin ev =>
           cpi'.last = cpi.last /\ hVideoIn'.idx_in = hVideoIn.idx_in
  BY <1>1, InterruptFacts
<1>3. /\ hVideoIn'.idx_rel = hVideoIn.idx_rel
      /\ "LIMIT_OWN" \in hVideoIn'.flags <=> "LIMIT_OWN" \in hVideoIn.flags
      /\ "BUF_FULL" \in hVideoIn'.flags <=>
           "BUF_FULL" \in hVideoIn.flags
             \/ ("STOPPED" \in ev /\ Following(hVideoIn.idx_in) = hVideoIn.idx_rel)
  BY <1>1, <1>2, AfterFacts DEF Interrupt
<1>4. \A b \in Blocks : b # cpi.block => content'[b] = content[b]
  BY <1>1, <1>2 DEF Interrupt, VideoInTypeOK
<1>5. /\ LentCount = 0 /\ data < NbBlocks /\ cpi.block = hVideoIn.idx_in
      /\ Taken = data /\ data \in Nat
      /\ Ahead(hVideoIn.idx_rel, hVideoIn.idx_in) = data
  BY <1>1, CountType DEF RingInv, Taken
<1>6. HandleInv'
  BY <1>2 DEF HandleInv, Capturing
<1>7. \A b \in Window : content'[b] = content[b]
  BY <1>1, <1>4, <1>5, CountType DEF Window
<1>8. CASE "STOPPED" \notin ev
  <2>1. RingInv' /\ OrderInv'
    BY <1>2, <1>3, <1>5, <1>7, <1>8, SameRing DEF Camera
  <2> QED
    BY <1>1, <1>6, <2>1 DEF ClientInv
<1>9. CASE "STOPPED" \in ev
  <2>1. data' = data + 1 /\ LentCount' = 0 /\ Taken' = data + 1 /\ ~Capturing'
    <3>1. data' = data + 1 /\ ~Capturing'
      BY <1>2, <1>9 DEF Camera, Capturing
    <3>2. LentCount' = LentCount
      BY <1>2, <1>3 DEF LentCount, Ahead
    <3> QED
      BY <1>5, <3>1, <3>2 DEF Taken
  <2>2. ASSUME NEW b \in Blocks
        PROVE  b \in Window' <=> b \in Window \/ b = hVideoIn.idx_in
    <3>1. b \in Window' <=> Ahead(hVideoIn.idx_rel, b) < data + 1
      BY <1>3, <2>1 DEF Window, Ahead
    <3>2. b \in Window <=> Ahead(hVideoIn.idx_rel, b) < data
      BY <1>5 DEF Window
    <3>3. Ahead(hVideoIn.idx_rel, b) \in Nat
          /\ hVideoIn.idx_rel \in Blocks /\ hVideoIn.idx_in \in Blocks
      BY <1>1, AheadFacts, CountType
    <3>4. Ahead(hVideoIn.idx_rel, b) = data <=> b = hVideoIn.idx_in
      BY <1>5, <3>3, AheadFacts
    <3> QED
      BY <1>5, <3>1, <3>2, <3>3, <3>4
  <2>3. Ahead(hVideoIn.idx_rel, Following(hVideoIn.idx_in)) =
          IF data + 1 = NbBlocks THEN 0 ELSE data + 1
    BY <1>1, <1>5, AheadFacts, CountType
  <2>4. RingInv'
    <3>1. data + 1 = NbBlocks => Following(hVideoIn.idx_in) = hVideoIn.idx_rel
      BY <1>1, <2>3, AheadFacts, CountType, NumberFacts
    <3>2. Ahead(hVideoIn.idx_rel, hVideoIn.idx_in)' =
            Ahead(hVideoIn.idx_rel, Following(hVideoIn.idx_in))
      BY <1>2, <1>3, <1>9 DEF Ahead
    <3>3. data + 1 \in Nat /\ data + 1 <= NbBlocks
      BY <1>5, CountType, <1>1
    <3>4. "LIMIT_OWN" \in hVideoIn'.flags => hVideoIn'.idx_get = hVideoIn'.idx_rel
      BY <1>1, <1>2, <1>3 DEF RingInv
    <3> QED
      BY <1>3, <1>9, <2>1, <2>3, <3>1, <3>2, <3>3, <3>4 DEF RingInv
  <2>5. ASSUME NEW b \in Window, Following(b) # hVideoIn.idx_in
        PROVE  Following(b) # Following(hVideoIn.idx_in)
    <3>1. /\ b \in Blocks /\ b # hVideoIn.idx_in /\ hVideoIn.idx_in \in Blocks
          /\ hVideoIn.idx_rel \in Blocks
      BY <1>1, <1>5, CountType DEF Window
    <3> QED
      BY <3>1, FollowingInjective
  <2>6. ASSUME NEW b \in Window'
        PROVE  IF Following(b) = hVideoIn'.idx_in
                 THEN content'[b] = cpi'.last
                 ELSE Following(b) \in Window' /\ content'[Following(b)] = NextFrame(content'[b])
    <3>1. b \in Blocks /\ Following(b) \in Blocks
      BY <2>6, NumberFacts DEF Window, Blocks
    <3>2. CASE b = hVideoIn.idx_in
      BY <1>2, <1>5, <1>9, <3>2
    <3>3. CASE b \in Window /\ b # hVideoIn.idx_in
      <4>1. CASE Following(b) = hVideoIn.idx_in
        <5>1. content[b] = cpi.last /\ content'[b] = content[b]
          BY <1>7, <3>3, <4>1 DEF ClientInv, OrderInv
        <5>2. Following(b) \in Window' /\ content'[Following(b)] = NextFrame(content'[b])
          BY <1>2, <1>5, <1>9, <2>2, <3>1, <4>1, <5>1
        <5>3. Following(b) # hVideoIn'.idx_in
          BY <1>1, <1>2, <1>9, <3>1, <3>3, CountType, FollowingInjective
        <5> QED
          BY <5>2, <5>3
      <4>2. CASE Following(b) # hVideoIn.idx_in
        <5>1. Following(b) \in Window /\ content[Following(b)] = NextFrame(content[b])
          BY <3>3, <4>2 DEF ClientInv, OrderInv
        <5> QED
          BY <1>2, <1>7, <1>9, <2>2, <2>5, <3>1, <3>3, <4>2, <5>1
      <4> QED
        BY <4>1, <4>2
    <3> QED
      BY <2>2, <2>6, <3>1, <3>2, <3>3
  <2>7. OrderInv'
    BY <2>6 DEF OrderInv, Following, NextFrame
  <2> QED
    BY <1>1, <1>6, <2>4, <2>7 DEF ClientInv
<1> QED
  BY <1>8, <1>9

\* Every step of the client and of the camera keeps the invariant.
LEMMA ClientInvNext ==
  ASSUME "late_vsync" \notin Faults
  PROVE  ClientInv /\ [Next]_vars => ClientInv'
<1> SUFFICES ASSUME ClientInv, [Next]_vars PROVE ClientInv'
  OBVIOUS
<1>1. CASE Next
  <2>1. ASSUME NEW ev \in CameraEvents, Camera(ev) PROVE ClientInv'
    BY <2>1, CameraStep
  <2> QED
    BY <1>1, <2>1, StartStep, StopStep, GetStep, ReleaseStep, StatusStep DEF Next, CameraEvents
<1>2. CASE UNCHANGED vars
  BY <1>2 DEF vars, ClientInv, VideoInTypeOK, HandleInv, Capturing, RingInv, OrderInv, Window,
              Taken, LentCount, Ahead, Following, NextFrame
<1> QED
  BY <1>1, <1>2

(***************************************************************************)
(* The theorems.  The interrupt is in time for the frame it reports, as in *)
(* the run of the model checker; captures may fail and the camera may      *)
(* report errors.                                                          *)
(***************************************************************************)

\* The invariant holds in every reachable state.
THEOREM Invariance ==
  ASSUME "late_vsync" \notin Faults
  PROVE  Spec => []ClientInv
  BY ClientInvInit, ClientInvNext, PTL DEF Spec

\* The handle of camera.c and the number of unanswered DATA events keep their
\* types: no index leaves the ring.
THEOREM TypeCorrectness ==
  ASSUME "late_vsync" \notin Faults
  PROVE  Spec => []TypeOK
<1>1. ClientInv => TypeOK
  BY ClientInvImplies
<1> QED
  BY <1>1, Invariance, PTL

\* The camera never writes to a block that the client of camera.c has, or has
\* still to get.
THEOREM NoOverwriting ==
  ASSUME "late_vsync" \notin Faults
  PROVE  Spec => []NoOverwrite
<1>1. ClientInv => NoOverwrite
  BY ClientInvImplies
<1> QED
  BY <1>1, Invariance, PTL

\* GetBlock hands out the last frames captured, whole, each once and in order.
THEOREM FramesKept ==
  ASSUME "late_vsync" \notin Faults
  PROVE  Spec => []NewestFramesKept
<1>1. ClientInv => NewestFramesKept
  BY ClientInvImplies
<1> QED
  BY <1>1, Invariance, PTL
=============================================================================
