------------------------- MODULE AudioStream_proofs -------------------------
(***************************************************************************)
(* Proofs about AudioStream, for any schedule, any FIFOs in any buffers    *)
(* and any numbers of audio blocks: types, the meaning of the flags of the *)
(* source, that a dry output is noticed, that a sound schedule never mixes *)
(* up its shared buffers, and that it implements the data flow graph.  At  *)
(* the end the schedule that was generated, AudioGraph, is proved to be    *)
(* sound.                                                                  *)
(***************************************************************************)
EXTENDS MCAudioStream, TLAPS

(***************************************************************************)
(* Inductive invariants.                                                   *)
(***************************************************************************)

\* Within a node the thread is where only a node of that kind can be.
PlaceInv ==
  /\ pc \in {"first", "wait", "get"} => Schedule[id].kind = "source"
  /\ pc \in {"write", "claim", "copy", "sink_wait"} => Schedule[id].kind = "sink"

\* A flag of the source stands for a block, also while the block of the flag
\* before is still to be read.
FlagInv ==
  SourceMaster =>
    /\ flags \cap {SourceFrame, SourceOverflow} # {} => mic.ready > 0
    /\ pc = "get" => mic.ready > 0
    /\ pc = "get" /\ flags \cap {SourceFrame, SourceOverflow} # {} => mic.ready > 1

\* What a node has left in a buffer, and no node after it has written over, is
\* the signal of this iteration.
LeftInv == \A f \in Fifos, j \in 1 .. id - 1 : WrittenBefore(f, j, id) => Fresh(f)

(***************************************************************************)
(* Facts about the operators.                                              *)
(***************************************************************************)

\* The nodes of the schedule are well formed.
LEMMA NodeType ==
  ASSUME NEW i \in 1 .. Len(Schedule)
  PROVE  /\ Schedule[i].kind \in {"source", "compute", "sink"}
         /\ Schedule[i].reads \subseteq Fifos
         /\ Schedule[i].writes \subseteq Fifos
<1> DEFINE Nodes == [name : STRING, kind : {"source", "compute", "sink"},
                     reads : SUBSET Fifos, writes : SUBSET Fifos]
<1>1. Schedule \in Seq(Nodes)
  BY ScheduleAssumption
<1>2. Schedule[i] \in Nodes
  <2> HIDE DEF Nodes
  <2> QED
    BY <1>1
<1> QED
  BY <1>2

\* The schedule has a first node.
LEMMA ScheduleLen == Len(Schedule) \in Nat \ {0}
BY ScheduleAssumption

\* The next index of the ring of the output is one.
LEMMA AfterInRange ==
  ASSUME NEW b \in OutBlocks
  PROVE  After(b) \in OutBlocks
BY BlocksAssumption DEF OutBlocks, After

\* After the last node comes the first one.
LEMMA NextNode ==
  ASSUME id \in 1 .. Len(Schedule)
  PROVE  /\ (id % Len(Schedule)) + 1 \in 1 .. Len(Schedule)
         /\ id < Len(Schedule) => (id % Len(Schedule)) + 1 = id + 1
         /\ id = Len(Schedule) => (id % Len(Schedule)) + 1 = 1
BY ScheduleLen

\* Whatever a node writes, the buffers hold signals or garbage.
LEMMA WriteType ==
  ASSUME content \in [Buffers -> Samples \cup {Garbage}], round \in Rounds,
         NEW i \in 1 .. Len(Schedule), WriteOutputs(Schedule[i])
  PROVE  content' \in [Buffers -> Samples \cup {Garbage}]
<1> DEFINE node == Schedule[i]
<1> SUFFICES ASSUME NEW b \in Buffers
             PROVE  content'[b] \in Samples \cup {Garbage}
  BY DEF WriteOutputs
<1>1. CASE ~ Writes(node, b)
  BY <1>1 DEF WriteOutputs
<1>2. CASE Writes(node, b)
  <2> DEFINE g == CHOOSE f \in node.writes : BufferOf[f] = b
  <2>1. g \in node.writes
    BY <1>2 DEF Writes
  <2>2. <<SignalOf[g], round>> \in Samples
    <3>1. g \in Fifos
      BY <2>1, NodeType
    <3> HIDE DEF g
    <3> QED
      BY <3>1 DEF Samples
  <2>3. content'[b] \in {<<SignalOf[g], round>>, Garbage}
    BY <1>2 DEF WriteOutputs
  <2> QED
    BY <2>2, <2>3
<1> QED
  BY <1>1, <1>2

(***************************************************************************)
(* Type correctness.                                                       *)
(***************************************************************************)

\* The first state has its types.
LEMMA TypeInit == Init => TypeOK /\ PlaceInv
<1> SUFFICES ASSUME Init PROVE TypeOK /\ PlaceInv
  OBVIOUS
<1>1. id \in 1 .. Len(Schedule) /\ round \in Rounds
  BY ScheduleLen DEF Init, Rounds
<1>2. content \in [Buffers -> Samples \cup {Garbage}]
  BY DEF Init
<1>3. mic \in [started : BOOLEAN, ready : 0 .. SourceBlocks]
  BY BlocksAssumption DEF Init
<1>4. out \in [started : BOOLEAN, current : OutBlocks, transmit : OutBlocks,
               sending : OutBlocks \cup {NoBlock}, failed : BOOLEAN]
  BY BlocksAssumption DEF Init, OutBlocks
<1> QED
  BY <1>1, <1>2, <1>3, <1>4 DEF Init, TypeOK, PlaceInv

\* Every step keeps the types, and the thread within the nodes.
LEMMA TypeNext == TypeOK /\ PlaceInv /\ [Next]_vars => TypeOK' /\ PlaceInv'
<1> SUFFICES ASSUME TypeOK, PlaceInv, [Next]_vars PROVE TypeOK' /\ PlaceInv'
  OBVIOUS
<1> USE DEF data
<1>1. CASE Check
  BY <1>1 DEF Check, TypeOK, PlaceInv
<1>2. CASE Compute
  <2>1. content' \in [Buffers -> Samples \cup {Garbage}]
    BY <1>2, WriteType DEF Compute, TypeOK
  <2> QED
    BY <1>2, <2>1, NextNode DEF Compute, NodeDone, TypeOK, PlaceInv, Rounds
<1>3. CASE SourceRun
  BY <1>3 DEF SourceRun, Running, TypeOK, PlaceInv
<1>4. CASE SourceStartFails
  BY <1>4 DEF SourceStartFails, NodeFails, TypeOK, PlaceInv
<1>5. CASE SourceWait
  BY <1>5 DEF SourceWait, NodeFails, TypeOK, PlaceInv
<1>6. CASE SourceGet
  <2>1. CASE mic.ready > 0
    <3>1. content' \in [Buffers -> Samples \cup {Garbage}]
      BY <1>6, <2>1, WriteType DEF SourceGet, TypeOK
    <3>2. mic' \in [started : BOOLEAN, ready : 0 .. SourceBlocks]
      BY <1>6, <2>1, BlocksAssumption DEF SourceGet, TypeOK
    <3> QED
      BY <1>6, <2>1, <3>1, <3>2, NextNode
      DEF SourceGet, NodeDone, TypeOK, PlaceInv, Rounds
  <2>2. CASE ~(mic.ready > 0)
    BY <1>6, <2>2 DEF SourceGet, NodeFails, TypeOK, PlaceInv
  <2> QED
    BY <2>1, <2>2
<1>7. CASE SinkStart
  <2>1. 0 \in OutBlocks
    BY BlocksAssumption DEF OutBlocks
  <2> QED
    BY <1>7, <2>1 DEF SinkStart, Running, TypeOK, PlaceInv
<1>8. CASE SinkStartFails
  BY <1>8 DEF SinkStartFails, NodeFails, TypeOK, PlaceInv
<1>9. CASE SinkTest
  BY <1>9 DEF SinkTest, TypeOK, PlaceInv
<1>17. CASE SinkClaim
  <2>1. After(out.current) \in OutBlocks
    BY AfterInRange DEF TypeOK
  <2>2. out' \in [started : BOOLEAN, current : OutBlocks, transmit : OutBlocks,
                  sending : OutBlocks \cup {NoBlock}, failed : BOOLEAN]
    BY <1>17, <2>1 DEF SinkClaim, TypeOK
  <2> QED
    BY <1>17, <2>2 DEF SinkClaim, TypeOK, PlaceInv
<1>18. CASE SinkCopy
  <2>1. UNCHANGED <<content, flags, mic, out>>
    BY <1>18 DEF SinkCopy
  <2>2. CASE SinkMaster
    BY <1>18, <2>1, <2>2 DEF SinkCopy, TypeOK, PlaceInv
  <2>3. CASE ~ SinkMaster
    <3>1. id' \in 1 .. Len(Schedule) /\ round' \in Rounds /\ UNCHANGED error /\ pc' = "check"
      BY <1>18, <2>3, NextNode DEF SinkCopy, NodeDone, TypeOK, Rounds
    <3> QED
      BY <2>1, <3>1 DEF TypeOK, PlaceInv
  <2> QED
    BY <2>2, <2>3
<1>10. CASE SinkOverflow
  BY <1>10 DEF SinkOverflow, NodeFails, TypeOK, PlaceInv
<1>11. CASE SinkWait
  BY <1>11, NextNode DEF SinkWait, NodeDone, NodeFails, TypeOK, PlaceInv, Rounds
<1>12. CASE SourceInterrupt
  <2>1. mic' \in [started : BOOLEAN, ready : 0 .. SourceBlocks]
    BY <1>12, BlocksAssumption DEF SourceInterrupt, TypeOK
  <2> QED
    BY <1>12, <2>1 DEF SourceInterrupt, TypeOK, PlaceInv
<1>13. CASE SinkInterrupt
  <2>1. After(out.transmit) \in OutBlocks
    BY AfterInRange DEF TypeOK
  <2>2. out' \in [started : BOOLEAN, current : OutBlocks, transmit : OutBlocks,
                  sending : OutBlocks \cup {NoBlock}, failed : BOOLEAN]
    BY <1>13, <2>1 DEF SinkInterrupt, TypeOK
  <2> QED
    BY <1>13, <2>2 DEF SinkInterrupt, TypeOK, PlaceInv
<1>14. CASE SendFails
  <2>1. After(out.transmit) \in OutBlocks
    BY AfterInRange DEF TypeOK
  <2>2. out' \in [started : BOOLEAN, current : OutBlocks, transmit : OutBlocks,
                  sending : OutBlocks \cup {NoBlock}, failed : BOOLEAN]
    BY <1>14, <2>1 DEF SendFails, TypeOK
  <2> QED
    BY <1>14, <2>2 DEF SendFails, TypeOK, PlaceInv
<1>15. CASE FifoUnderflow
  BY <1>15 DEF FifoUnderflow, TypeOK, PlaceInv
<1>16. CASE UNCHANGED vars
  BY <1>16 DEF vars, TypeOK, PlaceInv
<1> QED
  BY <1>1, <1>2, <1>3, <1>4, <1>5, <1>6, <1>7, <1>8, <1>9, <1>10, <1>11, <1>12,
     <1>13, <1>14, <1>15, <1>16, <1>17, <1>18 DEF Next, StreamThread

\* Every variable keeps its type; the rings of blocks stay within their sizes.
THEOREM TypeCorrectness == Spec => [](TypeOK /\ PlaceInv)
BY TypeInit, TypeNext, PTL DEF Spec

(***************************************************************************)
(* The flags of the source.                                                *)
(***************************************************************************)

\* Every step keeps the flags honest, if the input has two blocks or more.
LEMMA FlagNext ==
  ASSUME SourceBlocks > 1
  PROVE  TypeOK /\ FlagInv /\ [Next]_vars => FlagInv'
<1> SUFFICES ASSUME TypeOK, FlagInv, [Next]_vars, SourceMaster
             PROVE  FlagInv'
  BY DEF FlagInv
<1> USE DEF data, SourceFrame, SourceOverflow, SinkFrame, SinkUnderflow
<1>0. mic.ready \in 0 .. SourceBlocks /\ SourceBlocks \in Nat
  BY BlocksAssumption DEF TypeOK
<1>1. CASE Check
  BY <1>1 DEF Check, FlagInv
<1>2. CASE Compute
  BY <1>2 DEF Compute, NodeDone, FlagInv
<1>3. CASE SourceRun
  BY <1>3 DEF SourceRun, FlagInv, TypeOK
<1>4. CASE SourceStartFails
  BY <1>4 DEF SourceStartFails, NodeFails, FlagInv
<1>5. CASE SourceWait
  BY <1>5 DEF SourceWait, NodeFails, FlagInv
<1>6. CASE SourceGet
  <2>1. CASE mic.ready > 0
    <3>1. mic'.ready = mic.ready - 1 /\ pc' = "check" /\ UNCHANGED flags
      BY <1>6, <2>1 DEF SourceGet, NodeDone, TypeOK
    <3> QED
      BY <1>0, <1>6, <3>1 DEF SourceGet, FlagInv
  <2>2. CASE ~(mic.ready > 0)
    BY <1>6, <2>2 DEF SourceGet, NodeFails, FlagInv
  <2> QED
    BY <2>1, <2>2
<1>7. CASE SinkStart
  BY <1>7 DEF SinkStart, FlagInv
<1>8. CASE SinkStartFails
  BY <1>8 DEF SinkStartFails, NodeFails, FlagInv
<1>9. CASE SinkTest \/ SinkClaim \/ SinkCopy
  BY <1>9 DEF SinkTest, SinkClaim, SinkCopy, NodeDone, FlagInv
<1>10. CASE SinkOverflow
  BY <1>10 DEF SinkOverflow, NodeFails, FlagInv
<1>11. CASE SinkWait
  BY <1>11 DEF SinkWait, NodeDone, NodeFails, FlagInv
<1>12. CASE SourceInterrupt
  <2>1. mic'.ready = IF mic.ready < SourceBlocks THEN mic.ready + 1 ELSE mic.ready
    BY <1>12 DEF SourceInterrupt, TypeOK
  <2>2. UNCHANGED pc
    BY <1>12 DEF SourceInterrupt
  <2> QED
    BY <1>0, <2>1, <2>2 DEF FlagInv
<1>13. CASE SinkInterrupt
  BY <1>13 DEF SinkInterrupt, FlagInv
<1>14. CASE SendFails
  BY <1>14 DEF SendFails, FlagInv
<1>15. CASE FifoUnderflow
  BY <1>15 DEF FifoUnderflow, FlagInv
<1>16. CASE UNCHANGED vars
  BY <1>16 DEF vars, FlagInv
<1> QED
  BY <1>1, <1>2, <1>3, <1>4, <1>5, <1>6, <1>7, <1>8, <1>9, <1>10, <1>11, <1>12,
     <1>13, <1>14, <1>15, <1>16 DEF Next, StreamThread

\* With two blocks or more a wait of the source that has returned finds a
\* block: no schedule of interrupts and polls ends it with an underflow.
THEOREM FlagsMeanBlocks ==
  ASSUME SourceBlocks > 1
  PROVE  Spec => []FlagMeansBlock
<1>1. Init => FlagInv
  BY DEF Init, FlagInv
<1>2. TypeOK /\ FlagInv /\ [Next]_vars => FlagInv'
  BY FlagNext
<1>3. FlagInv => FlagMeansBlock
  BY DEF FlagInv, FlagMeansBlock
<1> QED
  BY <1>1, <1>2, <1>3, TypeCorrectness, PTL DEF Spec

(***************************************************************************)
(* The output.                                                             *)
(***************************************************************************)

\* Every step keeps a dry ring noticed: only the interrupt makes the ring dry,
\* and it sets the flag; a thread past the test of the ring clears it only when
\* it ends, and one before it does not pass the test.
LEMMA DryNext == TypeOK /\ DryNoticed /\ [Next]_vars => DryNoticed'
<1> SUFFICES ASSUME TypeOK, DryNoticed, [Next]_vars PROVE DryNoticed'
  OBVIOUS
<1> USE DEF data, SourceFrame, SinkFrame, SinkUnderflow, SourceOverflow
<1>0. NoBlock \notin OutBlocks /\ 0 \in OutBlocks
  BY BlocksAssumption DEF OutBlocks
<1>1. CASE Check
  BY <1>1 DEF Check, DryNoticed
<1>2. CASE Compute
  BY <1>2 DEF Compute, NodeDone, Running, DryNoticed
<1>3. CASE SourceRun
  BY <1>3 DEF SourceRun, Running, DryNoticed
<1>4. CASE SourceStartFails
  BY <1>4 DEF SourceStartFails, NodeFails, DryNoticed
<1>5. CASE SourceWait
  BY <1>5 DEF SourceWait, NodeFails, DryNoticed
<1>6. CASE SourceGet
  BY <1>6 DEF SourceGet, NodeDone, NodeFails, DryNoticed
<1>7. CASE SinkStart
  <2>1. CASE out.started
    BY <1>7, <2>1 DEF SinkStart, Running, DryNoticed
  <2>2. CASE ~ out.started
    <3>1. out'.sending = 0
      BY <1>7, <2>2 DEF SinkStart, TypeOK
    <3> QED
      BY <1>0, <3>1 DEF DryNoticed
  <2> QED
    BY <2>1, <2>2
<1>8. CASE SinkStartFails
  BY <1>8 DEF SinkStartFails, NodeFails, DryNoticed
<1>9. CASE SinkTest
  BY <1>9 DEF SinkTest, SinkFull, DryNoticed
<1>17. CASE SinkClaim
  <2>1. out'.started = out.started /\ out'.sending = out.sending /\ out'.failed = out.failed
    BY <1>17 DEF SinkClaim, TypeOK
  <2> QED
    BY <1>17, <2>1 DEF SinkClaim, DryNoticed
<1>18. CASE SinkCopy
  BY <1>18 DEF SinkCopy, DryNoticed
<1>10. CASE SinkOverflow
  BY <1>10 DEF SinkOverflow, NodeFails, DryNoticed
<1>11. CASE SinkWait
  BY <1>11 DEF SinkWait, NodeDone, NodeFails, DryNoticed
<1>12. CASE SourceInterrupt
  BY <1>12 DEF SourceInterrupt, DryNoticed
<1>13. CASE SinkInterrupt
  <2>1. CASE After(out.transmit) = out.current
    <3>1. out'.transmit = out'.current /\ SinkUnderflow \in flags'
      BY <1>13, <2>1 DEF SinkInterrupt, TypeOK
    <3> QED
      BY <3>1 DEF DryNoticed
  <2>2. CASE After(out.transmit) # out.current
    <3>1. out'.sending = out.transmit
      BY <1>13, <2>2 DEF SinkInterrupt, TypeOK
    <3> QED
      BY <1>0, <3>1 DEF TypeOK, DryNoticed
  <2> QED
    BY <2>1, <2>2
<1>14. CASE SendFails
  <2>1. out'.failed
    BY <1>14 DEF SendFails, TypeOK
  <2> QED
    BY <2>1 DEF DryNoticed
<1>15. CASE FifoUnderflow
  BY <1>15 DEF FifoUnderflow, DryNoticed
<1>16. CASE UNCHANGED vars
  BY <1>16 DEF vars, DryNoticed
<1> QED
  BY <1>1, <1>2, <1>3, <1>4, <1>5, <1>6, <1>7, <1>8, <1>9, <1>10, <1>11, <1>12,
     <1>13, <1>14, <1>15, <1>16, <1>17, <1>18 DEF Next, StreamThread

\* For any number of blocks of the output, wherever its interrupts fall (also
\* between the test of the ring, the claim of a block and the copy) and the
\* polls of the macro come: once the ring is dry, a sink past the test has the
\* flag that ends the schedule, and anywhere else the test will find no block.
THEOREM DryNoticedAlways == Spec => []DryNoticed
<1>1. Init => DryNoticed
  BY DEF Init, DryNoticed
<1> QED
  BY <1>1, DryNext, TypeCorrectness, PTL DEF Spec

(***************************************************************************)
(* The shared buffers.                                                     *)
(***************************************************************************)

\* A node with fresh inputs leaves each of its signals where it belongs.
LEMMA WritesFresh ==
  ASSUME TypeOK, ScheduleSound, InputsFresh, WriteOutputs(Schedule[id]),
         NEW f \in Fifos, WritesSignal(Schedule[id], f)
  PROVE  content'[BufferOf[f]] = <<SignalOf[f], round>>
<1> DEFINE node == Schedule[id]
           b    == BufferOf[f]
<1>1. PICK g \in node.writes : BufferOf[g] = b /\ SignalOf[g] = SignalOf[f]
  BY DEF WritesSignal
<1>2. Separate(node) /\ id \in 1 .. Len(Schedule)
  BY ScheduleLen, ScheduleAssumption DEF ScheduleSound, SoundAt, TypeOK
<1>3. b \in Buffers /\ Writes(node, b)
  BY <1>1 DEF Buffers, Writes
<1> DEFINE h == CHOOSE x \in node.writes : BufferOf[x] = b
<1>4. h \in node.writes /\ BufferOf[h] = b
  BY <1>1
<1>5. h = g
  BY <1>1, <1>2, <1>4 DEF Separate
<1>6. content'[b] = <<SignalOf[h], round>>
  BY <1>2, <1>3 DEF WriteOutputs, InputsFresh
<1> QED
  BY <1>1, <1>5, <1>6

\* A node leaves the other buffers alone.
LEMMA WritesOnly ==
  ASSUME WriteOutputs(Schedule[id]), NEW f \in Fifos, ~ Writes(Schedule[id], BufferOf[f])
  PROVE  content'[BufferOf[f]] = content[BufferOf[f]]
BY DEF WriteOutputs, Buffers

\* What is left for the next node is fresh for it.
LEMMA InputsReady ==
  ASSUME TypeOK, ScheduleSound, LeftInv
  PROVE  InputsFresh
<1> SUFFICES ASSUME NEW f \in Schedule[id].reads
             PROVE  Fresh(f)
  BY DEF InputsFresh
<1>1. id \in DOMAIN Schedule /\ f \in Fifos
  BY NodeType, ScheduleLen, ScheduleAssumption DEF TypeOK
<1>2. PICK j \in 1 .. id - 1 : WrittenBefore(f, j, id)
  BY <1>1 DEF ScheduleSound, SoundAt
<1> QED
  BY <1>1, <1>2 DEF LeftInv

\* A node that has run keeps the invariant for the nodes after it, whether it
\* writes its outputs or has none.
LEMMA LeftDone ==
  ASSUME TypeOK, ScheduleSound, LeftInv, NodeDone,
         WriteOutputs(Schedule[id]) \/ (Schedule[id].writes = {} /\ UNCHANGED content)
  PROVE  LeftInv'
<1>1. id \in 1 .. Len(Schedule) /\ Len(Schedule) \in Nat \ {0}
  BY ScheduleLen DEF TypeOK
<1>2. CASE id = Len(Schedule)
  <2>1. id' = 1
    BY <1>1, <1>2, NextNode DEF NodeDone
  <2> QED
    BY <2>1 DEF LeftInv
<1>3. CASE id < Len(Schedule)
  <2>1. id' = id + 1 /\ round' = round
    BY <1>1, <1>3, NextNode DEF NodeDone
  <2> SUFFICES ASSUME NEW f \in Fifos, NEW j \in 1 .. id, WrittenBefore(f, j, id + 1)
               PROVE  content'[BufferOf[f]] = <<SignalOf[f], round>>
    BY <2>1, <1>1 DEF LeftInv, Fresh
  <2>2. CASE j = id
    <3>1. WritesSignal(Schedule[id], f)
      BY <2>2 DEF WrittenBefore
    <3>2. WriteOutputs(Schedule[id])
      BY <3>1 DEF WritesSignal
    <3> QED
      BY <3>1, <3>2, WritesFresh, InputsReady
  <2>3. CASE j # id
    <3>1. j \in 1 .. id - 1 /\ id \in j + 1 .. (id + 1) - 1
      BY <1>1, <2>3
    <3>2. \A k \in j + 1 .. id - 1 : k \in j + 1 .. (id + 1) - 1
      BY <1>1
    <3>3. WrittenBefore(f, j, id) /\ ~ Writes(Schedule[id], BufferOf[f])
      BY <3>1, <3>2 DEF WrittenBefore
    <3>4. content'[BufferOf[f]] = content[BufferOf[f]]
      BY <3>3, WritesOnly
    <3> QED
      BY <3>1, <3>3, <3>4 DEF LeftInv, Fresh
  <2> QED
    BY <2>2, <2>3
<1> QED
  BY <1>1, <1>2, <1>3

\* Steps within a node change no buffer.
LEMMA LeftStays ==
  ASSUME LeftInv, UNCHANGED <<id, round, content>>
  PROVE  LeftInv'
BY DEF LeftInv, Fresh

\* Every step keeps what the nodes have left.
LEMMA LeftNext ==
  ASSUME ScheduleSound
  PROVE  TypeOK /\ PlaceInv /\ LeftInv /\ [Next]_vars => LeftInv'
<1> SUFFICES ASSUME TypeOK, PlaceInv, LeftInv, [Next]_vars PROVE LeftInv'
  OBVIOUS
<1> USE DEF data
<1>0. Schedule[id].kind = "sink" => Schedule[id].writes = {}
  BY ScheduleLen, ScheduleAssumption DEF TypeOK, ScheduleSound, SoundAt
<1>1. CASE Check
  BY <1>1, LeftStays DEF Check
<1>2. CASE Compute
  BY <1>2, LeftDone DEF Compute
<1>3. CASE SourceRun
  BY <1>3, LeftStays DEF SourceRun
<1>4. CASE SourceStartFails
  BY <1>4, LeftStays DEF SourceStartFails, NodeFails
<1>5. CASE SourceWait
  BY <1>5, LeftStays DEF SourceWait, NodeFails
<1>6. CASE SourceGet
  BY <1>6, LeftDone, LeftStays DEF SourceGet, NodeFails
<1>7. CASE SinkStart
  BY <1>7, LeftStays DEF SinkStart
<1>8. CASE SinkStartFails
  BY <1>8, LeftStays DEF SinkStartFails, NodeFails
<1>9. CASE SinkTest \/ SinkClaim
  BY <1>9, LeftStays DEF SinkTest, SinkClaim
<1>14. CASE SinkCopy
  <2>1. CASE SinkMaster
    BY <1>14, <2>1, LeftStays DEF SinkCopy
  <2>2. CASE ~ SinkMaster
    BY <1>0, <1>14, <2>2, LeftDone DEF SinkCopy, PlaceInv
  <2> QED
    BY <2>1, <2>2
<1>10. CASE SinkOverflow
  BY <1>10, LeftStays DEF SinkOverflow, NodeFails
<1>11. CASE SinkWait
  BY <1>0, <1>11, LeftDone, LeftStays DEF SinkWait, NodeFails, PlaceInv
<1>12. CASE SourceInterrupt \/ SinkInterrupt \/ SendFails \/ FifoUnderflow
  BY <1>12, LeftStays DEF SourceInterrupt, SinkInterrupt, SendFails, FifoUnderflow
<1>13. CASE UNCHANGED vars
  BY <1>13, LeftStays DEF vars
<1> QED
  BY <1>1, <1>2, <1>3, <1>4, <1>5, <1>6, <1>7, <1>8, <1>9, <1>10, <1>11, <1>12, <1>13,
     <1>14
  DEF Next, StreamThread

\* In a sound schedule every node finds in each of its FIFOs the signal of its
\* own iteration, however many FIFOs share a buffer and whatever the audio
\* interrupts do: soundness of the order alone is enough.
THEOREM FreshInputs ==
  ASSUME ScheduleSound
  PROVE  Spec => []InputsFresh
<1>1. Init => LeftInv
  BY DEF Init, LeftInv
<1>2. TypeOK /\ PlaceInv /\ LeftInv /\ [Next]_vars => LeftInv'
  BY LeftNext
<1>3. TypeOK /\ LeftInv => InputsFresh
  BY InputsReady
<1> QED
  BY <1>1, <1>2, <1>3, TypeCorrectness, PTL DEF Spec

(***************************************************************************)
(* The refinement of the data flow graph.                                  *)
(***************************************************************************)

\* The nodes of the schedule have names of their own.
NamesApart == \A i, j \in DOMAIN Schedule : Schedule[i].name = Schedule[j].name => i = j

\* Before the node at p runs, the FIFO f may be the carrier of c.
MayCarry(c, f, p) ==
  IF \E i \in 1 .. p - 1 : WritesSignal(Schedule[i], c.fifo) THEN f = c.fifo
  ELSE /\ SignalOf[f] = SignalOf[c.fifo]
       /\ \E i \in 1 .. p - 1 : Schedule[i].name = c.from /\ f \in Schedule[i].writes

\* There is one, and whichever it is, nothing has written over its block.
Carried(c, p) ==
  /\ \E f \in Fifos : MayCarry(c, f, p)
  /\ \A f \in Fifos : MayCarry(c, f, p) => \E j \in 1 .. p - 1 : WrittenBefore(f, j, p)

\* The connection c leads from the node at a to the one at t, which runs after
\* it, and in between its block is carried.
Leads(c, a, t) ==
  /\ a \in DOMAIN Schedule /\ t \in DOMAIN Schedule
  /\ a < t
  /\ c.from = Schedule[a].name /\ c.to = Schedule[t].name
  /\ \A p \in a + 1 .. t : Carried(c, p)

\* The order of the schedule and the sharing of the buffers respect the graph.
GraphSound == NamesApart /\ \A c \in Connections : \E a, t \in DOMAIN Schedule : Leads(c, a, t)

Waits(c) == Ran(c.from) /\ ~ Ran(c.to)

\* A connection that waits holds the block of this iteration, and only that.
PendingInv == Pending = [c \in Connections |-> IF Waits(c) THEN <<round>> ELSE <<>>]

\* The positions of the schedule are those up to its length.
LEMMA SchedulePositions == DOMAIN Schedule = 1 .. Len(Schedule)
BY ScheduleAssumption

\* The carrier of a connection may carry it.
LEMMA CarrierCarries ==
  ASSUME NEW c, Carried(c, id)
  PROVE  MayCarry(c, Carrier(c), id) /\ Carrier(c) \in Fifos
<1>1. PICK f \in Fifos : MayCarry(c, f, id)
  BY DEF Carried
<1>2. CASE \E i \in 1 .. id - 1 : WritesSignal(Schedule[i], c.fifo)
  BY <1>1, <1>2 DEF MayCarry, Carrier
<1>3. CASE ~ \E i \in 1 .. id - 1 : WritesSignal(Schedule[i], c.fifo)
  <2> DEFINE P(x) == /\ SignalOf[x] = SignalOf[c.fifo]
                     /\ \E i \in 1 .. id - 1 : Schedule[i].name = c.from /\ x \in Schedule[i].writes
  <2>1. P(f)
    BY <1>1, <1>3 DEF MayCarry
  <2>2. Carrier(c) = CHOOSE x \in Fifos : P(x)
    BY <1>3 DEF Carrier
  <2>3. Carrier(c) \in Fifos /\ P(Carrier(c))
    <3> HIDE DEF P
    <3> QED
      BY <2>1, <2>2
  <2> QED
    BY <1>3, <2>3 DEF MayCarry
<1> QED
  BY <1>2, <1>3

\* While a connection waits, the thread is between its two nodes.
LEMMA WaitsBetween ==
  ASSUME TypeOK, NamesApart, NEW c, NEW a, NEW t, Leads(c, a, t)
  PROVE  /\ Ran(c.from) <=> a < id
         /\ Ran(c.to) <=> t < id
         /\ Waits(c) <=> id \in a + 1 .. t
<1>1. id \in 1 .. Len(Schedule) /\ Len(Schedule) \in Nat
  BY ScheduleLen DEF TypeOK
<1>2. a \in 1 .. Len(Schedule) /\ t \in 1 .. Len(Schedule)
  BY SchedulePositions DEF Leads
<1>3. ASSUME NEW p \in 1 .. Len(Schedule)
      PROVE  Ran(Schedule[p].name) <=> p < id
  BY <1>1, SchedulePositions DEF Ran, NamesApart
<1>4. (Ran(c.from) <=> a < id) /\ (Ran(c.to) <=> t < id)
  BY <1>2, <1>3 DEF Leads
<1> QED
  BY <1>1, <1>2, <1>4 DEF Waits

\* The buffer of its carrier has the block of this iteration.
LEMMA PendingShape ==
  ASSUME GraphSound
  PROVE  TypeOK /\ LeftInv => PendingInv
<1> SUFFICES ASSUME TypeOK, LeftInv, NEW c \in Connections, Waits(c)
             PROVE  content[BufferOf[Carrier(c)]] = <<SignalOf[c.fifo], round>>
  <2> SUFFICES ASSUME TypeOK, LeftInv PROVE PendingInv
    OBVIOUS
  <2> DEFINE Found(c) == content[BufferOf[Carrier(c)]]
             Block(c) == IF \E r \in Rounds : Found(c) = <<SignalOf[c.fifo], r>>
                           THEN <<Found(c)[2]>> ELSE <<Garbage>>
  <2>1. ASSUME NEW c \in Connections, Waits(c)
        PROVE  Block(c) = <<round>>
    <3> DEFINE x == Found(c)
    <3>1. x = <<SignalOf[c.fifo], round>>
      BY <2>1
    <3> HIDE DEF x
    <3>2. round \in Rounds /\ x[2] = round
      BY <3>1 DEF TypeOK
    <3> QED
      BY <3>1, <3>2 DEF x
  <2>2. Pending = [c \in Connections |-> IF Waits(c) THEN Block(c) ELSE <<>>]
    BY DEF Pending, Waits
  <2> HIDE DEF Block
  <2> QED
    BY <2>1, <2>2 DEF PendingInv
<1>1. PICK a \in DOMAIN Schedule, t \in DOMAIN Schedule : Leads(c, a, t)
  BY DEF GraphSound
<1>2. Carried(c, id)
  BY <1>1, WaitsBetween DEF GraphSound, Leads
<1> DEFINE f == Carrier(c)
<1>3. f \in Fifos /\ MayCarry(c, f, id)
  BY <1>2, CarrierCarries
<1> HIDE DEF f
<1>4. PICK j \in 1 .. id - 1 : WrittenBefore(f, j, id)
  BY <1>2, <1>3 DEF Carried
<1>5. content[BufferOf[f]] = <<SignalOf[f], round>>
  BY <1>3, <1>4 DEF LeftInv, Fresh
<1>6. SignalOf[f] = SignalOf[c.fifo]
  BY <1>3 DEF MayCarry
<1> QED
  BY <1>5, <1>6 DEF f

\* When a node is done, it and no other has run since; after the last node
\* none has run.
LEMMA RanNext ==
  ASSUME TypeOK, NamesApart, NodeDone, NEW i \in DOMAIN Schedule
  PROVE  /\ id < Len(Schedule) => (Ran(Schedule[i].name)' <=> Ran(Schedule[i].name) \/ i = id)
         /\ id = Len(Schedule) => ~ Ran(Schedule[i].name)' /\ (Ran(Schedule[i].name) \/ i = id)
         /\ ~ Ran(Schedule[id].name)
<1>1. id \in 1 .. Len(Schedule) /\ Len(Schedule) \in Nat \ {0} /\ i \in 1 .. Len(Schedule)
  BY ScheduleLen, SchedulePositions DEF TypeOK
<1>2. ~ Ran(Schedule[id].name)
  BY <1>1, SchedulePositions DEF Ran, NamesApart
<1>3. CASE id < Len(Schedule)
  <2>1. id' = id + 1
    BY <1>1, <1>3, NextNode DEF NodeDone
  <2>2. \A k \in 1 .. id' - 1 : k \in 1 .. id - 1 \/ k = id
    BY <1>1, <2>1
  <2>3. 1 .. id - 1 \subseteq 1 .. id' - 1 /\ id \in 1 .. id' - 1
    BY <1>1, <2>1
  <2>4. Schedule[i].name = Schedule[id].name => i = id
    BY <1>1, SchedulePositions DEF NamesApart
  <2>5. Ran(Schedule[i].name)' <=> \E k \in 1 .. id' - 1 : Schedule[k].name = Schedule[i].name
    BY DEF Ran
  <2>6. Ran(Schedule[i].name) <=> \E k \in 1 .. id - 1 : Schedule[k].name = Schedule[i].name
    BY DEF Ran
  <2>7. Ran(Schedule[i].name)' <=> Ran(Schedule[i].name) \/ i = id
    BY <2>2, <2>3, <2>4, <2>5, <2>6
  <2> QED
    BY <1>2, <1>3, <2>7
<1>4. CASE id = Len(Schedule)
  <2>1. id' = 1
    BY <1>1, <1>4, NextNode DEF NodeDone
  <2>2. i \in 1 .. id - 1 \/ i = id
    BY <1>1, <1>4
  <2> QED
    BY <1>1, <1>2, <1>4, <2>1, <2>2 DEF Ran
<1> QED
  BY <1>1, <1>3, <1>4

\* A node that is done has fired once more.
LEMMA FiringsNext ==
  ASSUME TypeOK, NamesApart, NodeDone
  PROVE  Firings' = [Firings EXCEPT ![Schedule[id].name] = (@ + 1) % 2]
<1>1. id \in 1 .. Len(Schedule) /\ Len(Schedule) \in Nat \ {0}
  BY ScheduleLen DEF TypeOK
<1>2. round \in {0, 1}
  BY DEF TypeOK, Rounds
<1> SUFFICES ASSUME NEW n \in Names
             PROVE  Firings'[n] = IF n = Schedule[id].name THEN (Firings[n] + 1) % 2 ELSE Firings[n]
  BY DEF Firings
<1>3. PICK i \in DOMAIN Schedule : n = Schedule[i].name
  BY DEF Names
<1>4. n = Schedule[id].name <=> i = id
  BY <1>1, <1>3, SchedulePositions DEF NamesApart
<1>5. Firings[n] = IF Ran(n) THEN 1 - round ELSE round
  BY DEF Firings
<1>6. Firings'[n] = IF Ran(n)' THEN 1 - round' ELSE round'
  BY DEF Firings
<1>7. round' = IF id = Len(Schedule) THEN 1 - round ELSE round
  BY DEF NodeDone
<1>8. /\ id < Len(Schedule) => (Ran(n)' <=> Ran(n) \/ i = id)
      /\ id = Len(Schedule) => ~ Ran(n)' /\ (Ran(n) \/ i = id)
      /\ i = id => ~ Ran(n)
  BY <1>3, RanNext
<1>9. (round + 1) % 2 = 1 - round
  BY <1>2
<1>10. CASE id < Len(Schedule)
  BY <1>2, <1>4, <1>5, <1>6, <1>7, <1>8, <1>9, <1>10
<1>11. CASE id = Len(Schedule)
  BY <1>2, <1>4, <1>5, <1>6, <1>7, <1>8, <1>9, <1>11
<1> QED
  BY <1>1, <1>10, <1>11

\* A connection starts to wait when its first node is done, waits for its
\* second node, and has done so when that one is done.
LEMMA WaitsNext ==
  ASSUME TypeOK, NamesApart, NodeDone, NEW c, NEW a, NEW t, Leads(c, a, t)
  PROVE  /\ c.from = Schedule[id].name => ~ Waits(c) /\ Waits(c)' /\ round' = round
         /\ c.to = Schedule[id].name => Waits(c) /\ ~ Waits(c)' /\ c.from # Schedule[id].name
         /\ c.from # Schedule[id].name /\ c.to # Schedule[id].name => (Waits(c)' <=> Waits(c))
         /\ Waits(c) /\ Waits(c)' => round' = round
<1>1. id \in 1 .. Len(Schedule) /\ Len(Schedule) \in Nat \ {0}
  BY ScheduleLen DEF TypeOK
<1>2. a \in 1 .. Len(Schedule) /\ t \in 1 .. Len(Schedule) /\ a < t
  BY SchedulePositions DEF Leads
<1>3. (c.from = Schedule[id].name <=> a = id) /\ (c.to = Schedule[id].name <=> t = id)
  BY <1>1, <1>2, SchedulePositions DEF Leads, NamesApart
<1>4. Waits(c) <=> id \in a + 1 .. t
  BY WaitsBetween
<1>5. CASE id < Len(Schedule)
  <2>1. id' = id + 1 /\ round' = round
    BY <1>1, <1>5, NextNode DEF NodeDone
  <2>2. Waits(c)' <=> Ran(c.from)' /\ ~ Ran(c.to)'
    BY DEF Waits
  <2>3. (Ran(c.from)' <=> Ran(c.from) \/ a = id) /\ (Ran(c.to)' <=> Ran(c.to) \/ t = id)
    BY <1>2, <1>5, RanNext, SchedulePositions DEF Leads
  <2>4. (Ran(c.from) <=> a < id) /\ (Ran(c.to) <=> t < id)
    BY WaitsBetween
  <2> QED
    BY <1>1, <1>2, <1>3, <1>4, <2>1, <2>2, <2>3, <2>4
<1>6. CASE id = Len(Schedule)
  <2>1. ~ Ran(c.from)'
    BY <1>2, <1>6, RanNext, SchedulePositions DEF Leads
  <2>2. ~ Waits(c)'
    BY <2>1 DEF Waits
  <2> QED
    BY <1>1, <1>2, <1>3, <1>4, <1>6, <2>2
<1> QED
  BY <1>1, <1>5, <1>6

\* A node that is done does what it would do with queues of its own.
LEMMA NodeFires ==
  ASSUME TypeOK, GraphSound, NodeDone, PendingInv, PendingInv'
  PROVE  Flow!Fire(Schedule[id].name)
<1> DEFINE n == Schedule[id].name
           Rest(c) == IF c.to = n THEN Tail(Pending[c]) ELSE Pending[c]
<1>1. NamesApart /\ id \in DOMAIN Schedule
  BY SchedulePositions DEF GraphSound, TypeOK
<1>2. Firings' = [Firings EXCEPT ![n] = (@ + 1) % 2]
  BY <1>1, FiringsNext
<1>3. Firings[n] = round
  BY <1>1, RanNext DEF Firings, Names
<1>4. ASSUME NEW c \in Connections
      PROVE  /\ Pending[c] = IF Waits(c) THEN <<round>> ELSE <<>>
             /\ Pending'[c] = IF Waits(c)' THEN <<round'>> ELSE <<>>
  BY DEF PendingInv
<1>5. ASSUME NEW c \in Connections
      PROVE  /\ c.to = n => Pending[c] # <<>>
             /\ Pending'[c] = IF c.from = n THEN Append(Rest(c), round) ELSE Rest(c)
  <2>1. PICK a \in DOMAIN Schedule, t \in DOMAIN Schedule : Leads(c, a, t)
    BY DEF GraphSound
  <2>2. /\ c.from = n => ~ Waits(c) /\ Waits(c)' /\ round' = round
        /\ c.to = n => Waits(c) /\ ~ Waits(c)' /\ c.from # n
        /\ c.from # n /\ c.to # n => (Waits(c)' <=> Waits(c))
        /\ Waits(c) /\ Waits(c)' => round' = round
    BY <1>1, <2>1, WaitsNext
  <2>3. Tail(<<round>>) = <<>> /\ Append(<<>>, round) = <<round>> /\ <<round>> # <<>>
    OBVIOUS
  <2>4. CASE c.to = n
    BY <1>4, <2>2, <2>3, <2>4
  <2>5. CASE c.from = n
    BY <1>4, <2>2, <2>3, <2>5
  <2>6. CASE c.from # n /\ c.to # n
    BY <1>4, <2>2, <2>6
  <2> QED
    BY <2>4, <2>5, <2>6
<1>6. Pending' = [c \in Connections |-> IF c.from = n THEN Append(Rest(c), Firings[n]) ELSE Rest(c)]
  <2>1. Pending' = [c \in Connections |-> Pending'[c]]
    BY DEF PendingInv
  <2> HIDE DEF Rest, n
  <2> QED
    BY <1>3, <1>5, <2>1
<1> QED
  BY <1>2, <1>5, <1>6 DEF Flow!Fire

\* A step that moves no node and changes no buffer changes no connection.
LEMMA FlowStutters ==
  ASSUME UNCHANGED <<id, round, content>>
  PROVE  UNCHANGED Flow!vars
<1>1. \A n : Ran(n)' <=> Ran(n)
  BY DEF Ran
<1>2. Firings' = Firings
  BY <1>1 DEF Firings
<1>3. \A c : Carrier(c)' = Carrier(c)
  BY DEF Carrier
<1>4. Pending' = Pending
  BY <1>1, <1>3 DEF Pending
<1> QED
  BY <1>2, <1>4 DEF Flow!vars

\* Every step is the firing of a node of the graph, or changes none of its
\* connections.
LEMMA FlowStep ==
  ASSUME GraphSound
  PROVE  TypeOK /\ PendingInv /\ PendingInv' /\ [Next]_vars => [Flow!Next]_Flow!vars
<1> SUFFICES ASSUME TypeOK, PendingInv, PendingInv', [Next]_vars
             PROVE  [Flow!Next]_Flow!vars
  OBVIOUS
<1> USE DEF data
<1>0. ASSUME NodeDone PROVE Flow!Next
  <2>1. Schedule[id].name \in Names
    BY SchedulePositions DEF Names, TypeOK
  <2> QED
    BY <1>0, <2>1, NodeFires DEF Flow!Next
<1>1. CASE Check
  BY <1>1, FlowStutters DEF Check
<1>2. CASE Compute
  BY <1>0, <1>2 DEF Compute
<1>3. CASE SourceRun
  BY <1>3, FlowStutters DEF SourceRun
<1>4. CASE SourceStartFails
  BY <1>4, FlowStutters DEF SourceStartFails, NodeFails
<1>5. CASE SourceWait
  BY <1>5, FlowStutters DEF SourceWait, NodeFails
<1>6. CASE SourceGet
  BY <1>0, <1>6, FlowStutters DEF SourceGet, NodeFails
<1>7. CASE SinkStart
  BY <1>7, FlowStutters DEF SinkStart
<1>8. CASE SinkStartFails
  BY <1>8, FlowStutters DEF SinkStartFails, NodeFails
<1>9. CASE SinkTest \/ SinkClaim \/ SinkCopy
  BY <1>0, <1>9, FlowStutters DEF SinkTest, SinkClaim, SinkCopy
<1>10. CASE SinkOverflow
  BY <1>10, FlowStutters DEF SinkOverflow, NodeFails
<1>11. CASE SinkWait
  BY <1>0, <1>11, FlowStutters DEF SinkWait, NodeFails
<1>12. CASE SourceInterrupt \/ SinkInterrupt \/ SendFails \/ FifoUnderflow
  BY <1>12, FlowStutters DEF SourceInterrupt, SinkInterrupt, SendFails, FifoUnderflow
<1>13. CASE UNCHANGED vars
  BY <1>13, FlowStutters DEF vars
<1> QED
  BY <1>1, <1>2, <1>3, <1>4, <1>5, <1>6, <1>7, <1>8, <1>9, <1>10, <1>11, <1>12, <1>13
  DEF Next, StreamThread

\* At first no node has fired and no connection holds a block.
LEMMA FlowInit == Init => Flow!Init
<1> SUFFICES ASSUME Init PROVE Flow!Init
  OBVIOUS
<1>1. \A n : ~ Ran(n)
  BY DEF Init, Ran
<1> QED
  BY <1>1 DEF Init, Flow!Init, Pending, Firings

\* Whatever schedule of nodes and sharing of buffers respects the graph, run
\* with whatever interrupts: the nodes do what they would do if each
\* connection had a queue of its own.
THEOREM DataFlowImplemented ==
  ASSUME ScheduleSound, GraphSound
  PROVE  Spec => ImplementsDataFlow
<1>1. Init => LeftInv
  BY DEF Init, LeftInv
<1>2. TypeOK /\ PlaceInv /\ LeftInv /\ [Next]_vars => LeftInv'
  BY LeftNext
<1>3. TypeOK /\ LeftInv => PendingInv
  BY PendingShape
<1>4. TypeOK /\ PendingInv /\ PendingInv' /\ [Next]_vars => [Flow!Next]_Flow!vars
  BY FlowStep
<1> QED
  BY <1>1, <1>2, <1>3, <1>4, FlowInit, TypeCorrectness, PTL
  DEF Spec, ImplementsDataFlow, Flow!Spec

\* With such a schedule no connection ever needs room for a second block, and
\* the one it holds is of this iteration and still whole in a shared buffer:
\* the FIFOs, each of the length of one block, suffice.
THEOREM OneBlockWaits ==
  ASSUME ScheduleSound, GraphSound
  PROVE  Spec => []PendingInv
<1>1. Init => LeftInv
  BY DEF Init, LeftInv
<1>2. TypeOK /\ PlaceInv /\ LeftInv /\ [Next]_vars => LeftInv'
  BY LeftNext
<1>3. TypeOK /\ LeftInv => PendingInv
  BY PendingShape
<1> QED
  BY <1>1, <1>2, <1>3, TypeCorrectness, PTL DEF Spec

(***************************************************************************)
(* The generated schedule.                                                 *)
(***************************************************************************)

\* The constants that scheduler.cpp fixes; the rest of them are free.
AsGenerated ==
  /\ Schedule \in {SilentGraph, SpeakerGraph}
  /\ BufferOf = FifoBuffer
  /\ SignalOf = Signal
  /\ FittingFifos = Fitting
  /\ Connections = the_graph

\* The nodes in their order.
LEMMA GeneratedNodes ==
  ASSUME AsGenerated
  PROVE  /\ DOMAIN Schedule = 1 .. 19
         /\ Schedule[1] = Node("audioSource", "source", {}, {0})
         /\ Schedule[2] = Node("to_f32", "compute", {0}, {1})
         /\ Schedule[3] = Node("deinterleave", "compute", {1}, {14, 17})
         /\ Schedule[4] = Node("dup0", "compute", {14}, {15})
         /\ Schedule[5] = Node("winLeft", "compute", {15}, {2})
         /\ Schedule[6] = Node("toComplexLeft", "compute", {2}, {4})
         /\ Schedule[7] = Node("fftLeft", "compute", {4}, {6})
         /\ Schedule[8] = Node("spectrogramLeft", "compute", {6}, {})
         /\ Schedule[9] = Node("dup1", "compute", {17}, {})
         /\ Schedule[10] = Node("winRight", "compute", {18}, {3})
         /\ Schedule[11] = Node("toComplexRight", "compute", {3}, {5})
         /\ Schedule[12] = Node("fftRight", "compute", {5}, {7})
         /\ Schedule[13] = Node("spectrogramRight", "compute", {7}, {})
         /\ Schedule[14] = Node("mixer", "compute", {16, 19}, {8, 9})
         /\ Schedule[15] = Node("srcLeft", "compute", {8}, {10})
         /\ Schedule[16] = Node("srcRight", "compute", {9}, {11})
         /\ Schedule[17] = Node("interleave", "compute", {10, 11}, {12})
         /\ Schedule[18] = Node("to_q15", "compute", {12}, {13})
         /\ Schedule[19] \in {Node("audioSink", "compute", {13}, {}), Node("audioSink", "sink", {13}, {})}
<1>1. DOMAIN schedule = 1 .. 19 /\ Len(schedule) = 19
  BY DEF schedule
<1>2. \A i \in 1 .. 19 : Generated[i] = nodes[schedule[i]]
  BY <1>1 DEF Generated
<1>3. DOMAIN Generated = 1 .. 19 /\ Len(Generated) = 19
  BY <1>1 DEF Generated
<1>4. DOMAIN Schedule = 1 .. 19 /\ \A i \in 1 .. 18 : Schedule[i] = nodes[schedule[i]]
  BY <1>2, <1>3 DEF AsGenerated, SilentGraph, SpeakerGraph
<1>5. Schedule[19] \in {nodes[schedule[19]], VStreamAudioSink("audioSink", 13)}
  BY <1>2, <1>3 DEF AsGenerated, SilentGraph, SpeakerGraph
<1> QED
  BY <1>4, <1>5, SMTT(60)
  DEF nodes, schedule, VStreamAudioSource, VStreamAudioSink, NullSink, Convert,
      DeinterleaveStereo, InterleaveStereo, Duplicate, Hanning, RealToComplex, CFFT, Spectrogram,
      Mixer, SRC

\* The buffer of each FIFO.
LEMMA GeneratedBuffers ==
  ASSUME AsGenerated
  PROVE  /\ Fifos = 0 .. 19
         /\ BufferOf[1] = 0 /\ BufferOf[10] = 0 /\ BufferOf[13] = 0 /\ BufferOf[15] = 0
         /\ BufferOf[16] = 0
         /\ BufferOf[0] = 1 /\ BufferOf[11] = 1 /\ BufferOf[17] = 1 /\ BufferOf[18] = 1
         /\ BufferOf[19] = 1
         /\ BufferOf[2] = 2 /\ BufferOf[3] = 2 /\ BufferOf[6] = 2 /\ BufferOf[7] = 2
         /\ BufferOf[9] = 2 /\ BufferOf[12] = 2 /\ BufferOf[14] = 2
         /\ BufferOf[4] = 3 /\ BufferOf[5] = 3 /\ BufferOf[8] = 3
BY SMTT(60) DEF AsGenerated, Fifos, FifoBuffer, AllFifos

\* The outputs of a Duplicate node carry the signal of its input.
LEMMA GeneratedSignals ==
  ASSUME AsGenerated
  PROVE  \A f \in Fifos : SignalOf[f] = IF f \in {15, 16} THEN 14
                                        ELSE IF f \in {18, 19} THEN 17 ELSE f
BY SMTT(60) DEF AsGenerated, Fifos, FifoBuffer, AllFifos, Signal

\* All FIFOs fit: none is larger than its buffer.
LEMMA GeneratedSizes ==
  ASSUME AsGenerated
  PROVE  Fifos \subseteq FittingFifos
<1> SUFFICES ASSUME NEW f \in 0 .. 19
             PROVE  FifoSize[f] * SampleBytes[f] <= BufferSize[FifoBuffer[f]]
  BY DEF AsGenerated, Fitting, Fifos, FifoBuffer, AllFifos
<1>1. FifoSize[f] = IF f \in 10 .. 13 THEN 1536 ELSE 512
  BY DEF FifoSize, AllFifos
<1>2. SampleBytes[f] = IF f \in {1, 4, 5, 6, 7, 12} THEN 8 ELSE 4
  BY SMTT(60) DEF SampleBytes, AllFifos
<1>3. FifoBuffer[f] = IF f \in {1, 10, 13, 15, 16} THEN 0
                      ELSE IF f \in {0, 11, 17, 18, 19} THEN 1
                      ELSE IF f \in {4, 5, 8} THEN 3 ELSE 2
  BY SMTT(60) DEF FifoBuffer, AllFifos
<1>4. BufferSize[0] = 6144 /\ BufferSize[1] = 6144 /\ BufferSize[2] = 12288 /\ BufferSize[3] = 4096
  BY SMTT(60) DEF BufferSize, NbBuffers
<1> QED
  BY <1>1, <1>2, <1>3, <1>4

\* The buffers that each node writes.
LEMMA GeneratedWrites ==
  ASSUME AsGenerated, NEW b
  PROVE  /\ (Writes(Schedule[1], b) <=> b = 1)
         /\ (Writes(Schedule[2], b) <=> b = 0)
         /\ (Writes(Schedule[3], b) <=> b = 2 \/ b = 1)
         /\ (Writes(Schedule[4], b) <=> b = 0)
         /\ (Writes(Schedule[5], b) <=> b = 2)
         /\ (Writes(Schedule[6], b) <=> b = 3)
         /\ (Writes(Schedule[7], b) <=> b = 2)
         /\ ~ Writes(Schedule[8], b)
         /\ ~ Writes(Schedule[9], b)
         /\ (Writes(Schedule[10], b) <=> b = 2)
         /\ (Writes(Schedule[11], b) <=> b = 3)
         /\ (Writes(Schedule[12], b) <=> b = 2)
         /\ ~ Writes(Schedule[13], b)
         /\ (Writes(Schedule[14], b) <=> b = 3 \/ b = 2)
         /\ (Writes(Schedule[15], b) <=> b = 0)
         /\ (Writes(Schedule[16], b) <=> b = 1)
         /\ (Writes(Schedule[17], b) <=> b = 2)
         /\ (Writes(Schedule[18], b) <=> b = 0)
         /\ ~ Writes(Schedule[19], b)
BY GeneratedNodes, GeneratedBuffers DEF Writes, Node

\* Where each FIFO is written and, before anything else is written to its
\* buffer, read.
LEMMA GeneratedOrder ==
  ASSUME AsGenerated
  PROVE  /\ WrittenBefore(0, 1, 2)
         /\ WrittenBefore(1, 2, 3)
         /\ WrittenBefore(14, 3, 4)
         /\ WrittenBefore(15, 4, 5)
         /\ WrittenBefore(2, 5, 6)
         /\ WrittenBefore(4, 6, 7)
         /\ WrittenBefore(6, 7, 8)
         /\ WrittenBefore(17, 3, 9)
         /\ WrittenBefore(18, 3, 10)
         /\ WrittenBefore(3, 10, 11)
         /\ WrittenBefore(5, 11, 12)
         /\ WrittenBefore(7, 12, 13)
         /\ WrittenBefore(16, 4, 14)
         /\ WrittenBefore(19, 3, 14)
         /\ WrittenBefore(8, 14, 15)
         /\ WrittenBefore(9, 14, 16)
         /\ WrittenBefore(10, 15, 17)
         /\ WrittenBefore(11, 16, 17)
         /\ WrittenBefore(12, 17, 18)
         /\ WrittenBefore(13, 18, 19)
<1> USE GeneratedNodes, GeneratedBuffers, GeneratedSignals
<1>1. /\ WritesSignal(Schedule[1], 0)
      /\ WritesSignal(Schedule[2], 1)
      /\ \A f \in {14, 17, 18, 19} : WritesSignal(Schedule[3], f)
      /\ \A f \in {15, 16} : WritesSignal(Schedule[4], f)
      /\ WritesSignal(Schedule[5], 2)
      /\ WritesSignal(Schedule[6], 4)
      /\ WritesSignal(Schedule[7], 6)
      /\ WritesSignal(Schedule[10], 3)
      /\ WritesSignal(Schedule[11], 5)
      /\ WritesSignal(Schedule[12], 7)
      /\ \A f \in {8, 9} : WritesSignal(Schedule[14], f)
      /\ WritesSignal(Schedule[15], 10)
      /\ WritesSignal(Schedule[16], 11)
      /\ WritesSignal(Schedule[17], 12)
      /\ WritesSignal(Schedule[18], 13)
  BY DEF WritesSignal, Node
<1> QED
  BY <1>1, GeneratedWrites, SMTT(60) DEF WrittenBefore

\* The order of the generated schedule is sound.
THEOREM GeneratedScheduleSound ==
  ASSUME AsGenerated
  PROVE  ScheduleSound
<1> SUFFICES ASSUME NEW i \in 1 .. 19
             PROVE  SoundAt(i)
  BY GeneratedNodes DEF ScheduleSound
<1>1. /\ \A f \in Schedule[i].reads, g \in Schedule[i].writes : BufferOf[f] # BufferOf[g]
      /\ \A f, g \in Schedule[i].writes : BufferOf[f] = BufferOf[g] => f = g
      /\ Schedule[i].writes \subseteq 0 .. 19
      /\ Schedule[i].kind = "sink" => Schedule[i].writes = {}
  BY GeneratedNodes, GeneratedBuffers, SMTT(60) DEF Node
<1>2. ASSUME NEW f \in Schedule[i].reads
      PROVE  \E j \in 1 .. i - 1 : WrittenBefore(f, j, i)
  BY GeneratedNodes, GeneratedOrder, SMTT(60) DEF Node
<1> QED
  BY <1>1, <1>2, GeneratedSizes, GeneratedBuffers DEF SoundAt, Separate

\* A FIFO that the first node writes carries the connection all the way.
LEMMA CarriedDirectly ==
  ASSUME NEW c, NEW a \in Nat, NEW t \in Nat, a > 0, c.fifo \in Fifos, WrittenBefore(c.fifo, a, t),
         NEW p \in a + 1 .. t
  PROVE  Carried(c, p)
<1>1. a \in 1 .. p - 1 /\ WritesSignal(Schedule[a], c.fifo)
  BY DEF WrittenBefore
<1>2. \A f : MayCarry(c, f, p) <=> f = c.fifo
  BY <1>1 DEF MayCarry
<1>3. WrittenBefore(c.fifo, a, p)
  BY DEF WrittenBefore
<1> QED
  BY <1>1, <1>2, <1>3 DEF Carried

\* The left channel is carried by FIFO 14 until dup0 has copied it to FIFO 15,
\* which shares its buffer with FIFO 16.
LEMMA CarriedByCopy ==
  ASSUME AsGenerated, NEW c, c.from = "deinterleave", c.fifo \in {15, 16},
         NEW t \in Nat, WrittenBefore(c.fifo, 4, t), NEW p \in 4 .. t
  PROVE  Carried(c, p)
<1>1. CASE p = 4
  <2>1. \A i \in 1 .. 3 : ~ WritesSignal(Schedule[i], c.fifo)
    BY GeneratedNodes, GeneratedBuffers, GeneratedSignals DEF WritesSignal, Node
  <2>2. \A i \in 1 .. 3 : \A f : Schedule[i].name = c.from /\ f \in Schedule[i].writes <=>
                                i = 3 /\ f \in {14, 17}
    BY GeneratedNodes DEF Node
  <2>3. \A f \in Fifos : MayCarry(c, f, 4) <=> f = 14
    BY <2>1, <2>2, GeneratedBuffers, GeneratedSignals DEF MayCarry
  <2> QED
    BY <1>1, <2>3, GeneratedBuffers, GeneratedOrder DEF Carried
<1>2. CASE p # 4
  <2>1. c.fifo \in Fifos /\ p \in 4 + 1 .. t
    BY <1>2, GeneratedBuffers
  <2> QED
    BY <2>1, CarriedDirectly
<1> QED
  BY <1>1, <1>2

\* The generated schedule and its shared buffers respect the graph.
THEOREM GeneratedGraphSound ==
  ASSUME AsGenerated
  PROVE  GraphSound
<1>1. NamesApart
  BY GeneratedNodes, SMTT(60) DEF NamesApart, Node
<1> SUFFICES ASSUME NEW c \in the_graph
             PROVE  \E a, t \in 1 .. 19 : Leads(c, a, t)
  BY <1>1, GeneratedNodes DEF GraphSound, AsGenerated
<1>2. CASE c.fifo \in {15, 16}
  <2>1. /\ c.from = Schedule[3].name
        /\ c.to = Schedule[IF c.fifo = 15 THEN 5 ELSE 14].name
    BY <1>2, GeneratedNodes, SMTT(60) DEF the_graph, Connect, Node
  <2>2. c.from = "deinterleave"
    BY <1>2 DEF the_graph, Connect
  <2> DEFINE t == IF c.fifo = 15 THEN 5 ELSE 14
  <2>3. \A p \in 4 .. t : Carried(c, p)
    BY <1>2, <2>2, GeneratedOrder, CarriedByCopy
  <2> QED
    BY <1>2, <2>1, <2>3, GeneratedNodes DEF Leads
<1>3. CASE c.fifo \notin {15, 16}
  <2>1. \E a, t \in 1 .. 19 :
          /\ a < t
          /\ c.from = Schedule[a].name /\ c.to = Schedule[t].name
          /\ WrittenBefore(c.fifo, a, t)
    BY <1>3, GeneratedNodes, GeneratedOrder, SMTT(60) DEF the_graph, Connect, Node
  <2>2. c.fifo \in Fifos
    BY GeneratedBuffers DEF the_graph, Connect
  <2> QED
    BY <2>1, <2>2, CarriedDirectly, GeneratedNodes DEF Leads
<1> QED
  BY <1>2, <1>3

\* The thread is always at a node where the schedule is sound, if it is sound
\* everywhere.
LEMMA SoundEverywhere ==
  ASSUME ScheduleSound
  PROVE  Spec => []NodeSound
<1>1. TypeOK => NodeSound
  BY SchedulePositions DEF TypeOK, NodeSound, ScheduleSound
<1> QED
  BY <1>1, TypeCorrectness, PTL

\* With the generated schedule and its four buffers, with either sink,
\* whichever of the two nodes wait, and for any numbers of audio blocks: the
\* thread is always at a sound node, and finds fresh signals in its FIFOs.
THEOREM GeneratedInputsFresh ==
  ASSUME AsGenerated
  PROVE  Spec => []NodeSound /\ []InputsFresh
<1>1. ScheduleSound
  BY GeneratedScheduleSound
<1>2. Spec => []NodeSound
  BY <1>1, SoundEverywhere
<1>3. Spec => []InputsFresh
  BY <1>1, FreshInputs
<1> QED
  BY <1>2, <1>3

\* Likewise, the generated schedule implements the graph of create.py.
THEOREM GeneratedDataFlow ==
  ASSUME AsGenerated
  PROVE  Spec => ImplementsDataFlow
BY GeneratedScheduleSound, GeneratedGraphSound, DataFlowImplemented
=============================================================================
