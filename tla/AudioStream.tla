---------------------------- MODULE AudioStream ----------------------------
(***************************************************************************)
(* The stream thread: scheduler() runs the nodes of the audio graph one    *)
(* after the other, over and over, and the audio interrupts keep pace with *)
(* it through the flags of the thread.  Before each node the macro         *)
(* CG_BEFORE_NODE_EXECUTION of app_config.hpp polls the two error flags.   *)
(*                                                                         *)
(* The graph has a VStreamAudioSource, nodes that only compute, and at its *)
(* end a VStreamAudioSink or a sink that does nothing (NullSink).  Of the  *)
(* samples, "content" remembers which signal of which iteration a buffer   *)
(* holds, because several FIFOs share a buffer.                            *)
(***************************************************************************)
EXTENDS Integers, Sequences

CONSTANTS
  Schedule,     \* the nodes in the order they run: their names, their kinds
                \* and the FIFOs they read and write
  BufferOf,     \* the buffer of each FIFO
  SignalOf,     \* the signal each FIFO carries
  FittingFifos, \* the FIFOs that are not larger than their buffer
  Connections,  \* the connections of the graph: names and FIFO
  Garbage,      \* what a buffer holds at first, or samples made from wrong ones
  SourceMaster, \* master_ of the source: it waits for a block each time
  SinkMaster,   \* master_ of the sink: it waits for a block to be sent
  DriversFail,  \* the audio drivers may refuse Start, Control and Send
  SourceBlocks, \* VSTREAM_STEREO_SOURCE_BLOCK_COUNT
  SinkBlocks,   \* VSTREAM_STEREO_SINK_BLOCK_COUNT
  NoBlock       \* the SAI sends nothing

Fifos   == DOMAIN BufferOf
Buffers == {BufferOf[f] : f \in Fifos}

\* A signal of this iteration or of the one before or after it.
Rounds  == {0, 1}
Samples == {<<SignalOf[f], r>> : f \in Fifos, r \in Rounds}

ASSUME ScheduleAssumption ==
  /\ Schedule # <<>>
  /\ Schedule \in Seq([name : STRING, kind : {"source", "compute", "sink"},
                       reads : SUBSET Fifos, writes : SUBSET Fifos])
  /\ Garbage \notin Samples
  /\ {SourceMaster, SinkMaster, DriversFail} \subseteq BOOLEAN
ASSUME BlocksAssumption ==
  /\ SourceBlocks \in Nat \ {0}
  /\ SinkBlocks \in Nat \ {0}
  /\ NoBlock \notin 0 .. SinkBlocks - 1

VARIABLES
  id,    \* the node of the schedule that runs
  pc,    \* where the stream thread is in it
  round, \* nbSchedule modulo 2
  content, \* what each buffer holds: <<signal, round>> or Garbage
  error, \* cgStaticError, by the name of its code
  flags, \* the thread flags of the stream thread, as a set of bit numbers
  mic,   \* audio input: started, and the blocks that wait to be read
  out    \* audio output: started, the two indices of g_audioOutputState, the
         \* block the SAI sends, whether a Send of the interrupt has failed

data == <<round, content>>
vars == <<id, pc, data, error, flags, mic, out>>

\* The bits of rtos_events.hpp and of osFlagsErrorResource, 0xFFFFFFFD.
SourceFrame    == 0
SinkFrame      == 1
SinkUnderflow  == 2
SourceOverflow == 3
ErrorResource  == (0 .. 31) \ {1}

OutBlocks == 0 .. SinkBlocks - 1
\* After with a bug: the ring does not wrap.
After_NoWrap(b) == b + 1
After(b) == (b + 1) % SinkBlocks

Init ==
  /\ id = 1
  /\ pc = "check"
  /\ round = 0
  /\ content = [b \in Buffers |-> Garbage]
  /\ error = "none"
  /\ flags = {}
  /\ mic = [started |-> FALSE, ready |-> 0]
  /\ out = [started |-> FALSE, current |-> SinkBlocks - 1, transmit |-> 0, sending |-> NoBlock,
            failed |-> FALSE]

(***************************************************************************)
(* The scheduler.                                                          *)
(***************************************************************************)

\* What osThreadFlagsWait(mask, osFlagsWaitAny, 0) returns: all the flags.
Poll(mask) == IF flags \cap mask = {} THEN ErrorResource ELSE flags

\* CG_BEFORE_NODE_EXECUTION: the flags are cleared; any bit in common with the
\* error code is taken for an error of the poll.
Check ==
  LET mask   == {SinkUnderflow, SourceOverflow}
      polled == Poll(mask)
      kept   == IF polled \cap ErrorResource # {} THEN {} ELSE polled
  IN  /\ pc = "check"
      /\ flags' = flags \ mask
      /\ IF SourceOverflow \in kept
           THEN error' = "overflow" /\ pc' = "end"
           ELSE pc' = "run" /\ UNCHANGED error
      /\ UNCHANGED <<id, data, mic, out>>

\* The node returns CG_SUCCESS; after the last one a new iteration begins.
NodeDone ==
  /\ pc' = "check"
  /\ id' = (id % Len(Schedule)) + 1
  /\ round' = IF id = Len(Schedule) THEN 1 - round ELSE round
  /\ UNCHANGED error

\* Its error ends the schedule.
NodeFails(code) ==
  /\ pc' = "end"
  /\ error' = code
  /\ UNCHANGED <<id, data>>

Running(kind) == pc = "run" /\ Schedule[id].kind = kind

\* The FIFO holds its signal of this iteration.
Fresh(f) == content[BufferOf[f]] = <<SignalOf[f], round>>

\* A node writes no buffer it reads, one FIFO into each buffer, and into the
\* length of the buffer.
Separate(node) ==
  /\ \A f \in node.reads, g \in node.writes : BufferOf[f] # BufferOf[g]
  /\ \A f, g \in node.writes : BufferOf[f] = BufferOf[g] => f = g
  /\ node.writes \subseteq FittingFifos

Writes(node, b) == \E f \in node.writes : BufferOf[f] = b

\* getReadBuffer and getWriteBuffer are the start of the buffer.  A node makes
\* its output signals out of its inputs, or garbage out of anything else.
WriteOutputs(node) ==
  content' = [b \in Buffers |->
    IF ~ Writes(node, b) THEN content[b]
    ELSE IF Separate(node) /\ \A f \in node.reads : Fresh(f)
      THEN LET f == CHOOSE f \in node.writes : BufferOf[f] = b
           IN  <<SignalOf[f], round>>
      ELSE Garbage]

Compute ==
  /\ Running("compute")
  /\ WriteOutputs(Schedule[id])
  /\ NodeDone
  /\ UNCHANGED <<flags, mic, out>>

(***************************************************************************)
(* VStreamAudioSource::run.                                                *)
(***************************************************************************)

\* The first call starts the stream and waits; later a master waits.
SourceRun ==
  /\ Running("source")
  /\ pc' = IF ~mic.started THEN "first" ELSE IF SourceMaster THEN "wait" ELSE "get"
  /\ mic' = [mic EXCEPT !.started = TRUE]
  /\ UNCHANGED <<id, data, error, flags, out>>

SourceStartFails ==
  /\ DriversFail
  /\ Running("source")
  /\ ~mic.started
  /\ NodeFails("init")
  /\ UNCHANGED <<flags, mic, out>>

\* SourceWait with a bug: the flags are not cleared.
SourceWait_Keeps ==
  /\ pc \in {"first", "wait"}
  /\ flags \cap {SourceFrame, SourceOverflow} # {}
  /\ IF pc = "wait" /\ SourceOverflow \in flags
       THEN NodeFails("overflow")
       ELSE pc' = "get" /\ UNCHANGED <<id, data, error>>
  /\ UNCHANGED <<flags, mic, out>>

SourceWait ==
  /\ pc \in {"first", "wait"}
  /\ flags \cap {SourceFrame, SourceOverflow} # {}
  /\ flags' = flags \ {SourceFrame, SourceOverflow}
  /\ IF pc = "wait" /\ SourceOverflow \in flags
       THEN NodeFails("overflow")
       ELSE pc' = "get" /\ UNCHANGED <<id, data, error>>
  /\ UNCHANGED <<mic, out>>

\* GetBlock, the copy, ReleaseBlock; no block is an underflow.
SourceGet ==
  /\ pc = "get"
  /\ IF mic.ready > 0
       THEN mic' = [mic EXCEPT !.ready = @ - 1] /\ WriteOutputs(Schedule[id]) /\ NodeDone
       ELSE NodeFails("underflow") /\ UNCHANGED mic
  /\ UNCHANGED <<flags, out>>

(***************************************************************************)
(* VStreamAudioSink::run.                                                  *)
(***************************************************************************)

\* The first call starts the SAI with the first block of the ring.
SinkStart ==
  /\ Running("sink")
  /\ pc' = "write"
  /\ out' = IF out.started THEN out ELSE [out EXCEPT !.started = TRUE, !.sending = 0]
  /\ UNCHANGED <<id, data, error, flags, mic>>

\* Control or Send fails.
SinkStartFails ==
  /\ DriversFail
  /\ Running("sink")
  /\ ~out.started
  /\ \E code \in {"os", "underflow"} : NodeFails(code)
  /\ UNCHANGED <<flags, mic, out>>

\* SinkFull with a bug: the ring is not tested.
SinkFull_Never == FALSE

\* getCurrentBlock; no block is an overflow.
SinkFull == out.current = out.transmit

SinkTest ==
  /\ pc = "write"
  /\ ~SinkFull
  /\ pc' = "claim"
  /\ UNCHANGED <<id, data, error, flags, mic, out>>

\* The block at currentIndex is taken; the SAI may have gone on since the test.
SinkClaim ==
  /\ pc = "claim"
  /\ pc' = "copy"
  /\ out' = [out EXCEPT !.current = After(@)]
  /\ UNCHANGED <<id, data, error, flags, mic>>

\* The block that SinkClaim has taken: oldIndex.
Claimed == (out.current + SinkBlocks - 1) % SinkBlocks

\* The copy to the block.
SinkCopy ==
  /\ pc = "copy"
  /\ IF SinkMaster
       THEN pc' = "sink_wait" /\ UNCHANGED <<id, round, error>>
       ELSE NodeDone
  /\ UNCHANGED <<content, flags, mic, out>>

SinkOverflow ==
  /\ pc = "write"
  /\ SinkFull
  /\ NodeFails("overflow")
  /\ UNCHANGED <<flags, mic, out>>

SinkWait ==
  /\ pc = "sink_wait"
  /\ flags \cap {SinkFrame, SinkUnderflow} # {}
  /\ flags' = flags \ {SinkFrame, SinkUnderflow}
  /\ IF SinkUnderflow \in flags THEN NodeFails("underflow") ELSE NodeDone
  /\ UNCHANGED <<content, mic, out>>

(***************************************************************************)
(* Interrupts.                                                             *)
(***************************************************************************)

\* AudioSourceDrv_Event_Callback: the input driver (external) has filled a
\* block; it overflows when it has no other block to fill.
SourceInterrupt ==
  /\ mic.started
  /\ mic' = [mic EXCEPT !.ready = IF @ < SourceBlocks THEN @ + 1 ELSE @]
  /\ flags' = flags \cup {SourceFrame}
                    \cup IF mic.ready + 1 >= SourceBlocks THEN {SourceOverflow} ELSE {}
  /\ UNCHANGED <<id, pc, data, error, out>>

\* SinkInterrupt with a bug: an empty ring is reported like a block sent.
SinkInterrupt_Silent ==
  /\ out.sending # NoBlock
  /\ out' = [out EXCEPT !.transmit = After(@),
                         !.sending = IF After(out.transmit) = out.current THEN NoBlock
                                     ELSE out.transmit]
  /\ flags' = flags \cup {SinkFrame}
  /\ UNCHANGED <<id, pc, data, error, mic>>

\* ARM_SAI_SignalEvent, SEND_COMPLETE: the block at transmitIndex is next,
\* unless the index then meets currentIndex.
SinkInterrupt ==
  /\ out.sending # NoBlock
  /\ IF After(out.transmit) = out.current
       THEN /\ out' = [out EXCEPT !.transmit = After(@), !.sending = NoBlock]
            /\ flags' = flags \cup {SinkUnderflow}
       ELSE /\ out' = [out EXCEPT !.transmit = After(@), !.sending = out.transmit]
            /\ flags' = flags \cup {SinkFrame}
  /\ UNCHANGED <<id, pc, data, error, mic>>

\* The same, when Send fails: both flags.
SendFails ==
  /\ DriversFail
  /\ out.sending # NoBlock
  /\ After(out.transmit) # out.current
  /\ out' = [out EXCEPT !.transmit = After(@), !.sending = NoBlock, !.failed = TRUE]
  /\ flags' = flags \cup {SinkFrame, SinkUnderflow}
  /\ UNCHANGED <<id, pc, data, error, mic>>

\* TX_UNDERFLOW: the FIFO of the SAI was not fed in time.
FifoUnderflow ==
  /\ out.sending # NoBlock
  /\ flags' = flags \cup {SinkUnderflow}
  /\ UNCHANGED <<id, pc, data, error, mic, out>>

(***************************************************************************)
(* Specification.  The nodes return; the audio clock never stops.          *)
(***************************************************************************)

StreamThread ==
  \/ Check
  \/ Compute
  \/ SourceRun
  \/ SourceStartFails
  \/ SourceWait
  \/ SourceGet
  \/ SinkStart
  \/ SinkStartFails
  \/ SinkTest
  \/ SinkClaim
  \/ SinkCopy
  \/ SinkOverflow
  \/ SinkWait

Next ==
  \/ StreamThread
  \/ SourceInterrupt
  \/ SinkInterrupt
  \/ SendFails
  \/ FifoUnderflow

Spec == Init /\ [][Next]_vars

Fairness == WF_vars(StreamThread) /\ WF_vars(SourceInterrupt) /\ WF_vars(SinkInterrupt)

FairSpec == Spec /\ Fairness

(***************************************************************************)
(* Properties.                                                             *)
(***************************************************************************)

TypeOK ==
  /\ id \in 1 .. Len(Schedule)
  /\ pc \in {"check", "run", "first", "wait", "get", "write", "claim", "copy",
            "sink_wait", "end"}
  /\ round \in Rounds
  /\ content \in [Buffers -> Samples \cup {Garbage}]
  /\ error \in {"none", "init", "os", "overflow", "underflow"}
  /\ flags \subseteq {SourceFrame, SinkFrame, SinkUnderflow, SourceOverflow}
  /\ mic \in [started : BOOLEAN, ready : 0 .. SourceBlocks]
  /\ out \in [started : BOOLEAN, current : OutBlocks, transmit : OutBlocks,
              sending : OutBlocks \cup {NoBlock}, failed : BOOLEAN]

\* The node writes the signal of f, and to the buffer of f.
WritesSignal(node, f) ==
  \E g \in node.writes : BufferOf[g] = BufferOf[f] /\ SignalOf[g] = SignalOf[f]

\* The order of the schedule keeps the buffers apart: each FIFO that the node
\* at i reads was written by a node before it in the same iteration, and no
\* node in between writes to its buffer.
WrittenBefore(f, j, i) ==
  /\ WritesSignal(Schedule[j], f)
  /\ \A k \in j + 1 .. i - 1 : ~ Writes(Schedule[k], BufferOf[f])

SoundAt(i) ==
  /\ Separate(Schedule[i])
  /\ Schedule[i].kind = "sink" => Schedule[i].writes = {}
  /\ \A f \in Schedule[i].reads : \E j \in 1 .. i - 1 : WrittenBefore(f, j, i)

ScheduleSound == \A i \in DOMAIN Schedule : SoundAt(i)

\* Whatever node the thread has reached, the schedule is sound there: a run
\* that goes through the whole schedule checks it for every node.
NodeSound == SoundAt(id)

\* Although the FIFOs share four buffers, and whatever the interrupts do, a
\* node finds in each of its FIFOs the signal of this very iteration.
InputsFresh == \A f \in Schedule[id].reads : Fresh(f)

(***************************************************************************)
(* The schedule implements the data flow graph: a connection holds a block *)
(* after its first node has run and until its second node has.             *)
(***************************************************************************)

Names == {Schedule[i].name : i \in DOMAIN Schedule}
Ran(n) == \E i \in 1 .. id - 1 : Schedule[i].name = n

Firings == [n \in Names |-> IF Ran(n) THEN 1 - round ELSE round]

\* The FIFO that holds the block of a connection: until a Duplicate node has
\* copied it, the one that the first node writes.
Carrier(c) ==
  IF \E i \in 1 .. id - 1 : WritesSignal(Schedule[i], c.fifo) THEN c.fifo
  ELSE CHOOSE f \in Fifos :
         /\ SignalOf[f] = SignalOf[c.fifo]
         /\ \E i \in 1 .. id - 1 : Schedule[i].name = c.from /\ f \in Schedule[i].writes

Pending ==
  [c \in Connections |->
     IF Ran(c.from) /\ ~ Ran(c.to)
       THEN LET found == content[BufferOf[Carrier(c)]]
            IN  IF \E r \in Rounds : found = <<SignalOf[c.fifo], r>>
                  THEN <<found[2]>> ELSE <<Garbage>>
       ELSE <<>>]

Flow == INSTANCE DataFlow WITH Nodes <- Names, NbRounds <- 2, q <- Pending, fired <- Firings

\* Run one after the other over shared buffers, the nodes do what they would
\* do with a queue of its own for each connection of the graph.
ImplementsDataFlow == Flow!Spec

\* A flag counts to one, so two blocks may come with one flag; but a flag, or a
\* wait that has returned, always stands for a block: a master source never
\* finds the input empty, and so never ends the schedule with an underflow.
FlagMeansBlock ==
  SourceMaster /\ pc = "get" => mic.ready > 0

\* When the ring of the output runs dry nothing is sent any more and no flag
\* would come: the schedule ends in the end, although the macro may have
\* cleared the flag that says so before the sink looks at it.  (When a Send
\* has failed and the macro clears that flag, the thread does wait for ever.)
UnderflowStops ==
  (out.started /\ out.sending = NoBlock /\ ~out.failed) ~> pc = "end"

\* The interrupt can make the ring of the output dry anywhere, also between
\* the test of the ring and the copy, and the thread still writes that block.
\* Once the ring is dry, a sink that waits for its blocks ends the schedule: if
\* it was past the test, the flag that ends its wait is set and no poll of the
\* macro comes before that wait; anywhere else it will find no block to write.
DryNoticed ==
  SinkMaster /\ out.started /\ out.sending = NoBlock /\ ~out.failed =>
    IF pc \in {"claim", "copy", "sink_wait"}
      THEN SinkUnderflow \in flags
      ELSE out.current = out.transmit \/ pc = "end"

\* "No new block available": getCurrentBlock hands out a block to write only
\* when one is free, so the thread never writes into the block the SAI sends.
NoWriteInFlight == [][SinkCopy => Claimed # out.sending]_vars

\* "if (errorFlags & AUDIO_SOURCE_OVERFLOW_EVENT)": an overflow of the input
\* ends the schedule.
OverflowStops == (pc # "first" /\ SourceOverflow \in flags) ~> pc = "end"
=============================================================================
