# Verification of the Alif audio and video example

TLA+ models of the application in `App_HE`: an RTOS program with a camera, a
display, an audio stream and an event queue, generated around a data flow graph
(CMSIS Stream). The modules model its concurrency and its drivers; TLC checks
them on small instances, and TLAPS proves most of their safety properties, and that
the event queue implements its abstract specification, for all sizes.

## 1. The system

| Part | Source | State | Operations |
|---|---|---|---|
| Event queue | `stream/cpp/cg_queue.cpp`, `cg_queue.hpp`, `EventQueue.hpp` | one ring per priority (`queue`, `read`, `write`, `nb_elems`), `queue_mutex`, the thread flag of `cg_eventThread`, `mustEnd_`, `mustPause_`, `handlerReady_` | `push`, `sendAsync` to all subscribers, `execute`, `clear`, `end`, `pause`, `resume`, `setHandler`, `isEmpty` |
| Events and shared data | `StreamNode.hpp`, `cmsis_allocator.hpp` | handles (two shared pointers), mutexes, memory pools | create, copy, move, assign, reset, lock, destroy |
| Camera driver | `camera.c` | `hVideoIn`: flags, `active`, `eos`, three ring indices | `Start`, `Stop`, `GetBlock`, `ReleaseBlock`, `GetStatus`, the CPI interrupt |
| Display driver | `display/lcd.c` | `hVideoOut`: `active`, `FLAGS_START`, `idx_current` | `GetRenderingBlock`, `SwitchBuffers`, `Start`, the CDC interrupt |
| Video nodes | `app_main.cpp`, `VStreamVideoSource.hpp`, `VStreamVideoSink.hpp`, `AppDisplay.hpp` | `video_src`, `currentCameraFrame`, a thread flag | interrupt thread, `processEvent`, `renderNewFrame`, `release_video_frame` |
| Audio stream | `scheduler.cpp`, `app_config.hpp`, `VStreamAudioSource.hpp`, `VStreamAudioSink.hpp` | thread flags of `tid_stream`, two block rings | scheduler loop, error polling, `run()` of source and sink, two interrupts |
| Static schedule | `scheduler.cpp`, `GenericNodes.hpp` | buffers shared by several FIFOs | node order |
| Key word spotting | `SendToNetwork.hpp`, `TFLite.hpp`, `KWSClassify.hpp`, `KWSDisplay.hpp` | `ready`, `inputReceived`, time of the last word | send and acknowledge, frame requests |
| Start up and end | `app_main.cpp`, `scheduler.cpp` | threads, pools, nodes, queue | `app_main`, `free_scheduler` |
| Signal processing | `stream/cpp/nodes` | buffers | `run()` |

Three threads: the *stream thread* runs the schedule and sends events
asynchronously; the *interrupt thread* turns the camera's thread flag into a
`kDo` event for the video source; the *event thread* serves the queue. What
they share is the queue, the thread flags and, with the interrupts, the driver
handles. The hard behaviour is there: pushes against `execute`, the empty test
against the sleep, interrupts against calls, flags that do not count, rings at
their limits, a loop (capture, draw, release, capture) that stops if one link
fails, and times that wrap. `PROJECT.json` lists the hazards with their lines.

What makes the parts correct:
* queue: no event lost, repeated or overtaken within its priority; no sleep on
  waiting events; the right thread priority; `end` ends; expired events, and
  only those, are discarded;
* camera: the camera writes to no block a client holds or has still to read;
* video: one frame on its way at a time, drawn in order, whole when it is
  shown, and always another one as long as the hardware runs;
* audio: a flag stands for a block; errors end the schedule; the thread keeps
  off the block being sent; nodes whose FIFOs share a buffer do not disturb each
  other;
* key word spotting: the network is fed once per acknowledgement, and the
  acknowledgement is never lost between the two threads;
* shared buffers: one mutex for each object, alive while it is used; no two
  threads wait for each other; the pools do not run empty.

## 2. Modules

| Module | Models | Builds on |
|---|---|---|
| `EventQueue` | `MyQueue` and the interface over it, the threads that use it, RTOS flag and mutex | |
| `PriorityFifo` | what the queue promises: bounded FIFOs by priority | |
| `MCEventQueue` | names of the threads for TLC | `EventQueue` |
| `VStreamVideoIn` | the camera driver and the camera interface | |
| `VideoClient` | a client that uses that driver in every permitted order | `VStreamVideoIn` |
| `Lcd` | the display driver and the display controller | |
| `VideoPath` | the loop from camera to display | `VStreamVideoIn`, `Lcd`, instance of `PriorityFifo` |
| `AudioGraph` | the connections of `create.py`; the generated schedule, FIFOs and buffers | |
| `DataFlow` | what the graph promises: a queue for each connection | |
| `AudioStream` | the stream thread, audio source and sink, the contents of the buffers | instance of `DataFlow` |
| `MCAudioStream` | `AudioStream` on the generated schedule, with either sink | `AudioStream`, `AudioGraph` |
| `KeywordSpotting` | the graph of `kws.py`: stream thread, network, word on the display | instance of `PriorityFifo` |
| `SharedBuffer` | `ProtectedBuffer` handles, their mutexes and pools, two threads and the queue between them | |
| `EventQueue_proofs`, `EventQueue_refines` | theorems on `EventQueue`; the second the refinement | `EventQueue` |
| `VStreamVideoIn_proofs` | lemmas on the camera driver | `VStreamVideoIn` |
| `VideoClient_proofs`, `VideoPath_proofs` | theorems on the two users of the camera | the module, `VStreamVideoIn_proofs` |
| `AudioStream_proofs`, `KeywordSpotting_proofs`, `SharedBuffer_proofs` | theorems on these modules | the module; `MCAudioStream` for the generated schedule |

`VideoPath` and `KeywordSpotting` use `PriorityFifo` in place of the queue; that
`EventQueue` implements it is checked by the run `queue_api` and proved in
`EventQueue_refines`.

### EventQueue
Variables carry the names of the members. `pc[t]` is where thread `t` is. A
critical section is one step, except in `push`, where `PushStore` fills the slot
with the mutex held and `PushCommit` counts it: so the mutex is needed, and the
mutation that drops it is found. `Notify` is the thread flag, set after the
mutex is released; `TestEnd`, `TestEmpty`, `Take`, `CheckEnd`, `WakeUp` are the
separate tests of `execute`. `SendAsync` has one push for each subscriber and
gives up at the first refusal, as `sendEventToAllNodes` does. `EvtPriorities` may
hold values above the highest priority: `Clamp` treats them as the code does.
`Ms` is the multiplication in 32 bits (`Word`) of the code; the second stamp of a
message, taken by `push` inside the mutex, replaces the first.
`pause` and `resume` are there, but nothing of `execute` reads `mustPause`: a
pause suspends nothing, although `EventQueue.hpp:124` speaks of a "pause of
the event queue processing".

### VStreamVideoIn, VideoClient
A block is a number, its content the number of a frame or `Torn`. The camera
interface `cpi` is external: one capture is an optional early vsync, then the
end of the capture, with an error at any time if `Faults` has "error". The
driver's `FLAGS_*` are a set. The calls are single steps: `VideoClient` makes
them between captures, and `VideoPath` *checks* that the application does
(`HandleExclusive`), so the unlocked read-modify-writes cannot be cut.
`VideoClient` returns all its blocks before it starts a capture. Without that
`NoOverwrite` fails on two blocks, because `GetBlock` clears `BUF_FULL` for a
block that is only lent.

### Lcd, VideoPath
`Lcd` has two images. The controller takes the programmed address at its next
frame (`Scanline0`). What may fail there is among `LcdFaults`: "update", an
address is refused (`ShowFails`); "start", the address is taken and
`FLAGS_START` set, but the controller does not start (`ShowStartFails`); "dsi",
an error stops it. After the last two nothing starts the controller again, and
no `Scanline0` comes. In `VideoPath`,
`pcE` follows `app_main` up to `osKernelStart` and then the event thread:
`TakeEvent`, `SourceEvent` (GetBlock), the steps of `renderNewFrame`, `Release`,
`WaitCamera`, `Restart`. Only one thread draws, so `inRender` is never found
true.

### AudioGraph, DataFlow, AudioStream
`Check` is the macro `CG_BEFORE_NODE_EXECUTION` with the flags as bit numbers, so
that the overlap of `osFlagsErrorResource` (0xFFFFFFFD) with the event flags is
visible. `SourceWait` and `SinkWait` return all the flags and clear those they
waited for, as the RTOS does. The driver of the audio input (external) fills
blocks and reports an overflow when it has no further block. In `out`, `current`
and `transmit` are the indices of `g_audioOutputState` and `sending` the block
the SAI sends. The sink's `run` is four steps, the test of the ring (`SinkTest`),
the increment (`SinkClaim`), the copy (`SinkCopy`) and the wait (`SinkWait`): the
interrupt of the SAI may fall between any two of them, and find the output dry
when the thread has passed the test and will still write its block.

`AudioGraph` has the 19 nodes in the order of `scheduler.cpp`, the 20 FIFOs and
the four buffers they lie in, and the edges of `create.py`. Of the samples
`content` keeps which signal of which iteration a buffer holds; a node makes
`Garbage` if an input is not the signal of this iteration (`Fresh`), or if it
reads and writes the same buffer (`Separate`). `SoundAt(i)` looks at the order
alone: what node `i` reads was written before in the same iteration, and not
overwritten since. `DataFlow` knows neither order nor buffers; the refinement
mapping (`Pending`, `Firings`) finds the block of a connection in the buffer of
the FIFO that carries it. The two `Duplicate` nodes are no nodes of the graph:
until they have run, a connection behind them is carried by their input
(`Carrier`).

The application's graph ends in a `NullSink`. `SpeakerGraph` puts the
`VStreamAudioSink` there that `create.py` has as an alternative.

### KeywordSpotting
The stream thread clears `ready` after the send (`SendToNetwork.hpp:48`), the
event thread sets it after the inference. Nothing but the higher priority of the
stream thread (`EventMayRun`) keeps the acknowledgement from coming between the
two: the mutation that drops this guard is found by `OneTensor`. The queue's
mutex is there (`locked`) because it is the one place where the stream thread
lets the other go on. `TFLite::processEvent` tries the tensor in a second format
after the first; `Acknowledge` has the test. `KWSDisplay` is the chain of frame
requests: every word starts one more, with a first request that does not
expire, and the later ones may.

### SharedBuffer
A handle is the pair of pointers of `ProtectedBuffer`. An operation locks the
mutexes in the order of the code, changes the pointers to the object, releases,
and then changes the pointers to the mutexes: four kinds of steps, which the
other thread may interleave. A mutex is waited for without limit, also by the
thread that holds it: it is not recursive (`osMutexNew(NULL)`,
`osWaitForever`). A block of a pool is free when no handle points to
it; `Taken` chooses among the free ones.

`Create` is `create_with`, in both threads. On an empty pool it constructs on the
null pointer: the thread goes to the step "fault", with nothing after it. The stream
thread creates what it sends: `Send` is `sendEventToAllNodes` (one receiver gets
the buffer, several get clones), `Push` and `Pop` move handles to and from slots
with the queue's mutex held. The event thread creates in its handlers, while it
still has the event received (`TFLite.hpp:239` and 391,
`VStreamVideoSource.hpp:112`), and hands the buffer ("made") over in a call,
`sendSync`, and not through the queue. `Handlers` lets the handlers do any
operation in any order, within what the application's nodes do: they
send an event while they read only what has one receiver (`MayPush`), and they
assign to a member only if it is empty or has another object (`MayAssign`),
because assignment between two handles of one object would lock its mutex twice.

## 3. Runs

| Run | Shows | Bounds |
|---|---|---|
| `queue_api` | `RingConsistent`; `ImplementsPriorityFifo` (every step is a step of `PriorityFifo` or a stutter) with all calls | 2 priorities, rings of 2, 2 subscribers, local and distant events, 2 pushing threads |
| `queue_live` | `TypeOK`, `NoLostWakeup`, `ThreadPriority`; `ServedOrOutranked`, `EndReturns`, `PushReturns` | the same with one subscriber, handlers that make one call |
| `queue_time` | `StampsOrdered`, `FreshNeverDiscarded`, `StaleDiscardedBeforeWrap` | 1 priority, ring of 2, 5 ticks, a millisecond count that wraps at tick 4 |
| `queue_wrap` | violation of `StaleNeverDispatched` across the wrap | the same |
| `camera_ring` | `TypeOK`, `NoOverwrite`, `NewestFramesKept` | 3 blocks, 5 frame numbers, failing captures, camera errors |
| `video_loop` | `TypeOK`, `OneFrameInFlight`, `HandleExclusive`, `NextImageWhole`, `FramesInOrder` | 2 blocks, 3 frame numbers, 2 priorities of 2 events, other senders at both, camera, capture and DSI errors, failing starts of the display |
| `video_live` | `EveryFrameRendered` | 1 block as in `config.h`, other senders below `kDo`, refused addresses, failing starts of the display, DSI errors |
| `audio_stream` | `TypeOK`, `FlagMeansBlock`, `NodeSound`, `InputsFresh`, `DryNoticed`; `UnderflowStops`, `ImplementsDataFlow` | the generated schedule with `VStreamAudioSink`, both ends masters; 2 input and 3 output blocks as in the code; failing drivers |
| `audio_inflight` | violation of `NoWriteInFlight` | the same, sink as master, no failing drivers |
| `audio_overflow` | violation of `OverflowStops` | the application's graph with `NullSink` |
| `kws` | `TypeOK`, `OneTensor`, `FrameRequested`; `ReadyAgain`, `WordFades` | 2 words, 3 priorities of 2 events, other senders at the two priorities of the graph |
| `shared_buffer` | `TypeOK`, `OneMutexPerObject`, `MutexAlive`, `NoCircularWait`, `PoolSuffices` | a queue of 1, one member handle, pools of 5, one or two receivers |

Distinct states: 1.7 million in `queue_api`, 68 thousand in `queue_live`, 2.5
million in `queue_time`, 2.1 million in `shared_buffer`, 43 thousand in
`video_loop`, 29 thousand in `kws`, 18 thousand in `audio_stream`, 5 thousand in
`video_live` and 2 thousand in `camera_ring`; each run takes less than two minutes.

`EveryFrameRendered` (without camera errors, failing captures and refused
`kDo` events, after which the loop stands still) says that every frame is drawn, or that the event thread
spins for ever at `VStreamVideoSink.hpp:99`, the display started and its
controller not running. Nothing in the code excludes the second; the property
says that there is no other way to stop. `NextImageWhole` speaks of the
picture the controller takes next. It does not say that nothing is drawn into
the picture being scanned, nor that no picture is skipped: see the hazards at
`VStreamVideoSink.hpp:94`, `lcd.c:208` and `lcd.c:209`.

Why the bounds are enough: a ring of two is the smallest that wraps, is full and
has an order; two priorities are the smallest with an overtaking. In
`queue_api` the stream thread and the interrupt thread push, and the handlers do
not (`MaxReposts` is 0), which keeps the run with all the other calls small; in
`queue_live` they push, one call each. Frame numbers are
cyclic and more than the blocks, so a repeated or skipped frame is seen. What is
independent of the values (`Values`, tensors, pixels, samples) has one or
a few values. The audio instance is not reduced: schedule, buffers and block
counts are those of the code, and the number of the iteration, which only has to be
told from the one before, is kept modulo 2. In `shared_buffer` five blocks are
slots + members + 3, the smallest number that suffices (with four TLC finds a
fault), with the interleavings of two operations at most; larger queues only repeat them. For
the safety properties the bounds do not matter, because they are proved
(section 5). `MaxReposts`, `FanOut`, `MaxNow`, `NbFrames` are bounds of the
instances, not of the program.

Deadlock is checked except where the system may stop: the video runs (the loop ends
after an error, and spins after one of the display) and the audio runs (the schedule ends). `kws` and
`shared_buffer` check it.

### Fairness
* A ready thread runs and a handler returns: weak fairness of the steps of each
  thread. The RTOS hands a released mutex to a waiting thread, hence strong
  fairness of the steps that acquire it in `EventQueue`.
* In `VideoPath` a capture ends and the display controller reaches its next frame
  (weak fairness of both interrupts): hardware clocks run on. Nothing
  obliges an error or another sender to occur.
* In `AudioStream` the nodes return and the audio clocks run on (weak fairness).
* In `KeywordSpotting` the stream thread and the network node's initialisation
  go on (weak). The event thread has the lower priority and is enabled only
  between two blocks of audio; it gets on all the same, because otherwise the
  audio would overflow and end (strong fairness of its steps). That it does not
  for ever take up the queue just when a tensor waits there, but also when none
  does, is the strong fairness of `Lock` with an empty high ring.
  An expiry is never forced: `WordFades` assumes that requests are not lost for
  ever.

## 4. Findings

Violations found by the runs:
* `queue_wrap`: `1000*ticks` wraps in 32 bits (71 minutes at 1 kHz) and the
  comparison at `cg_queue.cpp:197` then keeps an expired event.
* `audio_overflow`: the polling macro takes every set flag for an error of the
  poll; the overflow test after it is dead, and the flag is gone.
* `audio_inflight`: the sink hands out the block in transmission, in fact always
  once it runs.

Met while modelling, without a run of their own:
* `FLAGS_SINGLE` is set (`camera.c:310`) and never read. A vsync served together
  with the end of a single capture is taken for the next frame of a continuous
  one (`camera.c:105`). The fault `late_vsync` is that step; with it
  `NewestFramesKept` and `OneFrameInFlight` fail, so the runs and theorems
  leave it out. Whether the interrupt can be that late is a matter of the board.
* After a camera error "app should reset the stream" (`camera.c:138`); the
  application prints a message and the video stands still.
* When `kDo` of the interrupt thread is refused by a full ring nobody releases the frame,
  with the same effect.
* When the controller of the display fails to start, or a DSI error stops it,
  `FLAGS_START` stays set (`lcd.c:214`): nothing starts it again, the next `Start`
  sets `active`, and `renderNewFrame` spins for ever with the event thread.
* The pools have 20 blocks and a ring 20 slots: fewer than the slots + members
  + 3 that are proved to suffice, with three kinds of blocks beside: one of the
  event in hand, one a handler makes, one of the stream thread. `create_with` does not test the object it
  allocates.
* `MyQueue::push` locks the queue and then the buffer it moves; `KWSClassify`
  and `KWSDisplay` push while they read, which locks the buffer and then
  the queue. With one receiver the threads never wait for each other, because the
  buffer that is pushed has no other handle; with two receivers, and so clones, they can
  (a mutation of `NoCircularWait`).
* Assignment of a `ProtectedBuffer` tests that the handles differ, not that
  their mutexes do (`StreamNode.hpp:757`): between two handles of one object
  the thread waits for ever for itself. The application never does that
  (the other mutation of `NoCircularWait`).
* `FlagMeansBlock` needs two input blocks, as in the code. With one, a block
  that arrives while the other is read sets the flag without a block to follow,
  and the macro clears the error that comes with it.

## 5. Proofs

All theorems are about the `Spec` of the module, for every value of its
constants. The assumptions on the constants are the named ones of the modules,
which TLC evaluates in the runs; further hypotheses are stated in the theorem.
Each proof has an inductive invariant, shown to hold initially and to be kept by
each action, in one lemma or step for each action.

**`EventQueue_proofs`**: `TypeCorrectness`, `RingConsistency`, `NoLostWakeups`,
`ThreadPriorities`, all from `Invariance`, `Spec => []IInv`. `IInv` adds to the
four properties which places each kind of thread can be at (`PlaceInv`), that a
thread has a message in hand exactly while it pushes (`PushInv`), that the mutex
is held between two steps exactly by the one thread that has stored and not
counted its message, with room for it (`MutexInv`), and that `execute` has a
message exactly while it works on one (`ServeInv`). They are needed: that a
commit completes the slot it filled depends on no other thread being in between,
and that `Take` gets a message and not an empty slot on `RingConsistent`.

The time to live is proved on top of these. `PastInv` says that no stamp, of a
slot or of a message in hand, is later than the clock. `StaleDiscarded` needs no
hypothesis: before the milliseconds wrap (while `1000 * now` fits the word) an
event that is older than its time to live is not dispatched. `FreshKept`, that no event is discarded too early, also past
the wrap, needs two: that a tick is a whole number of milliseconds (`MsFactor %
TickFreq = 0`; `OS_TICK_FREQ` is 1000, so a tick is one millisecond) and that
the largest count of milliseconds plus a time to live stays below the word. (The
count is computed as a 32-bit product divided by 1000, so it stays below 4.3
million; the hypothesis allows every time to live below 4.29 thousand million ms.) The lemmas are the arithmetic that
the code relies on: multiplication and division that round down, and the
difference of two counts modulo the word.

**`EventQueue_refines`**: `Refinement`, `Spec => ImplementsPriorityFifo`. Each
step maps to a step of `PriorityFifo` or a stutter: `PushCommit` to an enqueue,
`Take` to a dequeue, the end of an event to a release, `Clear` and `End` to
theirs. The lemmas say what a commit and a take do to `WaitingAt(p)`, the ring read
from `read` to `write`. `StampOrder`: if the clock stays below the word, the
messages of a ring wait in the order of their time stamps; `StampInv` says it of
each slot and the next, also for the one that is filled but not counted, and that
no stamp is later than now.

**`VideoClient_proofs`**, for any number of blocks and frames, without
`late_vsync`: `TypeCorrectness`, `NoOverwriting`, `FramesKept`. The invariant
counts (`RingInv`): the blocks lent and the DATA events unanswered add up to the
distance from `idx_rel` to `idx_in`, a full ring has `BUF_FULL`, and a capture
under way writes to a block outside this window; and it says what the blocks
hold (`OrderInv`): each block of the window the frame after that of the block
before it, the last one the last frame captured. `AheadFacts` is the arithmetic
of distances around the ring.

**`VideoPath_proofs`**: `TypeCorrectness` with every fault; without
`late_vsync`, `OneFrame`, `HandleExclusion` and `FramesOrdered`; and if the
display controller refuses no address (it may fail to start, or stop),
`NextImagesWhole`. `PlaceInv` says where
the threads can be before and after the start of the kernel; `FlightInv` that
the frame is in at most one of camera, flag, interrupt thread, queue and event
thread; `HandleInv` that the capture is a single one. `RingInv` and `FrameInv`
relate the ring's indices, the block in hand and the two images: wherever the
frame is, it is the one after the image drawn last. `ImageInv`: only the image
being drawn is partial, and the controller is not told to scan it. The last two invariants are
inductive only together with the first ones: that `Start` writes to a free block
depends on no other frame being on its way.

**`AudioStream_proofs`**, for any schedule and block counts: `TypeCorrectness`;
`FlagsMeanBlocks`, if `SourceBlocks > 1` (`FlagInv`: the two flags of the source are
only set while a block waits); `DryNoticedAlways`, the safety half of
`UnderflowStops`: once the output is dry, a thread past the test of the ring has
the flag that ends its wait, and no poll comes before that wait, and any other
finds no block at the test; `FreshInputs`: if the schedule is sound (a
property of the order and the buffers alone, `ScheduleSound`), every node reads
the signals of its own iteration in every reachable state. `LeftInv` says that
what a node before this one has written, and no node in between has written
over, is still there and of this iteration.

`DataFlowImplemented`, `Spec => ImplementsDataFlow`, for every schedule that is
sound and respects the graph (`GraphSound`: no name occurs twice; each connection leads from a
node to a later one; from the write of the first to the read of the second
there is at every place of the schedule a FIFO that has the signal, and nobody
overwrites it). The refinement mapping chooses the FIFO that carries a connection
(`CHOOSE`); `CarrierCarries` shows that whatever is chosen has the signal. Then
`PendingInv` gives the queue of every connection, one block of this iteration
or none, from `LeftInv`, and each `NodeDone` is a firing of `DataFlow`
(`NodeFires`), all other steps stutters. `OneBlockWaits` states `PendingInv` by
itself: FIFOs of one block suffice.

The hypotheses hold of the generated code: `GeneratedScheduleSound` and
`GeneratedGraphSound` prove them for the 19 nodes, 20 FIFOs, 4 buffers and the
graph of `create.py`, with either sink, from tables of which node writes where
(`GeneratedWrites`). Hence `GeneratedInputsFresh` and `GeneratedDataFlow`: the
application's schedule implements its graph for any block counts, any choice of
masters and failing drivers, while the run has one choice of each.

**`KeywordSpotting_proofs`**: `OnePermission`, `FramesRequested`,
`TypeCorrectness`. `PermissionInv` says that the permission is in exactly one of
three places: with `SendToNetwork`, in the queue, with the event thread.
`PlaceInv` says what the places of both threads imply for the event in hand.
That an acknowledgement keeps the invariant rests on `EventMayRun`: the event thread
does not run while the stream thread is between its send and
`ready.store(false)`. `FrameInv` says where the request for the next frame
is while a word is on the screen.

**`SharedBuffer_proofs`**, for any number of members, slots, blocks and
receivers: `OneMutex`, `MutexKept`, `NoDeadlock`, `TypeCorrectness`, and
`PoolsSuffice` for pools of at least slots + members + 3 blocks, finitely many members and both
threads creating. It is a pigeonhole argument on the blocks that the handles other than
the one to be filled can have; it needs that the stream thread's two handles
have one buffer between them (`OneBuffer`, with `PoolSuffices` the inductive
`Enough`). Between the release of the
mutexes and the change of the pointers to them, a handle has the object of one
buffer and the mutex of another: `PairInv` therefore speaks of the mutex a
handle will have when the operation on it has ended (`FinalMutex`), and says of
those that an object has one. `LockInv` says which handle or slot keeps each
locked mutex alive; `HoldInv` ties `owner` to the operations. `NoDeadlock` needs
`SoleInv`: with one receiver, no handle of the event thread and no slot has the
mutex of a buffer that is still with the stream thread. `StreamInv` and
`EventInv` give the order in which each thread locks, and that no mutex is in
that order twice (`Distinct`, from `MayAssign`): so what a thread waits for is
not what it holds (`InvNoSelfWait`).

Only model-checked: liveness and everything under fairness, because the prover
has neither fairness nor ENABLED (`ServedOrOutranked`,
`EndReturns`, `PushReturns`, `EveryFrameRendered`, `UnderflowStops`,
`ReadyAgain`, `WordFades`). Every invariant, action property and refinement of
the passing runs is stated by a theorem. The three violations are counterexamples of
TLC.

## 6. Not modelled

* The arithmetic of the nodes, the drawing, the network and check sums: data. In
  particular `KWSClassify` scales the raw outputs of the network, and whether
  a label is right is not a question for these models.
* Failures of `Initialize` and `SetBuf`, `Uninitialize`, failures in the set up
  of `app_main`, which end in an idle loop.
* The ends of the threads: `free_scheduler` deletes nodes, and the event thread
  queue and pools, while others may still use them. The sources do not say what
  the RTOS does with a deleted thread or mutex, and the application is
  made to run for ever.
* Parameters of the display and camera drivers that the application does not use
  (continuous capture by `Start`, `Stop` of the display).
* `debug_create.py`, which describes another graph; `cg_pack.hpp` and
  `EventDisplay.hpp`, which nothing uses; the board files and vendored code.

The models translate nearly three thousand lines. Most of the repository is not
code of this program: tables of network weights (`networks/*.tflite.cpp`,
more than 45 thousand lines), pictures (`kws_img.c`), vendor configuration
(`RTE_Device.h`, board files) and headers of libraries have no behaviour that a
state machine could describe, and the signal processing nodes are arithmetic.
