----------------------------- MODULE EventQueue -----------------------------
(***************************************************************************)
(* The event queue of the application: MyQueue (cg_queue.cpp) on top of    *)
(* the EventQueue and EventOutput interfaces (EventQueue.hpp).             *)
(*                                                                         *)
(* Several threads push events.  One thread, the event thread, runs        *)
(* MyQueue::execute: it takes the oldest event of the highest non-empty    *)
(* priority and calls the handler of the destination node, which may push  *)
(* in turn.  One ring per priority, one mutex for all the rings, and one   *)
(* RTOS thread flag that wakes the event thread.                           *)
(*                                                                         *)
(* A step is what a thread does between two points where another thread    *)
(* can change something it reads: a critical section is one step, or two   *)
(* where the mutex has to protect an intermediate state (push).            *)
(***************************************************************************)
EXTENDS Integers

CONSTANTS
  Senders,         \* threads whose nodes call EventOutput::sendAsync
  InterruptThread, \* pushes camera events directly on the queue
  EventThread,     \* cg_eventThread, the thread that runs execute()
  NbPriorities,    \* MyQueue::nb_priorities
  MaxElems,        \* MY_QUEUE_MAX_ELEMS, the capacity of each ring
  Values,          \* what an event carries, selector and arguments
  KDo,             \* the value of the camera event
  EvtPriorities,   \* the values of Event::priority, a public uint32_t
  Ttls,            \* the values of Event::ttl, 0 is "no limit"
  Dests,           \* subset of {"local", "distant"}: Message::destination
  Word,            \* 2^32: the range of uint32_t
  MsFactor,        \* the 1000 of "1000*timestamp"
  TickFreq,        \* osKernelGetTickFreq()
  Controls,        \* which API calls the run makes: "end", "clear", ...
  FanOut,          \* bound: subscribers of one EventOutput
  MaxReposts,      \* bound: calls one handler makes on the queue
  MaxNow,          \* bound: kernel ticks counted
  NoMsg,           \* an empty or moved-from Message
  NoThread         \* the owner of a free mutex

Priorities == 0 .. NbPriorities - 1
Slots      == 0 .. MaxElems - 1
Threads    == Senders \cup {InterruptThread, EventThread}
Ticks      == 0 .. Word - 1

Event   == [value : Values, priority : EvtPriorities, ttl : Ttls, dest : Dests]
Message == [value : Values, priority : EvtPriorities, ttl : Ttls, dest : Dests,
            timestamp : Ticks]

ASSUME ThreadsAssumption ==
  /\ InterruptThread \notin Senders \cup {EventThread}
  /\ EventThread \notin Senders
  /\ NoThread \notin Threads
ASSUME SizeAssumption ==
  /\ NbPriorities \in Nat \ {0}
  /\ MaxElems \in Nat \ {0}
  /\ FanOut \in Nat \ {0}
  /\ MaxReposts \in Nat
ASSUME EventAssumption ==
  /\ KDo \in Values
  /\ EvtPriorities \subseteq Nat
  /\ NbPriorities - 1 \in EvtPriorities
  /\ Ttls \subseteq Nat
  /\ 0 \in Ttls
  /\ Dests \subseteq {"local", "distant"}
  /\ "local" \in Dests
  /\ NoMsg \notin Message
ASSUME TimeAssumption ==
  /\ Word \in Nat \ {0}
  /\ MsFactor \in Nat \ {0}
  /\ TickFreq \in Nat \ {0}
  /\ MaxNow \in Nat

VARIABLES
  queue,        \* queue[p][i]: slot i of the ring of priority p
  read,         \* read[p]: index of the oldest message
  write,        \* write[p]: index of the next free slot
  nb_elems,     \* nb_elems[p]: number of messages
  owner,        \* the thread that holds queue_mutex between two steps
  flag,         \* MY_QUEUE_NEW_EVENT_FLAG is set on the event thread
  mustEnd,      \* mustEnd_
  mustPause,    \* mustPause_, which execute() never reads
  handlerReady, \* handlerReady_
  pc,           \* where each thread is
  msg,          \* msg[t]: the message thread t is pushing
  left,         \* left[t]: destinations thread t has yet to push to
  cur,          \* the message execute() is working on
  thPrio,       \* index in priorities[] of the event thread's priority
  reposts,      \* calls made on the queue by the running handler
  now           \* ticks since the kernel started (does not wrap)

rings == <<queue, read, write, nb_elems>>
api   == <<mustEnd, mustPause, handlerReady>>
push  == <<msg, left>>
exec  == <<cur, thPrio>>
vars  == <<rings, owner, flag, api, pc, push, exec, reposts, now>>

(***************************************************************************)
(* Helpers.                                                                *)
(***************************************************************************)

\* The clamp of push and execute: an unknown priority is the highest one.
Clamp(prio) == IF prio >= NbPriorities THEN NbPriorities - 1 ELSE prio

\* Wrap with a bug: the end of the ring is noticed one step late.
Wrap_OffByOne(i) == IF i > MaxElems THEN i - MaxElems ELSE i

\* An index that reaches the end of the ring goes back to its start.
Wrap(i) == IF i >= MaxElems THEN i - MaxElems ELSE i

\* osKernelGetTickCount(), a uint32_t.
TickCount == now % Word

\* (1000 * ticks) / osKernelGetTickFreq(), in uint32_t arithmetic.
Ms(ticks) == ((MsFactor * ticks) % Word) \div TickFreq

\* Expired with a bug: a message is dropped at its limit already.
Expired_AtLimit(m) ==
  /\ m.ttl # 0
  /\ Ms(TickCount) >= (Ms(m.timestamp) + m.ttl) % Word

\* Expired with a bug: the time to live is not looked at.
Expired_Never(m) == FALSE

\* The test of execute() on a message with a time to live.
Expired(m) ==
  /\ m.ttl # 0
  /\ Ms(TickCount) > (Ms(m.timestamp) + m.ttl) % Word

IsEmptyQueue == \A p \in Priorities : nb_elems[p] = 0

Highest(p) ==
  /\ nb_elems[p] # 0
  /\ \A h \in Priorities : h > p => nb_elems[h] = 0

\* Where a thread is when it is not inside a call on the queue: the event
\* thread calls the queue from the handlers it runs.
Home(t) == IF t = EventThread THEN "handling" ELSE "idle"

CanCall(t) ==
  /\ pc[t] = Home(t)
  /\ t = EventThread => reposts < MaxReposts

CountCall(t) ==
  reposts' = IF t = EventThread THEN reposts + 1 ELSE reposts

(***************************************************************************)
(* Initial state: the constructor of MyQueue, the threads just created.    *)
(***************************************************************************)
Init ==
  /\ queue = [p \in Priorities |-> [i \in Slots |-> NoMsg]]
  /\ read = [p \in Priorities |-> 0]
  /\ write = [p \in Priorities |-> 0]
  /\ nb_elems = [p \in Priorities |-> 0]
  /\ owner = NoThread
  /\ flag = FALSE
  /\ mustEnd = FALSE
  /\ mustPause = FALSE
  /\ handlerReady = FALSE
  /\ pc = [t \in Threads |-> IF t = EventThread THEN "loop" ELSE "idle"]
  /\ msg = [t \in Threads |-> NoMsg]
  /\ left = [t \in Threads |-> 0]
  /\ cur = NoMsg
  /\ thPrio = NbPriorities - 1
  /\ reposts = 0
  /\ now = 0

(***************************************************************************)
(* Pushing.                                                                *)
(***************************************************************************)

BeginPush(t, e, n) ==
  /\ msg' = [msg EXCEPT ![t] =
               [value |-> e.value, priority |-> e.priority, ttl |-> e.ttl,
                dest |-> e.dest, timestamp |-> TickCount]]
  /\ left' = [left EXCEPT ![t] = n]
  /\ pc' = [pc EXCEPT ![t] = "store"]
  /\ UNCHANGED <<rings, owner, flag, api, exec, now>>

\* EventOutput::sendAsync: refused once the queue must end, otherwise one
\* push for each of the n subscribers (an event for the application has one
\* destination).
SendAsync(t) ==
  /\ t # InterruptThread
  /\ CanCall(t)
  /\ ~mustEnd
  /\ \E e \in Event, n \in 1 .. FanOut :
       /\ e.dest = "distant" => n = 1
       /\ BeginPush(t, e, n)
  /\ CountCall(t)

\* interrupt_thread: Event(kDo, kHighPriority) for the video source, with no
\* test of mustEnd.
PushDirect ==
  /\ pc[InterruptThread] = "idle"
  /\ BeginPush(InterruptThread,
               [value |-> KDo, priority |-> NbPriorities - 1, ttl |-> 0,
                dest |-> "local"], 1)
  /\ UNCHANGED reposts

\* PushStore with a bug: no critical section.
PushStore_NoLock(t) ==
  LET p == Clamp(msg[t].priority) IN
  /\ pc[t] = "store"
  /\ nb_elems[p] < MaxElems
  /\ owner' = t
  /\ queue' = [queue EXCEPT ![p][write[p]] =
                 [msg[t] EXCEPT !.timestamp = TickCount]]
  /\ pc' = [pc EXCEPT ![t] = "commit"]
  /\ UNCHANGED <<read, write, nb_elems, flag, api, push, exec, reposts, now>>

\* PushStore with a bug: the timestamp is the one of the call.
PushStore_OldStamp(t) ==
  LET p == Clamp(msg[t].priority) IN
  /\ pc[t] = "store"
  /\ owner = NoThread
  /\ nb_elems[p] < MaxElems
  /\ owner' = t
  /\ queue' = [queue EXCEPT ![p][write[p]] = msg[t]]
  /\ pc' = [pc EXCEPT ![t] = "commit"]
  /\ UNCHANGED <<read, write, nb_elems, flag, api, push, exec, reposts, now>>

\* MyQueue::push under the mutex: the message gets its timestamp and goes
\* into the slot at the write index.
PushStore(t) ==
  LET p == Clamp(msg[t].priority) IN
  /\ pc[t] = "store"
  /\ owner = NoThread
  /\ nb_elems[p] < MaxElems
  /\ owner' = t
  /\ queue' = [queue EXCEPT ![p][write[p]] =
                 [msg[t] EXCEPT !.timestamp = TickCount]]
  /\ pc' = [pc EXCEPT ![t] = "commit"]
  /\ UNCHANGED <<read, write, nb_elems, flag, api, push, exec, reposts, now>>

\* PushRefuse with a bug: it leaves without releasing the mutex.
PushRefuse_KeepsMutex(t) ==
  /\ pc[t] = "store"
  /\ owner = NoThread
  /\ nb_elems[Clamp(msg[t].priority)] >= MaxElems
  /\ owner' = t
  /\ left' = [left EXCEPT ![t] = 0]
  /\ pc' = [pc EXCEPT ![t] = "notify"]
  /\ UNCHANGED <<rings, flag, api, msg, exec, reposts, now>>

\* The ring is full: the message is refused, and sendEventToAllNodes gives
\* up on the remaining destinations.
PushRefuse(t) ==
  /\ pc[t] = "store"
  /\ owner = NoThread
  /\ nb_elems[Clamp(msg[t].priority)] >= MaxElems
  /\ left' = [left EXCEPT ![t] = 0]
  /\ pc' = [pc EXCEPT ![t] = "notify"]
  /\ UNCHANGED <<rings, owner, flag, api, msg, exec, reposts, now>>

\* The write index and the count move on and the mutex is released.
PushCommit(t) ==
  LET p == Clamp(msg[t].priority) IN
  /\ pc[t] = "commit"
  /\ write' = [write EXCEPT ![p] = Wrap(@ + 1)]
  /\ nb_elems' = [nb_elems EXCEPT ![p] = @ + 1]
  /\ owner' = NoThread
  /\ left' = [left EXCEPT ![t] = @ - 1]
  /\ pc' = [pc EXCEPT ![t] = "notify"]
  /\ UNCHANGED <<queue, read, flag, api, msg, exec, reposts, now>>

\* osThreadFlagsSet, outside the critical section; the last step of push,
\* accepted or not, and of end.
Notify(t) ==
  /\ pc[t] = "notify"
  /\ flag' = TRUE
  /\ pc' = [pc EXCEPT ![t] = IF left[t] > 0 THEN "store" ELSE Home(t)]
  /\ msg' = [msg EXCEPT ![t] = IF left[t] > 0 THEN @ ELSE NoMsg]
  /\ UNCHANGED <<rings, owner, api, left, exec, reposts, now>>

(***************************************************************************)
(* The other calls of the interface.                                       *)
(***************************************************************************)

\* End with a bug: the event thread is not woken.
End_Silent(t) ==
  /\ "end" \in Controls
  /\ CanCall(t)
  /\ mustEnd' = TRUE
  /\ CountCall(t)
  /\ UNCHANGED <<rings, owner, flag, mustPause, handlerReady, pc, push, exec, now>>

\* MyQueue::end; its thread flag is the Notify step.
End(t) ==
  /\ "end" \in Controls
  /\ CanCall(t)
  /\ mustEnd' = TRUE
  /\ pc' = [pc EXCEPT ![t] = "notify"]
  /\ CountCall(t)
  /\ UNCHANGED <<rings, owner, flag, mustPause, handlerReady, push, exec, now>>

\* MyQueue::clear: the read indices catch up with the messages they discard.
Clear(t) ==
  /\ "clear" \in Controls
  /\ CanCall(t)
  /\ owner = NoThread
  /\ queue' = [p \in Priorities |-> [i \in Slots |-> NoMsg]]
  /\ read' = [p \in Priorities |-> Wrap(read[p] + nb_elems[p])]
  /\ nb_elems' = [p \in Priorities |-> 0]
  /\ CountCall(t)
  /\ UNCHANGED <<write, owner, flag, api, pc, push, exec, now>>

\* EventQueue::pause and EventQueue::resume.
SetPause(t, value) ==
  /\ "pause" \in Controls
  /\ pc[t] = "idle"
  /\ mustPause' = value
  /\ UNCHANGED <<rings, owner, flag, mustEnd, handlerReady, pc, push, exec,
                 reposts, now>>

\* EventQueue::setHandler.
SetHandler(t) ==
  /\ "handler" \in Controls
  /\ pc[t] = "idle"
  /\ handlerReady' = TRUE
  /\ UNCHANGED <<rings, owner, flag, mustEnd, mustPause, pc, push, exec,
                 reposts, now>>

(***************************************************************************)
(* MyQueue::execute.                                                       *)
(***************************************************************************)

Goto(from, to) ==
  /\ pc[EventThread] = from
  /\ pc' = [pc EXCEPT ![EventThread] = to]

\* TestEnd with a bug: a queue that must end is emptied first.
TestEnd_Drains ==
  /\ Goto("loop", IF mustEnd /\ IsEmptyQueue THEN "done" ELSE "empty")
  /\ UNCHANGED <<rings, owner, flag, api, push, exec, reposts, now>>

\* The tests of mustEnd by the two loops: a true one leads to the return.
TestEnd ==
  /\ Goto("loop", IF mustEnd THEN "done" ELSE "empty")
  /\ UNCHANGED <<rings, owner, flag, api, push, exec, reposts, now>>

\* isEmpty(), a critical section of its own.
TestEmpty ==
  /\ owner = NoThread
  /\ Goto("empty", IF IsEmptyQueue THEN "check" ELSE "take")
  /\ UNCHANGED <<rings, owner, flag, api, push, exec, reposts, now>>

\* The critical section of execute: the oldest message of the highest
\* priority that has one.
Take ==
  /\ owner = NoThread
  /\ Goto("take", "ttl")
  /\ \E p \in Priorities :
       /\ Highest(p)
       /\ cur' = queue[p][read[p]]
       /\ queue' = [queue EXCEPT ![p][read[p]] = NoMsg]
       /\ read' = [read EXCEPT ![p] = Wrap(@ + 1)]
       /\ nb_elems' = [nb_elems EXCEPT ![p] = @ - 1]
  /\ UNCHANGED <<write, owner, flag, api, push, thPrio, reposts, now>>

\* The queue was cleared since isEmpty(): no message was received.
TakeNothing ==
  /\ owner = NoThread
  /\ IsEmptyQueue
  /\ Goto("take", "loop")
  /\ UNCHANGED <<rings, owner, flag, api, push, exec, reposts, now>>

Discard ==
  /\ Goto("ttl", "loop")
  /\ Expired(cur)
  /\ cur' = NoMsg
  /\ UNCHANGED <<rings, owner, flag, api, push, thPrio, reposts, now>>

\* The event thread takes the priority of the event and calls the handler of
\* the node, or of the application (callAsyncHandler: not when the queue
\* must end, nor without a handler).
Dispatch ==
  /\ pc[EventThread] = "ttl"
  /\ ~Expired(cur)
  /\ Goto("ttl",
          IF cur.dest = "local" \/ (handlerReady /\ ~mustEnd)
            THEN "handling" ELSE "restore")
  /\ thPrio' = Clamp(cur.priority)
  /\ reposts' = 0
  /\ UNCHANGED <<rings, owner, flag, api, push, cur, now>>

\* Restore with a bug: the event thread keeps the priority of the event.
Restore_KeepsPriority ==
  /\ pc[EventThread] \in {"handling", "restore"}
  /\ pc' = [pc EXCEPT ![EventThread] = "loop"]
  /\ cur' = NoMsg
  /\ UNCHANGED <<rings, owner, flag, api, push, thPrio, reposts, now>>

\* The handler has returned: back to the highest priority.
Restore ==
  /\ pc[EventThread] \in {"handling", "restore"}
  /\ pc' = [pc EXCEPT ![EventThread] = "loop"]
  /\ thPrio' = NbPriorities - 1
  /\ cur' = NoMsg
  /\ UNCHANGED <<rings, owner, flag, api, push, reposts, now>>

\* CheckEnd with a bug: the flag is cleared before the wait.
CheckEnd_ClearsFlag ==
  /\ Goto("check", IF mustEnd THEN "done" ELSE "wait")
  /\ flag' = FALSE
  /\ UNCHANGED <<rings, owner, api, push, exec, reposts, now>>

\* The test of mustEnd between the inner loop and the wait.
CheckEnd ==
  /\ Goto("check", IF mustEnd THEN "done" ELSE "wait")
  /\ UNCHANGED <<rings, owner, flag, api, push, exec, reposts, now>>

\* osThreadFlagsWait returns and clears the flag.
WakeUp ==
  /\ flag
  /\ Goto("wait", "loop")
  /\ flag' = FALSE
  /\ UNCHANGED <<rings, owner, api, push, exec, reposts, now>>

(***************************************************************************)
(* Specification.                                                          *)
(***************************************************************************)

Tick ==
  /\ now < MaxNow
  /\ now' = now + 1
  /\ UNCHANGED <<rings, owner, flag, api, pc, push, exec, reposts>>

PushStep(t) ==
  \/ PushStore(t)
  \/ PushRefuse(t)
  \/ PushCommit(t)
  \/ Notify(t)

Execute ==
  \/ TestEnd
  \/ TestEmpty
  \/ Take
  \/ TakeNothing
  \/ Discard
  \/ Dispatch
  \/ Restore
  \/ CheckEnd
  \/ WakeUp

Next ==
  \/ \E t \in Threads : SendAsync(t) \/ PushStep(t) \/ End(t) \/ Clear(t)
  \/ PushDirect
  \/ \E t \in Senders : SetHandler(t) \/ \E v \in BOOLEAN : SetPause(t, v)
  \/ Execute
  \/ Tick

Spec == Init /\ [][Next]_vars

(***************************************************************************)
(* A ready thread runs in the end and a handler returns in the end.  The   *)
(* RTOS hands a released mutex to a waiting thread, so a thread that keeps *)
(* finding it free gets it: strong fairness on the steps that acquire it.  *)
(***************************************************************************)
Fairness ==
  /\ \A t \in Threads : SF_vars(PushStep(t))
  /\ WF_vars(Execute)
  /\ SF_vars(TestEmpty \/ Take \/ TakeNothing)

FairSpec == Spec /\ Fairness

(***************************************************************************)
(* Properties.                                                             *)
(***************************************************************************)

Pushing == {"store", "commit", "notify"}

\* Type correctness of the rings, the mutex, the flags and the threads.
TypeOK ==
  /\ queue \in [Priorities -> [Slots -> Message \cup {NoMsg}]]
  /\ read \in [Priorities -> Slots]
  /\ write \in [Priorities -> Slots]
  /\ nb_elems \in [Priorities -> 0 .. MaxElems]
  /\ owner \in Threads \cup {NoThread}
  /\ flag \in BOOLEAN
  /\ mustEnd \in BOOLEAN
  /\ mustPause \in BOOLEAN
  /\ handlerReady \in BOOLEAN
  /\ pc \in [Threads -> Pushing \cup {"idle", "loop", "empty", "take", "ttl",
                          "handling", "restore", "check", "wait", "done"}]
  /\ msg \in [Threads -> Message \cup {NoMsg}]
  /\ left \in [Threads -> 0 .. FanOut]
  /\ cur \in Message \cup {NoMsg}
  /\ thPrio \in Priorities
  /\ reposts \in 0 .. MaxReposts
  /\ now \in 0 .. MaxNow

\* Slot i of ring p lies in the nb_elems[p] slots from read[p] on.
InRing(p, i) ==
  \/ read[p] <= i /\ i < read[p] + nb_elems[p]
  \/ i < read[p] + nb_elems[p] - MaxElems

\* A push has filled its slot of ring p and has not counted it yet.
Committing(p) == owner # NoThread /\ Clamp(msg[owner].priority) = p

\* Whatever the interleaving of the pushing threads with execute and clear,
\* the three fields that describe a ring agree with its contents: the slots
\* that hold a message are the nb_elems ones from read on, plus the one being
\* pushed, which is at write.  execute() never takes a moved-from message, a
\* push never overwrites a waiting one, and a message waits in the ring of
\* its own priority.
RingConsistent ==
  \A p \in Priorities :
    /\ write[p] = Wrap(read[p] + nb_elems[p])
    /\ \A i \in Slots :
         /\ queue[p][i] # NoMsg <=> InRing(p, i) \/ (Committing(p) /\ i = write[p])
         /\ queue[p][i] # NoMsg => Clamp(queue[p][i].priority) = p

\* execute() tests the queue and mustEnd and only then sleeps on the thread
\* flag, without a lock over the two ("If new event was pushed and missed
\* with the empty test").  It never sleeps for good on a queue that has work:
\* the flag is set, or another thread is about to set it.
NoLostWakeup ==
  \/ pc[EventThread] = "check" /\ ~IsEmptyQueue
  \/ pc[EventThread] = "wait" /\ (~IsEmptyQueue \/ mustEnd)
  => flag \/ \E t \in Threads : pc[t] = "notify"

\* "The thread priority is always the highest to extract events from the
\* queue and then change to the event priority to process the event": the
\* handler of an event, and what it pushes, runs at the event's priority, and
\* the event thread has its top priority everywhere else.
ThreadPriority ==
  thPrio = IF pc[EventThread] \in Pushing \cup {"handling", "restore"}
             THEN Clamp(cur.priority) ELSE NbPriorities - 1

\* The waiting messages of a ring carry their timestamps in the order in
\* which they wait: push stamps a message again inside the critical section.
\* (Before the tick counter wraps: runs have MaxNow < Word.)
StampsOrdered ==
  \A p \in Priorities, i \in Slots :
    InRing(p, i) /\ InRing(p, Wrap(i + 1)) /\ Wrap(i + 1) # read[p]
      => queue[p][i].timestamp <= queue[p][Wrap(i + 1)].timestamp

\* The time the message has spent in the queue, in milliseconds.
AgeMs(m) == (MsFactor * ((now - m.timestamp) % Word)) \div TickFreq

\* Only an event that has a time to live and has outlived it is discarded
\* ("Time to live in ms. 0 means infinite").
FreshNeverDiscarded ==
  [][Discard => cur.ttl # 0 /\ AgeMs(cur) > cur.ttl]_vars

\* "Old spectrogram events are discarded by the event queue": an event that
\* has outlived its time to live does not reach its node.  This holds up to the
\* first wrap of the milliseconds, as long as MsFactor * now fits the word.
StaleDiscardedBeforeWrap ==
  [][Dispatch /\ MsFactor * now < Word => cur.ttl = 0 \/ AgeMs(cur) <= cur.ttl]_vars

\* The same without the restriction.
StaleNeverDispatched ==
  [][Dispatch => cur.ttl = 0 \/ AgeMs(cur) <= cur.ttl]_vars

\* At any priority, an event can only wait for ever if higher priorities get
\* events for ever.
ServedOrOutranked ==
  \A p \in Priorities, i \in Slots :
    \/ queue[p][i] # NoMsg ~> queue[p][i] = NoMsg \/ mustEnd
    \/ []<>(\E h \in Priorities : h > p /\ nb_elems[h] # 0)

\* end() makes execute() return, wherever the event thread is.
EndReturns == mustEnd ~> pc[EventThread] = "done"

\* A push returns to its caller, whether or not the queue is full or ending.
PushReturns == \A t \in Threads : pc[t] \in Pushing ~> pc[t] = Home(t)

(***************************************************************************)
(* The queue implements PriorityFifo.  A push takes effect when it is      *)
(* counted.  Once mustEnd is set, only an event thread that has already    *)
(* tested it can take one more message.                                    *)
(***************************************************************************)
WaitingAt(p) ==
  [i \in 1 .. nb_elems[p] |-> queue[p][Wrap(read[p] + i - 1)]]

Phase ==
  IF ~mustEnd THEN "open"
  ELSE IF pc[EventThread] \in {"empty", "take"} THEN "draining" ELSE "closed"

Abstract ==
  INSTANCE PriorityFifo WITH
    Capacity <- MaxElems,
    q <- [p \in Priorities |-> WaitingAt(p)],
    serving <- cur,
    phase <- Phase

\* Accepted events are served once each, first in first out within a
\* priority, higher priorities first, and at most one after end().
ImplementsPriorityFifo == Abstract!Spec
=============================================================================
