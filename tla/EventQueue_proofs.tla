------------------------- MODULE EventQueue_proofs --------------------------
(***************************************************************************)
(* Proofs about EventQueue, for any number of threads and priorities, any  *)
(* ring size and any events: its safety invariants hold in every reachable *)
(* state, and events are discarded by their time to live as they should.   *)
(***************************************************************************)
EXTENDS EventQueue, TLAPS

(***************************************************************************)
(* The inductive invariant.  RingConsistent is not inductive alone: that a *)
(* push commits what it stored needs the mutex to exclude the others, and  *)
(* that execute() finds a message needs the rings to be consistent.        *)
(***************************************************************************)

\* Where each kind of thread can be.
PlaceInv ==
  \A t \in Threads :
    IF t = EventThread THEN pc[t] # "idle" ELSE pc[t] \in Pushing \cup {"idle"}

\* A thread that pushes has a message and a destination left.
PushInv ==
  \A t \in Threads :
    /\ pc[t] \in {"store", "commit"} => msg[t] \in Message /\ left[t] > 0
    /\ left[t] > 0 => msg[t] \in Message
    /\ pc[t] \notin Pushing => left[t] = 0

\* The mutex is held between the two halves of a push and only there, and
\* the ring being pushed to has room.
MutexInv ==
  /\ \A t \in Threads : owner = t <=> pc[t] = "commit"
  /\ \A t \in Threads :
       owner = t => nb_elems[Clamp(msg[t].priority)] < MaxElems

\* execute() has a message in hand exactly while it works on one.
ServeInv ==
  IF pc[EventThread] \in Pushing \cup {"ttl", "handling", "restore"}
    THEN cur \in Message ELSE cur = NoMsg

IInv ==
  /\ TypeOK
  /\ PlaceInv
  /\ PushInv
  /\ MutexInv
  /\ ServeInv
  /\ RingConsistent
  /\ NoLostWakeup
  /\ ThreadPriority

(***************************************************************************)
(* Facts about the operators.                                              *)
(***************************************************************************)

\* The priority of a message, clamped, is the index of a ring.
LEMMA ClampInRange ==
  ASSUME NEW m \in Message
  PROVE  Clamp(m.priority) \in Priorities
<1>1. m.priority \in EvtPriorities
  BY DEF Message
<1>2. m.priority \in Nat
  BY <1>1, EventAssumption
<1> QED
  BY <1>2, SizeAssumption DEF Clamp, Priorities

\* An index that moves on stays an index.
LEMMA WrapInRange ==
  ASSUME NEW i \in Slots
  PROVE  Wrap(i + 1) \in Slots
BY SizeAssumption DEF Slots, Wrap

\* TickCount is a uint32_t.
LEMMA TickCountInRange ==
  ASSUME now \in 0 .. MaxNow
  PROVE  TickCount \in Ticks
BY TimeAssumption DEF TickCount, Ticks

\* A message keeps its type and its ring when it is stamped again.
LEMMA StampMessage ==
  ASSUME NEW m \in Message, NEW s \in Ticks
  PROVE  /\ [m EXCEPT !.timestamp = s] \in Message
         /\ [m EXCEPT !.timestamp = s].priority = m.priority
BY DEF Message

(***************************************************************************)
(* Initial states.                                                         *)
(***************************************************************************)

\* The invariant holds when the queue has been constructed.
LEMMA InitInv == Init => IInv
<1> SUFFICES ASSUME Init PROVE IInv
  OBVIOUS
<1> USE SizeAssumption, ThreadsAssumption, TimeAssumption DEF Init
<1>1. TypeOK
  <2>1. queue \in [Priorities -> [Slots -> Message \cup {NoMsg}]]
    OBVIOUS
  <2>2. read \in [Priorities -> Slots] /\ write \in [Priorities -> Slots]
    BY DEF Slots
  <2>3. nb_elems \in [Priorities -> 0 .. MaxElems]
    OBVIOUS
  <2>4. pc \in [Threads -> Pushing \cup {"idle", "loop", "empty", "take", "ttl",
                            "handling", "restore", "check", "wait", "done"}]
    OBVIOUS
  <2>5. left \in [Threads -> 0 .. FanOut]
    OBVIOUS
  <2>6. thPrio \in Priorities /\ reposts \in 0 .. MaxReposts /\ now \in 0 .. MaxNow
    BY DEF Priorities
  <2> QED
    BY <2>1, <2>2, <2>3, <2>4, <2>5, <2>6 DEF TypeOK
<1>2. PlaceInv /\ PushInv
  BY DEF PlaceInv, PushInv, Pushing
<1>3. MutexInv
  BY ThreadsAssumption DEF MutexInv
<1>4. ServeInv
  BY DEF ServeInv, Pushing, Threads
<1>5. RingConsistent
  BY DEF RingConsistent, InRing, Committing, Priorities, Slots, Wrap
<1>6. NoLostWakeup /\ ThreadPriority
  BY DEF NoLostWakeup, ThreadPriority, Pushing, Threads
<1> QED
  BY <1>1, <1>2, <1>3, <1>4, <1>5, <1>6 DEF IInv

\* The groups of variables that actions leave unchanged.
USE DEF rings, api, push, exec

\* A step that touches neither the rings nor the push in progress keeps the
\* rings consistent.
LEMMA RingFrame ==
  ASSUME RingConsistent, TypeOK,
         UNCHANGED <<rings, owner>>,
         \A t \in Threads : owner = t => msg'[t] = msg[t]
  PROVE  RingConsistent'
BY DEF RingConsistent, InRing, Committing, TypeOK

(***************************************************************************)
(* The two halves of a push.                                               *)
(***************************************************************************)

\* A message is stored in the slot at the write index.
LEMMA PushStoreInv ==
  ASSUME IInv, NEW t \in Threads, PushStore(t)
  PROVE  IInv'
<1> DEFINE p == Clamp(msg[t].priority)
<1> USE DEF IInv
<1>1. /\ msg[t] \in Message
      /\ pc[t] = "store" /\ left[t] > 0
      /\ p \in Priorities
      /\ TickCount \in Ticks
  BY ClampInRange, TickCountInRange DEF PushInv, PushStore, TypeOK
<1>2. /\ [msg[t] EXCEPT !.timestamp = TickCount] \in Message
      /\ [msg[t] EXCEPT !.timestamp = TickCount].priority = msg[t].priority
  BY <1>1, StampMessage
<1>3. owner = NoThread /\ owner' = t /\ t # NoThread
  BY ThreadsAssumption DEF PushStore
<1>4. TypeOK'
  BY <1>1, <1>2 DEF TypeOK, PushStore, Pushing
<1>5. PlaceInv' /\ PushInv'
  BY <1>1 DEF PlaceInv, PushInv, PushStore, Pushing, TypeOK
<1>6. MutexInv'
  BY <1>1, <1>3, ThreadsAssumption DEF MutexInv, PushStore, TypeOK
<1>7. ServeInv' /\ NoLostWakeup' /\ ThreadPriority'
  BY <1>1 DEF ServeInv, NoLostWakeup, ThreadPriority, IsEmptyQueue, PushStore,
              Pushing, TypeOK
<1>8. RingConsistent'
  <2> SUFFICES ASSUME NEW r \in Priorities
               PROVE  /\ write[r] = Wrap(read[r] + nb_elems[r])
                      /\ \A i \in Slots :
                           /\ queue'[r][i] # NoMsg
                                <=> InRing(r, i) \/ (p = r /\ i = write[r])
                           /\ queue'[r][i] # NoMsg
                                => Clamp(queue'[r][i].priority) = r
    BY <1>3 DEF RingConsistent, InRing, Committing, PushStore
  <2>1. write[r] = Wrap(read[r] + nb_elems[r])
    BY DEF RingConsistent
  <2>2. \A i \in Slots :
           /\ queue[r][i] # NoMsg <=> InRing(r, i)
           /\ queue[r][i] # NoMsg => Clamp(queue[r][i].priority) = r
    BY <1>3 DEF RingConsistent, Committing
  <2>3. CASE r = p
    BY <1>1, <1>2, <2>1, <2>2, <2>3, EventAssumption DEF PushStore, TypeOK
  <2>4. CASE r # p
    BY <1>1, <2>1, <2>2, <2>4 DEF PushStore, TypeOK
  <2> QED
    BY <2>3, <2>4
<1> QED
  BY <1>4, <1>5, <1>6, <1>7, <1>8

\* The stored message is counted and the mutex released.
LEMMA PushCommitInv ==
  ASSUME IInv, NEW t \in Threads, PushCommit(t)
  PROVE  IInv'
<1> DEFINE p == Clamp(msg[t].priority)
<1> USE DEF IInv
<1>1. /\ msg[t] \in Message
      /\ pc[t] = "commit" /\ left[t] > 0
      /\ p \in Priorities
      /\ owner = t /\ nb_elems[p] < MaxElems
  BY ClampInRange DEF PushInv, PushCommit, MutexInv
<1>2. owner' = NoThread /\ t # NoThread
  BY ThreadsAssumption DEF PushCommit
<1>3. TypeOK'
  BY <1>1, WrapInRange, SizeAssumption DEF TypeOK, PushCommit, Pushing
<1>4. PlaceInv' /\ PushInv'
  BY <1>1 DEF PlaceInv, PushInv, PushCommit, Pushing, TypeOK
<1>5. MutexInv'
  BY <1>1, <1>2, ThreadsAssumption DEF MutexInv, PushCommit, TypeOK
<1>6. ServeInv' /\ NoLostWakeup' /\ ThreadPriority'
  BY <1>1 DEF ServeInv, NoLostWakeup, ThreadPriority, IsEmptyQueue, PushCommit,
              Pushing, TypeOK
<1>7. RingConsistent'
  <2> SUFFICES ASSUME NEW r \in Priorities
               PROVE  /\ write'[r] = Wrap(read[r] + nb_elems'[r])
                      /\ \A i \in Slots :
                           /\ queue[r][i] # NoMsg <=> InRing(r, i)'
                           /\ queue[r][i] # NoMsg
                                => Clamp(queue[r][i].priority) = r
    BY <1>2 DEF RingConsistent, Committing, PushCommit
  <2>1. /\ write[r] = Wrap(read[r] + nb_elems[r])
        /\ read[r] \in Slots /\ nb_elems[r] \in 0 .. MaxElems
    BY DEF RingConsistent, TypeOK
  <2>2. \A i \in Slots :
           /\ queue[r][i] # NoMsg <=> InRing(r, i) \/ (p = r /\ i = write[r])
           /\ queue[r][i] # NoMsg => Clamp(queue[r][i].priority) = r
    BY <1>1, <1>2 DEF RingConsistent, Committing
  <2>3. CASE r = p
    <3>1. write'[r] = Wrap(write[r] + 1) /\ nb_elems'[r] = nb_elems[r] + 1
      BY <1>1, <2>3 DEF PushCommit, TypeOK
    <3>2. write'[r] = Wrap(read[r] + nb_elems'[r])
      BY <1>1, <2>1, <2>3, <3>1, SizeAssumption DEF Wrap, Slots
    <3>3. ASSUME NEW i \in Slots
          PROVE  InRing(r, i)' <=> InRing(r, i) \/ i = write[r]
      BY <1>1, <2>1, <2>3, <3>1, SizeAssumption
         DEF InRing, Wrap, Slots, PushCommit
    <3> QED
      BY <2>2, <2>3, <3>2, <3>3
  <2>4. CASE r # p
    <3>1. write'[r] = write[r] /\ nb_elems'[r] = nb_elems[r] /\ read' = read
      BY <2>4 DEF PushCommit, TypeOK
    <3> QED
      BY <2>1, <2>2, <2>4, <3>1 DEF InRing
  <2> QED
    BY <2>3, <2>4
<1> QED
  BY <1>3, <1>4, <1>5, <1>6, <1>7

\* A message for a full ring.
LEMMA PushRefuseInv ==
  ASSUME IInv, NEW t \in Threads, PushRefuse(t)
  PROVE  IInv'
<1> USE DEF IInv
<1>1. TypeOK' /\ PlaceInv' /\ PushInv'
  BY SizeAssumption DEF TypeOK, PlaceInv, PushInv, PushRefuse, Pushing
<1>2. MutexInv'
  BY DEF MutexInv, PushRefuse, TypeOK
<1>3. ServeInv' /\ NoLostWakeup' /\ ThreadPriority'
  BY DEF ServeInv, NoLostWakeup, ThreadPriority, IsEmptyQueue, PushRefuse,
         Pushing, TypeOK
<1>4. RingConsistent'
  BY RingFrame DEF PushRefuse
<1> QED
  BY <1>1, <1>2, <1>3, <1>4

\* The thread flag of the event thread.
LEMMA NotifyInv ==
  ASSUME IInv, NEW t \in Threads, Notify(t)
  PROVE  IInv'
<1> USE DEF IInv
<1>1. TypeOK' /\ PlaceInv' /\ PushInv'
  BY DEF TypeOK, PlaceInv, PushInv, Notify, Pushing, Home
<1>2. MutexInv'
  BY DEF MutexInv, Notify, TypeOK, Home
<1>3. ServeInv' /\ NoLostWakeup' /\ ThreadPriority'
  BY DEF ServeInv, NoLostWakeup, ThreadPriority, IsEmptyQueue, Notify,
         Pushing, TypeOK, Home
<1>4. RingConsistent'
  BY RingFrame DEF Notify, MutexInv, TypeOK
<1> QED
  BY <1>1, <1>2, <1>3, <1>4

(***************************************************************************)
(* The calls that start a push, and the other calls of the interface.      *)
(***************************************************************************)

\* A thread that is in no call begins to push.
LEMMA BeginPushInv ==
  ASSUME IInv, NEW t \in Threads, NEW e \in Event, NEW n \in 1 .. FanOut,
         pc[t] = Home(t),
         BeginPush(t, e, n),
         reposts' \in 0 .. MaxReposts
  PROVE  IInv'
<1> DEFINE m == [value |-> e.value, priority |-> e.priority, ttl |-> e.ttl,
                 dest |-> e.dest, timestamp |-> TickCount]
<1> USE DEF IInv
<1>1. m \in Message
  BY TickCountInRange DEF Event, Message, TypeOK
<1>2. TypeOK'
  BY <1>1, SizeAssumption DEF TypeOK, BeginPush, Pushing
<1>3. PlaceInv' /\ PushInv'
  BY <1>1 DEF PlaceInv, PushInv, BeginPush, Pushing, TypeOK, Home
<1>4. MutexInv' /\ owner # t
  BY DEF MutexInv, BeginPush, TypeOK, Home
<1>5. ServeInv' /\ NoLostWakeup' /\ ThreadPriority'
  BY DEF ServeInv, NoLostWakeup, ThreadPriority, IsEmptyQueue, BeginPush,
         Pushing, TypeOK, Home
<1>6. RingConsistent'
  BY <1>4, RingFrame DEF BeginPush, TypeOK
<1> QED
  BY <1>2, <1>3, <1>4, <1>5, <1>6

\* A node sends to its subscribers.
LEMMA SendAsyncInv ==
  ASSUME IInv, NEW t \in Threads, SendAsync(t)
  PROVE  IInv'
<1>1. PICK e \in Event, n \in 1 .. FanOut : BeginPush(t, e, n)
  BY DEF SendAsync
<1>2. pc[t] = Home(t) /\ reposts' \in 0 .. MaxReposts
  BY SizeAssumption DEF SendAsync, CanCall, CountCall, IInv, TypeOK
<1> QED
  BY <1>1, <1>2, BeginPushInv

\* The interrupt thread sends kDo.
LEMMA PushDirectInv ==
  ASSUME IInv, PushDirect
  PROVE  IInv'
<1> DEFINE e == [value |-> KDo, priority |-> NbPriorities - 1, ttl |-> 0,
                 dest |-> "local"]
<1>1. e \in Event /\ 1 \in 1 .. FanOut
  BY EventAssumption, SizeAssumption DEF Event
<1>2. /\ InterruptThread \in Threads
      /\ pc[InterruptThread] = Home(InterruptThread)
      /\ BeginPush(InterruptThread, e, 1)
      /\ reposts' \in 0 .. MaxReposts
  BY ThreadsAssumption DEF PushDirect, Threads, Home, IInv, TypeOK
<1> QED
  BY <1>1, <1>2, BeginPushInv

\* The queue is asked to end.
LEMMA EndInv ==
  ASSUME IInv, NEW t \in Threads, End(t)
  PROVE  IInv'
<1> USE DEF IInv
<1>1. pc[t] = Home(t) /\ reposts' \in 0 .. MaxReposts
  BY SizeAssumption DEF End, CanCall, CountCall, TypeOK
<1>2. TypeOK' /\ PlaceInv' /\ PushInv'
  BY <1>1 DEF TypeOK, PlaceInv, PushInv, End, Pushing, Home
<1>3. MutexInv'
  BY <1>1 DEF MutexInv, End, TypeOK, Home
<1>4. ServeInv' /\ NoLostWakeup' /\ ThreadPriority'
  BY <1>1 DEF ServeInv, NoLostWakeup, ThreadPriority, IsEmptyQueue, End,
              Pushing, TypeOK, Home
<1>5. RingConsistent'
  BY RingFrame DEF End, TypeOK
<1> QED
  BY <1>2, <1>3, <1>4, <1>5

\* All the messages are discarded.
LEMMA ClearInv ==
  ASSUME IInv, NEW t \in Threads, Clear(t)
  PROVE  IInv'
<1> USE DEF IInv
<1>1. reposts' \in 0 .. MaxReposts
  BY SizeAssumption DEF Clear, CanCall, CountCall, TypeOK
<1>2. \A p \in Priorities :
         /\ read'[p] = write[p] /\ write[p] \in Slots
         /\ nb_elems'[p] = 0
         /\ \A i \in Slots : queue'[p][i] = NoMsg
  BY DEF Clear, RingConsistent, TypeOK
<1>3. TypeOK'
  <2>1. read' \in [Priorities -> Slots]
    BY <1>2 DEF Clear
  <2> QED
    BY <1>1, <2>1, SizeAssumption DEF TypeOK, Clear
<1>4. PlaceInv' /\ PushInv'
  BY DEF PlaceInv, PushInv, Clear
<1>5. MutexInv'
  BY ThreadsAssumption DEF MutexInv, Clear
<1>6. ServeInv' /\ NoLostWakeup' /\ ThreadPriority'
  BY <1>2 DEF ServeInv, NoLostWakeup, ThreadPriority, IsEmptyQueue, Clear
<1>7. RingConsistent'
  BY <1>2, SizeAssumption
     DEF RingConsistent, Committing, InRing, Wrap, Slots, Clear
<1> QED
  BY <1>3, <1>4, <1>5, <1>6, <1>7

\* Steps that change none of the variables the invariant relates, apart from
\* the types of api and of now.
LEMMA FrameInv ==
  ASSUME IInv, TypeOK', mustEnd' = mustEnd,
         UNCHANGED <<rings, owner, flag, pc, push, exec>>
  PROVE  IInv'
<1> USE DEF IInv
<1>1. PlaceInv' /\ PushInv' /\ MutexInv' /\ ServeInv'
  BY DEF PlaceInv, PushInv, MutexInv, ServeInv
<1>2. NoLostWakeup' /\ ThreadPriority'
  BY DEF NoLostWakeup, ThreadPriority, IsEmptyQueue
<1>3. RingConsistent'
  BY RingFrame
<1> QED
  BY <1>1, <1>2, <1>3

\* pause, resume and setHandler.
LEMMA ControlInv ==
  ASSUME IInv,
         \/ Tick
         \/ \E t \in Senders : SetHandler(t) \/ \E v \in BOOLEAN : SetPause(t, v)
  PROVE  IInv'
<1>1. CASE Tick
  <2>1. TypeOK' /\ mustEnd' = mustEnd
    BY <1>1, TimeAssumption DEF Tick, TypeOK, IInv
  <2> QED
    BY <1>1, <2>1, FrameInv DEF Tick
<1>2. CASE \E t \in Senders : SetHandler(t) \/ \E v \in BOOLEAN : SetPause(t, v)
  <2>1. TypeOK' /\ mustEnd' = mustEnd
    BY <1>2 DEF SetHandler, SetPause, TypeOK, IInv
  <2> QED
    BY <1>2, <2>1, FrameInv DEF SetHandler, SetPause
<1> QED
  BY <1>1, <1>2

(***************************************************************************)
(* The steps of execute().                                                 *)
(***************************************************************************)

\* Where execute() can go without taking a message or giving one up.
LEMMA GotoInv ==
  ASSUME IInv,
         NEW from \in {"loop", "empty", "take", "check", "wait"},
         NEW to \in {"loop", "empty", "take", "check", "wait", "done"},
         Goto(from, to),
         to = "check" => IsEmptyQueue,
         to = "wait" => from = "check" /\ ~mustEnd,
         flag' = flag \/ to \notin {"check", "wait"},
         flag' \in BOOLEAN,
         UNCHANGED <<rings, owner, api, push, exec, reposts, now>>
  PROVE  IInv'
<1> USE DEF IInv, Goto
<1>1. EventThread \in Threads
  BY DEF Threads
<1>2. TypeOK' /\ PlaceInv' /\ PushInv'
  BY <1>1 DEF TypeOK, PlaceInv, PushInv, Pushing
<1>3. MutexInv'
  BY <1>1 DEF MutexInv, TypeOK
<1>4. ServeInv' /\ ThreadPriority'
  BY <1>1 DEF ServeInv, ThreadPriority, Pushing, TypeOK
<1>5. NoLostWakeup'
  BY <1>1 DEF NoLostWakeup, IsEmptyQueue, TypeOK
<1>6. RingConsistent'
  BY RingFrame DEF TypeOK
<1> QED
  BY <1>2, <1>3, <1>4, <1>5, <1>6

\* The steps of execute up to the message.
LEMMA WalkInv ==
  ASSUME IInv, TestEnd \/ TestEmpty \/ TakeNothing \/ CheckEnd \/ WakeUp
  PROVE  IInv'
<1>1. CASE TestEnd
  <2>1. Goto("loop", "done") \/ Goto("loop", "empty")
    BY <1>1 DEF TestEnd
  <2> QED
    BY <1>1, <2>1, GotoInv DEF TestEnd, IInv, TypeOK
<1>2. CASE TestEmpty
  <2>1. CASE IsEmptyQueue
    <3>1. Goto("empty", "check")
      BY <1>2, <2>1 DEF TestEmpty
    <3> QED
      BY <1>2, <2>1, <3>1, GotoInv DEF TestEmpty, IInv, TypeOK
  <2>2. CASE ~IsEmptyQueue
    <3>1. Goto("empty", "take")
      BY <1>2, <2>2 DEF TestEmpty
    <3> QED
      BY <1>2, <3>1, GotoInv DEF TestEmpty, IInv, TypeOK
  <2> QED
    BY <2>1, <2>2
<1>3. CASE TakeNothing
  BY <1>3, GotoInv DEF TakeNothing, IInv, TypeOK
<1>4. CASE CheckEnd
  <2>1. CASE mustEnd
    <3>1. Goto("check", "done")
      BY <1>4, <2>1 DEF CheckEnd
    <3> QED
      BY <1>4, <3>1, GotoInv DEF CheckEnd, IInv, TypeOK
  <2>2. CASE ~mustEnd
    <3>1. Goto("check", "wait")
      BY <1>4, <2>2 DEF CheckEnd
    <3> QED
      BY <1>4, <2>2, <3>1, GotoInv DEF CheckEnd, IInv, TypeOK
  <2> QED
    BY <2>1, <2>2
<1>5. CASE WakeUp
  BY <1>5, GotoInv DEF WakeUp, IInv, TypeOK
<1> QED
  BY <1>1, <1>2, <1>3, <1>4, <1>5

\* execute takes a message from a ring that holds one.
LEMMA TakeInv ==
  ASSUME IInv, Take
  PROVE  IInv'
<1> USE DEF IInv, Goto
<1>1. PICK p \in Priorities :
         /\ Highest(p)
         /\ cur' = queue[p][read[p]]
         /\ queue' = [queue EXCEPT ![p][read[p]] = NoMsg]
         /\ read' = [read EXCEPT ![p] = Wrap(@ + 1)]
         /\ nb_elems' = [nb_elems EXCEPT ![p] = @ - 1]
  BY DEF Take
<1>2. /\ EventThread \in Threads /\ pc[EventThread] = "take"
      /\ owner = NoThread /\ owner' = NoThread
      /\ read[p] \in Slots /\ nb_elems[p] \in 1 .. MaxElems
  BY <1>1 DEF Take, Threads, TypeOK, Highest
<1>3. cur' \in Message
  <2>1. InRing(p, read[p])
    BY <1>2, SizeAssumption DEF InRing, Slots
  <2> QED
    BY <1>1, <1>2, <2>1 DEF RingConsistent, TypeOK
<1>4. TypeOK'
  <2>1. nb_elems' \in [Priorities -> 0 .. MaxElems]
    BY <1>1, <1>2, SizeAssumption DEF TypeOK
  <2>2. read' \in [Priorities -> Slots]
    BY <1>1, <1>2, WrapInRange DEF TypeOK
  <2>3. queue' \in [Priorities -> [Slots -> Message \cup {NoMsg}]]
    BY <1>1, <1>2 DEF TypeOK
  <2> QED
    BY <1>2, <1>3, <2>1, <2>2, <2>3 DEF TypeOK, Take
<1>5. PlaceInv' /\ PushInv'
  BY <1>2 DEF PlaceInv, PushInv, Take, Pushing, TypeOK
<1>6. MutexInv'
  BY <1>2, ThreadsAssumption DEF MutexInv, Take, TypeOK
<1>7. ServeInv' /\ ThreadPriority'
  BY <1>2, <1>3 DEF ServeInv, ThreadPriority, Take, Pushing, TypeOK
<1>8. NoLostWakeup'
  BY <1>2 DEF NoLostWakeup, Take, TypeOK
<1>9. RingConsistent'
  <2> SUFFICES ASSUME NEW r \in Priorities
               PROVE  /\ write[r] = Wrap(read'[r] + nb_elems'[r])
                      /\ \A i \in Slots :
                           /\ queue'[r][i] # NoMsg <=> InRing(r, i)'
                           /\ queue'[r][i] # NoMsg
                                => Clamp(queue'[r][i].priority) = r
    BY <1>2 DEF RingConsistent, Committing, Take
  <2>1. /\ write[r] = Wrap(read[r] + nb_elems[r])
        /\ \A i \in Slots :
             /\ queue[r][i] # NoMsg <=> InRing(r, i)
             /\ queue[r][i] # NoMsg => Clamp(queue[r][i].priority) = r
    BY <1>2 DEF RingConsistent, Committing
  <2>2. CASE r = p
    <3>1. /\ read'[r] = Wrap(read[r] + 1) /\ nb_elems'[r] = nb_elems[r] - 1
          /\ \A i \in Slots :
               queue'[r][i] = IF i = read[r] THEN NoMsg ELSE queue[r][i]
      BY <1>1, <2>2 DEF TypeOK
    <3>2. write[r] = Wrap(read'[r] + nb_elems'[r])
      BY <1>2, <2>1, <2>2, <3>1, SizeAssumption DEF Wrap, Slots
    <3>3. ASSUME NEW i \in Slots
          PROVE  InRing(r, i)' <=> InRing(r, i) /\ i # read[r]
      BY <1>2, <2>2, <3>1, SizeAssumption DEF InRing, Wrap, Slots
    <3> QED
      BY <2>1, <3>1, <3>2, <3>3
  <2>3. CASE r # p
    <3>1. /\ read'[r] = read[r] /\ nb_elems'[r] = nb_elems[r]
          /\ queue'[r] = queue[r]
      BY <1>1, <2>3 DEF TypeOK
    <3> QED
      BY <2>1, <3>1 DEF InRing
  <2> QED
    BY <2>2, <2>3
<1> QED
  BY <1>4, <1>5, <1>6, <1>7, <1>8, <1>9

\* The steps of execute after the message has been taken.
LEMMA ServeStepInv ==
  ASSUME IInv, Discard \/ Dispatch \/ Restore
  PROVE  IInv'
<1> USE DEF IInv, Goto, Discard, Dispatch, Restore
<1>1. /\ EventThread \in Threads
      /\ pc[EventThread] \in {"ttl", "handling", "restore"}
      /\ cur \in Message
      /\ Clamp(cur.priority) \in Priorities
      /\ NbPriorities - 1 \in Priorities
  BY ClampInRange, SizeAssumption DEF Threads, ServeInv, Priorities
<1>2. TypeOK' /\ PlaceInv' /\ PushInv'
  BY <1>1, SizeAssumption DEF TypeOK, PlaceInv, PushInv, Pushing
<1>3. MutexInv'
  BY <1>1 DEF MutexInv, TypeOK
<1>4. ServeInv' /\ ThreadPriority'
  BY <1>1 DEF ServeInv, ThreadPriority, Pushing, TypeOK
<1>5. NoLostWakeup'
  BY <1>1 DEF NoLostWakeup, TypeOK
<1>6. RingConsistent'
  BY RingFrame
<1> QED
  BY <1>2, <1>3, <1>4, <1>5, <1>6

(***************************************************************************)
(* The theorems.                                                           *)
(***************************************************************************)

\* Every step of every thread keeps the invariant.
LEMMA NextInv == IInv /\ [Next]_vars => IInv'
<1> SUFFICES ASSUME IInv, [Next]_vars PROVE IInv'
  OBVIOUS
<1>1. CASE \E t \in Threads : SendAsync(t) \/ PushStep(t) \/ End(t) \/ Clear(t)
  BY <1>1, SendAsyncInv, PushStoreInv, PushRefuseInv, PushCommitInv, NotifyInv,
     EndInv, ClearInv DEF PushStep
<1>2. CASE PushDirect
  BY <1>2, PushDirectInv
<1>3. CASE \/ Tick
           \/ \E t \in Senders : SetHandler(t) \/ \E v \in BOOLEAN : SetPause(t, v)
  BY <1>3, ControlInv
<1>4. CASE Execute
  BY <1>4, WalkInv, TakeInv, ServeStepInv DEF Execute
<1>5. CASE UNCHANGED vars
  BY <1>5, FrameInv DEF vars, IInv, TypeOK
<1> QED
  BY <1>1, <1>2, <1>3, <1>4, <1>5 DEF Next

\* Every reachable state satisfies the inductive invariant.
THEOREM Invariance == Spec => []IInv
<1> QED
  BY InitInv, NextInv, PTL DEF Spec

\* Type correctness of the queue, the mutex and the threads of MyQueue.
THEOREM TypeCorrectness == Spec => []TypeOK
<1>1. IInv => TypeOK
  BY DEF IInv
<1> QED
  BY <1>1, Invariance, PTL

\* The rings of MyQueue are consistent, whatever the threads that push.
THEOREM RingConsistency == Spec => []RingConsistent
<1>1. IInv => RingConsistent
  BY DEF IInv
<1> QED
  BY <1>1, Invariance, PTL

\* The event thread never sleeps for good on work: the flag is set or about
\* to be.
THEOREM NoLostWakeups == Spec => []NoLostWakeup
<1>1. IInv => NoLostWakeup
  BY DEF IInv
<1> QED
  BY <1>1, Invariance, PTL

\* Handlers run at the priority of their event, extraction at the highest.
THEOREM ThreadPriorities == Spec => []ThreadPriority
<1>1. IInv => ThreadPriority
  BY DEF IInv
<1> QED
  BY <1>1, Invariance, PTL

(***************************************************************************)
(* Time to live.  Arithmetic of the division that rounds down.             *)
(***************************************************************************)

\* Quotient and remainder.
LEMMA DivMod ==
  ASSUME NEW a \in Int, NEW n \in Nat \ {0}
  PROVE  /\ a \div n \in Int /\ a % n \in 0 .. n - 1
         /\ a = n * (a \div n) + (a % n)
BY SMTT(30)

\* A smaller number has no larger quotient.
LEMMA DivMonotonic ==
  ASSUME NEW n \in Nat \ {0}, NEW a \in Int, NEW b \in Int, a <= b
  PROVE  a \div n <= b \div n
BY SMTT(30)

\* The quotient of a difference is not above the difference of the quotients.
LEMMA DivMinus ==
  ASSUME NEW n \in Nat \ {0}, NEW a \in Int, NEW b \in Int
  PROVE  (a - b) \div n <= (a \div n) - (b \div n)
BY SMTT(30)

\* Multiples of n are not rounded.
LEMMA DivPlus ==
  ASSUME NEW n \in Nat \ {0}, NEW a \in Int, NEW k \in Int
  PROVE  (a + n * k) \div n = (a \div n) + k
BY SMTT(30)

\* A number below n is its own remainder.
LEMMA ModSmall ==
  ASSUME NEW n \in Nat \ {0}, NEW a \in Nat, a < n
  PROVE  a % n = a
BY SMTT(30)

\* No remainder is above its number.
LEMMA ModBelow ==
  ASSUME NEW n \in Nat \ {0}, NEW a \in Nat
  PROVE  a % n <= a /\ a % n \in Nat
BY SMTT(30)

\* A product of natural numbers in the order of its second factor.
LEMMA MulMonotonic ==
  ASSUME NEW n \in Nat, NEW x \in Int, NEW y \in Int, x <= y
  PROVE  n * x <= n * y /\ n * x \in Int /\ n * y \in Int
BY SMTT(30)

\* A count that wraps is reached from an earlier one by the difference.
LEMMA ModReaches ==
  ASSUME NEW w \in Nat \ {0}, NEW s \in 0 .. w - 1, NEW c \in Int
  PROVE  (s + ((c - s) % w)) % w = c % w
BY SMTT(30)

\* A product of such counts, which wraps too, grows at most by the product of
\* the difference.
LEMMA ModProduct ==
  ASSUME NEW w \in Nat \ {0}, NEW f \in Nat, NEW s \in Nat, NEW d \in Nat
  PROVE  (f * ((s + d) % w)) % w <= ((f * s) % w) + f * d
<1> DEFINE c == (s + d) % w
           e == (s + d) \div w
           u == (f * s) \div w
           v == (f * c) \div w
           x == (f * s) % w
           y == (f * c) % w
           k == f * e + v - u
<1>1. s + d \in Int /\ c \in 0 .. w - 1 /\ e \in Int /\ s + d = w * e + c
  <2>1. s + d \in Int
    OBVIOUS
  <2> QED
    BY <2>1, DivMod
<1>2. f * s \in Nat /\ f * d \in Nat /\ f * c \in Nat /\ f * e \in Int
  BY <1>1
<1>3. u \in Int /\ f * s = w * u + x /\ x \in 0 .. w - 1
  <2>1. f * s \in Int
    BY <1>2
  <2> QED
    BY <2>1, DivMod, Zenon
<1>4. v \in Int /\ f * c = w * v + y /\ y \in 0 .. w - 1
  <2>1. f * c \in Int
    BY <1>2
  <2> QED
    BY <2>1, DivMod, Zenon
<1> HIDE DEF c, e, u, v, x, y
<1>5. f * s + f * d = w * (f * e) + f * c
  BY <1>1
<1>6. k \in Int /\ w * k = w * (f * e) + w * v - w * u
  BY <1>2, <1>3, <1>4
<1> HIDE DEF k
<1> DEFINE p == f * d
           q == w * k
<1>7. y = x + p - q /\ p \in Nat
  BY <1>2, <1>3, <1>4, <1>5, <1>6
<1>8. q \in Int /\ (k < 0 => q <= -w) /\ (k >= 0 => q >= 0)
  <2>1. w * (-1) = -w /\ w * 0 = 0 /\ w * k \in Int
    BY <1>6
  <2>2. (k < 0 => w * k <= w * (-1)) /\ (k >= 0 => w * 0 <= w * k)
    BY <1>6, MulMonotonic
  <2> QED
    BY <2>1, <2>2
<1>9. y <= x + p
  <2> HIDE DEF p, q
  <2> QED
    BY <1>3, <1>4, <1>6, <1>7, <1>8
<1> QED
  BY <1>9 DEF c, x, y

(***************************************************************************)
(* Events that have outlived their time to live.                           *)
(***************************************************************************)

\* No stamp is in the future, before and after the counter of ticks wraps.
PastInv ==
  /\ \A p \in Priorities, i \in Slots : queue[p][i] # NoMsg => queue[p][i].timestamp <= now
  /\ cur # NoMsg => cur.timestamp <= now

\* The counter of ticks is not ahead of the ticks.
LEMMA TickCountBehind ==
  ASSUME now \in Nat
  PROVE  TickCount <= now
BY ModBelow, TimeAssumption DEF TickCount

\* Every step keeps the stamps in the past.
LEMMA PastNext == IInv /\ PastInv /\ [Next]_vars => PastInv'
<1> SUFFICES ASSUME IInv, PastInv, [Next]_vars PROVE PastInv'
  OBVIOUS
<1> USE DEF rings, api, push, exec
<1>0. TypeOK /\ PushInv /\ now \in Nat
  BY DEF IInv, TypeOK
<1>1. ASSUME UNCHANGED <<queue, cur, now>>
      PROVE  PastInv'
  BY <1>1 DEF PastInv
<1>2. ASSUME NEW t \in Threads, PushStore(t)
      PROVE  PastInv'
  <2> DEFINE m == [msg[t] EXCEPT !.timestamp = TickCount]
             p == Clamp(msg[t].priority)
  <2>1. msg[t] \in Message
    BY <1>0, <1>2 DEF PushStore, PushInv
  <2>2. m.timestamp <= now
    BY <1>0, <2>1, TickCountBehind DEF Message
  <2>3. queue' = [queue EXCEPT ![p][write[p]] = m] /\ UNCHANGED <<cur, now>>
    BY <1>2 DEF PushStore
  <2> HIDE DEF m, p
  <2>4. \A l \in Priorities, i \in Slots : queue'[l][i] \in {m, queue[l][i]}
    BY <1>0, <2>3 DEF TypeOK
  <2> QED
    BY <2>2, <2>3, <2>4 DEF PastInv
<1>3. ASSUME NEW t \in Threads, Clear(t)
      PROVE  PastInv'
  BY <1>3 DEF Clear, PastInv
<1>4. CASE Take
  <2>1. PICK p \in Priorities :
          /\ cur' = queue[p][read[p]]
          /\ queue' = [queue EXCEPT ![p][read[p]] = NoMsg]
    BY <1>4 DEF Take
  <2>2. read[p] \in Slots /\ now' = now
    BY <1>0, <1>4 DEF TypeOK, Take
  <2>3. \A l \in Priorities, i \in Slots : queue'[l][i] \in {NoMsg, queue[l][i]}
    BY <1>0, <2>1, <2>2 DEF TypeOK
  <2> QED
    BY <2>1, <2>2, <2>3 DEF PastInv
<1>5. CASE Discard \/ Restore
  BY <1>5 DEF Discard, Restore, PastInv
<1>6. CASE Tick
  <2>1. now' = now + 1 /\ UNCHANGED <<queue, cur>>
    BY <1>6 DEF Tick
  <2>2. \A p \in Priorities, i \in Slots : queue[p][i] # NoMsg => queue[p][i].timestamp \in Nat
    BY <1>0, TimeAssumption DEF TypeOK, Message, Ticks
  <2>3. cur # NoMsg => cur.timestamp \in Nat
    BY <1>0, TimeAssumption DEF TypeOK, Message, Ticks
  <2> QED
    BY <1>0, <2>1, <2>2, <2>3 DEF PastInv
<1>7. ASSUME NEW t \in Threads, SendAsync(t) \/ PushStep(t) \/ End(t)
      PROVE  PastInv'
  BY <1>1, <1>2, <1>7
  DEF SendAsync, BeginPush, PushStep, PushRefuse, PushCommit, Notify, End
<1>8. CASE PushDirect \/ UNCHANGED vars
  BY <1>1, <1>8 DEF PushDirect, BeginPush, vars
<1>9. CASE \E t \in Senders : SetHandler(t) \/ \E v \in BOOLEAN : SetPause(t, v)
  BY <1>1, <1>9 DEF SetHandler, SetPause
<1>10. CASE TestEnd \/ TestEmpty \/ TakeNothing \/ Dispatch \/ CheckEnd \/ WakeUp
  BY <1>1, <1>10 DEF TestEnd, TestEmpty, TakeNothing, Dispatch, CheckEnd, WakeUp
<1> QED
  BY <1>3, <1>4, <1>5, <1>6, <1>7, <1>8, <1>9, <1>10 DEF Next, Execute

\* Before the milliseconds wrap, what execute() dispatches is not too old:
\* rounding down makes the difference of two times in milliseconds no smaller
\* than the time between them.
LEMMA DispatchFresh ==
  ASSUME IInv, PastInv, Dispatch, MsFactor * now < Word, cur.ttl # 0
  PROVE  AgeMs(cur) <= cur.ttl
<1> DEFINE ts == cur.timestamp
           a == MsFactor * now
           b == MsFactor * ts
           x == a \div TickFreq
           y == b \div TickFreq
<1>1. cur \in Message
  BY DEF IInv, ServeInv, Dispatch
<1>2. now \in Nat /\ ts \in Ticks /\ ts <= now /\ cur.ttl \in Nat
  <2>1. now \in Nat
    BY DEF IInv, TypeOK
  <2>2. ts \in Ticks /\ cur.ttl \in Nat
    BY <1>1, EventAssumption DEF Message
  <2>3. cur # NoMsg
    BY <1>1, EventAssumption
  <2> QED
    BY <2>1, <2>2, <2>3 DEF PastInv
<1>3. MsFactor \in Nat \ {0} /\ TickFreq \in Nat \ {0} /\ Word \in Nat \ {0} /\ ts \in Nat
  BY <1>2, TimeAssumption DEF Ticks
<1> HIDE DEF ts
<1>4. a \in Nat /\ b \in Nat /\ b <= a /\ a < Word
  BY <1>2, <1>3, MulMonotonic
<1>5. now < Word
  <2>1. now * 1 <= now * MsFactor
    BY <1>2, <1>3, MulMonotonic
  <2> QED
    BY <1>2, <1>3, <2>1
<1>6. TickCount = now /\ Ms(now) = x
  BY <1>2, <1>3, <1>4, <1>5, ModSmall DEF TickCount, Ms
<1>7. b < Word
  BY <1>3, <1>4
<1>8. Ms(ts) = y
  BY <1>3, <1>4, <1>7, ModSmall DEF Ms
<1>9. x \in Int /\ y \in Nat
  <2>1. x \in Int /\ y \in Int
    BY <1>3, <1>4, DivMod
  <2>2. 0 \div TickFreq = 0
    BY <1>3, SMTT(30)
  <2> QED
    BY <1>3, <1>4, <2>1, <2>2, DivMonotonic
<1>10. x <= (y + cur.ttl) % Word
  <2>1. ~ (Ms(TickCount) > (Ms(ts) + cur.ttl) % Word)
    BY DEF Dispatch, Expired, ts
  <2>2. (y + cur.ttl) % Word \in Nat
    BY <1>2, <1>3, <1>9, ModBelow
  <2> HIDE DEF x, y
  <2> QED
    BY <1>6, <1>8, <1>9, <2>1, <2>2
<1>11. (y + cur.ttl) % Word <= y + cur.ttl /\ (y + cur.ttl) % Word \in Nat
  BY <1>2, <1>3, <1>9, ModBelow
<1>12. AgeMs(cur) = (a - b) \div TickFreq
  <2>1. now - ts \in Nat /\ now - ts < Word
    BY <1>2, <1>3, <1>5
  <2>2. (now - ts) % Word = now - ts
    BY <1>3, <2>1, ModSmall
  <2>3. MsFactor * (now - ts) = a - b
    BY <1>2, <1>3
  <2>4. AgeMs(cur) = (MsFactor * ((now - ts) % Word)) \div TickFreq
    BY DEF AgeMs, ts
  <2> QED
    BY <2>2, <2>3, <2>4
<1> HIDE DEF a, b
<1>13. (a - b) \div TickFreq <= x - y /\ (a - b) \div TickFreq \in Int
  <2>1. a - b \in Int /\ a \in Int /\ b \in Int
    BY <1>4
  <2> QED
    BY <1>3, <2>1, DivMinus, DivMod
<1> HIDE DEF x, y
<1> QED
  BY <1>2, <1>9, <1>10, <1>11, <1>12, <1>13

\* As long as the milliseconds have not wrapped, for every frequency of the
\* ticks: an event that has outlived its time to live reaches no handler.
THEOREM StaleDiscarded == Spec => StaleDiscardedBeforeWrap
<1>1. Init => PastInv
  BY DEF Init, PastInv
<1>2. IInv /\ PastInv /\ [Next]_vars => PastInv'
  BY PastNext
<1>3. IInv /\ PastInv =>
        [Dispatch /\ MsFactor * now < Word => cur.ttl = 0 \/ AgeMs(cur) <= cur.ttl]_vars
  BY DispatchFresh
<1> QED
  BY <1>1, <1>2, <1>3, Invariance, PTL DEF Spec, StaleDiscardedBeforeWrap

\* What execute() discards is too old, if a tick is a whole number of
\* milliseconds and the limits in milliseconds fit the word.
LEMMA DiscardStale ==
  ASSUME MsFactor % TickFreq = 0,
         \A ttl \in Ttls : (Word - 1) \div TickFreq + ttl < Word,
         IInv, Discard
  PROVE  cur.ttl # 0 /\ AgeMs(cur) > cur.ttl
<1> DEFINE ts == cur.timestamp
           d == (now - ts) % Word
           k == MsFactor \div TickFreq
           a == (MsFactor * TickCount) % Word
           b == (MsFactor * ts) % Word
           x == a \div TickFreq
           y == b \div TickFreq
<1>1. cur \in Message /\ Expired(cur)
  BY DEF IInv, ServeInv, Discard, Goto
<1>2. now \in Nat /\ ts \in Ticks /\ cur.ttl \in Ttls /\ cur.ttl \in Nat
  <2>1. now \in Nat
    BY DEF IInv, TypeOK
  <2>2. ts \in Ticks /\ cur.ttl \in Ttls
    BY <1>1 DEF Message
  <2> QED
    BY <2>1, <2>2, EventAssumption
<1>3. MsFactor \in Nat \ {0} /\ TickFreq \in Nat \ {0} /\ Word \in Nat \ {0} /\ ts \in Nat
      /\ ts \in 0 .. Word - 1
  BY <1>2, TimeAssumption DEF Ticks
<1>4. k \in Int /\ MsFactor = TickFreq * k
  BY <1>3, DivMod
<1> HIDE DEF ts, k
<1>5. d \in Nat /\ TickCount = (ts + d) % Word
  <2>1. now - ts \in Int
    BY <1>2, <1>3
  <2>2. d \in Nat
    BY <1>3, <2>1, DivMod
  <2>3. (ts + d) % Word = now % Word
    <3>1. now \in Int
      BY <1>2
    <3> QED
      BY <1>3, <3>1, ModReaches, Zenon
  <2> QED
    BY <2>2, <2>3 DEF TickCount
<1>6. a <= b + MsFactor * d
  <2> HIDE DEF d
  <2>1. MsFactor \in Nat /\ Word \in Nat \ {0} /\ ts \in Nat /\ d \in Nat
    BY <1>3, <1>5
  <2>2. (MsFactor * ((ts + d) % Word)) % Word <= ((MsFactor * ts) % Word) + MsFactor * d
    BY <2>1, ModProduct, Zenon
  <2> QED
    BY <1>5, <2>2
<1>7. a \in 0 .. Word - 1 /\ b \in 0 .. Word - 1
  <2>1. MsFactor * TickCount \in Int /\ MsFactor * ts \in Int
    BY <1>2, <1>3, <1>5, DivMod
  <2> QED
    BY <1>3, <2>1, DivMod
<1> HIDE DEF d, a, b
<1>8. MsFactor * d \in Nat /\ MsFactor * d = TickFreq * (k * d) /\ k * d \in Int
  <2>1. (TickFreq * k) * d = TickFreq * (k * d)
    BY <1>3, <1>4, <1>5
  <2> QED
    BY <1>3, <1>4, <1>5, <2>1
<1> DEFINE age == k * d
           p == MsFactor * d
<1>9. a <= b + p
  BY <1>6
<1>a. p = TickFreq * age /\ age \in Int /\ p \in Nat
  BY <1>8
<1> HIDE DEF age, p
<1>10. x <= y + age /\ x \in Int /\ y \in Int
  <2>1. x <= (b + p) \div TickFreq
    BY <1>3, <1>7, <1>9, <1>a, DivMonotonic
  <2>2. (b + TickFreq * age) \div TickFreq = y + age
    BY <1>3, <1>7, <1>a, DivPlus
  <2>3. x \in Int /\ y \in Int
    BY <1>3, <1>7, DivMod
  <2> QED
    BY <1>a, <2>1, <2>2, <2>3
<1>11. y \in Nat /\ y + cur.ttl < Word
  <2>1. y <= (Word - 1) \div TickFreq /\ (Word - 1) \div TickFreq \in Int
    BY <1>3, <1>7, DivMonotonic, DivMod
  <2>2. 0 \div TickFreq = 0
    BY <1>3, SMTT(30)
  <2>3. 0 <= y
    BY <1>3, <1>7, <2>2, DivMonotonic
  <2>4. (Word - 1) \div TickFreq + cur.ttl < Word
    BY <1>2
  <2> HIDE DEF y
  <2> QED
    BY <1>2, <1>3, <1>10, <2>1, <2>3, <2>4
<1>12. x > y + cur.ttl /\ cur.ttl # 0
  <2>1. Ms(TickCount) = x /\ Ms(ts) = y
    BY DEF Ms, a, b
  <2>2. Ms(TickCount) > (Ms(ts) + cur.ttl) % Word /\ cur.ttl # 0
    BY <1>1 DEF Expired, ts
  <2> HIDE DEF x, y
  <2>3. (y + cur.ttl) % Word = y + cur.ttl
    BY <1>2, <1>3, <1>11, ModSmall
  <2> QED
    BY <2>1, <2>2, <2>3
<1>13. AgeMs(cur) = age
  <2>1. AgeMs(cur) = p \div TickFreq
    BY DEF AgeMs, d, ts, p
  <2>2. (0 + TickFreq * age) \div TickFreq = (0 \div TickFreq) + age
    BY <1>3, <1>a, DivPlus
  <2>3. 0 \div TickFreq = 0
    BY <1>3, SMTT(30)
  <2> QED
    BY <1>a, <2>1, <2>2, <2>3
<1> HIDE DEF x, y
<1> QED
  BY <1>2, <1>a, <1>10, <1>12, <1>13

\* Before and after the counters wrap, only an event that has outlived its
\* time to live is discarded, if the frequency of the ticks divides the 1000
\* of the milliseconds (RTX_Config.h: OS_TICK_FREQ is 1000), and no time to
\* live takes the limit beyond the word.
THEOREM FreshKept ==
  ASSUME MsFactor % TickFreq = 0,
         \A ttl \in Ttls : (Word - 1) \div TickFreq + ttl < Word
  PROVE  Spec => FreshNeverDiscarded
<1>1. IInv => [Discard => cur.ttl # 0 /\ AgeMs(cur) > cur.ttl]_vars
  BY DiscardStale
<1> QED
  BY <1>1, Invariance, PTL DEF FreshNeverDiscarded
=============================================================================
