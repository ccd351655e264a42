------------------------- MODULE EventQueue_refines -------------------------
(***************************************************************************)
(* EventQueue implements PriorityFifo, for any number of threads and       *)
(* priorities and any ring size: a push takes effect when it is counted,   *)
(* execute() takes one event at a time, and pushes, tests, sleeps and      *)
(* wake-ups in between are steps of nothing.  The messages of a ring also  *)
(* keep the order of their stamps.                                         *)
(***************************************************************************)
EXTENDS EventQueue_proofs, SequenceTheorems

USE DEF rings, api, push, exec

\* The abstract queue.
AbstractQ == [p \in Priorities |-> WaitingAt(p)]

(***************************************************************************)
(* The sequence a ring stands for.                                         *)
(***************************************************************************)

\* Sequences written as functions.
LEMMA AppendAsFunction ==
  ASSUME NEW S, NEW s \in Seq(S), NEW m \in S
  PROVE  Append(s, m) = [i \in 1 .. Len(s) + 1 |-> IF i = Len(s) + 1 THEN m ELSE s[i]]
<1>1. Append(s, m) \in Seq(S) /\ Len(Append(s, m)) = Len(s) + 1
  OBVIOUS
<1>2. \A i \in 1 .. Len(s) + 1 : Append(s, m)[i] = IF i = Len(s) + 1 THEN m ELSE s[i]
  OBVIOUS
<1>3. Append(s, m) \in [1 .. Len(s) + 1 -> S]
  BY <1>1, LenProperties
<1>4. Append(s, m) = [i \in 1 .. Len(s) + 1 |-> Append(s, m)[i]]
  BY <1>3
<1> QED
  BY <1>2, <1>4

\* The same for all but the first element.
LEMMA TailAsFunction ==
  ASSUME NEW S, NEW s \in Seq(S), s # <<>>
  PROVE  Tail(s) = [i \in 1 .. Len(s) - 1 |-> s[i + 1]]
<1>1. /\ Tail(s) \in Seq(S) /\ Len(Tail(s)) = Len(s) - 1
      /\ \A i \in 1 .. Len(s) - 1 : Tail(s)[i] = s[i + 1]
  BY HeadTailProperties
<1>2. Tail(s) \in [1 .. Len(s) - 1 -> S]
  BY <1>1, LenProperties
<1>3. Tail(s) = [i \in 1 .. Len(s) - 1 |-> Tail(s)[i]]
  BY <1>2
<1> QED
  BY <1>1, <1>3

\* A ring that is left alone, apart from slots outside its messages.
LEMMA WaitingFrame ==
  ASSUME TypeOK, NEW p \in Priorities,
         read'[p] = read[p], nb_elems'[p] = nb_elems[p],
         \A i \in Slots : InRing(p, i) => queue'[p][i] = queue[p][i]
  PROVE  WaitingAt(p)' = WaitingAt(p)
<1>1. read[p] \in Slots /\ nb_elems[p] \in 0 .. MaxElems
  BY DEF TypeOK
<1>2. \A i \in 1 .. nb_elems[p] :
        Wrap(read[p] + i - 1) \in Slots /\ InRing(p, Wrap(read[p] + i - 1))
  BY <1>1, SizeAssumption DEF Wrap, Slots, InRing
<1>3. \A i \in 1 .. nb_elems[p] :
        queue'[p][Wrap(read'[p] + i - 1)] = queue[p][Wrap(read[p] + i - 1)]
  BY <1>2
<1> QED
  BY <1>3 DEF WaitingAt, Wrap

\* The sequence has as many messages as the ring counts.
LEMMA WaitingType ==
  ASSUME TypeOK, RingConsistent, NEW p \in Priorities
  PROVE  /\ WaitingAt(p) \in Seq(Message)
         /\ Len(WaitingAt(p)) = nb_elems[p]
         /\ nb_elems[p] \in Nat
         /\ \A i \in 1 .. nb_elems[p] : WaitingAt(p)[i] = queue[p][Wrap(read[p] + i - 1)]
<1>1. read[p] \in Slots /\ nb_elems[p] \in 0 .. MaxElems
  BY DEF TypeOK
<1>2. \A i \in 1 .. nb_elems[p] :
        Wrap(read[p] + i - 1) \in Slots /\ InRing(p, Wrap(read[p] + i - 1))
  BY <1>1, SizeAssumption DEF Wrap, Slots, InRing
<1>3. \A i \in 1 .. nb_elems[p] : queue[p][Wrap(read[p] + i - 1)] \in Message
  BY <1>2 DEF TypeOK, RingConsistent
<1> QED
  BY <1>1, <1>3, SizeAssumption DEF WaitingAt

\* A message that is counted comes last.
LEMMA CommitWaiting ==
  ASSUME IInv, NEW t \in Threads, PushCommit(t)
  PROVE  \E p \in Priorities, m \in Message :
           /\ Clamp(m.priority) = p
           /\ nb_elems[p] < MaxElems
           /\ WaitingAt(p)' = Append(WaitingAt(p), m)
           /\ \A l \in Priorities \ {p} : WaitingAt(l)' = WaitingAt(l)
<1>0. TypeOK /\ RingConsistent /\ PushInv /\ MutexInv
  BY DEF IInv
<1>a. Clamp(msg[t].priority) \in Priorities /\ owner = t
      /\ nb_elems[Clamp(msg[t].priority)] < MaxElems
  BY <1>0, ClampInRange DEF PushCommit, PushInv, MutexInv
<1>1. PICK p \in Priorities : p = Clamp(msg[t].priority) /\ nb_elems[p] < MaxElems
  BY <1>a
<1>2. /\ write' = [write EXCEPT ![p] = Wrap(@ + 1)]
      /\ nb_elems' = [nb_elems EXCEPT ![p] = @ + 1]
      /\ UNCHANGED <<queue, read>>
  BY <1>1 DEF PushCommit
<1> DEFINE m == queue[p][write[p]]
<1>3. owner # NoThread
  BY <1>a, ThreadsAssumption
<1>4. Committing(p)
  BY <1>a, <1>1, <1>3 DEF Committing
<1>5. write[p] \in Slots /\ read[p] \in Slots /\ nb_elems[p] \in 0 .. MaxElems
      /\ write[p] = Wrap(read[p] + nb_elems[p])
  BY <1>0, <1>1 DEF TypeOK, RingConsistent
<1>6. m \in Message /\ Clamp(m.priority) = p
  BY <1>0, <1>1, <1>4, <1>5 DEF TypeOK, RingConsistent
<1>7. nb_elems'[p] = nb_elems[p] + 1
      /\ \A l \in Priorities \ {p} : nb_elems'[l] = nb_elems[l]
  BY <1>0, <1>1, <1>2 DEF TypeOK
<1>8. \A l \in Priorities \ {p} : WaitingAt(l)' = WaitingAt(l)
  BY <1>0, <1>2, <1>7, WaitingFrame
<1>9. WaitingAt(p)' = [i \in 1 .. nb_elems[p] + 1 |-> queue[p][Wrap(read[p] + i - 1)]]
  BY <1>2, <1>7 DEF WaitingAt, Wrap
<1> HIDE DEF m
<1>10. WaitingAt(p)' = Append(WaitingAt(p), m)
  <2>1. Append(WaitingAt(p), m) =
          [i \in 1 .. nb_elems[p] + 1 |-> IF i = nb_elems[p] + 1 THEN m ELSE WaitingAt(p)[i]]
    <3>1. WaitingAt(p) \in Seq(Message) /\ Len(WaitingAt(p)) = nb_elems[p]
      BY <1>0, WaitingType
    <3> QED
      BY <1>6, <3>1, AppendAsFunction
  <2>2. \A i \in 1 .. nb_elems[p] + 1 :
          queue[p][Wrap(read[p] + i - 1)] =
            IF i = nb_elems[p] + 1 THEN m ELSE WaitingAt(p)[i]
    BY <1>0, <1>1, <1>5, WaitingType DEF m
  <2> QED
    BY <1>9, <2>1, <2>2
<1> QED
  BY <1>1, <1>6, <1>8, <1>10

\* The message that is taken was the first.
LEMMA TakeWaiting ==
  ASSUME IInv, Take
  PROVE  \E p \in Priorities :
           /\ Highest(p)
           /\ cur' = Head(WaitingAt(p))
           /\ WaitingAt(p)' = Tail(WaitingAt(p))
           /\ \A l \in Priorities \ {p} : WaitingAt(l)' = WaitingAt(l)
<1>0. TypeOK /\ RingConsistent
  BY DEF IInv
<1>1. PICK p \in Priorities :
        /\ Highest(p)
        /\ cur' = queue[p][read[p]]
        /\ queue' = [queue EXCEPT ![p][read[p]] = NoMsg]
        /\ read' = [read EXCEPT ![p] = Wrap(@ + 1)]
        /\ nb_elems' = [nb_elems EXCEPT ![p] = @ - 1]
  BY DEF Take
<1>2. read[p] \in Slots /\ nb_elems[p] \in 1 .. MaxElems
  BY <1>0, <1>1, SizeAssumption DEF TypeOK, Highest
<1>3. /\ nb_elems'[p] = nb_elems[p] - 1 /\ read'[p] = Wrap(read[p] + 1)
      /\ \A i \in Slots \ {read[p]} : queue'[p][i] = queue[p][i]
      /\ \A l \in Priorities \ {p} :
           nb_elems'[l] = nb_elems[l] /\ read'[l] = read[l] /\ queue'[l] = queue[l]
  BY <1>0, <1>1, <1>2 DEF TypeOK
<1>4. \A l \in Priorities \ {p} : WaitingAt(l)' = WaitingAt(l)
  BY <1>0, <1>3, WaitingFrame
<1>5. /\ WaitingAt(p) \in Seq(Message) /\ Len(WaitingAt(p)) = nb_elems[p]
      /\ \A i \in 1 .. nb_elems[p] : WaitingAt(p)[i] = queue[p][Wrap(read[p] + i - 1)]
  BY <1>0, WaitingType
<1>6. cur' = Head(WaitingAt(p))
  <2>1. Wrap(read[p] + 1 - 1) = read[p]
    BY <1>2, SizeAssumption DEF Wrap, Slots
  <2> QED
    BY <1>1, <1>2, <1>5, <2>1
<1>7. WaitingAt(p)' = Tail(WaitingAt(p))
  <2>1. Tail(WaitingAt(p)) = [i \in 1 .. nb_elems[p] - 1 |-> WaitingAt(p)[i + 1]]
    <3>1. WaitingAt(p) # <<>>
      BY <1>2, <1>5
    <3> QED
      BY <1>5, <3>1, TailAsFunction
  <2>2. ASSUME NEW i \in 1 .. nb_elems[p] - 1
        PROVE  queue'[p][Wrap(read'[p] + i - 1)] = WaitingAt(p)[i + 1]
    <3>1. /\ Wrap(Wrap(read[p] + 1) + i - 1) = Wrap(read[p] + (i + 1) - 1)
          /\ Wrap(read[p] + (i + 1) - 1) \in Slots \ {read[p]}
      BY <1>2, SizeAssumption DEF Wrap, Slots
    <3> QED
      BY <1>2, <1>3, <1>5, <3>1
  <2>3. WaitingAt(p)' = [i \in 1 .. nb_elems[p] - 1 |-> queue'[p][Wrap(read'[p] + i - 1)]]
    BY <1>3 DEF WaitingAt, Wrap
  <2> QED
    BY <2>1, <2>2, <2>3
<1> QED
  BY <1>1, <1>4, <1>6, <1>7

(***************************************************************************)
(* Every step is a step of the abstract queue, or none.                    *)
(***************************************************************************)

\* A step that leaves rings, message in hand and end of the queue alone.
LEMMA Stutter ==
  ASSUME TypeOK, UNCHANGED <<read, nb_elems, cur>>, Phase' = Phase,
         \A p \in Priorities, i \in Slots : InRing(p, i) => queue'[p][i] = queue[p][i]
  PROVE  UNCHANGED Abstract!vars
<1>1. \A p \in Priorities : WaitingAt(p)' = WaitingAt(p)
  BY WaitingFrame
<1> QED
  BY <1>1 DEF Abstract!vars

\* The queue ends when mustEnd is set and execute() has seen it or will.
LEMMA PhaseFrame ==
  ASSUME mustEnd' = mustEnd,
         pc'[EventThread] \in {"empty", "take"} <=> pc[EventThread] \in {"empty", "take"}
  PROVE  Phase' = Phase
BY DEF Phase

\* A step that only asks the queue to end, or sees that it must.
LEMMA ShutStep ==
  ASSUME TypeOK, UNCHANGED <<rings, cur>>, mustEnd => mustEnd', mustEnd' \in BOOLEAN,
         pc'[EventThread] \in {"empty", "take"} =>
           pc[EventThread] \in {"empty", "take"} \/ ~mustEnd
  PROVE  Abstract!Shut \/ UNCHANGED Abstract!vars
<1>1. \A p \in Priorities : WaitingAt(p)' = WaitingAt(p)
  BY WaitingFrame
<1>2. Phase' = Phase \/ (Phase = "open" /\ Phase' \in {"draining", "closed"})
        \/ (Phase = "draining" /\ Phase' = "closed")
  BY DEF Phase, TypeOK
<1> QED
  BY <1>1, <1>2 DEF Abstract!Shut, Abstract!vars

\* The steps of a push.
LEMMA PushRefines ==
  ASSUME IInv, NEW t \in Threads, PushStep(t)
  PROVE  Abstract!Next \/ UNCHANGED Abstract!vars
<1>0. TypeOK /\ PlaceInv /\ PushInv /\ MutexInv /\ RingConsistent /\ EventThread \in Threads
  BY DEF IInv, Threads
<1>1. CASE PushStore(t)
  <2>1. Clamp(msg[t].priority) \in Priorities
    BY <1>0, <1>1, ClampInRange DEF PushStore, PushInv
  <2>2. PICK p \in Priorities : p = Clamp(msg[t].priority)
    BY <2>1
  <2>3. \A l \in Priorities, i \in Slots :
          ~(l = p /\ i = write[p]) => queue'[l][i] = queue[l][i]
    BY <1>0, <1>1, <2>2 DEF PushStore, TypeOK
  <2>4. ~InRing(p, write[p])
    <3>1. /\ nb_elems[p] < MaxElems /\ nb_elems[p] \in Nat /\ read[p] \in Slots
          /\ write[p] = Wrap(read[p] + nb_elems[p])
      BY <1>0, <1>1, <2>2, SizeAssumption DEF PushStore, TypeOK, RingConsistent
    <3> QED
      BY <3>1, SizeAssumption DEF InRing, Wrap, Slots
  <2>5. Phase' = Phase
    BY <1>0, <1>1, PhaseFrame DEF PushStore, TypeOK
  <2> QED
    BY <1>0, <1>1, <2>3, <2>4, <2>5, Stutter DEF PushStore
<1>2. CASE PushRefuse(t)
  <2>1. Phase' = Phase
    BY <1>0, <1>2, PhaseFrame DEF PushRefuse, TypeOK
  <2> QED
    BY <1>0, <1>2, <2>1, Stutter DEF PushRefuse
<1>3. CASE PushCommit(t)
  <2>1. Phase' = Phase
    BY <1>0, <1>3, PhaseFrame DEF PushCommit, TypeOK
  <2>2. PICK p \in Priorities, m \in Message :
          /\ Clamp(m.priority) = p
          /\ nb_elems[p] < MaxElems
          /\ WaitingAt(p)' = Append(WaitingAt(p), m)
          /\ \A l \in Priorities \ {p} : WaitingAt(l)' = WaitingAt(l)
    BY <1>3, CommitWaiting
  <2>3. Abstract!LevelOf(m) = p
    BY <2>2 DEF Abstract!LevelOf, Clamp
  <2>4. Len(WaitingAt(p)) < MaxElems
    BY <1>0, <2>2, WaitingType
  <2>5. AbstractQ' = [AbstractQ EXCEPT ![p] = Append(@, m)]
    BY <2>2 DEF AbstractQ
  <2>6. Abstract!Enqueue(m)
    BY <1>3, <2>1, <2>3, <2>4, <2>5 DEF Abstract!Enqueue, AbstractQ, PushCommit
  <2> QED
    BY <2>6 DEF Abstract!Next
<1>4. CASE Notify(t)
  <2>1. Phase' = Phase
    BY <1>0, <1>4, PhaseFrame DEF Notify, TypeOK, Home
  <2> QED
    BY <1>0, <1>4, <2>1, Stutter DEF Notify
<1> QED
  BY <1>1, <1>2, <1>3, <1>4 DEF PushStep

\* The other calls of the interface, and the ticks of the clock.
LEMMA CallRefines ==
  ASSUME IInv,
         \/ \E t \in Threads : SendAsync(t) \/ End(t) \/ Clear(t)
         \/ PushDirect
         \/ \E t \in Senders : SetHandler(t) \/ \E v \in BOOLEAN : SetPause(t, v)
         \/ Tick
  PROVE  Abstract!Next \/ UNCHANGED Abstract!vars
<1>0. TypeOK /\ PlaceInv /\ EventThread \in Threads /\ InterruptThread \in Threads
  BY DEF IInv, Threads
<1>1. CASE PushDirect \/ \E t \in Threads : SendAsync(t)
  <2>1. PICK t \in Threads : pc[t] = Home(t) /\ pc' = [pc EXCEPT ![t] = "store"]
                             /\ UNCHANGED <<rings, cur, mustEnd>>
    BY <1>0, <1>1, ThreadsAssumption
    DEF PushDirect, SendAsync, CanCall, BeginPush, Home
  <2>2. Phase' = Phase
    BY <1>0, <2>1, PhaseFrame DEF TypeOK, Home
  <2> QED
    BY <1>0, <2>1, <2>2, Stutter
<1>2. CASE \E t \in Threads : End(t)
  <2>1. PICK t \in Threads : End(t)
    BY <1>2
  <2>2. UNCHANGED <<rings, cur>> /\ mustEnd' = TRUE
    BY <2>1 DEF End
  <2>3. pc'[EventThread] \in {"empty", "take"} => pc[EventThread] \in {"empty", "take"}
    BY <1>0, <2>1 DEF End, TypeOK
  <2>4. Abstract!Shut \/ UNCHANGED Abstract!vars
    BY <1>0, <2>2, <2>3, ShutStep
  <2> QED
    BY <2>4 DEF Abstract!Next
<1>3. CASE \E t \in Threads : Clear(t)
  <2>1. PICK t \in Threads : Clear(t)
    BY <1>3
  <2>2. \A p \in Priorities : WaitingAt(p)' = <<>>
    <3>1. \A p \in Priorities : nb_elems'[p] = 0
      BY <2>1 DEF Clear
    <3> QED
      BY <3>1 DEF WaitingAt
  <2>3. AbstractQ' = [p \in Abstract!Levels |-> <<>>]
    BY <2>2 DEF AbstractQ, Abstract!Levels, Priorities
  <2>4. Phase' = Phase
    BY <2>1, PhaseFrame DEF Clear
  <2>5. Abstract!Purge
    BY <2>1, <2>3, <2>4 DEF Abstract!Purge, AbstractQ, Clear
  <2> QED
    BY <2>5 DEF Abstract!Next
<1>4. CASE Tick \/ \E t \in Senders : SetHandler(t) \/ \E v \in BOOLEAN : SetPause(t, v)
  <2>1. UNCHANGED <<rings, cur, mustEnd, pc>>
    BY <1>4 DEF Tick, SetHandler, SetPause
  <2>2. Phase' = Phase
    BY <2>1, PhaseFrame
  <2> QED
    BY <1>0, <2>1, <2>2, Stutter
<1> QED
  BY <1>1, <1>2, <1>3, <1>4

\* The steps of execute().
LEMMA ExecuteRefines ==
  ASSUME IInv, Execute
  PROVE  Abstract!Next \/ UNCHANGED Abstract!vars
<1>0. TypeOK /\ ServeInv /\ EventThread \in Threads
  BY DEF IInv, Threads
<1>1. CASE Take
  <2>1. PICK p \in Priorities :
          /\ Highest(p)
          /\ cur' = Head(WaitingAt(p))
          /\ WaitingAt(p)' = Tail(WaitingAt(p))
          /\ \A l \in Priorities \ {p} : WaitingAt(l)' = WaitingAt(l)
    BY <1>1, TakeWaiting
  <2>2. /\ pc[EventThread] = "take" /\ pc'[EventThread] = "ttl" /\ mustEnd' = mustEnd
    BY <1>0, <1>1 DEF Take, Goto, TypeOK
  <2>3. cur = NoMsg
    BY <1>0, <2>2 DEF ServeInv, Pushing
  <2>4. Phase # "closed" /\ Phase' = IF Phase = "open" THEN "open" ELSE "closed"
    BY <2>2 DEF Phase
  <2>5. \A l \in Priorities : Len(WaitingAt(l)) = nb_elems[l] /\ WaitingAt(l) \in Seq(Message)
    BY <1>0, WaitingType DEF IInv
  <2>6. WaitingAt(p) # <<>>
    BY <2>1, <2>5 DEF Highest
  <2>7. \A h \in Priorities : h > p => WaitingAt(h) = <<>>
    BY <2>1, <2>5 DEF Highest
  <2>8. AbstractQ' = [AbstractQ EXCEPT ![p] = Tail(@)]
    BY <2>1 DEF AbstractQ
  <2>9. Abstract!Dequeue(p)
    BY <2>1, <2>3, <2>4, <2>6, <2>7, <2>8
    DEF Abstract!Dequeue, Abstract!Levels, Priorities, AbstractQ
  <2> QED
    BY <2>9 DEF Abstract!Next, Abstract!Levels, Priorities
<1>2. CASE TestEnd \/ TestEmpty \/ TakeNothing \/ CheckEnd \/ WakeUp
  <2>1. UNCHANGED <<rings, cur, mustEnd>> /\ mustEnd \in BOOLEAN
    BY <1>0, <1>2 DEF TestEnd, TestEmpty, TakeNothing, CheckEnd, WakeUp, TypeOK
  <2>2. pc'[EventThread] \in {"empty", "take"} => pc[EventThread] \in {"empty", "take"} \/ ~mustEnd
    BY <1>0, <1>2 DEF TestEnd, TestEmpty, TakeNothing, CheckEnd, WakeUp, Goto, TypeOK
  <2>3. Abstract!Shut \/ UNCHANGED Abstract!vars
    BY <1>0, <2>1, <2>2, ShutStep
  <2> QED
    BY <2>3 DEF Abstract!Next
<1>3. CASE Discard \/ Restore
  <2>1. /\ cur # NoMsg /\ cur' = NoMsg /\ UNCHANGED <<rings, mustEnd>>
        /\ pc[EventThread] \in {"ttl", "handling", "restore"} /\ pc'[EventThread] = "loop"
    BY <1>0, <1>3, EventAssumption DEF Discard, Restore, Goto, ServeInv, Pushing, TypeOK
  <2>2. \A p \in Priorities : WaitingAt(p)' = WaitingAt(p)
    BY <1>0, <2>1, WaitingFrame
  <2>3. Phase' = Phase
    BY <2>1, PhaseFrame
  <2>4. Abstract!Release
    BY <2>1, <2>2, <2>3 DEF Abstract!Release
  <2> QED
    BY <2>4 DEF Abstract!Next
<1>4. CASE Dispatch
  <2>1. UNCHANGED <<rings, cur, mustEnd>> /\ pc[EventThread] = "ttl"
        /\ pc'[EventThread] \in {"handling", "restore"}
    BY <1>0, <1>4 DEF Dispatch, Goto, TypeOK
  <2>2. Phase' = Phase
    BY <2>1, PhaseFrame
  <2> QED
    BY <1>0, <2>1, <2>2, Stutter
<1> QED
  BY <1>1, <1>2, <1>3, <1>4 DEF Execute

\* Accepted events are served once each, the oldest of the highest priority
\* first, at most one after end(), for every interleaving of the threads.
THEOREM Refinement == Spec => ImplementsPriorityFifo
<1>1. Init => Abstract!Init
  <2> SUFFICES ASSUME Init PROVE Abstract!Init
    OBVIOUS
  <2>1. \A p \in Priorities : WaitingAt(p) = <<>>
    BY DEF Init, WaitingAt
  <2> QED
    BY <2>1 DEF Init, Phase, Abstract!Init, Abstract!Levels, Priorities
<1>2. IInv /\ [Next]_vars => [Abstract!Next]_Abstract!vars
  <2> SUFFICES ASSUME IInv, [Next]_vars
               PROVE  Abstract!Next \/ UNCHANGED Abstract!vars
    OBVIOUS
  <2>1. CASE UNCHANGED vars
    BY <2>1, PhaseFrame, Stutter DEF vars, IInv
  <2>2. CASE Next
    BY <2>2, PushRefines, CallRefines, ExecuteRefines DEF Next
  <2> QED
    BY <2>1, <2>2
<1> QED
  BY <1>1, <1>2, Invariance, PTL DEF Spec, ImplementsPriorityFifo, Abstract!Spec

(***************************************************************************)
(* The order of the stamps.                                                *)
(***************************************************************************)

\* No message comes from the future, and each slot that follows another one
\* has the later stamp, also the slot that is being pushed.
StampInv ==
  \A p \in Priorities, i \in Slots :
    queue[p][i] # NoMsg =>
      /\ queue[p][i].timestamp <= now
      /\ queue[p][Wrap(i + 1)] # NoMsg /\ Wrap(i + 1) # read[p]
           => queue[p][i].timestamp <= queue[p][Wrap(i + 1)].timestamp

\* The rings are only changed by push, clear and execute().
LEMMA StampFrame ==
  ASSUME TypeOK, StampInv, UNCHANGED <<queue, read>>, now' \in Nat, now' >= now
  PROVE  StampInv'
<1>1. \A p \in Priorities, i \in Slots :
        queue[p][i] # NoMsg => queue[p][i].timestamp \in Nat
  BY TimeAssumption DEF TypeOK, Message, Ticks
<1>2. now \in Nat
  BY DEF TypeOK
<1>3. \A p \in Priorities, i \in Slots :
        queue[p][i] # NoMsg => queue[p][i].timestamp <= now'
  BY <1>1, <1>2 DEF StampInv
<1> QED
  BY <1>3 DEF StampInv, Wrap

\* The message that is stored gets the latest stamp and comes last.
LEMMA StampStore ==
  ASSUME IInv, StampInv, MaxNow < Word, NEW t \in Threads, PushStore(t)
  PROVE  StampInv'
<1>0. TypeOK /\ PushInv /\ MutexInv /\ RingConsistent
  BY DEF IInv
<1>1. msg[t] \in Message /\ pc[t] = "store" /\ owner = NoThread
  BY <1>0 DEF PushStore, PushInv
<1>2. PICK p \in Priorities : p = Clamp(msg[t].priority)
  BY <1>1, ClampInRange
<1> DEFINE m == [msg[t] EXCEPT !.timestamp = TickCount]
<1>3. m.timestamp = now /\ now \in Nat
  <2>1. now % Word = now
    <3>1. now \in Nat /\ Word \in Nat /\ now < Word
      BY <1>0, TimeAssumption DEF TypeOK
    <3>2. \A a, b \in Nat : a < b => a % b = a
      BY SMTT(30)
    <3> QED
      BY <3>1, <3>2
  <2> QED
    BY <1>0, <1>1, <2>1 DEF TypeOK, Message, TickCount
<1>4. /\ nb_elems[p] < MaxElems /\ nb_elems[p] \in Nat
      /\ read[p] \in Slots /\ write[p] \in Slots /\ write[p] = Wrap(read[p] + nb_elems[p])
      /\ UNCHANGED <<read, now>>
      /\ queue' = [queue EXCEPT ![p][write[p]] = m]
  BY <1>0, <1>2, SizeAssumption DEF PushStore, TypeOK, RingConsistent
<1> HIDE DEF m
<1>5. \A l \in Priorities, i \in Slots :
        queue'[l][i] = IF l = p /\ i = write[p] THEN m ELSE queue[l][i]
  BY <1>0, <1>4 DEF TypeOK
<1>6. queue[p][Wrap(write[p] + 1)] # NoMsg => Wrap(write[p] + 1) = read[p] \/ MaxElems = 1
  <2>1. Wrap(write[p] + 1) \in Slots
    BY <1>4, WrapInRange
  <2>2. ~Committing(p)
    BY <1>1 DEF Committing
  <2>3. queue[p][Wrap(write[p] + 1)] # NoMsg => InRing(p, Wrap(write[p] + 1))
    BY <1>0, <2>1, <2>2 DEF RingConsistent
  <2> QED
    BY <1>4, <2>1, <2>3, SizeAssumption DEF InRing, Wrap, Slots
<1>7. MaxElems = 1 => write[p] = read[p] /\ Wrap(write[p] + 1) = write[p]
  BY <1>4, SizeAssumption DEF Slots, Wrap
<1> SUFFICES ASSUME NEW l \in Priorities, NEW i \in Slots, queue'[l][i] # NoMsg
             PROVE  /\ queue'[l][i].timestamp <= now
                    /\ queue'[l][Wrap(i + 1)] # NoMsg /\ Wrap(i + 1) # read[l]
                         => queue'[l][i].timestamp <= queue'[l][Wrap(i + 1)].timestamp
  BY <1>4 DEF StampInv, Wrap
<1>8. Wrap(i + 1) \in Slots
  BY WrapInRange
<1>9. CASE l = p /\ i = write[p]
  <2>1. queue'[l][i] = m
    BY <1>5, <1>9
  <2>2. Wrap(i + 1) # write[p] => queue'[l][Wrap(i + 1)] = queue[p][Wrap(write[p] + 1)]
    BY <1>5, <1>8, <1>9
  <2>3. queue'[l][Wrap(i + 1)] # NoMsg /\ Wrap(i + 1) # read[l] => Wrap(i + 1) = write[p]
    BY <1>6, <1>7, <1>9, <2>2
  <2>4. Wrap(i + 1) = write[p] => queue'[l][Wrap(i + 1)] = m
    BY <1>5, <1>8, <1>9
  <2> QED
    BY <1>3, <2>1, <2>3, <2>4
<1>10. CASE ~(l = p /\ i = write[p])
  <2>1. queue'[l][i] = queue[l][i] /\ queue[l][i].timestamp <= now
    BY <1>5, <1>10 DEF StampInv
  <2>2. CASE l = p /\ Wrap(i + 1) = write[p]
    <3>1. queue'[l][Wrap(i + 1)] = m
      BY <1>5, <1>8, <2>2
    <3> QED
      BY <1>3, <2>1, <3>1
  <2>3. CASE ~(l = p /\ Wrap(i + 1) = write[p])
    <3>1. queue'[l][Wrap(i + 1)] = queue[l][Wrap(i + 1)]
      BY <1>5, <1>8, <2>3
    <3> QED
      BY <2>1, <3>1 DEF StampInv
  <2> QED
    BY <2>2, <2>3
<1> QED
  BY <1>9, <1>10

\* The slot that is emptied is the one from which the order was counted.
LEMMA StampTake ==
  ASSUME IInv, StampInv, Take
  PROVE  StampInv'
<1>0. TypeOK
  BY DEF IInv
<1>1. PICK p \in Priorities :
        /\ queue' = [queue EXCEPT ![p][read[p]] = NoMsg]
        /\ read' = [read EXCEPT ![p] = Wrap(@ + 1)]
  BY DEF Take
<1>2. read[p] \in Slots
  BY <1>0 DEF TypeOK
<1>3. /\ \A l \in Priorities, i \in Slots :
           queue'[l][i] = IF l = p /\ i = read[p] THEN NoMsg ELSE queue[l][i]
      /\ \A l \in Priorities \ {p} : read'[l] = read[l]
      /\ UNCHANGED now
  BY <1>0, <1>1, <1>2 DEF TypeOK, Take
<1> SUFFICES ASSUME NEW l \in Priorities, NEW i \in Slots, queue'[l][i] # NoMsg
             PROVE  /\ queue'[l][i].timestamp <= now
                    /\ queue'[l][Wrap(i + 1)] # NoMsg /\ Wrap(i + 1) # read'[l]
                         => queue'[l][i].timestamp <= queue'[l][Wrap(i + 1)].timestamp
  BY <1>3 DEF StampInv, Wrap
<1>4. Wrap(i + 1) \in Slots
  BY WrapInRange
<1>5. queue'[l][i] = queue[l][i]
      /\ (queue'[l][Wrap(i + 1)] # NoMsg =>
            /\ queue'[l][Wrap(i + 1)] = queue[l][Wrap(i + 1)]
            /\ l = p => Wrap(i + 1) # read[p])
  BY <1>3, <1>4
<1> QED
  BY <1>3, <1>4, <1>5 DEF StampInv

\* Every step keeps the order.
LEMMA StampNext ==
  ASSUME MaxNow < Word, IInv, StampInv, [Next]_vars
  PROVE  StampInv'
<1>0. TypeOK /\ now \in Nat
  BY DEF IInv, TypeOK
<1>1. ASSUME NEW t \in Threads, PushStep(t)
      PROVE  StampInv'
  <2>1. CASE PushStore(t)
    BY <2>1, StampStore
  <2>2. CASE PushRefuse(t) \/ PushCommit(t) \/ Notify(t)
    BY <1>0, <2>2, StampFrame DEF PushRefuse, PushCommit, Notify
  <2> QED
    BY <1>1, <2>1, <2>2 DEF PushStep
<1>2. ASSUME NEW t \in Threads, SendAsync(t) \/ End(t)
      PROVE  StampInv'
  BY <1>0, <1>2, StampFrame DEF SendAsync, BeginPush, End
<1>3. ASSUME NEW t \in Threads, Clear(t)
      PROVE  StampInv'
  BY <1>3, WrapInRange DEF Clear, StampInv, Wrap
<1>4. CASE PushDirect \/ Tick \/ UNCHANGED vars
  BY <1>0, <1>4, StampFrame DEF PushDirect, BeginPush, Tick, vars
<1>5. CASE \E t \in Senders : SetHandler(t) \/ \E v \in BOOLEAN : SetPause(t, v)
  BY <1>0, <1>5, StampFrame DEF SetHandler, SetPause
<1>6. CASE Take
  BY <1>6, StampTake
<1>7. CASE TestEnd \/ TestEmpty \/ TakeNothing \/ Discard \/ Dispatch \/ Restore \/ CheckEnd \/ WakeUp
  BY <1>0, <1>7, StampFrame
  DEF TestEnd, TestEmpty, TakeNothing, Discard, Dispatch, Restore, CheckEnd, WakeUp
<1> QED
  BY <1>1, <1>2, <1>3, <1>4, <1>5, <1>6, <1>7 DEF Next, Execute

\* Before the tick count wraps, the messages of a ring wait in the order of
\* their stamps, because push stamps them inside the critical section.
THEOREM StampOrder ==
  ASSUME MaxNow < Word
  PROVE  Spec => []StampsOrdered
<1>1. Init => StampInv
  BY DEF Init, StampInv
<1>2. IInv /\ StampInv /\ [Next]_vars => StampInv'
  BY StampNext
<1>3. IInv /\ StampInv => StampsOrdered
  BY WrapInRange DEF IInv, RingConsistent, StampInv, StampsOrdered
<1> QED
  BY <1>1, <1>2, <1>3, Invariance, PTL DEF Spec
=============================================================================
