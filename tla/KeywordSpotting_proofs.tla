----------------------- MODULE KeywordSpotting_proofs -----------------------
(***************************************************************************)
(* Proofs about KeywordSpotting, for any words, any capacity of the queue  *)
(* and events of other nodes at any priority: there is one permission to   *)
(* use the network, and it is never doubled nor lost.                      *)
(***************************************************************************)
EXTENDS KeywordSpotting, FiniteSetTheorems, TLAPS

(***************************************************************************)
(* The inductive invariant.  That the stream thread has the higher         *)
(* priority is used in PermissionNext, for the acknowledgement.            *)
(***************************************************************************)

\* What the places of the two threads say about the event being handled.
PlaceInv ==
  /\ pcE \in {"infer", "classify", "request", "ack"} => serving = Tensor
  /\ pcE \in {"classify", "request", "ack"} => ~inputReceived
  /\ pcE = "again" => serving # Tensor
  /\ pcE \in {"idle", "take"} => serving = NoMsg
  /\ pcS \in {"push", "store"} => ready
  /\ pcS = "init" => ~ready /\ serving # Tensor /\ Waiting(Tensor) = {}

Sender  == ready /\ pcS # "store"
Network == serving = Tensor
Queued  == Waiting(Tensor) # {}

\* The permission is in one of three places, once.
PermissionInv ==
  pcS \notin {"init", "end"} /\ ~lost =>
    /\ Sender \/ Network \/ Queued
    /\ ~(Sender /\ Network) /\ ~(Sender /\ Queued) /\ ~(Network /\ Queued)
    /\ \A i, j \in Waiting(Tensor) : i = j

(***************************************************************************)
(* Facts about the queue.                                                  *)
(***************************************************************************)

\* The events, and the priorities at which they wait.
LEMMA EventFacts ==
  /\ Tensor \in Events /\ NoMsg \notin Events /\ NoMsg # Tensor
  /\ Tensor.priority = KHigh /\ Tensor.node = "network" /\ Tensor.ttl = FALSE
  /\ \A m \in Events : m.priority \in 0 .. NbPriorities - 1 /\ Queue!LevelOf(m) = m.priority
  /\ \A ttl \in BOOLEAN : FrameRequest(ttl) \in Events /\ FrameRequest(ttl) # Tensor
                          /\ FrameRequest(ttl).priority = KNormal
  /\ \A p \in OtherPriorities : Other(p) \in Events /\ Other(p) # Tensor
                                /\ Other(p).priority = p
<1> USE DEF KHigh, KNormal
<1>1. /\ Tensor \in Events /\ NoMsg \notin Events
      /\ \A ttl \in BOOLEAN : FrameRequest(ttl) \in Events
      /\ \A p \in OtherPriorities : Other(p) \in Events
  BY KwsAssumption DEF Events
<1>2. /\ Tensor.priority = KHigh /\ Tensor.node = "network" /\ Tensor.ttl = FALSE
      /\ \A ttl \in BOOLEAN :
           FrameRequest(ttl).node = "display" /\ FrameRequest(ttl).priority = KNormal
      /\ \A p \in OtherPriorities : Other(p).node = "other" /\ Other(p).priority = p
  BY DEF Tensor, FrameRequest, Other
<1>3. \A m \in Events : m.priority \in 0 .. NbPriorities - 1
  BY <1>2, KwsAssumption DEF Events, NbPriorities
<1>4. \A m \in Events : Queue!LevelOf(m) = m.priority
  BY <1>3 DEF Queue!LevelOf, NbPriorities
<1> QED
  BY <1>1, <1>2, <1>3, <1>4

\* The events of one priority.
Of(p) == {m \in Events : m.priority = p}

QueueType ==
  /\ DOMAIN evq = 0 .. NbPriorities - 1
  /\ evq = [p \in 0 .. NbPriorities - 1 |-> evq[p]]
  /\ \A p \in 0 .. NbPriorities - 1 : evq[p] \in Seq(Of(p)) /\ Len(evq[p]) <= Capacity
  /\ serving \in Events \cup {NoMsg}

\* An event that is put behind the others.
LEMMA EnqueueType ==
  ASSUME QueueType, NEW m \in Events, Queue!Enqueue(m)
  PROVE  QueueType'
<1>1. m.priority \in 0 .. NbPriorities - 1 /\ Queue!LevelOf(m) = m.priority
  BY EventFacts
<1>2. evq' = [evq EXCEPT ![m.priority] = Append(@, m)] /\ UNCHANGED serving
  BY <1>1 DEF Queue!Enqueue
<1>3. Len(evq[m.priority]) < Capacity
  BY <1>1 DEF Queue!Enqueue
<1>4. \A p \in 0 .. NbPriorities - 1 :
        evq'[p] = IF p = m.priority THEN Append(evq[p], m) ELSE evq[p]
  BY <1>1, <1>2 DEF QueueType
<1>5. ASSUME NEW p \in 0 .. NbPriorities - 1
      PROVE  evq'[p] \in Seq(Of(p)) /\ Len(evq'[p]) <= Capacity
  <2>1. evq[p] \in Seq(Of(p)) /\ Len(evq[p]) \in Nat
    BY DEF QueueType
  <2>2. CASE p = m.priority
    <3>1. m \in Of(p)
      BY <2>2 DEF Of
    <3>2. Append(evq[p], m) \in Seq(Of(p)) /\ Len(Append(evq[p], m)) = Len(evq[p]) + 1
      BY <2>1, <3>1
    <3>3. evq'[p] = Append(evq[p], m)
      BY <1>4, <2>2
    <3>4. Len(evq[p]) < Capacity
      BY <1>3, <2>2
    <3>5. Len(evq[p]) + 1 <= Capacity
      BY <2>1, <3>4, KwsAssumption
    <3> QED
      BY <3>2, <3>3, <3>5
  <2>3. CASE p # m.priority
    BY <1>4, <2>1, <2>3 DEF QueueType
  <2> QED
    BY <2>2, <2>3
<1> QED
  BY <1>2, <1>5 DEF QueueType

\* Other events leave those of the network as they are.
LEMMA EnqueueOther ==
  ASSUME QueueType, NEW m \in Events, m # Tensor, Queue!Enqueue(m)
  PROVE  Waiting(Tensor)' = Waiting(Tensor) /\ UNCHANGED serving
<1>1. Queue!LevelOf(m) = m.priority /\ KHigh \in 0 .. NbPriorities - 1 /\ Tensor.priority = KHigh
  BY EventFacts
<1>2. evq' = [evq EXCEPT ![m.priority] = Append(@, m)] /\ UNCHANGED serving
  BY <1>1 DEF Queue!Enqueue
<1>3. evq[KHigh] \in Seq(Of(KHigh))
  BY <1>1 DEF QueueType
<1>4. evq'[KHigh] = IF m.priority = KHigh THEN Append(evq[KHigh], m) ELSE evq[KHigh]
  BY <1>1, <1>2 DEF QueueType
<1>5. {i \in 1 .. Len(evq'[KHigh]) : evq'[KHigh][i] = Tensor} =
      {i \in 1 .. Len(evq[KHigh]) : evq[KHigh][i] = Tensor}
  BY <1>3, <1>4
<1> QED
  BY <1>1, <1>2, <1>5 DEF Waiting

\* A tensor comes behind the other events.
LEMMA EnqueueTensor ==
  ASSUME QueueType, Queue!Enqueue(Tensor)
  PROVE  /\ Waiting(Tensor)' = Waiting(Tensor) \cup {Len(evq[KHigh]) + 1}
         /\ UNCHANGED serving
<1>1. Queue!LevelOf(Tensor) = KHigh /\ KHigh \in 0 .. NbPriorities - 1 /\ Tensor.priority = KHigh
  BY EventFacts
<1>2. evq' = [evq EXCEPT ![KHigh] = Append(@, Tensor)] /\ UNCHANGED serving
  BY <1>1 DEF Queue!Enqueue
<1>3. evq[KHigh] \in Seq(Of(KHigh))
  BY <1>1 DEF QueueType
<1>4. evq'[KHigh] = Append(evq[KHigh], Tensor)
  BY <1>1, <1>2 DEF QueueType
<1>5. {i \in 1 .. Len(evq'[KHigh]) : evq'[KHigh][i] = Tensor} =
      {i \in 1 .. Len(evq[KHigh]) : evq[KHigh][i] = Tensor} \cup {Len(evq[KHigh]) + 1}
  BY <1>3, <1>4
<1> QED
  BY <1>1, <1>2, <1>5 DEF Waiting

\* The event that is taken is one of its priority.
LEMMA DequeueFacts ==
  ASSUME QueueType, NEW p \in 0 .. NbPriorities - 1, Queue!Dequeue(p)
  PROVE  /\ QueueType'
         /\ serving = NoMsg
         /\ serving' = Head(evq[p])
         /\ \A l \in 0 .. NbPriorities - 1 :
              evq'[l] = IF l = p THEN Tail(evq[p]) ELSE evq[l]
<1>1. serving = NoMsg /\ evq[p] # <<>> /\ serving' = Head(evq[p])
      /\ evq' = [evq EXCEPT ![p] = Tail(@)]
  BY DEF Queue!Dequeue
<1>2. evq[p] \in Seq(Of(p)) /\ Len(evq[p]) \in Nat
  BY DEF QueueType
<1>3. /\ Head(evq[p]) \in Of(p)
      /\ Tail(evq[p]) \in Seq(Of(p))
      /\ Len(Tail(evq[p])) = Len(evq[p]) - 1
  BY <1>1, <1>2
<1>4. \A l \in 0 .. NbPriorities - 1 :
        evq'[l] = IF l = p THEN Tail(evq[p]) ELSE evq[l]
  BY <1>1 DEF QueueType
<1>5. \A l \in 0 .. NbPriorities - 1 : evq'[l] \in Seq(Of(l)) /\ Len(evq'[l]) <= Capacity
  <2> SUFFICES ASSUME NEW l \in 0 .. NbPriorities - 1
               PROVE  evq'[l] \in Seq(Of(l)) /\ Len(evq'[l]) <= Capacity
    OBVIOUS
  <2>1. CASE l = p
    <3>1. evq'[l] = Tail(evq[p]) /\ Len(evq[p]) <= Capacity
      BY <1>4, <2>1 DEF QueueType
    <3>2. Len(evq[p]) - 1 <= Capacity
      BY <1>2, <3>1, KwsAssumption
    <3> QED
      BY <1>3, <2>1, <3>1, <3>2
  <2>2. CASE l # p
    BY <1>4, <2>2 DEF QueueType
  <2> QED
    BY <2>1, <2>2
<1> QED
  BY <1>1, <1>3, <1>4, <1>5 DEF QueueType, Of

\* When the tensor that waits alone is taken, none waits; when another event
\* is taken, the tensors wait one place further in front.
LEMMA DequeueWaiting ==
  ASSUME QueueType, NEW p \in 0 .. NbPriorities - 1, Queue!Dequeue(p)
  PROVE  /\ Waiting(Tensor)' = {} => serving' = Tensor \/ Waiting(Tensor) = {}
         /\ serving' = Tensor => 1 \in Waiting(Tensor)
         /\ \/ Waiting(Tensor)' = Waiting(Tensor) /\ serving' # Tensor
            \/ \A i \in Waiting(Tensor)' : i + 1 \in Waiting(Tensor) /\ i \in Nat \ {0}
<1>0. KHigh \in 0 .. NbPriorities - 1 /\ Tensor.priority = KHigh
  BY EventFacts
<1>1. evq[p] \in Seq(Of(p)) /\ evq[p] # <<>> /\ serving' = Head(evq[p])
  BY DequeueFacts DEF QueueType, Queue!Dequeue
<1>2. CASE p = KHigh
  <2> DEFINE s == evq[KHigh]
  <2>1. evq'[KHigh] = Tail(s)
    BY <1>0, <1>2, DequeueFacts
  <2>2. Waiting(Tensor) = {i \in 1 .. Len(s) : s[i] = Tensor}
    BY <1>0 DEF Waiting
  <2>3. Waiting(Tensor)' = {i \in 1 .. Len(Tail(s)) : Tail(s)[i] = Tensor}
    BY <1>0, <2>1 DEF Waiting
  <2>4. s \in Seq(Of(p)) /\ Len(s) \in Nat \ {0} /\ Head(s) = s[1]
    BY <1>1, <1>2
  <2>5. Len(Tail(s)) = Len(s) - 1 /\ \A i \in 1 .. Len(s) - 1 : Tail(s)[i] = s[i + 1]
    BY <1>1, <1>2, <2>4
  <2> HIDE DEF s
  <2>6. \A i \in Waiting(Tensor)' : i + 1 \in Waiting(Tensor) /\ i \in Nat \ {0}
    BY <2>2, <2>3, <2>4, <2>5
  <2>7. serving' = Tensor => 1 \in Waiting(Tensor)
    BY <1>1, <1>2, <2>2, <2>4 DEF s
  <2>8. ASSUME serving' # Tensor, NEW k \in Waiting(Tensor)
        PROVE  Waiting(Tensor)' # {}
    <3>1. k \in 1 .. Len(s) /\ s[k] = Tensor /\ k # 1
      BY <1>1, <1>2, <2>2, <2>4, <2>8 DEF s
    <3>2. k - 1 \in 1 .. Len(s) - 1 /\ (k - 1) + 1 = k
      BY <2>4, <3>1
    <3> QED
      BY <2>3, <2>5, <3>1, <3>2
  <2> QED
    BY <2>6, <2>7, <2>8
<1>3. CASE p # KHigh
  <2>1. evq'[KHigh] = evq[KHigh]
    BY <1>0, <1>3, DequeueFacts
  <2>2. serving' # Tensor
    BY <1>0, <1>1, <1>3 DEF Of
  <2> QED
    BY <1>0, <2>1, <2>2, EventFacts DEF Waiting, QueueType
<1> QED
  BY <1>2, <1>3

\* What push does to the queue, with an event of another node or a tensor.
LEMMA PushType ==
  ASSUME QueueType, NEW m \in Events, Push(m)
  PROVE  QueueType'
<1>1. CASE Queue!Enqueue(m)
  BY <1>1, EnqueueType
<1>2. CASE UNCHANGED waits
  BY <1>2 DEF QueueType, waits
<1> QED
  BY <1>1, <1>2 DEF Push

\* A push, accepted or not, of another event leaves the tensors as they are.
LEMMA PushOther ==
  ASSUME QueueType, NEW m \in Events, m # Tensor, Push(m)
  PROVE  Waiting(Tensor)' = Waiting(Tensor) /\ UNCHANGED serving
<1>1. CASE Queue!Enqueue(m)
  BY <1>1, EnqueueOther
<1>2. CASE UNCHANGED waits
  BY <1>2 DEF Waiting, waits
<1> QED
  BY <1>1, <1>2 DEF Push

\* The end of an event.
LEMMA ReleaseFacts ==
  ASSUME QueueType, Queue!Release
  PROVE  QueueType' /\ Waiting(Tensor)' = Waiting(Tensor) /\ serving' = NoMsg
BY DEF Queue!Release, QueueType, Waiting

\* The request for a frame is put behind the others of its priority.
LEMMA RequestFacts ==
  ASSUME QueueType, RequestNext
  PROVE  QueueType' /\ Waiting(Tensor)' = Waiting(Tensor) /\ serving' = NoMsg
<1> DEFINE m == FrameRequest(TRUE)
<1>1. m \in Events /\ m # Tensor /\ m.priority = KNormal /\ Tensor.priority = KHigh
      /\ Queue!LevelOf(m) = KNormal /\ KNormal \in 0 .. NbPriorities - 1 /\ KNormal # KHigh
  <2>1. m \in Events /\ m # Tensor /\ m.priority = KNormal /\ Tensor.priority = KHigh
    BY EventFacts
  <2>2. Queue!LevelOf(m) = m.priority /\ m.priority \in 0 .. NbPriorities - 1
    BY <2>1, EventFacts
  <2>3. KNormal \in 0 .. NbPriorities - 1 /\ KNormal # KHigh
    BY DEF KNormal, KHigh, NbPriorities
  <2> HIDE DEF m
  <2> QED
    BY <2>1, <2>2, <2>3
<1>2. evq' = (IF Full(m) THEN evq ELSE [evq EXCEPT ![KNormal] = Append(@, m)]) /\ serving' = NoMsg
  BY DEF RequestNext
<1> HIDE DEF m
<1>3. CASE Full(m)
  BY <1>2, <1>3 DEF QueueType, Waiting
<1>4. CASE ~ Full(m)
  <2>1. Len(evq[KNormal]) \in Nat /\ Capacity \in Nat /\ evq[KNormal] \in Seq(Of(KNormal))
    BY <1>1, KwsAssumption DEF QueueType
  <2>2. Len(evq[KNormal]) + 1 <= Capacity
    BY <1>1, <1>4, <2>1 DEF Full
  <2>3. m \in Of(KNormal)
    BY <1>1 DEF Of
  <2>4. \A l \in 0 .. NbPriorities - 1 :
          evq'[l] = IF l = KNormal THEN Append(evq[KNormal], m) ELSE evq[l]
    BY <1>1, <1>2, <1>4 DEF QueueType
  <2>5. Append(evq[KNormal], m) \in Seq(Of(KNormal))
        /\ Len(Append(evq[KNormal], m)) = Len(evq[KNormal]) + 1
    BY <2>1, <2>3
  <2>6. \A l \in 0 .. NbPriorities - 1 : evq'[l] \in Seq(Of(l)) /\ Len(evq'[l]) <= Capacity
    BY <2>2, <2>4, <2>5 DEF QueueType
  <2>7. DOMAIN evq' = 0 .. NbPriorities - 1 /\ evq' = [p \in 0 .. NbPriorities - 1 |-> evq'[p]]
    BY <1>1, <1>2, <1>4 DEF QueueType
  <2>8. evq'[KHigh] = evq[KHigh]
    BY <1>1, <2>4 DEF KHigh, NbPriorities
  <2> QED
    BY <1>1, <1>2, <2>6, <2>7, <2>8 DEF QueueType, Waiting
<1> QED
  BY <1>3, <1>4

(***************************************************************************)
(* The first state and the steps.                                          *)
(***************************************************************************)

FlagType == {ready, lost, inputReceived} \subseteq BOOLEAN

IInv == FlagType /\ QueueType /\ PlaceInv /\ PermissionInv

\* The invariant holds when the threads are created.
LEMMA InvInit == Init => IInv
<1> SUFFICES ASSUME Init PROVE IInv
  OBVIOUS
<1>1. evq = [p \in 0 .. NbPriorities - 1 |-> <<>>] /\ serving = NoMsg
  BY DEF Init, Queue!Init, Queue!Levels
<1>2. QueueType
  BY <1>1, KwsAssumption DEF QueueType
<1>3. Waiting(Tensor) = {}
  BY <1>1, EventFacts DEF Waiting
<1> QED
  BY <1>1, <1>2, <1>3, EventFacts DEF Init, IInv, FlagType, PlaceInv, PermissionInv

\* A step that moves no permission keeps the invariant.
LEMMA PermissionStays ==
  ASSUME PermissionInv,
         Waiting(Tensor)' = Waiting(Tensor), Network' <=> Network, Sender' <=> Sender,
         pcS' \notin {"init", "end"} /\ ~lost' => pcS \notin {"init", "end"} /\ ~lost
  PROVE  PermissionInv'
BY DEF PermissionInv, Queued

\* Every step keeps the types of the queue and of the flags.
LEMMA TypeNext == IInv /\ [Next]_vars => FlagType' /\ QueueType'
<1> SUFFICES ASSUME FlagType, QueueType, [Next]_vars PROVE FlagType' /\ QueueType'
  BY DEF IInv
<1> USE DEF stream, network, display, waits
<1>0. UNCHANGED waits => QueueType'
  BY DEF QueueType
<1>1. CASE InitNetwork \/ AudioBlock \/ TestReady \/ ClearReady \/ Lock \/ TakeNothing
           \/ Infer \/ NewValue \/ NoLabel \/ GenNewFrame \/ TimePasses \/ UNCHANGED vars
  BY <1>0, <1>1 DEF InitNetwork, AudioBlock, TestReady, ClearReady, Lock, TakeNothing, Infer,
     NewValue, NoLabel, GenNewFrame, TimePasses, vars, FlagType, Goto
<1>2. CASE SendTensor
  BY <1>2, PushType, EventFacts DEF SendTensor, FlagType
<1>3. CASE RequestFirst
  BY <1>3, PushType, EventFacts DEF RequestFirst, FlagType
<1>4. CASE OtherPush
  BY <1>4, EnqueueType, EventFacts DEF OtherPush, FlagType
<1>5. CASE Take
  BY <1>5, DequeueFacts DEF Take, FlagType
<1>6. CASE Expire \/ ServeOther \/ InferFails \/ GenNothing
  BY <1>6, ReleaseFacts DEF Expire, ServeOther, InferFails, GenNothing, FlagType
<1>7. CASE ReceiveTensor
  BY <1>0, <1>7, ReleaseFacts DEF ReceiveTensor, FlagType
<1>8. CASE Acknowledge
  BY <1>0, <1>8, ReleaseFacts DEF Acknowledge, FlagType
<1>9. CASE RequestNext
  BY <1>9, RequestFacts DEF RequestNext, FlagType
<1> QED
  BY <1>1, <1>2, <1>3, <1>4, <1>5, <1>6, <1>7, <1>8, <1>9 DEF Next, SendNode, EventThread

\* Every step leaves the threads where the event in hand allows it.
LEMMA PlaceNext == IInv /\ [Next]_vars => PlaceInv'
<1> SUFFICES ASSUME IInv, [Next]_vars PROVE PlaceInv'
  OBVIOUS
<1> USE DEF stream, network, display, waits, IInv
<1>0. UNCHANGED waits => UNCHANGED serving /\ Waiting(Tensor)' = Waiting(Tensor)
  BY DEF Waiting
<1>1. CASE InitNetwork \/ AudioBlock \/ TestReady \/ ClearReady \/ UNCHANGED vars
  BY <1>0, <1>1 DEF InitNetwork, AudioBlock, TestReady, ClearReady, vars, PlaceInv
<1>2. CASE SendTensor
  <2>1. serving' = serving
    BY <1>2, EventFacts DEF SendTensor, Push, Queue!Enqueue
  <2> QED
    BY <1>2, <2>1 DEF SendTensor, PlaceInv
<1>3. CASE Lock \/ TakeNothing \/ TimePasses
  BY <1>0, <1>3 DEF Lock, TakeNothing, TimePasses, PlaceInv, Goto, EventMayRun
<1>4. CASE Take
  BY <1>4, DequeueFacts DEF Take, PlaceInv, Goto, EventMayRun
<1>5. CASE Expire \/ ServeOther \/ InferFails \/ GenNothing
  BY <1>5, ReleaseFacts, EventFacts
  DEF Expire, ServeOther, InferFails, GenNothing, PlaceInv, Goto, EventMayRun
<1>6. CASE ReceiveTensor
  <2>1. serving = Tensor
    BY <1>6 DEF ReceiveTensor, Serve, QueueType, Events, Tensor, FrameRequest, Other
  <2> QED
    BY <1>0, <1>6, <2>1, ReleaseFacts DEF ReceiveTensor, PlaceInv, EventMayRun
<1>7. CASE Infer \/ NewValue \/ NoLabel
  BY <1>0, <1>7 DEF Infer, NewValue, NoLabel, PlaceInv, Goto, EventMayRun
<1>8. CASE RequestFirst
  BY <1>8, PushOther, EventFacts DEF RequestFirst, PlaceInv, Goto, EventMayRun
<1>9. CASE Acknowledge
  BY <1>0, <1>9, ReleaseFacts DEF Acknowledge, PlaceInv, EventMayRun
<1>10. CASE GenNewFrame
  BY <1>0, <1>10, EventFacts DEF GenNewFrame, PlaceInv, Goto, EventMayRun, Serve
<1>11. CASE RequestNext
  BY <1>11, RequestFacts, EventFacts DEF RequestNext, PlaceInv, Goto, EventMayRun
<1>12. CASE OtherPush
  BY <1>12, EnqueueOther, EventFacts DEF OtherPush, PlaceInv
<1> QED
  BY <1>1, <1>2, <1>3, <1>4, <1>5, <1>6, <1>7, <1>8, <1>9, <1>10, <1>11, <1>12
  DEF Next, SendNode, EventThread

\* Every step keeps the permission in one place.  A send puts it into the
\* queue, execute gives it to the network, and the acknowledgement gives it
\* back; that one cannot come between the send and ready.store(false), for the
\* stream thread would have to let the event thread run there.
LEMMA PermissionNext == IInv /\ [Next]_vars => PermissionInv'
<1> SUFFICES ASSUME IInv, [Next]_vars PROVE PermissionInv'
  OBVIOUS
<1> USE DEF stream, network, display, waits, IInv
<1>0. UNCHANGED waits => UNCHANGED serving /\ Waiting(Tensor)' = Waiting(Tensor)
  BY DEF Waiting
<1>1. CASE InitNetwork
  BY <1>0, <1>1 DEF InitNetwork, PlaceInv, PermissionInv, Sender, Network, Queued
<1>2. CASE AudioBlock \/ TestReady \/ ClearReady \/ UNCHANGED vars
  BY <1>0, <1>2, PermissionStays
  DEF AudioBlock, TestReady, ClearReady, vars, PlaceInv, Sender, Network
<1>3. CASE SendTensor
  <2>1. CASE Full(Tensor)
    <3>1. UNCHANGED waits
      <4>1. Queue!LevelOf(Tensor) = Tensor.priority /\ Tensor.priority \in 0 .. NbPriorities - 1
        BY EventFacts
      <4>2. ~ Queue!Enqueue(Tensor)
        BY <2>1, <4>1, KwsAssumption DEF Full, Queue!Enqueue, QueueType
      <4> QED
        BY <1>3, <4>2 DEF SendTensor, Push
    <3> QED
      BY <1>0, <1>3, <2>1, <3>1, PermissionStays DEF SendTensor, Sender, Network
  <2>2. CASE ~ Full(Tensor)
    <3>1. Queue!Enqueue(Tensor)
      BY <1>3, <2>2 DEF SendTensor, Push
    <3>2. /\ Waiting(Tensor)' = Waiting(Tensor) \cup {Len(evq[KHigh]) + 1}
          /\ UNCHANGED serving
      BY <3>1, EnqueueTensor
    <3>3. Sender /\ pcS' = "store" /\ lost' = lost
      BY <1>3, <2>2 DEF SendTensor, PlaceInv, Sender
    <3> QED
      BY <1>3, <3>2, <3>3 DEF PermissionInv, Sender, Network, Queued, SendTensor
  <2> QED
    BY <2>1, <2>2
<1>4. CASE Lock \/ TakeNothing \/ TimePasses
  BY <1>0, <1>4, PermissionStays DEF Lock, TakeNothing, TimePasses, Sender, Network
<1>5. CASE Take
  <2>1. PICK p \in 0 .. NbPriorities - 1 : Queue!Dequeue(p)
    BY <1>5 DEF Take
  <2>2. serving # Tensor
    BY <2>1, DequeueFacts, EventFacts
  <2>3. (Sender' <=> Sender) /\ UNCHANGED <<pcS, lost>>
    BY <1>5 DEF Take, Sender
  <2>4. QueueType
    OBVIOUS
  <2>5. /\ Waiting(Tensor)' = {} => serving' = Tensor \/ Waiting(Tensor) = {}
        /\ serving' = Tensor => 1 \in Waiting(Tensor)
        /\ \/ Waiting(Tensor)' = Waiting(Tensor) /\ serving' # Tensor
           \/ \A i \in Waiting(Tensor)' : i + 1 \in Waiting(Tensor) /\ i \in Nat \ {0}
    BY <2>1, <2>4, DequeueWaiting
  <2> DEFINE W == Waiting(Tensor)
             One == \A i, j \in W : i = j
  <2>6. One /\ serving' = Tensor => W' = {}
    <3> SUFFICES ASSUME One, serving' = Tensor, NEW i \in W' PROVE FALSE
      OBVIOUS
    <3>1. 1 \in W /\ i + 1 \in W /\ i \in Nat \ {0}
      BY <2>5
    <3>2. i + 1 = 1
      BY <3>1
    <3> QED
      BY <3>1, <3>2
  <2>7. One => \A i, j \in W' : i = j
    <3> SUFFICES ASSUME One, NEW i \in W', NEW j \in W' PROVE i = j
      OBVIOUS
    <3>1. CASE W' = W
      BY <3>1
    <3>2. CASE \A k \in W' : k + 1 \in W /\ k \in Nat \ {0}
      <4>1. i + 1 = j + 1 /\ i \in Nat /\ j \in Nat
        BY <3>2
      <4> QED
        BY <4>1
    <3> QED
      BY <2>5, <3>1, <3>2
  <2>8. W' # {} => W # {}
    BY <2>5
  <2>9. serving' # Tensor /\ W # {} => W' # {}
    BY <2>5
  <2> HIDE DEF W
  <2> QED
    BY <2>2, <2>3, <2>5, <2>6, <2>7, <2>8, <2>9 DEF PermissionInv, Network, Queued, W
<1>6. CASE Expire \/ ServeOther \/ GenNothing
  <2>1. serving # Tensor
    BY <1>6, EventFacts DEF Expire, ServeOther, GenNothing, Serve
  <2> QED
    BY <1>6, <2>1, ReleaseFacts, EventFacts, PermissionStays
    DEF Expire, ServeOther, GenNothing, Sender, Network
<1>7. CASE InferFails
  BY <1>7 DEF InferFails, PermissionInv
<1>8. CASE ReceiveTensor
  BY <1>0, <1>8, PermissionStays DEF ReceiveTensor, Sender, Network, PermissionInv
<1>9. CASE Infer \/ NewValue \/ NoLabel \/ GenNewFrame
  BY <1>0, <1>9, PermissionStays DEF Infer, NewValue, NoLabel, GenNewFrame, Sender, Network
<1>10. CASE RequestFirst
  BY <1>10, PushOther, EventFacts, PermissionStays DEF RequestFirst, Sender, Network
<1>11. CASE Acknowledge
  <2>1. serving = Tensor /\ ~inputReceived /\ pcS # "store"
    BY <1>11 DEF Acknowledge, PlaceInv, EventMayRun
  <2>2. Queue!Release /\ ready' = TRUE /\ UNCHANGED <<pcS, lost>>
    BY <1>11, <2>1 DEF Acknowledge
  <2>3. Waiting(Tensor)' = Waiting(Tensor) /\ serving' # Tensor
    BY <2>2, ReleaseFacts, EventFacts
  <2> QED
    BY <2>1, <2>2, <2>3 DEF PermissionInv, Sender, Network, Queued
<1>12. CASE RequestNext
  <2>1. serving # Tensor
    BY <1>12 DEF RequestNext, Goto, PlaceInv
  <2>2. Waiting(Tensor)' = Waiting(Tensor) /\ serving' = NoMsg
    BY <1>12, RequestFacts
  <2> QED
    BY <1>12, <2>1, <2>2, EventFacts, PermissionStays DEF RequestNext, Sender, Network
<1>13. CASE OtherPush
  BY <1>13, EnqueueOther, EventFacts, PermissionStays DEF OtherPush, Sender, Network
<1> QED
  BY <1>1, <1>2, <1>3, <1>4, <1>5, <1>6, <1>7, <1>8, <1>9, <1>10, <1>11, <1>12, <1>13
  DEF Next, SendNode, EventThread

\* The invariant says what OneTensor counts.
LEMMA InvOneTensor == IInv => OneTensor
<1> SUFFICES ASSUME PermissionInv, pcS \notin {"init", "end"}, ~lost
             PROVE  Cardinality(Permission) + Cardinality(Waiting(Tensor)) = 1
  BY DEF IInv, OneTensor
<1> DEFINE W == Waiting(Tensor)
<1>1. Permission = (IF Sender THEN {"sender"} ELSE {}) \cup (IF Network THEN {"network"} ELSE {})
  BY DEF Permission, Sender, Network
<1>2. Cardinality({}) = 0
  BY FS_EmptySet
<1>3. Cardinality({"sender"}) = 1 /\ Cardinality({"network"}) = 1
  BY FS_Singleton
<1>4. CASE Sender \/ Network
  <2>1. W = {} /\ Permission \in {{"sender"}, {"network"}}
    BY <1>1, <1>4 DEF PermissionInv, Queued
  <2> QED
    BY <1>2, <1>3, <2>1
<1>5. CASE ~Sender /\ ~Network
  <2>1. W # {} /\ \A i, j \in W : i = j
    BY <1>5 DEF PermissionInv, Queued
  <2>2. PICK i \in W : W = {i}
    BY <2>1
  <2>3. Cardinality(W) = 1
    BY <2>2, FS_Singleton
  <2>4. Permission = {}
    BY <1>1, <1>5
  <2> QED
    BY <1>2, <2>3, <2>4
<1> QED
  BY <1>4, <1>5

\* One permission to use the network goes round between the two threads: no
\* lock guards it, only the higher priority of the stream thread.
THEOREM OnePermission == Spec => []OneTensor
<1>1. IInv /\ [Next]_vars => IInv'
  BY TypeNext, PlaceNext, PermissionNext DEF IInv
<1> QED
  BY <1>1, InvInit, InvOneTensor, PTL DEF Spec

(***************************************************************************)
(* A word on the screen.                                                   *)
(***************************************************************************)

\* A request for a frame waits in the queue.
Requested == \E i \in 1 .. Len(evq[KNormal]) : evq[KNormal][i].node = "display"

Drawing ==
  \/ dropped
  \/ pcE \in {"request", "again"}
  \/ serving # NoMsg /\ serving.node = "display"
  \/ Requested

FrameInv ==
  /\ screen # Black => Drawing
  /\ screen # Black \/ ~faded => displayLast
  /\ {dropped, displayLast, faded} \subseteq BOOLEAN
  /\ pcE \in {"request", "ack", "classify"} => serving # NoMsg /\ serving.node = "network"
  /\ pcE = "again" => serving # NoMsg /\ serving.node = "display"

\* A frame is requested when a request of one of the two kinds waits.
LEMMA RequestedQueued ==
  ASSUME QueueType
  PROVE  Requested <=> \E ttl \in BOOLEAN : Waiting(FrameRequest(ttl)) # {}
<1>1. KNormal \in 0 .. NbPriorities - 1
  BY DEF KNormal, NbPriorities
<1>2. evq[KNormal] \in Seq(Of(KNormal))
  BY <1>1 DEF QueueType
<1>3. \A i \in 1 .. Len(evq[KNormal]) : evq[KNormal][i] \in Events
  BY <1>2 DEF Of
<1>4. \A m \in Events : m.node = "display" <=> \E ttl \in BOOLEAN : m = FrameRequest(ttl)
  BY DEF Events, Tensor, FrameRequest, Other
<1>5. \A ttl \in BOOLEAN : FrameRequest(ttl).priority = KNormal
  BY EventFacts
<1>6. \A ttl \in BOOLEAN : FrameRequest(ttl) \in Events
  BY EventFacts
<1>7. ASSUME Requested
      PROVE  \E ttl \in BOOLEAN : Waiting(FrameRequest(ttl)) # {}
  <2>1. PICK i \in 1 .. Len(evq[KNormal]) : evq[KNormal][i].node = "display"
    BY <1>7 DEF Requested
  <2>2. PICK ttl \in BOOLEAN : evq[KNormal][i] = FrameRequest(ttl)
    BY <1>3, <1>4, <2>1
  <2>3. i \in Waiting(FrameRequest(ttl))
    BY <1>5, <2>1, <2>2 DEF Waiting
  <2> QED
    BY <2>2, <2>3
<1>8. ASSUME NEW ttl \in BOOLEAN, NEW i \in Waiting(FrameRequest(ttl))
      PROVE  Requested
  <2>1. i \in 1 .. Len(evq[KNormal]) /\ evq[KNormal][i] = FrameRequest(ttl)
    BY <1>5 DEF Waiting
  <2>2. FrameRequest(ttl).node = "display"
    BY <1>4, <1>6
  <2> QED
    BY <2>1, <2>2 DEF Requested
<1> QED
  BY <1>7, <1>8

\* Requests stay in the queue when others come, and a new one is in it.
LEMMA EnqueueRequested ==
  ASSUME QueueType, NEW m \in Events,
         DOMAIN evq' = DOMAIN evq,
         \A l \in 0 .. NbPriorities - 1 :
           evq'[l] = IF l = m.priority THEN Append(evq[l], m) ELSE evq[l]
  PROVE  /\ Requested => Requested'
         /\ m.node = "display" => Requested'
<1>1. KNormal \in 0 .. NbPriorities - 1
  BY DEF KNormal, NbPriorities
<1>2. evq[KNormal] \in Seq(Of(KNormal)) /\ Len(evq[KNormal]) \in Nat
  BY <1>1 DEF QueueType
<1>3. m.node = "display" => m.priority = KNormal
  BY DEF Events, Tensor, FrameRequest, Other
<1>4. CASE m.priority = KNormal
  <2>1. evq'[KNormal] = Append(evq[KNormal], m)
    BY <1>1, <1>4
  <2>2. /\ Len(evq'[KNormal]) = Len(evq[KNormal]) + 1
        /\ \A i \in 1 .. Len(evq[KNormal]) : evq'[KNormal][i] = evq[KNormal][i]
        /\ evq'[KNormal][Len(evq[KNormal]) + 1] = m
    BY <1>2, <1>4, <2>1
  <2>3. Requested => Requested'
    BY <1>2, <2>2 DEF Requested
  <2>4. Len(evq[KNormal]) + 1 \in 1 .. Len(evq'[KNormal])
    BY <1>2, <2>2
  <2> QED
    BY <2>2, <2>3, <2>4 DEF Requested
<1>5. CASE m.priority # KNormal
  <2>1. evq'[KNormal] = evq[KNormal]
    BY <1>1, <1>5
  <2> QED
    BY <1>3, <1>5, <2>1 DEF Requested
<1> QED
  BY <1>4, <1>5

\* A push loses no request; a new one waits, or its ring is full.
LEMMA PushRequested ==
  ASSUME QueueType, NEW m \in Events, Push(m)
  PROVE  /\ UNCHANGED serving
         /\ Requested => Requested'
         /\ m.node = "display" => Full(m) \/ Requested'
<1>1. CASE Queue!Enqueue(m)
  <2>1. Queue!LevelOf(m) = m.priority /\ m.priority \in 0 .. NbPriorities - 1
    BY EventFacts
  <2>2. evq' = [evq EXCEPT ![m.priority] = Append(@, m)] /\ UNCHANGED serving
    BY <1>1, <2>1 DEF Queue!Enqueue
  <2>3. DOMAIN evq' = DOMAIN evq
    BY <2>2
  <2>4. \A l \in 0 .. NbPriorities - 1 :
          evq'[l] = IF l = m.priority THEN Append(evq[l], m) ELSE evq[l]
    BY <2>1, <2>2 DEF QueueType
  <2> QED
    BY <2>2, <2>3, <2>4, EnqueueRequested
<1>2. CASE Full(m) /\ UNCHANGED waits
  BY <1>2 DEF waits, Requested
<1> QED
  BY <1>1, <1>2 DEF Push

\* The event that is taken may be the request.
LEMMA DequeueRequested ==
  ASSUME QueueType, NEW p \in 0 .. NbPriorities - 1, Queue!Dequeue(p), Requested
  PROVE  Requested' \/ (serving' # NoMsg /\ serving'.node = "display")
<1>1. KNormal \in 0 .. NbPriorities - 1
  BY DEF KNormal, NbPriorities
<1>2. evq[KNormal] \in Seq(Of(KNormal)) /\ Len(evq[KNormal]) \in Nat
  BY <1>1 DEF QueueType
<1>3. PICK i \in 1 .. Len(evq[KNormal]) : evq[KNormal][i].node = "display"
  BY DEF Requested
<1>4. serving' = Head(evq[p]) /\ \A l \in 0 .. NbPriorities - 1 :
        evq'[l] = IF l = p THEN Tail(evq[p]) ELSE evq[l]
  BY DequeueFacts
<1>5. CASE p # KNormal
  BY <1>1, <1>3, <1>4, <1>5 DEF Requested
<1>6. CASE p = KNormal /\ i = 1
  <2>1. serving' = evq[KNormal][1]
    BY <1>2, <1>3, <1>4, <1>6
  <2>2. evq[KNormal][1] \in Events
    BY <1>2, <1>3, <1>6 DEF Of
  <2> QED
    BY <1>3, <1>6, <2>1, <2>2, EventFacts
<1>7. CASE p = KNormal /\ i # 1
  <2>1. evq'[KNormal] = Tail(evq[KNormal])
    BY <1>1, <1>4, <1>7
  <2>2. /\ Len(evq'[KNormal]) = Len(evq[KNormal]) - 1
        /\ \A j \in 1 .. Len(evq[KNormal]) - 1 : evq'[KNormal][j] = evq[KNormal][j + 1]
    BY <1>2, <1>3, <2>1
  <2>3. i - 1 \in 1 .. Len(evq[KNormal]) - 1 /\ (i - 1) + 1 = i
    BY <1>2, <1>3, <1>7
  <2> QED
    BY <1>3, <2>2, <2>3 DEF Requested
<1> QED
  BY <1>5, <1>6, <1>7

\* The display posts its next request, or records that it is lost.
LEMMA RequestNextRequested ==
  ASSUME QueueType, RequestNext
  PROVE  (dropped' \/ Requested') /\ dropped' \in BOOLEAN
<1> DEFINE m == FrameRequest(TRUE)
<1>1. m \in Events /\ m.priority = KNormal /\ m.node = "display"
  BY EventFacts DEF FrameRequest
<1>2. evq' = (IF Full(m) THEN evq ELSE [evq EXCEPT ![KNormal] = Append(@, m)])
      /\ dropped' = Full(m)
  BY DEF RequestNext
<1>3. KNormal \in 0 .. NbPriorities - 1 /\ Full(m) \in BOOLEAN
  BY DEF KNormal, NbPriorities, Full
<1> HIDE DEF m
<1>4. CASE ~ Full(m)
  <2>1. DOMAIN evq' = DOMAIN evq
    BY <1>2, <1>4
  <2>2. \A l \in 0 .. NbPriorities - 1 :
          evq'[l] = IF l = m.priority THEN Append(evq[l], m) ELSE evq[l]
    BY <1>1, <1>2, <1>3, <1>4 DEF QueueType
  <2> QED
    BY <1>1, <1>2, <1>3, <2>1, <2>2, EnqueueRequested
<1> QED
  BY <1>2, <1>3, <1>4

\* Every step that ends a request for a frame draws the screen black, posts
\* the next request or loses it.
LEMMA FrameNext == IInv /\ FrameInv /\ [Next]_vars => FrameInv'
<1> SUFFICES ASSUME IInv, FrameInv, [Next]_vars PROVE FrameInv'
  OBVIOUS
<1> USE DEF stream, network, display, waits, FrameInv, Drawing
<1>0. QueueType /\ (UNCHANGED waits => UNCHANGED serving /\ Requested' = Requested)
  BY DEF IInv, Requested
<1>1. CASE InitNetwork \/ AudioBlock \/ TestReady \/ ClearReady \/ UNCHANGED vars
  BY <1>0, <1>1 DEF InitNetwork, AudioBlock, TestReady, ClearReady, vars
<1>2. CASE SendTensor
  BY <1>0, <1>2, PushRequested, EventFacts DEF SendTensor
<1>3. CASE Lock \/ TakeNothing \/ TimePasses \/ Infer
  <2>1. CASE Infer
    <3>1. serving = Tensor
      BY <2>1 DEF Infer, Goto, IInv, PlaceInv
    <3> QED
      BY <1>0, <2>1, <3>1, EventFacts DEF Infer, Goto
  <2>2. CASE Lock
    BY <1>0, <2>2 DEF Lock, Goto
  <2>3. CASE TakeNothing
    BY <1>0, <2>3 DEF TakeNothing, Goto
  <2>4. CASE TimePasses
    BY <1>0, <2>4 DEF TimePasses
  <2> QED
    BY <1>3, <2>1, <2>2, <2>3, <2>4
<1>4. CASE Take
  <2>1. PICK p \in 0 .. NbPriorities - 1 : Queue!Dequeue(p)
    BY <1>4 DEF Take
  <2>2. serving = NoMsg
    BY <1>0, <2>1, DequeueFacts
  <2>3. Requested => Requested' \/ (serving' # NoMsg /\ serving'.node = "display")
    BY <1>0, <2>1, DequeueRequested
  <2> QED
    BY <1>4, <2>2, <2>3 DEF Take, Goto
<1>5. CASE Expire \/ ServeOther \/ InferFails
  <2>1. Queue!Release /\ Requested' = Requested /\ serving' = NoMsg
    BY <1>5 DEF Expire, ServeOther, InferFails, Queue!Release, Requested
  <2>2. ServeOther => serving.node # "display"
    BY DEF ServeOther, Serve
  <2>3. InferFails => serving.node # "display"
    BY EventFacts DEF InferFails, Goto, IInv, PlaceInv
  <2> QED
    BY <1>5, <2>1, <2>2, <2>3 DEF Expire, ServeOther, InferFails, Goto
<1>6. CASE ReceiveTensor
  <2>1. serving # NoMsg /\ serving.node = "network"
    BY <1>6 DEF ReceiveTensor, Serve
  <2>2. Requested' = Requested
    BY <1>0, <1>6 DEF ReceiveTensor, Queue!Release, Requested
  <2> QED
    BY <1>0, <1>6, <2>1, <2>2 DEF ReceiveTensor, Queue!Release
<1>7. CASE NewValue \/ NoLabel
  <2>1. CASE NewValue
    BY <1>0, <2>1 DEF NewValue, Goto
  <2>2. CASE NoLabel
    BY <1>0, <2>2 DEF NoLabel, Goto
  <2> QED
    BY <1>7, <2>1, <2>2
<1>8. CASE RequestFirst
  <2>1. /\ UNCHANGED serving
        /\ dropped' \/ Requested'
        /\ dropped' \in BOOLEAN
    <3> DEFINE m == FrameRequest(FALSE)
    <3>1. m \in Events /\ m.node = "display"
      BY EventFacts DEF FrameRequest
    <3>3. Full(m) \in BOOLEAN
      BY DEF Full
    <3>2. Push(m) /\ dropped' = Full(m)
      BY <1>8 DEF RequestFirst
    <3> HIDE DEF m
    <3> QED
      BY <1>0, <3>1, <3>2, <3>3, PushRequested
  <2> QED
    BY <1>8, <2>1 DEF RequestFirst, Goto
<1>9. CASE Acknowledge
  <2>1. Requested' = Requested
    BY <1>0, <1>9 DEF Acknowledge, Queue!Release, Requested
  <2> QED
    BY <1>0, <1>9, <2>1 DEF Acknowledge, Queue!Release
<1>10. CASE GenNewFrame
  <2>1. serving # NoMsg /\ serving.node = "display" /\ UNCHANGED serving
    BY <1>0, <1>10 DEF GenNewFrame, Serve
  <2> QED
    BY <1>0, <1>10, <2>1 DEF GenNewFrame, Goto, NextFrame
<1>11. CASE GenNothing
  <2>1. screen = Black /\ Requested' = Requested
    BY <1>11 DEF GenNothing, NextFrame, Queue!Release, Requested
  <2> QED
    BY <1>11, <2>1 DEF GenNothing, Goto
<1>12. CASE RequestNext
  <2>1. (dropped' \/ Requested') /\ dropped' \in BOOLEAN
    BY <1>0, <1>12, RequestNextRequested
  <2> QED
    BY <1>12, <2>1 DEF RequestNext, Goto
<1>13. CASE OtherPush
  <2>1. PICK p \in OtherPriorities : Queue!Enqueue(Other(p))
    BY <1>13 DEF OtherPush
  <2>2. UNCHANGED serving /\ (Requested => Requested')
    <3>1. Other(p) \in Events /\ Push(Other(p))
      BY <2>1, EventFacts DEF Push
    <3> QED
      BY <1>0, <3>1, PushRequested
  <2> QED
    BY <1>13, <2>2 DEF OtherPush
<1> QED
  BY <1>1, <1>2, <1>3, <1>4, <1>5, <1>6, <1>7, <1>8, <1>9, <1>10, <1>11, <1>12, <1>13
  DEF Next, SendNode, EventThread

\* Whatever words come, however requests expire or are refused and however
\* many chains of them there are: while a word is on the screen its next frame
\* is requested, or the last request was lost.
THEOREM FramesRequested == Spec => []FrameRequested
<1>1. Init => FrameInv
  BY DEF Init, FrameInv
<1>2. IInv /\ [Next]_vars => IInv'
  BY TypeNext, PlaceNext, PermissionNext DEF IInv
<1>3. IInv /\ FrameInv /\ [Next]_vars => FrameInv'
  BY FrameNext
<1>4. IInv /\ FrameInv => FrameRequested
  BY RequestedQueued DEF IInv, FrameInv, Drawing, FrameRequested
<1> QED
  BY <1>1, <1>2, <1>3, <1>4, InvInit, PTL DEF Spec

(***************************************************************************)
(* Type correctness.                                                       *)
(***************************************************************************)

PlaceType ==
  /\ pcS \in {"init", "wait", "run", "push", "store", "end"}
  /\ pcE \in {"idle", "take", "serve", "infer", "classify", "request", "ack", "again"}
  /\ locked \in BOOLEAN
  /\ word \in Words \cup {Black}
  /\ screen \in Words \cup {Black}

\* Every step keeps the types of the places, the words and the lock.
LEMMA PlaceTypeNext == PlaceType /\ [Next]_vars => PlaceType'
<1> SUFFICES ASSUME PlaceType, [Next]_vars PROVE PlaceType'
  OBVIOUS
<1> USE DEF stream, network, display, waits, PlaceType
<1>1. CASE InitNetwork \/ AudioBlock \/ SendNode \/ TimePasses \/ OtherPush \/ UNCHANGED vars
  BY <1>1 DEF InitNetwork, AudioBlock, SendNode, TestReady, SendTensor, ClearReady,
     TimePasses, OtherPush, vars
<1>2. CASE EventThread
  BY <1>2 DEF EventThread, Lock, Take, TakeNothing, Expire, ServeOther, ReceiveTensor, Infer,
     InferFails, NewValue, NoLabel, RequestFirst, Acknowledge, GenNewFrame, GenNothing,
     RequestNext, Goto
<1> QED
  BY <1>1, <1>2 DEF Next

\* Every variable keeps its type, and the queue its capacity.
THEOREM TypeCorrectness == Spec => []TypeOK
<1>1. Init => PlaceType /\ FrameInv
  BY DEF Init, PlaceType, FrameInv
<1>2. IInv /\ [Next]_vars => IInv'
  BY TypeNext, PlaceNext, PermissionNext DEF IInv
<1>3. IInv /\ FrameInv /\ PlaceType => TypeOK
  <2> SUFFICES ASSUME IInv, FrameInv, PlaceType PROVE TypeOK
    OBVIOUS
  <2>1. evq \in [0 .. NbPriorities - 1 -> Seq(Events)]
    <3>1. ASSUME NEW p \in 0 .. NbPriorities - 1
          PROVE  evq[p] \in Seq(Events)
      <4>1. evq[p] \in Seq(Of(p)) /\ Of(p) \subseteq Events
        BY DEF IInv, QueueType, Of
      <4>2. \A S, T : S \subseteq T => Seq(S) \subseteq Seq(T)
        BY SMT
      <4> QED
        BY <4>1, <4>2
    <3> QED
      BY <3>1 DEF IInv, QueueType
  <2> QED
    BY <2>1 DEF IInv, QueueType, FlagType, FrameInv, PlaceType, TypeOK
<1> QED
  BY <1>1, <1>2, <1>3, FrameNext, PlaceTypeNext, InvInit, PTL DEF Spec
=============================================================================
