------------------------ MODULE SharedBuffer_proofs ------------------------
(***************************************************************************)
(* Proofs about SharedBuffer, for any number of members, of slots of the   *)
(* queue, of blocks of the pools and of receivers: the handles of an       *)
(* object share one mutex, a mutex outlives its locks, the threads do not  *)
(* wait for each other, and the pools suffice.                             *)
(***************************************************************************)
EXTENDS SharedBuffer, FiniteSetTheorems, WellFoundedInduction, TLAPS

USE DEF vars

(***************************************************************************)
(* The inductive invariant.                                                *)
(***************************************************************************)

StreamNames == {"sent", "message"}
EventNames  == {"received", "made"} \cup Members

At(t, step) == op[t] # Null /\ op[t].step = step
Locking(t)  == At(t, "lock")
Locked(t)   == At(t, "lock") \/ At(t, "unlock")
Changed(t)  == At(t, "unlock") \/ At(t, "settle")

\* What the stream thread does, and in which order it locks.
StreamInv ==
  op[Stream] # Null =>
    /\ op[Stream].kind \in {"copy", "move", "push", "read"}
    /\ op[Stream].kind = "read" => op[Stream].step = "fault"
    /\ op[Stream].kind \in {"copy", "move"} =>
         /\ op[Stream].dst = "message" /\ op[Stream].src = "sent"
         /\ op[Stream].kind = "copy" => nodes # 1
         /\ op[Stream].step = "lock" => Len(op[Stream].locks) <= 1 /\ hnd["message"] = Empty
         /\ op[Stream].kind = "move" /\ op[Stream].step # "lock" => hnd["sent"].obj = Null
    /\ op[Stream].kind = "push" =>
         /\ op[Stream].dst = "message" /\ op[Stream].src = "message"
         /\ Len(op[Stream].locks) \in {1, 2} /\ op[Stream].locks[1] = Queue
         /\ op[Stream].step = "lock" => todo > 0 /\ hnd["message"] # Empty
         /\ op[Stream].step = "lock" /\ Len(op[Stream].locks) = 2 =>
              /\ op[Stream].locks[2] = hnd["message"].mutex
              /\ op[Stream].locks[2] \in Blocks

\* No mutex is locked twice.
Distinct(l) == \A i, j \in 1 .. Len(l) : i # j => l[i] # l[j]

\* What the event thread does, and in which order it locks.
EventInv ==
  op[Event] # Null =>
    /\ op[Event].kind \in {"copy", "move", "reset", "read", "pop"}
    /\ op[Event].kind \in {"copy", "move"} => op[Event].dst # op[Event].src
    /\ op[Event].kind = "pop" =>
         /\ op[Event].dst = "received" /\ op[Event].src = "received"
         /\ Len(op[Event].locks) = 2 /\ op[Event].locks[1] = Queue
         /\ op[Event].locks[2] \in Blocks
         /\ op[Event].step = "lock" => slots # <<>> /\ op[Event].locks[2] = slots[1].mutex
    /\ op[Event].kind # "pop" /\ op[Event].step = "lock" =>
         /\ Distinct(op[Event].locks)
         /\ \A i \in 1 .. Len(op[Event].locks) : op[Event].locks[i] = Queue => nodes = 1

\* A thread locks the queue and mutexes that a handle keeps alive: one of its
\* own handles, or the slot that it moves a handle to or from.
LockInv ==
  \A t \in Threads : Locked(t) =>
    \A i \in 1 .. Len(op[t].locks) :
      \/ op[t].locks[i] \in {Queue, hnd[op[t].dst].mutex, hnd[op[t].src].mutex}
      \/ op[t].kind = "pop" /\ op[t].step = "lock"
      \/ /\ op[t].kind = "push" /\ op[t].step = "unlock"
         /\ \E j \in 1 .. Len(slots) : op[t].locks[i] = slots[j].mutex

\* A thread holds the mutexes that it has taken and no others.
HoldInv ==
  /\ \A t \in Threads : Locking(t) =>
       \A i \in 1 .. op[t].taken : owner[op[t].locks[i]] = t
  /\ \A t \in Threads, m \in Mutexes : owner[m] = t =>
       At(t, "unlock") \/ (Locking(t) /\ \E i \in 1 .. op[t].taken : op[t].locks[i] = m)
  /\ At(Stream, "unlock") /\ op[Stream].kind = "push" => owner[Queue] = Stream

\* The mutex a handle has when the operation on it has ended.
UserOf(n) == IF n \in StreamNames THEN Stream ELSE Event

FinalMutex(n) ==
  LET t == UserOf(n)
  IN  IF ~Changed(t) THEN hnd[n].mutex
      ELSE IF op[t].kind \in {"copy", "move"} /\ n = op[t].dst THEN hnd[op[t].src].mutex
      ELSE IF op[t].kind = "move" /\ n = op[t].src THEN Null
      ELSE IF op[t].kind = "reset" /\ n = op[t].dst THEN Null
      ELSE hnd[n].mutex

Final(n) == [obj |-> hnd[n].obj, mutex |-> FinalMutex(n)]
Pairs == {Final(n) : n \in Names} \cup {slots[i] : i \in 1 .. Len(slots)}

Sound(g, h) ==
  g.obj # Null /\ h.obj # Null => g.mutex # Null /\ (g.obj = h.obj <=> g.mutex = h.mutex)

\* Once the operations under way have ended, an object has one mutex.
PairInv == \A g, h \in Pairs : Sound(g, h)

\* An event in the queue has a mutex.
SlotInv == \A j \in 1 .. Len(slots) : slots[j].mutex # Null

\* With one receiver, nobody but the stream thread has the mutex of a buffer
\* that is not yet in the queue.
SoleInv ==
  nodes = 1 =>
    /\ \A n \in StreamNames : hnd[n].mutex # Null =>
         /\ \A k \in EventNames : hnd[k].mutex # hnd[n].mutex
         /\ \A j \in 1 .. Len(slots) : slots[j].mutex # hnd[n].mutex
    /\ \/ hnd["sent"] = Empty \/ hnd["message"] = Empty
       \/ op[Stream] # Null /\ op[Stream].kind = "move" /\ op[Stream].step # "lock"

IInv ==
  /\ TypeOK /\ StreamInv /\ EventInv
  /\ LockInv /\ HoldInv
  /\ PairInv /\ SlotInv /\ SoleInv

(***************************************************************************)
(* Constants, records and sequences.                                       *)
(***************************************************************************)

\* The constants are different, and each thread has handles of its own.
LEMMA Constants ==
  /\ Stream # Event /\ Threads = {Stream, Event}
  /\ Null \notin Blocks /\ Null \notin Mutexes /\ Null # Stream /\ Null # Event
  /\ Null \notin Operations
  /\ Queue \notin Blocks /\ Queue \in Mutexes /\ Blocks \subseteq Mutexes
  /\ Owned(Stream) = StreamNames /\ Owned(Event) = EventNames
  /\ StreamNames \cap EventNames = {} /\ Names = StreamNames \cup EventNames
BY BufferAssumption DEF Threads, Blocks, Queue, Mutexes, Names, Owned, StreamNames, EventNames

\* The fields of an operation, and the operation with other fields.
LEMMA OperationFields ==
  /\ \A o \in Operations :
       /\ o.kind \in {"copy", "move", "reset", "read", "push", "pop"}
       /\ o.dst \in Names /\ o.src \in Names /\ o.locks \in Seq(Mutexes)
       /\ o.step \in {"lock", "unlock", "settle", "fault"} /\ o.taken \in Nat
  /\ \A k \in {"copy", "move", "reset", "read", "push", "pop"}, d, s \in Names,
        l \in Seq(Mutexes), p \in {"lock", "unlock", "settle", "fault"}, n \in Nat :
       [kind |-> k, dst |-> d, src |-> s, locks |-> l, step |-> p, taken |-> n] \in Operations
BY DEF Operations

\* A handle is its two pointers.
LEMMA HandleFields ==
  /\ Empty \in Handle /\ Empty.obj = Null /\ Empty.mutex = Null
  /\ \A h \in Handle : h.obj \in Blocks \cup {Null} /\ h.mutex \in Blocks \cup {Null}
  /\ \A o, m \in Blocks \cup {Null} : [obj |-> o, mutex |-> m] \in Handle
  /\ \A g, h \in Handle : g.obj = h.obj /\ g.mutex = h.mutex => g = h
BY DEF Handle, Empty

\* The mutex of a handle as a sequence of locks.
LEMMA MutexFacts ==
  ASSUME TypeOK, NEW n \in Names
  PROVE  /\ Mutex(n) \in Seq(Blocks) /\ Mutex(n) \in Seq(Mutexes) /\ Len(Mutex(n)) <= 1
         /\ \A i \in 1 .. Len(Mutex(n)) : Mutex(n)[i] = hnd[n].mutex /\ Mutex(n)[i] \in Blocks
<1>1. hnd[n].mutex \in Blocks \cup {Null}
  BY HandleFields DEF TypeOK
<1>2. CASE hnd[n].mutex = Null
  BY <1>2 DEF Mutex
<1>3. CASE hnd[n].mutex # Null
  <2>1. Mutex(n) = <<hnd[n].mutex>> /\ hnd[n].mutex \in Blocks /\ hnd[n].mutex \in Mutexes
    BY <1>1, <1>3, Constants DEF Mutex
  <2> QED
    BY <2>1
<1> QED
  BY <1>2, <1>3

\* Two sequences of locks, one after the other.
LEMMA JoinFacts ==
  ASSUME NEW S, NEW p \in Seq(S), NEW q \in Seq(S)
  PROVE  /\ p \o q \in Seq(S) /\ Len(p \o q) = Len(p) + Len(q)
         /\ \A i \in 1 .. Len(p) : (p \o q)[i] = p[i]
         /\ \A i \in 1 .. Len(p \o q) :
              \/ i \in 1 .. Len(p) /\ (p \o q)[i] = p[i]
              \/ i - Len(p) \in 1 .. Len(q) /\ (p \o q)[i] = q[i - Len(p)]
OBVIOUS

\* The block an allocator takes is one of the free ones.
LEMMA FirstFacts ==
  ASSUME NEW S \in SUBSET Blocks, S # {}
  PROVE  First(S) \in S
<1> DEFINE Less == {ss \in Nat \X Nat : ss[1] < ss[2]}
<1>1. IsWellFoundedOn(Less, Nat)
  BY NatLessThanWellFounded DEF OpToRel
<1>2. S \subseteq Nat
  BY DEF Blocks
<1>3. \A c, b \in Nat : <<c, b>> \in Less <=> c < b
  OBVIOUS
<1> HIDE DEF Less
<1>4. PICK b \in S : \A c \in S : <<c, b>> \notin Less
  BY <1>1, <1>2, WFMin
<1>5. ASSUME NEW c \in S PROVE b <= c
  <2>1. b \in Nat /\ c \in Nat
    BY <1>2
  <2>2. ~ (c < b)
    BY <1>3, <1>4, <2>1
  <2> QED
    BY <2>1, <2>2
<1> QED
  BY <1>5 DEF First

(***************************************************************************)
(* What each action does, one lemma for each.                              *)
(***************************************************************************)

\* What the stream thread and the event thread begin.
StreamBegins(o) ==
  \/ /\ o.kind \in {"copy", "move"} /\ o.dst = "message" /\ o.src = "sent"
     /\ o.kind = "copy" => nodes # 1
     /\ hnd["message"] = Empty
     /\ Len(o.locks) <= 1
     /\ \A i \in 1 .. Len(o.locks) : o.locks[i] = hnd["sent"].mutex
  \/ /\ o.kind = "push" /\ o.dst = "message" /\ o.src = "message"
     /\ o.locks = <<Queue>>
     /\ todo > 0 /\ hnd["message"] # Empty

EventBegins(o) ==
  \/ /\ o.kind = "pop" /\ o.dst = "received" /\ o.src = "received"
     /\ slots # <<>>
     /\ o.locks = <<Queue, slots[1].mutex>> /\ slots[1].mutex \in Blocks
  \/ /\ o.kind \in {"copy", "move", "reset", "read"}
     /\ o.dst \in EventNames /\ o.src \in EventNames
     /\ o.kind \in {"copy", "move"} => o.dst # o.src
     /\ Distinct(o.locks)
     /\ \A i \in 1 .. Len(o.locks) :
          \/ o.locks[i] \in {hnd[o.dst].mutex, hnd[o.src].mutex} /\ o.locks[i] \in Blocks
          \/ o.locks[i] = Queue /\ nodes = 1

Fresh(o) == o \in Operations /\ o.step = "lock" /\ o.taken = 0

\* The record of an operation that begins.
LEMMA OperationFacts ==
  ASSUME NEW k \in {"copy", "move", "reset", "read", "push", "pop"},
         NEW d \in Names, NEW s \in Names, NEW l \in Seq(Mutexes)
  PROVE  /\ Fresh(Operation(k, d, s, l))
         /\ Operation(k, d, s, l).kind = k
         /\ Operation(k, d, s, l).dst = d /\ Operation(k, d, s, l).src = s
         /\ Operation(k, d, s, l).locks = l
BY OperationFields DEF Operation, Fresh

\* The disjuncts of Send, told apart.
LEMMA SendCases ==
  ASSUME IInv, Send
  PROVE  \/ Create(Stream, "sent") /\ hnd["message"] = Empty /\ todo' = nodes
         \/ \E o \in Operations : Fresh(o) /\ StreamBegins(o) /\ Begin(Stream, o)
         \/ \E n \in StreamNames : Destroy(Stream, n)
<1> USE DEF IInv
<1>1. "sent" \in Names /\ "message" \in Names /\ Empty.mutex = Null
  BY HandleFields DEF Names
<1>2. CASE todo = 0 /\ hnd["message"] = Empty /\ Create(Stream, "sent") /\ todo' = nodes
  BY <1>2
<1>3. CASE /\ todo > 0
           /\ hnd["sent"] # Empty /\ hnd["message"] = Empty
           /\ IF nodes = 1
                THEN Move(Stream, "message", "sent")
                ELSE Copy(Stream, "message", "sent")
  <2> DEFINE l == Mutex("sent") \o Mutex("message")
  <2>1. Mutex("message") = <<>>
    BY <1>1, <1>3 DEF Mutex
  <2>2. /\ l \in Seq(Mutexes) /\ Len(l) <= 1
        /\ \A i \in 1 .. Len(l) : l[i] = hnd["sent"].mutex
    BY <1>1, <2>1, MutexFacts
  <2> HIDE DEF l
  <2>3. CASE nodes = 1
    <3>1. Begin(Stream, Operation("move", "message", "sent", l))
      BY <1>3, <2>3 DEF Move, l
    <3> DEFINE o == Operation("move", "message", "sent", l)
    <3>2. /\ Fresh(o) /\ o.kind = "move" /\ o.dst = "message" /\ o.src = "sent"
          /\ o.locks = l
      BY <1>1, <2>2, OperationFacts
    <3> HIDE DEF o
    <3>3. StreamBegins(o)
      BY <1>3, <2>2, <3>2 DEF StreamBegins
    <3> QED
      BY <3>1, <3>2, <3>3 DEF o, Fresh
  <2>4. CASE nodes # 1
    <3>1. Begin(Stream, Operation("copy", "message", "sent", l))
      BY <1>3, <2>4 DEF Copy, l
    <3> DEFINE o == Operation("copy", "message", "sent", l)
    <3>2. /\ Fresh(o) /\ o.kind = "copy" /\ o.dst = "message" /\ o.src = "sent"
          /\ o.locks = l
      BY <1>1, <2>2, OperationFacts
    <3> HIDE DEF o
    <3>3. StreamBegins(o)
      BY <1>3, <2>2, <2>4, <3>2 DEF StreamBegins
    <3> QED
      BY <3>1, <3>2, <3>3 DEF o, Fresh
  <2> QED
    BY <2>3, <2>4
<1>4. CASE /\ hnd["message"] # Empty /\ todo > 0
           /\ Begin(Stream, Operation("push", "message", "message", <<Queue>>))
  <2>1. <<Queue>> \in Seq(Mutexes)
    BY Constants
  <2> DEFINE l == <<Queue>>
  <2> HIDE DEF l
  <2> DEFINE o == Operation("push", "message", "message", l)
  <2>2. /\ Fresh(o) /\ o.kind = "push" /\ o.dst = "message" /\ o.src = "message"
        /\ o.locks = l
    <3>1. l \in Seq(Mutexes)
      BY <2>1 DEF l
    <3> QED
      BY <1>1, <3>1, OperationFacts
  <2>3. Begin(Stream, o)
    BY <1>4 DEF l
  <2> HIDE DEF o
  <2>4. StreamBegins(o)
    BY <1>4, <2>2 DEF StreamBegins, l
  <2> QED
    BY <2>2, <2>3, <2>4 DEF Fresh
<1>5. CASE todo = 0 /\ \E n \in Owned(Stream) : Destroy(Stream, n)
  BY <1>5, Constants
<1> QED
  BY <1>2, <1>3, <1>4, <1>5 DEF Send

\* The disjuncts of Handlers, told apart.
LEMMA HandlerCases ==
  ASSUME IInv, Handlers
  PROVE  \/ \E o \in Operations : Fresh(o) /\ EventBegins(o) /\ Begin(Event, o)
         \/ \E n \in EventNames : Destroy(Event, n)
         \/ Create(Event, "made") /\ UNCHANGED todo
<1> USE DEF IInv
<1>1. EventNames \subseteq Names /\ "received" \in Names
  BY DEF Names, EventNames
<1>2. CASE /\ hnd["received"] = Empty /\ hnd["made"] = Empty
           /\ slots # <<>>
           /\ LET head == slots[1].mutex
              IN  Begin(Event, Operation("pop", "received", "received", <<Queue, head>>))
  <2>1. slots[1].mutex \in Blocks
    <3>1. 1 \in 1 .. Len(slots) /\ slots[1] \in Handle
      BY <1>2 DEF TypeOK
    <3> QED
      BY <3>1, HandleFields DEF SlotInv
  <2>2. <<Queue, slots[1].mutex>> \in Seq(Mutexes)
    BY <2>1, Constants
  <2> DEFINE l == <<Queue, slots[1].mutex>>
  <2> HIDE DEF l
  <2> DEFINE o == Operation("pop", "received", "received", l)
  <2>3. /\ Fresh(o) /\ o.kind = "pop" /\ o.dst = "received" /\ o.src = "received"
        /\ o.locks = l
    <3>1. l \in Seq(Mutexes)
      BY <2>2 DEF l
    <3> QED
      BY <1>1, <3>1, OperationFacts
  <2>4. Begin(Event, o)
    BY <1>2 DEF l
  <2> HIDE DEF o
  <2>5. EventBegins(o)
    BY <1>2, <2>1, <2>3 DEF EventBegins, l
  <2> QED
    BY <2>3, <2>4, <2>5 DEF Fresh
<1>3. ASSUME NEW n \in EventNames, Destroy(Event, n) \/ Reset(Event, n) \/ Read(Event, n)
      PROVE  \/ \E o \in Operations : Fresh(o) /\ EventBegins(o) /\ Begin(Event, o)
             \/ \E m \in EventNames : Destroy(Event, m)
  <2>1. /\ Mutex(n) \in Seq(Mutexes)
        /\ \A i \in 1 .. Len(Mutex(n)) : Mutex(n)[i] = hnd[n].mutex /\ Mutex(n)[i] \in Blocks
    BY <1>1, MutexFacts
  <2>2. ASSUME NEW k \in {"reset", "read"}, Begin(Event, Operation(k, n, n, Mutex(n)))
        PROVE  \E o \in Operations : Fresh(o) /\ EventBegins(o) /\ Begin(Event, o)
    <3> DEFINE o == Operation(k, n, n, Mutex(n))
    <3>1. Fresh(o) /\ o.kind = k /\ o.dst = n /\ o.src = n /\ o.locks = Mutex(n)
      BY <1>1, <2>1, OperationFacts
    <3>2. Begin(Event, o)
      BY <2>2
    <3> HIDE DEF o
    <3>3. Distinct(o.locks)
      <4>1. Len(Mutex(n)) <= 1 /\ Len(Mutex(n)) \in Nat
        BY <1>1, <2>1, MutexFacts
      <4> QED
        BY <3>1, <4>1 DEF Distinct
    <3>4. EventBegins(o)
      BY <2>1, <3>1, <3>3 DEF EventBegins
    <3> QED
      BY <3>1, <3>2, <3>4 DEF Fresh
  <2> QED
    BY <1>3, <2>2 DEF Reset, Read
<1>4. ASSUME nodes = 1, NEW n \in EventNames, ReadAndPush(Event, n)
      PROVE  \E o \in Operations : Fresh(o) /\ EventBegins(o) /\ Begin(Event, o)
  <2> DEFINE l == Mutex(n) \o <<Queue>>
  <2>1. /\ Mutex(n) \in Seq(Mutexes)
        /\ \A i \in 1 .. Len(Mutex(n)) : Mutex(n)[i] = hnd[n].mutex /\ Mutex(n)[i] \in Blocks
    BY <1>1, MutexFacts
  <2>2. <<Queue>> \in Seq(Mutexes)
    BY Constants
  <2>3. l \in Seq(Mutexes)
    BY <2>1, <2>2, JoinFacts
  <2>4. \A i \in 1 .. Len(l) : (l[i] \in {hnd[n].mutex} /\ l[i] \in Blocks) \/ l[i] = Queue
    <3>1. \A i \in 1 .. Len(l) :
            \/ i \in 1 .. Len(Mutex(n)) /\ l[i] = Mutex(n)[i]
            \/ i - Len(Mutex(n)) \in 1 .. 1 /\ l[i] = <<Queue>>[i - Len(Mutex(n))]
      BY <2>1, <2>2, JoinFacts
    <3>2. \A i \in 1 .. 1 : <<Queue>>[i] = Queue
      OBVIOUS
    <3> QED
      BY <2>1, <3>1, <3>2
  <2>8. Distinct(l)
    <3>1. /\ Len(Mutex(n)) <= 1 /\ Len(Mutex(n)) \in Nat
          /\ Len(l) = Len(Mutex(n)) + 1
          /\ \A i \in 1 .. Len(Mutex(n)) : l[i] = Mutex(n)[i]
      BY <1>1, <2>1, <2>2, MutexFacts, JoinFacts
    <3>2. \A i \in 1 .. Len(l) :
            \/ i \in 1 .. Len(Mutex(n)) /\ l[i] = Mutex(n)[i]
            \/ i - Len(Mutex(n)) \in 1 .. 1 /\ l[i] = <<Queue>>[i - Len(Mutex(n))]
      BY <2>1, <2>2, JoinFacts
    <3>3. \A i \in 1 .. 1 : <<Queue>>[i] = Queue
      OBVIOUS
    <3>4. Queue \notin Blocks
      BY Constants
    <3> HIDE DEF l
    <3>5. \A i \in 1 .. Len(l) :
            \/ i = 1 /\ Len(Mutex(n)) = 1 /\ l[i] \in Blocks
            \/ i = Len(Mutex(n)) + 1 /\ l[i] = Queue
      <4> SUFFICES ASSUME NEW i \in 1 .. Len(l)
                   PROVE  \/ i = 1 /\ Len(Mutex(n)) = 1 /\ l[i] \in Blocks
                          \/ i = Len(Mutex(n)) + 1 /\ l[i] = Queue
        OBVIOUS
      <4>1. CASE i \in 1 .. Len(Mutex(n)) /\ l[i] = Mutex(n)[i]
        <5>1. i = 1 /\ Len(Mutex(n)) = 1
          <6>1. \A m \in Nat : m <= 1 => \A x \in 1 .. m : x = 1 /\ m = 1
            OBVIOUS
          <6>2. Len(Mutex(n)) \in Nat /\ Len(Mutex(n)) <= 1
            BY <3>1
          <6> QED
            BY <4>1, <6>1, <6>2
        <5>2. l[i] \in Blocks
          BY <2>1, <4>1
        <5> QED
          BY <5>1, <5>2
      <4>2. CASE i - Len(Mutex(n)) \in 1 .. 1 /\ l[i] = <<Queue>>[i - Len(Mutex(n))]
        BY <3>1, <3>3, <4>2
      <4> QED
        BY <3>2, <4>1, <4>2
    <3> QED
      BY <3>1, <3>4, <3>5 DEF Distinct
  <2> HIDE DEF l
  <2> DEFINE o == Operation("read", n, n, l)
  <2>5. Fresh(o) /\ o.kind = "read" /\ o.dst = n /\ o.src = n /\ o.locks = l
    BY <1>1, <2>3, OperationFacts
  <2>6. Begin(Event, o)
    BY <1>4 DEF ReadAndPush, l
  <2> HIDE DEF o
  <2>7. EventBegins(o)
    BY <1>4, <2>4, <2>5, <2>8 DEF EventBegins
  <2> QED
    BY <2>5, <2>6, <2>7 DEF Fresh
<1>5. ASSUME NEW d \in EventNames, NEW s \in EventNames, d # s, MayAssign(d, s),
             Copy(Event, d, s) \/ Move(Event, d, s)
      PROVE  \E o \in Operations : Fresh(o) /\ EventBegins(o) /\ Begin(Event, o)
  <2> DEFINE l == Mutex(s) \o Mutex(d)
  <2>1. /\ l \in Seq(Mutexes)
        /\ \A i \in 1 .. Len(l) : l[i] \in {hnd[d].mutex, hnd[s].mutex} /\ l[i] \in Blocks
        /\ Distinct(l)
    <3>1. /\ Mutex(s) \in Seq(Mutexes) /\ Mutex(d) \in Seq(Mutexes)
          /\ \A i \in 1 .. Len(Mutex(s)) : Mutex(s)[i] = hnd[s].mutex /\ Mutex(s)[i] \in Blocks
          /\ \A i \in 1 .. Len(Mutex(d)) : Mutex(d)[i] = hnd[d].mutex /\ Mutex(d)[i] \in Blocks
      BY <1>1, MutexFacts
    <3>2. /\ l \in Seq(Mutexes)
          /\ \A i \in 1 .. Len(l) :
               \/ i \in 1 .. Len(Mutex(s)) /\ l[i] = Mutex(s)[i]
               \/ i - Len(Mutex(s)) \in 1 .. Len(Mutex(d)) /\ l[i] = Mutex(d)[i - Len(Mutex(s))]
      BY <3>1, JoinFacts
    <3>3. /\ Len(Mutex(s)) <= 1 /\ Len(Mutex(s)) \in Nat
          /\ Len(Mutex(d)) <= 1 /\ Len(Mutex(d)) \in Nat
          /\ Len(l) = Len(Mutex(s)) + Len(Mutex(d))
          /\ hnd[d] = Empty => Len(Mutex(d)) = 0
      BY <1>1, <3>1, MutexFacts, JoinFacts, HandleFields DEF Mutex
    <3> HIDE DEF l
    <3>4. Distinct(l)
      <4>1. CASE hnd[d] = Empty
        <5>1. Len(l) <= 1 /\ Len(l) \in Nat
          BY <3>3, <4>1
        <5> QED
          BY <5>1 DEF Distinct
      <4>2. CASE hnd[d].mutex # hnd[s].mutex
        <5>1. \A i \in 1 .. Len(l) :
                \/ i = 1 /\ Len(Mutex(s)) = 1 /\ l[i] = hnd[s].mutex
                \/ i = Len(Mutex(s)) + 1 /\ l[i] = hnd[d].mutex
          <6> SUFFICES ASSUME NEW i \in 1 .. Len(l)
                       PROVE  \/ i = 1 /\ Len(Mutex(s)) = 1 /\ l[i] = hnd[s].mutex
                              \/ i = Len(Mutex(s)) + 1 /\ l[i] = hnd[d].mutex
            OBVIOUS
          <6>1. CASE i \in 1 .. Len(Mutex(s)) /\ l[i] = Mutex(s)[i]
            <7>1. i = 1 /\ Len(Mutex(s)) = 1
              <8>1. \A m \in Nat : m <= 1 => \A x \in 1 .. m : x = 1 /\ m = 1
                OBVIOUS
              <8>2. Len(Mutex(s)) \in Nat /\ Len(Mutex(s)) <= 1
                BY <3>3
              <8> QED
                BY <6>1, <8>1, <8>2
            <7>2. l[i] = hnd[s].mutex
              BY <3>1, <6>1
            <7> QED
              BY <7>1, <7>2
          <6>2. CASE i - Len(Mutex(s)) \in 1 .. Len(Mutex(d)) /\ l[i] = Mutex(d)[i - Len(Mutex(s))]
            BY <3>1, <3>3, <6>2
          <6> QED
            BY <3>2, <6>1, <6>2
        <5> QED
          BY <3>3, <4>2, <5>1 DEF Distinct
      <4> QED
        BY <1>5, <4>1, <4>2 DEF MayAssign
    <3> QED
      BY <3>1, <3>2, <3>4
  <2> HIDE DEF l
  <2>2. ASSUME NEW k \in {"copy", "move"}, Begin(Event, Operation(k, d, s, l))
        PROVE  \E o \in Operations : Fresh(o) /\ EventBegins(o) /\ Begin(Event, o)
    <3> DEFINE o == Operation(k, d, s, l)
    <3>1. Fresh(o) /\ o.kind = k /\ o.dst = d /\ o.src = s /\ o.locks = l
      BY <1>1, <2>1, OperationFacts
    <3>2. Begin(Event, o)
      BY <2>2
    <3> HIDE DEF o
    <3>3. EventBegins(o)
      BY <1>5, <2>1, <3>1 DEF EventBegins
    <3> QED
      BY <3>1, <3>2, <3>3 DEF Fresh
  <2> QED
    BY <1>5, <2>2 DEF Copy, Move, l
<1>6. Members \subseteq EventNames
  BY DEF EventNames
<1> QED
  BY <1>2, <1>3, <1>4, <1>5, <1>6, Constants DEF Handlers, MayPush

\* The other thread, and the operations with one field changed.
OthersKeep(t) == \A u \in Threads : u # t => op'[u] = op[u]

SameHandles(t) ==
  /\ op[t] # Null /\ op'[t] # Null
  /\ op'[t].dst = op[t].dst /\ op'[t].src = op[t].src

\* An operation that begins is the only change.
LEMMA BeginFacts ==
  ASSUME TypeOK, NEW t \in Threads, NEW o \in Operations, Begin(t, o)
  PROVE  /\ op[t] = Null /\ op'[t] = o /\ o # Null /\ OthersKeep(t)
         /\ op' \in [Threads -> Operations \cup {Null}]
         /\ UNCHANGED <<hnd, slots, owner, nodes, todo>>
BY Constants DEF Begin, TypeOK, OthersKeep

\* An operation that ends is the only one to change.
LEMMA EndFacts ==
  ASSUME TypeOK, NEW t \in Threads, op' = [op EXCEPT ![t] = Null]
  PROVE  /\ op'[t] = Null /\ OthersKeep(t)
         /\ op' \in [Threads -> Operations \cup {Null}]
BY DEF TypeOK, OthersKeep

\* The next step of an operation.
LEMMA ThenFacts ==
  ASSUME TypeOK, NEW t \in Threads, op[t] # Null,
         NEW step \in {"lock", "unlock", "settle"}, Then(t, step)
  PROVE  /\ SameHandles(t) /\ OthersKeep(t)
         /\ op'[t].kind = op[t].kind /\ op'[t].locks = op[t].locks
         /\ op'[t].step = step /\ op'[t].taken = op[t].taken
         /\ op' \in [Threads -> Operations \cup {Null}]
<1>1. op[t] \in Operations /\ op' = [op EXCEPT ![t] = [op[t] EXCEPT !.step = step]]
  BY DEF TypeOK, Then
<1> DEFINE o == [op[t] EXCEPT !.step = step]
<1>2. /\ o \in Operations /\ o.dst = op[t].dst /\ o.src = op[t].src
      /\ o.kind = op[t].kind /\ o.locks = op[t].locks
      /\ o.step = step /\ o.taken = op[t].taken
  BY <1>1 DEF Operations
<1>3. op' = [op EXCEPT ![t] = o]
  BY <1>1
<1> HIDE DEF o
<1> QED
  BY <1>1, <1>2, <1>3, Constants DEF TypeOK, SameHandles, OthersKeep

\* A mutex more is taken.
LEMMA AcquireFacts ==
  ASSUME TypeOK, NEW t \in Threads, Acquire(t)
  PROVE  /\ SameHandles(t) /\ OthersKeep(t)
         /\ op[t].step = "lock" /\ op[t].taken < Len(op[t].locks)
         /\ op'[t].kind = op[t].kind /\ op'[t].locks = op[t].locks
         /\ op'[t].step = "lock" /\ op'[t].taken = op[t].taken + 1
         /\ op' \in [Threads -> Operations \cup {Null}]
         /\ NextLock(t) \in Mutexes /\ owner[NextLock(t)] = Null
         /\ owner' = [owner EXCEPT ![NextLock(t)] = t]
         /\ UNCHANGED <<hnd, slots, nodes, todo>>
<1>1. /\ op[t] \in Operations /\ op[t] # Null
      /\ op' = [op EXCEPT ![t] = [op[t] EXCEPT !.taken = op[t].taken + 1]]
  BY DEF TypeOK, Acquire, Waits
<1> DEFINE o == [op[t] EXCEPT !.taken = op[t].taken + 1]
<1>2. /\ o \in Operations /\ o.dst = op[t].dst /\ o.src = op[t].src
      /\ o.kind = op[t].kind /\ o.locks = op[t].locks
      /\ o.step = op[t].step /\ o.taken = op[t].taken + 1
  BY <1>1 DEF Operations
<1>3. op' = [op EXCEPT ![t] = o]
  BY <1>1
<1> HIDE DEF o
<1>4. NextLock(t) \in Mutexes
  <2>1. op[t].locks \in Seq(Mutexes) /\ op[t].taken \in Nat /\ op[t].taken < Len(op[t].locks)
    BY <1>1, OperationFields DEF Acquire, Waits
  <2> QED
    BY <2>1 DEF NextLock
<1> QED
  BY <1>1, <1>2, <1>3, <1>4, Constants
  DEF TypeOK, SameHandles, OthersKeep, Acquire, Waits

\* The locks of a push, with that of the message.
LEMMA LockMessageFacts ==
  ASSUME TypeOK, StreamInv, LockMessage
  PROVE  /\ SameHandles(Stream) /\ OthersKeep(Stream)
         /\ op[Stream].kind = "push" /\ op'[Stream].kind = "push"
         /\ op[Stream].step = "lock" /\ op'[Stream].step = "lock"
         /\ op[Stream].taken = 1 /\ op'[Stream].taken = 1
         /\ op'[Stream].locks[1] = op[Stream].locks[1]
         /\ Len(op'[Stream].locks) \in {1, 2} /\ op'[Stream].locks \in Seq(Mutexes)
         /\ Len(op'[Stream].locks) = 2 =>
              op'[Stream].locks[2] = hnd["message"].mutex /\ op'[Stream].locks[2] \in Blocks
         /\ op' \in [Threads -> Operations \cup {Null}]
         /\ UNCHANGED <<hnd, slots, owner, nodes, todo>>
<1>1. /\ op[Stream] \in Operations /\ op[Stream] # Null /\ Stream \in Threads
      /\ op[Stream].step = "lock" /\ op[Stream].kind = "push"
      /\ op[Stream].taken = 1 /\ Len(op[Stream].locks) = 1
      /\ op' = [op EXCEPT ![Stream] =
                  [op[Stream] EXCEPT !.locks = op[Stream].locks \o Mutex("message")]]
  BY Constants DEF TypeOK, LockMessage, HasAll
<1> DEFINE l == op[Stream].locks \o Mutex("message")
<1>2. /\ l \in Seq(Mutexes) /\ l[1] = op[Stream].locks[1]
      /\ Len(l) \in {1, 2}
      /\ Len(l) = 2 => l[2] = hnd["message"].mutex /\ l[2] \in Blocks
  <2>1. op[Stream].locks \in Seq(Mutexes)
    BY <1>1, OperationFields
  <2>2. /\ Mutex("message") \in Seq(Mutexes) /\ Len(Mutex("message")) <= 1
        /\ \A i \in 1 .. Len(Mutex("message")) :
             Mutex("message")[i] = hnd["message"].mutex /\ Mutex("message")[i] \in Blocks
    BY MutexFacts DEF Names
  <2>3. Len(Mutex("message")) \in Nat
    BY <2>2
  <2> QED
    BY <1>1, <2>1, <2>2, <2>3, JoinFacts
<1> HIDE DEF l
<1> DEFINE o == [op[Stream] EXCEPT !.locks = l]
<1>3. /\ o \in Operations /\ o.dst = op[Stream].dst /\ o.src = op[Stream].src
      /\ o.kind = op[Stream].kind /\ o.locks = l
      /\ o.step = op[Stream].step /\ o.taken = op[Stream].taken
  BY <1>1, <1>2 DEF Operations
<1>4. op' = [op EXCEPT ![Stream] = o]
  BY <1>1 DEF l
<1> HIDE DEF o
<1> QED
  BY <1>1, <1>2, <1>3, <1>4, Constants
  DEF TypeOK, SameHandles, OthersKeep, LockMessage

(***************************************************************************)
(* The pointers that the handles will have.                                *)
(***************************************************************************)

\* The pointers a handle will have, from those that handles have.
LEMMA FinalFacts ==
  ASSUME TypeOK, NEW n \in Names
  PROVE  /\ UserOf(n) \in Threads
         /\ n \in StreamNames => UserOf(n) = Stream
         /\ n \in EventNames => UserOf(n) = Event
         /\ Final(n).obj = hnd[n].obj /\ Final(n).mutex = FinalMutex(n)
         /\ Final(n) \in Pairs
         /\ FinalMutex(n) = Null \/ \E k \in Names : FinalMutex(n) = hnd[k].mutex
         /\ ~Changed(UserOf(n)) => FinalMutex(n) = hnd[n].mutex /\ Final(n) = hnd[n]
<1>1. UserOf(n) \in Threads /\ (n \in StreamNames => UserOf(n) = Stream)
      /\ (n \in EventNames => UserOf(n) = Event)
  BY Constants DEF UserOf
<1>2. Final(n).obj = hnd[n].obj /\ Final(n).mutex = FinalMutex(n) /\ Final(n) \in Pairs
  BY DEF Final, Pairs
<1>3. FinalMutex(n) = Null \/ \E k \in Names : FinalMutex(n) = hnd[k].mutex
  <2> DEFINE t == UserOf(n)
  <2>1. op[t] # Null => op[t].src \in Names
    BY <1>1, OperationFields DEF TypeOK
  <2>2. Changed(t) => op[t] # Null
    BY DEF Changed, At
  <2> QED
    BY <2>1, <2>2 DEF FinalMutex
<1>4. ~Changed(UserOf(n)) => FinalMutex(n) = hnd[n].mutex
  BY DEF FinalMutex
<1>5. hnd[n] = [obj |-> hnd[n].obj, mutex |-> hnd[n].mutex]
  BY DEF TypeOK, Handle
<1> QED
  BY <1>1, <1>2, <1>3, <1>4, <1>5 DEF Final

\* An object keeps one mutex when no pair of pointers is new.
LEMMA PairsKept ==
  ASSUME PairInv,
         \A n \in Names : hnd'[n].obj = Null \/ Final(n)' \in Pairs,
         \A i \in 1 .. Len(slots') : slots'[i] \in Pairs
  PROVE  PairInv'
<1>1. \A n \in Names : Final(n)'.obj = hnd'[n].obj
  BY DEF Final
<1>2. \A p \in Pairs' : p \in Pairs \/ p.obj = Null
  BY <1>1 DEF Pairs
<1> QED
  BY <1>2 DEF PairInv, Sound

\* The steps that leave the pointers alone and do not begin to change them.
LEMMA FinalsKept ==
  ASSUME PairInv, hnd' = hnd, slots' = slots,
         \A t \in Threads :
           \/ op'[t] = op[t]
           \/ ~Changed(t) /\ ~Changed(t)'
           \/ ~Changed(t) /\ op'[t].kind \in {"read", "push", "pop"}
           \/ /\ Changed(t) /\ Changed(t)' /\ SameHandles(t)
              /\ op'[t].kind = op[t].kind
  PROVE  PairInv'
<1>1. ASSUME NEW n \in Names PROVE FinalMutex(n)' = FinalMutex(n)
  <2> DEFINE t == UserOf(n)
  <2>1. t \in Threads /\ UserOf(n)' = t
    BY Constants DEF UserOf
  <2>2. CASE op'[t] = op[t]
    BY <2>1, <2>2 DEF FinalMutex, Changed, At
  <2>3. CASE ~Changed(t) /\ ~Changed(t)'
    BY <2>1, <2>3 DEF FinalMutex
  <2>4. CASE ~Changed(t) /\ op'[t].kind \in {"read", "push", "pop"}
    BY <2>1, <2>4 DEF FinalMutex
  <2>5. CASE /\ Changed(t) /\ Changed(t)' /\ SameHandles(t)
             /\ op'[t].kind = op[t].kind
    BY <2>1, <2>5 DEF FinalMutex, SameHandles
  <2> QED
    BY <2>1, <2>2, <2>3, <2>4, <2>5
<1>2. \A n \in Names : Final(n)' = Final(n)
  BY <1>1 DEF Final
<1>3. Pairs' = Pairs
  BY <1>2 DEF Pairs
<1> QED
  BY <1>3 DEF PairInv, Sound

(***************************************************************************)
(* The invariant is inductive: what begins.                                *)
(***************************************************************************)

\* No lock is held, and all handles are empty.
LEMMA Initially ==
  ASSUME Init
  PROVE  IInv
<1>1. /\ hnd \in [Names -> Handle] /\ \A n \in Names : hnd[n] = Empty
      /\ slots \in Seq(Handle) /\ slots = <<>> /\ Len(slots) = 0
      /\ owner \in [Mutexes -> Threads \cup {Null}]
      /\ \A m \in Mutexes : owner[m] = Null
      /\ op \in [Threads -> Operations \cup {Null}] /\ \A t \in Threads : op[t] = Null
      /\ nodes \in FanOuts /\ todo \in Nat
  BY HandleFields DEF Init
<1>2. TypeOK
  BY <1>1, BufferAssumption DEF TypeOK
<1>3. StreamInv /\ EventInv /\ LockInv
  BY <1>1, Constants DEF StreamInv, EventInv, LockInv, Locked, At
<1>4. HoldInv
  BY <1>1, Constants DEF HoldInv, Locking, At
<1>5. PairInv
  <2>1. \A n \in Names : Final(n).obj = Null
    BY <1>1, HandleFields DEF Final
  <2> QED
    BY <1>1, <2>1 DEF PairInv, Pairs, Sound
<1>6. SlotInv /\ SoleInv
  <2>1. \A n \in StreamNames : hnd[n] = Empty
    BY <1>1, Constants
  <2>2. hnd["sent"] = Empty
    BY <2>1 DEF StreamNames
  <2> QED
    BY <1>1, <2>1, <2>2, HandleFields DEF SlotInv, SoleInv
<1> QED
  BY <1>2, <1>3, <1>4, <1>5, <1>6 DEF IInv

\* A copy, a move or a push begins.
LEMMA StreamBeginStep ==
  ASSUME IInv, NEW o \in Operations, Fresh(o), StreamBegins(o), Begin(Stream, o)
  PROVE  IInv'
<1> USE DEF IInv
<1>1. /\ op[Stream] = Null /\ op'[Stream] = o /\ o # Null /\ OthersKeep(Stream)
      /\ op' \in [Threads -> Operations \cup {Null}] /\ op'[Event] = op[Event]
      /\ UNCHANGED <<hnd, slots, owner, nodes, todo>>
  BY BeginFacts, Constants DEF OthersKeep
<1>2. o.step = "lock" /\ o.taken = 0 /\ o.locks \in Seq(Mutexes) /\ Len(o.locks) \in Nat
  BY OperationFields DEF Fresh
<1>3. TypeOK'
  <2>1. {o.dst, o.src} \subseteq Owned(Stream)
    BY Constants DEF StreamBegins, StreamNames
  <2> QED
    BY <1>1, <1>2, <2>1, Constants DEF TypeOK
<1>4. StreamInv'
  <2>1. CASE o.kind = "push"
    <3>1. Len(o.locks) = 1 /\ o.locks[1] = Queue
      BY <2>1 DEF StreamBegins
    <3> QED
      BY <1>1, <1>2, <2>1, <3>1 DEF StreamInv, StreamBegins
  <2>2. CASE o.kind # "push"
    BY <1>1, <1>2, <2>2 DEF StreamInv, StreamBegins
  <2> QED
    BY <2>1, <2>2
<1>5. EventInv'
  BY <1>1 DEF EventInv
<1>6. LockInv'
  <2>1. \A i \in 1 .. Len(o.locks) :
          o.locks[i] \in {Queue, hnd[o.dst].mutex, hnd[o.src].mutex}
    BY DEF StreamBegins
  <2> QED
    BY <1>1, <2>1, Constants DEF LockInv, Locked, At
<1>7. HoldInv'
  BY <1>1, <1>2, Constants DEF HoldInv, Locking, At
<1>8. PairInv'
  BY <1>1, <1>2, Constants, FinalsKept DEF Changed, At
<1>9. SlotInv' /\ SoleInv'
  BY <1>1 DEF SlotInv, SoleInv
<1> QED
  BY <1>3, <1>4, <1>5, <1>6, <1>7, <1>8, <1>9

\* A handler's operation or the next event begins.
LEMMA EventBeginStep ==
  ASSUME IInv, NEW o \in Operations, Fresh(o), EventBegins(o), Begin(Event, o)
  PROVE  IInv'
<1> USE DEF IInv
<1>1. /\ op[Event] = Null /\ op'[Event] = o /\ o # Null /\ OthersKeep(Event)
      /\ op' \in [Threads -> Operations \cup {Null}] /\ op'[Stream] = op[Stream]
      /\ UNCHANGED <<hnd, slots, owner, nodes, todo>>
  BY BeginFacts, Constants DEF OthersKeep
<1>2. o.step = "lock" /\ o.taken = 0 /\ o.locks \in Seq(Mutexes) /\ Len(o.locks) \in Nat
  BY OperationFields DEF Fresh
<1>3. TypeOK'
  <2>1. {o.dst, o.src} \subseteq Owned(Event)
    BY Constants DEF EventBegins, EventNames
  <2> QED
    BY <1>1, <1>2, <2>1, Constants DEF TypeOK
<1>4. StreamInv'
  BY <1>1 DEF StreamInv
<1>5. EventInv'
  <2>1. CASE o.kind = "pop"
    <3>1. /\ Len(o.locks) = 2 /\ o.locks[1] = Queue
          /\ o.locks[2] = slots[1].mutex /\ o.locks[2] \in Blocks
      <4>1. PICK b \in Blocks : b = slots[1].mutex /\ o.locks = <<Queue, b>>
        BY <2>1 DEF EventBegins
      <4> QED
        BY <4>1
    <3> QED
      BY <1>1, <1>2, <2>1, <3>1 DEF EventInv, EventBegins
  <2>2. CASE o.kind # "pop"
    <3>1. /\ Distinct(o.locks)
          /\ \A i \in 1 .. Len(o.locks) : o.locks[i] = Queue => nodes = 1
      BY <2>2, Constants DEF EventBegins
    <3> QED
      BY <1>1, <1>2, <2>2, <3>1 DEF EventInv, EventBegins
  <2> QED
    BY <2>1, <2>2
<1>6. LockInv'
  <2>1. \A i \in 1 .. Len(o.locks) :
          \/ o.locks[i] \in {Queue, hnd[o.dst].mutex, hnd[o.src].mutex}
          \/ o.kind = "pop" /\ o.step = "lock"
    BY <1>2 DEF EventBegins
  <2> QED
    BY <1>1, <2>1, Constants DEF LockInv, Locked, At
<1>7. HoldInv'
  BY <1>1, <1>2, Constants DEF HoldInv, Locking, At
<1>8. PairInv'
  BY <1>1, <1>2, Constants, FinalsKept DEF Changed, At
<1>9. SlotInv' /\ SoleInv'
  BY <1>1 DEF SlotInv, SoleInv
<1> QED
  BY <1>3, <1>4, <1>5, <1>6, <1>7, <1>8, <1>9

(***************************************************************************)
(* The invariant is inductive: locks and pointers.                         *)
(***************************************************************************)

\* A mutex is taken.
LEMMA AcquireStep ==
  ASSUME IInv, NEW t \in Threads, Acquire(t)
  PROVE  IInv'
<1> USE DEF IInv
<1>1. /\ SameHandles(t) /\ OthersKeep(t)
      /\ op[t].step = "lock" /\ op[t].taken < Len(op[t].locks)
      /\ op'[t].kind = op[t].kind /\ op'[t].locks = op[t].locks
      /\ op'[t].step = "lock" /\ op'[t].taken = op[t].taken + 1
      /\ op' \in [Threads -> Operations \cup {Null}]
      /\ NextLock(t) \in Mutexes /\ owner[NextLock(t)] = Null
      /\ owner' = [owner EXCEPT ![NextLock(t)] = t]
      /\ UNCHANGED <<hnd, slots, nodes, todo>>
  BY AcquireFacts
<1>2. op[t] # Null /\ op'[t] # Null /\ op[t].taken \in Nat /\ op[t].locks \in Seq(Mutexes)
      /\ op[t] \in Operations
  BY <1>1, OperationFields DEF SameHandles, TypeOK
<1>3. TypeOK'
  <2>1. owner' \in [Mutexes -> Threads \cup {Null}]
    BY <1>1 DEF TypeOK
  <2>2. ASSUME NEW u \in Threads, op'[u] # Null
        PROVE  {op'[u].dst, op'[u].src} \subseteq Owned(u) /\ op'[u].taken <= Len(op'[u].locks)
    <3>1. CASE u = t
      <4>1. Len(op[t].locks) \in Nat
        BY <1>2
      <4> QED
        BY <1>1, <1>2, <3>1, <4>1 DEF TypeOK, SameHandles
    <3>2. CASE u # t
      BY <1>1, <2>2, <3>2 DEF TypeOK, OthersKeep
    <3> QED
      BY <3>1, <3>2
  <2> QED
    BY <1>1, <2>1, <2>2 DEF TypeOK
<1>4. StreamInv'
  <2>1. CASE t = Stream
    BY <1>1, <1>2, <2>1 DEF StreamInv, SameHandles
  <2>2. CASE t # Stream
    BY <1>1, <2>2, Constants DEF StreamInv, OthersKeep
  <2> QED
    BY <2>1, <2>2
<1>5. EventInv'
  <2>1. CASE t = Event
    BY <1>1, <1>2, <2>1 DEF EventInv, SameHandles
  <2>2. CASE t # Event
    BY <1>1, <2>2, Constants DEF EventInv, OthersKeep
  <2> QED
    BY <2>1, <2>2
<1>6. LockInv'
  <2> SUFFICES ASSUME NEW u \in Threads, Locked(u)', NEW i \in 1 .. Len(op'[u].locks)
               PROVE  \/ op'[u].locks[i] \in {Queue, hnd[op'[u].dst].mutex, hnd[op'[u].src].mutex}
                      \/ op'[u].kind = "pop" /\ op'[u].step = "lock"
                      \/ /\ op'[u].kind = "push" /\ op'[u].step = "unlock"
                         /\ \E j \in 1 .. Len(slots) : op'[u].locks[i] = slots[j].mutex
    BY <1>1 DEF LockInv
  <2>1. CASE u = t
    <3>1. Locked(t) /\ i \in 1 .. Len(op[t].locks)
      BY <1>1, <1>2, <2>1 DEF Locked, At
    <3> QED
      BY <1>1, <2>1, <3>1 DEF LockInv, SameHandles
  <2>2. CASE u # t
    BY <1>1, <2>2 DEF LockInv, Locked, At, OthersKeep
  <2> QED
    BY <2>1, <2>2
<1>7. HoldInv'
  <2>1. ASSUME NEW u \in Threads, Locking(u)', NEW i \in 1 .. op'[u].taken
        PROVE  owner'[op'[u].locks[i]] = u
    <3>1. CASE u = t /\ i = op[t].taken + 1
      BY <1>1, <3>1 DEF TypeOK, NextLock
    <3>2. CASE u = t /\ i # op[t].taken + 1
      <4>1. i \in 1 .. op[t].taken /\ Locking(t) /\ i \in 1 .. Len(op[t].locks)
        BY <1>1, <1>2, <2>1, <3>2 DEF Locking, At
      <4>2. owner[op[t].locks[i]] = t /\ op[t].locks[i] \in Mutexes
        BY <1>2, <4>1 DEF HoldInv
      <4> QED
        BY <1>1, <3>2, <4>2 DEF TypeOK
    <3>3. CASE u # t
      <4>1. op'[u] = op[u] /\ op[u] # Null /\ Locking(u) /\ i \in 1 .. op[u].taken
        BY <1>1, <2>1, <3>3 DEF Locking, At, OthersKeep
      <4>2. op[u].locks \in Seq(Mutexes) /\ op[u].taken <= Len(op[u].locks) /\ op[u].taken \in Nat
        BY <4>1, OperationFields DEF TypeOK
      <4>3. owner[op[u].locks[i]] = u /\ op[u].locks[i] \in Mutexes
        BY <4>1, <4>2 DEF HoldInv
      <4>4. op[u].locks[i] # NextLock(t)
        BY <1>1, <4>3, Constants
      <4> QED
        BY <1>1, <4>1, <4>3, <4>4 DEF TypeOK
    <3> QED
      BY <3>1, <3>2, <3>3
  <2>2. ASSUME NEW u \in Threads, NEW m \in Mutexes, owner'[m] = u
        PROVE  At(u, "unlock")' \/ (Locking(u)' /\ \E i \in 1 .. op'[u].taken : op'[u].locks[i] = m)
    <3>1. CASE m = NextLock(t)
      <4>1. u = t
        BY <1>1, <2>2, <3>1 DEF TypeOK
      <4>2. Locking(t)'
        BY <1>1, <1>2 DEF Locking, At
      <4>3. op[t].taken + 1 \in 1 .. op'[t].taken
        BY <1>1, <1>2
      <4>4. op'[t].locks[op[t].taken + 1] = m
        BY <1>1, <3>1 DEF NextLock
      <4> QED
        BY <4>1, <4>2, <4>3, <4>4
    <3>2. CASE m # NextLock(t) /\ u = t
      <4>1. owner[m] = t
        BY <1>1, <2>2, <3>2 DEF TypeOK
      <4>2. PICK i \in 1 .. op[t].taken : op[t].locks[i] = m
        BY <1>1, <4>1 DEF HoldInv, At
      <4>3. i \in 1 .. op'[t].taken
        BY <1>1, <1>2
      <4>4. Locking(t)'
        BY <1>1, <1>2 DEF Locking, At
      <4> QED
        BY <1>1, <3>2, <4>2, <4>3, <4>4
    <3>3. CASE m # NextLock(t) /\ u # t
      <4>1. owner[m] = u /\ op'[u] = op[u]
        BY <1>1, <2>2, <3>3 DEF TypeOK, OthersKeep
      <4> QED
        BY <4>1 DEF HoldInv, Locking, At
    <3> QED
      BY <3>1, <3>2, <3>3
  <2>3. At(Stream, "unlock")' /\ op'[Stream].kind = "push" => owner'[Queue] = Stream
    <3>1. CASE t = Stream
      BY <1>1, <3>1 DEF At
    <3>2. CASE t # Stream
      BY <1>1, <3>2, Constants DEF HoldInv, At, OthersKeep, TypeOK
    <3> QED
      BY <3>1, <3>2
  <2> QED
    BY <2>1, <2>2, <2>3 DEF HoldInv
<1>8. PairInv'
  BY <1>1, FinalsKept DEF Changed, At, OthersKeep
<1>9. SlotInv' /\ SoleInv'
  <2>1. op'[Stream] # Null <=> op[Stream] # Null
    BY <1>1, <1>2, Constants DEF OthersKeep
  <2>2. op[Stream] # Null => op'[Stream].kind = op[Stream].kind /\ op'[Stream].step = op[Stream].step
    BY <1>1, Constants DEF OthersKeep
  <2> QED
    BY <1>1, <2>1, <2>2 DEF SlotInv, SoleInv
<1> QED
  BY <1>3, <1>4, <1>5, <1>6, <1>7, <1>8, <1>9

\* A thread changes only its own handles, so those of the other keep theirs.
LEMMA FinalOther ==
  ASSUME TypeOK, NEW u \in Threads, op'[u] = op[u],
         \A k \in Owned(u) : hnd'[k] = hnd[k], NEW n \in Owned(u)
  PROVE  Final(n)' = Final(n)
<1>1. UserOf(n) = u /\ UserOf(n)' = u
  BY Constants DEF UserOf
<1>2. Changed(u)' <=> Changed(u)
  BY DEF Changed, At
<1>3. Changed(u) => hnd'[op[u].src] = hnd[op[u].src]
  BY DEF Changed, At, TypeOK
<1>4. FinalMutex(n)' = FinalMutex(n)
  BY <1>1, <1>2, <1>3 DEF FinalMutex
<1> QED
  BY <1>4 DEF Final

\* A copy or a move is between two handles.
LEMMA TwoHandles ==
  ASSUME IInv, NEW t \in Threads, op[t] # Null, op[t].kind \in {"copy", "move"}
  PROVE  op[t].dst # op[t].src
BY Constants DEF IInv, StreamInv, EventInv

\* A change of the pointers to the objects.
LEMMA SetObjectFacts ==
  ASSUME IInv, NEW t \in Threads, op[t] # Null, hnd' = SetObject(t)
  PROVE  /\ hnd' \in [Names -> Handle]
         /\ \A n \in Names : hnd'[n].mutex = hnd[n].mutex
         /\ \A n \in Names : n \notin {op[t].dst, op[t].src} => hnd'[n] = hnd[n]
         /\ op[t].kind \in {"copy", "move"} => hnd'[op[t].dst].obj = hnd[op[t].src].obj
         /\ op[t].kind = "copy" => hnd'[op[t].src] = hnd[op[t].src]
         /\ op[t].kind = "move" => hnd'[op[t].src].obj = Null
         /\ op[t].kind = "reset" =>
              hnd'[op[t].dst].obj = Null /\ \A n \in Names : n # op[t].dst => hnd'[n] = hnd[n]
         /\ op[t].kind \in {"read", "push", "pop"} => hnd' = hnd
<1>1. op[t].dst \in Names /\ op[t].src \in Names
  BY OperationFields DEF IInv, TypeOK
<1>2. \A h \in Handle, b \in Blocks \cup {Null} :
        /\ [h EXCEPT !.obj = b] \in Handle
        /\ [h EXCEPT !.obj = b].obj = b /\ [h EXCEPT !.obj = b].mutex = h.mutex
  BY DEF Handle
<1>3. /\ \A n \in Names : hnd[n] \in Handle /\ hnd[n].obj \in Blocks \cup {Null}
      /\ hnd \in [Names -> Handle]
  BY HandleFields DEF IInv, TypeOK
<1>4. CASE op[t].kind = "copy"
  <2>1. hnd' = [hnd EXCEPT ![op[t].dst] = [hnd[op[t].dst] EXCEPT !.obj = hnd[op[t].src].obj]]
    BY <1>1, <1>3, <1>4 DEF SetObject
  <2>2. op[t].dst # op[t].src
    BY <1>4, TwoHandles
  <2> QED
    BY <1>1, <1>2, <1>3, <1>4, <2>1, <2>2
<1>5. CASE op[t].kind = "move"
  <2> DEFINE g == [hnd EXCEPT ![op[t].dst] = [hnd[op[t].dst] EXCEPT !.obj = hnd[op[t].src].obj]]
  <2>1. hnd' = [g EXCEPT ![op[t].src] = [g[op[t].src] EXCEPT !.obj = Null]]
    BY <1>1, <1>3, <1>5 DEF SetObject
  <2>2. /\ g \in [Names -> Handle]
        /\ g[op[t].dst].obj = hnd[op[t].src].obj /\ g[op[t].dst].mutex = hnd[op[t].dst].mutex
        /\ \A n \in Names : n # op[t].dst => g[n] = hnd[n]
    BY <1>1, <1>2, <1>3
  <2>3. op[t].dst # op[t].src
    BY <1>5, TwoHandles
  <2> HIDE DEF g
  <2> QED
    BY <1>1, <1>2, <1>3, <1>5, <2>1, <2>2, <2>3
<1>6. CASE op[t].kind = "reset"
  <2>1. hnd' = [hnd EXCEPT ![op[t].dst] = [hnd[op[t].dst] EXCEPT !.obj = Null]]
    BY <1>1, <1>3, <1>6 DEF SetObject
  <2> QED
    BY <1>1, <1>2, <1>3, <1>6, <2>1
<1>7. CASE op[t].kind \notin {"copy", "move", "reset"}
  BY <1>3, <1>7 DEF SetObject
<1> QED
  BY <1>4, <1>5, <1>6, <1>7

\* A change of the pointers to the mutexes.
LEMMA SetMutexFacts ==
  ASSUME IInv, NEW t \in Threads, Changed(t), hnd' = SetMutex(t)
  PROVE  /\ hnd' \in [Names -> Handle]
         /\ \A n \in Names : hnd'[n].obj = hnd[n].obj
         /\ \A n \in Names : n \notin {op[t].dst, op[t].src} => hnd'[n] = hnd[n]
         /\ \A n \in Owned(t) : hnd'[n].mutex = FinalMutex(n)
<1>1. op[t] # Null /\ op[t].dst \in Names /\ op[t].src \in Names
  BY OperationFields DEF IInv, TypeOK, Changed, At
<1>2. \A h \in Handle, b \in Blocks \cup {Null} :
        /\ [h EXCEPT !.mutex = b] \in Handle
        /\ [h EXCEPT !.mutex = b].mutex = b /\ [h EXCEPT !.mutex = b].obj = h.obj
  BY DEF Handle
<1>3. /\ \A n \in Names : hnd[n] \in Handle /\ hnd[n].mutex \in Blocks \cup {Null}
      /\ hnd \in [Names -> Handle] /\ Owned(t) \subseteq Names
  BY HandleFields, Constants DEF IInv, TypeOK
<1>4. \A n \in Owned(t) : UserOf(n) = t
  BY Constants DEF UserOf
<1>5. CASE op[t].kind = "copy"
  <2>1. hnd' = [hnd EXCEPT ![op[t].dst] = [hnd[op[t].dst] EXCEPT !.mutex = hnd[op[t].src].mutex]]
    BY <1>1, <1>3, <1>5 DEF SetMutex
  <2>2. \A n \in Owned(t) : FinalMutex(n) =
          IF n = op[t].dst THEN hnd[op[t].src].mutex ELSE hnd[n].mutex
    BY <1>4, <1>5 DEF FinalMutex
  <2> QED
    BY <1>1, <1>2, <1>3, <2>1, <2>2
<1>6. CASE op[t].kind = "move"
  <2> DEFINE g == [hnd EXCEPT ![op[t].dst] = [hnd[op[t].dst] EXCEPT !.mutex = hnd[op[t].src].mutex]]
  <2>1. hnd' = [g EXCEPT ![op[t].src] = [g[op[t].src] EXCEPT !.mutex = Null]]
    BY <1>1, <1>3, <1>6 DEF SetMutex
  <2>2. /\ g \in [Names -> Handle]
        /\ g[op[t].dst].mutex = hnd[op[t].src].mutex /\ g[op[t].dst].obj = hnd[op[t].dst].obj
        /\ \A n \in Names : n # op[t].dst => g[n] = hnd[n]
    BY <1>1, <1>2, <1>3
  <2>3. op[t].dst # op[t].src
    BY <1>1, <1>6, TwoHandles
  <2> HIDE DEF g
  <2>4. ASSUME NEW n \in Owned(t) PROVE hnd'[n].mutex = FinalMutex(n)
    <3>1. FinalMutex(n) = IF n = op[t].dst THEN hnd[op[t].src].mutex
                          ELSE IF n = op[t].src THEN Null ELSE hnd[n].mutex
      BY <1>4, <1>6 DEF FinalMutex
    <3> QED
      BY <1>1, <1>2, <1>3, <2>1, <2>2, <2>3, <3>1
  <2>5. /\ hnd' \in [Names -> Handle]
        /\ \A n \in Names : hnd'[n].obj = hnd[n].obj
        /\ \A n \in Names : n \notin {op[t].dst, op[t].src} => hnd'[n] = hnd[n]
    <3> DEFINE h == [g[op[t].src] EXCEPT !.mutex = Null]
    <3>1. h \in Handle /\ h.obj = hnd[op[t].src].obj
      BY <1>1, <1>2, <2>2, <2>3
    <3>2. hnd' = [g EXCEPT ![op[t].src] = h]
      BY <2>1
    <3> HIDE DEF h
    <3> QED
      BY <1>1, <2>2, <3>1, <3>2
  <2> QED
    BY <2>4, <2>5
<1>7. CASE op[t].kind = "reset"
  <2>1. hnd' = [hnd EXCEPT ![op[t].dst] = [hnd[op[t].dst] EXCEPT !.mutex = Null]]
    BY <1>1, <1>3, <1>7 DEF SetMutex
  <2>2. ASSUME NEW n \in Owned(t) PROVE hnd'[n].mutex = FinalMutex(n)
    <3>1. FinalMutex(n) = IF n = op[t].dst THEN Null ELSE hnd[n].mutex
      BY <1>4, <1>7 DEF FinalMutex
    <3> QED
      BY <1>1, <1>2, <1>3, <2>1, <3>1
  <2>3. /\ hnd' \in [Names -> Handle]
        /\ \A n \in Names : hnd'[n].obj = hnd[n].obj
        /\ \A n \in Names : n # op[t].dst => hnd'[n] = hnd[n]
    BY <1>1, <1>2, <1>3, <2>1
  <2> QED
    BY <2>2, <2>3
<1>8. CASE op[t].kind \notin {"copy", "move", "reset"}
  <2>1. hnd' = hnd
    BY <1>3, <1>8 DEF SetMutex
  <2>2. ASSUME NEW n \in Owned(t) PROVE hnd'[n].mutex = FinalMutex(n)
    BY <1>4, <1>8, <2>1 DEF FinalMutex
  <2> QED
    BY <1>3, <2>1, <2>2
<1> QED
  BY <1>5, <1>6, <1>7, <1>8

\* The handles of the other thread are not those of an operation.
LEMMA OthersHandles ==
  ASSUME TypeOK, NEW t \in Threads, op[t] # Null, NEW u \in Threads, u # t
  PROVE  /\ \A n \in Owned(u) : n \in Names /\ n \notin {op[t].dst, op[t].src}
         /\ op[u] # Null => op[u].dst \in Owned(u) /\ op[u].src \in Owned(u)
BY Constants DEF TypeOK

\* The pointers to the objects change.
LEMMA ChangeStep ==
  ASSUME IInv, NEW t \in Threads, Change(t)
  PROVE  IInv'
<1> USE DEF IInv
<1>1. /\ SameHandles(t) /\ OthersKeep(t)
      /\ op'[t].kind = op[t].kind /\ op'[t].locks = op[t].locks
      /\ op'[t].step = "unlock" /\ op'[t].taken = op[t].taken
      /\ op' \in [Threads -> Operations \cup {Null}]
  BY ThenFacts DEF Change, HasAll
<1>2. /\ op[t] # Null /\ op'[t] # Null /\ op[t].step = "lock" /\ hnd' = SetObject(t)
      /\ op[t].kind \in {"copy", "move", "reset", "read"}
      /\ UNCHANGED <<slots, owner, nodes, todo>>
  BY <1>1, OperationFields DEF Change, HasAll, SameHandles, TypeOK
<1>3. /\ hnd' \in [Names -> Handle]
      /\ \A n \in Names : hnd'[n].mutex = hnd[n].mutex
      /\ \A n \in Names : n \notin {op[t].dst, op[t].src} => hnd'[n] = hnd[n]
      /\ op[t].kind \in {"copy", "move"} => hnd'[op[t].dst].obj = hnd[op[t].src].obj
      /\ op[t].kind = "copy" => hnd'[op[t].src] = hnd[op[t].src]
      /\ op[t].kind = "move" => hnd'[op[t].src].obj = Null
      /\ op[t].kind = "reset" =>
           hnd'[op[t].dst].obj = Null /\ \A n \in Names : n # op[t].dst => hnd'[n] = hnd[n]
      /\ op[t].kind \in {"read", "push", "pop"} => hnd' = hnd
  BY <1>2, SetObjectFacts
<1>4. ASSUME NEW u \in Threads, u # t
      PROVE  /\ \A n \in Owned(u) : hnd'[n] = hnd[n]
             /\ op[u] # Null => op[u].dst \in Owned(u) /\ op[u].src \in Owned(u)
  BY <1>2, <1>3, <1>4, OthersHandles
<1>5. TypeOK'
  <2>1. ASSUME NEW u \in Threads, op'[u] # Null
        PROVE  {op'[u].dst, op'[u].src} \subseteq Owned(u) /\ op'[u].taken <= Len(op'[u].locks)
    <3>1. CASE u = t
      BY <1>1, <1>2, <3>1 DEF TypeOK, SameHandles
    <3>2. CASE u # t
      BY <1>1, <2>1, <3>2 DEF TypeOK, OthersKeep
    <3> QED
      BY <3>1, <3>2
  <2> QED
    BY <1>1, <1>2, <1>3, <2>1 DEF TypeOK
<1>6. StreamInv'
  <2>1. CASE t = Stream
    BY <1>1, <1>2, <1>3, <2>1 DEF StreamInv, SameHandles
  <2>2. CASE t # Stream
    <3>1. hnd'["sent"] = hnd["sent"] /\ hnd'["message"] = hnd["message"] /\ op'[Stream] = op[Stream]
      BY <1>1, <1>4, <2>2, Constants DEF StreamNames, OthersKeep
    <3> QED
      BY <1>2, <3>1 DEF StreamInv
  <2> QED
    BY <2>1, <2>2
<1>7. EventInv'
  <2>1. CASE t = Event
    BY <1>1, <1>2, <2>1 DEF EventInv, SameHandles
  <2>2. CASE t # Event
    BY <1>1, <1>2, <2>2, Constants DEF EventInv, OthersKeep
  <2> QED
    BY <2>1, <2>2
<1>8. LockInv'
  <2> SUFFICES ASSUME NEW u \in Threads, Locked(u)', NEW i \in 1 .. Len(op'[u].locks)
               PROVE  \/ op'[u].locks[i] \in {Queue, hnd'[op'[u].dst].mutex, hnd'[op'[u].src].mutex}
                      \/ op'[u].kind = "pop" /\ op'[u].step = "lock"
                      \/ /\ op'[u].kind = "push" /\ op'[u].step = "unlock"
                         /\ \E j \in 1 .. Len(slots) : op'[u].locks[i] = slots[j].mutex
    BY <1>2 DEF LockInv
  <2>1. op[u] # Null => op[u] \in Operations /\ op[u].dst \in Names /\ op[u].src \in Names
    BY OperationFields DEF TypeOK
  <2>2. CASE u = t
    <3>1. Locked(t) /\ i \in 1 .. Len(op[t].locks)
      BY <1>1, <1>2, <2>2 DEF Locked, At
    <3> QED
      BY <1>1, <1>2, <1>3, <2>1, <2>2, <3>1 DEF LockInv, SameHandles
  <2>3. CASE u # t
    <3>1. op'[u] = op[u] /\ Locked(u) /\ op[u] # Null
      BY <1>1, <2>3 DEF Locked, At, OthersKeep
    <3> QED
      BY <1>3, <2>1, <2>3, <3>1 DEF LockInv
  <2> QED
    BY <2>2, <2>3
<1>9. HoldInv'
  <2>1. ASSUME NEW u \in Threads, Locking(u)', NEW i \in 1 .. op'[u].taken
        PROVE  owner'[op'[u].locks[i]] = u
    <3>1. u # t
      BY <1>1, <2>1 DEF Locking, At
    <3> QED
      BY <1>1, <1>2, <2>1, <3>1 DEF HoldInv, Locking, At, OthersKeep
  <2>2. ASSUME NEW u \in Threads, NEW m \in Mutexes, owner'[m] = u
        PROVE  At(u, "unlock")' \/ (Locking(u)' /\ \E i \in 1 .. op'[u].taken : op'[u].locks[i] = m)
    <3>1. CASE u = t
      BY <1>1, <1>2, <3>1 DEF At
    <3>2. CASE u # t
      BY <1>1, <1>2, <2>2, <3>2 DEF HoldInv, Locking, At, OthersKeep
    <3> QED
      BY <3>1, <3>2
  <2>3. At(Stream, "unlock")' /\ op'[Stream].kind = "push" => owner'[Queue] = Stream
    <3>1. CASE t = Stream
      BY <1>1, <1>2, <3>1
    <3>2. CASE t # Stream
      BY <1>1, <1>2, <3>2, Constants DEF HoldInv, At, OthersKeep
    <3> QED
      BY <3>1, <3>2
  <2> QED
    BY <2>1, <2>2, <2>3 DEF HoldInv
<1>10. PairInv'
  <2>1. ASSUME NEW n \in Names PROVE hnd'[n].obj = Null \/ Final(n)' \in Pairs
    <3>1. /\ UserOf(n) \in Threads /\ n \in Owned(UserOf(n)) /\ Final(n) \in Pairs
          /\ UserOf(n)' = UserOf(n)
      BY FinalFacts, Constants DEF UserOf
    <3>2. CASE UserOf(n) # t
      <4>1. Final(n)' = Final(n)
        BY <1>1, <1>4, <3>1, <3>2, FinalOther DEF OthersKeep
      <4> QED
        BY <3>1, <4>1
    <3>3. CASE UserOf(n) = t
      <4>1. ~Changed(t) /\ Changed(t)' /\ op[t].dst \in Names /\ op[t].src \in Names
        BY <1>1, <1>2, OperationFields DEF Changed, At, TypeOK
      <4>2. ASSUME NEW k \in Names, UserOf(k) = t
            PROVE  [obj |-> hnd[k].obj, mutex |-> hnd[k].mutex] \in Pairs
        BY <4>1, <4>2, FinalFacts DEF Final
      <4>3. /\ UserOf(op[t].src) = t
            /\ [obj |-> hnd[op[t].src].obj, mutex |-> hnd[op[t].src].mutex] \in Pairs
        <5>1. op[t].src \in Owned(t)
          BY <1>2 DEF TypeOK
        <5>2. UserOf(op[t].src) = t
          BY <5>1, Constants DEF UserOf
        <5> QED
          BY <4>1, <4>2, <5>2
      <4>4. CASE op[t].kind \in {"copy", "move"} /\ n = op[t].dst
        <5>1. FinalMutex(n)' = hnd[op[t].src].mutex
          BY <1>1, <1>3, <3>1, <3>3, <4>1, <4>4 DEF FinalMutex, SameHandles
        <5> QED
          BY <1>3, <4>3, <4>4, <5>1 DEF Final
      <4>5. CASE op[t].kind = "move" /\ n = op[t].src
        BY <1>3, <4>5
      <4>6. CASE op[t].kind = "reset" /\ n = op[t].dst
        BY <1>3, <4>6
      <4>7. CASE ~ \/ op[t].kind \in {"copy", "move"} /\ n = op[t].dst
                   \/ op[t].kind = "move" /\ n = op[t].src
                   \/ op[t].kind = "reset" /\ n = op[t].dst
        <5>1. FinalMutex(n)' = hnd'[n].mutex
          BY <1>1, <3>1, <3>3, <4>1, <4>7 DEF FinalMutex, SameHandles
        <5>2. hnd'[n] = hnd[n]
          BY <1>2, <1>3, <4>7
        <5> QED
          BY <3>3, <4>2, <5>1, <5>2 DEF Final
      <4> QED
        BY <4>4, <4>5, <4>6, <4>7
    <3> QED
      BY <3>2, <3>3
  <2>2. \A i \in 1 .. Len(slots') : slots'[i] \in Pairs
    BY <1>2 DEF Pairs
  <2> QED
    BY <2>1, <2>2, PairsKept
<1>11. SlotInv'
  BY <1>2 DEF SlotInv
<1>12. SoleInv'
  <2>1. \A n \in StreamNames \cup EventNames : hnd'[n].mutex = hnd[n].mutex
    BY <1>3, Constants
  <2>2. CASE t = Stream
    <3>1. nodes = 1 => op'[Stream].kind = "move"
      BY <1>1, <1>2, <2>2 DEF StreamInv
    <3> QED
      BY <1>1, <1>2, <2>1, <2>2, <3>1 DEF SoleInv
  <2>3. CASE t # Stream
    <3>1. hnd'["sent"] = hnd["sent"] /\ hnd'["message"] = hnd["message"] /\ op'[Stream] = op[Stream]
      BY <1>1, <1>4, <2>3, Constants DEF StreamNames, OthersKeep
    <3> QED
      BY <1>2, <2>1, <3>1 DEF SoleInv
  <2> QED
    BY <2>2, <2>3
<1> QED
  BY <1>5, <1>6, <1>7, <1>8, <1>9, <1>10, <1>11, <1>12

\* The mutexes are released.
LEMMA UnlockStep ==
  ASSUME IInv, NEW t \in Threads, Unlock(t)
  PROVE  IInv'
<1> USE DEF IInv
<1>1. /\ SameHandles(t) /\ OthersKeep(t)
      /\ op'[t].kind = op[t].kind /\ op'[t].locks = op[t].locks
      /\ op'[t].step = "settle" /\ op'[t].taken = op[t].taken
      /\ op' \in [Threads -> Operations \cup {Null}]
  BY ThenFacts DEF Unlock
<1>2. /\ op[t] # Null /\ op'[t] # Null /\ op[t].step = "unlock"
      /\ owner' = [m \in Mutexes |-> IF owner[m] = t THEN Null ELSE owner[m]]
      /\ UNCHANGED <<hnd, slots, nodes, todo>>
  BY <1>1 DEF Unlock, SameHandles
<1>3. /\ \A m \in Mutexes : owner'[m] # t
      /\ \A m \in Mutexes, u \in Threads : u # t => (owner'[m] = u <=> owner[m] = u)
      /\ owner' \in [Mutexes -> Threads \cup {Null}]
  BY <1>2, Constants DEF TypeOK
<1>4. TypeOK'
  <2>1. ASSUME NEW u \in Threads, op'[u] # Null
        PROVE  {op'[u].dst, op'[u].src} \subseteq Owned(u) /\ op'[u].taken <= Len(op'[u].locks)
    <3>1. CASE u = t
      BY <1>1, <1>2, <3>1 DEF TypeOK, SameHandles
    <3>2. CASE u # t
      BY <1>1, <2>1, <3>2 DEF TypeOK, OthersKeep
    <3> QED
      BY <3>1, <3>2
  <2> QED
    BY <1>1, <1>2, <1>3, <2>1 DEF TypeOK
<1>5. StreamInv'
  <2>1. CASE t = Stream
    BY <1>1, <1>2, <2>1 DEF StreamInv, SameHandles
  <2>2. CASE t # Stream
    BY <1>1, <1>2, <2>2, Constants DEF StreamInv, OthersKeep
  <2> QED
    BY <2>1, <2>2
<1>6. EventInv'
  <2>1. CASE t = Event
    BY <1>1, <1>2, <2>1 DEF EventInv, SameHandles
  <2>2. CASE t # Event
    BY <1>1, <1>2, <2>2, Constants DEF EventInv, OthersKeep
  <2> QED
    BY <2>1, <2>2
<1>7. LockInv'
  <2> SUFFICES ASSUME NEW u \in Threads, Locked(u)', NEW i \in 1 .. Len(op'[u].locks)
               PROVE  \/ op'[u].locks[i] \in {Queue, hnd[op'[u].dst].mutex, hnd[op'[u].src].mutex}
                      \/ op'[u].kind = "pop" /\ op'[u].step = "lock"
                      \/ /\ op'[u].kind = "push" /\ op'[u].step = "unlock"
                         /\ \E j \in 1 .. Len(slots) : op'[u].locks[i] = slots[j].mutex
    BY <1>2 DEF LockInv
  <2>1. u # t
    BY <1>1 DEF Locked, At
  <2> QED
    BY <1>1, <2>1 DEF LockInv, Locked, At, OthersKeep
<1>8. HoldInv'
  <2>1. ASSUME NEW u \in Threads, Locking(u)', NEW i \in 1 .. op'[u].taken
        PROVE  owner'[op'[u].locks[i]] = u
    <3>1. u # t
      BY <1>1, <2>1 DEF Locking, At
    <3>2. op'[u] = op[u] /\ Locking(u) /\ op[u] \in Operations
      BY <1>1, <2>1, <3>1, Constants DEF Locking, At, OthersKeep, TypeOK
    <3>3. op[u].locks \in Seq(Mutexes) /\ op[u].taken <= Len(op[u].locks) /\ op[u].taken \in Nat
      BY <3>2, OperationFields, Constants DEF TypeOK
    <3>4. owner[op[u].locks[i]] = u /\ op[u].locks[i] \in Mutexes
      BY <3>2, <3>3 DEF HoldInv
    <3> QED
      BY <1>3, <3>1, <3>2, <3>4
  <2>2. ASSUME NEW u \in Threads, NEW m \in Mutexes, owner'[m] = u
        PROVE  At(u, "unlock")' \/ (Locking(u)' /\ \E i \in 1 .. op'[u].taken : op'[u].locks[i] = m)
    <3>1. u # t /\ owner[m] = u
      BY <1>3, <2>2
    <3> QED
      BY <1>1, <3>1 DEF HoldInv, Locking, At, OthersKeep
  <2>3. At(Stream, "unlock")' /\ op'[Stream].kind = "push" => owner'[Queue] = Stream
    <3>1. CASE t = Stream
      BY <1>1, <3>1 DEF At
    <3>2. CASE t # Stream
      BY <1>1, <1>3, <3>2, Constants DEF HoldInv, At, OthersKeep
    <3> QED
      BY <3>1, <3>2
  <2> QED
    BY <2>1, <2>2, <2>3 DEF HoldInv
<1>9. PairInv'
  BY <1>1, <1>2, FinalsKept DEF Changed, At, OthersKeep
<1>10. SlotInv' /\ SoleInv'
  <2>1. CASE t = Stream
    BY <1>1, <1>2, <2>1 DEF SlotInv, SoleInv
  <2>2. CASE t # Stream
    BY <1>1, <1>2, <2>2, Constants DEF SlotInv, SoleInv, OthersKeep
  <2> QED
    BY <2>1, <2>2
<1> QED
  BY <1>4, <1>5, <1>6, <1>7, <1>8, <1>9, <1>10

\* The pointers to the mutexes change: the operation ends.
LEMMA SettleStep ==
  ASSUME IInv, NEW t \in Threads, Settle(t)
  PROVE  IInv'
<1> USE DEF IInv
<1>1. /\ op'[t] = Null /\ OthersKeep(t)
      /\ op' \in [Threads -> Operations \cup {Null}]
  BY EndFacts DEF Settle
<1>2. /\ op[t] # Null /\ op[t].step = "settle" /\ Changed(t) /\ hnd' = SetMutex(t)
      /\ UNCHANGED <<slots, owner, nodes, todo>>
  BY DEF Settle, Changed, At
<1>3. /\ hnd' \in [Names -> Handle]
      /\ \A n \in Names : hnd'[n].obj = hnd[n].obj
      /\ \A n \in Names : n \notin {op[t].dst, op[t].src} => hnd'[n] = hnd[n]
      /\ \A n \in Owned(t) : hnd'[n].mutex = FinalMutex(n)
  BY <1>2, SetMutexFacts
<1>4. ASSUME NEW u \in Threads, u # t
      PROVE  /\ \A n \in Owned(u) : hnd'[n] = hnd[n]
             /\ op[u] # Null => op[u].dst \in Owned(u) /\ op[u].src \in Owned(u)
             /\ op'[u] = op[u]
  BY <1>1, <1>2, <1>3, <1>4, OthersHandles DEF OthersKeep
<1>5. TypeOK'
  BY <1>1, <1>2, <1>3, <1>4 DEF TypeOK
<1>6. StreamInv'
  <2>1. CASE t = Stream
    BY <1>1, <2>1 DEF StreamInv
  <2>2. CASE t # Stream
    <3>1. hnd'["sent"] = hnd["sent"] /\ hnd'["message"] = hnd["message"] /\ op'[Stream] = op[Stream]
      BY <1>4, <2>2, Constants DEF StreamNames
    <3> QED
      BY <1>2, <3>1 DEF StreamInv
  <2> QED
    BY <2>1, <2>2
<1>7. EventInv'
  <2>1. CASE t = Event
    BY <1>1, <2>1 DEF EventInv
  <2>2. CASE t # Event
    BY <1>2, <1>4, <2>2, Constants DEF EventInv
  <2> QED
    BY <2>1, <2>2
<1>8. LockInv'
  <2> SUFFICES ASSUME NEW u \in Threads, Locked(u)', NEW i \in 1 .. Len(op'[u].locks)
               PROVE  \/ op'[u].locks[i] \in {Queue, hnd'[op'[u].dst].mutex, hnd'[op'[u].src].mutex}
                      \/ op'[u].kind = "pop" /\ op'[u].step = "lock"
                      \/ /\ op'[u].kind = "push" /\ op'[u].step = "unlock"
                         /\ \E j \in 1 .. Len(slots) : op'[u].locks[i] = slots[j].mutex
    BY <1>2 DEF LockInv
  <2>1. u # t
    BY <1>1 DEF Locked, At
  <2>2. op'[u] = op[u] /\ Locked(u) /\ op[u] # Null
    BY <1>4, <2>1 DEF Locked, At
  <2> QED
    BY <1>4, <2>1, <2>2 DEF LockInv
<1>9. HoldInv'
  <2>1. ASSUME NEW u \in Threads, Locking(u)', NEW i \in 1 .. op'[u].taken
        PROVE  owner'[op'[u].locks[i]] = u
    <3>1. u # t
      BY <1>1, <2>1 DEF Locking, At
    <3> QED
      BY <1>2, <1>4, <2>1, <3>1 DEF HoldInv, Locking, At
  <2>2. ASSUME NEW u \in Threads, NEW m \in Mutexes, owner'[m] = u
        PROVE  At(u, "unlock")' \/ (Locking(u)' /\ \E i \in 1 .. op'[u].taken : op'[u].locks[i] = m)
    <3>1. u # t
      BY <1>2, <2>2 DEF HoldInv, Locking, At
    <3> QED
      BY <1>2, <1>4, <2>2, <3>1 DEF HoldInv, Locking, At
  <2>3. At(Stream, "unlock")' /\ op'[Stream].kind = "push" => owner'[Queue] = Stream
    <3>1. CASE t = Stream
      BY <1>1, <3>1 DEF At
    <3>2. CASE t # Stream
      BY <1>2, <1>4, <3>2, Constants DEF HoldInv, At
    <3> QED
      BY <3>1, <3>2
  <2> QED
    BY <2>1, <2>2, <2>3 DEF HoldInv
<1>10. PairInv'
  <2>1. ASSUME NEW n \in Names PROVE Final(n)' \in Pairs
    <3>1. /\ UserOf(n) \in Threads /\ n \in Owned(UserOf(n)) /\ Final(n) \in Pairs
          /\ UserOf(n)' = UserOf(n)
      BY FinalFacts, Constants DEF UserOf
    <3>2. CASE UserOf(n) # t
      <4>1. Final(n)' = Final(n)
        BY <1>4, <3>1, <3>2, FinalOther
      <4> QED
        BY <3>1, <4>1
    <3>3. CASE UserOf(n) = t
      <4>1. FinalMutex(n)' = hnd'[n].mutex
        BY <1>1, <3>1, <3>3 DEF FinalMutex, Changed, At
      <4>2. FinalMutex(n)' = FinalMutex(n)
        BY <1>3, <3>1, <3>3, <4>1
      <4>3. Final(n)' = Final(n)
        BY <1>3, <4>2 DEF Final
      <4> QED
        BY <3>1, <4>3
    <3> QED
      BY <3>2, <3>3
  <2>2. \A i \in 1 .. Len(slots') : slots'[i] \in Pairs
    BY <1>2 DEF Pairs
  <2> QED
    BY <2>1, <2>2, PairsKept
<1>11. SlotInv'
  BY <1>2 DEF SlotInv
<1>12. SoleInv'
  <2> SUFFICES ASSUME nodes = 1 PROVE SoleInv'
    BY <1>2 DEF SoleInv
  <2>1. CASE t = Stream
    <3>1. \A k \in EventNames : hnd'[k] = hnd[k]
      BY <1>4, <2>1, Constants
    <3>2. op[t].kind # "copy" /\ op[t].kind # "reset"
      BY <1>2, <2>1 DEF StreamInv
    <3>3. CASE op[t].kind = "move"
      <4>1. /\ op[t].dst = "message" /\ op[t].src = "sent" /\ hnd["sent"].obj = Null
        BY <1>2, <2>1, <3>3 DEF StreamInv
      <4>2. UserOf("sent") = t /\ UserOf("message") = t
            /\ "sent" \in Owned(t) /\ "message" \in Owned(t) /\ "sent" \in Names
        BY <2>1, Constants DEF UserOf, StreamNames
      <4>3. FinalMutex("sent") = Null /\ FinalMutex("message") = hnd["sent"].mutex
        BY <1>2, <3>3, <4>1, <4>2 DEF FinalMutex
      <4>4. hnd'["sent"].mutex = Null /\ hnd'["sent"].obj = Null
            /\ hnd'["message"].mutex = hnd["sent"].mutex
        BY <1>3, <4>1, <4>2, <4>3
      <4>5. hnd'["sent"] = Empty
        BY <1>3, <4>2, <4>4, HandleFields
      <4> QED
        BY <1>2, <3>1, <4>4, <4>5 DEF SoleInv, StreamNames
    <3>4. CASE op[t].kind # "move"
      <4>1. \A n \in StreamNames : hnd'[n].mutex = hnd[n].mutex
        BY <1>2, <1>3, <2>1, <3>2, <3>4, Constants DEF FinalMutex, UserOf
      <4>2. \A n \in StreamNames : hnd'[n] = hnd[n]
        BY <1>3, <4>1, HandleFields, Constants DEF TypeOK
      <4> QED
        BY <1>1, <1>2, <2>1, <3>1, <3>4, <4>2 DEF SoleInv, StreamNames
    <3> QED
      BY <3>3, <3>4
  <2>2. CASE t # Stream
    <3>1. t = Event /\ op'[Stream] = op[Stream] /\ \A n \in StreamNames : hnd'[n] = hnd[n]
      BY <1>4, <2>2, Constants
    <3>2. ASSUME NEW k \in EventNames
          PROVE  hnd'[k].mutex = Null \/ \E j \in EventNames : hnd'[k].mutex = hnd[j].mutex
      <4>1. op[t].dst \in EventNames /\ op[t].src \in EventNames
        BY <1>2, <3>1, Constants DEF TypeOK
      <4>2. hnd'[k].mutex = FinalMutex(k) /\ UserOf(k) = t
        BY <1>3, <3>1, Constants DEF UserOf
      <4> QED
        BY <4>1, <4>2 DEF FinalMutex
    <3> QED
      BY <1>2, <3>1, <3>2 DEF SoleInv, StreamNames
  <2> QED
    BY <2>1, <2>2
<1> QED
  BY <1>5, <1>6, <1>7, <1>8, <1>9, <1>10, <1>11, <1>12

(***************************************************************************)
(* The invariant is inductive: what is created and destroyed, the queue.   *)
(***************************************************************************)

\* What the allocators take is free, if a block is.
LEMMA TakenFacts ==
  ASSUME NEW S \in {FreeObjects, FreeMutexes}, S # {}
  PROVE  Taken(S) \in S
<1>1. FreeObjects \in SUBSET Blocks /\ FreeMutexes \in SUBSET Blocks
  BY DEF FreeObjects, FreeMutexes
<1>2. CASE FreeObjects \cap FreeMutexes = {}
  BY <1>1, <1>2, FirstFacts DEF Taken
<1>3. CASE FreeObjects \cap FreeMutexes # {}
  <2>1. First(FreeObjects \cap FreeMutexes) \in FreeObjects \cap FreeMutexes
    BY <1>1, <1>3, FirstFacts
  <2> QED
    BY <1>3, <2>1 DEF Taken
<1> QED
  BY <1>2, <1>3

\* The handle n gets an object and a mutex that no handle has.
Filled(n, a, b) ==
  /\ a \in Blocks /\ b \in Blocks
  /\ \A k \in Names : hnd[k].obj # a /\ hnd[k].mutex # b
  /\ \A i \in 1 .. Len(slots) : slots[i].obj # a /\ slots[i].mutex # b
  /\ hnd' = [hnd EXCEPT ![n] = [obj |-> a, mutex |-> b]]
  /\ op' = op

\* The thread constructs on the null pointer.
Faulted(t) ==
  /\ hnd' = hnd
  /\ op'[t] # Null /\ op'[t].kind = "read" /\ op'[t].step = "fault"
  /\ op'[t].taken = 0 /\ op'[t].locks = <<>>
  /\ {op'[t].dst, op'[t].src} \subseteq Owned(t)
  /\ op' \in [Threads -> Operations \cup {Null}]
  /\ OthersKeep(t)

\* With free blocks a handle is filled; without, the thread runs into a fault.
LEMMA CreateFacts ==
  ASSUME TypeOK, NEW t \in Threads, NEW n \in Owned(t), Create(t, n)
  PROVE  /\ op[t] = Null /\ UNCHANGED <<slots, owner, nodes>>
         /\ \/ \E a, b \in Blocks : Filled(n, a, b)
            \/ Faulted(t) /\ (FreeMutexes = {} \/ FreeObjects = {})
<1>1. op[t] = Null /\ UNCHANGED <<slots, owner, nodes>>
  BY DEF Create
<1>2. CASE FreeMutexes # {} /\ FreeObjects # {}
  <2> DEFINE a == Taken(FreeObjects)
             b == Taken(FreeMutexes)
  <2>1. a \in FreeObjects /\ b \in FreeMutexes
    BY <1>2, TakenFacts
  <2>2. DOMAIN slots = 1 .. Len(slots)
    BY DEF TypeOK
  <2>3. hnd' = [hnd EXCEPT ![n] = [obj |-> a, mutex |-> b]] /\ op' = op
    BY <1>2 DEF Create
  <2> HIDE DEF a, b
  <2>4. /\ a \in Blocks /\ b \in Blocks
        /\ \A k \in Names : hnd[k].obj # a /\ hnd[k].mutex # b
        /\ \A i \in 1 .. Len(slots) : slots[i].obj # a /\ slots[i].mutex # b
    BY <2>1, <2>2 DEF FreeObjects, FreeMutexes, Handles
  <2> QED
    BY <1>1, <2>3, <2>4 DEF Filled
<1>3. CASE FreeMutexes = {} \/ FreeObjects = {}
  <2> DEFINE fault == [Operation("read", n, n, <<>>) EXCEPT !.step = "fault"]
  <2>1. n \in Names
    BY Constants
  <2>2. fault = [kind |-> "read", dst |-> n, src |-> n, locks |-> <<>>, step |-> "fault", taken |-> 0]
    BY DEF Operation
  <2>3. <<>> \in Seq(Mutexes)
    OBVIOUS
  <2>4. fault \in Operations
    <3>1. [kind |-> "read", dst |-> n, src |-> n, locks |-> <<>>, step |-> "fault", taken |-> 0]
            \in Operations
      BY <2>1, <2>3, OperationFields
    <3> HIDE DEF fault
    <3> QED
      BY <2>2, <3>1
  <2>5. /\ fault.kind = "read" /\ fault.step = "fault" /\ fault.taken = 0
        /\ fault.locks = <<>> /\ fault.dst = n /\ fault.src = n
    BY <2>2
  <2>6. hnd' = hnd /\ op' = [op EXCEPT ![t] = fault]
    BY <1>3 DEF Create
  <2> HIDE DEF fault
  <2>7. Faulted(t)
    BY <2>4, <2>5, <2>6, Constants DEF Faulted, TypeOK, OthersKeep
  <2> QED
    BY <1>1, <1>3, <2>7
<1> QED
  BY <1>2, <1>3

\* A thread has no block for its new buffer.
LEMMA FaultStep ==
  ASSUME IInv, NEW t \in Threads, op[t] = Null, Faulted(t), todo' \in Nat,
         UNCHANGED <<slots, owner, nodes>>,
         todo' = todo \/ t = Stream
  PROVE  IInv'
<1> USE DEF IInv
<1>1. /\ hnd' = hnd /\ OthersKeep(t)
      /\ op'[t] # Null /\ op'[t].kind = "read" /\ op'[t].step = "fault"
      /\ op'[t].taken = 0 /\ op'[t].locks = <<>> /\ Len(op'[t].locks) = 0
      /\ {op'[t].dst, op'[t].src} \subseteq Owned(t)
      /\ op' \in [Threads -> Operations \cup {Null}]
  BY DEF Faulted
<1>2. TypeOK'
  <2>1. ASSUME NEW u \in Threads, op'[u] # Null
        PROVE  {op'[u].dst, op'[u].src} \subseteq Owned(u) /\ op'[u].taken <= Len(op'[u].locks)
    <3>1. CASE u = t
      BY <1>1, <3>1
    <3>2. CASE u # t
      BY <1>1, <2>1, <3>2 DEF TypeOK, OthersKeep
    <3> QED
      BY <3>1, <3>2
  <2> QED
    BY <1>1, <2>1 DEF TypeOK
<1>3. StreamInv'
  <2>1. CASE t = Stream
    BY <1>1, <2>1 DEF StreamInv
  <2>2. CASE t # Stream
    BY <1>1, <2>2, Constants DEF StreamInv, OthersKeep
  <2> QED
    BY <2>1, <2>2
<1>4. EventInv'
  <2>1. CASE t = Event
    BY <1>1, <2>1 DEF EventInv
  <2>2. CASE t # Event
    BY <1>1, <2>2, Constants DEF EventInv, OthersKeep
  <2> QED
    BY <2>1, <2>2
<1>5. LockInv' /\ HoldInv'
  <2>1. ~Locked(t) /\ ~Locked(t)'
    BY <1>1 DEF Locked, At
  <2>2. \A u \in Threads : u # t => op'[u] = op[u]
    BY <1>1 DEF OthersKeep
  <2>3. LockInv'
    BY <1>1, <2>1, <2>2 DEF LockInv, Locked, At
  <2>4. \A m \in Mutexes : owner[m] # t
    BY DEF HoldInv, Locking, At
  <2>5. HoldInv'
    <3>1. ASSUME NEW u \in Threads, Locking(u)', NEW i \in 1 .. op'[u].taken
          PROVE  owner'[op'[u].locks[i]] = u
      <4>1. u # t
        BY <1>1, <3>1 DEF Locking, At
      <4> QED
        BY <2>2, <3>1, <4>1 DEF HoldInv, Locking, At
    <3>2. ASSUME NEW u \in Threads, NEW m \in Mutexes, owner'[m] = u
          PROVE  At(u, "unlock")' \/ (Locking(u)' /\ \E i \in 1 .. op'[u].taken : op'[u].locks[i] = m)
      <4>1. u # t
        BY <2>4, <3>2
      <4> QED
        BY <2>2, <3>2, <4>1 DEF HoldInv, Locking, At
    <3>3. At(Stream, "unlock")' /\ op'[Stream].kind = "push" => owner'[Queue] = Stream
      <4>1. CASE t = Stream
        BY <1>1, <4>1 DEF At
      <4>2. CASE t # Stream
        BY <2>2, <4>2, Constants DEF HoldInv, At
      <4> QED
        BY <4>1, <4>2
    <3> QED
      BY <3>1, <3>2, <3>3 DEF HoldInv
  <2> QED
    BY <2>3, <2>5
<1>6. PairInv'
  BY <1>1, FinalsKept DEF Changed, At, OthersKeep
<1>7. SlotInv' /\ SoleInv'
  <2>1. CASE t = Stream
    BY <1>1, <2>1 DEF SlotInv, SoleInv
  <2>2. CASE t # Stream
    BY <1>1, <2>2, Constants DEF SlotInv, SoleInv, OthersKeep
  <2> QED
    BY <2>1, <2>2
<1> QED
  BY <1>2, <1>3, <1>4, <1>5, <1>6, <1>7

\* A new buffer has an object and a mutex that no handle has.
LEMMA FilledStep ==
  ASSUME IInv, NEW t \in Threads, NEW n \in Owned(t), op[t] = Null,
         NEW a \in Blocks, NEW b \in Blocks, Filled(n, a, b), todo' \in Nat,
         UNCHANGED <<slots, owner, nodes>>,
         \/ t = Stream /\ n = "sent" /\ hnd["message"] = Empty
         \/ t = Event /\ todo' = todo
  PROVE  IInv'
<1> USE DEF IInv
<1>1. /\ b # Null /\ a # Null
      /\ \A k \in Names : hnd[k].obj # a /\ hnd[k].mutex # b
      /\ \A i \in 1 .. Len(slots) : slots[i].obj # a /\ slots[i].mutex # b
  BY Constants DEF Filled
<1>2. hnd' = [hnd EXCEPT ![n] = [obj |-> a, mutex |-> b]] /\ op' = op
  BY DEF Filled
<1>3. /\ n \in Names /\ "sent" \in Names /\ "message" \in Names
      /\ hnd'[n] = [obj |-> a, mutex |-> b] /\ hnd' \in [Names -> Handle]
      /\ \A k \in Names : k # n => hnd'[k] = hnd[k]
  BY <1>2, HandleFields, Constants DEF TypeOK, StreamNames
<1>4. ASSUME NEW u \in Threads, u # t
      PROVE  /\ \A k \in Owned(u) : k \in Names /\ k # n /\ hnd'[k] = hnd[k]
             /\ op[u] # Null => op[u].dst \in Owned(u) /\ op[u].src \in Owned(u)
  BY <1>3, <1>4, Constants DEF TypeOK
<1>5. TypeOK'
  BY <1>2, <1>3 DEF TypeOK
<1>6. StreamInv'
  <2>1. CASE t = Stream
    BY <1>2, <2>1 DEF StreamInv
  <2>2. CASE t # Stream
    <3>1. hnd'["sent"] = hnd["sent"] /\ hnd'["message"] = hnd["message"] /\ todo' = todo
      BY <1>4, <2>2, Constants DEF StreamNames
    <3> QED
      BY <1>2, <3>1 DEF StreamInv
  <2> QED
    BY <2>1, <2>2
<1>7. EventInv' /\ HoldInv' /\ SlotInv'
  BY <1>2 DEF EventInv, HoldInv, SlotInv, Locking, At
<1>8. LockInv'
  <2> SUFFICES ASSUME NEW u \in Threads, Locked(u), NEW i \in 1 .. Len(op[u].locks)
               PROVE  \/ op[u].locks[i] \in {Queue, hnd'[op[u].dst].mutex, hnd'[op[u].src].mutex}
                      \/ op[u].kind = "pop" /\ op[u].step = "lock"
                      \/ /\ op[u].kind = "push" /\ op[u].step = "unlock"
                         /\ \E j \in 1 .. Len(slots) : op[u].locks[i] = slots[j].mutex
    BY <1>2 DEF LockInv, Locked, At
  <2>1. u # t /\ op[u] # Null
    BY DEF Locked, At
  <2>2. hnd'[op[u].dst] = hnd[op[u].dst] /\ hnd'[op[u].src] = hnd[op[u].src]
    BY <1>4, <2>1
  <2> QED
    BY <2>2 DEF LockInv
<1>9. PairInv'
  <2>1. \A p \in Pairs : p.obj # a /\ p.mutex # b
    BY <1>1, FinalFacts DEF Pairs
  <2>2. ASSUME NEW k \in Names, k # n PROVE Final(k)' \in Pairs
    <3>1. /\ UserOf(k) \in Threads /\ k \in Owned(UserOf(k)) /\ Final(k) \in Pairs
          /\ UserOf(k)' = UserOf(k)
      BY FinalFacts, Constants DEF UserOf
    <3>2. CASE UserOf(k) # t
      <4>1. Final(k)' = Final(k)
        BY <1>2, <1>4, <3>1, <3>2, FinalOther
      <4> QED
        BY <3>1, <4>1
    <3>3. CASE UserOf(k) = t
      <4>1. ~Changed(t) /\ ~Changed(t)'
        BY <1>2 DEF Changed, At
      <4>2. FinalMutex(k)' = hnd'[k].mutex /\ FinalMutex(k) = hnd[k].mutex
        BY <3>1, <3>3, <4>1 DEF FinalMutex
      <4>3. Final(k)' = Final(k)
        BY <1>3, <2>2, <4>2 DEF Final
      <4> QED
        BY <3>1, <4>3
    <3> QED
      BY <3>2, <3>3
  <2>3. Final(n)' = [obj |-> a, mutex |-> b]
    <3>1. ~Changed(t)' /\ UserOf(n)' = t
      BY <1>2, Constants DEF UserOf, Changed, At
    <3>2. FinalMutex(n)' = hnd'[n].mutex
      BY <3>1 DEF FinalMutex
    <3> QED
      BY <1>3, <3>2 DEF Final
  <2>4. \A p \in Pairs' : p \in Pairs \/ p = [obj |-> a, mutex |-> b]
    <3>1. \A i \in 1 .. Len(slots) : slots[i] \in Pairs
      BY DEF Pairs
    <3> QED
      BY <2>2, <2>3, <3>1 DEF Pairs
  <2> SUFFICES ASSUME NEW g \in Pairs', NEW h \in Pairs'
               PROVE  Sound(g, h)
    BY DEF PairInv, Sound
  <2>5. CASE g \in Pairs /\ h \in Pairs
    BY <2>5 DEF PairInv
  <2>6. CASE g \in Pairs /\ h = [obj |-> a, mutex |-> b]
    <3>1. Sound(g, g)
      BY <2>6 DEF PairInv
    <3> QED
      BY <1>1, <2>1, <2>6, <3>1 DEF Sound
  <2>7. CASE g = [obj |-> a, mutex |-> b] /\ h \in Pairs
    BY <1>1, <2>1, <2>7 DEF Sound
  <2>8. CASE g = [obj |-> a, mutex |-> b] /\ h = [obj |-> a, mutex |-> b]
    BY <1>1, <2>8 DEF Sound
  <2> QED
    BY <2>4, <2>5, <2>6, <2>7, <2>8
<1>10. SoleInv'
  <2>1. CASE t = Stream
    <3>1. n = "sent" /\ n \notin EventNames /\ hnd'["message"] = Empty
      BY <1>3, <2>1, Constants DEF StreamNames
    <3>2. \A k \in EventNames : hnd'[k].mutex # b
      BY <1>1, <1>3, <3>1, Constants
    <3> QED
      BY <1>1, <1>3, <3>1, <3>2, HandleFields DEF SoleInv, StreamNames
  <2>2. CASE t # Stream
    <3>1. \A k \in StreamNames : hnd'[k] = hnd[k] /\ hnd[k].mutex # b
      BY <1>1, <1>4, <2>2, Constants
    <3>2. \A k \in EventNames : hnd'[k] = hnd[k] \/ hnd'[k].mutex = b
      BY <1>3, Constants
    <3> QED
      BY <1>2, <3>1, <3>2 DEF SoleInv, StreamNames
  <2> QED
    BY <2>1, <2>2
<1> QED
  BY <1>5, <1>6, <1>7, <1>8, <1>9, <1>10

\* The stream thread creates a buffer to send.
LEMMA StreamCreateStep ==
  ASSUME IInv, Create(Stream, "sent"), hnd["message"] = Empty, todo' = nodes
  PROVE  IInv'
<1>1. "sent" \in Owned(Stream) /\ Stream \in Threads /\ TypeOK
  BY Constants DEF StreamNames, IInv
<1>2. nodes \in Nat /\ todo' \in Nat
  BY <1>1, BufferAssumption DEF TypeOK
<1>3. /\ op[Stream] = Null /\ UNCHANGED <<slots, owner, nodes>>
      /\ (\E a, b \in Blocks : Filled("sent", a, b)) \/ Faulted(Stream)
  BY <1>1, CreateFacts
<1>4. CASE \E a, b \in Blocks : Filled("sent", a, b)
  BY <1>1, <1>2, <1>3, <1>4, FilledStep
<1>5. CASE Faulted(Stream)
  BY <1>1, <1>2, <1>3, <1>5, FaultStep
<1> QED
  BY <1>3, <1>4, <1>5

\* A handler creates a buffer.
LEMMA EventCreateStep ==
  ASSUME IInv, Create(Event, "made"), UNCHANGED todo
  PROVE  IInv'
<1>1. "made" \in Owned(Event) /\ Event \in Threads /\ TypeOK
  BY Constants DEF EventNames, IInv
<1>2. todo' \in Nat
  BY <1>1 DEF TypeOK
<1>3. /\ op[Event] = Null /\ UNCHANGED <<slots, owner, nodes>>
      /\ (\E a, b \in Blocks : Filled("made", a, b)) \/ Faulted(Event)
  BY <1>1, CreateFacts
<1>4. CASE \E a, b \in Blocks : Filled("made", a, b)
  BY <1>1, <1>2, <1>3, <1>4, FilledStep
<1>5. CASE Faulted(Event)
  BY <1>1, <1>2, <1>3, <1>5, FaultStep
<1> QED
  BY <1>3, <1>4, <1>5

\* A handle is destroyed.
LEMMA DestroyStep ==
  ASSUME IInv, NEW t \in Threads, NEW m \in Owned(t), Destroy(t, m)
  PROVE  IInv'
<1> USE DEF IInv
<1>1. /\ op[t] = Null /\ hnd' = [hnd EXCEPT ![m] = Empty]
      /\ UNCHANGED <<slots, owner, op, nodes, todo>>
  BY DEF Destroy
<1>2. /\ m \in Names /\ hnd'[m] = Empty /\ hnd' \in [Names -> Handle]
      /\ \A n \in Names : n # m => hnd'[n] = hnd[n]
  BY <1>1, HandleFields, Constants DEF TypeOK
<1>3. ASSUME NEW u \in Threads, u # t
      PROVE  /\ \A n \in Owned(u) : hnd'[n] = hnd[n]
             /\ op[u] # Null => op[u].dst \in Owned(u) /\ op[u].src \in Owned(u)
  BY <1>2, <1>3, Constants DEF TypeOK
<1>4. TypeOK'
  BY <1>1, <1>2 DEF TypeOK
<1>5. StreamInv'
  <2>1. CASE t = Stream
    BY <1>1, <2>1 DEF StreamInv
  <2>2. CASE t # Stream
    <3>1. hnd'["sent"] = hnd["sent"] /\ hnd'["message"] = hnd["message"]
      BY <1>3, <2>2, Constants DEF StreamNames
    <3> QED
      BY <1>1, <3>1 DEF StreamInv
  <2> QED
    BY <2>1, <2>2
<1>6. EventInv' /\ HoldInv' /\ SlotInv'
  BY <1>1 DEF EventInv, HoldInv, SlotInv, Locking, At
<1>7. LockInv'
  <2> SUFFICES ASSUME NEW u \in Threads, Locked(u), NEW i \in 1 .. Len(op[u].locks)
               PROVE  \/ op[u].locks[i] \in {Queue, hnd'[op[u].dst].mutex, hnd'[op[u].src].mutex}
                      \/ op[u].kind = "pop" /\ op[u].step = "lock"
                      \/ /\ op[u].kind = "push" /\ op[u].step = "unlock"
                         /\ \E j \in 1 .. Len(slots) : op[u].locks[i] = slots[j].mutex
    BY <1>1 DEF LockInv, Locked, At
  <2>1. u # t /\ op[u] # Null
    BY <1>1 DEF Locked, At
  <2> QED
    BY <1>3, <2>1 DEF LockInv
<1>8. PairInv'
  <2>1. ASSUME NEW n \in Names PROVE hnd'[n].obj = Null \/ Final(n)' \in Pairs
    <3>1. /\ UserOf(n) \in Threads /\ n \in Owned(UserOf(n)) /\ Final(n) \in Pairs
          /\ UserOf(n)' = UserOf(n)
      BY FinalFacts, Constants DEF UserOf
    <3>2. CASE UserOf(n) # t
      <4>1. Final(n)' = Final(n)
        BY <1>1, <1>3, <3>1, <3>2, FinalOther
      <4> QED
        BY <3>1, <4>1
    <3>3. CASE UserOf(n) = t /\ n # m
      <4>1. ~Changed(t) /\ ~Changed(t)'
        BY <1>1 DEF Changed, At
      <4>2. FinalMutex(n)' = hnd'[n].mutex /\ FinalMutex(n) = hnd[n].mutex
        BY <3>1, <3>3, <4>1 DEF FinalMutex
      <4>3. Final(n)' = Final(n)
        BY <1>2, <3>3, <4>2 DEF Final
      <4> QED
        BY <3>1, <4>3
    <3>4. CASE n = m
      BY <1>2, <3>4, HandleFields
    <3> QED
      BY <3>2, <3>3, <3>4
  <2>2. \A i \in 1 .. Len(slots') : slots'[i] \in Pairs
    BY <1>1 DEF Pairs
  <2> QED
    BY <2>1, <2>2, PairsKept
<1>9. SoleInv'
  <2>1. \A n \in StreamNames \cup EventNames : hnd'[n] = hnd[n] \/ hnd'[n] = Empty
    BY <1>2, Constants
  <2>2. Empty.mutex = Null
    BY HandleFields
  <2> QED
    BY <1>1, <2>1, <2>2 DEF SoleInv, StreamNames
<1> QED
  BY <1>4, <1>5, <1>6, <1>7, <1>8, <1>9

\* The sender locks the mutex of the message.
LEMMA LockMessageStep ==
  ASSUME IInv, LockMessage
  PROVE  IInv'
<1> USE DEF IInv
<1>1. /\ SameHandles(Stream) /\ OthersKeep(Stream)
      /\ op[Stream].kind = "push" /\ op'[Stream].kind = "push"
      /\ op[Stream].step = "lock" /\ op'[Stream].step = "lock"
      /\ op[Stream].taken = 1 /\ op'[Stream].taken = 1
      /\ op'[Stream].locks[1] = op[Stream].locks[1]
      /\ Len(op'[Stream].locks) \in {1, 2} /\ op'[Stream].locks \in Seq(Mutexes)
      /\ Len(op'[Stream].locks) = 2 =>
           op'[Stream].locks[2] = hnd["message"].mutex /\ op'[Stream].locks[2] \in Blocks
      /\ op' \in [Threads -> Operations \cup {Null}]
      /\ UNCHANGED <<hnd, slots, owner, nodes, todo>>
  BY LockMessageFacts
<1>2. /\ op[Stream] # Null /\ op'[Stream] # Null /\ op'[Event] = op[Event]
      /\ op'[Stream].dst = "message" /\ op'[Stream].src = "message"
      /\ op[Stream].locks[1] = Queue
  BY <1>1, Constants DEF SameHandles, OthersKeep, StreamInv
<1>3. TypeOK'
  <2>1. ASSUME NEW u \in Threads, op'[u] # Null
        PROVE  {op'[u].dst, op'[u].src} \subseteq Owned(u) /\ op'[u].taken <= Len(op'[u].locks)
    <3>1. CASE u = Stream
      BY <1>1, <1>2, <3>1, Constants DEF StreamNames
    <3>2. CASE u # Stream
      BY <1>1, <2>1, <3>2 DEF TypeOK, OthersKeep
    <3> QED
      BY <3>1, <3>2
  <2> QED
    BY <1>1, <2>1 DEF TypeOK
<1>4. StreamInv'
  BY <1>1, <1>2 DEF StreamInv
<1>5. EventInv'
  BY <1>1, <1>2 DEF EventInv
<1>6. LockInv'
  <2>1. \A i \in 1 .. Len(op'[Stream].locks) :
          op'[Stream].locks[i] \in {Queue, hnd[op'[Stream].dst].mutex}
    BY <1>1, <1>2
  <2>2. Locked(Event)' <=> Locked(Event)
    BY <1>2 DEF Locked, At
  <2> QED
    BY <1>1, <1>2, <2>1, <2>2, Constants DEF LockInv
<1>7. HoldInv'
  <2>1. owner[Queue] = Stream
    BY <1>1, <1>2, Constants DEF HoldInv, Locking, At
  <2>2. ASSUME NEW u \in Threads, Locking(u)', NEW i \in 1 .. op'[u].taken
        PROVE  owner'[op'[u].locks[i]] = u
    <3>1. CASE u = Stream
      BY <1>1, <1>2, <2>1, <3>1
    <3>2. CASE u # Stream
      BY <1>1, <2>2, <3>2 DEF HoldInv, Locking, At, OthersKeep
    <3> QED
      BY <3>1, <3>2
  <2>3. ASSUME NEW u \in Threads, NEW m \in Mutexes, owner'[m] = u
        PROVE  At(u, "unlock")' \/ (Locking(u)' /\ \E i \in 1 .. op'[u].taken : op'[u].locks[i] = m)
    <3>1. CASE u = Stream
      <4>1. PICK i \in 1 .. op[Stream].taken : op[Stream].locks[i] = m
        BY <1>1, <2>3, <3>1 DEF HoldInv, At
      <4>2. op'[Stream].locks[1] = m /\ 1 \in 1 .. op'[Stream].taken
        BY <1>1, <4>1
      <4> QED
        BY <1>1, <1>2, <3>1, <4>2 DEF Locking, At
    <3>2. CASE u # Stream
      BY <1>1, <2>3, <3>2 DEF HoldInv, Locking, At, OthersKeep
    <3> QED
      BY <3>1, <3>2
  <2> QED
    BY <1>1, <2>2, <2>3 DEF HoldInv, At
<1>8. PairInv'
  BY <1>1, FinalsKept DEF Changed, At, OthersKeep
<1>9. SlotInv' /\ SoleInv'
  BY <1>1 DEF SlotInv, SoleInv
<1> QED
  BY <1>3, <1>4, <1>5, <1>6, <1>7, <1>8, <1>9

\* The queue is full.
LEMMA RefuseStep ==
  ASSUME IInv, Refuse
  PROVE  IInv'
<1> USE DEF IInv
<1>1. /\ SameHandles(Stream) /\ OthersKeep(Stream)
      /\ op'[Stream].kind = op[Stream].kind /\ op'[Stream].locks = op[Stream].locks
      /\ op'[Stream].step = "unlock" /\ op'[Stream].taken = op[Stream].taken
      /\ op' \in [Threads -> Operations \cup {Null}]
  BY ThenFacts, Constants DEF Refuse, HasAll
<1>2. /\ op[Stream] # Null /\ op'[Stream] # Null /\ op'[Event] = op[Event]
      /\ op[Stream].step = "lock" /\ op[Stream].kind = "push"
      /\ op[Stream].taken = Len(op[Stream].locks)
      /\ UNCHANGED <<hnd, slots, owner, nodes>> /\ todo' = 0
  BY <1>1, Constants DEF SameHandles, OthersKeep, Refuse, HasAll
<1>3. /\ op[Stream].dst = "message" /\ op[Stream].src = "message"
      /\ Len(op[Stream].locks) \in {1, 2} /\ op[Stream].locks[1] = Queue
  BY <1>2 DEF StreamInv
<1>4. owner[Queue] = Stream
  BY <1>2, <1>3, Constants DEF HoldInv, Locking, At
<1>5. TypeOK'
  <2>1. ASSUME NEW u \in Threads, op'[u] # Null
        PROVE  {op'[u].dst, op'[u].src} \subseteq Owned(u) /\ op'[u].taken <= Len(op'[u].locks)
    <3>1. CASE u = Stream
      BY <1>1, <1>2, <3>1 DEF TypeOK, SameHandles
    <3>2. CASE u # Stream
      BY <1>1, <2>1, <3>2 DEF TypeOK, OthersKeep
    <3> QED
      BY <3>1, <3>2
  <2> QED
    BY <1>1, <1>2, <2>1 DEF TypeOK
<1>6. StreamInv'
  BY <1>1, <1>2, <1>3 DEF StreamInv, SameHandles
<1>7. EventInv'
  BY <1>2 DEF EventInv
<1>8. LockInv'
  <2>1. \A i \in 1 .. Len(op'[Stream].locks) :
          op'[Stream].locks[i] \in {Queue, hnd[op'[Stream].dst].mutex, hnd[op'[Stream].src].mutex}
    BY <1>1, <1>2, Constants DEF LockInv, Locked, At, SameHandles
  <2>2. Locked(Event)' <=> Locked(Event)
    BY <1>2 DEF Locked, At
  <2> QED
    BY <1>2, <2>1, <2>2, Constants DEF LockInv
<1>9. HoldInv'
  <2>1. ASSUME NEW u \in Threads, Locking(u)', NEW i \in 1 .. op'[u].taken
        PROVE  owner'[op'[u].locks[i]] = u
    <3>1. u # Stream
      BY <1>1, <2>1 DEF Locking, At
    <3> QED
      BY <1>1, <1>2, <2>1, <3>1 DEF HoldInv, Locking, At, OthersKeep
  <2>2. ASSUME NEW u \in Threads, NEW m \in Mutexes, owner'[m] = u
        PROVE  At(u, "unlock")' \/ (Locking(u)' /\ \E i \in 1 .. op'[u].taken : op'[u].locks[i] = m)
    <3>1. CASE u = Stream
      BY <1>1, <1>2, <3>1 DEF At
    <3>2. CASE u # Stream
      BY <1>1, <1>2, <2>2, <3>2 DEF HoldInv, Locking, At, OthersKeep
    <3> QED
      BY <3>1, <3>2
  <2> QED
    BY <1>2, <1>4, <2>1, <2>2 DEF HoldInv
<1>10. PairInv'
  BY <1>1, <1>2, FinalsKept DEF Changed, At, OthersKeep
<1>11. SlotInv' /\ SoleInv'
  BY <1>1, <1>2 DEF SlotInv, SoleInv
<1> QED
  BY <1>5, <1>6, <1>7, <1>8, <1>9, <1>10, <1>11

\* The message moves to a slot of the queue.
LEMMA PushStep ==
  ASSUME IInv, Push
  PROVE  IInv'
<1> USE DEF IInv
<1>1. /\ SameHandles(Stream) /\ OthersKeep(Stream)
      /\ op'[Stream].kind = op[Stream].kind /\ op'[Stream].locks = op[Stream].locks
      /\ op'[Stream].step = "unlock" /\ op'[Stream].taken = op[Stream].taken
      /\ op' \in [Threads -> Operations \cup {Null}]
  BY ThenFacts, Constants DEF Push, HasAll
<1>2. /\ op[Stream] # Null /\ op'[Stream] # Null /\ op'[Event] = op[Event]
      /\ op[Stream].step = "lock" /\ op[Stream].kind = "push"
      /\ op[Stream].taken = 2 /\ Len(op[Stream].locks) = 2
      /\ UNCHANGED <<owner, nodes>> /\ todo' = todo - 1
      /\ slots' = Append(slots, hnd["message"])
      /\ hnd' = [hnd EXCEPT !["message"] = Empty]
      /\ Len(slots) < Capacity
  BY <1>1, Constants DEF SameHandles, OthersKeep, Push, HasAll, Room
<1>3. /\ op[Stream].dst = "message" /\ op[Stream].src = "message"
      /\ op[Stream].locks[1] = Queue
      /\ op[Stream].locks[2] = hnd["message"].mutex /\ op[Stream].locks[2] \in Blocks
      /\ todo > 0 /\ hnd["message"] # Empty
  BY <1>2 DEF StreamInv
<1>4. owner[Queue] = Stream
  BY <1>2, <1>3, Constants DEF HoldInv, Locking, At
<1>5. /\ "message" \in Names /\ "sent" \in Names
      /\ hnd' \in [Names -> Handle] /\ hnd'["message"] = Empty
      /\ \A n \in Names : n # "message" => hnd'[n] = hnd[n]
      /\ \A n \in EventNames : hnd'[n] = hnd[n]
  BY <1>2, HandleFields, Constants DEF TypeOK, StreamNames
<1>6. /\ slots' \in Seq(Handle) /\ Len(slots') = Len(slots) + 1 /\ Len(slots) \in Nat
      /\ slots'[Len(slots) + 1] = hnd["message"]
      /\ \A j \in 1 .. Len(slots) : slots'[j] = slots[j]
      /\ slots' # <<>>
  BY <1>2, <1>5 DEF TypeOK
<1>7. TypeOK'
  <2>1. ASSUME NEW u \in Threads, op'[u] # Null
        PROVE  {op'[u].dst, op'[u].src} \subseteq Owned(u) /\ op'[u].taken <= Len(op'[u].locks)
    <3>1. CASE u = Stream
      BY <1>1, <1>2, <3>1 DEF TypeOK, SameHandles
    <3>2. CASE u # Stream
      BY <1>1, <2>1, <3>2 DEF TypeOK, OthersKeep
    <3> QED
      BY <3>1, <3>2
  <2>2. Len(slots') <= Capacity /\ todo' \in Nat
    BY <1>2, <1>3, <1>6, BufferAssumption DEF TypeOK
  <2> QED
    BY <1>1, <1>2, <1>5, <1>6, <2>1, <2>2 DEF TypeOK
<1>8. StreamInv'
  BY <1>1, <1>2, <1>3 DEF StreamInv, SameHandles
<1>9. EventInv'
  <2>1. slots # <<>> => slots'[1] = slots[1]
    <3>1. slots # <<>> => 1 \in 1 .. Len(slots)
      BY DEF TypeOK
    <3> QED
      BY <1>6, <3>1
  <2> QED
    BY <1>2, <1>6, <2>1 DEF EventInv
<1>10. LockInv'
  <2>1. Len(slots) + 1 \in 1 .. Len(slots')
    BY <1>6
  <2>2. \A i \in 1 .. Len(op'[Stream].locks) :
          op'[Stream].locks[i] \in {Queue, slots'[Len(slots) + 1].mutex}
    BY <1>1, <1>2, <1>3, <1>6
  <2>3. Locked(Event)' <=> Locked(Event)
    BY <1>2 DEF Locked, At
  <2>4. Locked(Event) => hnd'[op[Event].dst] = hnd[op[Event].dst]
                         /\ hnd'[op[Event].src] = hnd[op[Event].src]
    BY <1>5, Constants DEF TypeOK, Locked, At
  <2>5. op[Event] # Null => op[Event].kind # "push"
    BY DEF EventInv
  <2>6. Locked(Event) => op[Event] # Null
    BY DEF Locked, At
  <2> QED
    BY <1>1, <1>2, <2>1, <2>2, <2>3, <2>4, <2>5, <2>6, Constants DEF LockInv
<1>11. HoldInv'
  <2>1. ASSUME NEW u \in Threads, Locking(u)', NEW i \in 1 .. op'[u].taken
        PROVE  owner'[op'[u].locks[i]] = u
    <3>1. u # Stream
      BY <1>1, <2>1 DEF Locking, At
    <3> QED
      BY <1>1, <1>2, <2>1, <3>1 DEF HoldInv, Locking, At, OthersKeep
  <2>2. ASSUME NEW u \in Threads, NEW m \in Mutexes, owner'[m] = u
        PROVE  At(u, "unlock")' \/ (Locking(u)' /\ \E i \in 1 .. op'[u].taken : op'[u].locks[i] = m)
    <3>1. CASE u = Stream
      BY <1>1, <1>2, <3>1 DEF At
    <3>2. CASE u # Stream
      BY <1>1, <1>2, <2>2, <3>2 DEF HoldInv, Locking, At, OthersKeep
    <3> QED
      BY <3>1, <3>2
  <2> QED
    BY <1>2, <1>4, <2>1, <2>2 DEF HoldInv
<1>12. PairInv'
  <2>1. ~Changed(Stream)
    BY <1>2 DEF Changed, At
  <2>2. ASSUME NEW n \in Names PROVE hnd'[n].obj = Null \/ Final(n)' \in Pairs
    <3>1. CASE n = "message"
      BY <1>5, <3>1, HandleFields
    <3>2. CASE n \in EventNames
      <4>1. Final(n)' = Final(n)
        BY <1>2, <1>5, <3>2, FinalOther, Constants
      <4> QED
        BY <4>1, FinalFacts
    <3>3. CASE n \notin EventNames /\ n # "message"
      <4>1. UserOf(n) = Stream
        BY <3>3, Constants DEF UserOf
      <4>2. FinalMutex(n)' = hnd'[n].mutex /\ FinalMutex(n) = hnd[n].mutex
        BY <1>1, <1>2, <2>1, <4>1 DEF FinalMutex, UserOf
      <4>3. Final(n)' = Final(n)
        BY <1>5, <3>3, <4>2 DEF Final
      <4> QED
        BY <4>3, FinalFacts
    <3> QED
      BY <3>1, <3>2, <3>3
  <2>3. hnd["message"] \in Pairs
    <3>1. UserOf("message") = Stream
      BY DEF UserOf, StreamNames
    <3>2. Final("message") = hnd["message"] /\ Final("message") \in Pairs
      BY <1>5, <2>1, <3>1, FinalFacts
    <3> QED
      BY <3>2
  <2>4. \A i \in 1 .. Len(slots') : slots'[i] \in Pairs
    <3>1. \A i \in 1 .. Len(slots') : i \in 1 .. Len(slots) \/ i = Len(slots) + 1
      BY <1>6
    <3>2. \A i \in 1 .. Len(slots) : slots[i] \in Pairs
      BY DEF Pairs
    <3> QED
      BY <1>6, <2>3, <3>1, <3>2
  <2> QED
    BY <2>2, <2>4, PairsKept
<1>13. SlotInv'
  <2>1. \A i \in 1 .. Len(slots') : i \in 1 .. Len(slots) \/ i = Len(slots) + 1
    BY <1>6
  <2> QED
    BY <1>3, <1>6, <2>1, Constants DEF SlotInv
<1>14. SoleInv'
  <2>1. nodes = 1 => hnd["sent"] = Empty
    BY <1>2, <1>3 DEF SoleInv
  <2>2. nodes = 1 => hnd'["sent"] = Empty
    BY <1>5, <2>1
  <2> QED
    BY <1>2, <1>5, <2>2, HandleFields DEF SoleInv, StreamNames
<1> QED
  BY <1>7, <1>8, <1>9, <1>10, <1>11, <1>12, <1>13, <1>14

\* The oldest event leaves its slot.
LEMMA PopStep ==
  ASSUME IInv, Pop
  PROVE  IInv'
<1> USE DEF IInv
<1>1. /\ SameHandles(Event) /\ OthersKeep(Event)
      /\ op'[Event].kind = op[Event].kind /\ op'[Event].locks = op[Event].locks
      /\ op'[Event].step = "unlock" /\ op'[Event].taken = op[Event].taken
      /\ op' \in [Threads -> Operations \cup {Null}]
  BY ThenFacts, Constants DEF Pop, HasAll
<1>2. /\ op[Event] # Null /\ op'[Event] # Null /\ op'[Stream] = op[Stream]
      /\ op[Event].step = "lock" /\ op[Event].kind = "pop"
      /\ op[Event].taken = Len(op[Event].locks)
      /\ UNCHANGED <<owner, nodes, todo>>
      /\ slots' = Tail(slots)
      /\ hnd' = [hnd EXCEPT !["received"] = Head(slots)]
  BY <1>1, Constants DEF SameHandles, OthersKeep, Pop, HasAll
<1>3. /\ op[Event].dst = "received" /\ op[Event].src = "received"
      /\ Len(op[Event].locks) = 2
      /\ op[Event].locks[1] = Queue /\ op[Event].locks[2] = slots[1].mutex
      /\ slots # <<>>
  BY <1>2 DEF EventInv
<1>4. owner[Queue] = Event
  BY <1>2, <1>3, Constants DEF HoldInv, Locking, At
<1>5. /\ slots[1] \in Handle /\ 1 \in 1 .. Len(slots) /\ Head(slots) = slots[1]
      /\ slots' \in Seq(Handle) /\ Len(slots') = Len(slots) - 1 /\ Len(slots) \in Nat
      /\ \A j \in 1 .. Len(slots') : j + 1 \in 1 .. Len(slots) /\ slots'[j] = slots[j + 1]
  BY <1>2, <1>3 DEF TypeOK
<1>6. /\ "received" \in Names /\ "received" \in EventNames
      /\ hnd' \in [Names -> Handle] /\ hnd'["received"] = slots[1]
      /\ \A n \in Names : n # "received" => hnd'[n] = hnd[n]
      /\ \A n \in StreamNames : hnd'[n] = hnd[n]
  BY <1>2, <1>5, Constants DEF TypeOK, EventNames
<1>7. TypeOK'
  <2>1. ASSUME NEW u \in Threads, op'[u] # Null
        PROVE  {op'[u].dst, op'[u].src} \subseteq Owned(u) /\ op'[u].taken <= Len(op'[u].locks)
    <3>1. CASE u = Event
      BY <1>1, <1>2, <3>1 DEF TypeOK, SameHandles
    <3>2. CASE u # Event
      BY <1>1, <2>1, <3>2 DEF TypeOK, OthersKeep
    <3> QED
      BY <3>1, <3>2
  <2>2. Len(slots') <= Capacity
    BY <1>5, BufferAssumption DEF TypeOK
  <2> QED
    BY <1>1, <1>2, <1>5, <1>6, <2>1, <2>2 DEF TypeOK
<1>8. StreamInv'
  <2>1. hnd'["sent"] = hnd["sent"] /\ hnd'["message"] = hnd["message"]
    BY <1>6 DEF StreamNames
  <2> QED
    BY <1>2, <2>1 DEF StreamInv
<1>9. EventInv'
  BY <1>1, <1>2 DEF EventInv, SameHandles
<1>10. ~(At(Stream, "unlock") /\ op[Stream].kind = "push")
  BY <1>4, Constants DEF HoldInv
<1>11. LockInv'
  <2>1. \A i \in 1 .. Len(op'[Event].locks) :
          op'[Event].locks[i] \in {Queue, hnd'[op'[Event].dst].mutex}
    BY <1>1, <1>2, <1>3, <1>6 DEF SameHandles
  <2>2. Locked(Stream)' <=> Locked(Stream)
    BY <1>2 DEF Locked, At
  <2>3. Locked(Stream) => hnd'[op[Stream].dst] = hnd[op[Stream].dst]
                          /\ hnd'[op[Stream].src] = hnd[op[Stream].src]
    BY <1>6, Constants DEF TypeOK, Locked, At
  <2>4. Locked(Stream) => ~(op[Stream].kind = "push" /\ op[Stream].step = "unlock")
    BY <1>10 DEF Locked, At
  <2> QED
    BY <1>2, <2>1, <2>2, <2>3, <2>4, Constants DEF LockInv
<1>12. HoldInv'
  <2>1. ASSUME NEW u \in Threads, Locking(u)', NEW i \in 1 .. op'[u].taken
        PROVE  owner'[op'[u].locks[i]] = u
    <3>1. u # Event
      BY <1>1, <2>1 DEF Locking, At
    <3> QED
      BY <1>1, <1>2, <2>1, <3>1 DEF HoldInv, Locking, At, OthersKeep
  <2>2. ASSUME NEW u \in Threads, NEW m \in Mutexes, owner'[m] = u
        PROVE  At(u, "unlock")' \/ (Locking(u)' /\ \E i \in 1 .. op'[u].taken : op'[u].locks[i] = m)
    <3>1. CASE u = Event
      BY <1>1, <1>2, <3>1 DEF At
    <3>2. CASE u # Event
      BY <1>1, <1>2, <2>2, <3>2 DEF HoldInv, Locking, At, OthersKeep
    <3> QED
      BY <3>1, <3>2
  <2> QED
    BY <1>2, <1>10, <2>1, <2>2 DEF HoldInv, At
<1>13. PairInv'
  <2>1. ~Changed(Event)
    BY <1>2 DEF Changed, At
  <2>2. \A i \in 1 .. Len(slots) : slots[i] \in Pairs
    BY DEF Pairs
  <2>3. ASSUME NEW n \in Names PROVE Final(n)' \in Pairs
    <3>1. CASE n \in StreamNames
      <4>1. Final(n)' = Final(n)
        BY <1>2, <1>6, <3>1, FinalOther, Constants
      <4> QED
        BY <4>1, FinalFacts
    <3>2. CASE n \notin StreamNames
      <4>1. UserOf(n) = Event
        BY <3>2, Constants DEF UserOf
      <4>2. FinalMutex(n)' = hnd'[n].mutex /\ FinalMutex(n) = hnd[n].mutex
        BY <1>1, <1>2, <2>1, <4>1 DEF FinalMutex, UserOf
      <4>3. CASE n = "received"
        <5>1. slots[1] = [obj |-> slots[1].obj, mutex |-> slots[1].mutex]
          BY <1>5 DEF Handle
        <5>2. Final(n)' = slots[1]
          BY <1>6, <4>2, <4>3, <5>1 DEF Final
        <5> QED
          BY <1>5, <2>2, <5>2
      <4>4. CASE n # "received"
        <5>1. Final(n)' = Final(n)
          BY <1>6, <4>2, <4>4 DEF Final
        <5> QED
          BY <5>1, FinalFacts
      <4> QED
        BY <4>3, <4>4
    <3> QED
      BY <3>1, <3>2
  <2>4. \A i \in 1 .. Len(slots') : slots'[i] \in Pairs
    BY <1>5, <2>2
  <2> QED
    BY <2>3, <2>4, PairsKept
<1>14. SlotInv'
  BY <1>5 DEF SlotInv
<1>15. SoleInv'
  <2> SUFFICES ASSUME nodes = 1 PROVE SoleInv'
    BY <1>2 DEF SoleInv
  <2>1. ASSUME NEW k \in EventNames
        PROVE  hnd'[k] = hnd[k] \/ \E j \in 1 .. Len(slots) : hnd'[k] = slots[j]
    BY <1>5, <1>6, Constants
  <2> QED
    BY <1>2, <1>5, <1>6, <2>1 DEF SoleInv, StreamNames
<1> QED
  BY <1>7, <1>8, <1>9, <1>11, <1>12, <1>13, <1>14, <1>15

(***************************************************************************)
(* What the invariant says of the properties.                              *)
(***************************************************************************)

\* A handle that no operation changes has the pointers it will have.
LEMMA SteadyFinal ==
  ASSUME TypeOK, NEW n \in Names, Steady(n)
  PROVE  hnd[n] \in Pairs
<1>1. /\ UserOf(n) \in Threads /\ Final(n) \in Pairs
      /\ ~Changed(UserOf(n)) => Final(n) = hnd[n]
  BY FinalFacts
<1>2. CASE Changed(UserOf(n))
  <2>1. n \notin {op[UserOf(n)].dst, op[UserOf(n)].src}
    BY <1>1, <1>2 DEF Steady, Changed, At
  <2>2. FinalMutex(n) = hnd[n].mutex
    BY <2>1 DEF FinalMutex
  <2>3. hnd[n] = [obj |-> hnd[n].obj, mutex |-> hnd[n].mutex]
    BY DEF TypeOK, Handle
  <2> QED
    BY <1>1, <2>2, <2>3 DEF Final
<1> QED
  BY <1>1, <1>2

\* The pointers that the handles will have tell objects and mutexes apart.
LEMMA InvOneMutex ==
  ASSUME IInv
  PROVE  OneMutexPerObject
<1>1. \A h \in SteadyHandles : h \in Pairs
  <2>1. DOMAIN slots = 1 .. Len(slots)
    BY DEF IInv, TypeOK
  <2> QED
    BY <2>1, SteadyFinal DEF SteadyHandles, Pairs, IInv
<1> QED
  BY <1>1 DEF OneMutexPerObject, IInv, PairInv, Sound

\* A handle keeps alive what a thread locks.
LEMMA InvMutexAlive ==
  ASSUME IInv
  PROVE  MutexAlive
<1> USE DEF IInv
<1> SUFFICES ASSUME NEW t \in Threads, op[t] # Null, op[t].step \in {"lock", "unlock"},
                    NEW i \in DOMAIN op[t].locks
             PROVE  op[t].locks[i] \notin FreeMutexes
  BY DEF MutexAlive
<1>1. /\ op[t] \in Operations /\ op[t].dst \in Names /\ op[t].src \in Names
      /\ i \in 1 .. Len(op[t].locks) /\ Locked(t) /\ DOMAIN slots = 1 .. Len(slots)
  BY OperationFields DEF TypeOK, Locked, At
<1>2. \A n \in Names : hnd[n].mutex \notin FreeMutexes
  BY DEF FreeMutexes, Handles
<1>3. \A j \in 1 .. Len(slots) : slots[j].mutex \notin FreeMutexes
  BY <1>1 DEF FreeMutexes, Handles
<1>4. Queue \notin FreeMutexes
  BY Constants DEF FreeMutexes
<1>5. CASE op[t].kind = "pop" /\ op[t].step = "lock"
  <2>1. t = Event
    BY <1>1, <1>5, Constants DEF StreamInv
  <2>2. op[t].locks[i] \in {Queue, slots[1].mutex} /\ slots # <<>>
    BY <1>1, <1>5, <2>1 DEF EventInv
  <2>3. 1 \in 1 .. Len(slots)
    BY <2>2 DEF TypeOK
  <2> QED
    BY <1>3, <1>4, <2>2, <2>3
<1>6. CASE ~(op[t].kind = "pop" /\ op[t].step = "lock")
  <2>1. \/ op[t].locks[i] \in {Queue, hnd[op[t].dst].mutex, hnd[op[t].src].mutex}
        \/ \E j \in 1 .. Len(slots) : op[t].locks[i] = slots[j].mutex
    BY <1>1, <1>6 DEF LockInv
  <2> QED
    BY <1>1, <1>2, <1>3, <1>4, <2>1
<1> QED
  BY <1>5, <1>6

\* What an operation waits for, it has not locked before.
LEMMA InvNoSelfWait ==
  ASSUME IInv, NEW t \in Threads, Waits(t), owner[NextLock(t)] = t
  PROVE  FALSE
<1> USE DEF IInv
<1>1. /\ op[t] \in Operations /\ op[t] # Null /\ op[t].step = "lock"
      /\ op[t].taken \in Nat /\ op[t].taken < Len(op[t].locks)
      /\ op[t].locks \in Seq(Mutexes) /\ Len(op[t].locks) \in Nat
  BY OperationFields DEF Waits, TypeOK
<1>2. NextLock(t) \in Mutexes
  BY <1>1 DEF NextLock
<1>3. PICK i \in 1 .. op[t].taken : op[t].locks[i] = op[t].locks[op[t].taken + 1]
  BY <1>1, <1>2 DEF HoldInv, At, NextLock
<1> DEFINE l == op[t].locks
           k == op[t].taken
<1>4. /\ k \in Nat /\ Len(l) \in Nat /\ k < Len(l) /\ i \in 1 .. k /\ l[i] = l[k + 1]
  BY <1>1, <1>3
<1>5. \/ Distinct(l)
      \/ Len(l) <= 1
      \/ Len(l) = 2 /\ l[1] = Queue /\ l[2] \in Blocks
  <2>1. CASE t = Event
    <3>1. CASE op[t].kind = "pop"
      BY <1>1, <2>1, <3>1 DEF EventInv
    <3>2. CASE op[t].kind # "pop"
      BY <1>1, <2>1, <3>2 DEF EventInv
    <3> QED
      BY <3>1, <3>2
  <2>2. CASE t = Stream
    <3>1. CASE op[t].kind = "push"
      <4>1. /\ Len(l) \in {1, 2} /\ l[1] = Queue
            /\ Len(l) = 2 => l[2] \in Blocks
        BY <1>1, <2>2, <3>1 DEF StreamInv
      <4>2. CASE Len(l) = 1
        BY <4>2
      <4>3. CASE Len(l) = 2
        BY <4>1, <4>3
      <4> QED
        BY <4>1, <4>2, <4>3
    <3>2. CASE op[t].kind # "push"
      BY <1>1, <2>2, <3>2 DEF StreamInv
    <3> QED
      BY <3>1, <3>2
  <2> QED
    BY <2>1, <2>2, Constants
<1> HIDE DEF l, k
<1>6. CASE Distinct(l)
  <2>1. i \in 1 .. Len(l) /\ k + 1 \in 1 .. Len(l) /\ i # k + 1
    BY <1>4
  <2> QED
    BY <1>4, <1>6, <2>1 DEF Distinct
<1>7. CASE Len(l) <= 1
  BY <1>4, <1>7
<1>8. CASE Len(l) = 2 /\ l[1] = Queue /\ l[2] \in Blocks
  <2>1. i = 1 /\ k = 1
    BY <1>4, <1>8
  <2> QED
    BY <1>4, <1>8, <2>1, Constants
<1> QED
  BY <1>5, <1>6, <1>7, <1>8

\* The stream thread waits for a mutex of the event thread only with the queue
\* locked, for the mutex of its message; the event thread then waits for the
\* queue with a mutex of one of its own handles, which with one receiver is
\* another one.
LEMMA InvNoCircularWait ==
  ASSUME IInv
  PROVE  NoCircularWait
<1> USE DEF IInv
<1> SUFFICES ASSUME \A t \in Threads : Waits(t) /\ owner[NextLock(t)] \in Threads \ {t}
             PROVE  FALSE
  BY InvNoSelfWait DEF NoCircularWait
<1>1. /\ Waits(Stream) /\ owner[NextLock(Stream)] = Event
      /\ Waits(Event) /\ owner[NextLock(Event)] = Stream
  BY Constants
<1>2. ASSUME NEW t \in Threads, Waits(t)
      PROVE  /\ op[t] \in Operations /\ op[t] # Null /\ op[t].step = "lock"
             /\ op[t].taken \in Nat /\ op[t].taken < Len(op[t].locks)
             /\ op[t].locks \in Seq(Mutexes) /\ NextLock(t) \in Mutexes
             /\ Len(op[t].locks) \in Nat
  <2>1. /\ op[t] \in Operations /\ op[t] # Null /\ op[t].step = "lock"
        /\ op[t].taken \in Nat /\ op[t].taken < Len(op[t].locks)
        /\ op[t].locks \in Seq(Mutexes)
    BY <1>2, OperationFields DEF Waits, TypeOK
  <2> QED
    BY <2>1 DEF NextLock
<1>3. PICK i \in 1 .. op[Stream].taken : op[Stream].locks[i] = NextLock(Event)
  BY <1>1, <1>2, Constants DEF HoldInv, At
<1>4. PICK j \in 1 .. op[Event].taken : op[Event].locks[j] = NextLock(Stream)
  BY <1>1, <1>2, Constants DEF HoldInv, At
<1>5. op[Stream].kind = "push"
  <2>1. op[Stream].taken >= 1 /\ Len(op[Stream].locks) > 1
    BY <1>1, <1>2, <1>3, Constants
  <2> QED
    BY <1>1, <1>2, <2>1, Constants DEF StreamInv
<1>6. /\ op[Stream].taken = 1 /\ Len(op[Stream].locks) = 2
      /\ NextLock(Event) = Queue
      /\ NextLock(Stream) = hnd["message"].mutex /\ NextLock(Stream) \in Blocks
  <2>1. /\ Len(op[Stream].locks) \in {1, 2} /\ op[Stream].locks[1] = Queue
        /\ Len(op[Stream].locks) = 2 =>
             op[Stream].locks[2] = hnd["message"].mutex /\ op[Stream].locks[2] \in Blocks
    BY <1>1, <1>2, <1>5, Constants DEF StreamInv
  <2>2. /\ op[Stream].taken \in Nat /\ Len(op[Stream].locks) \in Nat
        /\ op[Stream].taken < Len(op[Stream].locks) /\ i \in 1 .. op[Stream].taken
    BY <1>1, <1>2, Constants
  <2>3. op[Stream].taken = 1 /\ Len(op[Stream].locks) = 2 /\ i = 1
    <3>1. Len(op[Stream].locks) <= 2
      <4>1. \A k \in {1, 2} : k <= 2
        OBVIOUS
      <4> QED
        BY <2>1, <4>1
    <3>2. \A k, l \in Nat : l <= 2 /\ k < l /\ i \in 1 .. k => k = 1 /\ l = 2 /\ i = 1
      OBVIOUS
    <3> QED
      BY <2>2, <3>1, <3>2
  <2> QED
    BY <1>3, <2>1, <2>3 DEF NextLock
<1>7. op[Event].kind # "pop"
  <2> SUFFICES ASSUME op[Event].kind = "pop" PROVE FALSE
    OBVIOUS
  <2>1. Len(op[Event].locks) = 2 /\ op[Event].locks[2] \in Blocks
    BY <1>1, <1>2, Constants DEF EventInv
  <2>2. /\ op[Event].taken \in Nat /\ Len(op[Event].locks) \in Nat
        /\ op[Event].taken < Len(op[Event].locks) /\ j \in 1 .. op[Event].taken
    BY <1>1, <1>2, Constants
  <2>3. op[Event].taken = 1
    BY <2>1, <2>2
  <2> QED
    BY <1>6, <2>1, <2>3, Constants DEF NextLock
<1>8. nodes = 1
  <2>1. op[Event].taken + 1 \in 1 .. Len(op[Event].locks)
    BY <1>1, <1>2, Constants
  <2> QED
    BY <1>1, <1>2, <1>6, <1>7, <2>1, Constants DEF EventInv, NextLock
<1>9. op[Event].locks[j] \in {hnd[op[Event].dst].mutex, hnd[op[Event].src].mutex}
  <2>1. j \in 1 .. Len(op[Event].locks) /\ Locked(Event)
    BY <1>1, <1>2, Constants DEF Locked, At
  <2>2. op[Event].kind # "push"
    BY <1>1, <1>2, Constants DEF EventInv
  <2> QED
    BY <1>4, <1>6, <1>7, <2>1, <2>2, Constants DEF LockInv
<1>10. op[Event].dst \in EventNames /\ op[Event].src \in EventNames
  BY <1>1, <1>2, Constants DEF TypeOK
<1>11. hnd["message"].mutex # Null
  BY <1>6, Constants
<1> QED
  BY <1>4, <1>6, <1>8, <1>9, <1>10, <1>11 DEF SoleInv, StreamNames

(***************************************************************************)
(* The pools.                                                              *)
(***************************************************************************)

\* A value for each of finitely many things are no more values than things.
LEMMA ImageSize ==
  ASSUME NEW S, IsFiniteSet(S), NEW f, f \in [S -> {f[x] : x \in S}]
  PROVE  /\ IsFiniteSet({f[x] : x \in S})
         /\ Cardinality({f[x] : x \in S}) <= Cardinality(S)
<1>1. f \in Surjection(S, {f[x] : x \in S})
  BY DEF Surjection
<1> QED
  BY <1>1, FS_Surjection

\* The members and two more handles.
LEMMA TwoMore ==
  ASSUME IsFiniteSet(Members), NEW k1, NEW k2
  PROVE  /\ IsFiniteSet(Members \cup {k1, k2})
         /\ Cardinality(Members \cup {k1, k2}) <= Cardinality(Members) + 2
<1> DEFINE L == Members \cup {k1}
<1>1. Members \cup {k1, k2} = L \cup {k2}
  OBVIOUS
<1>2. Cardinality(Members) \in Nat
  BY FS_CardinalityType
<1>3. IsFiniteSet(L) /\ Cardinality(L) <= Cardinality(Members) + 1
  BY <1>2, FS_AddElement
<1> HIDE DEF L
<1>4. Cardinality(L) \in Nat
  BY <1>3, FS_CardinalityType
<1>5. /\ IsFiniteSet(L \cup {k2})
      /\ Cardinality(L \cup {k2}) = Cardinality(L) \/ Cardinality(L \cup {k2}) = Cardinality(L) + 1
  BY <1>3, FS_AddElement
<1> QED
  BY <1>1, <1>2, <1>3, <1>4, <1>5

\* Of so many blocks, one is neither that of so many handles nor of a slot.
LEMMA BlockLeft ==
  ASSUME IsFiniteSet(Members), PoolSize >= Capacity + Cardinality(Members) + 3,
         NEW K, IsFiniteSet(K), Cardinality(K) <= Cardinality(Members) + 2,
         NEW f, NEW g, NEW n \in Nat, n <= Capacity
  PROVE  \E b \in Blocks : /\ \A k \in K : f[k] # b
                           /\ \A i \in 1 .. n : g[i] # b
<1> DEFINE ff == [k \in K |-> f[k]]
           gg == [i \in 1 .. n |-> g[i]]
           A == {ff[k] : k \in K}
           B == {gg[i] : i \in 1 .. n}
<1>2. IsFiniteSet(1 .. n) /\ Cardinality(1 .. n) = n
  BY FS_Interval
<1>3. IsFiniteSet(A) /\ Cardinality(A) <= Cardinality(K)
  <2>1. ff \in [K -> A]
    OBVIOUS
  <2> HIDE DEF ff
  <2> QED
    BY <2>1, ImageSize
<1>4. IsFiniteSet(B) /\ Cardinality(B) <= n
  <2>1. gg \in [1 .. n -> B]
    OBVIOUS
  <2> HIDE DEF gg
  <2> QED
    BY <1>2, <2>1, ImageSize
<1>5. \A k \in K : f[k] \in A
  <2>1. \A k \in K : ff[k] = f[k]
    OBVIOUS
  <2> HIDE DEF ff
  <2> QED
    BY <2>1
<1>6. \A i \in 1 .. n : g[i] \in B
  <2>1. \A i \in 1 .. n : gg[i] = g[i]
    OBVIOUS
  <2> HIDE DEF gg
  <2> QED
    BY <2>1
<1> HIDE DEF A, B
<1>7. IsFiniteSet(A \cup B) /\ Cardinality(A \cup B) <= Cardinality(A) + Cardinality(B)
  <2>1. IsFiniteSet(A \cap B)
    BY <1>3, FS_Intersection
  <2>2. Cardinality(A \cap B) \in Nat /\ Cardinality(A) \in Nat /\ Cardinality(B) \in Nat
    BY <1>3, <1>4, <2>1, FS_CardinalityType
  <2>3. /\ IsFiniteSet(A \cup B)
        /\ Cardinality(A \cup B) = Cardinality(A) + Cardinality(B) - Cardinality(A \cap B)
    BY <1>3, <1>4, FS_Union
  <2> QED
    BY <2>2, <2>3
<1>8. Cardinality(Blocks) = PoolSize
  BY BufferAssumption, FS_Interval DEF Blocks
<1>9. ~(Blocks \subseteq A \cup B)
  <2> SUFFICES ASSUME Blocks \subseteq A \cup B PROVE FALSE
    OBVIOUS
  <2>1. Cardinality(Blocks) <= Cardinality(A \cup B)
    BY <1>7, FS_Subset
  <2>2. Cardinality(A) \in Nat /\ Cardinality(B) \in Nat /\ Cardinality(A \cup B) \in Nat
        /\ Cardinality(Members) \in Nat /\ Cardinality(K) \in Nat
    BY <1>3, <1>4, <1>7, FS_CardinalityType
  <2> QED
    BY <1>3, <1>4, <1>7, <1>8, <2>1, <2>2, BufferAssumption
<1> QED
  BY <1>5, <1>6, <1>9

\* The same for the handles of the two threads when one of them is about to
\* create a buffer: f says which block of a pool a handle has.
LEMMA FreeBlock ==
  ASSUME IsFiniteSet(Members), PoolSize >= Capacity + Cardinality(Members) + 3,
         NEW f, NEW g, NEW n \in Nat, n <= Capacity,
         \/ f["sent"] = Null /\ f["message"] = Null
         \/ f["made"] = Null /\ (f["sent"] = Null \/ f["message"] \in {Null, f["sent"]})
  PROVE  \E b \in Blocks : (\A k \in Names : f[k] # b) /\ \A i \in 1 .. n : g[i] # b
<1>1. Null \notin Blocks
  BY Constants
<1>2. CASE f["sent"] = Null /\ f["message"] = Null
  <2> DEFINE K == Members \cup {"received", "made"}
  <2>0. IsFiniteSet(K) /\ Cardinality(K) <= Cardinality(Members) + 2
    BY TwoMore
  <2> HIDE DEF K
  <2>1. PICK b \in Blocks : (\A k \in K : f[k] # b) /\ (\A i \in 1 .. n : g[i] # b)
    BY <2>0, BlockLeft
  <2> USE DEF K
  <2> SUFFICES ASSUME NEW k \in Names PROVE f[k] # b
    BY <2>1
  <2>2. CASE k \in Members
    BY <2>1, <2>2
  <2>3. CASE k \in {"sent", "message", "received", "made"}
    BY <1>1, <1>2, <2>1, <2>3
  <2> QED
    BY <2>2, <2>3 DEF Names
<1>3. CASE f["made"] = Null /\ f["sent"] = Null
  <2> DEFINE K == Members \cup {"received", "message"}
  <2>0. IsFiniteSet(K) /\ Cardinality(K) <= Cardinality(Members) + 2
    BY TwoMore
  <2> HIDE DEF K
  <2>1. PICK b \in Blocks : (\A k \in K : f[k] # b) /\ (\A i \in 1 .. n : g[i] # b)
    BY <2>0, BlockLeft
  <2> USE DEF K
  <2> SUFFICES ASSUME NEW k \in Names PROVE f[k] # b
    BY <2>1
  <2>2. CASE k \in Members
    BY <2>1, <2>2
  <2>3. CASE k \in {"sent", "message", "received", "made"}
    BY <1>1, <1>3, <2>1, <2>3
  <2> QED
    BY <2>2, <2>3 DEF Names
<1>4. CASE f["made"] = Null /\ f["message"] \in {Null, f["sent"]}
  <2> DEFINE K == Members \cup {"received", "sent"}
  <2>0. IsFiniteSet(K) /\ Cardinality(K) <= Cardinality(Members) + 2
    BY TwoMore
  <2> HIDE DEF K
  <2>1. PICK b \in Blocks : (\A k \in K : f[k] # b) /\ (\A i \in 1 .. n : g[i] # b)
    BY <2>0, BlockLeft
  <2> USE DEF K
  <2> SUFFICES ASSUME NEW k \in Names PROVE f[k] # b
    BY <2>1
  <2>2. CASE k \in Members
    BY <2>1, <2>2
  <2>3. CASE k \in {"sent", "message", "received", "made"}
    BY <1>1, <1>4, <2>1, <2>3
  <2> QED
    BY <2>2, <2>3 DEF Names
<1> QED
  BY <1>2, <1>3, <1>4

\* The stream thread has one buffer at a time, in one handle or in both.
OneBuffer ==
  /\ hnd["sent"].obj = Null \/ hnd["message"].obj \in {Null, hnd["sent"].obj}
  /\ hnd["sent"].mutex = Null \/ hnd["message"].mutex \in {Null, hnd["sent"].mutex}

\* When a buffer is created, the pools are not empty.
LEMMA PoolsLeft ==
  ASSUME IsFiniteSet(Members), PoolSize >= Capacity + Cardinality(Members) + 3,
         TypeOK, OneBuffer,
         (hnd["sent"] = Empty /\ hnd["message"] = Empty) \/ hnd["made"] = Empty
  PROVE  FreeObjects # {} /\ FreeMutexes # {}
<1>1. /\ DOMAIN slots = 1 .. Len(slots) /\ Len(slots) \in Nat /\ Len(slots) <= Capacity
      /\ Empty.obj = Null /\ Empty.mutex = Null
      /\ "sent" \in Names /\ "message" \in Names /\ "made" \in Names
  BY HandleFields DEF TypeOK, Names
<1>2. FreeObjects # {}
  <2> DEFINE f == [k \in Names |-> hnd[k].obj]
             g == [i \in 1 .. Len(slots) |-> slots[i].obj]
  <2>1. \/ f["sent"] = Null /\ f["message"] = Null
        \/ f["made"] = Null /\ (f["sent"] = Null \/ f["message"] \in {Null, f["sent"]})
    BY <1>1 DEF OneBuffer
  <2>2. PICK b \in Blocks : (\A k \in Names : f[k] # b) /\ (\A i \in 1 .. Len(slots) : g[i] # b)
    <3> HIDE DEF f, g
    <3> QED
      BY <1>1, <2>1, FreeBlock
  <2>3. (\A k \in Names : hnd[k].obj # b) /\ (\A i \in 1 .. Len(slots) : slots[i].obj # b)
    BY <2>2
  <2>4. b \in FreeObjects
    BY <1>1, <2>3 DEF FreeObjects, Handles
  <2> QED
    BY <2>4
<1>3. FreeMutexes # {}
  <2> DEFINE f == [k \in Names |-> hnd[k].mutex]
             g == [i \in 1 .. Len(slots) |-> slots[i].mutex]
  <2>1. \/ f["sent"] = Null /\ f["message"] = Null
        \/ f["made"] = Null /\ (f["sent"] = Null \/ f["message"] \in {Null, f["sent"]})
    BY <1>1 DEF OneBuffer
  <2>2. PICK b \in Blocks : (\A k \in Names : f[k] # b) /\ (\A i \in 1 .. Len(slots) : g[i] # b)
    <3> HIDE DEF f, g
    <3> QED
      BY <1>1, <2>1, FreeBlock
  <2>3. (\A k \in Names : hnd[k].mutex # b) /\ (\A i \in 1 .. Len(slots) : slots[i].mutex # b)
    BY <2>2
  <2>4. b \in FreeMutexes
    BY <1>1, <2>3 DEF FreeMutexes, Handles
  <2> QED
    BY <2>4
<1> QED
  BY <1>2, <1>3

\* The handles of the stream thread, when it changes them.
LEMMA StreamChange ==
  ASSUME IInv, OneBuffer, Change(Stream)
  PROVE  OneBuffer'
<1> USE DEF IInv
<1>1. /\ op[Stream] # Null /\ op[Stream].step = "lock" /\ hnd' = SetObject(Stream)
      /\ op[Stream].kind \notin {"push", "pop"}
  BY DEF Change, HasAll
<1>2. /\ op[Stream].kind \in {"copy", "move"}
      /\ op[Stream].dst = "message" /\ op[Stream].src = "sent"
  BY <1>1 DEF StreamInv
<1>3. /\ \A n \in Names : hnd'[n].mutex = hnd[n].mutex
      /\ hnd'["message"].obj = hnd["sent"].obj
      /\ op[Stream].kind = "copy" => hnd'["sent"] = hnd["sent"]
      /\ op[Stream].kind = "move" => hnd'["sent"].obj = Null
  BY <1>1, <1>2, SetObjectFacts, Constants
<1> QED
  BY <1>2, <1>3 DEF OneBuffer, Names

\* The same for the pointers to the mutexes.
LEMMA StreamSettle ==
  ASSUME IInv, OneBuffer, Settle(Stream)
  PROVE  OneBuffer'
<1> USE DEF IInv
<1>1. /\ op[Stream] # Null /\ op[Stream].step = "settle" /\ Changed(Stream)
      /\ hnd' = SetMutex(Stream)
  BY DEF Settle, Changed, At
<1>2. /\ \A n \in Names : hnd'[n].obj = hnd[n].obj
      /\ \A n \in Owned(Stream) : hnd'[n].mutex = FinalMutex(n)
      /\ "sent" \in Owned(Stream) /\ "message" \in Owned(Stream)
      /\ "sent" \in Names /\ "message" \in Names
      /\ UserOf("sent") = Stream /\ UserOf("message") = Stream
  BY <1>1, SetMutexFacts, Constants DEF StreamNames, UserOf
<1>3. CASE op[Stream].kind = "push"
  BY <1>1, <1>2, <1>3 DEF OneBuffer, FinalMutex
<1>4. CASE op[Stream].kind \in {"copy", "move"}
  <2>1. op[Stream].dst = "message" /\ op[Stream].src = "sent"
    BY <1>1, <1>4 DEF StreamInv
  <2>2. FinalMutex("message") = hnd["sent"].mutex
    BY <1>1, <1>2, <1>4, <2>1 DEF FinalMutex
  <2>3. FinalMutex("sent") \in {Null, hnd["sent"].mutex}
    BY <1>1, <1>2, <1>4, <2>1 DEF FinalMutex
  <2>4. hnd'["message"].mutex = hnd["sent"].mutex /\ hnd'["sent"].mutex \in {Null, hnd["sent"].mutex}
    BY <1>2, <2>2, <2>3
  <2> QED
    BY <1>2, <2>4 DEF OneBuffer
<1> QED
  BY <1>1, <1>3, <1>4 DEF StreamInv

\* With so many blocks no thread constructs a value on the null pointer.
Enough == OneBuffer /\ PoolSuffices

\* A step of an operation, its begin and its end are no fault, and leave the
\* handles of the stream thread alone unless they are those above.
LEMMA EnoughKept ==
  ASSUME Enough, NEW t \in Threads, OthersKeep(t),
         op'[t] = Null \/ op'[t].step # "fault",
         OneBuffer' \/ (hnd'["sent"] = hnd["sent"] /\ hnd'["message"] = hnd["message"])
  PROVE  Enough'
<1>1. OneBuffer'
  BY DEF Enough, OneBuffer
<1>2. PoolSuffices'
  BY DEF Enough, PoolSuffices, OthersKeep
<1> QED
  BY <1>1, <1>2 DEF Enough

\* A handle that is empty or has a new block is no second buffer.
LEMMA EmptyOne ==
  ASSUME hnd'["sent"] = Empty \/ hnd'["message"] = Empty
  PROVE  OneBuffer'
BY HandleFields DEF OneBuffer

\* Every step preserves it.
LEMMA EnoughStep ==
  ASSUME IsFiniteSet(Members), PoolSize >= Capacity + Cardinality(Members) + 3,
         IInv, Enough, [Next]_vars
  PROVE  Enough'
<1>1. /\ TypeOK /\ Stream \in Threads /\ Event \in Threads /\ Stream # Event
      /\ "sent" \in Names /\ "message" \in Names /\ "made" \in Names /\ "received" \in Names
      /\ hnd \in [Names -> Handle] /\ OneBuffer
  BY Constants DEF IInv, TypeOK, Names, Enough
<1>2. ASSUME NEW t \in Threads, Acquire(t) \/ Unlock(t) PROVE Enough'
  <2>1. /\ OthersKeep(t) /\ op'[t].step # "fault" /\ hnd' = hnd
    BY <1>1, <1>2, AcquireFacts, ThenFacts DEF Unlock
  <2> QED
    BY <2>1, EnoughKept
<1>3. ASSUME NEW t \in Threads, Change(t) PROVE Enough'
  <2>1. OthersKeep(t) /\ op'[t].step # "fault" /\ op[t] # Null /\ hnd' = SetObject(t)
    BY <1>1, <1>3, ThenFacts DEF Change, HasAll
  <2>2. CASE t = Stream
    BY <1>1, <1>3, <2>1, <2>2, StreamChange, EnoughKept
  <2>3. CASE t # Stream
    <3>1. /\ "sent" \notin {op[t].dst, op[t].src} /\ "message" \notin {op[t].dst, op[t].src}
      BY <1>1, <2>1, <2>3, OthersHandles, Constants DEF StreamNames
    <3>2. hnd'["sent"] = hnd["sent"] /\ hnd'["message"] = hnd["message"]
      BY <1>1, <2>1, <3>1, SetObjectFacts
    <3> QED
      BY <2>1, <3>2, EnoughKept
  <2> QED
    BY <2>2, <2>3
<1>4. ASSUME NEW t \in Threads, Settle(t) PROVE Enough'
  <2>1. OthersKeep(t) /\ op'[t] = Null /\ op[t] # Null /\ hnd' = SetMutex(t) /\ Changed(t)
    BY <1>1, <1>4, EndFacts DEF Settle, Changed, At
  <2>2. CASE t = Stream
    BY <1>1, <1>4, <2>1, <2>2, StreamSettle, EnoughKept
  <2>3. CASE t # Stream
    <3>1. /\ "sent" \notin {op[t].dst, op[t].src} /\ "message" \notin {op[t].dst, op[t].src}
      BY <1>1, <2>1, <2>3, OthersHandles, Constants DEF StreamNames
    <3>2. hnd'["sent"] = hnd["sent"] /\ hnd'["message"] = hnd["message"]
      BY <1>1, <2>1, <3>1, SetMutexFacts
    <3> QED
      BY <2>1, <3>2, EnoughKept
  <2> QED
    BY <2>2, <2>3
<1>5. CASE LockMessage
  <2>1. OthersKeep(Stream) /\ op'[Stream].step = "lock" /\ hnd' = hnd
    BY <1>1, <1>5, LockMessageFacts DEF IInv
  <2> QED
    BY <1>1, <2>1, EnoughKept
<1>6. CASE Push
  <2>1. OthersKeep(Stream) /\ op'[Stream].step = "unlock"
    BY <1>1, <1>6, ThenFacts DEF Push, HasAll
  <2>2. OneBuffer'
    BY <1>1, <1>6, EmptyOne DEF Push
  <2> QED
    BY <1>1, <2>1, <2>2, EnoughKept
<1>7. CASE Refuse
  <2>1. OthersKeep(Stream) /\ op'[Stream].step = "unlock" /\ hnd' = hnd
    BY <1>1, <1>7, ThenFacts DEF Refuse, HasAll
  <2> QED
    BY <1>1, <2>1, EnoughKept
<1>8. CASE Pop
  <2>1. OthersKeep(Event) /\ op'[Event].step = "unlock"
    BY <1>1, <1>8, ThenFacts DEF Pop, HasAll
  <2>2. hnd'["sent"] = hnd["sent"] /\ hnd'["message"] = hnd["message"]
    BY <1>1, <1>8 DEF Pop
  <2> QED
    BY <1>1, <2>1, <2>2, EnoughKept
<1>9. ASSUME NEW t \in Threads, NEW o \in Operations, Fresh(o), Begin(t, o) PROVE Enough'
  <2>1. OthersKeep(t) /\ op'[t].step # "fault" /\ hnd' = hnd
    BY <1>1, <1>9, BeginFacts DEF Fresh
  <2> QED
    BY <2>1, EnoughKept
<1>10. ASSUME NEW t \in Threads, NEW n \in Owned(t), Destroy(t, n) PROVE Enough'
  <2>1. OthersKeep(t) /\ op'[t] = Null
    BY <1>10 DEF Destroy, OthersKeep
  <2>2. n \in Names
    BY Constants
  <2>3. CASE n \in {"sent", "message"}
    <3>1. OneBuffer'
      BY <1>1, <1>10, <2>2, <2>3, EmptyOne DEF Destroy
    <3> QED
      BY <2>1, <3>1, EnoughKept
  <2>4. CASE n \notin {"sent", "message"}
    <3>1. hnd'["sent"] = hnd["sent"] /\ hnd'["message"] = hnd["message"]
      BY <1>1, <1>10, <2>2, <2>4 DEF Destroy
    <3> QED
      BY <2>1, <3>1, EnoughKept
  <2> QED
    BY <2>3, <2>4
<1>11. CASE Create(Stream, "sent") /\ hnd["message"] = Empty
  <2>1. hnd["sent"] = Empty /\ op[Stream] = Null /\ "sent" \in Owned(Stream)
    BY <1>11, Constants DEF Create, StreamNames
  <2>2. FreeObjects # {} /\ FreeMutexes # {}
    BY <1>1, <1>11, <2>1, PoolsLeft
  <2>3. PICK a, b \in Blocks : Filled("sent", a, b)
    BY <1>1, <1>11, <2>1, <2>2, CreateFacts
  <2>4. OneBuffer'
    BY <1>1, <1>11, <2>3, EmptyOne DEF Filled
  <2>5. OthersKeep(Stream) /\ op'[Stream] = Null
    BY <2>1, <2>3 DEF Filled, OthersKeep
  <2> QED
    BY <1>1, <2>4, <2>5, EnoughKept
<1>12. CASE Create(Event, "made")
  <2>1. hnd["made"] = Empty /\ op[Event] = Null /\ "made" \in Owned(Event)
    BY <1>12, Constants DEF Create, EventNames
  <2>2. FreeObjects # {} /\ FreeMutexes # {}
    BY <1>1, <2>1, PoolsLeft
  <2>3. PICK a, b \in Blocks : Filled("made", a, b)
    BY <1>1, <1>12, <2>1, <2>2, CreateFacts
  <2>4. hnd'["sent"] = hnd["sent"] /\ hnd'["message"] = hnd["message"]
    BY <1>1, <2>3 DEF Filled
  <2>5. OthersKeep(Event) /\ op'[Event] = Null
    BY <2>1, <2>3 DEF Filled, OthersKeep
  <2> QED
    BY <1>1, <2>4, <2>5, EnoughKept
<1>13. CASE Send
  <2>1. \/ Create(Stream, "sent") /\ hnd["message"] = Empty /\ todo' = nodes
        \/ \E o \in Operations : Fresh(o) /\ StreamBegins(o) /\ Begin(Stream, o)
        \/ \E n \in StreamNames : Destroy(Stream, n)
    BY <1>13, SendCases
  <2> QED
    BY <1>1, <1>9, <1>10, <1>11, <2>1, Constants
<1>14. CASE Handlers
  <2>1. \/ \E o \in Operations : Fresh(o) /\ EventBegins(o) /\ Begin(Event, o)
        \/ \E n \in EventNames : Destroy(Event, n)
        \/ Create(Event, "made") /\ UNCHANGED todo
    BY <1>14, HandlerCases
  <2> QED
    BY <1>1, <1>9, <1>10, <1>12, <2>1, Constants
<1>15. CASE UNCHANGED vars
  BY <1>15 DEF Enough, OneBuffer, PoolSuffices
<1> QED
  BY <1>2, <1>3, <1>4, <1>5, <1>6, <1>7, <1>8, <1>13, <1>14, <1>15 DEF Next

(***************************************************************************)
(* The theorems.                                                           *)
(***************************************************************************)

\* Every step preserves the invariant.
LEMMA NextStep ==
  ASSUME IInv, [Next]_vars
  PROVE  IInv'
<1>1. CASE \E t \in Threads : Acquire(t) \/ Change(t) \/ Unlock(t) \/ Settle(t)
  BY <1>1, AcquireStep, ChangeStep, UnlockStep, SettleStep
<1>2. CASE LockMessage \/ Push \/ Refuse
  BY <1>2, LockMessageStep, PushStep, RefuseStep
<1>3. CASE Pop
  BY <1>3, PopStep
<1>4. CASE Send
  <2>1. \/ Create(Stream, "sent") /\ hnd["message"] = Empty /\ todo' = nodes
        \/ \E o \in Operations : Fresh(o) /\ StreamBegins(o) /\ Begin(Stream, o)
        \/ \E n \in StreamNames : Destroy(Stream, n)
    BY <1>4, SendCases
  <2> QED
    BY <2>1, StreamCreateStep, StreamBeginStep, DestroyStep, Constants
<1>5. CASE Handlers
  <2>1. \/ \E o \in Operations : Fresh(o) /\ EventBegins(o) /\ Begin(Event, o)
        \/ \E n \in EventNames : Destroy(Event, n)
        \/ Create(Event, "made") /\ UNCHANGED todo
    BY <1>5, HandlerCases
  <2> QED
    BY <2>1, EventBeginStep, EventCreateStep, DestroyStep, Constants
<1>6. CASE UNCHANGED vars
  <2>1. UNCHANGED <<hnd, slots, owner, op, nodes, todo>>
    BY <1>6
  <2>2. TypeOK' /\ StreamInv' /\ EventInv' /\ SlotInv' /\ SoleInv'
    BY <2>1 DEF IInv, TypeOK, StreamInv, EventInv, SlotInv, SoleInv
  <2>3. LockInv' /\ HoldInv'
    BY <2>1 DEF IInv, LockInv, HoldInv, Locked, Locking, At
  <2>4. PairInv'
    BY <2>1, FinalsKept DEF IInv
  <2> QED
    BY <2>2, <2>3, <2>4 DEF IInv
<1> QED
  BY <1>1, <1>2, <1>3, <1>4, <1>5, <1>6 DEF Next

\* The invariant holds in every reachable state.
THEOREM Invariance == Spec => []IInv
  BY Initially, NextStep, PTL DEF Spec

\* Handles, slots, mutexes and operations keep their types, and the queue does
\* not grow beyond its slots.
THEOREM TypeCorrectness == Spec => []TypeOK
<1>1. IInv => TypeOK
  BY DEF IInv
<1> QED
  BY <1>1, Invariance, PTL

\* Whatever the two threads do with their handles, an object has one mutex and
\* a mutex protects one object.
THEOREM OneMutex == Spec => []OneMutexPerObject
<1>1. IInv => OneMutexPerObject
  BY InvOneMutex
<1> QED
  BY <1>1, Invariance, PTL

\* No mutex returns to its pool while a thread holds it or waits for it.
THEOREM MutexKept == Spec => []MutexAlive
<1>1. IInv => MutexAlive
  BY InvMutexAlive
<1> QED
  BY <1>1, Invariance, PTL

\* While handlers assign only between different buffers, and send an event
\* within a read only as the one receiver, no thread waits for a mutex that it
\* holds itself, and the two threads do not wait for each other.
THEOREM NoDeadlock == Spec => []NoCircularWait
<1>1. IInv => NoCircularWait
  BY InvNoCircularWait
<1> QED
  BY <1>1, Invariance, PTL

\* With three blocks more in each pool than the slots and the members can use,
\* neither thread constructs a buffer on the null pointer of an empty pool.
THEOREM PoolsSuffice ==
  ASSUME IsFiniteSet(Members), PoolSize >= Capacity + Cardinality(Members) + 3
  PROVE  Spec => []PoolSuffices
<1>1. Init => Enough
  BY HandleFields DEF Init, Enough, OneBuffer, PoolSuffices, Names
<1>2. IInv /\ Enough /\ [Next]_vars => Enough'
  BY EnoughStep
<1>3. Enough => PoolSuffices
  BY DEF Enough
<1> QED
  BY <1>1, <1>2, <1>3, Invariance, PTL DEF Spec
=============================================================================
