---------------------------- MODULE SharedBuffer ----------------------------
(***************************************************************************)
(* ProtectedBuffer: a buffer that events carry from thread to thread.  A   *)
(* handle is a pair of shared pointers, to the object and to its mutex,    *)
(* both in memory pools of fixed size.  To copy, move, assign, reset or    *)
(* read a handle its mutex is locked; the pointer to the mutex itself      *)
(* changes after the mutex has been released.  The event queue moves       *)
(* handles to and from its slots with its own mutex locked.                *)
(*                                                                         *)
(* A handle belongs to one thread.  The stream thread creates buffers and  *)
(* sends them to one or more nodes; the event thread takes them from the   *)
(* queue and does with its handles what a handler may do, in any order.    *)
(* Its handlers create buffers too, but hand them over in a call (sendSync *)
(* of TFLite and VStreamVideoSource) and not through the queue.            *)
(***************************************************************************)
EXTENDS Integers, Sequences, FiniteSets

CONSTANTS
  Stream, Event, \* the two threads
  Members,       \* handles that nodes keep from one event to the next
  Capacity,      \* slots of the queue
  PoolSize,      \* NB_MAX_BUFS
  FanOuts,       \* the numbers of nodes a node sends its events to
  Null           \* the null pointer, no thread and no operation

Threads == {Stream, Event}
Blocks  == 1 .. PoolSize
Queue   == 0                      \* queue_mutex; the others are blocks
Mutexes == Blocks \cup {Queue}
Names   == {"sent", "message", "received", "made"} \cup Members
Handle  == [obj : Blocks \cup {Null}, mutex : Blocks \cup {Null}]
Empty   == [obj |-> Null, mutex |-> Null]

\* What a thread may be doing: it locks the mutexes "locks" in their order.
\* In a fault it constructs a value on the null pointer.
Operations ==
  [kind : {"copy", "move", "reset", "read", "push", "pop"}, dst : Names, src : Names,
   locks : Seq(Mutexes), step : {"lock", "unlock", "settle", "fault"}, taken : Nat]

ASSUME BufferAssumption ==
  /\ Stream # Event
  /\ Capacity \in Nat \ {0}
  /\ PoolSize \in Nat \ {0}
  /\ FanOuts \subseteq Nat \ {0}
  /\ Members \cap {"sent", "message", "received", "made"} = {}
  /\ Null \notin Mutexes \cup Threads \cup Operations

VARIABLES
  hnd,   \* hnd[n]: the handle n; "sent" and "message" belong to Stream, and
         \* "received" and "made" to the handler that Event runs
  slots, \* the handles in the queue, oldest first
  owner, \* owner[m]: the thread that holds the mutex m
  op,    \* op[t]: the operation of thread t, or Null
  nodes, \* to how many nodes of the graph a buffer is sent
  todo   \* to how many of them "sent" has still to be sent

vars == <<hnd, slots, owner, op, nodes, todo>>

Init ==
  /\ hnd = [n \in Names |-> Empty]
  /\ slots = <<>>
  /\ owner = [m \in Mutexes |-> Null]
  /\ op = [t \in Threads |-> Null]
  /\ nodes \in FanOuts
  /\ todo = 0

Owned(t) == IF t = Stream THEN {"sent", "message"} ELSE {"received", "made"} \cup Members

(***************************************************************************)
(* Shared pointers: a block is free when no handle points to it.           *)
(***************************************************************************)
Handles == {hnd[n] : n \in Names} \cup {slots[i] : i \in DOMAIN slots}

FreeObjects == {b \in Blocks : \A h \in Handles : h.obj # b}
FreeMutexes == {b \in Blocks : \A h \in Handles : h.mutex # b}

First(S) == CHOOSE b \in S : \A c \in S : b <= c

\* The block taken from the free ones S of a pool.  Which one makes no
\* difference; blocks of the same number give the fewest states.
Taken(S) ==
  LET both == FreeObjects \cap FreeMutexes
  IN  IF both = {} THEN First(S) ELSE First(both)

(***************************************************************************)
(* An operation: it locks its mutexes in order, changes the pointers to    *)
(* the objects, releases the mutexes, and then changes the pointers to the *)
(* mutexes.                                                                *)
(***************************************************************************)
Operation(kind, dst, src, locks) ==
  [kind |-> kind, dst |-> dst, src |-> src, locks |-> locks, step |-> "lock", taken |-> 0]

Mutex(n) == IF hnd[n].mutex = Null THEN <<>> ELSE <<hnd[n].mutex>>

Begin(t, operation) ==
  /\ op[t] = Null
  /\ op' = [op EXCEPT ![t] = operation]
  /\ UNCHANGED <<hnd, slots, owner, nodes, todo>>

\* The constructors, for an empty dst, and the assignments: the mutex of the
\* source first, then that of the destination.
Copy(t, dst, src)  == Begin(t, Operation("copy", dst, src, Mutex(src) \o Mutex(dst)))
Move(t, dst, src)  == Begin(t, Operation("move", dst, src, Mutex(src) \o Mutex(dst)))
Reset(t, n)        == Begin(t, Operation("reset", n, n, Mutex(n)))
Read(t, n)         == Begin(t, Operation("read", n, n, Mutex(n)))

\* A handler that sends an event while it reads, as KWSClassify does.
ReadAndPush(t, n)  == Begin(t, Operation("read", n, n, Mutex(n) \o <<Queue>>))

Waits(t) ==
  /\ op[t] # Null
  /\ op[t].step = "lock"
  /\ op[t].taken < Len(op[t].locks)

NextLock(t) == op[t].locks[op[t].taken + 1]

\* For ever if need be, osWaitForever, and also for a mutex of its own: the
\* mutexes, made by osMutexNew(NULL), are not recursive.
Acquire(t) ==
  /\ Waits(t)
  /\ owner[NextLock(t)] = Null
  /\ owner' = [owner EXCEPT ![NextLock(t)] = t]
  /\ op' = [op EXCEPT ![t].taken = @ + 1]
  /\ UNCHANGED <<hnd, slots, nodes, todo>>

HasAll(t) ==
  /\ op[t] # Null
  /\ op[t].step = "lock"
  /\ op[t].taken = Len(op[t].locks)

Then(t, step) == op' = [op EXCEPT ![t].step = step]

\* SetObject with a bug: reset clears the pointer to the mutex with the other.
SetObject_Both(t) ==
  LET o == op[t] IN
  CASE o.kind = "copy"  -> [hnd EXCEPT ![o.dst].obj = hnd[o.src].obj]
    [] o.kind = "move"  -> [hnd EXCEPT ![o.dst].obj = hnd[o.src].obj, ![o.src].obj = Null]
    [] o.kind = "reset" -> [hnd EXCEPT ![o.dst] = Empty]
    [] OTHER            -> hnd

SetObject(t) ==
  LET o == op[t] IN
  CASE o.kind = "copy"  -> [hnd EXCEPT ![o.dst].obj = hnd[o.src].obj]
    [] o.kind = "move"  -> [hnd EXCEPT ![o.dst].obj = hnd[o.src].obj, ![o.src].obj = Null]
    [] o.kind = "reset" -> [hnd EXCEPT ![o.dst].obj = Null]
    [] OTHER            -> hnd

\* SetMutex with a bug: a copy keeps a mutex of its own.
SetMutex_Keeps(t) ==
  LET o == op[t] IN
  CASE o.kind = "copy" /\ hnd[o.dst].mutex = Null
                       -> [hnd EXCEPT ![o.dst].mutex = hnd[o.src].mutex]
    [] o.kind = "move" -> [hnd EXCEPT ![o.dst].mutex = hnd[o.src].mutex, ![o.src].mutex = Null]
    [] OTHER           -> hnd

SetMutex(t) ==
  LET o == op[t] IN
  CASE o.kind = "copy"  -> [hnd EXCEPT ![o.dst].mutex = hnd[o.src].mutex]
    [] o.kind = "move"  -> [hnd EXCEPT ![o.dst].mutex = hnd[o.src].mutex, ![o.src].mutex = Null]
    [] o.kind = "reset" -> [hnd EXCEPT ![o.dst].mutex = Null]
    [] OTHER            -> hnd

Change(t) ==
  /\ HasAll(t)
  /\ op[t].kind \notin {"push", "pop"}
  /\ hnd' = SetObject(t)
  /\ Then(t, "unlock")
  /\ UNCHANGED <<slots, owner, nodes, todo>>

Unlock(t) ==
  /\ op[t] # Null
  /\ op[t].step = "unlock"
  /\ owner' = [m \in Mutexes |-> IF owner[m] = t THEN Null ELSE owner[m]]
  /\ Then(t, "settle")
  /\ UNCHANGED <<hnd, slots, nodes, todo>>

Settle(t) ==
  /\ op[t] # Null
  /\ op[t].step = "settle"
  /\ hnd' = SetMutex(t)
  /\ op' = [op EXCEPT ![t] = Null]
  /\ UNCHANGED <<slots, owner, nodes, todo>>

\* create_with: a mutex, then the object.  The allocators return null when a
\* pool is empty, and allocate_shared constructs on it all the same.
Create(t, n) ==
  LET pools == FreeMutexes # {} /\ FreeObjects # {}
      new   == [obj |-> Taken(FreeObjects), mutex |-> Taken(FreeMutexes)]
      fault == [Operation("read", n, n, <<>>) EXCEPT !.step = "fault"]
  IN  /\ op[t] = Null
      /\ hnd[n] = Empty
      /\ hnd' = IF pools THEN [hnd EXCEPT ![n] = new] ELSE hnd
      /\ op' = IF pools THEN op ELSE [op EXCEPT ![t] = fault]
      /\ UNCHANGED <<slots, owner, nodes>>

\* The destructor locks nothing.
Destroy(t, n) ==
  /\ op[t] = Null
  /\ hnd[n] # Empty
  /\ hnd' = [hnd EXCEPT ![n] = Empty]
  /\ UNCHANGED <<slots, owner, op, nodes, todo>>

(***************************************************************************)
(* The event queue: push and execute.                                      *)
(***************************************************************************)

\* Room with a bug: there always is.
Room_Always == TRUE

Room == Len(slots) < Capacity

\* The message moves to its slot, its mutex locked within that of the queue.
Push ==
  /\ HasAll(Stream)
  /\ op[Stream].kind = "push"
  /\ Room
  /\ Len(op[Stream].locks) = 2
  /\ slots' = Append(slots, hnd["message"])
  /\ hnd' = [hnd EXCEPT !["message"] = Empty]
  /\ todo' = todo - 1
  /\ Then(Stream, "unlock")
  /\ UNCHANGED <<owner, nodes>>

LockMessage ==
  /\ HasAll(Stream)
  /\ op[Stream].kind = "push"
  /\ Room
  /\ Len(op[Stream].locks) = 1
  /\ op' = [op EXCEPT ![Stream].locks = @ \o Mutex("message")]
  /\ UNCHANGED <<hnd, slots, owner, nodes, todo>>

\* Without room the message stays with its sender, who destroys it; a sender
\* that is refused gives up the other nodes.
Refuse ==
  /\ HasAll(Stream)
  /\ op[Stream].kind = "push"
  /\ ~Room
  /\ todo' = 0
  /\ Then(Stream, "unlock")
  /\ UNCHANGED <<hnd, slots, owner, nodes>>

Pop ==
  /\ HasAll(Event)
  /\ op[Event].kind = "pop"
  /\ slots' = Tail(slots)
  /\ hnd' = [hnd EXCEPT !["received"] = Head(slots)]
  /\ Then(Event, "unlock")
  /\ UNCHANGED <<owner, nodes, todo>>

(***************************************************************************)
(* sendEventToAllNodes in the stream thread: one node gets the event       *)
(* itself, several get clones of it, and the event is destroyed.           *)
(***************************************************************************)
Send ==
  \/ /\ todo = 0 /\ hnd["message"] = Empty
     /\ Create(Stream, "sent")
     /\ todo' = nodes
  \/ /\ todo > 0
     /\ hnd["sent"] # Empty /\ hnd["message"] = Empty
     /\ IF nodes = 1
          THEN Move(Stream, "message", "sent")
          ELSE Copy(Stream, "message", "sent")
  \/ /\ hnd["message"] # Empty /\ todo > 0
     /\ Begin(Stream, Operation("push", "message", "message", <<Queue>>))
  \/ todo = 0 /\ \E n \in Owned(Stream) : Destroy(Stream, n)

(***************************************************************************)
(* The event thread: execute and the handlers.                             *)
(***************************************************************************)

\* MayPush with a bug: any handler may send an event while it reads.
MayPush_Any == TRUE

\* In the graphs of the application the handlers that do read what is sent to
\* one node only.
MayPush == nodes = 1

\* MayAssign with a bug: any handle may be assigned to any other.
MayAssign_Any(dst, src) == TRUE

\* Assignment tests that the two handles differ, not that their mutexes do.
\* A node assigns only to a member that is empty or has another object than
\* the one that comes, as each event brings an object of its own.
MayAssign(dst, src) == hnd[dst] = Empty \/ hnd[dst].mutex # hnd[src].mutex

Handlers ==
  \/ /\ hnd["received"] = Empty /\ hnd["made"] = Empty
     /\ slots # <<>>
     /\ LET head == slots[1].mutex
        IN  Begin(Event, Operation("pop", "received", "received", <<Queue, head>>))
  \/ Create(Event, "made") /\ UNCHANGED todo
  \/ \E n \in Owned(Event) : Destroy(Event, n) \/ Reset(Event, n) \/ Read(Event, n)
  \/ MayPush /\ \E n \in Owned(Event) : ReadAndPush(Event, n)
  \/ \E dst \in Members, src \in Owned(Event) :
       dst # src /\ MayAssign(dst, src) /\ (Copy(Event, dst, src) \/ Move(Event, dst, src))

Next ==
  \/ \E t \in Threads : Acquire(t) \/ Change(t) \/ Unlock(t) \/ Settle(t)
  \/ LockMessage \/ Push \/ Refuse
  \/ Pop
  \/ Send
  \/ Handlers

Spec == Init /\ [][Next]_vars

(***************************************************************************)
(* Properties.                                                             *)
(***************************************************************************)

\* Type correctness of the handles, the queue, the mutexes and operations.
TypeOK ==
  /\ hnd \in [Names -> Handle]
  /\ slots \in Seq(Handle)
  /\ Len(slots) <= Capacity
  /\ owner \in [Mutexes -> Threads \cup {Null}]
  /\ op \in [Threads -> Operations \cup {Null}]
  /\ \A t \in Threads :
       op[t] # Null => {op[t].dst, op[t].src} \subseteq Owned(t) /\ op[t].taken <= Len(op[t].locks)
  /\ nodes \in FanOuts
  /\ todo \in Nat

\* The handles that no operation is changing.
Steady(n) == \A t \in Threads : op[t] # Null => op[t].step = "lock" \/ n \notin {op[t].dst, op[t].src}
SteadyHandles == {hnd[n] : n \in {n \in Names : Steady(n)}} \cup {slots[i] : i \in DOMAIN slots}

\* Although the two pointers are copied at different times, with and without
\* the lock, all the handles of an object have the same mutex, and a mutex
\* protects one object: who holds it excludes every other user.
OneMutexPerObject ==
  \A g, h \in {h \in SteadyHandles : h.obj # Null} :
    /\ g.mutex # Null
    /\ g.obj = h.obj <=> g.mutex = h.mutex

\* A mutex lives as long as a thread holds it or waits for it: the pointer to
\* it is dropped only after the release.
MutexAlive ==
  \A t \in Threads :
    op[t] # Null /\ op[t].step \in {"lock", "unlock"} =>
      \A i \in DOMAIN op[t].locks : op[t].locks[i] \notin FreeMutexes

\* push locks the queue and then the buffer, a handler that sends an event
\* while it reads locks the buffer and then the queue, an assignment locks two
\* buffers: nevertheless no thread waits for a mutex that it holds itself, and
\* the two threads never wait for each other.
NoCircularWait ==
  /\ \A t \in Threads : Waits(t) => owner[NextLock(t)] # t
  /\ ~ \A t \in Threads : Waits(t) /\ owner[NextLock(t)] \in Threads \ {t}

\* "If mutex is nullptr then the object is also nullptr", says create_with, but
\* a value is constructed on the null pointer before that is tested.  No thread
\* does so if the pools have three blocks more than the slots and the members
\* can use: one for the event in hand, one for the buffer the handler makes and
\* one for the buffer of the stream thread.
PoolSuffices == \A t \in Threads : op[t] # Null => op[t].step # "fault"
=============================================================================
