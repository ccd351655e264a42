---------------------------- MODULE PriorityFifo ----------------------------
(***************************************************************************)
(* What the event queue promises, without threads, mutex, rings or flags:  *)
(* bounded first-in first-out queues, one per priority; one event is       *)
(* served at a time, the oldest of the highest priority that has one; once *)
(* the queue is asked to end, at most one more event is taken from it.     *)
(***************************************************************************)
EXTENDS Integers, Sequences

CONSTANTS
  NbPriorities, \* number of priorities, the highest is NbPriorities - 1
  Capacity,     \* the most events a priority holds
  Message,      \* what is queued, records with a field "priority"
  NoMsg         \* nothing is being served

VARIABLES
  q,       \* q[p]: the messages of priority p, oldest first
  serving, \* the message being served
  phase    \* "open", "draining" (asked to end) or "closed"

vars == <<q, serving, phase>>

Levels == 0 .. NbPriorities - 1
LevelOf(m) == IF m.priority >= NbPriorities THEN NbPriorities - 1 ELSE m.priority

Init ==
  /\ q = [p \in Levels |-> <<>>]
  /\ serving = NoMsg
  /\ phase = "open"

\* A message is accepted while there is room for it.
Enqueue(m) ==
  /\ Len(q[LevelOf(m)]) < Capacity
  /\ q' = [q EXCEPT ![LevelOf(m)] = Append(@, m)]
  /\ UNCHANGED <<serving, phase>>

\* The next message served; the last one if the queue must end.
Dequeue(p) ==
  /\ serving = NoMsg
  /\ phase # "closed"
  /\ q[p] # <<>>
  /\ \A h \in Levels : h > p => q[h] = <<>>
  /\ serving' = Head(q[p])
  /\ q' = [q EXCEPT ![p] = Tail(@)]
  /\ phase' = IF phase = "open" THEN "open" ELSE "closed"

Release ==
  /\ serving # NoMsg
  /\ serving' = NoMsg
  /\ UNCHANGED <<q, phase>>

Purge ==
  /\ q' = [p \in Levels |-> <<>>]
  /\ UNCHANGED <<serving, phase>>

Shut ==
  /\ \/ phase = "open" /\ phase' \in {"draining", "closed"}
     \/ phase = "draining" /\ phase' = "closed"
  /\ UNCHANGED <<q, serving>>

Next ==
  \/ \E m \in Message : Enqueue(m)
  \/ \E p \in Levels : Dequeue(p)
  \/ Release
  \/ Purge
  \/ Shut

Spec == Init /\ [][Next]_vars
=============================================================================
