------------------------------ MODULE DataFlow ------------------------------
(***************************************************************************)
(* What the data flow graph of create.py promises, without a schedule or   *)
(* buffers: each connection is a FIFO queue of its own; a node that finds  *)
(* a block on each of its inputs takes them and appends one block to each  *)
(* of its outputs.  A block is the number of the firing that made it,      *)
(* modulo NbRounds.                                                        *)
(***************************************************************************)
EXTENDS Integers, Sequences

CONSTANTS
  Nodes,       \* the nodes of the graph
  Connections, \* records: "from" and "to" a node, "fifo" which names it
  NbRounds     \* firings are counted modulo this number

VARIABLES
  q,    \* q[c]: the blocks that wait on the connection c, oldest first
  fired \* fired[n]: the firings of the node n

vars == <<q, fired>>

Init ==
  /\ q = [c \in Connections |-> <<>>]
  /\ fired = [n \in Nodes |-> 0]

Fire(n) ==
  /\ \A c \in Connections : c.to = n => q[c] # <<>>
  /\ q' = [c \in Connections |->
             LET rest == IF c.to = n THEN Tail(q[c]) ELSE q[c]
             IN  IF c.from = n THEN Append(rest, fired[n]) ELSE rest]
  /\ fired' = [fired EXCEPT ![n] = (@ + 1) % NbRounds]

Next == \E n \in Nodes : Fire(n)

Spec == Init /\ [][Next]_vars
=============================================================================
