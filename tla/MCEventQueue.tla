---------------------------- MODULE MCEventQueue ----------------------------
(***************************************************************************)
(* Instances of EventQueue for TLC: one stream thread, as the application  *)
(* has; the interrupt thread and the event thread push as well.            *)
(***************************************************************************)
EXTENDS EventQueue

CONSTANTS s1, irq, evt \* the stream, interrupt and event threads
=============================================================================
