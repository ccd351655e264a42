--------------------------- MODULE KeywordSpotting ---------------------------
(***************************************************************************)
(* The graph of kws.py, where the stream thread and the event thread meet: *)
(*                                                                         *)
(*   SendToNetwork -> event queue -> TFLite -> KWSClassify -> KWSDisplay   *)
(*                 <-- acknowledgement --                                  *)
(*                                                                         *)
(* SendToNetwork sends a tensor only while "ready" is set: TFLite sets it  *)
(* by a kDo event when it has been initialised and after each inference,   *)
(* from the event thread; the stream thread clears it after a send.  No    *)
(* lock protects the two steps, only the priority of the stream thread.    *)
(* KWSDisplay draws a word and lets it fade: each frame asks for the next  *)
(* one with a kDo event, which may expire in the queue.                    *)
(*                                                                         *)
(* The event queue is PriorityFifo, which EventQueue implements.  Of the   *)
(* signal, the network and the images only the word is kept, and of the    *)
(* time whether the word has had its two seconds.                          *)
(***************************************************************************)
EXTENDS Integers, Sequences, FiniteSets

CONSTANTS
  Words,           \* the labels that KWSClassify passes on
  Capacity,        \* the most events a priority of the queue holds
  OtherPriorities, \* the priorities at which other nodes send events
  NoMsg            \* the event thread serves nothing

\* Priorities, as setPriority numbers them; the events.
NbPriorities == 3
KNormal == 1
KHigh == 2
Tensor == [node |-> "network", priority |-> KHigh, ttl |-> FALSE]
FrameRequest(ttl) == [node |-> "display", priority |-> KNormal, ttl |-> ttl]
Other(p) == [node |-> "other", priority |-> p, ttl |-> FALSE]
Events == {Tensor} \cup {FrameRequest(ttl) : ttl \in BOOLEAN} \cup {Other(p) : p \in OtherPriorities}
Black == "black"

ASSUME KwsAssumption ==
  /\ Capacity \in Nat \ {0}
  /\ OtherPriorities \subseteq 0 .. NbPriorities - 1
  /\ NoMsg \notin Events
  /\ Black \notin Words

VARIABLES
  pcS,           \* the stream thread: in init, asleep until a block of audio
                 \* comes, in SendToNetwork::run, or ended
  ready,         \* SendToNetwork::ready
  locked,        \* the event thread holds queue_mutex
  pcE,           \* the event thread, through the calls nested in an event
  inputReceived, \* TFLite::inputReceived, all the inputs are there
  lost,          \* an inference was not acknowledged
  word,          \* KWSDisplay::currentImg
  displayLast,   \* KWSDisplay::displayLast
  faded,         \* more than "duration" has passed since startMs
  screen,        \* the word the display shows, or Black
  dropped,       \* the last request for a frame was refused or has expired
  evq,           \* the events that wait, by priority
  serving        \* the event being handled

stream  == <<pcS, ready>>
network == <<inputReceived, lost>>
display == <<word, displayLast, faded, screen, dropped>>
waits   == <<evq, serving>>
vars    == <<stream, locked, pcE, network, display, waits>>

Queue == INSTANCE PriorityFifo WITH Message <- Events, q <- evq, phase <- "open"

Init ==
  /\ pcS = "init"
  /\ ready = FALSE
  /\ locked = FALSE
  /\ pcE = "idle"
  /\ inputReceived = FALSE
  /\ lost = FALSE
  /\ word = Black
  /\ displayLast = FALSE
  /\ faded = TRUE
  /\ screen = Black
  /\ dropped = FALSE
  /\ Queue!Init

Full(m) == Len(evq[m.priority]) >= Capacity

\* Push with a bug: it does not test for room.
Push_Unbounded(m) == evq' = [evq EXCEPT ![m.priority] = Append(@, m)] /\ UNCHANGED serving

\* push, which refuses an event that finds its ring full.
Push(m) == Queue!Enqueue(m) \/ (Full(m) /\ UNCHANGED waits)

(***************************************************************************)
(* The stream thread.                                                      *)
(***************************************************************************)

\* TFLite::init sends its kDo synchronously; if it fails nothing is started.
InitNetwork ==
  /\ pcS = "init"
  /\ \/ pcS' = "wait" /\ ready' = TRUE
     \/ pcS' = "end" /\ UNCHANGED ready
  /\ UNCHANGED <<locked, pcE, network, display, waits>>

\* A block of audio wakes the stream thread, or an error of the audio ends it.
AudioBlock ==
  /\ pcS = "wait"
  /\ pcS' \in {"run", "end"}
  /\ UNCHANGED <<ready, locked, pcE, network, display, waits>>

\* SendToNetwork::run: the test of ready.
TestReady ==
  /\ pcS = "run"
  /\ pcS' = IF ready THEN "push" ELSE "wait"
  /\ UNCHANGED <<ready, locked, pcE, network, display, waits>>

\* sendAsync waits for queue_mutex.  A refused tensor leaves ready set.
SendTensor ==
  /\ pcS = "push"
  /\ ~locked
  /\ Push(Tensor)
  /\ pcS' = IF Full(Tensor) THEN "wait" ELSE "store"
  /\ UNCHANGED <<ready, locked, pcE, network, display>>

\* ready.store(false)
ClearReady ==
  /\ pcS = "store"
  /\ pcS' = "wait"
  /\ ready' = FALSE
  /\ UNCHANGED <<locked, pcE, network, display, waits>>

(***************************************************************************)
(* The event thread, of lower priority than the stream thread whatever     *)
(* event it handles: it runs only while the stream thread sleeps or waits  *)
(* for the mutex.                                                          *)
(***************************************************************************)

\* EventMayRun with a bug: the event thread has no lower priority.
EventMayRun_Always == TRUE

EventMayRun == pcS \in {"wait", "end"} \/ (pcS = "push" /\ locked)

Goto(from, to) == EventMayRun /\ pcE = from /\ pcE' = to

\* execute: queue_mutex is taken, and given back with or without an event.
Lock ==
  /\ Goto("idle", "take")
  /\ locked' = TRUE
  /\ UNCHANGED <<stream, network, display, waits>>

Take ==
  /\ Goto("take", "serve")
  /\ locked' = FALSE
  /\ \E p \in 0 .. NbPriorities - 1 : Queue!Dequeue(p)
  /\ UNCHANGED <<stream, network, display>>

TakeNothing ==
  /\ Goto("take", "idle")
  /\ \A p \in 0 .. NbPriorities - 1 : evq[p] = <<>>
  /\ locked' = FALSE
  /\ UNCHANGED <<stream, network, display, waits>>

Serve(node) == serving # NoMsg /\ serving.node = node

\* The time to live is over: the request is not handled.
Expire ==
  /\ Goto("serve", "idle")
  /\ serving # NoMsg /\ serving.ttl
  /\ Queue!Release
  /\ dropped' = TRUE
  /\ UNCHANGED <<stream, locked, network, word, displayLast, faded, screen>>

ServeOther ==
  /\ Goto("serve", "idle")
  /\ Serve("other")
  /\ Queue!Release
  /\ UNCHANGED <<stream, locked, network, display>>

(***************************************************************************)
(* TFLite and KWSClassify.                                                 *)
(***************************************************************************)

\* convertReceivedF32Tensor: the tensor is copied to the input of the network;
\* when it is not, for its type or an error of its mutex, nothing follows.
ReceiveTensor ==
  /\ EventMayRun
  /\ pcE = "serve"
  /\ Serve("network")
  /\ \/ pcE' = "infer" /\ inputReceived' = TRUE /\ UNCHANGED <<lost, waits>>
     \/ pcE' = "idle" /\ lost' = TRUE /\ Queue!Release /\ UNCHANGED inputReceived
  /\ UNCHANGED <<stream, locked, display>>

\* tryInference, when all the inputs are there.
Infer ==
  /\ Goto("infer", "classify")
  /\ inputReceived
  /\ inputReceived' = FALSE
  /\ UNCHANGED <<stream, locked, lost, display, waits>>

\* Invoke fails: tryInference returns, without an acknowledgement.
InferFails ==
  /\ Goto("infer", "idle")
  /\ inputReceived' = FALSE
  /\ lost' = TRUE
  /\ Queue!Release
  /\ UNCHANGED <<stream, locked, display>>

\* sendTensor, KWSClassify::sendLabel and KWSDisplay::newValue, for a class
\* that is one of the words: it is drawn, in full brightness.
NewValue ==
  /\ Goto("classify", "request")
  /\ word' \in Words
  /\ screen' = word'
  /\ displayLast' = TRUE
  /\ faded' = FALSE
  /\ UNCHANGED <<stream, locked, network, dropped, waits>>

\* NoLabel with a bug: a class that is not shown is not acknowledged.
NoLabel_Silent ==
  /\ Goto("classify", "idle")
  /\ Queue!Release
  /\ UNCHANGED <<stream, locked, network, display>>

\* Another class, or a tensor that is not passed on.
NoLabel ==
  /\ Goto("classify", "ack")
  /\ UNCHANGED <<stream, locked, network, display, waits>>

\* The first request for a frame has no time to live.
RequestFirst ==
  /\ Goto("request", "ack")
  /\ Push(FrameRequest(FALSE))
  /\ dropped' = Full(FrameRequest(FALSE))
  /\ UNCHANGED <<stream, locked, network, word, displayLast, faded, screen>>

\* The acknowledgement, a synchronous kDo.  Then processEvent hands the same
\* tensor to convertReceivedInt8Tensor, which takes no float and infers only
\* if the inputs are still there.
Acknowledge ==
  /\ EventMayRun
  /\ pcE = "ack"
  /\ ready' = TRUE
  /\ IF inputReceived
       THEN pcE' = "infer" /\ UNCHANGED waits
       ELSE pcE' = "idle" /\ Queue!Release
  /\ UNCHANGED <<pcS, locked, network, display>>

(***************************************************************************)
(* KWSDisplay.                                                             *)
(***************************************************************************)

NextFrame == ~faded \/ displayLast

\* GenNewFrame with a bug: each frame starts the two seconds again.
GenNewFrame_RestartsClock ==
  /\ Goto("serve", "again")
  /\ Serve("display")
  /\ NextFrame
  /\ screen' = IF faded THEN Black ELSE word
  /\ displayLast' = (displayLast /\ ~faded)
  /\ faded' = FALSE
  /\ UNCHANGED <<stream, locked, network, word, dropped, waits>>

\* genNewFrame draws the word dimmer, or once black; otherwise it has done.
GenNewFrame ==
  /\ Goto("serve", "again")
  /\ Serve("display")
  /\ NextFrame
  /\ screen' = IF faded THEN Black ELSE word
  /\ displayLast' = (displayLast /\ ~faded)
  /\ UNCHANGED <<stream, locked, network, word, faded, dropped, waits>>

GenNothing ==
  /\ Goto("serve", "idle")
  /\ Serve("display")
  /\ ~NextFrame
  /\ Queue!Release
  /\ UNCHANGED <<stream, locked, network, display>>

\* RequestNext with a bug: it asks once, as newValue does, and never again.
RequestNext_Once ==
  /\ Goto("again", "idle")
  /\ evq' = evq
  /\ serving' = NoMsg
  /\ UNCHANGED <<stream, locked, network, display>>

\* The request for the next frame expires after 40 ms; the event ends.
RequestNext ==
  /\ Goto("again", "idle")
  /\ evq' = IF Full(FrameRequest(TRUE)) THEN evq
            ELSE [evq EXCEPT ![KNormal] = Append(@, FrameRequest(TRUE))]
  /\ serving' = NoMsg
  /\ dropped' = Full(FrameRequest(TRUE))
  /\ UNCHANGED <<stream, locked, network, word, displayLast, faded, screen>>

(***************************************************************************)
(* The environment.                                                        *)
(***************************************************************************)

TimePasses ==
  /\ ~faded
  /\ faded' = TRUE
  /\ UNCHANGED <<stream, locked, pcE, network, word, displayLast, screen, dropped, waits>>

OtherPush ==
  /\ pcS # "init"
  /\ ~locked
  /\ \E p \in OtherPriorities : Queue!Enqueue(Other(p))
  /\ UNCHANGED <<stream, locked, pcE, network, display>>

(***************************************************************************)
(* Specification.                                                          *)
(***************************************************************************)

SendNode == TestReady \/ SendTensor \/ ClearReady

EventThread ==
  \/ Lock
  \/ Take
  \/ TakeNothing
  \/ Expire
  \/ ServeOther
  \/ ReceiveTensor
  \/ Infer
  \/ InferFails
  \/ NewValue
  \/ NoLabel
  \/ RequestFirst
  \/ Acknowledge
  \/ GenNewFrame
  \/ GenNothing
  \/ RequestNext

Next ==
  \/ InitNetwork
  \/ AudioBlock
  \/ SendNode
  \/ EventThread
  \/ TimePasses
  \/ OtherPush

Spec == Init /\ [][Next]_vars

(***************************************************************************)
(* The stream thread sleeps between two blocks long enough for the event   *)
(* thread to go on (otherwise the audio overflows and ends), and it does   *)
(* not for ever wake up just between an acknowledgement and the next look  *)
(* into the queue.                                                         *)
(***************************************************************************)
Fairness ==
  /\ WF_vars(InitNetwork)
  /\ WF_vars(SendNode)
  /\ SF_vars(EventThread)
  /\ SF_vars(Lock /\ evq[KHigh] = <<>>)
  /\ WF_vars(TimePasses)

FairSpec == Spec /\ Fairness

(***************************************************************************)
(* Properties.                                                             *)
(***************************************************************************)

\* Type correctness of the flags, the threads, the display and the queue.
TypeOK ==
  /\ pcS \in {"init", "wait", "run", "push", "store", "end"}
  /\ {ready, locked, inputReceived, lost, displayLast, faded, dropped} \subseteq BOOLEAN
  /\ pcE \in {"idle", "take", "serve", "infer", "classify", "request", "ack", "again"}
  /\ word \in Words \cup {Black}
  /\ screen \in Words \cup {Black}
  /\ evq \in [0 .. NbPriorities - 1 -> Seq(Events)]
  /\ \A p \in 0 .. NbPriorities - 1 : Len(evq[p]) <= Capacity
  /\ serving \in Events \cup {NoMsg}

Waiting(m) == {i \in 1 .. Len(evq[m.priority]) : evq[m.priority][i] = m}

\* Where the permission to use the network can be: with SendToNetwork (not
\* while it has sent and not yet cleared ready), or with the event thread.
Permission ==
  {place \in {"sender", "network"} :
     \/ place = "sender" /\ ready /\ pcS # "store"
     \/ place = "network" /\ serving = Tensor}

\* Between the stream thread and the event thread there is one permission to
\* use the network: it is never doubled, so the input of the network is not
\* overwritten, and it is never lost in between, as it would be if an
\* acknowledgement came between the send and ready.store(false).
OneTensor ==
  pcS \notin {"init", "end"} /\ ~lost =>
    Cardinality(Permission) + Cardinality(Waiting(Tensor)) = 1

\* However many chains of requests the words have started and whichever of
\* them have ended: while a word is on the screen the next frame is requested,
\* or the last request was lost.
FrameRequested ==
  screen # Black =>
    \/ dropped
    \/ pcE \in {"request", "again"}
    \/ serving # NoMsg /\ serving.node = "display"
    \/ \E ttl \in BOOLEAN : Waiting(FrameRequest(ttl)) # {}

\* A tensor that was sent is acknowledged in the end, whatever else is in the
\* queue, unless its inference fails.
ReadyAgain == pcS = "store" ~> (ready /\ pcS # "store") \/ lost

\* A word goes away in the end, if no other word follows, requests for frames
\* are not lost for ever and no other events outrank them.
WordFades ==
  /\ <>[][~NewValue /\ ~OtherPush]_vars
  /\ <>[](~dropped)
  => <>[](screen = Black)
=============================================================================
