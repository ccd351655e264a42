CONSTANTS
  s1 = s1
  irq = irq
  evt = evt
  Senders = {s1}
  InterruptThread = irq
  EventThread = evt
  NbPriorities = 2
  MaxElems = 2
  Values = {v1}
  KDo = v1
  EvtPriorities = {0, 1}
  Ttls = {0}
  Dests = {"local", "distant"}
  Word = 1
  MsFactor = 2
  TickFreq = 2
  Controls = {"end", "clear", "pause", "handler"}
  FanOut = 2
  MaxReposts = 0
  MaxNow = 0
  NoMsg = NoMsg
  NoThread = NoThread
SPECIFICATION Spec
INVARIANTS RingConsistent
PROPERTIES ImplementsPriorityFifo
