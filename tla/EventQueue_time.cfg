CONSTANTS
  s1 = s1
  irq = irq
  evt = evt
  Senders = {s1}
  InterruptThread = irq
  EventThread = evt
  NbPriorities = 1
  MaxElems = 2
  Values = {v1}
  KDo = v1
  EvtPriorities = {0}
  Ttls = {0, 1}
  Dests = {"local"}
  Word = 8
  MsFactor = 2
  TickFreq = 2
  Controls = {}
  FanOut = 1
  MaxReposts = 0
  MaxNow = 5
  NoMsg = NoMsg
  NoThread = NoThread
SPECIFICATION Spec
INVARIANTS StampsOrdered
PROPERTIES FreshNeverDiscarded StaleDiscardedBeforeWrap
