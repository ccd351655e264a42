CONSTANTS
  s1 = s1
  irq = irq
  evt = evt
  Senders = {s1}
  InterruptThread = irq
  EventThread = evt
  NbPriorities = 2
  MaxElems = 2
  Values = {v1}
  KDo = v1
  EvtPriorities = {0, 1}
  Ttls = {0}
  Dests = {"local"}
  Word = 1
  MsFactor = 2
  TickFreq = 2
  Controls = {"end"}
  FanOut = 1
  MaxReposts = 1
  MaxNow = 0
  NoMsg = NoMsg
  NoThread = NoThread
SPECIFICATION FairSpec
INVARIANTS TypeOK NoLostWakeup ThreadPriority
PROPERTIES ServedOrOutranked EndReturns PushReturns
