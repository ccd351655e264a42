CONSTANTS
  Words = {yes, no}
  Capacity = 2
  OtherPriorities = {1, 2}
  NoMsg = NoMsg
SPECIFICATION FairSpec
INVARIANTS TypeOK OneTensor FrameRequested
PROPERTIES ReadyAgain WordFades
