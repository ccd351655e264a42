SPECIFICATION Spec
CONSTANTS
  NbBlocks = 2
  NbFrames = 3
  Faults = {"capture", "error"}
  DrawnFrames = {1, 2, 3}
  LcdFaults = {"start", "dsi"}
  NbPriorities = 2
  Capacity = 2
  OtherPriorities = {0, 1}
  NoMsg = NoMsg
INVARIANTS TypeOK OneFrameInFlight HandleExclusive NextImageWhole
PROPERTIES FramesInOrder
CHECK_DEADLOCK FALSE
