SPECIFICATION FairSpec
CONSTANTS
  NbBlocks = 1
  NbFrames = 3
  Faults = {}
  DrawnFrames = {1, 2, 3}
  LcdFaults = {"update", "start", "dsi"}
  NbPriorities = 2
  Capacity = 2
  OtherPriorities = {0}
  NoMsg = NoMsg
PROPERTIES EveryFrameRendered
CHECK_DEADLOCK FALSE
