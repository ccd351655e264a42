SPECIFICATION Spec
CONSTANTS
  NbBlocks = 3
  NbFrames = 5
  Faults = {"capture", "error"}
INVARIANTS TypeOK NoOverwrite NewestFramesKept
