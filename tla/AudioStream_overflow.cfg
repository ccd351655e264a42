SPECIFICATION FairSpec
CONSTANTS
  Schedule <- SilentGraph
  BufferOf <- FifoBuffer
  SignalOf <- Signal
  FittingFifos <- Fitting
  Connections <- the_graph
  Garbage = Garbage
  SourceMaster = TRUE
  SinkMaster = TRUE
  DriversFail = FALSE
  SourceBlocks = 2
  SinkBlocks = 3
  NoBlock = NoBlock
PROPERTIES OverflowStops
CHECK_DEADLOCK FALSE
