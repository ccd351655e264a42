SPECIFICATION FairSpec
CONSTANTS
  Schedule <- SpeakerGraph
  BufferOf <- FifoBuffer
  SignalOf <- Signal
  FittingFifos <- Fitting
  Connections <- the_graph
  Garbage = Garbage
  SourceMaster = TRUE
  SinkMaster = TRUE
  DriversFail = TRUE
  SourceBlocks = 2
  SinkBlocks = 3
  NoBlock = NoBlock
INVARIANTS TypeOK FlagMeansBlock NodeSound InputsFresh DryNoticed
PROPERTIES UnderflowStops ImplementsDataFlow
CHECK_DEADLOCK FALSE
