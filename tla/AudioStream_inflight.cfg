SPECIFICATION Spec
CONSTANTS
  Schedule <- SpeakerGraph
  BufferOf <- FifoBuffer
  SignalOf <- Signal
  FittingFifos <- Fitting
  Connections <- the_graph
  Garbage = Garbage
  SourceMaster = FALSE
  SinkMaster = TRUE
  DriversFail = FALSE
  SourceBlocks = 2
  SinkBlocks = 3
  NoBlock = NoBlock
PROPERTIES NoWriteInFlight
CHECK_DEADLOCK FALSE
