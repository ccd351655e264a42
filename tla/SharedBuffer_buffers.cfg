CONSTANTS
  Stream = Stream
  Event = Event
  Members = {"kept"}
  Capacity = 1
  PoolSize = 5
  FanOuts = {1, 2}
  Null = Null
SPECIFICATION Spec
INVARIANTS TypeOK OneMutexPerObject MutexAlive NoCircularWait PoolSuffices
