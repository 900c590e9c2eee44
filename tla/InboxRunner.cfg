CONSTANTS
  p1 = p1
  p2 = p2
  worker_ = worker_
  Producers <- MCProducers
  Worker = worker_
  Outcomes <- ProcessorOutcomes
  BufferMode = "Overwriting"
  Capacity = 2
  MaxPosts = 2
SPECIFICATION Spec
INVARIANTS TypeOK NoLostWake WakeOnLiveRunner
PROPERTIES JoinReturns KeepsPromise
CHECK_DEADLOCK FALSE
