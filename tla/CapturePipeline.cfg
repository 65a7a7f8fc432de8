SPECIFICATION FairSpec
CONSTANTS
  Capacity = 2
  Room = 3
  Half = 2
  Frame = 2
  Calls <- DeviceCalls
  MaxSamples = 10
INVARIANTS
  StaleBounded
PROPERTIES
  StreamSpec
  WorkerNeverBlocked
