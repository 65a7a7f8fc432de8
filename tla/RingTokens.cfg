SPECIFICATION CaptureSpec
CONSTANTS
  Capacity = 3
  Room = 4
  Frame = 2
  Calls <- DeviceCalls
  MaxSamples = 8
INVARIANTS
  SemaphoresBinary
