SPECIFICATION FairCaptureSpec
CONSTANTS
  Capacity = 3
  Room = 4
  Frame = 2
  Calls <- DeviceCalls
  MaxSamples = 8
INVARIANTS
  NeverShort
  NoLostData
PROPERTIES
  RingStream
  FullFrameTaken
