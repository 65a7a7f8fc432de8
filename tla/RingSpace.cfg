SPECIFICATION PlaybackSpec
CONSTANTS
  Capacity = 5
  Room = 6
  Frame = 2
  Calls <- PlaybackCalls
  MaxSamples = 12
INVARIANTS
  SpaceWhenMixing
