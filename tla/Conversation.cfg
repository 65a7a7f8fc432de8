SPECIFICATION TalkFairSpec
CONSTANTS
  MCLastSeq = 6
  SeqNums <- MCSeqNums
  Frames = {1, 2}
  MinimalSize = 2
  MaxSize = 3
  InFlight = 2
  MaxLost = 1
  LastFormer = 4
INVARIANTS
  DeafOnlyForFormer
PROPERTIES
  HeardAgain
CHECK_DEADLOCK FALSE
