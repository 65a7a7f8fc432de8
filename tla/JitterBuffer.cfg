SPECIFICATION FairSpec
CONSTANTS
  MCLastSeq = 4
  SeqNums <- MCSeqNums
  Frames = {f1, f2}
  MinimalSize = 2
  MaxSize = 3
INVARIANTS
  TypeOK
  PlayedInOrder
  Bounded
  EnoughMeansPrimed
PROPERTIES
  LossOnlyWhenFull
  PlayoutSpec
  WaitingFramesLeave
