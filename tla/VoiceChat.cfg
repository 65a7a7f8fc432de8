SPECIFICATION FairSpec
CONSTANTS
  Word = 8
  Byte = 4
  Clients = {1, 2}
  Ports = {3, 5}
  ChannelOf <- AskedChannels
  Timeout = 1
  Silence = 2
INVARIANTS
  KeyIsPort
  ChannelsMeet
  OnlyOthersHear
PROPERTIES
  UnservedNoticed
  OldSessionMakesWay
