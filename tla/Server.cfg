SPECIFICATION FairSpec
CONSTANTS
  Hashes = {h1, h2, h3}
  Channels = {c1, c2}
  NoChannel = NoChannel
  Timeout = 1
INVARIANTS
  RegistryAgrees
  ChannelIndexAgrees
  RelayTargetsLive
  NoNullSession
PROPERTIES
  RoomSpec
  SilentSessionsFreed
