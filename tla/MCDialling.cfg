SPECIFICATION FairSpec
CONSTANTS
  Transports = {1, 2}
  PerTransport = 2
  Slots = {1, 2}
  NoLink = NoLink
  DialTimeout = 2
  HandshakeTimeout = 2
  ReconnectEvery = 1
  MalformedFrames = TRUE
INVARIANTS UpIsPaired UpIsTold
PROPERTIES LossIsTold KeepsTrying
