SPECIFICATION Spec
CONSTANTS
  Links = {l1, l2, l3}
  Devices = {d1, d2}
  NoLink = none
  NoDevice = nobody
  AcceptPairRequests = TRUE
  HandshakeTimeout = 1
  PairCooldown = 2
  PairingWindow = 3
  PairDeniedCooldown = 4
  LateTicks = FALSE
  MaxDials = 2
PROPERTY NeverSwapped
