SPECIFICATION Spec
CONSTANTS
  Transports = {1, 2}
  Narrow = {2}
  NoBulk = {}
  PerTransport = 1
  NoLink = NoLink
  Ties = TRUE
  MaxSealed = 2
  MaxNow = 3
INVARIANTS InStep SameKeyIfLone
