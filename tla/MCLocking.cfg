SPECIFICATION Spec
CONSTANTS
  Peers = {p, q}
  Sessions = {1, 2}
  Wayland = {1}
  MaxChanges = 2
  MaxRequests = 1
  MaxPolls = 1
INVARIANTS InStep NothingLeftUnlocked OutcomeWasRead
CHECK_DEADLOCK FALSE
