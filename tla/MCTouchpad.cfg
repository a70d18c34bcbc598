SPECIFICATION FairSpec
CONSTANTS
  Peers = {p, q}
  Cabled = {p}
  NoOne = NoOne
  Fingers = {1, 2}
  Sizes = {1}
  SLOTS = 2
  MaxMoves = 3
  MaxFaults = 2
INVARIANTS LastWordCounts OpenIffOwned
PROPERTIES KeepsContact UsbLifts
CHECK_DEADLOCK FALSE
