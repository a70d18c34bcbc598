SPECIFICATION FairSpec
CONSTANTS
  Devices = {a, b}
  Values = {1, 2}
  Sends = {a, b}
  Receives = {a, b}
  MaxCopies = 3
  MaxFaults = 1
INVARIANTS TypeOK SentOnce
PROPERTIES ComesToRest
CHECK_DEADLOCK FALSE
