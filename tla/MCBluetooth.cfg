SPECIFICATION FairSpec
CONSTANTS
  MaxCentrals = 2
  Watchers = {w}
  Lengths <- MCLengths
  FragmentSize = 2
  MaxMessage = 4
  MaxConnects = 2
  MaxInFlight = 3
  MaxOvertakes = 1
  MaxFaults = 1
INVARIANTS TypeOK CoreAgrees WholeMessages
PROPERTIES GoneIsRetired BackOnAir
CHECK_DEADLOCK FALSE
