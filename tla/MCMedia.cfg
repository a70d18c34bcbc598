SPECIFICATION FairSpec
CONSTANTS
  Peers = {p, q}
  Players = {1, 2}
  Controls = {1}
  Tracks = {1, 2}
  Volumes = {0, 1}
  Verbs = {"query", "playpause", "volume"}
  MaxChanges = 2
  MaxRequests = 1
  MaxPolls = 1
INVARIANT InStep
PROPERTIES Answered EveryoneCurrent
CHECK_DEADLOCK FALSE
