SPECIFICATION Spec
CONSTANTS
  Clients = {c}
  Peers = {p, q}
  Nobody = Nobody
  Named = {p}
  Capacity = 1
  MaxQuestions = 2
  MaxNews = 1
  MaxQueue = 1
INVARIANTS TypeOK OnScreenIsAwaited NobodyMissesIt GoneIsTrue
CHECK_DEADLOCK FALSE
