SPECIFICATION Spec
CONSTANTS
  Links = {l1, l2, l3}
  Openers = {o1, o2}
  NoLink = none
  NoOpener = nothing
  MaxSkew = 1
  MaxClock = 3
INVARIANTS StoreIsCurrent AnsweredOnce
PROPERTIES KeepsPromise
