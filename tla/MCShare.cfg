SPECIFICATION Spec
CONSTANTS
  t1 = t1
  Transfers = {t1}
  Before = {{0}, {1}, {0, 1}}
  MaxAccepts = 2
  MaxCopies = 2
  Quitters = {"receiver"}
INVARIANTS EndsOnce SuccessIsReal ListenerIsTimed
PROPERTY NeverReplaced
