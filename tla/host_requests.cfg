\* Three calls on two workers, a store for one key, answers that come too late.
SPECIFICATION Spec
CONSTANTS
  w1 = w1
  w2 = w2
  c1 = c1
  c2 = c2
  c3 = c3
  k1 = k1
  k2 = k2
  f1 = f1
  f2 = f2
  Call = {c1, c2, c3}
  Key = {k1, k2}
  Worker = {w1, w2}
  Asks <- MCAsks
  None = None
  MaxEntries = 1
  Fault = {"slow"}
SYMMETRY MCSymmetry
INVARIANTS
  SingleRunner
  AnswersTrue
  KeysHeld
PROPERTIES
  DoneOnce
CHECK_DEADLOCK FALSE
