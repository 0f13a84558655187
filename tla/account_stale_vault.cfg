\* Refuted: a request interrupted between prepare and commit, or whose commit
\* marker throws, leaves its vault behind, and a later start restores it over
\* newer mutations.
SPECIFICATION Spec
CONSTANTS
  a1 = a1
  a2 = a2
  c1 = c1
  d0 = d0
  d1 = d1
  s1 = s1
  s2 = s2
  Native <- MCNative
  Cliproxy <- MCCliproxy
  Document <- MCDocument
  InitialDocument = d0
  Slot <- MCSlot
  Kind = {"accounts.enrollActivate", "accounts.remove", "accounts.rename"}
  Fault = {"throw", "interrupt", "crash"}
  MaxRevision = 2
INVARIANTS AcknowledgedSurvives
CHECK_DEADLOCK FALSE
