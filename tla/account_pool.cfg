\* Two requests on two accounts; clients leave, networks fail, operators log in.
SPECIFICATION Spec
CONSTANTS
  m1 = m1
  m2 = m2
  Member = {m1, m2}
  Request = {r1, r2}
  MaxPrint = 2
  Replaced <- MCReplaced
  None = None
  Fault = {"abort", "network", "relogin"}
SYMMETRY MCSymmetry
INVARIANTS
  OneRefresh
  ProbationAlone
  LeasesReturned
  
PROPERTIES
  RejectedStays
CHECK_DEADLOCK FALSE
