\* Three processes that crash anywhere; each acts on what it has just seen
\* before others have changed it.
SPECIFICATION FairSpec
CONSTANTS
  Nobody = Nobody
  Process = {p1, p2, p3}
  Fault = {"crash"}

  
PROPERTIES
  
  NeverWedged
CHECK_DEADLOCK FALSE
