\* Two requests, two replacements on two ports, one evaluation session.
SPECIFICATION FairSpec
CONSTANTS
  Request = {r1, r2}
  Port = {p1, p2}
  MaxRouter = 2
  Session = {s1}
  Limit <- MCLimit
  Size = {1}
  Owner = Owner
  None = None
  Fault = {"disconnect"}
INVARIANTS
  LeasesCount
  Attached
  Accounted
PROPERTIES
  
  EndsInTime
CHECK_DEADLOCK FALSE
