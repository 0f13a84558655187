\* Four workers; starts that fail, crashes, and a restart of the host.
SPECIFICATION FairSpec
CONSTANTS
  MaxWorker = 4
  Fault = {"start", "crash", "stop", "kill"}
  MaxMutation = 1
INVARIANTS
  TypeOK
  OneMutator
  
  ActiveServes
  NoOrphan
PROPERTIES
  ActiveRecovered
  
CHECK_DEADLOCK FALSE
