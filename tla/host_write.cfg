\* Four workers; starts that fail, writes that throw, a restart of the host.
SPECIFICATION Spec
CONSTANTS
  MaxWorker = 4
  Fault = {"start", "write", "stop", "kill"}
  MaxMutation = 2
INVARIANTS
  MutationsServed
CHECK_DEADLOCK FALSE
