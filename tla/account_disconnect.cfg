\* Mutations without a vault (enroll, cliproxy removal, sync, config.update,
\* providers.set, reload), with steps that fail or throw,
\* interrupted requests and crashes.
SPECIFICATION Spec
CONSTANTS
  a1 = a1
  a2 = a2
  c1 = c1
  d0 = d0
  d1 = d1
  s1 = s1
  s2 = s2
  Native <- MCNative
  Cliproxy <- MCCliproxy
  Document <- MCDocument
  InitialDocument = d0
  Slot <- MCSlot
  Kind = {"accounts.enroll", "accounts.removeCliproxy", "accounts.sync", "config.update", "providers.set", "daemon.reload"}
  Fault = {"step", "late", "throw", "interrupt", "crash"}
  MaxRevision = 2
INVARIANTS ViewsDurable AcknowledgedSurvives
 
CHECK_DEADLOCK FALSE
