\* Every kind of mutation, with failing steps, and with a sidecar refresh that
\* fails after the commit; each step the daemon goes on with is fair.
SPECIFICATION FairSpec
CONSTANTS
  a1 = a1
  a2 = a2
  c1 = c1
  d0 = d0
  d1 = d1
  s1 = s1
  s2 = s2
  Native <- MCNative
  Cliproxy <- MCCliproxy
  Document <- MCDocument
  InitialDocument = d0
  Slot <- MCSlot
  Kind = {"accounts.enroll", "accounts.enrollActivate", "accounts.remove", "accounts.removeCliproxy", "accounts.rename", "accounts.sync", "config.update", "providers.set", "daemon.reload"}
  Fault = {"step", "late"}
  MaxRevision = 2
INVARIANTS ServingMatchesDisk VaultClosed
PROPERTIES RevisionNamesConfig OperationSettles
CHECK_DEADLOCK FALSE
