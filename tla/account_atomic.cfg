\* Journalled mutations with failing steps and crashes: two native accounts, one
\* cliproxy account, two transaction directories, revisions up to 3.
SPECIFICATION Spec
CONSTANTS
  a1 = a1
  a2 = a2
  c1 = c1
  d0 = d0
  d1 = d1
  s1 = s1
  s2 = s2
  Native <- MCNative
  Cliproxy <- MCCliproxy
  Document <- MCDocument
  InitialDocument = d0
  Slot <- MCSlot
  Kind = {"accounts.enrollActivate", "accounts.remove", "accounts.rename"}
  Fault = {"step", "crash"}
  MaxRevision = 3
INVARIANTS TypeOK RestartWhole
PROPERTIES MutationsAtomic
CHECK_DEADLOCK FALSE
