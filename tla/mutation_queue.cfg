\* Three mutations; a client may disconnect while its mutation runs.
SPECIFICATION FairSpec
CONSTANTS
  m1 = m1
  m2 = m2
  m3 = m3
  Mutation <- MCMutation
  Interruptible = {"running"}
INVARIANTS
  TypeOK
  Serialized
  SnapshotStable
  QuietBeforeDrain

  
CHECK_DEADLOCK FALSE
