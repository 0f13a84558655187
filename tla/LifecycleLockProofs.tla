------------------------- MODULE LifecycleLockProofs -------------------------
(***************************************************************************)
(* Proofs about LifecycleLock, for any number of processes that may crash   *)
(* but are not slow.  The inductive invariant ties each step of a process   *)
(* to the files: a holder's name is in the lock file; the process in        *)
(* tryReapAndAcquire is the one of the reaper file; and a lock that someone *)
(* is about to clear belongs to the dead.                                   *)
(***************************************************************************)
EXTENDS LifecycleLock, TLAPS

\* The lock file is there and its owner is not.
Orphaned == lock # Absent /\ ~ Alive(lock.owner)

\* Files are not left without a name for long by processes that live.
NamedInTime ==
  /\ lock # Absent /\ ~ lock.written /\ lock.old => ~ Alive(lock.owner)
  /\ reaper # Absent /\ ~ reaper.written /\ reaper.old => ~ Alive(reaper.owner)

OwnsLock ==
  \A p \in Process :
    /\ pc[p] \in {"write", "rewrite"} => lock.owner = p
    /\ pc[p] \in {"held", "remove"} => lock.owner = p
    /\ p \in mine =>
         lock.owner = p /\ pc[p] \in {"write", "rewrite", "held", "unreap"}

OwnsReaper == \A p \in Process : pc[p] \in Reaping => reaper.owner = p

ReapsOrphans ==
  \A p \in Process : pc[p] \in {"reap", "sign", "judge", "clear"} => Orphaned

UnwedgesDead ==
  \A p \in Process : pc[p] = "unwedge" => ~ Alive(reaper.owner)

IInv ==
  /\ TypeOK
  /\ NamedInTime
  /\ OwnsLock
  /\ OwnsReaper
  /\ ReapsOrphans
  /\ UnwedgesDead

-----------------------------------------------------------------------------

\* What is made of a file is a file.
LEMMA FileFacts ==
  /\ Absent \in File
  /\ \A p \in Process : Fresh(p) \in File
  /\ \A p \in Process, f \in File : Signed(f, p) \in File
<1>1. Absent \in File
  BY DEF File
<1>2. \A p \in Process : Fresh(p) \in File
  BY DEF File, Fresh
<1>3. ASSUME NEW p \in Process, NEW f \in File PROVE Signed(f, p) \in File
  <2>1. CASE f.owner = p
    <3>1. f \in [owner : Process, written : BOOLEAN, old : BOOLEAN]
      BY <2>1, NobodyAssumption DEF File, Absent
    <3> QED
      BY <3>1 DEF File, Signed
  <2>2. CASE f.owner # p
    BY <2>2 DEF Signed
  <2> QED
    BY <2>1, <2>2
<1> QED
  BY <1>1, <1>2, <1>3

\* The variables keep to their types, whatever goes wrong: the files are those
\* that the steps of authority-service.ts create, sign and remove.
THEOREM TypeCorrect == Spec => []TypeOK
<1>1. Init => TypeOK
  BY DEF Init, TypeOK, File, Absent, Steps
<1>2. TypeOK /\ [Next]_vars => TypeOK'
  <2> SUFFICES ASSUME TypeOK, [Next]_vars PROVE TypeOK'
    OBVIOUS
  <2> USE NobodyAssumption DEF TypeOK, Steps, Reaping, Go
  <2>f. /\ Absent \in File
        /\ \A p \in Process : Fresh(p) \in File
        /\ \A p \in Process, f \in File : Signed(f, p) \in File
    BY FileFacts
  <2>a. \A f \in File : f # Absent => [f EXCEPT !.old = TRUE] \in File
    BY DEF File, Absent
  <2>1. ASSUME NEW p \in Process, Contend(p) PROVE TypeOK'
    BY <2>1 DEF Contend
  <2>2. ASSUME NEW p \in Process, GiveUp(p) PROVE TypeOK'
    BY <2>2 DEF GiveUp
  <2>3. ASSUME NEW p \in Process, LookAtReaper(p) PROVE TypeOK'
    BY <2>3 DEF LookAtReaper
  <2>4. ASSUME NEW p \in Process, RemoveStaleReaper(p) PROVE TypeOK'
    BY <2>4, <2>f DEF RemoveStaleReaper
  <2>5. ASSUME NEW p \in Process, StatReaper(p) PROVE TypeOK'
    BY <2>5 DEF StatReaper
  <2>6. ASSUME NEW p \in Process, OpenLock(p) PROVE TypeOK'
    BY <2>6, <2>f DEF OpenLock
  <2>7. ASSUME NEW p \in Process, WriteLock(p) PROVE TypeOK'
    BY <2>7, <2>f DEF WriteLock
  <2>8. ASSUME NEW p \in Process, InspectLock(p) PROVE TypeOK'
    BY <2>8 DEF InspectLock
  <2>9. ASSUME NEW p \in Process, OpenReaper(p) PROVE TypeOK'
    BY <2>9, <2>f DEF OpenReaper
  <2>10. ASSUME NEW p \in Process, WriteReaper(p) PROVE TypeOK'
    BY <2>10, <2>f DEF WriteReaper
  <2>11. ASSUME NEW p \in Process, JudgeLock(p) PROVE TypeOK'
    BY <2>11 DEF JudgeLock
  <2>12. ASSUME NEW p \in Process, ClearLock(p) PROVE TypeOK'
    BY <2>12, <2>f DEF ClearLock
  <2>13. ASSUME NEW p \in Process, ReopenLock(p) PROVE TypeOK'
    BY <2>13, <2>f DEF ReopenLock
  <2>14. ASSUME NEW p \in Process, RewriteLock(p) PROVE TypeOK'
    BY <2>14, <2>f DEF RewriteLock
  <2>15. ASSUME NEW p \in Process, RemoveReaper(p) PROVE TypeOK'
    BY <2>15, <2>f DEF RemoveReaper
  <2>16. ASSUME NEW p \in Process, Release(p) PROVE TypeOK'
    BY <2>16 DEF Release
  <2>17. ASSUME NEW p \in Process, RemoveLock(p) PROVE TypeOK'
    BY <2>17, <2>f DEF RemoveLock
  <2>18. ASSUME NEW p \in Process, Crash(p) PROVE TypeOK'
    BY <2>18 DEF Crash
  <2>19. CASE AgeLock
    BY <2>19, <2>a DEF AgeLock, Ages
  <2>20. CASE AgeReaper
    BY <2>20, <2>a DEF AgeReaper, Ages
  <2>21. CASE UNCHANGED vars
    BY <2>21 DEF vars
  <2> QED
    BY <2>1, <2>2, <2>3, <2>4, <2>5, <2>6, <2>7, <2>8, <2>9, <2>10, <2>11, <2>12,
       <2>13, <2>14, <2>15, <2>16, <2>17, <2>18, <2>19, <2>20, <2>21
       DEF Next, Proceed
<1> QED
  BY <1>1, <1>2, PTL DEF Spec

\* Whose file a file is.
LEMMA OwnerFacts ==
  /\ Absent.owner = Nobody
  /\ \A p \in Process : Fresh(p).owner = p /\ ~ Fresh(p).old
  /\ \A p \in Process, f \in File :
       /\ Signed(f, p).owner = f.owner
       /\ Signed(f, p) = Absent <=> f = Absent
       /\ IF f.owner = p THEN Signed(f, p).written ELSE Signed(f, p) = f
  /\ \A f \in File :
       f # Absent => /\ f.owner \in Process
                     /\ [f EXCEPT !.old = TRUE].owner = f.owner
                     /\ [f EXCEPT !.old = TRUE].written = f.written
                     /\ [f EXCEPT !.old = TRUE] # Absent
<1>1. ASSUME NEW p \in Process, NEW f \in File
      PROVE  /\ Signed(f, p).owner = f.owner
             /\ Signed(f, p) = Absent <=> f = Absent
             /\ IF f.owner = p THEN Signed(f, p).written ELSE Signed(f, p) = f
  <2>1. CASE f = Absent
    BY <2>1, NobodyAssumption DEF Signed, Absent
  <2>2. CASE f # Absent
    <3>1. f \in [owner : Process, written : BOOLEAN, old : BOOLEAN]
      BY <2>2 DEF File
    <3> QED
      BY <2>2, <3>1, NobodyAssumption DEF Signed, Absent
  <2> QED
    BY <2>1, <2>2
<1>2. ASSUME NEW f \in File, f # Absent
      PROVE  /\ f.owner \in Process
             /\ [f EXCEPT !.old = TRUE].owner = f.owner
             /\ [f EXCEPT !.old = TRUE].written = f.written
             /\ [f EXCEPT !.old = TRUE] # Absent
  BY <1>2, NobodyAssumption DEF File, Absent
<1> QED
  BY <1>1, <1>2 DEF Absent, Fresh

\* The six parts of the invariant are kept together by every step of processes
\* that are not slow.
LEMMA StepKeepsInv ==
  ASSUME "slow" \notin Fault, IInv, TypeOK', [Next]_vars
  PROVE  IInv'
<1> USE NobodyAssumption, OwnerFacts
      DEF IInv, TypeOK, Steps, Reaping, Go, NamedInTime, OwnsLock, OwnsReaper,
          ReapsOrphans, UnwedgesDead, Orphaned, Alive
<1>1. ASSUME NEW p \in Process, Contend(p) PROVE IInv'
  BY <1>1 DEF Contend
<1>2. ASSUME NEW p \in Process, GiveUp(p) PROVE IInv'
  BY <1>2 DEF GiveUp
<1>3. ASSUME NEW p \in Process, LookAtReaper(p) PROVE IInv'
  BY <1>3 DEF LookAtReaper, Stale
<1>4. ASSUME NEW p \in Process, RemoveStaleReaper(p) PROVE IInv'
  BY <1>4 DEF RemoveStaleReaper
<1>5. ASSUME NEW p \in Process, StatReaper(p) PROVE IInv'
  BY <1>5 DEF StatReaper
<1>6. ASSUME NEW p \in Process, OpenLock(p) PROVE IInv'
  BY <1>6 DEF OpenLock
<1>7. ASSUME NEW p \in Process, WriteLock(p) PROVE IInv'
  BY <1>7 DEF WriteLock
<1>8. ASSUME NEW p \in Process, InspectLock(p) PROVE IInv'
  BY <1>8 DEF InspectLock, Stale
<1>9. ASSUME NEW p \in Process, OpenReaper(p) PROVE IInv'
  BY <1>9 DEF OpenReaper, Prompt
<1>10. ASSUME NEW p \in Process, WriteReaper(p) PROVE IInv'
  BY <1>10 DEF WriteReaper
<1>11. ASSUME NEW p \in Process, JudgeLock(p) PROVE IInv'
  BY <1>11 DEF JudgeLock, Stale
<1>12. ASSUME NEW p \in Process, ClearLock(p) PROVE IInv'
  BY <1>12 DEF ClearLock, Prompt
<1>13. ASSUME NEW p \in Process, ReopenLock(p) PROVE IInv'
  BY <1>13 DEF ReopenLock
<1>14. ASSUME NEW p \in Process, RewriteLock(p) PROVE IInv'
  BY <1>14 DEF RewriteLock
<1>15. ASSUME NEW p \in Process, RemoveReaper(p) PROVE IInv'
  BY <1>15 DEF RemoveReaper
<1>16. ASSUME NEW p \in Process, Release(p) PROVE IInv'
  BY <1>16 DEF Release
<1>17. ASSUME NEW p \in Process, RemoveLock(p) PROVE IInv'
  BY <1>17 DEF RemoveLock
<1>18. ASSUME NEW p \in Process, Crash(p) PROVE IInv'
  BY <1>18 DEF Crash
<1>19. CASE AgeLock
  BY <1>19 DEF AgeLock, Ages
<1>20. CASE AgeReaper
  BY <1>20 DEF AgeReaper, Ages
<1>21. CASE UNCHANGED vars
  BY <1>21 DEF vars
<1> QED
  BY <1>1, <1>2, <1>3, <1>4, <1>5, <1>6, <1>7, <1>8, <1>9, <1>10, <1>11,
     <1>12, <1>13, <1>14, <1>15, <1>16, <1>17, <1>18, <1>19, <1>20,
     <1>21
     DEF Next, Proceed

\* The invariant of the processes and the two files, along every behaviour in
\* which nobody is slow.
THEOREM Inductive == ASSUME "slow" \notin Fault PROVE Spec => []IInv
<1>1. Init => IInv
  BY NobodyAssumption
     DEF Init, IInv, TypeOK, File, Absent, Steps, NamedInTime, OwnsLock,
         OwnsReaper, Reaping, ReapsOrphans, UnwedgesDead
<1>2. IInv /\ TypeOK' /\ [Next]_vars => IInv'
  BY StepKeepsInv
<1> QED
  BY <1>1, <1>2, TypeCorrect, PTL DEF Spec

\* At most one process has the lifecycle lock, however many contend for it and
\* wherever earlier owners and reapers died: acquireLifecycleLock.
THEOREM Exclusion == ASSUME "slow" \notin Fault PROVE Spec => []Exclusive
<1>1. IInv => Exclusive
  BY DEF IInv, OwnsLock, Exclusive, Holds
<1> QED
  BY <1>1, Inductive, PTL

\* No step of a reaper, and no late release of an owner that was replaced,
\* removes the lock file of a process that lives: the nonce guard of release and
\* the second look of tryReapAndAcquire.
THEOREM LiveLockIsKept ==
  ASSUME "slow" \notin Fault PROVE Spec => LiveLockKept
<1> DEFINE Kept ==
      \A p \in Process :
        lock.owner = p /\ Alive(p) => lock'.owner = p \/ pc[p] = "remove"
<1>1. IInv /\ [Next]_vars => Kept
  <2> SUFFICES ASSUME IInv, [Next]_vars, NEW p \in Process,
                      lock.owner = p, Alive(p), lock'.owner # p
               PROVE  pc[p] = "remove"
    OBVIOUS
  <2> USE DEF IInv, TypeOK
  <2>1. lock # Absent
    BY NobodyAssumption, OwnerFacts
  <2>2. ASSUME NEW q \in Process, OpenLock(q) \/ ReopenLock(q) PROVE FALSE
    BY <2>1, <2>2 DEF OpenLock, ReopenLock
  <2>3. ASSUME NEW q \in Process, WriteLock(q) \/ RewriteLock(q) PROVE FALSE
    BY <2>3, OwnerFacts DEF WriteLock, RewriteLock
  <2>4. ASSUME NEW q \in Process, ClearLock(q) PROVE FALSE
    BY <2>4 DEF ClearLock, ReapsOrphans, Orphaned
  <2>5. ASSUME NEW q \in Process, RemoveLock(q) PROVE pc[p] = "remove"
    BY <2>5 DEF RemoveLock, OwnsLock
  <2>6. ~ AgeLock
    BY <2>1, OwnerFacts DEF AgeLock
  <2> QED
    BY <2>2, <2>3, <2>4, <2>5, <2>6
       DEF Next, Proceed, vars, AgeReaper, Contend, GiveUp, LookAtReaper,
           RemoveStaleReaper, StatReaper, InspectLock, OpenReaper, WriteReaper,
           JudgeLock, RemoveReaper, Release, Crash
<1>2. IInv /\ [Next]_vars => [Kept]_vars
  BY <1>1
<1> QED
  BY <1>2, Inductive, PTL DEF Spec, LiveLockKept
=============================================================================
