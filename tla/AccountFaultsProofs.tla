------------------------ MODULE AccountFaultsProofs ------------------------
(***************************************************************************)
(* Theorems about AccountTransaction outside the scope of                   *)
(* AccountTransactionProofs, for any accounts, documents and transaction    *)
(* directories, and any bound on the revisions.                             *)
(*                                                                         *)
(* Vaultless: the handlers that keep no vault, under every fault (the run   *)
(* account_disconnect).  Steady: every handler, with steps that fail before *)
(* or after the commit marker and a process that may die anywhere, but with *)
(* no request interrupted and no call that throws (the runs account_faults  *)
(* and account_atomic).  With those two a handler ends in the middle, and   *)
(* the properties of Steady are false (account_stale_vault).                *)
(***************************************************************************)
EXTENDS AccountTransactionProofs

Vaultless == Kind \cap JournalledKinds = {}
Steady == Fault \subseteq {"step", "late", "crash"}

-----------------------------------------------------------------------------
(* Handlers without a vault, under every fault.                             *)

\* A handler runs, and its views are published.
Running == op.kind \notin {"none", "recovery"}
Published == {"reconcile", "retire", "cleanup"}

\* No vault is ever made, and the handlers pass the steps without one.
PlainControl ==
  /\ op.kind # "recovery" /\ ~ Journalled(op)
  /\ op.kind = "none" <=> pc \in {"idle", "down"}
  /\ pc \in {"write", "refresh", "start", "config", "revisions", "views", "idle",
             "down"} \cup Published \cup Undoing
  /\ \A s \in Slot : journal[s] = "absent"

\* How far the files have got, and what memory publishes meanwhile.
PlainFiles ==
  /\ pc \in {"idle", "write", "refresh", "start", "config", "undo"}
            \cup Published =>
       memory.config = disk.config /\ memory.revisions = disk.revisions
  /\ Running /\ pc \notin Published =>
       /\ memory.config = op.prevConfig
       /\ memory.revisions = op.prevRevisions
  /\ pc \in {"revisions", "views"} \cup Published => disk.config = op.goal.config
  /\ pc = "revisions" => disk.revisions = op.prevRevisions
  /\ pc \in {"views"} \cup Published => disk.revisions = op.goal.revisions
  /\ pc = "undoConfig" /\ ~ op.write => disk.config = op.prevConfig
  /\ pc = "undoRevisions" => disk.config = op.prevConfig

\* What the running handler means to do: numbers only grow, and a new account
\* is not one that already serves.
PlainIntent ==
  Running =>
    /\ ~ op.write => op.goal.config = op.prevConfig
    /\ op.prevRevisions.config <= op.goal.revisions.config
    /\ op.prevRevisions.accounts <= op.goal.revisions.accounts
    /\ op.out \subseteq Cliproxy
    /\ op.in \cap op.prevRouter.account = {}

\* The records are those of the file, of enrolled accounts: a native account that
\* serves, or has served and is quarantined, is never taken from the files.
PlainQuarantine ==
  /\ memory.rejected = disk.auth
  /\ disk.auth \subseteq disk.account
  /\ (router.account \cup target.account) \cap Native \subseteq disk.account
  /\ pc \in {"config", "revisions", "views", "reconcile"} =>
       candidate.account \cap Native \subseteq disk.account
  /\ Running =>
       /\ op.prevRouter.account \cap Native \subseteq disk.account
       /\ pc \notin {"retire", "cleanup"} =>
            op.in \cap (target.account \cup disk.auth) = {}
       /\ pc \notin Published => op.in \cap router.account = {}

\* What clients were told is not newer than the files, nor than what a running
\* handler would put back.
PlainAcked ==
  /\ acked.config <= disk.revisions.config
  /\ acked.accounts <= disk.revisions.accounts
  /\ Running =>
       /\ acked.config <= op.prevRevisions.config
       /\ acked.accounts <= op.prevRevisions.accounts

PlainInv ==
  /\ TypeOK
  /\ PlainControl
  /\ PlainIntent
  /\ PlainFiles
  /\ PlainQuarantine
  /\ PlainAcked

\* The initial states,
LEMMA PlainInit == Init => PlainInv
  BY InitType
  DEF Init, PlainInv, PlainControl, PlainIntent, PlainFiles, PlainQuarantine,
            PlainAcked, Running, Published, Undoing, Vaultless, Journalled,
            JournalledKinds,
            TypeOK, Memory, Files, Op, Router, durables, views, NoOp,
            NoRouter, NoFiles, NoRevisions

\* ... the start of a handler,
LEMMA PlainBegins == Vaultless /\ PlainInv /\ Begins => PlainInv'
<1> SUFFICES ASSUME Vaultless, PlainInv, TypeOK',
                    NEW kind \in Kinds, NEW out \in SUBSET Account,
                    NEW in \in SUBSET Account, NEW config \in Config,
                    NEW write \in BOOLEAN, NEW bc \in BOOLEAN,
                    NEW ba \in BOOLEAN,
                    BeginsWith(kind, out, in, config, write, bc, ba)
             PROVE PlainInv'
  BY BeginsType DEF Begins, PlainInv
<1>1. memory.revisions.config \in Nat /\ memory.revisions.accounts \in Nat
  BY DEF PlainInv, TypeOK, Memory, Revisions
<1>2. /\ op'.goal.revisions.config \in
           {memory.revisions.config, memory.revisions.config + 1}
      /\ op'.goal.revisions.accounts \in
           {memory.revisions.accounts, memory.revisions.accounts + 1}
  BY <1>1 DEF BeginsWith, Accept, Bump
<1>3. /\ pc = "idle"
      /\ kind \notin JournalledKinds /\ kind \notin {"none", "recovery"}
  BY DEF BeginsWith, Accept, Vaultless, Kinds, JournalledKinds
<1>4. pc' \in {"write", "refresh", "start"}
  BY <1>3 DEF BeginsWith, Accept, FirstStep
<1> USE DEF BeginsWith, Accept,
            PlainInv, PlainControl, PlainIntent, PlainFiles, PlainQuarantine,
            PlainAcked, Running, Published, Undoing, Vaultless, Journalled,
            JournalledKinds,
            TypeOK, Memory, Files, Op, Router, durables, views
<1>5. PlainControl'
  BY <1>3, <1>4
<1>6. PlainIntent'
  BY <1>1, <1>2, <1>3
<1>7. PlainFiles'
  BY <1>3, <1>4
<1>8. PlainQuarantine'
  BY <1>3, <1>4
<1>9. PlainAcked'
  BY <1>3, <1>4
<1> QED BY <1>5, <1>6, <1>7, <1>8, <1>9

\* ... a step of a handler that succeeds,
LEMMA PlainForward == Vaultless /\ PlainInv /\ Forward => PlainInv'
<1> SUFFICES ASSUME Vaultless, PlainInv, TypeOK', Forward PROVE PlainInv'
  BY ForwardType DEF PlainInv
<1> USE DEF PlainInv, PlainControl, PlainIntent, PlainFiles, PlainQuarantine,
            PlainAcked, Running, Published, Undoing, Vaultless, Journalled,
            JournalledKinds,
            TypeOK, Memory, Files, Op, Router, durables, views
<1>1. ASSUME NEW s \in Slot, CopyBackups(s) PROVE PlainInv'
  BY <1>1 DEF CopyBackups
<1>2. CASE WriteManifest
  BY <1>2 DEF WriteManifest
<1>3. CASE WriteCredentials
  <2>1. PlainControl'
    BY <1>3 DEF WriteCredentials
  <2>2. PlainIntent'
    BY <1>3 DEF WriteCredentials
  <2>3. PlainFiles'
    BY <1>3 DEF WriteCredentials
  <2>4. PlainQuarantine'
    <3>1. /\ disk'.account = (disk.account \ op.out) \cup op.in
          /\ disk'.auth = disk.auth
          /\ disk.auth \subseteq Native
          /\ op.out \cap Native = {}
      BY <1>3, AccountsAssumption DEF WriteCredentials
    <3> QED BY <1>3, <3>1 DEF WriteCredentials
  <2>5. PlainAcked'
    BY <1>3 DEF WriteCredentials
  <2> QED BY <2>1, <2>2, <2>3, <2>4, <2>5
<1>4. CASE RefreshSidecar
  BY <1>4 DEF RefreshSidecar
<1>5. CASE StartCandidate
  BY <1>5 DEF StartCandidate
<1>6. CASE PersistConfig
  BY <1>6 DEF PersistConfig
<1>7. CASE PersistRevisions
  <2>1. PlainControl'
    BY <1>7 DEF PersistRevisions, Store, Revisions
  <2>2. PlainIntent'
    BY <1>7 DEF PersistRevisions, Store, Revisions
  <2>3. PlainFiles'
    BY <1>7 DEF PersistRevisions, Store, Revisions
  <2>4. PlainQuarantine'
    BY <1>7 DEF PersistRevisions, Store, Revisions
  <2>5. PlainAcked'
    BY <1>7 DEF PersistRevisions, Store, Revisions
  <2> QED BY <2>1, <2>2, <2>3, <2>4, <2>5
<1>8. CASE PersistCoordinators
  BY <1>8 DEF PersistCoordinators
<1>9. CASE MarkCommitted
  BY <1>9 DEF MarkCommitted
<1>10. CASE RefreshActivated
  BY <1>10 DEF RefreshActivated
<1>11. CASE CommitViews
  BY <1>11 DEF CommitViews
<1>12. CASE ReconcileAndSwap
  BY <1>12 DEF ReconcileAndSwap
<1>13. CASE RetirePrevious
  BY <1>13 DEF RetirePrevious
<1>14. CASE CleanupAndReply
  <2>1. PlainControl'
    BY <1>14 DEF CleanupAndReply, NoOp, Revisions
  <2>2. PlainIntent'
    BY <1>14 DEF CleanupAndReply, NoOp, Revisions
  <2>3. PlainFiles'
    BY <1>14 DEF CleanupAndReply, NoOp, Revisions
  <2>4. PlainQuarantine'
    BY <1>14 DEF CleanupAndReply, NoOp, Revisions
  <2>5. PlainAcked'
    BY <1>14 DEF CleanupAndReply, NoOp, Revisions
  <2> QED BY <2>1, <2>2, <2>3, <2>4, <2>5
<1> QED
  BY <1>1, <1>2, <1>3, <1>4, <1>5, <1>6, <1>7, <1>8, <1>9, <1>10, <1>11,
     <1>12, <1>13, <1>14
  DEF Forward

\* ... a step of a rollback,
LEMMA PlainBackward == Vaultless /\ PlainInv /\ Backward => PlainInv'
<1> SUFFICES ASSUME Vaultless, PlainInv, TypeOK', Backward PROVE PlainInv'
  BY BackwardType DEF PlainInv
<1> USE DEF PlainInv, PlainControl, PlainIntent, PlainFiles, PlainQuarantine,
            PlainAcked, Running, Published, Undoing, Vaultless, Journalled,
            JournalledKinds,
            TypeOK, Memory, Files, Op, Router, durables, views
<1>1. CASE UndoConfig
  BY <1>1 DEF UndoConfig
<1>2. CASE UndoRevisions
  BY <1>2 DEF UndoRevisions
<1>3. CASE UndoHandler
  BY <1>3 DEF UndoHandler, NoOp
<1>4. CASE RestoreAccount
  BY <1>4 DEF RestoreAccount
<1>5. CASE RestoreAuth
  BY <1>5 DEF RestoreAuth
<1>6. CASE RestoreConfig
  BY <1>6 DEF RestoreConfig
<1>7. CASE RestoreRevisions
  BY <1>7 DEF RestoreRevisions
<1>8. CASE DiscardVault
  BY <1>8 DEF DiscardVault, NoOp
<1>9. CASE ReloadCoordinators
  BY <1>9 DEF ReloadCoordinators, NoOp
<1> QED BY <1>1, <1>2, <1>3, <1>4, <1>5, <1>6, <1>7, <1>8, <1>9 DEF Backward

\* ... a step that fails,
LEMMA PlainFail == Vaultless /\ PlainInv /\ Fail => PlainInv'
<1> SUFFICES ASSUME Vaultless, PlainInv, TypeOK', Fail PROVE PlainInv'
  BY FailType DEF PlainInv
<1> USE DEF PlainInv, PlainControl, PlainIntent, PlainFiles, PlainQuarantine,
            PlainAcked, Running, Published, Undoing, Vaultless, Journalled,
            JournalledKinds,
            TypeOK, Memory, Files, Op, Router, durables, views
<1>1. CASE FailPrepare
  BY <1>1 DEF FailPrepare, NoOp
<1>2. CASE FailWrite
  BY <1>2 DEF FailWrite, NoOp
<1>3. CASE FailStart
  BY <1>3 DEF FailStart
<1>4. CASE FailPersist
  BY <1>4 DEF FailPersist
<1>5. CASE FailCommit
  BY <1>5 DEF FailCommit
<1> QED BY <1>1, <1>2, <1>3, <1>4, <1>5 DEF Fail

\* ... the startup recovery,
LEMMA PlainRecover == Vaultless /\ PlainInv /\ Recover => PlainInv'
<1> SUFFICES ASSUME Vaultless, PlainInv, TypeOK', Recover PROVE PlainInv'
  BY RecoverType DEF PlainInv
<1> USE DEF PlainInv, PlainControl, PlainIntent, PlainFiles, PlainQuarantine,
            PlainAcked, Running, Published, Undoing, Vaultless, Journalled,
            JournalledKinds,
            TypeOK, Memory, Files, Op, Router, durables, views
<1>1. ASSUME NEW s \in Slot, RecoverDiscard(s) PROVE PlainInv'
  BY <1>1 DEF RecoverDiscard
<1>2. ASSUME NEW s \in Slot, RecoverRestore(s) PROVE PlainInv'
  BY <1>2 DEF RecoverRestore, NoOp
<1>3. CASE Boot
  BY <1>3 DEF Boot, NoOp
<1> QED BY <1>1, <1>2, <1>3 DEF Recover

\* ... and so every step.
LEMMA PlainNext == Vaultless /\ PlainInv /\ [Next]_vars => PlainInv'
<1> SUFFICES ASSUME Vaultless, PlainInv, TypeOK', [Next]_vars PROVE PlainInv'
  BY NextType DEF PlainInv
<1>1. CASE Handlers
  BY <1>1, HandlersBegin, PlainBegins DEF PlainInv
<1>2. CASE Forward
  BY <1>2, PlainForward
<1>3. CASE Backward
  BY <1>3, PlainBackward
<1>4. CASE Fail
  BY <1>4, PlainFail
<1>5. CASE Recover
  BY <1>5, PlainRecover
<1> USE DEF PlainInv, PlainControl, PlainIntent, PlainFiles, PlainQuarantine,
            PlainAcked, Running, Published, Undoing, Vaultless, Journalled,
            JournalledKinds,
            TypeOK, Memory, Files, Op, Router, durables, views
<1>6. CASE Interrupt
  <2>1. PlainControl'
    BY <1>6 DEF Interrupt, NoOp, Waits
  <2>2. PlainIntent'
    BY <1>6 DEF Interrupt, NoOp, Waits
  <2>3. PlainFiles'
    BY <1>6 DEF Interrupt, NoOp, Waits
  <2>4. PlainQuarantine'
    <3>1. /\ pc # "coordinators"
          /\ memory.rejected \cap disk.account = memory.rejected
      BY <1>6
    <3>2. /\ memory'.rejected = memory.rejected
          /\ disk'.auth = disk.auth
          /\ disk'.account = disk.account
      BY <1>6, <3>1 DEF Interrupt
    <3> QED BY <1>6, <3>2 DEF Interrupt, NoOp
  <2>5. PlainAcked'
    BY <1>6 DEF Interrupt, NoOp, Waits
  <2> QED BY <2>1, <2>2, <2>3, <2>4, <2>5
<1>7. CASE Throw
  BY <1>7 DEF Throw, NoOp
<1>8. CASE Crash
  BY <1>8 DEF Crash, NoOp, NoRouter
<1>9. ASSUME NEW a \in Native, RejectCredential(a) PROVE PlainInv'
  BY <1>9 DEF RejectCredential, Waits, Serving
<1>10. CASE UNCHANGED vars
  BY <1>10 DEF vars
<1> QED
  BY <1>1, <1>2, <1>3, <1>4, <1>5, <1>6, <1>7, <1>8, <1>9, <1>10 DEF Next


\* The invariant of the handlers without a vault holds in every reachable state.
THEOREM PlainInductive == ASSUME Vaultless PROVE Spec => []PlainInv
<1>1. PlainInv /\ [Next]_vars => PlainInv'
  BY PlainNext
<1> QED BY PlainInit, <1>1, PTL DEF Spec

\* Whatever fails, throws, disconnects or dies, between two handlers without a
\* vault the config and revisions a client is shown are those of the files, and
\* so is every quarantine record.
THEOREM ViewsAgree == ASSUME Vaultless PROVE Spec => []ViewsDurable
<1>1. PlainInv => ViewsDurable
  BY DEF PlainInv, PlainFiles, PlainQuarantine, ViewsDurable
<1> QED BY PlainInductive, <1>1, PTL

\* Nor does any of these faults take back the revisions a client was told.
THEOREM PlainAcknowledged ==
  ASSUME Vaultless PROVE Spec => []AcknowledgedSurvives
<1>1. PlainInv => AcknowledgedSurvives
  <2> SUFFICES ASSUME PlainInv PROVE AcknowledgedSurvives
    OBVIOUS
  <2>1. Prepared = {}
    BY DEF PlainInv, PlainControl, Prepared
  <2> QED
    BY <2>1 DEF PlainInv, PlainAcked, AcknowledgedSurvives, Durable, StoreOf
<1> QED BY PlainInductive, <1>1, PTL

\* A quarantine record is never lost by a handler without a vault: not by its
\* rollback, nor by a disconnect while the records are reconciled, nor by a
\* restart.  Such a handler never takes away a native account that has served.
THEOREM QuarantineStays == ASSUME Vaultless PROVE Spec => QuarantineKept
<1>1. ASSUME Vaultless, PlainInv, [Next]_vars
      PROVE  memory.rejected \subseteq memory'.rejected
  <2> USE <1>1 DEF PlainInv, PlainControl, PlainQuarantine, Published, Undoing,
                   TypeOK, Memory, Files, durables, views
  <2>1. CASE Handlers
    BY <2>1, HandlersBegin DEF Begins, BeginsWith, Accept
  <2>2. CASE ReconcileAndSwap
    BY <2>2 DEF ReconcileAndSwap
  <2>3. CASE Forward /\ ~ ReconcileAndSwap
    BY <2>3
    DEF Forward, CopyBackups, WriteManifest, WriteCredentials, RefreshSidecar,
        StartCandidate, PersistConfig, PersistRevisions, PersistCoordinators,
        MarkCommitted, RefreshActivated, CommitViews, RetirePrevious,
        CleanupAndReply
  <2>4. CASE Backward
    BY <2>4
    DEF Backward, UndoConfig, UndoRevisions, UndoHandler, RestoreAccount,
        RestoreAuth, RestoreConfig, RestoreRevisions, DiscardVault,
        ReloadCoordinators
  <2>5. CASE Fail
    BY <2>5 DEF Fail, FailPrepare, FailWrite, FailStart, FailPersist, FailCommit
  <2>6. CASE Interrupt
    <3>1. /\ pc # "coordinators"
          /\ memory.rejected \cap disk.account = memory.rejected
      OBVIOUS
    <3> QED BY <2>6, <3>1 DEF Interrupt
  <2>7. CASE Throw \/ Crash \/ UNCHANGED vars
    BY <2>7 DEF Throw, Crash, vars
  <2>8. CASE Recover
    BY <2>8 DEF Recover, RecoverDiscard, RecoverRestore, Boot
  <2>9. CASE \E a \in Native : RejectCredential(a)
    BY <2>9 DEF RejectCredential
  <2> QED
    BY <2>1, <2>2, <2>3, <2>4, <2>5, <2>6, <2>7, <2>8, <2>9 DEF Next
<1>2. Vaultless /\ PlainInv /\ [Next]_vars =>
        [\A a \in memory.rejected :
           a \in memory'.rejected \/ a \notin disk'.account]_vars
  BY <1>1
<1> QED BY PlainInductive, <1>2, PTL DEF Spec, QuarantineKept

-----------------------------------------------------------------------------
(* Every handler, with failing steps and crashes.                           *)

\* What the running handler means to do: a changed config has a new revision,
\* and one without a vault can undo what it does to the credential files.
Intent ==
  Running =>
    /\ op.prevRouter.config = op.prevConfig
    /\ ~ op.write => op.goal.config = op.prevConfig
    /\ op.goal.revisions.config = op.prevRevisions.config =>
         op.goal.config = op.prevConfig
    /\ op.prevRevisions.config <= op.goal.revisions.config
    /\ op.prevRevisions.accounts <= op.goal.revisions.accounts
    /\ op.goal.account = (op.prevRouter.account \ op.out) \cup op.in
    /\ ~ Journalled(op) =>
         /\ op.out \subseteq op.prevRouter.account \cap Cliproxy
         /\ op.in \subseteq Native \ op.prevRouter.account

\* Where the handlers with and without a vault, and the recovery, can be.
SteadyControl ==
  /\ op.kind = "none" <=> pc \in {"idle", "down"}
  /\ "crash" \notin Fault => pc # "down" /\ op.kind # "recovery"
  /\ op.kind = "recovery" => pc \in Restoring
  /\ pc \in Preparing \cup {"coordinators", "mark", "late", "reload"} =>
       Journalled(op)
  /\ pc \in Restoring => Journalled(op) \/ op.kind = "recovery"
  /\ pc = "refresh" => ~ Journalled(op)

\* Only the vault in use is prepared, until it is gone or a recovery has it.  It
\* holds the store from before the handler, after the marker too, as a late failure
\* restores it then; no other rollback runs without a prepared vault.
SteadyVaults ==
  /\ \A s \in Slot : journal[s] = "prepared" =>
       /\ s = slot
       /\ pc \in Guarded \cup {"down"}
       /\ pc \in Guarded => Journalled(op) \/ op.kind = "recovery"
  /\ op.kind = "recovery" => journal[slot] = "prepared"
  /\ Journalled(op) /\ pc \notin {"copy", "reload"} =>
       StoreOf(backup[slot].files) = Before
  /\ Journalled(op) /\ pc \in Guarded /\ "late" \notin Fault =>
       journal[slot] = "prepared"

\* How far the files have got, or a rollback of them has.
SteadyProgress ==
  /\ pc \in Preparing \cup {"write", "reload"} => StoreOf(disk) = Before
  /\ pc \in {"refresh", "start", "config", "revisions", "coordinators",
             "mark"} \cup Undoing => disk.account = op.goal.account
  /\ pc \in {"refresh", "start", "config", "undoRevisions", "undo"} =>
       disk.config = op.prevConfig
  /\ pc \in {"refresh", "start", "config", "revisions", "undo"} =>
       disk.revisions = op.prevRevisions
  /\ pc \in {"revisions", "coordinators", "mark"} =>
       disk.config = op.goal.config
  /\ pc \in {"coordinators", "mark"} => disk.revisions = op.goal.revisions
  /\ pc \in Committed => StoreOf(disk) = op.goal
  /\ pc = "undoConfig" /\ ~ op.write => disk.config = op.prevConfig
  /\ Running /\ pc \in Restoring \ {"restoreAccount"} =>
       disk.account = op.prevRouter.account
  /\ Running /\ pc \in {"restoreRevisions", "discard"} =>
       disk.config = op.prevConfig
  /\ Running /\ pc = "discard" => disk.revisions = op.prevRevisions

\* What is published: the prior generation up to the commit stage and after its
\* rollback.  The proxy follows one step later.
SteadyViews ==
  /\ Running /\ pc \notin Published =>
       /\ memory.config = op.prevConfig
       /\ memory.revisions = op.prevRevisions
       /\ router = op.prevRouter
  /\ Running /\ pc \notin {"retire", "cleanup"} => target = op.prevRouter
  /\ pc \in {"config", "revisions", "coordinators", "mark", "late", "views",
             "reconcile"} =>
       candidate = [config |-> op.goal.config, account |-> op.goal.account]
  /\ pc \in Published =>
       /\ memory.config = op.goal.config
       /\ memory.revisions = op.goal.revisions
       /\ router = [config |-> op.goal.config, account |-> op.goal.account]
  /\ pc \in {"retire", "cleanup"} => target = router

\* Memory and file agree on which of the accounts S are quarantined.
Agree(S) == memory.rejected \cap S = disk.auth \cap S

\* Without a vault the records of the accounts from before stay in agreement;
\* with one they need not, and are read back from the restored file.
SteadyQuarantine ==
  /\ /\ Running
     /\ Journalled(op) => pc \in Preparing
     /\ pc \notin {"retire", "cleanup"}
     => Agree(op.prevRouter.account)
  /\ pc \in {"retire", "cleanup"} => memory.rejected = disk.auth

SteadyInv ==
  /\ TypeOK
  /\ Intent
  /\ SteadyControl
  /\ SteadyVaults
  /\ SteadyProgress
  /\ SteadyViews
  /\ SteadyQuarantine
  /\ ServingMatchesDisk

\* The initial states,
LEMMA SteadyInit == Init => SteadyInv
  BY InitType
  DEF Init, SteadyInv, Intent, SteadyControl, SteadyVaults, SteadyProgress,
            SteadyViews, SteadyQuarantine, ServingMatchesDisk, ViewsDurable,
            Agree, Steady, TypeOK, durables, views, Memory, Files, Op, Router,
            Journalled, JournalledKinds, Running, Published, StoreOf, Before,
            Guarded, Persisting, Undoing, Restoring, Committed, Preparing,
            NoOp, NoRouter, NoFiles, NoRevisions

\* ... the start of a handler,
LEMMA SteadyBegins == Steady /\ SteadyInv /\ Begins => SteadyInv'
<1> SUFFICES ASSUME Steady, SteadyInv, TypeOK',
                    NEW kind \in Kinds, NEW out \in SUBSET Account,
                    NEW in \in SUBSET Account, NEW config \in Config,
                    NEW write \in BOOLEAN, NEW bc \in BOOLEAN,
                    NEW ba \in BOOLEAN,
                    BeginsWith(kind, out, in, config, write, bc, ba)
             PROVE SteadyInv'
  BY BeginsType DEF Begins, SteadyInv
<1>1. memory.revisions.config \in Nat /\ memory.revisions.accounts \in Nat
  BY DEF SteadyInv, TypeOK, Memory, Revisions
<1>2. /\ op'.goal.revisions.config =
           memory.revisions.config + (IF bc THEN 1 ELSE 0)
      /\ op'.goal.revisions.accounts =
           memory.revisions.accounts + (IF ba THEN 1 ELSE 0)
  BY DEF BeginsWith, Accept, Bump
<1>3. pc = "idle" /\ kind \notin {"none", "recovery"}
  BY DEF BeginsWith, Accept, Kinds, JournalledKinds
<1>4. pc' = FirstStep(kind)
  BY DEF BeginsWith, Accept
<1>5. /\ kind \in JournalledKinds => pc' = "copy"
      /\ kind \notin JournalledKinds => pc' \in {"write", "refresh", "start"}
      /\ pc' \in {"refresh", "start"} => out = {} /\ in = {}
  BY <1>4 DEF BeginsWith, FirstStep, JournalledKinds
<1>6. /\ memory.config = disk.config
      /\ memory.revisions = disk.revisions
      /\ router = [config |-> disk.config, account |-> disk.account]
      /\ target = router
      /\ Agree(disk.account)
  BY <1>3 DEF SteadyInv, ServingMatchesDisk, ViewsDurable, Agree
<1>7. /\ op'.kind = kind /\ op'.out = out /\ op'.in = in /\ op'.write = write
      /\ op'.goal.account = (disk.account \ out) \cup in
      /\ op'.goal.config = config
      /\ op'.prevConfig = memory.config
      /\ op'.prevRevisions = memory.revisions
      /\ op'.prevRouter = router
      /\ UNCHANGED <<disk, journal, backup, memory, router, target, slot>>
  BY DEF BeginsWith, Accept, durables, views
<1> USE DEF Running, Journalled, Published, Preparing, Guarded, Persisting,
            Undoing, Restoring, Committed, StoreOf, Before, Agree
<1>8. Intent'
  BY <1>1, <1>2, <1>5, <1>6, <1>7 DEF Intent, BeginsWith
<1>9. SteadyControl'
  BY <1>3, <1>5, <1>7 DEF SteadyControl, JournalledKinds
<1>10. SteadyVaults'
  BY <1>3, <1>5, <1>7 DEF SteadyInv, SteadyVaults, JournalledKinds
<1>11. SteadyProgress'
  BY <1>5, <1>6, <1>7 DEF SteadyProgress
<1>12. SteadyViews'
  BY <1>5, <1>6, <1>7 DEF SteadyViews
<1>13. SteadyQuarantine'
  BY <1>5, <1>6, <1>7 DEF SteadyQuarantine
<1>14. ServingMatchesDisk'
  BY <1>5 DEF ServingMatchesDisk, ViewsDurable
<1> QED
  BY <1>8, <1>9, <1>10, <1>11, <1>12, <1>13, <1>14 DEF SteadyInv

\* ... a step of a handler that succeeds,
LEMMA SteadyForward == Steady /\ SteadyInv /\ Forward => SteadyInv'
<1> SUFFICES ASSUME Steady, SteadyInv, TypeOK', Forward PROVE SteadyInv'
  BY ForwardType DEF SteadyInv
<1> USE DEF SteadyInv, Intent, SteadyControl, SteadyVaults, SteadyProgress,
            SteadyViews, SteadyQuarantine, ServingMatchesDisk, ViewsDurable,
            Agree, Steady, TypeOK, durables, views, Memory, Files, Op, Router,
            Journalled, JournalledKinds, Running, Published, StoreOf, Before,
            Guarded, Persisting, Undoing, Restoring, Committed, Preparing
<1>1. ASSUME NEW s \in Slot, CopyBackups(s) PROVE SteadyInv'
  BY <1>1 DEF CopyBackups
<1>2. CASE WriteManifest
  BY <1>2 DEF WriteManifest
<1>3. CASE WriteCredentials
  <2>1. Intent'
    BY <1>3 DEF WriteCredentials
  <2>2. SteadyControl'
    BY <1>3 DEF WriteCredentials
  <2>3. SteadyVaults'
    BY <1>3 DEF WriteCredentials
  <2>4. SteadyProgress'
    BY <1>3 DEF WriteCredentials
  <2>5. SteadyViews'
    BY <1>3 DEF WriteCredentials
  <2>6. SteadyQuarantine'
    BY <1>3 DEF WriteCredentials
  <2>7. ServingMatchesDisk'
    BY <1>3 DEF WriteCredentials
  <2> QED BY <2>1, <2>2, <2>3, <2>4, <2>5, <2>6, <2>7
<1>4. CASE RefreshSidecar
  BY <1>4 DEF RefreshSidecar
<1>5. CASE StartCandidate
  BY <1>5 DEF StartCandidate
<1>6. CASE PersistConfig
  BY <1>6 DEF PersistConfig
<1>7. CASE PersistRevisions
  <2>1. Intent'
    BY <1>7 DEF PersistRevisions
  <2>2. SteadyControl'
    BY <1>7 DEF PersistRevisions
  <2>3. SteadyVaults'
    BY <1>7 DEF PersistRevisions
  <2>4. SteadyProgress'
    BY <1>7 DEF PersistRevisions, Store
  <2>5. SteadyViews'
    BY <1>7 DEF PersistRevisions
  <2>6. SteadyQuarantine'
    BY <1>7 DEF PersistRevisions
  <2>7. ServingMatchesDisk'
    BY <1>7 DEF PersistRevisions
  <2> QED BY <2>1, <2>2, <2>3, <2>4, <2>5, <2>6, <2>7
<1>8. CASE PersistCoordinators
  BY <1>8 DEF PersistCoordinators
<1>9. CASE MarkCommitted
  <2>1. Intent'
    BY <1>9 DEF MarkCommitted
  <2>2. SteadyControl'
    BY <1>9 DEF MarkCommitted
  <2>3. SteadyVaults'
    BY <1>9 DEF MarkCommitted
  <2>4. SteadyProgress'
    BY <1>9 DEF MarkCommitted, Store
  <2>5. SteadyViews'
    BY <1>9 DEF MarkCommitted
  <2>6. SteadyQuarantine'
    BY <1>9 DEF MarkCommitted
  <2>7. ServingMatchesDisk'
    BY <1>9 DEF MarkCommitted
  <2> QED BY <2>1, <2>2, <2>3, <2>4, <2>5, <2>6, <2>7
<1>10. CASE RefreshActivated
  BY <1>10 DEF RefreshActivated
<1>11. CASE CommitViews
  BY <1>11 DEF CommitViews
<1>12. CASE ReconcileAndSwap
  BY <1>12 DEF ReconcileAndSwap
<1>13. CASE RetirePrevious
  BY <1>13 DEF RetirePrevious
<1>14. CASE CleanupAndReply
  <2>1. Intent'
    BY <1>14 DEF CleanupAndReply, NoOp
  <2>2. SteadyControl'
    BY <1>14 DEF CleanupAndReply, NoOp
  <2>3. SteadyVaults'
    BY <1>14 DEF CleanupAndReply, NoOp
  <2>4. SteadyProgress'
    BY <1>14 DEF CleanupAndReply, NoOp
  <2>5. SteadyViews'
    BY <1>14 DEF CleanupAndReply, NoOp
  <2>6. SteadyQuarantine'
    BY <1>14 DEF CleanupAndReply, NoOp
  <2>7. ServingMatchesDisk'
    BY <1>14 DEF CleanupAndReply, NoOp
  <2> QED BY <2>1, <2>2, <2>3, <2>4, <2>5, <2>6, <2>7
<1> HIDE DEF SteadyInv, Intent, SteadyControl, SteadyVaults, SteadyProgress,
            SteadyViews, SteadyQuarantine, ServingMatchesDisk, ViewsDurable,
            Agree, Steady, TypeOK, durables, views, Memory, Files, Op, Router,
            Journalled, JournalledKinds, Running, Published, StoreOf, Before,
            Guarded, Persisting, Undoing, Restoring, Committed, Preparing
<1> QED
  BY <1>1, <1>2, <1>3, <1>4, <1>5, <1>6, <1>7, <1>8, <1>9, <1>10, <1>11,
     <1>12, <1>13, <1>14
  DEF Forward

\* ... a step of a rollback,
LEMMA SteadyBackward == Steady /\ SteadyInv /\ Backward => SteadyInv'
<1> SUFFICES ASSUME Steady, SteadyInv, TypeOK', Backward PROVE SteadyInv'
  BY BackwardType DEF SteadyInv
<1> USE DEF SteadyInv, Intent, SteadyControl, SteadyVaults, SteadyProgress,
            SteadyViews, SteadyQuarantine, ServingMatchesDisk, ViewsDurable,
            Agree, Steady, TypeOK, durables, views, Memory, Files, Op, Router,
            Journalled, JournalledKinds, Running, Published, StoreOf, Before,
            Guarded, Persisting, Undoing, Restoring, Committed, Preparing
<1>1. CASE UndoConfig
  BY <1>1 DEF UndoConfig
<1>2. CASE UndoRevisions
  BY <1>2 DEF UndoRevisions
<1>3. CASE UndoHandler
  <2>1. Intent'
    BY <1>3 DEF UndoHandler, NoOp
  <2>2. SteadyControl'
    BY <1>3 DEF UndoHandler, NoOp
  <2>3. SteadyVaults'
    BY <1>3 DEF UndoHandler, NoOp
  <2>4. SteadyProgress'
    BY <1>3 DEF UndoHandler, NoOp
  <2>5. SteadyViews'
    BY <1>3 DEF UndoHandler, NoOp
  <2>6. SteadyQuarantine'
    BY <1>3 DEF UndoHandler, NoOp
  <2>7. ServingMatchesDisk'
    <3>1. CASE Journalled(op)
      BY <1>3, <3>1 DEF UndoHandler
    <3>2. CASE ~ Journalled(op)
      <4>1. /\ disk'.account = (op.goal.account \ op.in) \cup op.out
            /\ op.goal.account = (op.prevRouter.account \ op.out) \cup op.in
            /\ op.out \subseteq op.prevRouter.account
            /\ op.in \cap op.prevRouter.account = {}
        BY <1>3, <3>2, AccountsAssumption DEF UndoHandler
      <4>2. disk'.account = op.prevRouter.account
        BY <4>1
      <4>3. /\ disk'.config = op.prevConfig
            /\ disk'.revisions = op.prevRevisions
            /\ disk'.auth = disk.auth
            /\ UNCHANGED <<memory, router, target>>
        BY <1>3, <3>2 DEF UndoHandler
      <4>4. op.prevRouter =
              [config |-> op.prevConfig, account |-> op.prevRouter.account]
        BY <1>3 DEF UndoHandler
      <4>5. /\ memory.config = op.prevConfig
            /\ memory.revisions = op.prevRevisions
            /\ router = op.prevRouter
            /\ target = op.prevRouter
            /\ memory.rejected \cap op.prevRouter.account =
                 disk.auth \cap op.prevRouter.account
        BY <1>3, <3>2 DEF UndoHandler
      <4> HIDE DEF SteadyInv, Intent, SteadyControl, SteadyVaults,
                   SteadyProgress, SteadyViews, SteadyQuarantine, TypeOK
      <4> QED BY <4>2, <4>3, <4>4, <4>5
    <3> QED BY <3>1, <3>2
  <2> QED BY <2>1, <2>2, <2>3, <2>4, <2>5, <2>6, <2>7
<1>4. CASE RestoreAccount
  BY <1>4 DEF RestoreAccount
<1>5. CASE RestoreAuth
  BY <1>5 DEF RestoreAuth
<1>6. CASE RestoreConfig
  BY <1>6 DEF RestoreConfig
<1>7. CASE RestoreRevisions
  BY <1>7 DEF RestoreRevisions
<1>8. CASE DiscardVault
  BY <1>8 DEF DiscardVault, NoOp
<1>9. CASE ReloadCoordinators
  BY <1>9 DEF ReloadCoordinators, NoOp
<1> HIDE DEF SteadyInv, Intent, SteadyControl, SteadyVaults, SteadyProgress,
            SteadyViews, SteadyQuarantine, ServingMatchesDisk, ViewsDurable,
            Agree, Steady, TypeOK, durables, views, Memory, Files, Op, Router,
            Journalled, JournalledKinds, Running, Published, StoreOf, Before,
            Guarded, Persisting, Undoing, Restoring, Committed, Preparing
<1> QED BY <1>1, <1>2, <1>3, <1>4, <1>5, <1>6, <1>7, <1>8, <1>9 DEF Backward

\* ... a step that fails,
LEMMA SteadyFail == Steady /\ SteadyInv /\ Fail => SteadyInv'
<1> SUFFICES ASSUME Steady, SteadyInv, TypeOK', Fail PROVE SteadyInv'
  BY FailType DEF SteadyInv
<1> USE DEF SteadyInv, Intent, SteadyControl, SteadyVaults, SteadyProgress,
            SteadyViews, SteadyQuarantine, ServingMatchesDisk, ViewsDurable,
            Agree, Steady, TypeOK, durables, views, Memory, Files, Op, Router,
            Journalled, JournalledKinds, Running, Published, StoreOf, Before,
            Guarded, Persisting, Undoing, Restoring, Committed, Preparing
<1>1. CASE FailPrepare
  BY <1>1 DEF FailPrepare, NoOp
<1>2. CASE FailWrite
  <2>1. Intent'
    BY <1>2 DEF FailWrite, NoOp
  <2>2. SteadyControl'
    BY <1>2 DEF FailWrite, NoOp
  <2>3. SteadyVaults'
    BY <1>2 DEF FailWrite, NoOp
  <2>4. SteadyProgress'
    BY <1>2 DEF FailWrite, NoOp
  <2>5. SteadyViews'
    BY <1>2 DEF FailWrite, NoOp
  <2>6. SteadyQuarantine'
    BY <1>2 DEF FailWrite, NoOp
  <2>7. ServingMatchesDisk'
    BY <1>2 DEF FailWrite, NoOp
  <2> QED BY <2>1, <2>2, <2>3, <2>4, <2>5, <2>6, <2>7
<1>3. CASE FailStart
  BY <1>3 DEF FailStart
<1>4. CASE FailPersist
  BY <1>4 DEF FailPersist
<1>5. CASE FailCommit
  <2>1. Intent'
    BY <1>5 DEF FailCommit
  <2>2. SteadyControl'
    BY <1>5 DEF FailCommit
  <2>3. SteadyVaults'
    BY <1>5 DEF FailCommit
  <2>4. SteadyProgress'
    BY <1>5 DEF FailCommit
  <2>5. SteadyViews'
    BY <1>5 DEF FailCommit
  <2>6. SteadyQuarantine'
    <3>1. CASE Journalled(op)
      BY <1>5, <3>1 DEF FailCommit
    <3>2. CASE ~ Journalled(op)
      <4>1. /\ memory'.rejected = memory.rejected \cap disk.account
            /\ disk' = disk /\ op' = op /\ pc' = "undoConfig"
        BY <1>5 DEF FailCommit
      <4>2. /\ disk.account = (op.prevRouter.account \ op.out) \cup op.in
            /\ op.out \cap Native = {}
            /\ memory.rejected \subseteq Native
            /\ disk.auth \subseteq Native
            /\ Agree(op.prevRouter.account)
        BY <1>5, <3>2, AccountsAssumption DEF FailCommit
      <4>3. memory'.rejected \cap op.prevRouter.account =
              disk.auth \cap op.prevRouter.account
        BY <4>1, <4>2
      <4> QED BY <4>1, <4>3, <3>2
    <3> QED BY <3>1, <3>2
  <2>7. ServingMatchesDisk'
    BY <1>5 DEF FailCommit
  <2> QED BY <2>1, <2>2, <2>3, <2>4, <2>5, <2>6, <2>7
<1> HIDE DEF SteadyInv, Intent, SteadyControl, SteadyVaults, SteadyProgress,
            SteadyViews, SteadyQuarantine, ServingMatchesDisk, ViewsDurable,
            Agree, Steady, TypeOK, durables, views, Memory, Files, Op, Router,
            Journalled, JournalledKinds, Running, Published, StoreOf, Before,
            Guarded, Persisting, Undoing, Restoring, Committed, Preparing
<1> QED BY <1>1, <1>2, <1>3, <1>4, <1>5 DEF Fail

\* ... a step of the startup recovery,
LEMMA SteadyRecover == Steady /\ SteadyInv /\ Recover => SteadyInv'
<1> SUFFICES ASSUME Steady, SteadyInv, TypeOK', Recover PROVE SteadyInv'
  BY RecoverType DEF SteadyInv
<1> USE DEF SteadyInv, Intent, SteadyControl, SteadyVaults, SteadyProgress,
            SteadyViews, SteadyQuarantine, ServingMatchesDisk, ViewsDurable,
            Agree, Steady, TypeOK, durables, views, Memory, Files, Op, Router,
            Journalled, JournalledKinds, Running, Published, StoreOf, Before,
            Guarded, Persisting, Undoing, Restoring, Committed, Preparing
<1>1. ASSUME NEW s \in Slot, RecoverDiscard(s) PROVE SteadyInv'
  BY <1>1 DEF RecoverDiscard
<1>2. ASSUME NEW s \in Slot, RecoverRestore(s) PROVE SteadyInv'
  BY <1>2 DEF RecoverRestore, NoOp
<1>3. CASE Boot
  BY <1>3 DEF Boot, NoOp
<1> HIDE DEF SteadyInv, Intent, SteadyControl, SteadyVaults, SteadyProgress,
            SteadyViews, SteadyQuarantine, ServingMatchesDisk, ViewsDurable,
            Agree, Steady, TypeOK, durables, views, Memory, Files, Op, Router,
            Journalled, JournalledKinds, Running, Published, StoreOf, Before,
            Guarded, Persisting, Undoing, Restoring, Committed, Preparing
<1> QED BY <1>1, <1>2, <1>3 DEF Recover

\* ... and so every step.
LEMMA SteadyNext == Steady /\ SteadyInv /\ [Next]_vars => SteadyInv'
<1> SUFFICES ASSUME Steady, SteadyInv, TypeOK', [Next]_vars PROVE SteadyInv'
  BY NextType DEF SteadyInv
<1>1. CASE Handlers
  BY <1>1, HandlersBegin, SteadyBegins DEF SteadyInv
<1>2. CASE Forward
  BY <1>2, SteadyForward
<1>3. CASE Backward
  BY <1>3, SteadyBackward
<1>4. CASE Fail
  BY <1>4, SteadyFail
<1>5. CASE Recover
  BY <1>5, SteadyRecover
<1> USE DEF SteadyInv, Intent, SteadyControl, SteadyVaults, SteadyProgress,
            SteadyViews, SteadyQuarantine, ServingMatchesDisk, ViewsDurable,
            Agree, Steady, TypeOK, durables, views, Memory, Files, Op, Router,
            Journalled, JournalledKinds, Running, Published, StoreOf, Before,
            Guarded, Persisting, Undoing, Restoring, Committed, Preparing
<1>6. CASE Interrupt
  BY <1>6 DEF Interrupt, NoOp, Waits
<1>7. CASE Throw
  BY <1>7 DEF Throw, NoOp
<1>8. CASE Crash
  BY <1>8 DEF Crash, NoOp, NoRouter
<1>9. ASSUME NEW a \in Native, RejectCredential(a) PROVE SteadyInv'
  BY <1>9 DEF RejectCredential, Waits, Serving
<1>10. CASE UNCHANGED vars
  BY <1>10 DEF vars
<1> HIDE DEF SteadyInv, Intent, SteadyControl, SteadyVaults, SteadyProgress,
            SteadyViews, SteadyQuarantine, ServingMatchesDisk, ViewsDurable,
            Agree, Steady, TypeOK, durables, views, Memory, Files, Op, Router,
            Journalled, JournalledKinds, Running, Published, StoreOf, Before,
            Guarded, Persisting, Undoing, Restoring, Committed, Preparing
<1> QED
  BY <1>1, <1>2, <1>3, <1>4, <1>5, <1>6, <1>7, <1>8, <1>9, <1>10 DEF Next

\* The strengthened invariant holds in every reachable state.
THEOREM SteadyInductive == ASSUME Steady PROVE Spec => []SteadyInv
<1>1. SteadyInv /\ [Next]_vars => SteadyInv'
  BY SteadyNext
<1> QED BY SteadyInit, <1>1, PTL DEF Spec

\* Whatever mutation ran last, with a vault or without, and wherever it failed or
\* the process died, before or after the commit marker: files, published views,
\* active generation and proxy agree when a handler returns, and after a restart.
THEOREM ServingSteady == ASSUME Steady PROVE Spec => []ServingMatchesDisk
<1>1. SteadyInv => ServingMatchesDisk
  BY DEF SteadyInv
<1> QED BY SteadyInductive, <1>1, PTL

\* No failed step, late ones included, lets a handler return with a prepared
\* vault, and a restart leaves none either.
THEOREM ClosedSteady == ASSUME Steady PROVE Spec => []VaultClosed
<1>1. SteadyInv => VaultClosed
  BY DEF SteadyInv, SteadyVaults, VaultClosed, Prepared, Guarded, Persisting,
         Undoing, Restoring
<1> QED BY SteadyInductive, <1>1, PTL

\* Publishing a config, and taking it back when a late step fails, each come
\* with a new revision.  Only a restart publishes what it finds in the files.
LEMMA RevisionNamesBoot ==
  ASSUME Steady, SteadyInv, [Next]_vars, ~ Boot,
         memory'.revisions.config = memory.revisions.config
  PROVE  memory'.config = memory.config
<1> USE DEF SteadyInv, TypeOK, Memory, durables, views
<1>1. CASE Handlers
  BY <1>1, HandlersBegin DEF Begins, BeginsWith, Accept
<1>2. CASE CommitViews
  <2>1. /\ memory'.config = op.goal.config
        /\ memory'.revisions = op.goal.revisions
    BY <1>2 DEF CommitViews
  <2>2. /\ memory.config = op.prevConfig
        /\ memory.revisions = op.prevRevisions
    BY <1>2
    DEF CommitViews, SteadyControl, SteadyViews, Running, Published,
        Restoring
  <2> QED
    BY <1>2, <2>1, <2>2
    DEF CommitViews, SteadyControl, Intent, Running, Restoring
<1>3. CASE FailCommit
  <2>1. /\ memory'.config = op.prevConfig
        /\ memory'.revisions = op.prevRevisions
    BY <1>3 DEF FailCommit
  <2>2. /\ memory.config = op.goal.config
        /\ memory.revisions = op.goal.revisions
    BY <1>3 DEF FailCommit, SteadyViews, Published
  <2> QED
    BY <1>3, <2>1, <2>2
    DEF FailCommit, SteadyControl, Intent, Running, Restoring
<1>4. CASE Forward /\ ~ CommitViews
  BY <1>4
  DEF Forward, CopyBackups, WriteManifest, WriteCredentials, RefreshSidecar,
      StartCandidate, PersistConfig, PersistRevisions, PersistCoordinators,
      MarkCommitted, RefreshActivated, ReconcileAndSwap, RetirePrevious,
      CleanupAndReply
<1>5. CASE Backward
  BY <1>5
  DEF Backward, UndoConfig, UndoRevisions, UndoHandler, RestoreAccount,
      RestoreAuth, RestoreConfig, RestoreRevisions, DiscardVault,
      ReloadCoordinators
<1>6. CASE Fail /\ ~ FailCommit
  BY <1>6 DEF Fail, FailPrepare, FailWrite, FailStart, FailPersist
<1>7. CASE Interrupt \/ Throw \/ Crash \/ UNCHANGED vars
  BY <1>7 DEF Interrupt, Throw, Crash, vars, Steady
<1>8. CASE Recover
  BY <1>8 DEF Recover, RecoverDiscard, RecoverRestore
<1>9. CASE \E a \in Native : RejectCredential(a)
  BY <1>9 DEF RejectCredential
<1> QED
  BY <1>1, <1>2, <1>3, <1>4, <1>5, <1>6, <1>7, <1>8, <1>9 DEF Next

\* A client's expectedRevision stands for one config while the process is up.
THEOREM RevisionNames ==
  ASSUME Steady, "crash" \notin Fault PROVE Spec => RevisionNamesConfig
<1>1. "crash" \notin Fault /\ SteadyInv => ~ Boot
  BY DEF SteadyInv, SteadyControl, Boot
<1>2. Steady /\ "crash" \notin Fault /\ SteadyInv /\ [Next]_vars =>
        [memory'.revisions.config = memory.revisions.config =>
           memory'.config = memory.config]_vars
  BY <1>1, RevisionNamesBoot
<1> QED BY SteadyInductive, <1>2, PTL DEF Spec, RevisionNamesConfig

\* The config of the files is the published one unless its revision is larger.
Names(files) ==
  /\ memory.revisions.config <= files.revisions.config
  /\ memory.revisions.config = files.revisions.config =>
       memory.config = files.config

\* So are the files a restart would serve, the vault's when it is prepared; a
\* recovery has put them back when it discards the vault.
NamesInv ==
  /\ Running /\ ~ Journalled(op) => op.goal.config = op.prevConfig
  /\ Journalled(op) /\ pc \in Persisting => journal[slot] = "prepared"
  /\ op.kind = "recovery" /\ pc \in {"restoreRevisions", "discard"} =>
       disk.config = backup[slot].files.config
  /\ op.kind = "recovery" /\ pc = "discard" =>
       disk.revisions = backup[slot].files.revisions
  /\ Names(IF journal[slot] = "prepared" THEN backup[slot].files ELSE disk)

\* Every writer of the config file has a vault.
ConfigVaulted == Kind \cap {"config.update", "providers.set"} = {}

\* Each step keeps it: the config and its revision change on either side of the
\* commit marker, in the vault's stead, or back in that order.
LEMMA NamesStep ==
  ASSUME Steady, ConfigVaulted, SteadyInv, NamesInv, [Next]_vars
  PROVE  NamesInv'
<1>0. TypeOK' /\ SteadyInv'
  BY NextType, SteadyNext DEF SteadyInv
<1>1. /\ memory.revisions.config \in Nat
      /\ memory'.revisions.config \in Nat
      /\ disk.revisions.config \in Nat
      /\ op.prevRevisions.config \in Nat
      /\ op.goal.revisions.config \in Nat
      /\ \A s \in Slot : backup[s].files.revisions.config \in Nat
  BY <1>0 DEF SteadyInv, TypeOK, Op, Store, Memory, Files, Revisions
<1> USE <1>1
    DEF NamesInv, Names, Running, Journalled, JournalledKinds, durables, views
<1>2. CASE Handlers
  <2>1. PICK kind \in Kinds, out \in SUBSET Account, in \in SUBSET Account,
             config \in Config, write \in BOOLEAN, bc \in BOOLEAN,
             ba \in BOOLEAN :
          BeginsWith(kind, out, in, config, write, bc, ba)
    BY <1>2, HandlersBegin DEF SteadyInv, Begins
  <2>2. Running' /\ (~ op'.write \/ op'.kind \in JournalledKinds)
    BY <2>1 DEF BeginsWith, Accept, ConfigVaulted, Kinds
  <2>3. op'.goal.config = op'.prevConfig \/ op'.kind \in JournalledKinds
    BY <1>0, <2>2 DEF SteadyInv, Intent
  <2>4. op'.kind \in JournalledKinds => pc' = "copy"
    BY <2>1 DEF BeginsWith, Accept, FirstStep
  <2>5. op'.kind # "recovery"
    BY <2>2
  <2> QED BY <2>1, <2>3, <2>4, <2>5 DEF BeginsWith, Accept, Persisting
<1>3. CASE Forward
  <2> USE DEF SteadyInv, SteadyControl, SteadyVaults, Restoring, Persisting,
              Guarded, Undoing, TypeOK, Files, Memory, NoOp
  <2>1. ASSUME NEW s \in Slot, CopyBackups(s) PROVE NamesInv'
    BY <2>1 DEF CopyBackups, SteadyProgress, SteadyViews, StoreOf, Before,
                Preparing, Published
  <2>2. CASE WriteManifest
    BY <2>2 DEF WriteManifest, SteadyViews, StoreOf, Before, Published, Preparing
  <2>3. CASE WriteCredentials \/ RefreshSidecar \/ StartCandidate
    BY <2>3 DEF WriteCredentials, RefreshSidecar, StartCandidate
  <2>4. CASE PersistConfig
    BY <2>4 DEF PersistConfig, SteadyProgress, SteadyViews, Published
  <2>5. CASE PersistRevisions
    BY <2>5 DEF PersistRevisions, SteadyProgress, SteadyViews, Published, Intent
  <2>6. CASE PersistCoordinators
    BY <2>6 DEF PersistCoordinators
  <2>7. CASE MarkCommitted
    BY <2>7 DEF MarkCommitted, SteadyProgress, SteadyViews, Published, Intent
  <2>8. CASE CommitViews
    BY <2>8 DEF CommitViews, SteadyProgress, StoreOf, Committed
  <2>9. CASE RefreshActivated \/ ReconcileAndSwap \/ RetirePrevious
    BY <2>9 DEF RefreshActivated, ReconcileAndSwap, RetirePrevious
  <2>10. CASE CleanupAndReply
    BY <2>10 DEF CleanupAndReply
  <2> HIDE DEF SteadyInv, SteadyControl, SteadyVaults, Restoring, Persisting,
               Guarded, Undoing, TypeOK, Files, Memory, NoOp, NamesInv
  <2> QED
    BY <1>3, <2>1, <2>2, <2>3, <2>4, <2>5, <2>6, <2>7, <2>8, <2>9, <2>10
    DEF Forward
<1>4. CASE Backward
  <2> USE DEF SteadyInv, SteadyControl, SteadyVaults, Restoring, Persisting,
              Guarded, Undoing, TypeOK, Files, Memory, NoOp
  <2>1. CASE UndoConfig
    BY <2>1 DEF UndoConfig, SteadyViews, Published
  <2>2. CASE UndoRevisions
    BY <2>2 DEF UndoRevisions, SteadyProgress, SteadyViews, Published
  <2>3. CASE UndoHandler
    BY <2>3 DEF UndoHandler
  <2>4. CASE RestoreAccount \/ RestoreAuth
    BY <2>4 DEF RestoreAccount, RestoreAuth
  <2>5. CASE RestoreConfig
    BY <2>5 DEF RestoreConfig, SteadyViews, Published, StoreOf, Before
  <2>6. CASE RestoreRevisions
    BY <2>6 DEF RestoreRevisions, SteadyProgress, SteadyViews, Published,
                StoreOf, Before
  <2>7. CASE DiscardVault
    BY <2>7 DEF DiscardVault, SteadyProgress, SteadyViews, Published
  <2>8. CASE ReloadCoordinators
    BY <2>8 DEF ReloadCoordinators
  <2> HIDE DEF SteadyInv, SteadyControl, SteadyVaults, Restoring, Persisting,
               Guarded, Undoing, TypeOK, Files, Memory, NoOp, NamesInv
  <2> QED
    BY <1>4, <2>1, <2>2, <2>3, <2>4, <2>5, <2>6, <2>7, <2>8 DEF Backward
<1>5. CASE Fail
  <2> USE DEF SteadyInv, SteadyControl, SteadyVaults, Restoring, Persisting,
              Guarded, Undoing, TypeOK, Files, Memory, NoOp
  <2>1. CASE FailPrepare \/ FailWrite \/ FailStart
    BY <2>1 DEF FailPrepare, FailWrite, FailStart
  <2>2. CASE FailPersist
    BY <2>2 DEF FailPersist
  <2>3. CASE FailCommit
    BY <2>3 DEF FailCommit, SteadyProgress, StoreOf, Committed, Intent
  <2> HIDE DEF SteadyInv, SteadyControl, SteadyVaults, Restoring, Persisting,
               Guarded, Undoing, TypeOK, Files, Memory, NoOp, NamesInv
  <2> QED BY <1>5, <2>1, <2>2, <2>3 DEF Fail
<1>6. CASE Interrupt \/ Throw
  BY <1>6 DEF Interrupt, Throw, Steady
<1>7. CASE Crash
  BY <1>7 DEF Crash, NoOp
<1>8. CASE Recover
  <2> USE DEF SteadyInv, SteadyControl, SteadyVaults, TypeOK, Files, NoOp
  <2>1. ASSUME NEW s \in Slot, RecoverDiscard(s) PROVE NamesInv'
    BY <2>1 DEF RecoverDiscard
  <2>2. ASSUME NEW s \in Slot, RecoverRestore(s) PROVE NamesInv'
    BY <2>2 DEF RecoverRestore
  <2>3. CASE Boot
    BY <2>3 DEF Boot
  <2> HIDE DEF SteadyInv, SteadyControl, SteadyVaults, TypeOK, Files, NoOp,
               NamesInv
  <2> QED BY <1>8, <2>1, <2>2, <2>3 DEF Recover
<1>9. CASE \E a \in Native : RejectCredential(a)
  BY <1>9 DEF RejectCredential
<1>10. CASE UNCHANGED vars
  BY <1>10 DEF vars
<1> QED
  BY <1>2, <1>3, <1>4, <1>5, <1>6, <1>7, <1>8, <1>9, <1>10 DEF Next

\* Over restarts too a config revision stands for one config, late failures and
\* crashes between any two writes included, provided every handler that writes
\* the config file has a vault.  config.update and providers.set have none: a
\* crash between their two writes leaves a new config under the old revision.
THEOREM RevisionNamesRestart ==
  ASSUME Steady, ConfigVaulted PROVE Spec => RevisionNamesConfig
<1>1. Init => NamesInv
  BY DEF Init, NamesInv, Names, Running, Journalled, JournalledKinds, NoOp,
         NoFiles, NoRevisions
<1>2. SteadyInv /\ NamesInv /\ [Next]_vars => NamesInv'
  BY NamesStep
<1>3. ASSUME SteadyInv, NamesInv, [Next]_vars,
             memory'.revisions.config = memory.revisions.config
      PROVE  memory'.config = memory.config
  <2>1. CASE Boot
    <3>1. journal[slot] # "prepared"
      BY <1>3, <2>1 DEF Boot, SteadyInv, TypeOK
    <3>2. Names(disk)
      BY <1>3, <3>1 DEF NamesInv
    <3>3. memory'.revisions = disk.revisions /\ memory'.config = disk.config
      BY <2>1 DEF Boot
    <3> QED BY <1>3, <3>2, <3>3 DEF Names
  <2>2. CASE ~ Boot
    BY <1>3, <2>2, RevisionNamesBoot
  <2> QED BY <2>1, <2>2
<1>4. SteadyInv /\ NamesInv /\ [Next]_vars =>
        [memory'.revisions.config = memory.revisions.config =>
           memory'.config = memory.config]_vars
  BY <1>3
<1> QED
  BY SteadyInductive, <1>1, <1>2, <1>4, PTL DEF Spec, RevisionNamesConfig

-----------------------------------------------------------------------------
(* What a restart would serve, with any handler running.                    *)

\* The revisions that clients were told are in r.
Covers(r) == acked.config <= r.config /\ acked.accounts <= r.accounts

\* They are in the file, in the store that a handler goes back to, and in a
\* prepared vault.
SteadyAcked ==
  /\ Covers(disk.revisions)
  /\ Running => Covers(op.prevRevisions)
  /\ journal[slot] = "prepared" => Covers(backup[slot].files.revisions)

\* A handler that goes forward only writes larger revisions, and acknowledges
\* those of the file; one that goes back writes those it began with.
LEMMA SteadyAckedStep ==
  ASSUME Steady, SteadyInv, SteadyAcked, [Next]_vars
  PROVE  SteadyAcked'
<1>0. TypeOK' /\ (op.kind # "none" => pc \notin {"idle", "down"})
  BY NextType DEF SteadyInv, SteadyControl
<1>1. /\ acked \in Revisions
      /\ op.prevRevisions \in Revisions
      /\ op.goal.revisions \in Revisions
  BY DEF SteadyInv, TypeOK, Op, Store
<1> USE <1>0, <1>1
    DEF SteadyInv, SteadyControl, SteadyVaults, SteadyAcked, Covers, Running,
        Revisions, TypeOK, Files, durables, views
<1>2. CASE Handlers
  <2>1. pc = "idle" /\ op'.prevRevisions = memory.revisions
    BY <1>2, HandlersBegin DEF Begins, BeginsWith, Accept
  <2>2. memory.revisions = disk.revisions
    BY <2>1 DEF ServingMatchesDisk, ViewsDurable
  <2> QED
    BY <1>2, <2>1, <2>2, HandlersBegin DEF Begins, BeginsWith, Accept
<1>3. ASSUME NEW s \in Slot, CopyBackups(s) PROVE SteadyAcked'
  BY <1>3 DEF CopyBackups
<1>4. CASE WriteManifest
  <2>1. backup[slot].files.revisions = op.prevRevisions
    BY <1>4 DEF WriteManifest, Preparing, StoreOf, Before
  <2>2. Running
    BY <1>4 DEF WriteManifest, Restoring
  <2> QED BY <1>4, <2>1, <2>2 DEF WriteManifest
<1>5. CASE PersistRevisions
  <2>1. Running /\ disk'.revisions = op.goal.revisions
    BY <1>5 DEF PersistRevisions, Restoring
  <2>2. Covers(op.goal.revisions)
    BY <2>1 DEF Intent
  <2> QED BY <1>5, <2>1, <2>2 DEF PersistRevisions
<1>6. CASE CleanupAndReply
  <2>1. disk.revisions = memory.revisions
    BY <1>6
    DEF CleanupAndReply, SteadyProgress, SteadyViews, Committed, Published,
        StoreOf
  <2>2. journal[slot] # "prepared"
    BY <1>6
    DEF CleanupAndReply, Guarded, Persisting, Undoing, Restoring
  <2>3. acked' = memory.revisions /\ disk' = disk /\ ~ Running' /\ slot' = slot
    BY <1>6 DEF CleanupAndReply, NoOp
  <2>4. journal'[slot] # "prepared"
    BY <1>6, <2>2 DEF CleanupAndReply
  <2> QED BY <2>1, <2>3, <2>4 DEF Memory
<1>7. CASE Forward /\ ~ WriteManifest /\ ~ PersistRevisions /\ ~ CleanupAndReply
  BY <1>7, <1>3
  DEF Forward, WriteCredentials, RefreshSidecar, StartCandidate, PersistConfig,
      PersistCoordinators, MarkCommitted, RefreshActivated, CommitViews,
      ReconcileAndSwap, RetirePrevious
<1>8. CASE UndoRevisions
  <2>1. Running /\ disk'.revisions = op.prevRevisions
    BY <1>8 DEF UndoRevisions, Restoring
  <2> QED BY <1>8, <2>1 DEF UndoRevisions
<1>9. CASE RestoreRevisions
  <2>1. Covers(backup[slot].files.revisions)
    BY <1>9 DEF RestoreRevisions, Restoring, StoreOf, Before, Journalled,
                JournalledKinds
  <2> QED BY <1>9, <2>1 DEF RestoreRevisions
<1>10. CASE Backward /\ ~ UndoRevisions /\ ~ RestoreRevisions
  BY <1>10
  DEF Backward, UndoConfig, UndoHandler, RestoreAccount, RestoreAuth,
      RestoreConfig, DiscardVault, ReloadCoordinators, NoOp
<1>11. CASE Fail
  BY <1>11
  DEF Fail, FailPrepare, FailWrite, FailStart, FailPersist, FailCommit, NoOp
<1>12. CASE Interrupt \/ Throw
  BY <1>12 DEF Interrupt, Throw, Steady
<1>13. CASE Crash
  BY <1>13 DEF Crash, NoOp
<1>14. CASE Recover
  BY <1>14 DEF Recover, RecoverDiscard, RecoverRestore, Boot, NoOp
<1>15. CASE \E a \in Native : RejectCredential(a)
  BY <1>15 DEF RejectCredential
<1>16. CASE UNCHANGED vars
  BY <1>16 DEF vars
<1> QED
  BY <1>2, <1>4, <1>5, <1>6, <1>7, <1>8, <1>9, <1>10, <1>11, <1>12, <1>13, <1>14,
     <1>15, <1>16
  DEF Next

\* The revisions a client was told are never taken back: not by a rollback, nor
\* by the rollback of a late failure, nor by a crash at any step.
THEOREM AcknowledgedSteady ==
  ASSUME Steady PROVE Spec => []AcknowledgedSurvives
<1>1. Init => SteadyAcked
  BY DEF Init, SteadyAcked, Covers, Running, NoOp, NoFiles, NoRevisions
<1>2. SteadyInv /\ SteadyAcked /\ [Next]_vars => SteadyAcked'
  BY SteadyAckedStep
<1>3. SteadyInv /\ SteadyAcked => AcknowledgedSurvives
  BY DurableValue
  DEF SteadyInv, SteadyVaults, OneVault, SteadyAcked, Covers, StoreOf,
      AcknowledgedSurvives
<1> QED BY SteadyInductive, <1>1, <1>2, <1>3, PTL DEF Spec

\* At every step of a mutation with a vault, its rollback included, a restart
\* serves the store of before it or of after it, never a mix, whatever handlers
\* ran before it.  A step after the marker must not fail: its rollback has no
\* vault that a restart would finish (the run account_late_failure).
THEOREM WholeSteady ==
  ASSUME Steady, "late" \notin Fault PROVE Spec => []RestartWhole
<1>1. SteadyInv => RestartWhole
  <2> SUFFICES ASSUME SteadyInv, Journalled(op)
               PROVE  Durable \in {Before, op.goal}
    BY DEF RestartWhole
  <2>1. Durable = StoreOf(IF journal[slot] = "prepared"
                          THEN backup[slot].files ELSE disk)
    BY DurableValue DEF SteadyInv, SteadyVaults, OneVault
  <2>2. pc \notin {"idle", "down", "refresh"}
    BY DEF SteadyInv, SteadyControl, Journalled, JournalledKinds
  <2>3. pc \in Preparing \cup Guarded \cup Committed \cup {"reload"}
    BY <2>2 DEF SteadyInv, TypeOK, Steps, Preparing, Guarded, Persisting,
                Undoing, Restoring, Committed
  <2>4. CASE pc \in Guarded
    <3>1. pc \notin {"copy", "reload"}
      BY <2>4 DEF Guarded, Persisting, Undoing, Restoring
    <3> QED BY <2>1, <2>4, <3>1 DEF SteadyInv, SteadyVaults
  <2>5. CASE pc \notin Guarded
    <3>1. journal[slot] # "prepared"
      BY <2>2, <2>5 DEF SteadyInv, SteadyVaults, TypeOK
    <3>2. Durable = StoreOf(disk)
      BY <2>1, <3>1
    <3>3. CASE pc \in Preparing \cup {"reload"}
      BY <3>2, <3>3 DEF SteadyInv, SteadyProgress
    <3>4. CASE pc \in Committed
      BY <3>2, <3>4 DEF SteadyInv, SteadyProgress
    <3> QED BY <2>3, <2>5, <3>3, <3>4
  <2> QED BY <2>4, <2>5
<1> QED BY SteadyInductive, <1>1, PTL
=============================================================================
