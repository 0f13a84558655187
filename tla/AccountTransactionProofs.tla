---------------------- MODULE AccountTransactionProofs ----------------------
(***************************************************************************)
(* Theorems about AccountTransaction, for any accounts, documents and       *)
(* transaction directories, and any bound on the revisions.                 *)
(*                                                                         *)
(* TypeOK holds of every handler under every fault.  That the vault makes a *)
(* mutation an atomic update needs Scoped: journalled mutations whose steps *)
(* may fail up to the commit marker, and crashes.  Outside it that is       *)
(* false: see the runs account_late_failure and account_stale_vault.        *)
(* AccountFaultsProofs has what holds there.                                *)
(***************************************************************************)
EXTENDS AccountTransaction, TLAPS

Scoped == Kind \subseteq JournalledKinds /\ Fault \subseteq {"step", "crash"}

-----------------------------------------------------------------------------
(* The inductive invariant.                                                 *)

Preparing == {"copy", "journal"}
Persisting == {"write", "start", "config", "revisions", "coordinators", "mark"}
Undoing == {"undoConfig", "undoRevisions", "undo"}
Restoring == {"restoreAccount", "restoreAuth", "restoreConfig",
              "restoreRevisions", "discard"}
Committed == {"late", "views", "reconcile", "retire", "cleanup"}
Guarded == Persisting \cup Undoing \cup Restoring

\* Which handlers run, and where they can be.
Control ==
  /\ op.kind \in JournalledKinds \cup {"none", "recovery"}
  /\ op.kind = "none" <=> pc \in {"idle", "down"}
  /\ op.kind = "recovery" => pc \in Restoring
  /\ pc \in Preparing \cup Guarded \cup Committed \cup {"reload", "idle", "down"}
  /\ ~ Journalled(op) => op.goal = NoStore

\* What the running handler means to do.
Plan ==
  Journalled(op) =>
    /\ op.goal.account = (op.prevRouter.account \ op.out) \cup op.in
    /\ ~ op.write => op.goal.config = op.prevConfig
    /\ op.prevRevisions.config <= op.goal.revisions.config
    /\ op.prevRevisions.accounts <= op.goal.revisions.accounts

\* Only the transaction in use is prepared, from the manifest to the marker;
\* its backups are the store from before the handler.
Vaults ==
  /\ \A s \in Slot : journal[s] = "prepared" =>
       s = slot /\ pc \in Guarded \cup {"down"}
  /\ pc \in Guarded => journal[slot] = "prepared"
  /\ Journalled(op) /\ pc \in Guarded \cup {"journal"} =>
       StoreOf(backup[slot].files) = Before

\* How far the files have got.
Progress ==
  /\ Journalled(op) /\ pc \in Preparing \cup {"write", "reload"} =>
       StoreOf(disk) = Before
  /\ pc \in Persisting \ {"write"} => disk.account = op.goal.account
  /\ pc \in {"start", "config"} => disk.config = op.prevConfig
  /\ pc \in {"revisions", "coordinators", "mark"} =>
       disk.config = op.goal.config
  /\ pc \in {"coordinators", "mark"} => disk.revisions = op.goal.revisions
  /\ pc \in Committed => StoreOf(disk) = op.goal
  /\ pc \in Restoring \ {"restoreAccount"} =>
       disk.account = backup[slot].files.account
  /\ pc \in {"restoreRevisions", "discard"} =>
       disk.config = backup[slot].files.config
  /\ pc = "discard" => disk.revisions = backup[slot].files.revisions

\* What is published: the prior generation up to the commit stage.
Views ==
  /\ Journalled(op) /\ pc \notin {"reconcile", "retire", "cleanup"} =>
       /\ memory.config = op.prevConfig
       /\ memory.revisions = op.prevRevisions
       /\ router = op.prevRouter
       /\ target = op.prevRouter
  /\ pc \in {"config", "revisions", "coordinators", "mark", "late", "views",
             "reconcile"} =>
       candidate = [config |-> op.goal.config, account |-> op.goal.account]
  /\ pc \in {"reconcile", "retire", "cleanup"} =>
       /\ memory.config = op.goal.config
       /\ memory.revisions = op.goal.revisions
       /\ router = [config |-> op.goal.config, account |-> op.goal.account]
  /\ pc \in {"retire", "cleanup"} => target = router
  /\ Journalled(op) => op.prevRouter.config = op.prevConfig

\* The quarantine file follows memory until a rollback starts.
Quarantine ==
  pc \in Preparing \cup Persisting \cup Committed \cup {"idle"} =>
    memory.rejected = disk.auth

IInv ==
  /\ TypeOK
  /\ Control
  /\ Plan
  /\ Vaults
  /\ Progress
  /\ Views
  /\ Quarantine
  /\ ServingMatchesDisk

-----------------------------------------------------------------------------
(* Type correctness.                                                        *)

\* A handler begins with a call of Accept.  The config it keeps or reads is
\* written only by who changes it, a change takes a new revision, and without a
\* vault only one credential file can be undone.
BeginsWith(kind, out, in, config, write, bc, ba) ==
  /\ Accept(kind, out, in, config, write, bc, ba)
  /\ kind \in JournalledKinds => (write \/ config = memory.config)
  /\ write \/ config \in {memory.config, disk.config}
  /\ write => kind \in JournalledKinds \cup {"config.update", "providers.set"}
  /\ bc \/ config = memory.config
  /\ kind \notin JournalledKinds =>
       /\ out \subseteq disk.account \cap Cliproxy
       /\ in \subseteq Native \ disk.account
  /\ FirstStep(kind) \in {"refresh", "start"} => out = {} /\ in = {}

\* Its arguments are well typed.
Begins ==
  \E kind \in Kinds, out, in \in SUBSET Account, config \in Config,
     write, bc, ba \in BOOLEAN :
    BeginsWith(kind, out, in, config, write, bc, ba)

\* Every handler starts with Accept, or settles its request at once.
LEMMA HandlersBegin == TypeOK /\ Handlers => Begins
<1> SUFFICES ASSUME TypeOK, Handlers PROVE Begins
  OBVIOUS
<1> USE DEF Kinds, JournalledKinds, FirstStep
<1>0. /\ memory.config \in Config
      /\ disk.config \in Config
      /\ memory.config.enabled \in SUBSET Connector
      /\ \A e \in SUBSET Connector :
           [memory.config EXCEPT !.enabled = e] \in Config
  BY DEF TypeOK, Memory, Files, Config
<1>1. ASSUME NEW a \in Account, Enroll(a) PROVE Begins
  <2>1. BeginsWith("accounts.enroll", {}, {a}, memory.config, FALSE, FALSE, TRUE)
    BY <1>1 DEF BeginsWith, Enroll
  <2> QED BY <1>0, <2>1 DEF Begins
<1>2. ASSUME NEW a \in Account, EnrollActivate(a) PROVE Begins
  <2> DEFINE c == ConnectorOf({a})
             config == [memory.config EXCEPT !.enabled = @ \cup {c}]
  <2>1. config \in Config
    BY <1>0 DEF ConnectorOf, Connector
  <2>2. BeginsWith("accounts.enrollActivate", {}, {a}, config, TRUE, TRUE, TRUE)
    BY <1>2 DEF EnrollActivate, BeginsWith
  <2> QED BY <2>1, <2>2 DEF Begins
<1>3. ASSUME NEW a \in Account, Remove(a) PROVE Begins
  <2> DEFINE less == [memory.config EXCEPT !.enabled = @ \ {"native"}]
  <2>1. less \in Config
    BY <1>0
  <2>2. \/ BeginsWith("accounts.remove", {a}, {}, less, TRUE, TRUE, TRUE)
        \/ BeginsWith("accounts.remove", {a}, {}, memory.config, FALSE, FALSE, TRUE)
    BY <1>3 DEF Remove, BeginsWith
  <2> QED BY <1>0, <2>1, <2>2 DEF Begins
<1>4. ASSUME NEW a \in Account, RemoveCliproxy(a) PROVE Begins
  <2>1. BeginsWith("accounts.removeCliproxy", {a}, {}, memory.config, FALSE, FALSE, TRUE)
    BY <1>4 DEF BeginsWith, RemoveCliproxy
  <2> QED BY <1>0, <2>1 DEF Begins
<1>5. ASSUME NEW a \in Native, NEW b \in Native, Rename(a, b) PROVE Begins
  <2>1. BeginsWith("accounts.rename", {a}, {b}, memory.config, FALSE, FALSE, TRUE)
    BY <1>5 DEF BeginsWith, Rename
  <2>2. {a} \in SUBSET Account /\ {b} \in SUBSET Account
    BY DEF Account
  <2> QED BY <1>0, <2>1, <2>2 DEF Begins
<1>6. CASE Sync
  <2>1. BeginsWith("accounts.sync", {}, {}, memory.config, FALSE, FALSE, TRUE)
    BY <1>6 DEF BeginsWith, Sync
  <2> QED BY <1>0, <2>1 DEF Begins
<1>7. ASSUME NEW d \in Document, NEW e \in SUBSET Connector, ConfigUpdate(d, e)
      PROVE Begins
  <2>1. [enabled |-> e, document |-> d] \in Config
    BY DEF Config
  <2>2. BeginsWith("config.update", {}, {}, [enabled |-> e, document |-> d],
                   TRUE, TRUE, FALSE)
    BY <1>7 DEF BeginsWith, ConfigUpdate
  <2> QED BY <2>1, <2>2 DEF Begins
<1>8. ASSUME NEW p \in Connector, NEW on \in BOOLEAN, ProvidersSet(p, on)
      PROVE Begins
  <2> DEFINE e == IF on THEN memory.config.enabled \cup {p}
                  ELSE memory.config.enabled \ {p}
             config == [memory.config EXCEPT !.enabled = e]
  <2>1. config \in Config
    BY <1>0
  <2>2. BeginsWith("providers.set", {}, {}, config, TRUE, TRUE, FALSE)
    BY <1>8 DEF ProvidersSet, BeginsWith
  <2> QED BY <2>1, <2>2 DEF Begins
<1>9. CASE Reload
  <2>1. BeginsWith("daemon.reload", {}, {}, disk.config, FALSE, TRUE, FALSE)
    BY <1>9 DEF Reload, BeginsWith
  <2> QED BY <1>0, <2>1 DEF Begins
<1> QED BY <1>1, <1>2, <1>3, <1>4, <1>5, <1>6, <1>7, <1>8, <1>9 DEF Handlers

\* The records that stand for "nothing" are well typed.
LEMMA EmptyTypes ==
  /\ NoConfig \in Config
  /\ NoRevisions \in Revisions
  /\ NoStore \in Store
  /\ NoFiles \in Files
  /\ NoRouter \in Router
  /\ NoOp("none") \in Op /\ NoOp("recovery") \in Op
  /\ NoBackup \in [files : Files, native : BOOLEAN]
  BY DocumentAssumption
  DEF NoConfig, Config, NoRevisions, Revisions, NoStore, Store, NoFiles, Files,
      NoRouter, Router, NoOp, Op, NoBackup

\* Type correctness: the initial states,
LEMMA InitType == Init => TypeOK
  BY EmptyTypes DEF Init, TypeOK, Memory

\* ... the start of a handler,
LEMMA BeginsType == TypeOK /\ Begins => TypeOK'
<1> SUFFICES ASSUME TypeOK,
                    NEW kind \in Kinds, NEW out \in SUBSET Account,
                    NEW in \in SUBSET Account, NEW config \in Config,
                    NEW write \in BOOLEAN, NEW bc \in BOOLEAN,
                    NEW ba \in BOOLEAN,
                    Accept(kind, out, in, config, write, bc, ba)
             PROVE TypeOK'
  BY DEF Begins, BeginsWith
<1>1. op'.goal \in Store
  BY DEF Accept, TypeOK, Files, Memory, Revisions, Store, Bump
<1>2. op' \in Op
  BY <1>1 DEF Accept, TypeOK, Memory, Op
<1>3. pc' \in Steps
  BY DEF Accept, FirstStep, Kinds, JournalledKinds, Steps
<1> QED BY <1>2, <1>3 DEF Accept, TypeOK, durables, views

\* ... a step of a handler that succeeds,
LEMMA ForwardType == TypeOK /\ Forward => TypeOK'
<1> SUFFICES ASSUME TypeOK, Forward PROVE TypeOK'
  OBVIOUS
<1> USE DEF TypeOK, durables, views, Steps, Memory
<1>1. ASSUME NEW s \in Slot, CopyBackups(s) PROVE TypeOK'
  BY <1>1, EmptyTypes DEF CopyBackups, Files
<1>2. CASE WriteManifest
  BY <1>2, EmptyTypes DEF WriteManifest
<1>3. CASE WriteCredentials
  BY <1>3, EmptyTypes DEF WriteCredentials, Files, Op
<1>4. CASE RefreshSidecar
  BY <1>4, EmptyTypes DEF RefreshSidecar
<1>5. CASE StartCandidate
  BY <1>5, EmptyTypes DEF StartCandidate, Files, Op, Store, Router
<1>6. CASE PersistConfig
  BY <1>6, EmptyTypes DEF PersistConfig, Files, Op, Store
<1>7. CASE PersistRevisions
  BY <1>7, EmptyTypes DEF PersistRevisions, Files, Op, Store
<1>8. CASE PersistCoordinators
  BY <1>8, EmptyTypes DEF PersistCoordinators, Files, Op, Moved
<1>9. CASE MarkCommitted
  BY <1>9, EmptyTypes DEF MarkCommitted
<1>10. CASE RefreshActivated
  BY <1>10, EmptyTypes DEF RefreshActivated
<1>11. CASE CommitViews
  BY <1>11, EmptyTypes DEF CommitViews, Op, Store
<1>12. CASE ReconcileAndSwap
  BY <1>12, EmptyTypes DEF ReconcileAndSwap, Files
<1>13. CASE RetirePrevious
  BY <1>13, EmptyTypes DEF RetirePrevious
<1>14. CASE CleanupAndReply
  BY <1>14, EmptyTypes DEF CleanupAndReply
<1> QED
  BY <1>1, <1>2, <1>3, <1>4, <1>5, <1>6, <1>7, <1>8, <1>9, <1>10, <1>11, <1>12,
      <1>13, <1>14 DEF Forward

\* ... a step of a rollback,
LEMMA BackwardType == TypeOK /\ Backward => TypeOK'
<1> SUFFICES ASSUME TypeOK, Backward PROVE TypeOK'
  OBVIOUS
<1> USE DEF TypeOK, durables, views, Steps, Memory
<1>1. CASE UndoConfig
  BY <1>1, EmptyTypes DEF UndoConfig, Files, Op
<1>2. CASE UndoRevisions
  BY <1>2, EmptyTypes DEF UndoRevisions, Files, Op
<1>3. CASE UndoHandler
  BY <1>3, EmptyTypes DEF UndoHandler, Files, Op
<1>4. CASE RestoreAccount
  BY <1>4, EmptyTypes DEF RestoreAccount, Files
<1>5. CASE RestoreAuth
  BY <1>5, EmptyTypes DEF RestoreAuth, Files
<1>6. CASE RestoreConfig
  BY <1>6, EmptyTypes DEF RestoreConfig, Files
<1>7. CASE RestoreRevisions
  BY <1>7, EmptyTypes DEF RestoreRevisions, Files
<1>8. CASE DiscardVault
  BY <1>8, EmptyTypes DEF DiscardVault
<1>9. CASE ReloadCoordinators
  BY <1>9, EmptyTypes DEF ReloadCoordinators, Files
<1> QED BY <1>1, <1>2, <1>3, <1>4, <1>5, <1>6, <1>7, <1>8, <1>9 DEF Backward

\* ... a step that fails,
LEMMA FailType == TypeOK /\ Fail => TypeOK'
<1> SUFFICES ASSUME TypeOK, Fail PROVE TypeOK'
  OBVIOUS
<1> USE DEF TypeOK, durables, views, Steps, Memory
<1>1. CASE FailPrepare
  BY <1>1, EmptyTypes DEF FailPrepare
<1>2. CASE FailWrite
  BY <1>2, EmptyTypes DEF FailWrite
<1>3. CASE FailStart
  BY <1>3, EmptyTypes DEF FailStart
<1>4. CASE FailPersist
  BY <1>4, EmptyTypes DEF FailPersist, Op, Moved
<1>5. CASE FailCommit
  BY <1>5, EmptyTypes DEF FailCommit, Op
<1> QED BY <1>1, <1>2, <1>3, <1>4, <1>5 DEF Fail

\* ... the crash and the startup recovery,
LEMMA RecoverType == TypeOK /\ Recover => TypeOK'
<1> SUFFICES ASSUME TypeOK, Recover PROVE TypeOK'
  OBVIOUS
<1> USE DEF TypeOK, durables, views, Steps, Memory
<1>1. ASSUME NEW s \in Slot, RecoverDiscard(s) PROVE TypeOK'
  BY <1>1, EmptyTypes DEF RecoverDiscard
<1>2. ASSUME NEW s \in Slot, RecoverRestore(s) PROVE TypeOK'
  BY <1>2, EmptyTypes DEF RecoverRestore
<1>3. CASE Boot
  BY <1>3, EmptyTypes DEF Boot, Files, Router
<1> QED BY <1>1, <1>2, <1>3 DEF Recover

\* ... the disconnect of a client.
LEMMA InterruptType == TypeOK /\ Interrupt => TypeOK'
<1> SUFFICES ASSUME TypeOK, Interrupt PROVE TypeOK'
  OBVIOUS
<1> DEFINE native == op.out \cup op.in \subseteq Native
           changed ==
             CASE pc = "coordinators" /\ native -> Moved(memory.rejected)
               [] pc = "reconcile" -> memory.rejected \cap disk.account
               [] OTHER -> memory.rejected
<1>1. memory.rejected \in SUBSET Native
  BY DEF TypeOK, Memory
<1>2. native => Moved(memory.rejected) \in SUBSET Native
  BY <1>1 DEF Moved
<1>3. changed \in SUBSET Native
  BY <1>1, <1>2
<1>4. /\ memory' = [memory EXCEPT !.rejected = changed]
      /\ disk' = disk \/ disk' = [disk EXCEPT !.auth = changed]
  BY DEF Interrupt
<1> HIDE DEF changed
<1>5. memory' \in Memory
  BY <1>3, <1>4 DEF TypeOK, Memory
<1>6. disk' \in Files
  BY <1>3, <1>4 DEF TypeOK, Files
<1> QED BY <1>5, <1>6, EmptyTypes DEF Interrupt, TypeOK

\* ... and so every step.
LEMMA NextType == TypeOK /\ [Next]_vars => TypeOK'
<1> SUFFICES ASSUME TypeOK, [Next]_vars PROVE TypeOK'
  OBVIOUS
<1>1. CASE Crash
  BY <1>1, EmptyTypes DEF Crash, TypeOK, durables
<1>2. ASSUME NEW a \in Native, RejectCredential(a) PROVE TypeOK'
  <2>1. memory' \in Memory
    BY <1>2 DEF RejectCredential, TypeOK, Memory
  <2>2. disk' \in Files
    BY <1>2 DEF RejectCredential, TypeOK, Memory, Files
  <2> QED BY <1>2, <2>1, <2>2 DEF RejectCredential, TypeOK
<1>3. CASE Throw
  BY <1>3, EmptyTypes DEF Throw, TypeOK, durables, views
<1>4. CASE UNCHANGED vars
  BY <1>4 DEF vars, TypeOK
<1> QED
  BY <1>1, <1>2, <1>3, <1>4, HandlersBegin, BeginsType, ForwardType, BackwardType,
     FailType, RecoverType, InterruptType DEF Next

\* Every state of every behavior is well typed, under every fault.
THEOREM TypeCorrect == Spec => []TypeOK
  BY InitType, NextType, PTL DEF Spec
-----------------------------------------------------------------------------
(* The inductive invariant.                                                 *)

\* The inductive invariant: the initial states,
LEMMA InitInv == Init => IInv
  BY InitType
  DEF Init, IInv, Control, Plan, Vaults, Progress, Views, Quarantine,
      ServingMatchesDisk, ViewsDurable, NoOp, Journalled, JournalledKinds,
      NoRouter, NoFiles, Guarded, Persisting, Undoing, Restoring, Committed,
      Preparing

\* ... the start of a handler,
LEMMA BeginsInv == Scoped /\ IInv /\ Begins => IInv'
<1> SUFFICES ASSUME Scoped, IInv, TypeOK',
                    NEW kind \in Kinds, NEW out \in SUBSET Account,
                    NEW in \in SUBSET Account, NEW config \in Config,
                    NEW write \in BOOLEAN, NEW bc \in BOOLEAN,
                    NEW ba \in BOOLEAN,
                    Accept(kind, out, in, config, write, bc, ba),
                    kind \in JournalledKinds => (write \/ config = memory.config)
             PROVE IInv'
  BY BeginsType DEF Begins, BeginsWith, IInv
<1>1. kind \in JournalledKinds /\ pc = "idle" /\ pc' = "copy"
  BY DEF Accept, Scoped, FirstStep, JournalledKinds
<1>2. memory.revisions.config \in Nat /\ memory.revisions.accounts \in Nat
  BY DEF IInv, TypeOK, Memory, Revisions
<1>3. /\ op'.goal.revisions.config \in {memory.revisions.config, memory.revisions.config + 1}
      /\ op'.goal.revisions.accounts \in {memory.revisions.accounts, memory.revisions.accounts + 1}
  BY <1>2 DEF Accept, Bump
<1> USE DEF IInv, Control, Plan, Vaults, Progress, Views, Quarantine,
            ServingMatchesDisk, ViewsDurable, Scoped, TypeOK, durables, views,
            Memory, Files, Op, Store, Router, Journalled, JournalledKinds,
            StoreOf, Before, Guarded, Persisting, Undoing, Restoring,
            Committed, Preparing
<1>4. Control'
  BY <1>1, <1>2, <1>3 DEF Accept
<1>5. Plan'
  BY <1>1, <1>2, <1>3 DEF Accept
<1>6. Vaults'
  BY <1>1, <1>2, <1>3 DEF Accept
<1>7. Progress'
  BY <1>1, <1>2, <1>3 DEF Accept
<1>8. Views'
  BY <1>1, <1>2, <1>3 DEF Accept
<1>9. Quarantine'
  BY <1>1, <1>2, <1>3 DEF Accept
<1>10. ServingMatchesDisk'
  BY <1>1, <1>2, <1>3 DEF Accept
<1> QED BY <1>4, <1>5, <1>6, <1>7, <1>8, <1>9, <1>10

\* ... a step of a handler that succeeds,
LEMMA ForwardInv == Scoped /\ IInv /\ Forward => IInv'
<1> SUFFICES ASSUME Scoped, IInv, TypeOK', Forward PROVE IInv'
  BY ForwardType DEF IInv
<1> USE DEF IInv, Control, Plan, Vaults, Progress, Views, Quarantine,
            ServingMatchesDisk, ViewsDurable, Scoped, TypeOK, durables, views,
            Memory, Files, Op, Store, Router, Journalled, JournalledKinds,
            StoreOf, Before, Guarded, Persisting, Undoing, Restoring,
            Committed, Preparing
<1>1. ASSUME NEW s \in Slot, CopyBackups(s) PROVE IInv'
  <2>1. Control'
    BY <1>1 DEF CopyBackups
  <2>2. Plan'
    BY <1>1 DEF CopyBackups
  <2>3. Vaults'
    BY <1>1 DEF CopyBackups
  <2>4. Progress'
    BY <1>1 DEF CopyBackups
  <2>5. Views'
    BY <1>1 DEF CopyBackups
  <2>6. Quarantine'
    BY <1>1 DEF CopyBackups
  <2>7. ServingMatchesDisk'
    BY <1>1 DEF CopyBackups
  <2> QED BY <2>1, <2>2, <2>3, <2>4, <2>5, <2>6, <2>7 DEF IInv
<1>2. CASE WriteManifest
  BY <1>2 DEF WriteManifest
<1>3. CASE WriteCredentials
  BY <1>3 DEF WriteCredentials
<1>4. CASE RefreshSidecar
  BY <1>4 DEF RefreshSidecar
<1>5. CASE StartCandidate
  BY <1>5 DEF StartCandidate
<1>6. CASE PersistConfig
  BY <1>6 DEF PersistConfig
<1>7. CASE PersistRevisions
  BY <1>7 DEF PersistRevisions
<1>8. CASE PersistCoordinators
  <2>1. Control'
    BY <1>8 DEF PersistCoordinators
  <2>2. Plan'
    BY <1>8 DEF PersistCoordinators
  <2>3. Vaults'
    BY <1>8 DEF PersistCoordinators
  <2>4. Progress'
    BY <1>8 DEF PersistCoordinators
  <2>5. Views'
    BY <1>8 DEF PersistCoordinators
  <2>6. Quarantine'
    BY <1>8 DEF PersistCoordinators
  <2>7. ServingMatchesDisk'
    BY <1>8 DEF PersistCoordinators
  <2> QED BY <2>1, <2>2, <2>3, <2>4, <2>5, <2>6, <2>7 DEF IInv
<1>9. CASE MarkCommitted
  BY <1>9 DEF MarkCommitted
<1>10. CASE RefreshActivated
  BY <1>10 DEF RefreshActivated
<1>11. CASE CommitViews
  BY <1>11 DEF CommitViews
<1>12. CASE ReconcileAndSwap
  BY <1>12 DEF ReconcileAndSwap
<1>13. CASE RetirePrevious
  BY <1>13 DEF RetirePrevious
<1>14. CASE CleanupAndReply
  <2>1. Control'
    BY <1>14 DEF CleanupAndReply, NoOp
  <2>2. Plan'
    BY <1>14 DEF CleanupAndReply, NoOp
  <2>3. Vaults'
    BY <1>14 DEF CleanupAndReply, NoOp
  <2>4. Progress'
    BY <1>14 DEF CleanupAndReply, NoOp
  <2>5. Views'
    BY <1>14 DEF CleanupAndReply, NoOp
  <2>6. Quarantine'
    BY <1>14 DEF CleanupAndReply, NoOp
  <2>7. ServingMatchesDisk'
    BY <1>14 DEF CleanupAndReply, NoOp
  <2> QED BY <2>1, <2>2, <2>3, <2>4, <2>5, <2>6, <2>7 DEF IInv
<1> QED
  BY <1>1, <1>2, <1>3, <1>4, <1>5, <1>6, <1>7, <1>8, <1>9, <1>10, <1>11, <1>12,
      <1>13, <1>14 DEF Forward

\* ... a step of a rollback,
LEMMA BackwardInv == Scoped /\ IInv /\ Backward => IInv'
<1> SUFFICES ASSUME Scoped, IInv, TypeOK', Backward PROVE IInv'
  BY BackwardType DEF IInv
<1> USE DEF IInv, Control, Plan, Vaults, Progress, Views, Quarantine,
            ServingMatchesDisk, ViewsDurable, Scoped, TypeOK, durables, views,
            Memory, Files, Op, Store, Router, Journalled, JournalledKinds,
            StoreOf, Before, Guarded, Persisting, Undoing, Restoring,
            Committed, Preparing
<1>1. CASE UndoConfig
  BY <1>1 DEF UndoConfig
<1>2. CASE UndoRevisions
  BY <1>2 DEF UndoRevisions
<1>3. CASE UndoHandler
  BY <1>3 DEF UndoHandler
<1>4. CASE RestoreAccount
  BY <1>4 DEF RestoreAccount
<1>5. CASE RestoreAuth
  BY <1>5 DEF RestoreAuth
<1>6. CASE RestoreConfig
  BY <1>6 DEF RestoreConfig
<1>7. CASE RestoreRevisions
  BY <1>7 DEF RestoreRevisions
<1>8. CASE DiscardVault
  BY <1>8 DEF DiscardVault, NoOp
<1>9. CASE ReloadCoordinators
  BY <1>9 DEF ReloadCoordinators, NoOp
<1> QED BY <1>1, <1>2, <1>3, <1>4, <1>5, <1>6, <1>7, <1>8, <1>9 DEF Backward

\* ... a step that fails,
LEMMA FailInv == Scoped /\ IInv /\ Fail => IInv'
<1> SUFFICES ASSUME Scoped, IInv, TypeOK', Fail PROVE IInv'
  BY FailType DEF IInv
<1> USE DEF IInv, Control, Plan, Vaults, Progress, Views, Quarantine,
            ServingMatchesDisk, ViewsDurable, Scoped, TypeOK, durables, views,
            Memory, Files, Op, Store, Router, Journalled, JournalledKinds,
            StoreOf, Before, Guarded, Persisting, Undoing, Restoring,
            Committed, Preparing
<1>1. CASE FailPrepare
  BY <1>1 DEF FailPrepare, NoOp
<1>2. CASE FailWrite
  BY <1>2 DEF FailWrite
<1>3. CASE FailStart
  BY <1>3 DEF FailStart
<1>4. CASE FailPersist
  BY <1>4 DEF FailPersist
<1>5. CASE FailCommit
  BY <1>5 DEF FailCommit
<1> QED BY <1>1, <1>2, <1>3, <1>4, <1>5 DEF Fail

\* ... the crash and the startup recovery.
LEMMA RecoverInv == Scoped /\ IInv /\ Recover => IInv'
<1> SUFFICES ASSUME Scoped, IInv, TypeOK', Recover PROVE IInv'
  BY RecoverType DEF IInv
<1> USE DEF IInv, Control, Plan, Vaults, Progress, Views, Quarantine,
            ServingMatchesDisk, ViewsDurable, Scoped, TypeOK, durables, views,
            Memory, Files, Op, Store, Router, Journalled, JournalledKinds,
            StoreOf, Before, Guarded, Persisting, Undoing, Restoring,
            Committed, Preparing
<1>1. ASSUME NEW s \in Slot, RecoverDiscard(s) PROVE IInv'
  BY <1>1 DEF RecoverDiscard
<1>2. ASSUME NEW s \in Slot, RecoverRestore(s) PROVE IInv'
  BY <1>2 DEF RecoverRestore, NoOp
<1>3. CASE Boot
  BY <1>3 DEF Boot, NoOp
<1> QED BY <1>1, <1>2, <1>3 DEF Recover

\* ... and so every step.
LEMMA NextInv == Scoped /\ IInv /\ [Next]_vars => IInv'
<1> SUFFICES ASSUME Scoped, IInv, TypeOK', [Next]_vars PROVE IInv'
  BY NextType DEF IInv
<1>1. CASE Handlers
  BY <1>1, HandlersBegin, BeginsInv DEF IInv
<1>2. CASE Forward
  BY <1>2, ForwardInv
<1>3. CASE Backward
  BY <1>3, BackwardInv
<1>4. CASE Fail
  BY <1>4, FailInv
<1>5. CASE Recover
  BY <1>5, RecoverInv
<1>6. CASE Interrupt \/ Throw
  BY <1>6 DEF Interrupt, Throw, Scoped
<1> USE DEF IInv, Control, Plan, Vaults, Progress, Views, Quarantine,
            ServingMatchesDisk, ViewsDurable, Scoped, TypeOK, durables, views,
            Memory, Files, Op, Store, Router, Journalled, JournalledKinds,
            StoreOf, Before, Guarded, Persisting, Undoing, Restoring,
            Committed, Preparing
<1>7. CASE Crash
  BY <1>7 DEF Crash, NoOp
<1>8. ASSUME NEW a \in Native, RejectCredential(a) PROVE IInv'
  BY <1>8 DEF RejectCredential, Waits
<1>9. CASE UNCHANGED vars
  BY <1>9 DEF vars
<1> QED
  BY <1>1, <1>2, <1>3, <1>4, <1>5, <1>6, <1>7, <1>8, <1>9 DEF Next

\* The strengthened invariant holds in every reachable state.
THEOREM Inductive == ASSUME Scoped PROVE Spec => []IInv
<1>1. IInv /\ [Next]_vars => IInv'
  BY NextInv
<1> QED BY InitInv, <1>1, PTL DEF Spec
-----------------------------------------------------------------------------
(* What a restart would serve.                                              *)

\* No transaction but the one in use is prepared.
OneVault == \A s \in Slot : journal[s] = "prepared" => s = slot

\* The store a restart would serve is the backup of the transaction in use
\* while that is prepared, and the files themselves otherwise.
LEMMA DurableValue ==
  TypeOK /\ OneVault =>
    Durable = StoreOf(IF journal[slot] = "prepared"
                      THEN backup[slot].files ELSE disk)
<1> SUFFICES ASSUME TypeOK, OneVault
             PROVE  Durable = StoreOf(IF journal[slot] = "prepared"
                                      THEN backup[slot].files ELSE disk)
  OBVIOUS
<1>1. CASE journal[slot] = "prepared"
  <2>1. Prepared = {slot}
    BY <1>1 DEF Prepared, OneVault, TypeOK
  <2>2. (CHOOSE s \in Prepared : TRUE) = slot
    BY <2>1
  <2> QED BY <1>1, <2>1, <2>2 DEF Durable
<1>2. CASE journal[slot] # "prepared"
  <2>1. Prepared = {}
    BY <1>2 DEF Prepared, OneVault
  <2> QED BY <1>2, <2>1 DEF Durable
<1> QED BY <1>1, <1>2

\* The commit marker is the one step that changes it.
LEMMA DurableSteps ==
  ASSUME Scoped, IInv, [Next]_vars
  PROVE  IF MarkCommitted THEN Durable = Before /\ Durable' = op.goal
                          ELSE Durable' = Durable
<1>0. TypeOK /\ OneVault /\ TypeOK' /\ OneVault'
  BY NextInv DEF IInv, Vaults, OneVault
<1>a. Durable = StoreOf(IF journal[slot] = "prepared"
                        THEN backup[slot].files ELSE disk)
  BY <1>0, DurableValue
<1>b. Durable' = StoreOf(IF journal'[slot'] = "prepared"
                         THEN backup'[slot'].files ELSE disk')
  <2>1. (TypeOK /\ OneVault =>
           Durable = StoreOf(IF journal[slot] = "prepared"
                             THEN backup[slot].files ELSE disk))'
    BY DurableValue, PTL
  <2> QED BY <1>0, <2>1
<1> USE DEF IInv, TypeOK, Control, Vaults, Progress, Scoped, StoreOf, Store,
            Files, Op, Journalled, JournalledKinds, durables, views, Before,
            Guarded, Persisting, Undoing, Restoring, Committed, Preparing
<1> DEFINE Same == Durable' = Durable
<1>m. CASE MarkCommitted
  BY <1>m, <1>a, <1>b DEF MarkCommitted
<1>1. ASSUME Handlers PROVE Same
  BY <1>1, <1>a, <1>b, HandlersBegin DEF Begins, BeginsWith, Accept
<1>2. ASSUME Forward, ~ MarkCommitted PROVE Same
  <2>1. ASSUME NEW s \in Slot, CopyBackups(s) PROVE Same
    BY <2>1, <1>a, <1>b DEF CopyBackups
  <2>2. ASSUME WriteManifest PROVE Same
    BY <2>2, <1>a, <1>b DEF WriteManifest
  <2>3. ASSUME WriteCredentials PROVE Same
    BY <2>3, <1>a, <1>b DEF WriteCredentials
  <2>4. ASSUME RefreshSidecar PROVE Same
    BY <2>4, <1>a, <1>b DEF RefreshSidecar
  <2>5. ASSUME StartCandidate PROVE Same
    BY <2>5, <1>a, <1>b DEF StartCandidate
  <2>6. ASSUME PersistConfig PROVE Same
    BY <2>6, <1>a, <1>b DEF PersistConfig
  <2>7. ASSUME PersistRevisions PROVE Same
    BY <2>7, <1>a, <1>b DEF PersistRevisions
  <2>8. ASSUME PersistCoordinators PROVE Same
    BY <2>8, <1>a, <1>b DEF PersistCoordinators
  <2>9. ASSUME RefreshActivated PROVE Same
    BY <2>9, <1>a, <1>b DEF RefreshActivated
  <2>10. ASSUME CommitViews PROVE Same
    BY <2>10, <1>a, <1>b DEF CommitViews
  <2>11. ASSUME ReconcileAndSwap PROVE Same
    BY <2>11, <1>a, <1>b DEF ReconcileAndSwap
  <2>12. ASSUME RetirePrevious PROVE Same
    BY <2>12, <1>a, <1>b DEF RetirePrevious
  <2>13. ASSUME CleanupAndReply PROVE Same
    BY <2>13, <1>a, <1>b DEF CleanupAndReply
  <2> QED
    BY <1>2, <2>1, <2>2, <2>3, <2>4, <2>5, <2>6, <2>7, <2>8, <2>9, <2>10, <2>11, <2>12, <2>13
    DEF Forward
<1>3. ASSUME Backward, ~ MarkCommitted PROVE Same
  <2>1. ASSUME UndoConfig PROVE Same
    BY <2>1, <1>a, <1>b DEF UndoConfig
  <2>2. ASSUME UndoRevisions PROVE Same
    BY <2>2, <1>a, <1>b DEF UndoRevisions
  <2>3. ASSUME UndoHandler PROVE Same
    BY <2>3, <1>a, <1>b DEF UndoHandler
  <2>4. ASSUME RestoreAccount PROVE Same
    BY <2>4, <1>a, <1>b DEF RestoreAccount
  <2>5. ASSUME RestoreAuth PROVE Same
    BY <2>5, <1>a, <1>b DEF RestoreAuth
  <2>6. ASSUME RestoreConfig PROVE Same
    BY <2>6, <1>a, <1>b DEF RestoreConfig
  <2>7. ASSUME RestoreRevisions PROVE Same
    BY <2>7, <1>a, <1>b DEF RestoreRevisions
  <2>8. ASSUME DiscardVault PROVE Same
    BY <2>8, <1>a, <1>b DEF DiscardVault
  <2>9. ASSUME ReloadCoordinators PROVE Same
    BY <2>9, <1>a, <1>b DEF ReloadCoordinators
  <2> QED
    BY <1>3, <2>1, <2>2, <2>3, <2>4, <2>5, <2>6, <2>7, <2>8, <2>9
    DEF Backward
<1>4. ASSUME Fail, ~ MarkCommitted PROVE Same
  <2>1. ASSUME FailPrepare PROVE Same
    BY <2>1, <1>a, <1>b DEF FailPrepare
  <2>2. ASSUME FailWrite PROVE Same
    BY <2>2, <1>a, <1>b DEF FailWrite
  <2>3. ASSUME FailStart PROVE Same
    BY <2>3, <1>a, <1>b DEF FailStart
  <2>4. ASSUME FailPersist PROVE Same
    BY <2>4, <1>a, <1>b DEF FailPersist
  <2>5. ASSUME FailCommit PROVE Same
    BY <2>5, <1>a, <1>b DEF FailCommit
  <2> QED
    BY <1>4, <2>1, <2>2, <2>3, <2>4, <2>5
    DEF Fail
<1>5. ASSUME Recover, ~ MarkCommitted PROVE Same
  <2>1. ASSUME NEW s \in Slot, RecoverDiscard(s) PROVE Same
    BY <2>1, <1>a, <1>b DEF RecoverDiscard
  <2>2. ASSUME NEW s \in Slot, RecoverRestore(s) PROVE Same
    BY <2>2, <1>a, <1>b DEF RecoverRestore
  <2>3. ASSUME Boot PROVE Same
    BY <2>3, <1>a, <1>b DEF Boot
  <2> QED
    BY <1>5, <2>1, <2>2, <2>3
    DEF Recover
<1>6. ASSUME Interrupt \/ Throw PROVE Same
  BY <1>6 DEF Interrupt, Throw
<1>7. ASSUME Crash PROVE Same
  BY <1>7, <1>a, <1>b DEF Crash
<1>8. ASSUME NEW a \in Native, RejectCredential(a) PROVE Same
  BY <1>8, <1>a, <1>b DEF RejectCredential
<1>9. ASSUME UNCHANGED vars PROVE Same
  BY <1>9, <1>a, <1>b DEF vars
<1> QED
  BY <1>m, <1>1, <1>2, <1>3, <1>4, <1>5, <1>6, <1>7, <1>8, <1>9 DEF Next

-----------------------------------------------------------------------------
(* Refinement of AtomicUpdate.                                              *)

\* How a step moves the phase of the abstract request.
LEMMA PhaseSteps ==
  ASSUME Scoped, IInv, [Next]_vars, ~ MarkCommitted
  PROVE  \/ Phase = "none" /\ Phase' = "open" /\ op'.goal \in Store
         \/ Phase \in {"open", "done"} /\ Phase' = "none" /\ op'.goal \in Store
         \/ Phase' = Phase /\ op'.goal = op.goal
<1> DEFINE Begun == Phase = "none" /\ Phase' = "open" /\ op'.goal \in Store
           Ended == /\ Phase \in {"open", "done"}
                    /\ Phase' = "none"
                    /\ op'.goal \in Store
           Same == Phase' = Phase /\ op'.goal = op.goal
<1>0. op'.goal \in Store
  BY NextType DEF IInv, TypeOK, Op
<1> USE DEF IInv, Control, Phase, Journalled, JournalledKinds, Scoped, Guarded,
            Persisting, Undoing, Restoring, Committed, Preparing
<1>1. ASSUME Handlers PROVE Begun
  <2>1. pc = "idle" /\ op'.kind \in JournalledKinds /\ pc' = "copy"
    BY <1>1, HandlersBegin DEF Begins, BeginsWith, Accept, FirstStep
  <2> QED BY <1>0, <2>1
<1>2. ASSUME Forward PROVE Ended \/ Same
  <2>1. ASSUME NEW s \in Slot, CopyBackups(s) PROVE Same
    BY <1>0, <2>1 DEF CopyBackups
  <2>2. ASSUME WriteManifest PROVE Same
    BY <1>0, <2>2 DEF WriteManifest
  <2>3. ASSUME WriteCredentials PROVE Same
    BY <1>0, <2>3 DEF WriteCredentials
  <2>4. ASSUME RefreshSidecar PROVE Same
    BY <1>0, <2>4 DEF RefreshSidecar
  <2>5. ASSUME StartCandidate PROVE Same
    BY <1>0, <2>5 DEF StartCandidate
  <2>6. ASSUME PersistConfig PROVE Same
    BY <1>0, <2>6 DEF PersistConfig
  <2>7. ASSUME PersistRevisions PROVE Same
    BY <1>0, <2>7 DEF PersistRevisions
  <2>8. ASSUME PersistCoordinators PROVE Same
    BY <1>0, <2>8 DEF PersistCoordinators
  <2>9. ASSUME RefreshActivated PROVE Same
    BY <1>0, <2>9 DEF RefreshActivated
  <2>10. ASSUME CommitViews PROVE Same
    BY <1>0, <2>10 DEF CommitViews
  <2>11. ASSUME ReconcileAndSwap PROVE Same
    BY <1>0, <2>11 DEF ReconcileAndSwap
  <2>12. ASSUME RetirePrevious PROVE Same
    BY <1>0, <2>12 DEF RetirePrevious
  <2>13. ASSUME CleanupAndReply PROVE Ended
    BY <1>0, <2>13 DEF CleanupAndReply, NoOp
  <2> QED
    BY <1>2, <2>1, <2>2, <2>3, <2>4, <2>5, <2>6, <2>7, <2>8, <2>9, <2>10, <2>11, <2>12, <2>13
    DEF Forward
<1>3. ASSUME Backward PROVE Ended \/ Same
  <2>1. ASSUME UndoConfig PROVE Same
    BY <1>0, <2>1 DEF UndoConfig
  <2>2. ASSUME UndoRevisions PROVE Same
    BY <1>0, <2>2 DEF UndoRevisions
  <2>3. ASSUME UndoHandler PROVE Same
    BY <1>0, <2>3 DEF UndoHandler
  <2>4. ASSUME RestoreAccount PROVE Same
    BY <1>0, <2>4 DEF RestoreAccount
  <2>5. ASSUME RestoreAuth PROVE Same
    BY <1>0, <2>5 DEF RestoreAuth
  <2>6. ASSUME RestoreConfig PROVE Same
    BY <1>0, <2>6 DEF RestoreConfig
  <2>7. ASSUME RestoreRevisions PROVE Same
    BY <1>0, <2>7 DEF RestoreRevisions
  <2>8. ASSUME DiscardVault PROVE Same
    BY <1>0, <2>8 DEF DiscardVault, NoOp
  <2>9. ASSUME ReloadCoordinators PROVE Ended
    BY <1>0, <2>9 DEF ReloadCoordinators, NoOp
  <2> QED
    BY <1>3, <2>1, <2>2, <2>3, <2>4, <2>5, <2>6, <2>7, <2>8, <2>9
    DEF Backward
<1>4. ASSUME Fail PROVE Ended \/ Same
  <2>1. ASSUME FailPrepare PROVE Ended
    BY <1>0, <2>1 DEF FailPrepare, NoOp
  <2>2. ASSUME FailWrite PROVE Same
    BY <1>0, <2>2 DEF FailWrite
  <2>3. ASSUME FailStart PROVE Same
    BY <1>0, <2>3 DEF FailStart
  <2>4. ASSUME FailPersist PROVE Same
    BY <1>0, <2>4 DEF FailPersist
  <2>5. ASSUME FailCommit PROVE Same
    BY <1>0, <2>5 DEF FailCommit
  <2> QED
    BY <1>4, <2>1, <2>2, <2>3, <2>4, <2>5
    DEF Fail
<1>5. ASSUME Recover PROVE Ended \/ Same
  <2>1. ASSUME NEW s \in Slot, RecoverDiscard(s) PROVE Same
    BY <1>0, <2>1 DEF RecoverDiscard
  <2>2. ASSUME NEW s \in Slot, RecoverRestore(s) PROVE Same
    BY <1>0, <2>2 DEF RecoverRestore, NoOp
  <2>3. ASSUME Boot PROVE Same
    BY <1>0, <2>3 DEF Boot, NoOp
  <2> QED
    BY <1>5, <2>1, <2>2, <2>3
    DEF Recover
<1>6. ASSUME Interrupt \/ Throw PROVE Same
  BY <1>6 DEF Interrupt, Throw
<1>7. ASSUME Crash PROVE Ended \/ Same
  BY <1>0, <1>7 DEF Crash, NoOp
<1>8. ASSUME NEW a \in Native, RejectCredential(a) PROVE Same
  BY <1>8 DEF RejectCredential, Waits
<1>9. ASSUME UNCHANGED vars PROVE Same
  BY <1>9 DEF vars
<1> QED
  BY <1>1, <1>2, <1>3, <1>4, <1>5, <1>6, <1>7, <1>8, <1>9 DEF Next

\* The marker commits the abstract request.
LEMMA MarkCommits ==
  ASSUME Scoped, IInv, MarkCommitted
  PROVE  Phase = "open" /\ Phase' = "done" /\ op' = op
<1>1. pc = "mark" /\ pc' \in {"late", "views"} /\ op' = op
  BY DEF MarkCommitted
<1>2. op.kind \in JournalledKinds
  BY <1>1 DEF IInv, Control, Restoring
<1> QED BY <1>1, <1>2 DEF Phase, JournalledKinds

\* The daemon's files, vault and recovery implement an atomic update: this is
\* the property MutationsAtomic of the run account_atomic.
THEOREM Atomic == ASSUME Scoped PROVE Spec => MutationsAtomic
<1>1. Init => Abstract!Init
  <2> SUFFICES ASSUME Init PROVE Abstract!Init
    OBVIOUS
  <2>1. Durable = StoreOf(NoFiles)
    BY DEF Init, Durable, Prepared
  <2>2. Durable \in Store
    BY <2>1, EmptyTypes DEF StoreOf, NoFiles, NoStore
  <2>3. Phase = "none" /\ op.goal \in Store
    BY EmptyTypes DEF Init, Phase, NoOp
  <2> QED BY <2>2, <2>3 DEF Abstract!Init, Abstract!TypeOK
<1>2. IInv /\ [Next]_vars => [Abstract!Next]_(Abstract!vars)
  <2> SUFFICES ASSUME IInv, [Next]_vars
               PROVE  Abstract!Next \/ UNCHANGED Abstract!vars
    OBVIOUS
  <2> USE DEF Abstract!Next, Abstract!Begin, Abstract!Commit, Abstract!Abort,
              Abstract!Finish, Abstract!vars
  <2>1. CASE MarkCommitted
    BY <2>1, MarkCommits, DurableSteps
  <2>2. CASE ~ MarkCommitted
    BY <2>2, PhaseSteps, DurableSteps
  <2> QED BY <2>1, <2>2
<1> QED BY Inductive, <1>1, <1>2, PTL DEF Spec, MutationsAtomic, Abstract!Spec
=============================================================================
