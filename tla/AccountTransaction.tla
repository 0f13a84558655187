------------------------- MODULE AccountTransaction -------------------------
(***************************************************************************)
(* One daemon worker, its durable files and the mutations it serves:        *)
(* accounts.enroll / enrollActivate / remove / rename / sync, config.update,*)
(* providers.set and daemon.reload.                                         *)
(*                                                                         *)
(* An account mutation copies the files it will touch into a rollback vault *)
(* (account-transaction.ts), edits the credential files, and replaces the   *)
(* router generation (daemon-generations.ts), whose persist stage writes    *)
(* config, revisions and quarantine records and marks the vault committed.  *)
(* Handlers run one at a time (MutationQueue); a step may fail, the client  *)
(* may disconnect, the process may die, and a restart recovers the vault    *)
(* before it reads any other file.                                          *)
(*                                                                         *)
(* Abstractions.  An account is one credential file with one fingerprint;   *)
(* the activity and quota files, which are saved, edited and restored       *)
(* exactly like the quarantine file "auth", are represented by it.  A       *)
(* config is the set of enabled account providers and an opaque document.   *)
(* An enrollment writes one account.  Writes that undo a failed mutation,   *)
(* and reading back the config just written, are assumed to succeed.        *)
(***************************************************************************)
EXTENDS Naturals, FiniteSets

CONSTANTS
  Native,           \* accounts of the native connector
  Cliproxy,         \* accounts of the cliproxy connector
  Document,         \* config documents a client may submit
  InitialDocument,
  Slot,             \* names of transaction directories (random UUIDs)
  Kind,             \* the handlers clients call
  Fault,            \* what may go wrong, a subset of Faults
  MaxRevision       \* bound on both revisions

Account == Native \cup Cliproxy
Connector == {"native", "cliproxy"}
ConnectorOf(S) == IF S \subseteq Native THEN "native" ELSE "cliproxy"

JournalledKinds ==
  {"accounts.enrollActivate", "accounts.remove", "accounts.rename"}

Kinds == JournalledKinds \cup
  {"accounts.enroll", "accounts.removeCliproxy", "accounts.sync",
   "config.update", "providers.set", "daemon.reload"}

\* step: a step up to the commit marker fails.  late: one after it fails.
\* throw: a call throws where only failures are handled.  interrupt: the
\* client disconnects.  crash: the worker process dies.
Faults == {"step", "late", "throw", "interrupt", "crash"}

ASSUME AccountsAssumption == Native \cap Cliproxy = {}
ASSUME DocumentAssumption == InitialDocument \in Document
ASSUME KindAssumption == Kind \subseteq Kinds
ASSUME FaultAssumption == Fault \subseteq Faults
ASSUME RevisionAssumption == MaxRevision \in Nat

Config == [enabled : SUBSET Connector, document : Document]
Revisions == [config : Nat, accounts : Nat]
Store == [account : SUBSET Account, config : Config, revisions : Revisions]
Files == [account : SUBSET Account, auth : SUBSET Native,
          config : Config, revisions : Revisions]
Router == [config : Config, account : SUBSET Account]

NoConfig == [enabled |-> {}, document |-> InitialDocument]
NoRevisions == [config |-> 0, accounts |-> 0]
NoStore == [account |-> {}, config |-> NoConfig, revisions |-> NoRevisions]
NoFiles == [account |-> {}, auth |-> {}, config |-> NoConfig,
            revisions |-> NoRevisions]
NoRouter == [config |-> NoConfig, account |-> {}]

\* No handler is running ("none"), or the startup recovery is ("recovery").
NoOp(kind) ==
  [kind |-> kind, out |-> {}, in |-> {}, write |-> FALSE, goal |-> NoStore,
   prevConfig |-> NoConfig, prevRevisions |-> NoRevisions,
   prevRouter |-> NoRouter]

VARIABLES
  disk,             \* the durable files
  journal,          \* the manifest of each transaction directory
  backup,           \* the rollback files of each transaction directory
  memory,           \* DaemonRuntimeState and AccountAuthCoordinator
  router,           \* the active router generation
  target,           \* the generation the switching proxy forwards to
  candidate,        \* the generation being prepared
  pc,               \* where the running handler is; "idle", "down"
  op,               \* the locals of the running handler
  slot,             \* the transaction directory it uses
  acked             \* history: the revisions last answered to a client

vars == <<disk, journal, backup, memory, router, target, candidate, pc, op,
          slot, acked>>

durables == <<disk, journal, backup>>
views == <<memory, router, target>>

Steps ==
  {"copy", "journal", "write", "refresh", "start", "config", "revisions",
   "coordinators", "mark", "late", "views", "reconcile", "retire", "cleanup",
   "undoConfig", "undoRevisions", "undo", "restoreAccount", "restoreAuth",
   "restoreConfig", "restoreRevisions", "discard", "reload"}

\* The steps that wait: other fibers of the process run meanwhile, and a
\* disconnected client interrupts the handler there.
Waits == {"refresh", "start", "coordinators", "late", "reconcile", "retire",
          "undo", "reload"}

Memory == [config : Config, revisions : Revisions, rejected : SUBSET Native]

Op == [kind : Kinds \cup {"none", "recovery"}, out : SUBSET Account,
       in : SUBSET Account, write : BOOLEAN, goal : Store,
       prevConfig : Config, prevRevisions : Revisions, prevRouter : Router]

TypeOK ==
  /\ disk \in Files
  /\ journal \in [Slot -> {"absent", "copying", "prepared", "committed"}]
  /\ backup \in [Slot -> [files : Files, native : BOOLEAN]]
  /\ memory \in Memory
  /\ router \in Router
  /\ target \in Router
  /\ candidate \in Router
  /\ pc \in Steps \cup {"idle", "down"}
  /\ op \in Op
  /\ slot \in Slot
  /\ acked \in Revisions

Journalled(o) == o.kind \in JournalledKinds

NoBackup == [files |-> NoFiles, native |-> FALSE]

-----------------------------------------------------------------------------
Init ==
  /\ disk = NoFiles
  /\ journal = [s \in Slot |-> "absent"]
  /\ backup = [s \in Slot |-> NoBackup]
  /\ memory = [config |-> NoConfig, revisions |-> NoRevisions, rejected |-> {}]
  /\ router = NoRouter
  /\ target = NoRouter
  /\ candidate = NoRouter
  /\ pc = "idle"
  /\ op = NoOp("none")
  /\ slot \in Slot
  /\ acked = NoRevisions

-----------------------------------------------------------------------------
(* The handlers: validation and the plan of the mutation.                   *)

FirstStep(kind) ==
  CASE kind \in JournalledKinds -> "copy"
    [] kind \in {"accounts.enroll", "accounts.removeCliproxy"} -> "write"
    [] kind = "accounts.sync" -> "refresh"
    [] OTHER -> "start"

Bump(b) == IF b THEN 1 ELSE 0

\* Begin handler "kind": take accounts "out", put accounts "in", run "config";
\* "write" says whether the config file is rewritten.
Accept(kind, out, in, config, write, bumpConfig, bumpAccounts) ==
  /\ pc = "idle"
  /\ kind \in Kind
  /\ memory.revisions.config < MaxRevision
  /\ memory.revisions.accounts < MaxRevision
  /\ op' = [kind |-> kind, out |-> out, in |-> in, write |-> write,
            goal |->
              [account |-> (disk.account \ out) \cup in,
               config |-> config,
               revisions |->
                 [config |-> memory.revisions.config + Bump(bumpConfig),
                  accounts |-> memory.revisions.accounts + Bump(bumpAccounts)]],
            prevConfig |-> memory.config,
            prevRevisions |-> memory.revisions,
            prevRouter |-> router]
  /\ pc' = FirstStep(kind)
  /\ UNCHANGED <<durables, views, candidate, slot, acked>>

Enroll(a) ==
  /\ a \in Native \ disk.account
  /\ Accept("accounts.enroll", {}, {a}, memory.config, FALSE, FALSE, TRUE)

\* A label that is enrolled and whose provider is enabled is a no-op.
EnrollActivate(a) ==
  LET c == ConnectorOf({a}) IN
  /\ ~ (a \in disk.account /\ c \in memory.config.enabled)
  /\ Accept("accounts.enrollActivate", {}, {a},
            [memory.config EXCEPT !.enabled = @ \cup {c}], TRUE, TRUE, TRUE)

\* Removing the last native account disables the provider.
Remove(a) ==
  LET disable == /\ disk.account \cap Native = {a}
                 /\ "native" \in memory.config.enabled
      config == IF disable
                THEN [memory.config EXCEPT !.enabled = @ \ {"native"}]
                ELSE memory.config
  IN /\ a \in disk.account \cap Native
     /\ Accept("accounts.remove", {a}, {}, config, disable, disable, TRUE)

RemoveCliproxy(a) ==
  /\ a \in disk.account \cap Cliproxy
  /\ Accept("accounts.removeCliproxy", {a}, {}, memory.config, FALSE, FALSE, TRUE)

Rename(source, to) ==
  /\ source \in disk.account \cap Native
  /\ to \in Native \ disk.account
  /\ Accept("accounts.rename", {source}, {to}, memory.config, FALSE, FALSE, TRUE)

Sync ==
  Accept("accounts.sync", {}, {}, memory.config, FALSE, FALSE, TRUE)

\* An update whose expected revision is not the current one is refused, so
\* only the current one is enumerated.
ConfigUpdate(document, enabled) ==
  Accept("config.update", {}, {},
         [enabled |-> enabled, document |-> document], TRUE, TRUE, FALSE)

\* Faulty: keeps the config revision.
ProvidersSetUnnumbered(provider, on) ==
  Accept("providers.set", {}, {},
         [memory.config EXCEPT
            !.enabled = IF on THEN @ \cup {provider} ELSE @ \ {provider}],
         TRUE, FALSE, FALSE)

ProvidersSet(provider, on) ==
  Accept("providers.set", {}, {},
         [memory.config EXCEPT
            !.enabled = IF on THEN @ \cup {provider} ELSE @ \ {provider}],
         TRUE, TRUE, FALSE)

\* Reload reads the config file.
Reload ==
  Accept("daemon.reload", {}, {}, disk.config, FALSE, TRUE, FALSE)

Handlers ==
  \/ \E a \in Account :
       Enroll(a) \/ EnrollActivate(a) \/ Remove(a) \/ RemoveCliproxy(a)
  \/ \E a, b \in Native : Rename(a, b)
  \/ Sync
  \/ \E d \in Document, e \in SUBSET Connector : ConfigUpdate(d, e)
  \/ \E p \in Connector, on \in BOOLEAN : ProvidersSet(p, on)
  \/ Reload

-----------------------------------------------------------------------------
(* prepareAccountTransaction                                                *)

\* Faulty: the revisions file is not among the copied ones.
CopyBackupsPartial(s) ==
  /\ pc = "copy"
  /\ journal[s] = "absent"
  /\ slot' = s
  /\ journal' = [journal EXCEPT ![s] = "copying"]
  /\ backup' = [backup EXCEPT ![s] =
                  [files |-> [disk EXCEPT !.revisions = NoRevisions],
                   native |-> op.out \cup op.in \subseteq Native]]
  /\ pc' = "journal"
  /\ UNCHANGED <<disk, views, candidate, op, acked>>

\* A fresh directory receives a copy of every file the mutation may touch.
CopyBackups(s) ==
  /\ pc = "copy"
  /\ journal[s] = "absent"
  /\ slot' = s
  /\ journal' = [journal EXCEPT ![s] = "copying"]
  /\ backup' = [backup EXCEPT ![s] =
                  [files |-> disk,
                   native |-> op.out \cup op.in \subseteq Native]]
  /\ pc' = "journal"
  /\ UNCHANGED <<disk, views, candidate, op, acked>>

\* The manifest is the prepare record, written after every backup.
WriteManifest ==
  /\ pc = "journal"
  /\ journal' = [journal EXCEPT ![slot] = "prepared"]
  /\ pc' = "write"
  /\ UNCHANGED <<disk, backup, views, candidate, op, slot, acked>>

-----------------------------------------------------------------------------
(* The credential files, then the stages of a generation replacement.       *)

WriteCredentials ==
  /\ pc = "write"
  /\ disk' = [disk EXCEPT !.account = (@ \ op.out) \cup op.in]
  /\ pc' = IF op.kind = "accounts.removeCliproxy" THEN "refresh" ELSE "start"
  /\ UNCHANGED <<journal, backup, views, candidate, op, slot, acked>>

\* sidecar.refresh before the replacement.
RefreshSidecar ==
  /\ pc = "refresh"
  /\ pc' = "start"
  /\ UNCHANGED <<durables, views, candidate, op, slot, acked>>

\* Faulty: publishes the config before it is written.
StartCandidatePublished ==
  /\ pc = "start"
  /\ candidate' = [config |-> op.goal.config, account |-> disk.account]
  /\ memory' = [memory EXCEPT !.config = op.goal.config]
  /\ pc' = "config"
  /\ UNCHANGED <<durables, router, target, op, slot, acked>>

\* The candidate generation discovers the accounts that are enrolled now.
StartCandidate ==
  /\ pc = "start"
  /\ candidate' = [config |-> op.goal.config, account |-> disk.account]
  /\ pc' = "config"
  /\ UNCHANGED <<durables, views, op, slot, acked>>

PersistConfig ==
  /\ pc = "config"
  /\ disk' = IF op.write THEN [disk EXCEPT !.config = op.goal.config] ELSE disk
  /\ pc' = "revisions"
  /\ UNCHANGED <<journal, backup, views, candidate, op, slot, acked>>

\* Faulty: the new revisions stay in memory.
PersistRevisionsSkipped ==
  /\ pc = "revisions"
  /\ pc' = IF Journalled(op) THEN "coordinators" ELSE "views"
  /\ UNCHANGED <<durables, views, candidate, op, slot, acked>>

PersistRevisions ==
  /\ pc = "revisions"
  /\ disk' = [disk EXCEPT !.revisions = op.goal.revisions]
  /\ pc' = IF Journalled(op) THEN "coordinators" ELSE "views"
  /\ UNCHANGED <<journal, backup, views, candidate, op, slot, acked>>

\* AccountAuthCoordinator.remove, rename and activateFingerprint: the record
\* of a removed account goes, that of a renamed one follows it.
Moved(rejected) ==
  IF op.out = {} THEN rejected
  ELSE (rejected \ (op.out \cup op.in)) \cup
       (IF op.out \subseteq rejected THEN op.in ELSE {})

PersistCoordinators ==
  /\ pc = "coordinators"
  /\ IF op.out \cup op.in \subseteq Native
     THEN /\ memory' = [memory EXCEPT !.rejected = Moved(@)]
          /\ disk' = [disk EXCEPT !.auth = Moved(memory.rejected)]
     ELSE UNCHANGED <<memory, disk>>
  /\ pc' = "mark"
  /\ UNCHANGED <<journal, backup, router, target, candidate, op, slot, acked>>

\* Faulty: leaves the manifest prepared.
MarkCommittedSkipped ==
  /\ pc = "mark"
  /\ pc' = IF op.in \cap Cliproxy # {} THEN "late" ELSE "views"
  /\ UNCHANGED <<durables, views, candidate, op, slot, acked>>

\* The durable commit marker.
MarkCommitted ==
  /\ pc = "mark"
  /\ journal' = [journal EXCEPT ![slot] = "committed"]
  /\ pc' = IF op.in \cap Cliproxy # {} THEN "late" ELSE "views"
  /\ UNCHANGED <<disk, backup, views, candidate, op, slot, acked>>

\* sidecar.refresh of an activated cliproxy account, after the marker.
RefreshActivated ==
  /\ pc = "late"
  /\ pc' = "views"
  /\ UNCHANGED <<durables, views, candidate, op, slot, acked>>

\* The commit stage publishes the daemon-local views,
CommitViews ==
  /\ pc = "views"
  /\ router' = candidate
  /\ memory' = [memory EXCEPT !.config = op.goal.config,
                              !.revisions = op.goal.revisions]
  /\ pc' = "reconcile"
  /\ UNCHANGED <<durables, target, candidate, op, slot, acked>>

\* drops quarantine records of accounts that are gone, and swaps the proxy.
ReconcileAndSwap ==
  /\ pc = "reconcile"
  /\ memory' = [memory EXCEPT !.rejected = @ \cap disk.account]
  /\ disk' = [disk EXCEPT !.auth = memory.rejected \cap disk.account]
  /\ target' = candidate
  /\ pc' = "retire"
  /\ UNCHANGED <<journal, backup, router, candidate, op, slot, acked>>

\* Faulty: waits for the generation it has just published to be retired.
RetirePreviousWrong ==
  /\ pc = "retire"
  /\ target # router
  /\ candidate' = NoRouter
  /\ pc' = "cleanup"
  /\ UNCHANGED <<durables, views, op, slot, acked>>

\* The previous generation drains and closes; failures are only reported.
RetirePrevious ==
  /\ pc = "retire"
  /\ candidate' = NoRouter
  /\ pc' = "cleanup"
  /\ UNCHANGED <<durables, views, op, slot, acked>>

\* Deleting the vault may fail and is then left to the next startup; the
\* client is answered either way.
CleanupAndReply ==
  /\ pc = "cleanup"
  /\ \/ /\ Journalled(op)
        /\ journal' = [journal EXCEPT ![slot] = "absent"]
        /\ backup' = [backup EXCEPT ![slot] = NoBackup]
     \/ /\ Journalled(op) => "step" \in Fault
        /\ UNCHANGED <<journal, backup>>
  /\ acked' = memory.revisions
  /\ op' = NoOp("none")
  /\ pc' = "idle"
  /\ UNCHANGED <<disk, views, candidate, slot>>

-----------------------------------------------------------------------------
(* Failures and the rollback they start.                                    *)

\* prepareAccountTransaction fails: its directory is removed again.
FailPrepare ==
  /\ pc \in {"copy", "journal"}
  /\ "step" \in Fault
  /\ IF pc = "journal"
     THEN /\ journal' = [journal EXCEPT ![slot] = "absent"]
          /\ backup' = [backup EXCEPT ![slot] = NoBackup]
     ELSE UNCHANGED <<journal, backup>>
  /\ op' = NoOp("none")
  /\ pc' = "idle"
  /\ UNCHANGED <<disk, views, candidate, slot, acked>>

\* The credential write fails: nothing was changed yet.
FailWrite ==
  /\ pc = "write"
  /\ "step" \in Fault
  /\ pc' = IF Journalled(op) THEN "restoreAccount" ELSE "idle"
  /\ op' = IF Journalled(op) THEN op ELSE NoOp("none")
  /\ UNCHANGED <<durables, views, candidate, slot, acked>>

\* The sidecar or the candidate does not come up: nothing was persisted.
FailStart ==
  /\ pc \in {"refresh", "start"}
  /\ "step" \in Fault
  /\ pc' = "undo"
  /\ UNCHANGED <<durables, views, candidate, op, slot, acked>>

\* A write of the persist stage fails; AccountAuthCoordinator changed its
\* records before it tried to write them.
FailPersist ==
  /\ \/ pc \in {"config", "revisions", "coordinators"} /\ "step" \in Fault
     \/ pc = "late" /\ "late" \in Fault
  /\ memory' = IF pc = "coordinators" /\ op.out \cup op.in \subseteq Native
               THEN [memory EXCEPT !.rejected = Moved(@)] ELSE memory
  /\ pc' = "undoConfig"
  /\ UNCHANGED <<durables, router, target, candidate, op, slot, acked>>

\* Faulty: leaves the new views in memory.
FailCommitKept ==
  /\ pc = "reconcile"
  /\ "late" \in Fault
  /\ router' = op.prevRouter
  /\ memory' = [memory EXCEPT !.rejected = @ \cap disk.account]
  /\ pc' = "undoConfig"
  /\ UNCHANGED <<durables, target, candidate, op, slot, acked>>

\* Reconciling the quarantine records fails: the views are put back.
FailCommit ==
  /\ pc = "reconcile"
  /\ "late" \in Fault
  /\ router' = op.prevRouter
  /\ memory' = [config |-> op.prevConfig, revisions |-> op.prevRevisions,
                rejected |-> memory.rejected \cap disk.account]
  /\ pc' = "undoConfig"
  /\ UNCHANGED <<durables, target, candidate, op, slot, acked>>

\* The replacement's own rollback: config file, then revisions file.
UndoConfig ==
  /\ pc = "undoConfig"
  /\ disk' = IF op.write THEN [disk EXCEPT !.config = op.prevConfig] ELSE disk
  /\ pc' = "undoRevisions"
  /\ UNCHANGED <<journal, backup, views, candidate, op, slot, acked>>

UndoRevisions ==
  /\ pc = "undoRevisions"
  /\ disk' = [disk EXCEPT !.revisions = op.prevRevisions]
  /\ pc' = "undo"
  /\ UNCHANGED <<journal, backup, views, candidate, op, slot, acked>>

\* The handler's rollback: from the vault, or of its one credential file.
UndoHandler ==
  /\ pc = "undo"
  /\ candidate' = NoRouter
  /\ IF Journalled(op)
     THEN pc' = "restoreAccount" /\ UNCHANGED <<disk, op>>
     ELSE /\ disk' = [disk EXCEPT !.account = (@ \ op.in) \cup op.out]
          /\ pc' = "idle"
          /\ op' = NoOp("none")
  /\ UNCHANGED <<journal, backup, views, slot, acked>>

-----------------------------------------------------------------------------
(* restorePreparedTransaction: every saved file, in manifest order.         *)

RestoreAccount ==
  /\ pc = "restoreAccount"
  /\ disk' = [disk EXCEPT !.account = backup[slot].files.account]
  /\ pc' = "restoreAuth"
  /\ UNCHANGED <<journal, backup, views, candidate, op, slot, acked>>

RestoreAuth ==
  /\ pc = "restoreAuth"
  /\ disk' = IF backup[slot].native
             THEN [disk EXCEPT !.auth = backup[slot].files.auth] ELSE disk
  /\ pc' = "restoreConfig"
  /\ UNCHANGED <<journal, backup, views, candidate, op, slot, acked>>

RestoreConfig ==
  /\ pc = "restoreConfig"
  /\ disk' = [disk EXCEPT !.config = backup[slot].files.config]
  /\ pc' = "restoreRevisions"
  /\ UNCHANGED <<journal, backup, views, candidate, op, slot, acked>>

RestoreRevisions ==
  /\ pc = "restoreRevisions"
  /\ disk' = [disk EXCEPT !.revisions = backup[slot].files.revisions]
  /\ pc' = "discard"
  /\ UNCHANGED <<journal, backup, views, candidate, op, slot, acked>>

\* The vault is deleted.  A handler then reloads the coordinators; the startup
\* recovery looks at the next directory.
DiscardVault ==
  /\ pc = "discard"
  /\ journal' = [journal EXCEPT ![slot] = "absent"]
  /\ backup' = [backup EXCEPT ![slot] = NoBackup]
  /\ IF op.kind = "recovery"
     THEN pc' = "down" /\ op' = NoOp("none")
     ELSE pc' = "reload" /\ UNCHANGED op
  /\ UNCHANGED <<disk, views, candidate, slot, acked>>

\* AccountAuthCoordinator.reload: memory takes the file's records; the client
\* is answered with the failure.
ReloadCoordinators ==
  /\ pc = "reload"
  /\ memory' = [memory EXCEPT !.rejected = disk.auth]
  /\ op' = NoOp("none")
  /\ pc' = "idle"
  /\ UNCHANGED <<durables, router, target, candidate, slot, acked>>

-----------------------------------------------------------------------------
(* Disconnects, crashes, recovery, and the data plane.                      *)

\* The client disconnects while the handler waits: the fiber is interrupted,
\* no Effect.catch runs, and the candidate's finalizer closes it.  A write
\* that was under way may or may not land.
Interrupt ==
  /\ pc \in Waits
  /\ "interrupt" \in Fault
  /\ LET changed ==
           CASE pc = "coordinators" /\ op.out \cup op.in \subseteq Native
                  -> Moved(memory.rejected)
             [] pc = "reconcile" -> memory.rejected \cap disk.account
             [] OTHER -> memory.rejected
     IN /\ memory' = [memory EXCEPT !.rejected = changed]
        /\ \E landed \in BOOLEAN :
             disk' = IF landed /\ pc \in {"coordinators", "reconcile"}
                     THEN [disk EXCEPT !.auth = changed] ELSE disk
  /\ candidate' = NoRouter
  /\ op' = NoOp("none")
  /\ pc' = "idle"
  /\ UNCHANGED <<journal, backup, router, target, slot, acked>>

\* Writing the commit marker, or reading the credentials to reconcile, throws.
\* Effect.catch handles failures but not what a generator throws: the handler
\* ends here, like one whose client disconnected.
Throw ==
  /\ pc \in {"mark", "reconcile"}
  /\ "throw" \in Fault
  /\ candidate' = NoRouter
  /\ op' = NoOp("none")
  /\ pc' = "idle"
  /\ UNCHANGED <<durables, views, slot, acked>>

\* The process dies.  "memory" keeps what clients were last told.
Crash ==
  /\ pc # "down"
  /\ "crash" \in Fault
  /\ router' = NoRouter
  /\ target' = NoRouter
  /\ candidate' = NoRouter
  /\ op' = NoOp("none")
  /\ pc' = "down"
  /\ UNCHANGED <<durables, memory, slot, acked>>

\* recoverAccountTransactions visits every directory, before anything else is
\* read: no manifest or a committed one means only delete it,
RecoverDiscard(s) ==
  /\ pc = "down"
  /\ journal[s] \in {"copying", "committed"}
  /\ journal' = [journal EXCEPT ![s] = "absent"]
  /\ backup' = [backup EXCEPT ![s] = NoBackup]
  /\ UNCHANGED <<disk, views, candidate, pc, op, slot, acked>>

\* Faulty: restores a committed transaction too.
RecoverRestoreAny(s) ==
  /\ pc = "down"
  /\ journal[s] \in {"prepared", "committed"}
  /\ slot' = s
  /\ op' = NoOp("recovery")
  /\ pc' = "restoreAccount"
  /\ UNCHANGED <<durables, views, candidate, acked>>

\* a prepared one means restore it.
RecoverRestore(s) ==
  /\ pc = "down"
  /\ journal[s] = "prepared"
  /\ slot' = s
  /\ op' = NoOp("recovery")
  /\ pc' = "restoreAccount"
  /\ UNCHANGED <<durables, views, candidate, acked>>

\* The daemon reads its files, starts a router and the proxy in front of it.
Boot ==
  /\ pc = "down"
  /\ \A s \in Slot : journal[s] = "absent"
  /\ memory' = [config |-> disk.config, revisions |-> disk.revisions,
                rejected |-> disk.auth \cap disk.account]
  /\ disk' = [disk EXCEPT !.auth = @ \cap disk.account]
  /\ router' = [config |-> disk.config, account |-> disk.account]
  /\ target' = router'
  /\ op' = NoOp("none")
  /\ pc' = "idle"
  /\ UNCHANGED <<journal, backup, candidate, slot, acked>>

\* The accounts of the published generation and of one that is draining.
Serving ==
  target.account \cup (IF pc = "retire" THEN op.prevRouter.account ELSE {})

\* Faulty: quarantines every account of the generation, whatever its connector.
RejectCredentialAll(a) ==
  /\ pc \in Waits \cup {"idle"}
  /\ a \in Serving \ memory.rejected
  /\ memory' = [memory EXCEPT !.rejected = @ \cup Serving]
  /\ disk' = [disk EXCEPT !.auth = memory.rejected \cup Serving]
  /\ UNCHANGED <<journal, backup, router, target, candidate, pc, op, slot, acked>>

\* Faulty: quarantines in memory alone.
RejectCredentialUnsaved(a) ==
  /\ pc \in Waits \cup {"idle"}
  /\ a \in Serving \ memory.rejected
  /\ memory' = [memory EXCEPT !.rejected = @ \cup {a}]
  /\ UNCHANGED <<durables, router, target, candidate, pc, op, slot, acked>>

\* A generation that serves requests sees a provider reject an account's
\* credential: it is quarantined and the record written.
RejectCredential(a) ==
  /\ pc \in Waits \cup {"idle"}
  /\ a \in Serving \ memory.rejected
  /\ memory' = [memory EXCEPT !.rejected = @ \cup {a}]
  /\ disk' = [disk EXCEPT !.auth = memory.rejected \cup {a}]
  /\ UNCHANGED <<journal, backup, router, target, candidate, pc, op, slot, acked>>

-----------------------------------------------------------------------------
Forward ==
  \/ \E s \in Slot : CopyBackups(s)
  \/ WriteManifest
  \/ WriteCredentials
  \/ RefreshSidecar
  \/ StartCandidate
  \/ PersistConfig
  \/ PersistRevisions
  \/ PersistCoordinators
  \/ MarkCommitted
  \/ RefreshActivated
  \/ CommitViews
  \/ ReconcileAndSwap
  \/ RetirePrevious
  \/ CleanupAndReply

Backward ==
  \/ UndoConfig
  \/ UndoRevisions
  \/ UndoHandler
  \/ RestoreAccount
  \/ RestoreAuth
  \/ RestoreConfig
  \/ RestoreRevisions
  \/ DiscardVault
  \/ ReloadCoordinators

Fail == FailPrepare \/ FailWrite \/ FailStart \/ FailPersist \/ FailCommit

Recover ==
  \/ \E s \in Slot : RecoverDiscard(s) \/ RecoverRestore(s)
  \/ Boot

Next ==
  \/ Handlers
  \/ Forward
  \/ Backward
  \/ Fail
  \/ Interrupt
  \/ Throw
  \/ Crash
  \/ Recover
  \/ \E a \in Native : RejectCredential(a)

Spec == Init /\ [][Next]_vars

\* A handler's next step is always taken: every wait in it is bounded by a
\* timeout (sidecar and candidate start, drain grace) or is local file I/O.
FairSpec == Spec /\ WF_vars(Forward \/ Backward \/ Recover)

-----------------------------------------------------------------------------
(* Properties.                                                              *)

Prepared == {s \in Slot : journal[s] = "prepared"}

StoreOf(files) ==
  [account |-> files.account, config |-> files.config,
   revisions |-> files.revisions]

\* What a restart would come up with: the startup recovery puts back the
\* files of a prepared transaction before anything is read.
Durable ==
  StoreOf(IF Prepared = {} THEN disk
          ELSE backup[CHOOSE s \in Prepared : TRUE].files)

\* The store the running handler found when it began.
Before ==
  [account |-> op.prevRouter.account, config |-> op.prevConfig,
   revisions |-> op.prevRevisions]

\* Whether the running mutation is before or after its commit marker.
Phase ==
  CASE op.kind \in {"none", "recovery"} -> "none"
    [] pc \in {"late", "views", "reconcile", "retire", "cleanup"} -> "done"
    [] OTHER -> "open"

Abstract ==
  INSTANCE AtomicUpdate WITH store <- Durable, phase <- Phase, goal <- op.goal

\* A journalled mutation takes effect at its commit marker and nowhere else:
\* whatever step fails, and wherever the process dies, the store a restart
\* would serve changes once, whole, and only for a mutation that succeeds
\* (account-transaction.ts, and the handlers that use it).
MutationsAtomic == Abstract!Spec

\* At every step of a journalled mutation, its rollback included, a restart
\* would serve the accounts, config and revisions of before it or of after
\* it, never a mix of the two.
RestartWhole == Journalled(op) => Durable \in {Before, op.goal}

\* Between handlers the config and revisions that memory publishes are those
\* of the files, and the quarantine file holds the records the process acts
\* on for the accounts that are enrolled.
ViewsDurable ==
  pc = "idle" =>
    /\ memory.config = disk.config
    /\ memory.revisions = disk.revisions
    /\ memory.rejected \cap disk.account = disk.auth \cap disk.account

\* Besides, the active router generation runs that config with exactly the
\* enrolled accounts, and the proxy forwards to it: a failed mutation leaves
\* no half-published generation (daemon-generations.ts).
ServingMatchesDisk ==
  /\ ViewsDurable
  /\ pc = "idle" =>
       /\ router = [config |-> disk.config, account |-> disk.account]
       /\ target = router

\* A handler that returned leaves no vault a later startup would restore: the
\* restore would undo the mutations acknowledged in between.
VaultClosed == pc = "idle" => Prepared = {}

\* A restart never comes up with revisions older than a client was told.
AcknowledgedSurvives ==
  /\ acked.config <= Durable.revisions.config
  /\ acked.accounts <= Durable.revisions.accounts

\* A config revision names one config: what is served never changes without
\* the revision that clients pass as "expectedRevision" changing too.
RevisionNamesConfig ==
  [][memory'.revisions.config = memory.revisions.config =>
       memory'.config = memory.config]_vars

\* A quarantined credential stays quarantined for as long as it is enrolled, over
\* restarts too.  A mutation with a vault breaks this when it is rolled back, as
\* the vault has the records of before; the other kinds keep it.
QuarantineKept ==
  [][\A a \in memory.rejected :
        a \in memory'.rejected \/ a \notin disk'.account]_vars

\* Every handler returns, whichever of its steps fail.
OperationSettles == pc # "idle" ~> pc = "idle"
=============================================================================
