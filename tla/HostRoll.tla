------------------------------ MODULE HostRoll ------------------------------
(***************************************************************************)
(* The daemon host (host.ts): a cluster primary that keeps one worker       *)
(* active, replaces it by a newer one ("roll"), and recovers when the       *)
(* active worker dies.                                                      *)
(*                                                                         *)
(* Rolls and recoveries hold transitionGate, so one of them runs at a time; *)
(* beside it workers serve mutations and die, the 250 ms window in which a  *)
(* replaced worker can be taken back runs out, and exit events queue up.    *)
(*                                                                         *)
(* Abstractions.  A mutation is one step (AccountTransaction): it gives the *)
(* durable document a new number and a new revision.  pause waits for the   *)
(* mutations under way (MutationQueue).  A live worker answers in time; a   *)
(* request to a dead one fails.  The writes of a rollback and of a recovery *)
(* succeed.                                                                 *)
(***************************************************************************)
EXTENDS Naturals

CONSTANTS
  MaxWorker,        \* bound on the workers forked
  Fault,            \* what may go wrong, a subset of Faults
  MaxMutation       \* bound on the number of mutations

\* start: a worker does not come up, or the candidate fails validation.
\* write: a file the host writes in a roll cannot be written, and the write
\* throws.  crash: a worker dies.
\* early: clients mutate through a candidate, or before the replaced worker is
\* let go.
\* quick: a roll gets to its candidate within the 250 ms window of the last.
\* stop, kill: the host is shut down, or dies, and is started again.
Faults == {"start", "write", "crash", "early", "quick", "stop", "kill"}

ASSUME WorkerAssumption == MaxWorker \in Nat
ASSUME FaultAssumption == Fault \subseteq Faults
ASSUME MutationAssumption == MaxMutation \in Nat

\* Cluster workers are numbered in the order they are forked.
Worker == 1 .. MaxWorker
NoWorker == 0

VARIABLES
  disk,             \* config file, and daemon-revisions.json
  record,           \* generation in the service record; 0 when there is none
  worker,           \* state and memory of each worker
  numbers,          \* the host's own copy of daemon-revisions.json
  active,           \* publication.active
  fallback,         \* publication.fallback
  pc,               \* where the transition under the gate is; "idle", "off"
  previous,         \* the worker that is being replaced, or that died
  candidate,        \* the worker that was started to replace it
  exits,            \* exit events nobody has handled
  armed,            \* replaced workers whose 250 ms have not run out
  down              \* shutdownRequested

vars == <<disk, record, worker, numbers, active, fallback, pc, previous,
          candidate, exits, armed, down>>

published == <<active, fallback, record>>

Disk == [document : Nat, revision : Nat, daemon : Nat]

Process == [state : {"unused", "paused", "running", "closing", "dead"},
            generation : Nat, document : Nat, revision : Nat, daemon : Nat]

Steps == {"spawn", "validate", "resume", "persist", "commit",
          "rollback", "restore", "wake", "takeover", "republish"}

Serving == {"paused", "running"}
Live(w) == w # NoWorker /\ worker[w].state \in Serving

\* Generations count from 1; 0 stands for none.
TypeOK ==
  /\ disk \in Disk
  /\ record \in Nat
  /\ worker \in [Worker -> Process]
  /\ \A w \in Worker : Live(w) => worker[w].generation > 0
  /\ numbers \in [revision : Nat, daemon : Nat]
  /\ active \in Worker \cup {NoWorker}
  /\ fallback \in Worker \cup {NoWorker}
  /\ pc \in Steps \cup {"idle", "off"}
  /\ previous \in Worker \cup {NoWorker}
  /\ candidate \in Worker \cup {NoWorker}
  /\ exits \subseteq Worker
  /\ armed \subseteq Worker
  /\ down \in BOOLEAN

Unused == {w \in Worker : worker[w].state = "unused"}
Fork(w) == w \in Unused /\ \A v \in Unused : w <= v

\* A worker reads its state from the files when it boots.
Booted(state, generation) ==
  [state |-> state, generation |-> generation, document |-> disk.document,
   revision |-> disk.revision, daemon |-> disk.daemon]

With(w, state) == [worker EXCEPT ![w].state = state]

\* writeDaemonRevisions: the host's numbers, whatever the file holds.
Written(generation) ==
  [disk EXCEPT !.revision = numbers.revision, !.daemon = generation]

Init ==
  /\ disk = [document |-> 0, revision |-> 0, daemon |-> 0]
  /\ record = 0
  /\ worker = [w \in Worker |-> Booted("unused", 0)]
  /\ numbers = [revision |-> 0, daemon |-> 0]
  /\ active = NoWorker
  /\ fallback = NoWorker
  /\ pc = "off"
  /\ previous = NoWorker
  /\ candidate = NoWorker
  /\ exits = {}
  /\ armed = {}
  /\ down = FALSE

-----------------------------------------------------------------------------
(* The workers.                                                             *)

\* The worker writes the document and all of its own revision numbers.
Mutate(w) ==
  /\ worker[w].state = "running"
  /\ disk.document < MaxMutation
  /\ "early" \in Fault \/ ((w = active \/ pc = "idle") /\ fallback = NoWorker)
  /\ disk' = [document |-> disk.document + 1,
              revision |-> worker[w].revision + 1,
              daemon |-> worker[w].daemon]
  /\ worker' = [worker EXCEPT ![w].document = disk.document + 1,
                              ![w].revision = @ + 1]
  /\ UNCHANGED <<published, numbers, pc, previous, candidate, exits, armed, down>>

Crash(w) ==
  /\ "crash" \in Fault
  /\ Live(w)
  /\ worker' = With(w, "dead")
  /\ exits' = exits \cup {w}
  /\ UNCHANGED <<disk, published, numbers, pc, previous, candidate, armed, down>>

\* A worker that was told to retire or shut down has drained.
Drained(w) ==
  /\ worker[w].state = "closing"
  /\ worker' = With(w, "dead")
  /\ exits' = IF pc = "off" THEN exits ELSE exits \cup {w}
  /\ UNCHANGED <<disk, published, numbers, pc, previous, candidate, armed, down>>

-----------------------------------------------------------------------------
(* roll                                                                     *)

\* Faulty: the worker answers with its snapshot but goes on mutating.
PauseIgnored ==
  /\ pc = "idle"
  /\ ~ down
  /\ active # NoWorker
  /\ worker[active].state = "running"
  /\ "quick" \in Fault \/ armed = {}
  /\ previous' = active
  /\ pc' = "spawn"
  /\ UNCHANGED <<disk, published, worker, numbers, candidate, exits, armed, down>>

\* pause fails when the active worker is dead or takes no mutations.
Pause ==
  /\ pc = "idle"
  /\ ~ down
  /\ active # NoWorker
  /\ worker[active].state = "running"
  /\ "quick" \in Fault \/ armed = {}
  /\ worker' = With(active, "paused")
  /\ previous' = active
  /\ pc' = "spawn"
  /\ UNCHANGED <<disk, published, numbers, candidate, exits, armed, down>>

SpawnCandidate(w) ==
  /\ pc = "spawn"
  /\ Fork(w)
  /\ worker' = [worker EXCEPT ![w] =
                  Booted("paused", worker[previous].generation + 1)]
  /\ candidate' = w
  /\ pc' = "validate"
  /\ UNCHANGED <<disk, published, numbers, previous, exits, armed, down>>

\* The candidate must have loaded what the paused worker has.
Validate ==
  /\ pc = "validate"
  /\ pc' = IF /\ worker[candidate].revision = worker[previous].revision
              /\ worker[candidate].document = worker[previous].document
           THEN "resume" ELSE "rollback"
  /\ UNCHANGED <<disk, published, worker, numbers, previous, candidate, exits,
                 armed, down>>

ResumeCandidate ==
  /\ pc = "resume"
  /\ IF Live(candidate)
     THEN worker' = With(candidate, "running") /\ pc' = "persist"
     ELSE pc' = "rollback" /\ UNCHANGED worker
  /\ UNCHANGED <<disk, published, numbers, previous, candidate, exits, armed, down>>

PersistGeneration ==
  /\ pc = "persist"
  /\ numbers' = [numbers EXCEPT !.daemon = worker[previous].generation + 1]
  /\ disk' = Written(worker[previous].generation + 1)
  /\ pc' = "commit"
  /\ UNCHANGED <<published, worker, previous, candidate, exits, armed, down>>

\* The record and the publication; the window of the replaced worker opens.
Commit ==
  /\ pc = "commit"
  /\ record' = worker[candidate].generation
  /\ active' = candidate
  /\ fallback' = previous
  /\ armed' = armed \cup {previous}
  /\ previous' = NoWorker
  /\ candidate' = NoWorker
  /\ pc' = "idle"
  /\ UNCHANGED <<disk, worker, numbers, exits, down>>

\* The candidate does not come up, or its gateway does not answer.
FailRoll ==
  /\ \/ pc = "spawn" /\ ("start" \in Fault \/ Unused = {})
     \/ pc = "validate" /\ "start" \in Fault
  /\ pc' = "rollback"
  /\ UNCHANGED <<disk, published, worker, numbers, previous, candidate, exits,
                 armed, down>>

\* A write of the persist or commit stage throws.  Effect.catch handles
\* failures but not what a generator throws, so the rollback does not run: the
\* roll ends here.  The record may have been written before its public copy.
AbandonRoll ==
  /\ pc \in {"persist", "commit"}
  /\ "write" \in Fault
  /\ numbers' = IF pc = "persist"
                THEN [numbers EXCEPT !.daemon = worker[previous].generation + 1]
                ELSE numbers
  /\ record' \in IF pc = "commit" THEN {record, worker[candidate].generation}
                 ELSE {record}
  /\ previous' = NoWorker
  /\ candidate' = NoWorker
  /\ pc' = "idle"
  /\ UNCHANGED <<disk, active, fallback, worker, exits, armed, down>>

\* The rollback shuts the candidate down,
CloseCandidate ==
  /\ pc = "rollback"
  /\ worker' = IF Live(candidate) THEN With(candidate, "closing") ELSE worker
  /\ candidate' = NoWorker
  /\ pc' = "restore"
  /\ UNCHANGED <<disk, published, numbers, previous, exits, armed, down>>

\* puts the files, the record and the publication back,
Restore ==
  /\ pc = "restore"
  /\ numbers' = [numbers EXCEPT !.daemon = worker[previous].generation]
  /\ disk' = Written(worker[previous].generation)
  /\ record' = worker[previous].generation
  /\ active' = previous
  /\ fallback' = NoWorker
  /\ pc' = "wake"
  /\ UNCHANGED <<worker, previous, candidate, exits, armed, down>>

\* Faulty: leaves the previous worker paused.
ResumePreviousForgotten ==
  /\ pc = "wake"
  /\ previous' = NoWorker
  /\ pc' = "idle"
  /\ UNCHANGED <<disk, published, worker, numbers, candidate, exits, armed, down>>

\* and resumes the previous worker, if that is still alive.
ResumePrevious ==
  /\ pc = "wake"
  /\ worker' = IF Live(previous) THEN With(previous, "running") ELSE worker
  /\ previous' = NoWorker
  /\ pc' = "idle"
  /\ UNCHANGED <<disk, published, numbers, candidate, exits, armed, down>>

-----------------------------------------------------------------------------
(* The fallback window, and the recovery from an exit.                      *)

\* Faulty: gives the replaced worker up without telling it.
RetireFallbackSilent(w) ==
  /\ w \in armed
  /\ armed' = armed \ {w}
  /\ fallback' = IF fallback = w THEN NoWorker ELSE fallback
  /\ UNCHANGED <<disk, record, worker, numbers, active, pc, previous, candidate,
                 exits, down>>

\* 250 ms after the commit the replaced worker is told to retire.
RetireFallback(w) ==
  /\ w \in armed
  /\ armed' = armed \ {w}
  /\ IF fallback = w
     THEN /\ fallback' = NoWorker
          /\ worker' = IF Live(w) THEN With(w, "closing") ELSE worker
     ELSE UNCHANGED <<fallback, worker>>
  /\ UNCHANGED <<disk, record, numbers, active, pc, previous, candidate, exits, down>>

\* The exit of a worker that is not the active one needs nothing.
IgnoreExit(w) ==
  /\ pc = "idle"
  /\ w \in exits
  /\ w # active
  /\ exits' = exits \ {w}
  /\ UNCHANGED <<disk, published, worker, numbers, pc, previous, candidate,
                 armed, down>>

\* The replaced worker is still there: take it back.
RestoreFallback ==
  /\ pc = "idle"
  /\ active \in exits
  /\ Live(fallback)
  /\ numbers' = [numbers EXCEPT !.daemon = worker[fallback].generation]
  /\ disk' = Written(worker[fallback].generation)
  /\ record' = worker[fallback].generation
  /\ exits' = exits \ {active}
  /\ previous' = active
  /\ active' = fallback
  /\ fallback' = NoWorker
  /\ pc' = "takeover"
  /\ UNCHANGED <<worker, candidate, armed, down>>

\* A failing recovery shuts the daemon down.
ResumeFallback ==
  /\ pc = "takeover"
  /\ worker' = IF Live(active) THEN With(active, "running") ELSE worker
  /\ down' = (down \/ ~ Live(active))
  /\ previous' = NoWorker
  /\ pc' = "idle"
  /\ UNCHANGED <<disk, published, numbers, candidate, exits, armed>>

\* Faulty: takes any exit for that of the active worker.
RespawnAny(w) ==
  /\ pc = "idle"
  /\ exits # {}
  /\ ~ Live(fallback)
  /\ Fork(w)
  /\ worker' = [worker EXCEPT ![w] = Booted("running", worker[active].generation)]
  /\ exits' = {}
  /\ previous' = active
  /\ candidate' = w
  /\ pc' = "republish"
  /\ UNCHANGED <<disk, published, numbers, armed, down>>

\* Otherwise a worker of the same generation is started, not paused.
Respawn(w) ==
  /\ pc = "idle"
  /\ active \in exits
  /\ ~ Live(fallback)
  /\ Fork(w)
  /\ worker' = [worker EXCEPT ![w] = Booted("running", worker[active].generation)]
  /\ exits' = exits \ {active}
  /\ previous' = active
  /\ candidate' = w
  /\ pc' = "republish"
  /\ UNCHANGED <<disk, published, numbers, armed, down>>

\* Faulty: only logs the failure.
FailRespawnLogged ==
  /\ pc = "idle"
  /\ active \in exits
  /\ ~ Live(fallback)
  /\ "start" \in Fault \/ Unused = {}
  /\ exits' = exits \ {active}
  /\ UNCHANGED <<disk, published, worker, numbers, pc, previous, candidate,
                 armed, down>>

FailRespawn ==
  /\ pc = "idle"
  /\ active \in exits
  /\ ~ Live(fallback)
  /\ "start" \in Fault \/ Unused = {}
  /\ exits' = exits \ {active}
  /\ down' = TRUE
  /\ UNCHANGED <<disk, published, worker, numbers, pc, previous, candidate, armed>>

Republish ==
  /\ pc = "republish"
  /\ IF Live(candidate)
     THEN /\ record' = worker[candidate].generation
          /\ active' = candidate
          /\ fallback' = NoWorker
          /\ UNCHANGED down
     ELSE down' = TRUE /\ UNCHANGED published
  /\ previous' = NoWorker
  /\ candidate' = NoWorker
  /\ pc' = "idle"
  /\ UNCHANGED <<disk, worker, numbers, exits, armed>>

-----------------------------------------------------------------------------
(* The host process.                                                        *)

\* The host goes away: workers notice the disconnect and close.  A clean end
\* removes the service record.
Stop ==
  /\ pc # "off"
  /\ \/ down /\ record' = 0
     \/ "stop" \in Fault /\ record' = 0
     \/ "kill" \in Fault /\ UNCHANGED record
  /\ worker' = [w \in Worker |->
                  IF Live(w) THEN [worker[w] EXCEPT !.state = "closing"]
                  ELSE worker[w]]
  /\ active' = NoWorker
  /\ fallback' = NoWorker
  /\ previous' = NoWorker
  /\ candidate' = NoWorker
  /\ exits' = {}
  /\ armed' = {}
  /\ down' = FALSE
  /\ pc' = "off"
  /\ UNCHANGED <<disk, numbers>>

\* Faulty: takes the generation of the last worker again.
BootSame(w) ==
  /\ pc = "off"
  /\ Fork(w)
  /\ LET known == IF record > disk.daemon THEN record ELSE disk.daemon
     IN /\ numbers' = [revision |-> disk.revision, daemon |-> known]
        /\ disk' = [disk EXCEPT !.daemon = known]
        /\ worker' = [worker EXCEPT ![w] =
                        [Booted("running", known) EXCEPT !.daemon = known]]
        /\ record' = known
  /\ active' = w
  /\ pc' = "idle"
  /\ UNCHANGED <<fallback, previous, candidate, exits, armed, down>>

\* A host takes a generation beyond the record's and the file's.
Boot(w) ==
  /\ pc = "off"
  /\ Fork(w)
  /\ LET known == IF record > disk.daemon THEN record ELSE disk.daemon
         generation == known + 1
     IN /\ numbers' = [revision |-> disk.revision, daemon |-> generation]
        /\ disk' = [disk EXCEPT !.daemon = generation]
        /\ worker' = [worker EXCEPT ![w] =
                        [Booted("running", generation) EXCEPT !.daemon = generation]]
        /\ record' = generation
  /\ active' = w
  /\ pc' = "idle"
  /\ UNCHANGED <<fallback, previous, candidate, exits, armed, down>>

-----------------------------------------------------------------------------
Roll ==
  \/ \E w \in Worker : SpawnCandidate(w)
  \/ Validate
  \/ ResumeCandidate
  \/ PersistGeneration
  \/ Commit
  \/ FailRoll
  \/ AbandonRoll
  \/ CloseCandidate
  \/ Restore
  \/ ResumePrevious

Recovery ==
  \/ \E w \in Worker : IgnoreExit(w) \/ Respawn(w)
  \/ RestoreFallback
  \/ ResumeFallback
  \/ FailRespawn
  \/ Republish

Next ==
  \/ \E w \in Worker : Mutate(w) \/ Crash(w) \/ Drained(w)
  \/ Pause
  \/ Roll
  \/ Recovery
  \/ \E w \in Worker : RetireFallback(w)
  \/ Stop
  \/ \E w \in Worker : Boot(w)

Spec == Init /\ [][Next]_vars

\* Every step of a transition ends: requests time out after 120 s, a start
\* after 90 s; and exit events are taken from their queue.
FairSpec == Spec /\ WF_vars(Roll \/ Recovery)

-----------------------------------------------------------------------------
(* Properties.                                                              *)

\* At most one worker accepts mutations, whichever rolls, rollbacks, restored
\* fallbacks and respawns have happened: two would overwrite each other's
\* config, revisions and accounts.
OneMutator ==
  \A v, w \in Worker :
    worker[v].state = "running" /\ worker[w].state = "running" => v = w

\* Whoever accepts mutations has loaded the document that is on disk: its next
\* mutation builds on all earlier ones.
MutatorCurrent ==
  \A w \in Worker :
    worker[w].state = "running" => worker[w].document = disk.document

Running == {w \in Worker : worker[w].state = "running"}

\* The worker that mutates, and the document it has loaded.
Mutator == IF Running = {} THEN NoWorker ELSE CHOOSE w \in Running : TRUE
Loaded == IF Running = {} THEN 0 ELSE worker[Mutator].document

Abstract ==
  INSTANCE OneDaemon WITH Server <- Worker, Nobody <- NoWorker,
    document <- disk.document, server <- Mutator, inHand <- Loaded

\* Over all rolls, rollbacks, recoveries and restarts, clients mutate one daemon:
\* no worker takes mutations before the last one has let go, nobody else writes
\* the document, and whoever takes over has all of it.
ActsAsOne == Abstract!Spec

\* Between transitions the active worker accepts mutations and is the one the
\* service record names, unless its exit is still in the queue: a roll that
\* fails, at whatever stage, leaves the previous worker active.
ActiveServes ==
  pc = "idle" /\ ~ down /\ active \notin exits =>
    /\ worker[active].state = "running"
    /\ record = worker[active].generation

\* Between transitions some worker accepts mutations, as long as workers do not
\* die: no roll, however it ends, leaves all of them paused.
MutationsServed ==
  pc = "idle" /\ ~ down => \E w \in Worker : worker[w].state = "running"

\* Between transitions every worker that holds the shared ports is the active
\* one or one that can still be taken back; the others were told to close.
NoOrphan ==
  pc = "idle" => \A w \in Worker : Live(w) => w \in {active, fallback}

\* Every transition ends, and a dead active worker is replaced or the daemon
\* gives up.
ActiveRecovered ==
  /\ pc \in Steps ~> pc \in {"idle", "off"}
  /\ active # NoWorker /\ ~ Live(active) ~> Live(active) \/ down \/ pc = "off"
=============================================================================
