---------------------------- MODULE MutationQueue ---------------------------
(***************************************************************************)
(* The mutation tail of DaemonRuntimeState (daemon-runtime-state.ts), the   *)
(* gate in front of it (control-dispatch.ts) and the requests of the host   *)
(* that stop it: worker.pause and worker.resume around a roll, worker.retire*)
(* and worker.shutdown, and the client's daemon.prepareShutdown.            *)
(*                                                                         *)
(* serializeEffect replaces #mutationTail by a fresh Deferred, waits for    *)
(* the one it replaced, runs the operation and then completes its own.  A   *)
(* Deferred is a number here: "tail" is the newest, "settled" the completed *)
(* ones, and a mutation with ticket n waits for n - 1.                      *)
(***************************************************************************)
EXTENDS Naturals

CONSTANTS
  Mutation,        \* the requests clients send, each once
  Interruptible    \* the stages in which a client may disconnect

\* A client may give up while its mutation waits for the tail or while it runs.
ASSUME InterruptibleAssumption == Interruptible \subseteq {"waiting", "running"}

VARIABLES
  lifecycle,       \* DaemonRuntimeState.#lifecycle
  tail,            \* #mutationTail
  settled,         \* the completed Deferreds
  ticket,          \* the Deferred of each accepted mutation
  stage,           \* how far each mutation has got
  loop,            \* what the worker's request loop is doing
  shutdown,        \* what daemon.prepareShutdown is doing
  awaited,         \* the tail that the loop and prepareShutdown wait for
  revision,        \* number of changes mutations made
  snapshot         \* the revision of the last snapshot the host was given

vars == <<lifecycle, tail, settled, ticket, stage, loop, shutdown, awaited,
          revision, snapshot>>

queue == <<tail, settled, ticket, stage>>

Stages == {"new", "admitted", "waiting", "running", "done"}

\* "stopped": the worker drains its connections and exits.
\* "lost": a request threw, and the loop has ended.
Loops == {"idle", "pause", "retire", "close", "stopped", "lost"}

\* A Deferred is completed, awaited or held only after it was made the tail.
TypeOK ==
  /\ lifecycle \in {"running", "paused", "quiescing", "draining"}
  /\ tail \in Nat
  /\ settled \subseteq 0 .. tail
  /\ ticket \in [Mutation -> 0 .. tail]
  /\ stage \in [Mutation -> Stages]
  /\ loop \in Loops
  /\ shutdown \in {"no", "wait", "requested"}
  /\ awaited \in [{"loop", "shutdown"} -> 0 .. tail]
  /\ revision \in Nat
  /\ snapshot \in Nat

\* A replacement worker starts paused; its first snapshot is in worker.ready.
Init ==
  /\ lifecycle \in {"running", "paused"}
  /\ tail = 0
  /\ settled = {0}
  /\ ticket = [m \in Mutation |-> 0]
  /\ stage = [m \in Mutation |-> "new"]
  /\ loop = "idle"
  /\ shutdown = "no"
  /\ awaited = [w \in {"loop", "shutdown"} |-> 0]
  /\ revision = 0
  /\ snapshot = 0

-----------------------------------------------------------------------------
(* A mutation.                                                              *)

\* The dispatch gate; the idempotency record is begun after it.
Admit(m) ==
  /\ stage[m] = "new"
  /\ stage' = [stage EXCEPT ![m] =
                 IF lifecycle = "paused" THEN "done" ELSE "admitted"]
  /\ UNCHANGED <<lifecycle, tail, settled, ticket, loop, shutdown, awaited,
                 revision, snapshot>>

\* Faulty: forgets to make its own Deferred the tail.
SerializeDetached(m) ==
  /\ stage[m] = "admitted"
  /\ IF lifecycle = "running"
     THEN /\ ticket' = [ticket EXCEPT ![m] = tail + 1]
          /\ stage' = [stage EXCEPT ![m] = "waiting"]
     ELSE /\ stage' = [stage EXCEPT ![m] = "done"]
          /\ UNCHANGED ticket
  /\ UNCHANGED <<lifecycle, tail, settled, loop, shutdown, awaited, revision, snapshot>>

\* serializeEffect looks at the lifecycle again.
Serialize(m) ==
  /\ stage[m] = "admitted"
  /\ IF lifecycle = "running"
     THEN /\ tail' = tail + 1
          /\ ticket' = [ticket EXCEPT ![m] = tail + 1]
          /\ stage' = [stage EXCEPT ![m] = "waiting"]
     ELSE /\ stage' = [stage EXCEPT ![m] = "done"]
          /\ UNCHANGED <<tail, ticket>>
  /\ UNCHANGED <<lifecycle, settled, loop, shutdown, awaited, revision, snapshot>>

\* Faulty: does not wait for the mutation in front of it.
RunAtOnce(m) ==
  /\ stage[m] = "waiting"
  /\ stage' = [stage EXCEPT ![m] = "running"]
  /\ UNCHANGED <<lifecycle, tail, settled, ticket, loop, shutdown, awaited,
                 revision, snapshot>>

Run(m) ==
  /\ stage[m] = "waiting"
  /\ ticket[m] - 1 \in settled
  /\ stage' = [stage EXCEPT ![m] = "running"]
  /\ UNCHANGED <<lifecycle, tail, settled, ticket, loop, shutdown, awaited,
                 revision, snapshot>>

\* Faulty: a failed operation leaves its Deferred open.
FinishUnsettled(m) ==
  /\ stage[m] = "running"
  /\ stage' = [stage EXCEPT ![m] = "done"]
  /\ \/ revision' = revision + 1 /\ settled' = settled \cup {ticket[m]}
     \/ UNCHANGED <<revision, settled>>
  /\ UNCHANGED <<lifecycle, tail, ticket, loop, shutdown, awaited, snapshot>>

\* The operation succeeds or fails; Effect.ensuring completes the Deferred.
Finish(m) ==
  /\ stage[m] = "running"
  /\ stage' = [stage EXCEPT ![m] = "done"]
  /\ settled' = settled \cup {ticket[m]}
  /\ revision' \in {revision, revision + 1}
  /\ UNCHANGED <<lifecycle, tail, ticket, loop, shutdown, awaited, snapshot>>

\* The client disconnects: Effect.ensuring covers the wait for the previous
\* Deferred as well as the operation.
Interrupt(m) ==
  /\ stage[m] \in Interruptible
  /\ stage' = [stage EXCEPT ![m] = "done"]
  /\ settled' = settled \cup {ticket[m]}
  /\ IF stage[m] = "running" THEN revision' \in {revision, revision + 1}
     ELSE UNCHANGED revision
  /\ UNCHANGED <<lifecycle, tail, ticket, loop, shutdown, awaited, snapshot>>

-----------------------------------------------------------------------------
(* The worker's request loop serves one request of the host at a time.      *)

Pause ==
  /\ loop = "idle"
  /\ lifecycle = "running"
  /\ lifecycle' = "paused"
  /\ loop' = "pause"
  /\ awaited' = [awaited EXCEPT !["loop"] = tail]
  /\ UNCHANGED <<queue, shutdown, revision, snapshot>>

\* DaemonRuntimeState.pause throws when the daemon takes no mutations.  The loop
\* answers failures but not what a generator throws: no request is served any
\* more, not even the one to shut down.
PauseRefused ==
  /\ loop = "idle"
  /\ lifecycle # "running"
  /\ loop' = "lost"
  /\ UNCHANGED <<lifecycle, queue, shutdown, awaited, revision, snapshot>>

\* Faulty: takes the snapshot without waiting for the tail.
PausedAtOnce ==
  /\ loop = "pause"
  /\ loop' = "idle"
  /\ snapshot' = revision
  /\ UNCHANGED <<lifecycle, queue, shutdown, awaited, revision>>

Paused ==
  /\ loop = "pause"
  /\ awaited["loop"] \in settled
  /\ loop' = "idle"
  /\ snapshot' = revision
  /\ UNCHANGED <<lifecycle, queue, shutdown, awaited, revision>>

Resume ==
  /\ loop = "idle"
  /\ lifecycle = "paused"
  /\ lifecycle' = "running"
  /\ UNCHANGED <<queue, loop, shutdown, awaited, revision, snapshot>>

\* beginRetire.
BeginRetire ==
  IF lifecycle \in {"quiescing", "draining"} THEN lifecycle ELSE "quiescing"

\* beginShutdown leaves a paused daemon paused.
BeginShutdown == IF lifecycle = "running" THEN "quiescing" ELSE lifecycle

Retire ==
  /\ loop = "idle"
  /\ lifecycle' = BeginRetire
  /\ loop' = "retire"
  /\ awaited' = [awaited EXCEPT !["loop"] = tail]
  /\ UNCHANGED <<queue, shutdown, revision, snapshot>>

\* worker.shutdown, and the disconnect of the host.
Close ==
  /\ loop = "idle"
  /\ lifecycle' = BeginShutdown
  /\ loop' = "close"
  /\ awaited' = [awaited EXCEPT !["loop"] = tail]
  /\ UNCHANGED <<queue, shutdown, revision, snapshot>>

\* Faulty: starts to drain while mutations are under way.
DrainAtOnce ==
  /\ loop \in {"retire", "close"}
  /\ lifecycle' = "draining"
  /\ loop' = "stopped"
  /\ UNCHANGED <<queue, shutdown, awaited, revision, snapshot>>

\* markDraining, then the proxy and the control server are drained.
Drain ==
  /\ loop \in {"retire", "close"}
  /\ awaited["loop"] \in settled
  /\ lifecycle' = "draining"
  /\ loop' = "stopped"
  /\ UNCHANGED <<queue, shutdown, awaited, revision, snapshot>>

\* daemon.prepareShutdown runs beside the loop.
PrepareShutdown ==
  /\ shutdown = "no"
  /\ lifecycle \in {"running", "paused"}
  /\ lifecycle' = "quiescing"
  /\ shutdown' = "wait"
  /\ awaited' = [awaited EXCEPT !["shutdown"] = tail]
  /\ UNCHANGED <<queue, loop, revision, snapshot>>

\* The host is asked to shut the daemon down.
RequestShutdown ==
  /\ shutdown = "wait"
  /\ awaited["shutdown"] \in settled
  /\ shutdown' = "requested"
  /\ UNCHANGED <<lifecycle, queue, loop, awaited, revision, snapshot>>

-----------------------------------------------------------------------------
Progress(m) == Admit(m) \/ Serialize(m) \/ Run(m) \/ Finish(m)

Waiter == Paused \/ Drain \/ RequestShutdown

Next ==
  \/ \E m \in Mutation : Progress(m) \/ Interrupt(m)
  \/ Waiter
  \/ Pause
  \/ PauseRefused
  \/ Resume
  \/ Retire
  \/ Close
  \/ PrepareShutdown

Spec == Init /\ [][Next]_vars

\* Fibers whose Deferred is complete are scheduled, and the operations are
\* bounded by timeouts of their own (AccountTransaction).
FairSpec ==
  /\ Spec
  /\ \A m \in Mutation : WF_vars(Run(m)) /\ WF_vars(Finish(m))
  /\ WF_vars(Waiter)

-----------------------------------------------------------------------------
(* Properties.                                                              *)

Busy == {m \in Mutation : stage[m] \in {"waiting", "running"}}

\* Mutations run one at a time and in the order they were accepted: nothing
\* that was accepted before a running mutation is still to come.
Serialized ==
  \A m, n \in Mutation :
    stage[m] = "running" /\ n \in Busy /\ n # m => ticket[m] < ticket[n]

\* The snapshot the host was given stays true until it resumes the worker: no
\* mutation is under way or changed anything since (the host compares it with
\* the snapshot of the replacement worker).
SnapshotStable ==
  lifecycle = "paused" /\ loop = "idle" => Busy = {} /\ revision = snapshot

\* A worker that drains, or has asked for its shutdown, has no mutation left.
QuietBeforeDrain ==
  lifecycle = "draining" \/ shutdown = "requested" => Busy = {}

\* Every accepted mutation runs to its end, and whoever waits for the tail
\* gets its turn.
EveryoneServed ==
  /\ \A m \in Mutation : stage[m] = "waiting" ~> stage[m] = "done"
  /\ loop \in {"pause", "retire", "close"} ~> loop \in {"idle", "stopped"}
  /\ shutdown = "wait" ~> shutdown = "requested"
=============================================================================
