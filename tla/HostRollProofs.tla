---------------------------- MODULE HostRollProofs --------------------------
(***************************************************************************)
(* The safety properties of HostRoll, for any number of workers and         *)
(* mutations.  The types hold under every fault.  OneMutator and            *)
(* ActiveServes hold when the host's own writes succeed: one that throws    *)
(* abandons the roll, and the run host_rollback shows what is left.         *)
(* MutatorCurrent needs also that no client mutates before the replaced     *)
(* worker is let go (host_fallback), NoOrphan that a roll outlasts the      *)
(* fallback window of the one before.  MutationsServed holds whatever write *)
(* throws, in a host whose workers do not die.  OneToClients shows that     *)
(* HostRoll implements OneDaemon, under the hypotheses of MutatorCurrent.   *)
(*                                                                         *)
(* The argument: the gate lets one transition change the workers, so at     *)
(* every step pc says which worker may accept mutations ("Mutators"); a     *)
(* paused worker keeps the document on disk current ("Current"), and a      *)
(* worker leaves active, fallback and candidate only when it is dead or has *)
(* been told to close ("Owned").                                            *)
(***************************************************************************)
EXTENDS HostRoll, TLAPS

Rolling == {"spawn", "validate", "resume", "persist", "commit", "rollback",
            "restore", "wake"}
Replacing == {"validate", "resume", "persist", "commit", "republish"}

\* Which worker the variables of a transition name.
Named ==
  /\ pc = "off" <=> active = NoWorker
  /\ pc \in Rolling => previous = active
  /\ pc \in Replacing => candidate \in Worker
  /\ candidate # NoWorker =>
       /\ pc \in Replacing \cup {"rollback"}
       /\ candidate \notin {active, fallback} \cup Unused
  /\ active # NoWorker => active \notin Unused
  /\ fallback # NoWorker => fallback \notin {active} \cup Unused
  /\ \A w \in exits : worker[w].state = "dead"

\* Which worker accepts mutations, if any.
Mutators ==
  \A w \in Worker : worker[w].state = "running" =>
    \/ pc = "idle" /\ w = active
    \/ pc \in {"persist", "commit", "rollback", "republish"} /\ w = candidate

\* The worker that is to be resumed or published next is ready for it, or its
\* exit is in the queue.
Ready ==
  /\ pc \in Rolling \cup {"takeover"} =>
       worker[active].state = "paused" \/ active \in exits
  /\ pc \in {"persist", "commit", "republish"} =>
       worker[candidate].state = "running" \/ candidate \in exits
  /\ fallback # NoWorker => worker[fallback].state \in {"paused", "dead"}
  /\ pc \in {"wake", "takeover"} => record = worker[active].generation

\* The worker that is to be resumed or published next has the document on disk.
Current ==
  /\ MutatorCurrent
  /\ pc \in Rolling \cup {"takeover"} => worker[active].document = disk.document
  /\ candidate # NoWorker => worker[candidate].document = disk.document
  /\ fallback # NoWorker => worker[fallback].document = disk.document

\* Every worker on the shared ports is named by some variable of the host.
Owned ==
  /\ \A w \in Worker : Live(w) => pc # "off" /\ w \in {active, fallback, candidate}
  /\ fallback # NoWorker => fallback \in armed
  /\ pc \in Rolling => fallback = NoWorker
  /\ pc = "republish" => ~ Live(fallback) /\ ~ Live(active)

\* A worker that was forked has a generation.
Numbered ==
  \A w \in Worker : worker[w].state # "unused" => worker[w].generation > 0

IInv ==
  /\ TypeOK
  /\ Numbered
  /\ Named
  /\ "write" \notin Fault =>
       /\ Mutators
       /\ Ready
       /\ ActiveServes
       /\ "early" \notin Fault => Current
       /\ "quick" \notin Fault => Owned

-----------------------------------------------------------------------------

\* What the types say of the numbers.
LEMMA Fields ==
  ASSUME TypeOK
  PROVE  /\ disk.document \in Nat
         /\ disk.revision \in Nat
         /\ disk.daemon \in Nat
         /\ numbers.revision \in Nat /\ numbers.daemon \in Nat
         /\ \A w \in Worker :
              /\ worker[w] \in Process
              /\ worker[w].generation \in Nat
              /\ worker[w].document \in Nat
              /\ worker[w].revision \in Nat
              /\ worker[w].daemon \in Nat
  BY DEF TypeOK, Disk, Process

\* No worker has run when the first host boots.
LEMMA InitInv == Init => IInv
<1> SUFFICES ASSUME Init
             PROVE  IInv
  OBVIOUS
<1> USE WorkerAssumption DEF Init, NoWorker, Steps, Serving, Live
<1>1. \A w \in Worker : worker[w] \in Process /\ worker[w].state = "unused"
  BY DEF Process, Booted
<1>2. TypeOK
  BY <1>1 DEF TypeOK, Disk
<1>3. Numbered /\ Mutators
  BY <1>1 DEF Numbered, Mutators
<1>4. Named /\ Ready /\ ActiveServes /\ Current /\ Owned
  BY <1>1
     DEF Named, Ready, ActiveServes, Current, MutatorCurrent, Owned, Rolling,
     Replacing, Worker
<1> QED BY <1>2, <1>3, <1>4 DEF IInv

\* u differs from worker in the state of w, which is s.
Changed(u, w, s) ==
  /\ u \in [Worker -> Process]
  /\ u[w].state = s
  /\ \A v \in Worker : v # w => u[v].state = worker[v].state
  /\ \A v \in Worker : /\ u[v].generation = worker[v].generation
                       /\ u[v].document = worker[v].document
                       /\ u[v].revision = worker[v].revision

\* u differs from worker in w, which has booted.
Started(u, w, s, g) ==
  /\ u \in [Worker -> Process]
  /\ u[w].state = s
  /\ u[w].generation = g
  /\ u[w].document = disk.document
  /\ \A v \in Worker : v # w => u[v] = worker[v]

\* With changes the state of one worker and nothing else.
LEMMA WithState ==
  ASSUME TypeOK, NEW w \in Worker,
         NEW s \in {"unused", "paused", "running", "closing", "dead"}
  PROVE  Changed(With(w, s), w, s)
  BY DEF TypeOK, With, Process, Changed

\* A worker boots with the document on disk.
LEMMA BootedState ==
  ASSUME TypeOK, NEW w \in Worker, NEW s \in {"paused", "running"},
         NEW g \in Nat
  PROVE  Started([worker EXCEPT ![w] = Booted(s, g)], w, s, g)
<1>1. /\ Booted(s, g) \in Process
      /\ Booted(s, g).state = s
      /\ Booted(s, g).generation = g
      /\ Booted(s, g).document = disk.document
  BY Fields DEF Booted, Process
<1> QED BY <1>1 DEF TypeOK, Started

\* The same for the first worker of a host, which gets the new number.
LEMMA FirstState ==
  ASSUME TypeOK, NEW w \in Worker, NEW g \in Nat
  PROVE  Started([worker EXCEPT ![w] =
                    [Booted("running", g) EXCEPT !.daemon = g]], w, "running", g)
<1> DEFINE first == [Booted("running", g) EXCEPT !.daemon = g]
<1>1. /\ first \in Process
      /\ first.state = "running"
      /\ first.generation = g
      /\ first.document = disk.document
  BY Fields DEF Booted, Process
<1> HIDE DEF first
<1>2. Started([worker EXCEPT ![w] = first], w, "running", g)
  BY <1>1 DEF TypeOK, Started
<1> QED BY <1>2 DEF first

\* What a worker does on its own, at any time.
LEMMA WorkerSteps ==
  ASSUME IInv, NEW v \in Worker, Mutate(v) \/ Crash(v) \/ Drained(v)
  PROVE  IInv'
<1> USE WorkerAssumption
    DEF TypeOK, Worker, NoWorker, Live, Serving, Rolling, Replacing, Steps,
        Unused, Written, Fork, published
<1>1. TypeOK /\ Numbered /\ Named
  BY DEF IInv
<1>2. "write" \notin Fault =>
        /\ Mutators /\ Ready /\ ActiveServes
        /\ "early" \notin Fault => Current
        /\ "quick" \notin Fault => Owned
  BY DEF IInv
<1> USE <1>1, <1>2
<1>3. CASE Mutate(v)
  <2> USE <1>3 DEF Mutate
  <2>1. /\ disk.document + 1 \in Nat /\ worker[v].revision + 1 \in Nat
        /\ worker[v].daemon \in Nat
    <3>1. /\ disk.document \in Nat /\ worker[v].revision \in Nat
          /\ worker[v].daemon \in Nat
      BY Fields
    <3>2. \A x \in Nat : x + 1 \in Nat
      OBVIOUS
    <3> QED BY <3>1, <3>2
  <2>2. disk' \in Disk /\ disk'.document = disk.document + 1
    BY <2>1 DEF Disk
  <2>3. worker[v] \in Process /\ worker' = [worker EXCEPT ![v] =
              [worker[v] EXCEPT !.document = disk.document + 1,
                                !.revision = worker[v].revision + 1]]
    BY Fields
  <2>4. /\ worker'[v] = [worker[v] EXCEPT !.document = disk.document + 1,
                                           !.revision = worker[v].revision + 1]
        /\ \A w \in Worker : w # v => worker'[w] = worker[w]
        /\ DOMAIN worker' = Worker /\ worker' = [w \in Worker |-> worker'[w]]
    BY <2>3
  <2>5. /\ worker'[v] \in Process
        /\ worker'[v].document = disk.document + 1
        /\ worker'[v].state = worker[v].state
        /\ worker'[v].generation = worker[v].generation
    BY <2>1, <2>3, <2>4 DEF Process
  <2>6. worker' \in [Worker -> Process]
    <3>1. \A w \in Worker : worker'[w] \in Process
      BY <2>4, <2>5, Fields
    <3> QED BY <3>1, <2>4
  <2>7. TypeOK'
    BY <2>1, <2>2, <2>3, <2>4, <2>5, <2>6 DEF Numbered
  <2>8. Numbered'
    BY <2>1, <2>2, <2>3, <2>4, <2>5, <2>6 DEF Numbered
  <2>9. Named'
    BY <2>1, <2>2, <2>3, <2>4, <2>5, <2>6 DEF Named
  <2>10. "write" \notin Fault => Mutators'
    BY <2>1, <2>2, <2>3, <2>4, <2>5, <2>6
       DEF Named, Mutators, Ready, ActiveServes
  <2>11. "write" \notin Fault => Ready'
    BY <2>1, <2>2, <2>3, <2>4, <2>5, <2>6
       DEF Named, Mutators, Ready, ActiveServes
  <2>12. "write" \notin Fault => ActiveServes'
    BY <2>1, <2>2, <2>3, <2>4, <2>5, <2>6
       DEF Named, Mutators, Ready, ActiveServes
  <2>13. "write" \notin Fault /\ "early" \notin Fault => Current'
    BY <2>1, <2>2, <2>3, <2>4, <2>5, <2>6
       DEF Named, Mutators, Current, MutatorCurrent
  <2>14. "write" \notin Fault /\ "quick" \notin Fault => Owned'
    BY <2>1, <2>2, <2>3, <2>4, <2>5, <2>6
       DEF Named, Mutators, Ready, Owned, ActiveServes
  <2> QED BY <2>7, <2>8, <2>9, <2>10, <2>11, <2>12, <2>13, <2>14 DEF IInv
<1>4. CASE Crash(v)
  <2> USE <1>4 DEF Crash
  <2>1. Changed(worker', v, "dead")
    BY WithState
  <2>2. TypeOK'
    BY <2>1 DEF Numbered, Changed
  <2>3. Numbered'
    BY <2>1 DEF Numbered, Changed
  <2>4. Named'
    BY <2>1 DEF Named, Changed
  <2>5. "write" \notin Fault => Mutators'
    BY <2>1 DEF Named, Mutators, Ready, ActiveServes, Changed
  <2>6. "write" \notin Fault => Ready'
    BY <2>1 DEF Named, Mutators, Ready, ActiveServes, Changed
  <2>7. "write" \notin Fault => ActiveServes'
    BY <2>1 DEF Named, Mutators, Ready, ActiveServes, Changed
  <2>8. "write" \notin Fault /\ "early" \notin Fault => Current'
    BY <2>1 DEF Named, Mutators, Current, MutatorCurrent, Changed
  <2>9. "write" \notin Fault /\ "quick" \notin Fault => Owned'
    BY <2>1 DEF Named, Mutators, Ready, Owned, ActiveServes, Changed
  <2> QED BY <2>2, <2>3, <2>4, <2>5, <2>6, <2>7, <2>8, <2>9 DEF IInv
<1>5. CASE Drained(v)
  <2> USE <1>5 DEF Drained
  <2>1. Changed(worker', v, "dead")
    BY WithState
  <2>2. TypeOK'
    BY <2>1 DEF Numbered, Changed
  <2>3. Numbered'
    BY <2>1 DEF Numbered, Changed
  <2>4. Named'
    BY <2>1 DEF Named, Changed
  <2>5. "write" \notin Fault => Mutators'
    BY <2>1 DEF Named, Mutators, Ready, ActiveServes, Changed
  <2>6. "write" \notin Fault => Ready'
    BY <2>1 DEF Named, Mutators, Ready, ActiveServes, Changed
  <2>7. "write" \notin Fault => ActiveServes'
    BY <2>1 DEF Named, Mutators, Ready, ActiveServes, Changed
  <2>8. "write" \notin Fault /\ "early" \notin Fault => Current'
    BY <2>1 DEF Named, Mutators, Current, MutatorCurrent, Changed
  <2>9. "write" \notin Fault /\ "quick" \notin Fault => Owned'
    BY <2>1 DEF Named, Mutators, Ready, Owned, ActiveServes, Changed
  <2> QED BY <2>2, <2>3, <2>4, <2>5, <2>6, <2>7, <2>8, <2>9 DEF IInv
<1> QED BY <1>3, <1>4, <1>5

\* A roll, up to its commit.
LEMMA RollSteps ==
  ASSUME IInv,
         \/ Pause \/ Validate \/ ResumeCandidate \/ PersistGeneration \/ Commit
         \/ \E w \in Worker : SpawnCandidate(w)
  PROVE  IInv'
<1> USE WorkerAssumption
    DEF TypeOK, Worker, NoWorker, Live, Serving, Rolling, Replacing, Steps,
        Unused, Written, Fork, published
<1>1. TypeOK /\ Numbered /\ Named
  BY DEF IInv
<1>2. "write" \notin Fault =>
        /\ Mutators /\ Ready /\ ActiveServes
        /\ "early" \notin Fault => Current
        /\ "quick" \notin Fault => Owned
  BY DEF IInv
<1> USE <1>1, <1>2
<1>3. CASE Pause
  <2> USE <1>3 DEF Pause
  <2>1. active \in Worker
    OBVIOUS
  <2>2. Changed(worker', active, "paused")
    BY WithState
  <2>3. TypeOK'
    BY <2>1, <2>2 DEF Numbered, Changed
  <2>4. Numbered'
    BY <2>1, <2>2 DEF Numbered, Changed
  <2>5. Named'
    BY <2>1, <2>2 DEF Named, Changed
  <2>6. "write" \notin Fault => Mutators'
    BY <2>1, <2>2 DEF Named, Mutators, Ready, ActiveServes, Changed
  <2>7. "write" \notin Fault => Ready'
    BY <2>1, <2>2 DEF Named, Mutators, Ready, ActiveServes, Changed
  <2>8. "write" \notin Fault => ActiveServes'
    BY <2>1, <2>2 DEF Named, Mutators, Ready, ActiveServes, Changed
  <2>9. "write" \notin Fault /\ "early" \notin Fault => Current'
    BY <2>1, <2>2 DEF Named, Mutators, Current, MutatorCurrent, Changed
  <2>10. "write" \notin Fault /\ "quick" \notin Fault => Owned'
    BY <2>1, <2>2 DEF Named, Mutators, Ready, Owned, ActiveServes, Changed
  <2> QED BY <2>3, <2>4, <2>5, <2>6, <2>7, <2>8, <2>9, <2>10 DEF IInv
<1>4. CASE Validate
  <2> USE <1>4 DEF Validate
  <2>1. TypeOK'
    BY DEF Numbered
  <2>2. Numbered'
    BY DEF Numbered
  <2>3. Named'
    BY DEF Named
  <2>4. "write" \notin Fault => Mutators'
    BY DEF Named, Mutators, Ready, ActiveServes
  <2>5. "write" \notin Fault => Ready'
    BY DEF Named, Mutators, Ready, ActiveServes
  <2>6. "write" \notin Fault => ActiveServes'
    BY DEF Named, Mutators, Ready, ActiveServes
  <2>7. "write" \notin Fault /\ "early" \notin Fault => Current'
    BY DEF Named, Mutators, Current, MutatorCurrent
  <2>8. "write" \notin Fault /\ "quick" \notin Fault => Owned'
    BY DEF Named, Mutators, Ready, Owned, ActiveServes
  <2> QED BY <2>1, <2>2, <2>3, <2>4, <2>5, <2>6, <2>7, <2>8 DEF IInv
<1>5. CASE ResumeCandidate
  <2> USE <1>5 DEF ResumeCandidate
  <2>1. CASE Live(candidate)
    <3> USE <2>1
    <3>1. candidate \in Worker /\ worker' = With(candidate, "running")
      OBVIOUS
    <3>2. Changed(worker', candidate, "running")
      BY <3>1, WithState
    <3>3. TypeOK'
      BY <3>1, <3>2 DEF Numbered, Changed
    <3>4. Numbered'
      BY <3>1, <3>2 DEF Numbered, Changed
    <3>5. Named'
      BY <3>1, <3>2 DEF Named, Changed
    <3>6. "write" \notin Fault => Mutators'
      BY <3>1, <3>2 DEF Named, Mutators, Ready, ActiveServes, Changed
    <3>7. "write" \notin Fault => Ready'
      BY <3>1, <3>2 DEF Named, Mutators, Ready, ActiveServes, Changed
    <3>8. "write" \notin Fault => ActiveServes'
      BY <3>1, <3>2 DEF Named, Mutators, Ready, ActiveServes, Changed
    <3>9. "write" \notin Fault /\ "early" \notin Fault => Current'
      BY <3>1, <3>2 DEF Named, Mutators, Current, MutatorCurrent, Changed
    <3>10. "write" \notin Fault /\ "quick" \notin Fault => Owned'
      BY <3>1, <3>2 DEF Named, Mutators, Ready, Owned, ActiveServes, Changed
    <3> QED BY <3>3, <3>4, <3>5, <3>6, <3>7, <3>8, <3>9, <3>10 DEF IInv
  <2>2. CASE ~ (Live(candidate))
    <3> USE <2>2
    <3>1. TypeOK'
      BY DEF Numbered
    <3>2. Numbered'
      BY DEF Numbered
    <3>3. Named'
      BY DEF Named
    <3>4. "write" \notin Fault => Mutators'
      BY DEF Named, Mutators, Ready, ActiveServes
    <3>5. "write" \notin Fault => Ready'
      BY DEF Named, Mutators, Ready, ActiveServes
    <3>6. "write" \notin Fault => ActiveServes'
      BY DEF Named, Mutators, Ready, ActiveServes
    <3>7. "write" \notin Fault /\ "early" \notin Fault => Current'
      BY DEF Named, Mutators, Current, MutatorCurrent
    <3>8. "write" \notin Fault /\ "quick" \notin Fault => Owned'
      BY DEF Named, Mutators, Ready, Owned, ActiveServes
    <3> QED BY <3>1, <3>2, <3>3, <3>4, <3>5, <3>6, <3>7, <3>8 DEF IInv
  <2> QED BY <2>1, <2>2
<1>6. CASE PersistGeneration
  <2> USE <1>6 DEF PersistGeneration
  <2>1. previous \in Worker
    BY DEF Named
  <2>2. worker[previous].generation + 1 \in Nat
    BY <2>1, Fields
  <2>3. numbers' \in [revision : Nat, daemon : Nat]
    BY <2>2
  <2>4. disk' \in Disk /\ disk'.document = disk.document
    BY <2>2, Fields DEF Disk
  <2>5. TypeOK'
    BY <2>1, <2>2, <2>3, <2>4 DEF Numbered
  <2>6. Numbered'
    BY <2>1, <2>2, <2>3, <2>4 DEF Numbered
  <2>7. Named'
    BY <2>1, <2>2, <2>3, <2>4 DEF Named
  <2>8. "write" \notin Fault => Mutators'
    BY <2>1, <2>2, <2>3, <2>4 DEF Named, Mutators, Ready, ActiveServes
  <2>9. "write" \notin Fault => Ready'
    BY <2>1, <2>2, <2>3, <2>4 DEF Named, Mutators, Ready, ActiveServes
  <2>10. "write" \notin Fault => ActiveServes'
    BY <2>1, <2>2, <2>3, <2>4 DEF Named, Mutators, Ready, ActiveServes
  <2>11. "write" \notin Fault /\ "early" \notin Fault => Current'
    BY <2>1, <2>2, <2>3, <2>4 DEF Named, Mutators, Current, MutatorCurrent
  <2>12. "write" \notin Fault /\ "quick" \notin Fault => Owned'
    BY <2>1, <2>2, <2>3, <2>4 DEF Named, Mutators, Ready, Owned, ActiveServes
  <2> QED BY <2>5, <2>6, <2>7, <2>8, <2>9, <2>10, <2>11, <2>12 DEF IInv
<1>7. CASE Commit
  <2> USE <1>7 DEF Commit
  <2>1. previous \in Worker /\ candidate \in Worker
    BY DEF Named
  <2>2. worker[candidate].generation \in Nat
    BY <2>1, Fields
  <2>3. TypeOK'
    BY <2>1, <2>2 DEF Numbered
  <2>4. Numbered'
    BY <2>1, <2>2 DEF Numbered
  <2>5. Named'
    BY <2>1, <2>2 DEF Named
  <2>6. "write" \notin Fault => Mutators'
    BY <2>1, <2>2 DEF Named, Mutators, Ready, ActiveServes
  <2>7. "write" \notin Fault => Ready'
    BY <2>1, <2>2 DEF Named, Mutators, Ready, ActiveServes
  <2>8. "write" \notin Fault => ActiveServes'
    BY <2>1, <2>2 DEF Named, Mutators, Ready, ActiveServes
  <2>9. "write" \notin Fault /\ "early" \notin Fault => Current'
    BY <2>1, <2>2 DEF Named, Mutators, Current, MutatorCurrent
  <2>10. "write" \notin Fault /\ "quick" \notin Fault => Owned'
    BY <2>1, <2>2 DEF Named, Mutators, Ready, Owned, ActiveServes
  <2> QED BY <2>3, <2>4, <2>5, <2>6, <2>7, <2>8, <2>9, <2>10 DEF IInv
<1>8. ASSUME NEW w \in Worker, SpawnCandidate(w)
      PROVE  IInv'
  <2> USE <1>8 DEF SpawnCandidate
  <2>1. previous = active /\ previous \in Worker
    BY DEF Named
  <2>2. worker[previous].generation + 1 \in Nat \ {0}
    BY <2>1, Fields
  <2>3. Started(worker', w, "paused", worker[previous].generation + 1)
    BY <2>2, BootedState
  <2>4. TypeOK'
    BY <2>1, <2>2, <2>3 DEF Numbered, Started
  <2>5. Numbered'
    BY <2>1, <2>2, <2>3 DEF Numbered, Started
  <2>6. Named'
    BY <2>1, <2>2, <2>3 DEF Named, Started
  <2>7. "write" \notin Fault => Mutators'
    BY <2>1, <2>2, <2>3 DEF Named, Mutators, Ready, ActiveServes, Started
  <2>8. "write" \notin Fault => Ready'
    BY <2>1, <2>2, <2>3 DEF Named, Mutators, Ready, ActiveServes, Started
  <2>9. "write" \notin Fault => ActiveServes'
    BY <2>1, <2>2, <2>3 DEF Named, Mutators, Ready, ActiveServes, Started
  <2>10. "write" \notin Fault /\ "early" \notin Fault => Current'
    BY <2>1, <2>2, <2>3 DEF Named, Mutators, Current, MutatorCurrent, Started
  <2>11. "write" \notin Fault /\ "quick" \notin Fault => Owned'
    BY <2>1, <2>2, <2>3 DEF Named, Mutators, Ready, Owned, ActiveServes, Started
  <2> QED BY <2>4, <2>5, <2>6, <2>7, <2>8, <2>9, <2>10, <2>11 DEF IInv
<1> QED BY <1>3, <1>4, <1>5, <1>6, <1>7, <1>8

\* A roll that fails, and its rollback.
LEMMA RollbackSteps ==
  ASSUME IInv,
         FailRoll \/ AbandonRoll \/ CloseCandidate \/ Restore \/ ResumePrevious
  PROVE  IInv'
<1> USE WorkerAssumption
    DEF TypeOK, Worker, NoWorker, Live, Serving, Rolling, Replacing, Steps,
        Unused, Written, Fork, published
<1>1. TypeOK /\ Numbered /\ Named
  BY DEF IInv
<1>2. "write" \notin Fault =>
        /\ Mutators /\ Ready /\ ActiveServes
        /\ "early" \notin Fault => Current
        /\ "quick" \notin Fault => Owned
  BY DEF IInv
<1> USE <1>1, <1>2
<1>3. CASE FailRoll
  <2> USE <1>3 DEF FailRoll
  <2>1. TypeOK'
    BY DEF Numbered
  <2>2. Numbered'
    BY DEF Numbered
  <2>3. Named'
    BY DEF Named
  <2>4. "write" \notin Fault => Mutators'
    BY DEF Named, Mutators, Ready, ActiveServes
  <2>5. "write" \notin Fault => Ready'
    BY DEF Named, Mutators, Ready, ActiveServes
  <2>6. "write" \notin Fault => ActiveServes'
    BY DEF Named, Mutators, Ready, ActiveServes
  <2>7. "write" \notin Fault /\ "early" \notin Fault => Current'
    BY DEF Named, Mutators, Current, MutatorCurrent
  <2>8. "write" \notin Fault /\ "quick" \notin Fault => Owned'
    BY DEF Named, Mutators, Ready, Owned, ActiveServes
  <2> QED BY <2>1, <2>2, <2>3, <2>4, <2>5, <2>6, <2>7, <2>8 DEF IInv
<1>4. CASE CloseCandidate
  <2> USE <1>4 DEF CloseCandidate
  <2>1. CASE Live(candidate)
    <3> USE <2>1
    <3>1. Changed(worker', candidate, "closing")
      BY WithState
    <3>2. TypeOK'
      BY <3>1 DEF Numbered, Changed
    <3>3. Numbered'
      BY <3>1 DEF Numbered, Changed
    <3>4. Named'
      BY <3>1 DEF Named, Changed
    <3>5. "write" \notin Fault => Mutators'
      BY <3>1 DEF Named, Mutators, Ready, ActiveServes, Changed
    <3>6. "write" \notin Fault => Ready'
      BY <3>1 DEF Named, Mutators, Ready, ActiveServes, Changed
    <3>7. "write" \notin Fault => ActiveServes'
      BY <3>1 DEF Named, Mutators, Ready, ActiveServes, Changed
    <3>8. "write" \notin Fault /\ "early" \notin Fault => Current'
      BY <3>1 DEF Named, Mutators, Current, MutatorCurrent, Changed
    <3>9. "write" \notin Fault /\ "quick" \notin Fault => Owned'
      BY <3>1 DEF Named, Mutators, Ready, Owned, ActiveServes, Changed
    <3> QED BY <3>2, <3>3, <3>4, <3>5, <3>6, <3>7, <3>8, <3>9 DEF IInv
  <2>2. CASE ~ (Live(candidate))
    <3> USE <2>2
    <3>1. TypeOK'
      BY DEF Numbered
    <3>2. Numbered'
      BY DEF Numbered
    <3>3. Named'
      BY DEF Named
    <3>4. "write" \notin Fault => Mutators'
      BY DEF Named, Mutators, Ready, ActiveServes
    <3>5. "write" \notin Fault => Ready'
      BY DEF Named, Mutators, Ready, ActiveServes
    <3>6. "write" \notin Fault => ActiveServes'
      BY DEF Named, Mutators, Ready, ActiveServes
    <3>7. "write" \notin Fault /\ "early" \notin Fault => Current'
      BY DEF Named, Mutators, Current, MutatorCurrent
    <3>8. "write" \notin Fault /\ "quick" \notin Fault => Owned'
      BY DEF Named, Mutators, Ready, Owned, ActiveServes
    <3> QED BY <3>1, <3>2, <3>3, <3>4, <3>5, <3>6, <3>7, <3>8 DEF IInv
  <2> QED BY <2>1, <2>2
<1>5. CASE Restore
  <2> USE <1>5 DEF Restore
  <2>1. previous = active /\ previous \in Worker
    BY DEF Named
  <2>2. /\ numbers' \in [revision : Nat, daemon : Nat]
        /\ disk' \in Disk
        /\ record' \in Nat
    BY <2>1, Fields DEF Disk
  <2>3. disk'.document = disk.document
    BY Fields DEF Disk
  <2>4. TypeOK'
    BY <2>1, <2>2, <2>3 DEF Numbered
  <2>5. Numbered'
    BY <2>1, <2>2, <2>3 DEF Numbered
  <2>6. Named'
    BY <2>1, <2>2, <2>3 DEF Named
  <2>7. "write" \notin Fault => Mutators'
    BY <2>1, <2>2, <2>3 DEF Named, Mutators, Ready, ActiveServes
  <2>8. "write" \notin Fault => Ready'
    BY <2>1, <2>2, <2>3 DEF Named, Mutators, Ready, ActiveServes
  <2>9. "write" \notin Fault => ActiveServes'
    BY <2>1, <2>2, <2>3 DEF Named, Mutators, Ready, ActiveServes
  <2>10. "write" \notin Fault /\ "early" \notin Fault => Current'
    BY <2>1, <2>2, <2>3 DEF Named, Mutators, Current, MutatorCurrent
  <2>11. "write" \notin Fault /\ "quick" \notin Fault => Owned'
    BY <2>1, <2>2, <2>3 DEF Named, Mutators, Ready, Owned, ActiveServes
  <2> QED BY <2>4, <2>5, <2>6, <2>7, <2>8, <2>9, <2>10, <2>11 DEF IInv
<1>6. CASE ResumePrevious
  <2> USE <1>6 DEF ResumePrevious
  <2>1. CASE Live(previous)
    <3> USE <2>1
    <3>1. Changed(worker', previous, "running")
      BY WithState
    <3>2. TypeOK'
      BY <3>1 DEF Numbered, Changed
    <3>3. Numbered'
      BY <3>1 DEF Numbered, Changed
    <3>4. Named'
      BY <3>1 DEF Named, Changed
    <3>5. "write" \notin Fault => Mutators'
      BY <3>1 DEF Named, Mutators, Ready, ActiveServes, Changed
    <3>6. "write" \notin Fault => Ready'
      BY <3>1 DEF Named, Mutators, Ready, ActiveServes, Changed
    <3>7. "write" \notin Fault => ActiveServes'
      BY <3>1 DEF Named, Mutators, Ready, ActiveServes, Changed
    <3>8. "write" \notin Fault /\ "early" \notin Fault => Current'
      BY <3>1 DEF Named, Mutators, Current, MutatorCurrent, Changed
    <3>9. "write" \notin Fault /\ "quick" \notin Fault => Owned'
      BY <3>1 DEF Named, Mutators, Ready, Owned, ActiveServes, Changed
    <3> QED BY <3>2, <3>3, <3>4, <3>5, <3>6, <3>7, <3>8, <3>9 DEF IInv
  <2>2. CASE ~ (Live(previous))
    <3> USE <2>2
    <3>1. TypeOK'
      BY DEF Numbered
    <3>2. Numbered'
      BY DEF Numbered
    <3>3. Named'
      BY DEF Named
    <3>4. "write" \notin Fault => Mutators'
      BY DEF Named, Mutators, Ready, ActiveServes
    <3>5. "write" \notin Fault => Ready'
      BY DEF Named, Mutators, Ready, ActiveServes
    <3>6. "write" \notin Fault => ActiveServes'
      BY DEF Named, Mutators, Ready, ActiveServes
    <3>7. "write" \notin Fault /\ "early" \notin Fault => Current'
      BY DEF Named, Mutators, Current, MutatorCurrent
    <3>8. "write" \notin Fault /\ "quick" \notin Fault => Owned'
      BY DEF Named, Mutators, Ready, Owned, ActiveServes
    <3> QED BY <3>1, <3>2, <3>3, <3>4, <3>5, <3>6, <3>7, <3>8 DEF IInv
  <2> QED BY <2>1, <2>2
<1>7. CASE AbandonRoll
  <2> USE <1>7 DEF AbandonRoll
  <2>1. previous \in Worker /\ candidate \in Worker
    BY DEF Named
  <2>2. /\ worker[previous].generation + 1 \in Nat
        /\ worker[candidate].generation \in Nat
    BY <2>1, Fields
  <2>3. numbers' \in [revision : Nat, daemon : Nat] /\ record' \in Nat
    BY <2>2
  <2>4. TypeOK'
    BY <2>1, <2>3 DEF Numbered
  <2>5. Numbered' /\ Named'
    BY <2>1 DEF Numbered, Named
  <2> QED BY <2>4, <2>5 DEF IInv
<1> QED BY <1>3, <1>4, <1>5, <1>6, <1>7

\* The recovery from an exit.
LEMMA RecoverySteps ==
  ASSUME IInv, Recovery
  PROVE  IInv'
<1> USE WorkerAssumption
    DEF TypeOK, Worker, NoWorker, Live, Serving, Rolling, Replacing, Steps,
        Unused, Written, Fork, published
<1>1. TypeOK /\ Numbered /\ Named
  BY DEF IInv
<1>2. "write" \notin Fault =>
        /\ Mutators /\ Ready /\ ActiveServes
        /\ "early" \notin Fault => Current
        /\ "quick" \notin Fault => Owned
  BY DEF IInv
<1> USE <1>1, <1>2
<1>3. ASSUME NEW w \in Worker, IgnoreExit(w)
      PROVE  IInv'
  <2> USE <1>3 DEF IgnoreExit
  <2>1. TypeOK'
    BY DEF Numbered
  <2>2. Numbered'
    BY DEF Numbered
  <2>3. Named'
    BY DEF Named
  <2>4. "write" \notin Fault => Mutators'
    BY DEF Named, Mutators, Ready, ActiveServes
  <2>5. "write" \notin Fault => Ready'
    BY DEF Named, Mutators, Ready, ActiveServes
  <2>6. "write" \notin Fault => ActiveServes'
    BY DEF Named, Mutators, Ready, ActiveServes
  <2>7. "write" \notin Fault /\ "early" \notin Fault => Current'
    BY DEF Named, Mutators, Current, MutatorCurrent
  <2>8. "write" \notin Fault /\ "quick" \notin Fault => Owned'
    BY DEF Named, Mutators, Ready, Owned, ActiveServes
  <2> QED BY <2>1, <2>2, <2>3, <2>4, <2>5, <2>6, <2>7, <2>8 DEF IInv
<1>4. ASSUME NEW w \in Worker, Respawn(w)
      PROVE  IInv'
  <2> USE <1>4 DEF Respawn
  <2>1. active \in Worker /\ worker[active].generation \in Nat \ {0}
    BY Fields DEF Named, Numbered
  <2>2. Started(worker', w, "running", worker[active].generation)
    BY <2>1, BootedState
  <2>3. TypeOK'
    BY <2>1, <2>2 DEF Numbered, Started
  <2>4. Numbered'
    BY <2>1, <2>2 DEF Numbered, Started
  <2>5. Named'
    BY <2>1, <2>2 DEF Named, Started
  <2>6. "write" \notin Fault => Mutators'
    BY <2>1, <2>2 DEF Named, Mutators, Ready, ActiveServes, Started
  <2>7. "write" \notin Fault => Ready'
    BY <2>1, <2>2 DEF Named, Mutators, Ready, ActiveServes, Started
  <2>8. "write" \notin Fault => ActiveServes'
    BY <2>1, <2>2 DEF Named, Mutators, Ready, ActiveServes, Started
  <2>9. "write" \notin Fault /\ "early" \notin Fault => Current'
    BY <2>1, <2>2 DEF Named, Mutators, Current, MutatorCurrent, Started
  <2>10. "write" \notin Fault /\ "quick" \notin Fault => Owned'
    BY <2>1, <2>2 DEF Named, Mutators, Ready, Owned, ActiveServes, Started
  <2> QED BY <2>3, <2>4, <2>5, <2>6, <2>7, <2>8, <2>9, <2>10 DEF IInv
<1>5. CASE RestoreFallback
  <2> USE <1>5 DEF RestoreFallback
  <2>1. /\ numbers' \in [revision : Nat, daemon : Nat]
        /\ disk' \in Disk
        /\ record' \in Nat
    BY Fields DEF Disk
  <2>2. disk'.document = disk.document
    BY Fields DEF Disk
  <2>3. TypeOK'
    BY <2>1, <2>2 DEF Numbered
  <2>4. Numbered'
    BY <2>1, <2>2 DEF Numbered
  <2>5. Named'
    BY <2>1, <2>2 DEF Named
  <2>6. "write" \notin Fault => Mutators'
    BY <2>1, <2>2 DEF Named, Mutators, Ready, ActiveServes
  <2>7. "write" \notin Fault => Ready'
    BY <2>1, <2>2 DEF Named, Mutators, Ready, ActiveServes
  <2>8. "write" \notin Fault => ActiveServes'
    BY <2>1, <2>2 DEF Named, Mutators, Ready, ActiveServes
  <2>9. "write" \notin Fault /\ "early" \notin Fault => Current'
    BY <2>1, <2>2 DEF Named, Mutators, Current, MutatorCurrent
  <2>10. "write" \notin Fault /\ "quick" \notin Fault => Owned'
    BY <2>1, <2>2 DEF Named, Mutators, Ready, Owned, ActiveServes
  <2> QED BY <2>3, <2>4, <2>5, <2>6, <2>7, <2>8, <2>9, <2>10 DEF IInv
<1>6. CASE ResumeFallback
  <2> USE <1>6 DEF ResumeFallback
  <2>1. CASE Live(active)
    <3> USE <2>1
    <3>1. Changed(worker', active, "running")
      BY WithState
    <3>2. TypeOK'
      BY <3>1 DEF Numbered, Changed
    <3>3. Numbered'
      BY <3>1 DEF Numbered, Changed
    <3>4. Named'
      BY <3>1 DEF Named, Changed
    <3>5. "write" \notin Fault => Mutators'
      BY <3>1 DEF Named, Mutators, Ready, ActiveServes, Changed
    <3>6. "write" \notin Fault => Ready'
      BY <3>1 DEF Named, Mutators, Ready, ActiveServes, Changed
    <3>7. "write" \notin Fault => ActiveServes'
      BY <3>1 DEF Named, Mutators, Ready, ActiveServes, Changed
    <3>8. "write" \notin Fault /\ "early" \notin Fault => Current'
      BY <3>1 DEF Named, Mutators, Current, MutatorCurrent, Changed
    <3>9. "write" \notin Fault /\ "quick" \notin Fault => Owned'
      BY <3>1 DEF Named, Mutators, Ready, Owned, ActiveServes, Changed
    <3> QED BY <3>2, <3>3, <3>4, <3>5, <3>6, <3>7, <3>8, <3>9 DEF IInv
  <2>2. CASE ~ (Live(active))
    <3> USE <2>2
    <3>1. TypeOK'
      BY DEF Numbered
    <3>2. Numbered'
      BY DEF Numbered
    <3>3. Named'
      BY DEF Named
    <3>4. "write" \notin Fault => Mutators'
      BY DEF Named, Mutators, Ready, ActiveServes
    <3>5. "write" \notin Fault => Ready'
      BY DEF Named, Mutators, Ready, ActiveServes
    <3>6. "write" \notin Fault => ActiveServes'
      BY DEF Named, Mutators, Ready, ActiveServes
    <3>7. "write" \notin Fault /\ "early" \notin Fault => Current'
      BY DEF Named, Mutators, Current, MutatorCurrent
    <3>8. "write" \notin Fault /\ "quick" \notin Fault => Owned'
      BY DEF Named, Mutators, Ready, Owned, ActiveServes
    <3> QED BY <3>1, <3>2, <3>3, <3>4, <3>5, <3>6, <3>7, <3>8 DEF IInv
  <2> QED BY <2>1, <2>2
<1>7. CASE FailRespawn
  <2> USE <1>7 DEF FailRespawn
  <2>1. TypeOK'
    BY DEF Numbered
  <2>2. Numbered'
    BY DEF Numbered
  <2>3. Named'
    BY DEF Named
  <2>4. "write" \notin Fault => Mutators'
    BY DEF Named, Mutators, Ready, ActiveServes
  <2>5. "write" \notin Fault => Ready'
    BY DEF Named, Mutators, Ready, ActiveServes
  <2>6. "write" \notin Fault => ActiveServes'
    BY DEF Named, Mutators, Ready, ActiveServes
  <2>7. "write" \notin Fault /\ "early" \notin Fault => Current'
    BY DEF Named, Mutators, Current, MutatorCurrent
  <2>8. "write" \notin Fault /\ "quick" \notin Fault => Owned'
    BY DEF Named, Mutators, Ready, Owned, ActiveServes
  <2> QED BY <2>1, <2>2, <2>3, <2>4, <2>5, <2>6, <2>7, <2>8 DEF IInv
<1>8. CASE Republish
  <2> USE <1>8 DEF Republish
  <2>1. candidate \in Worker
    BY DEF Named
  <2>2. worker[candidate].generation \in Nat
    BY <2>1, Fields
  <2>3. TypeOK'
    BY <2>1, <2>2 DEF Numbered
  <2>4. Numbered'
    BY <2>1, <2>2 DEF Numbered
  <2>5. Named'
    BY <2>1, <2>2 DEF Named
  <2>6. "write" \notin Fault => Mutators'
    BY <2>1, <2>2 DEF Named, Mutators, Ready, ActiveServes
  <2>7. "write" \notin Fault => Ready'
    BY <2>1, <2>2 DEF Named, Mutators, Ready, ActiveServes
  <2>8. "write" \notin Fault => ActiveServes'
    BY <2>1, <2>2 DEF Named, Mutators, Ready, ActiveServes
  <2>9. "write" \notin Fault /\ "early" \notin Fault => Current'
    BY <2>1, <2>2 DEF Named, Mutators, Current, MutatorCurrent
  <2>10. "write" \notin Fault /\ "quick" \notin Fault => Owned'
    BY <2>1, <2>2 DEF Named, Mutators, Ready, Owned, ActiveServes
  <2> QED BY <2>3, <2>4, <2>5, <2>6, <2>7, <2>8, <2>9, <2>10 DEF IInv
<1> QED BY <1>3, <1>4, <1>5, <1>6, <1>7, <1>8 DEF Recovery

\* The end of a fallback window, and the end and start of the host.
LEMMA HostSteps ==
  ASSUME IInv, Stop \/ \E w \in Worker : RetireFallback(w) \/ Boot(w)
  PROVE  IInv'
<1> USE WorkerAssumption
    DEF TypeOK, Worker, NoWorker, Live, Serving, Rolling, Replacing, Steps,
        Unused, Written, Fork, published
<1>1. TypeOK /\ Numbered /\ Named
  BY DEF IInv
<1>2. "write" \notin Fault =>
        /\ Mutators /\ Ready /\ ActiveServes
        /\ "early" \notin Fault => Current
        /\ "quick" \notin Fault => Owned
  BY DEF IInv
<1> USE <1>1, <1>2
<1>3. CASE Stop
  <2> USE <1>3 DEF Stop
  <2>1. ASSUME NEW w \in Worker
         PROVE  /\ worker'[w] \in Process
                /\ worker'[w].state \notin Serving
                /\ worker'[w].state = "unused" <=> worker[w].state = "unused"
                /\ worker'[w].generation = worker[w].generation
    <3>1. worker[w] \in Process
      BY Fields
    <3>2. CASE Live(w)
      <4>1. worker'[w] = [worker[w] EXCEPT !.state = "closing"]
        BY <3>2
      <4> QED BY <3>1, <3>2, <4>1 DEF Process
    <3>3. CASE ~ Live(w)
      <4>1. worker'[w] = worker[w]
        BY <3>3
      <4> QED BY <3>1, <3>3, <4>1
    <3> QED BY <3>2, <3>3
  <2>2. worker' \in [Worker -> Process] /\ record' \in Nat
    BY <2>1
  <2>3. TypeOK'
    BY <2>1, <2>2 DEF Numbered
  <2>4. Numbered'
    BY <2>1, <2>2 DEF Numbered
  <2>5. Named'
    BY <2>1, <2>2 DEF Named
  <2>6. "write" \notin Fault => Mutators'
    BY <2>1, <2>2 DEF Named, Mutators, Ready, ActiveServes
  <2>7. "write" \notin Fault => Ready'
    BY <2>1, <2>2 DEF Named, Mutators, Ready, ActiveServes
  <2>8. "write" \notin Fault => ActiveServes'
    BY <2>1, <2>2 DEF Named, Mutators, Ready, ActiveServes
  <2>9. "write" \notin Fault /\ "early" \notin Fault => Current'
    BY <2>1, <2>2 DEF Named, Mutators, Current, MutatorCurrent
  <2>10. "write" \notin Fault /\ "quick" \notin Fault => Owned'
    BY <2>1, <2>2 DEF Named, Mutators, Ready, Owned, ActiveServes
  <2> QED BY <2>3, <2>4, <2>5, <2>6, <2>7, <2>8, <2>9, <2>10 DEF IInv
<1>4. ASSUME NEW w \in Worker, RetireFallback(w)
      PROVE  IInv'
  <2> USE <1>4 DEF RetireFallback
  <2>1. CASE fallback = w /\ Live(w)
    <3> USE <2>1
    <3>1. worker' = With(w, "closing")
      OBVIOUS
    <3>2. Changed(worker', w, "closing")
      BY <3>1, WithState
    <3>3. TypeOK'
      BY <3>1, <3>2 DEF Numbered, Changed
    <3>4. Numbered'
      BY <3>1, <3>2 DEF Numbered, Changed
    <3>5. Named'
      BY <3>1, <3>2 DEF Named, Changed
    <3>6. "write" \notin Fault => Mutators'
      BY <3>1, <3>2 DEF Named, Mutators, Ready, ActiveServes, Changed
    <3>7. "write" \notin Fault => Ready'
      BY <3>1, <3>2 DEF Named, Mutators, Ready, ActiveServes, Changed
    <3>8. "write" \notin Fault => ActiveServes'
      BY <3>1, <3>2 DEF Named, Mutators, Ready, ActiveServes, Changed
    <3>9. "write" \notin Fault /\ "early" \notin Fault => Current'
      BY <3>1, <3>2 DEF Named, Mutators, Current, MutatorCurrent, Changed
    <3>10. "write" \notin Fault /\ "quick" \notin Fault => Owned'
      BY <3>1, <3>2 DEF Named, Mutators, Ready, Owned, ActiveServes, Changed
    <3> QED BY <3>3, <3>4, <3>5, <3>6, <3>7, <3>8, <3>9, <3>10 DEF IInv
  <2>2. CASE ~ (fallback = w /\ Live(w))
    <3> USE <2>2
    <3>1. worker' = worker
      OBVIOUS
    <3>2. TypeOK'
      BY <3>1 DEF Numbered
    <3>3. Numbered'
      BY <3>1 DEF Numbered
    <3>4. Named'
      BY <3>1 DEF Named
    <3>5. "write" \notin Fault => Mutators'
      BY <3>1 DEF Named, Mutators, Ready, ActiveServes
    <3>6. "write" \notin Fault => Ready'
      BY <3>1 DEF Named, Mutators, Ready, ActiveServes
    <3>7. "write" \notin Fault => ActiveServes'
      BY <3>1 DEF Named, Mutators, Ready, ActiveServes
    <3>8. "write" \notin Fault /\ "early" \notin Fault => Current'
      BY <3>1 DEF Named, Mutators, Current, MutatorCurrent
    <3>9. "write" \notin Fault /\ "quick" \notin Fault => Owned'
      BY <3>1 DEF Named, Mutators, Ready, Owned, ActiveServes
    <3> QED BY <3>2, <3>3, <3>4, <3>5, <3>6, <3>7, <3>8, <3>9 DEF IInv
  <2> QED BY <2>1, <2>2
<1>5. ASSUME NEW w \in Worker, Boot(w)
      PROVE  IInv'
  <2> USE <1>5 DEF Boot
  <2>1. PICK known \in Nat :
              known = IF record > disk.daemon THEN record ELSE disk.daemon
    BY Fields
  <2>2. PICK g \in Nat \ {0} :
              /\ numbers' = [revision |-> disk.revision, daemon |-> g]
              /\ disk' = [disk EXCEPT !.daemon = g]
              /\ worker' = [worker EXCEPT ![w] =
                              [Booted("running", g) EXCEPT !.daemon = g]]
              /\ record' = g
    <3>1. known + 1 \in Nat \ {0}
      OBVIOUS
    <3> QED BY <2>1, <3>1
  <2>3. Started(worker', w, "running", g)
    <3>1. Started([worker EXCEPT ![w] =
                    [Booted("running", g) EXCEPT !.daemon = g]],
                  w, "running", g)
      BY FirstState
    <3> QED BY <2>2, <3>1
  <2>4. numbers' \in [revision : Nat, daemon : Nat]
    BY <2>2, Fields
  <2>5. disk' \in Disk /\ disk'.document = disk.document
    BY <2>2 DEF Disk
  <2>6. TypeOK'
    BY <2>1, <2>2, <2>3, <2>4, <2>5 DEF Numbered, Started
  <2>7. Numbered'
    BY <2>1, <2>2, <2>3, <2>4, <2>5 DEF Numbered, Started
  <2>8. Named'
    BY <2>1, <2>2, <2>3, <2>4, <2>5 DEF Named, Started
  <2>9. "write" \notin Fault => Mutators'
    BY <2>1, <2>2, <2>3, <2>4, <2>5
       DEF Named, Mutators, Ready, ActiveServes, Started
  <2>10. "write" \notin Fault => Ready'
    BY <2>1, <2>2, <2>3, <2>4, <2>5
       DEF Named, Mutators, Ready, ActiveServes, Started
  <2>11. "write" \notin Fault => ActiveServes'
    BY <2>1, <2>2, <2>3, <2>4, <2>5
       DEF Named, Mutators, Ready, ActiveServes, Started
  <2>12. "write" \notin Fault /\ "early" \notin Fault => Current'
    BY <2>1, <2>2, <2>3, <2>4, <2>5
       DEF Named, Mutators, Current, MutatorCurrent, Started
  <2>13. "write" \notin Fault /\ "quick" \notin Fault => Owned'
    BY <2>1, <2>2, <2>3, <2>4, <2>5
       DEF Named, Mutators, Ready, Owned, ActiveServes, Started
  <2> QED BY <2>6, <2>7, <2>8, <2>9, <2>10, <2>11, <2>12, <2>13 DEF IInv
<1> QED BY <1>3, <1>4, <1>5

\* IInv is inductive.
THEOREM Inductive == Spec => []IInv
<1>1. ASSUME IInv, [Next]_vars
      PROVE  IInv'
  <2>1. CASE Next
    BY <1>1, <2>1, WorkerSteps, RollSteps, RollbackSteps, RecoverySteps,
       HostSteps
    DEF Next, Roll
  <2>2. CASE UNCHANGED vars
    BY <1>1, <2>2
    DEF vars, IInv, TypeOK, Numbered, Live, Named, Mutators, Ready, Current,
        Owned, ActiveServes, MutatorCurrent, Unused
  <2> QED BY <1>1, <2>1, <2>2
<1> QED BY InitInv, <1>1, PTL DEF Spec

\* Every variable has its type, under every fault.
THEOREM TypeCorrect == Spec => []TypeOK
<1>1. IInv => TypeOK
  BY DEF IInv
<1> QED BY <1>1, Inductive, PTL

\* At most one worker accepts mutations, for any number of workers, rolls,
\* rollbacks and recoveries.
THEOREM SingleMutator == "write" \notin Fault => (Spec => []OneMutator)
<1> SUFFICES ASSUME "write" \notin Fault
             PROVE  Spec => []OneMutator
  OBVIOUS
<1>1. IInv => OneMutator
  BY DEF IInv, Mutators, OneMutator
<1> QED BY <1>1, Inductive, PTL

\* A roll that fails before its writes leaves the active worker serving and
\* named by the service record.
THEOREM Serves == "write" \notin Fault => (Spec => []ActiveServes)
<1> SUFFICES ASSUME "write" \notin Fault
             PROVE  Spec => []ActiveServes
  OBVIOUS
<1>1. IInv => ActiveServes
  BY DEF IInv
<1> QED BY <1>1, Inductive, PTL

\* The worker that accepts mutations has the document on disk, when no client
\* mutates before the replaced worker is let go.
THEOREM Builds ==
  "write" \notin Fault /\ "early" \notin Fault => (Spec => []MutatorCurrent)
<1> SUFFICES ASSUME "write" \notin Fault, "early" \notin Fault
             PROVE  Spec => []MutatorCurrent
  OBVIOUS
<1>1. IInv => MutatorCurrent
  BY DEF IInv, Current
<1> QED BY <1>1, Inductive, PTL

\* No worker keeps the ports unless the host still knows it, when no roll gets
\* to its commit within the fallback window of the one before.
THEOREM Adopted ==
  "write" \notin Fault /\ "quick" \notin Fault => (Spec => []NoOrphan)
<1> SUFFICES ASSUME "write" \notin Fault, "quick" \notin Fault
             PROVE  Spec => []NoOrphan
  OBVIOUS
<1>1. IInv => NoOrphan
  BY DEF IInv, Owned, NoOrphan, Named, Replacing, Live
<1> QED BY <1>1, Inductive, PTL

-----------------------------------------------------------------------------
(* Refinement of OneDaemon.                                                 *)

\* The abstract server is the worker that runs, if any.
LEMMA MutatorValue ==
  OneMutator =>
    /\ \A w \in Worker : worker[w].state = "running" =>
         Mutator = w /\ Loaded = worker[w].document
    /\ (\A w \in Worker : worker[w].state # "running") =>
         Mutator = NoWorker /\ Loaded = 0
<1> SUFFICES ASSUME OneMutator
             PROVE  /\ \A w \in Worker : worker[w].state = "running" =>
                         Mutator = w /\ Loaded = worker[w].document
                    /\ (\A w \in Worker : worker[w].state # "running") =>
                         Mutator = NoWorker /\ Loaded = 0
  OBVIOUS
<1>1. ASSUME NEW w \in Worker, worker[w].state = "running"
      PROVE  Mutator = w /\ Loaded = worker[w].document
  <2>1. Running = {w}
    BY <1>1 DEF OneMutator, Running
  <2>2. Mutator = w
    BY <2>1 DEF Mutator
  <2> QED BY <2>1, <2>2 DEF Loaded
<1>2. ASSUME \A w \in Worker : worker[w].state # "running"
      PROVE  Mutator = NoWorker /\ Loaded = 0
  BY <1>2 DEF Running, Mutator, Loaded
<1> QED BY <1>1, <1>2

\* Nobody starts to take mutations while somebody does.
LEMMA OneAfterAnother ==
  ASSUME IInv, "write" \notin Fault, [Next]_vars, NEW w \in Worker,
         worker[w].state # "running", worker'[w].state = "running"
  PROVE  \A v \in Worker : worker[v].state # "running"
<1> USE DEF IInv, TypeOK, With, Booted, Process
<1>1. ASSUME NEW v \in Worker, Mutate(v) \/ Crash(v) \/ Drained(v) PROVE FALSE
  BY <1>1 DEF Mutate, Crash, Drained
<1>2. CASE Pause
  BY <1>2 DEF Pause
<1>3. ASSUME NEW v \in Worker, SpawnCandidate(v) PROVE FALSE
  BY <1>3 DEF SpawnCandidate, Fork, Unused
<1>4. CASE Validate \/ PersistGeneration \/ Commit \/ FailRoll \/ AbandonRoll
           \/ Restore
  BY <1>4
  DEF Validate, PersistGeneration, Commit, FailRoll, AbandonRoll, Restore
<1>5. CASE ResumeCandidate
  BY <1>5 DEF ResumeCandidate, Mutators
<1>6. CASE CloseCandidate
  BY <1>6 DEF CloseCandidate, Live
<1>7. CASE ResumePrevious
  BY <1>7 DEF ResumePrevious, Mutators
<1>8. ASSUME NEW v \in Worker, IgnoreExit(v) \/ RetireFallback(v) PROVE FALSE
  BY <1>8 DEF IgnoreExit, RetireFallback, Live
<1>9. ASSUME NEW v \in Worker, Respawn(v)
      PROVE  \A u \in Worker : worker[u].state # "running"
  BY <1>9 DEF Respawn, Mutators, Named
<1>10. CASE RestoreFallback \/ FailRespawn \/ Republish
  BY <1>10 DEF RestoreFallback, FailRespawn, Republish
<1>11. CASE ResumeFallback
  BY <1>11 DEF ResumeFallback, Mutators
<1>12. CASE Stop
  BY <1>12 DEF Stop, Live
<1>13. ASSUME NEW v \in Worker, Boot(v)
       PROVE  \A u \in Worker : worker[u].state # "running"
  BY <1>13 DEF Boot, Mutators
<1>14. CASE UNCHANGED vars
  BY <1>14 DEF vars
<1> HIDE DEF IInv, TypeOK, With, Booted, Process
<1> QED
  BY <1>1, <1>2, <1>3, <1>4, <1>5, <1>6, <1>7, <1>8, <1>9, <1>10, <1>11, <1>12,
     <1>13, <1>14
  DEF Next, Roll, Recovery

\* Only a mutation writes the document.
LEMMA DocumentKept ==
  ASSUME TypeOK, [Next]_vars, \A w \in Worker : ~ Mutate(w)
  PROVE  disk'.document = disk.document
BY DEF TypeOK, Disk, Next, vars, Crash, Drained, Pause, Roll, SpawnCandidate,
       Validate, ResumeCandidate, PersistGeneration, Written, Commit, FailRoll,
       AbandonRoll, CloseCandidate, Restore, ResumePrevious, RetireFallback,
       Recovery, IgnoreExit, RestoreFallback, ResumeFallback, Respawn,
       FailRespawn, Republish, Stop, Boot

\* When the writes of a roll succeed and no client mutates before the replaced
\* worker is let go, host and workers together are one daemon to clients.
THEOREM OneToClients ==
  "write" \notin Fault /\ "early" \notin Fault => (Spec => ActsAsOne)
<1> SUFFICES ASSUME "write" \notin Fault, "early" \notin Fault
             PROVE  Spec => ActsAsOne
  OBVIOUS
<1> DEFINE Agreed == OneMutator /\ MutatorCurrent
<1>1. Init => Abstract!Init
  <2> SUFFICES ASSUME Init PROVE Abstract!Init
    OBVIOUS
  <2>1. \A w \in Worker : worker[w].state # "running"
    BY DEF Init, Booted
  <2> QED
    BY <2>1, MutatorValue DEF Init, OneMutator, Abstract!Init
<1>2. IInv => Agreed
  BY DEF IInv, Mutators, OneMutator, Current
<1>3. IInv /\ Agreed /\ Agreed' /\ [Next]_vars =>
        [Abstract!Next]_(Abstract!vars)
  <2> SUFFICES ASSUME IInv, Agreed, Agreed', [Next]_vars
               PROVE  Abstract!Next \/ UNCHANGED Abstract!vars
    OBVIOUS
  <2>1. /\ \A w \in Worker : worker'[w].state = "running" =>
             Mutator' = w /\ Loaded' = worker'[w].document
        /\ (\A w \in Worker : worker'[w].state # "running") =>
             Mutator' = NoWorker /\ Loaded' = 0
    <3>1. (OneMutator =>
             /\ \A w \in Worker : worker[w].state = "running" =>
                  Mutator = w /\ Loaded = worker[w].document
             /\ (\A w \in Worker : worker[w].state # "running") =>
                  Mutator = NoWorker /\ Loaded = 0)'
      BY MutatorValue, PTL
    <3> QED BY <3>1
  <2>2. /\ \A w \in Worker : worker[w].state = "running" =>
             /\ Mutator = w
             /\ Loaded = disk.document
        /\ \A w \in Worker : worker'[w].state = "running" =>
             /\ Mutator' = w
             /\ Loaded' = disk'.document
    BY <2>1, MutatorValue DEF MutatorCurrent
  <2>3. disk.document \in Nat /\ NoWorker \notin Worker
    BY DEF IInv, TypeOK, Disk, NoWorker, Worker
  <2> USE DEF Abstract!Next, Abstract!Mutate, Abstract!TakeOver, Abstract!LetGo,
              Abstract!vars
  <2>4. ASSUME NEW w \in Worker, Mutate(w) PROVE Abstract!Mutate
    <3>1. /\ worker[w].state = "running" /\ worker'[w].state = "running"
          /\ disk'.document = disk.document + 1
      BY <2>4 DEF Mutate, IInv, TypeOK, Process
    <3> QED BY <2>2, <2>3, <3>1
  <2>5. CASE \A w \in Worker : ~ Mutate(w)
    <3>1. disk'.document = disk.document
      BY <2>5, DocumentKept DEF IInv
    <3>2. CASE \E w \in Worker : worker'[w].state = "running"
      <4>1. PICK w \in Worker : worker'[w].state = "running"
        BY <3>2
      <4>2. CASE worker[w].state = "running"
        BY <2>2, <3>1, <4>1, <4>2
      <4>3. CASE worker[w].state # "running"
        <5>1. \A v \in Worker : worker[v].state # "running"
          BY <4>1, <4>3, OneAfterAnother
        <5>2. Mutator = NoWorker
          BY <5>1, MutatorValue
        <5>3. Abstract!TakeOver(w)
          BY <2>2, <3>1, <4>1, <5>2
        <5> QED BY <5>3
      <4> QED BY <4>2, <4>3
    <3>3. CASE \A w \in Worker : worker'[w].state # "running"
      <4>1. Mutator' = NoWorker /\ Loaded' = 0
        BY <2>1, <3>3
      <4>2. CASE \E w \in Worker : worker[w].state = "running"
        BY <2>2, <2>3, <3>1, <4>1, <4>2
      <4>3. CASE \A w \in Worker : worker[w].state # "running"
        BY <3>1, <4>1, <4>3, MutatorValue
      <4> QED BY <4>2, <4>3
    <3> QED BY <3>2, <3>3
  <2> QED BY <2>4, <2>5
<1> QED
  BY Inductive, <1>1, <1>2, <1>3, PTL DEF Spec, ActsAsOne, Abstract!Spec

-----------------------------------------------------------------------------
(* Writes that throw.                                                       *)

\* As long as workers do not die, the active worker is up, a roll keeps it
\* paused, and one that is given up after the candidate was resumed leaves that
\* candidate running.
Awake ==
  /\ ~ down /\ pc \notin {"takeover", "republish"}
  /\ pc # "off" => Live(active)
  /\ pc \in Rolling => worker[active].state = "paused"
  /\ pc \in {"persist", "commit"} => worker[candidate].state = "running"
  /\ fallback # NoWorker => worker[fallback].state = "paused"
  /\ MutationsServed

\* A step of a host whose workers do not die keeps it so.
LEMMA AwakeSteps ==
  ASSUME IInv, IInv', Awake, "crash" \notin Fault, [Next]_vars
  PROVE  Awake'
<1> USE DEF TypeOK, NoWorker, Live, Serving, Rolling, Replacing, Unused, Fork,
            published, Awake, MutationsServed, Named
<1>1. TypeOK /\ Named /\ Named'
  BY DEF IInv
<1> USE <1>1
<1>2. ASSUME NEW w \in Worker, Mutate(w) PROVE Awake'
  <2>1. \A v \in Worker : worker'[v].state = worker[v].state
    BY <1>2, Fields DEF Mutate, Process
  <2> QED BY <1>2, <2>1 DEF Mutate
<1>3. ASSUME NEW w \in Worker, Drained(w) PROVE Awake'
  <2>1. Changed(worker', w, "dead")
    BY <1>3, WithState DEF Drained
  <2> QED BY <1>3, <2>1 DEF Drained, Changed
<1>4. CASE Pause
  <2>1. active \in Worker /\ Changed(worker', active, "paused")
    BY <1>4, WithState DEF Pause
  <2> QED BY <1>4, <2>1 DEF Pause, Changed
<1>5. ASSUME NEW w \in Worker, SpawnCandidate(w) PROVE Awake'
  <2>0. pc = "spawn" /\ worker[w].state = "unused"
    BY <1>5 DEF SpawnCandidate
  <2>1. previous = active /\ active \in Worker
    BY <2>0
  <2>a. w # active /\ w # fallback
    BY <2>0, WorkerAssumption DEF Worker
  <2>2. worker[previous].generation + 1 \in Nat
    BY <2>1, Fields
  <2>3. Started(worker', w, "paused", worker[previous].generation + 1)
    BY <1>5, <2>2, BootedState DEF SpawnCandidate
  <2> QED BY <1>5, <2>1, <2>a, <2>3 DEF SpawnCandidate, Started
<1>6. CASE Validate \/ FailRoll
  BY <1>6 DEF Validate, FailRoll
<1>7. CASE ResumeCandidate
  <2>1. CASE Live(candidate)
    <3>1. candidate \in Worker /\ Changed(worker', candidate, "running")
      BY <1>7, <2>1, WithState DEF ResumeCandidate
    <3> QED BY <1>7, <2>1, <3>1 DEF ResumeCandidate, Changed
  <2>2. CASE ~ Live(candidate)
    BY <1>7, <2>2 DEF ResumeCandidate
  <2> QED BY <2>1, <2>2
<1>8. CASE PersistGeneration
  BY <1>8 DEF PersistGeneration
<1>9. CASE Commit
  BY <1>9 DEF Commit
<1>10. CASE AbandonRoll
  BY <1>10 DEF AbandonRoll
<1>11. CASE CloseCandidate
  <2>1. CASE Live(candidate)
    <3>1. candidate \in Worker /\ Changed(worker', candidate, "closing")
      BY <1>11, <2>1, WithState DEF CloseCandidate
    <3> QED BY <1>11, <2>1, <3>1 DEF CloseCandidate, Changed
  <2>2. CASE ~ Live(candidate)
    BY <1>11, <2>2 DEF CloseCandidate
  <2> QED BY <2>1, <2>2
<1>12. CASE Restore
  BY <1>12 DEF Restore
<1>13. CASE ResumePrevious
  <2>1. previous = active /\ Live(active) /\ active \in Worker
    BY <1>13 DEF ResumePrevious
  <2>2. Changed(worker', active, "running")
    BY <1>13, <2>1, WithState DEF ResumePrevious
  <2> QED BY <1>13, <2>1, <2>2 DEF ResumePrevious, Changed
<1>14. ASSUME NEW w \in Worker, IgnoreExit(w) PROVE Awake'
  BY <1>14 DEF IgnoreExit
<1>15. ~ RestoreFallback /\ ~ FailRespawn /\ \A w \in Worker : ~ Respawn(w)
  BY DEF RestoreFallback, FailRespawn, Respawn
<1>16. ~ ResumeFallback /\ ~ Republish /\ \A w \in Worker : ~ Crash(w)
  BY DEF ResumeFallback, Republish, Crash
<1>17. ASSUME NEW w \in Worker, RetireFallback(w) PROVE Awake'
  <2>1. CASE fallback = w /\ Live(w)
    <3>1. Changed(worker', w, "closing")
      BY <1>17, <2>1, WithState DEF RetireFallback
    <3> QED BY <1>17, <2>1, <3>1 DEF RetireFallback, Changed
  <2>2. CASE ~ (fallback = w /\ Live(w))
    BY <1>17, <2>2 DEF RetireFallback
  <2> QED BY <2>1, <2>2
<1>18. CASE Stop
  BY <1>18 DEF Stop
<1>19. ASSUME NEW w \in Worker, Boot(w) PROVE Awake'
  <2>1. /\ worker'[w].state = "running"
        /\ active' = w /\ pc' = "idle" /\ down' = down
        /\ fallback' = fallback
        /\ \A v \in Worker : v # w => worker'[v] = worker[v]
    BY <1>19 DEF Boot, Booted
  <2>2. fallback # w
    BY <1>19 DEF Boot
  <2> QED BY <1>19, <2>1, <2>2
<1>20. CASE UNCHANGED vars
  BY <1>20 DEF vars
<1> QED
  BY <1>2, <1>3, <1>4, <1>5, <1>6, <1>7, <1>8, <1>9, <1>10, <1>11, <1>12,
     <1>13, <1>14, <1>15, <1>16, <1>17, <1>18, <1>19, <1>20
  DEF Next, Roll, Recovery

\* No roll, whichever of its writes throws and however early the next one
\* starts, leaves all workers paused, as long as workers do not die.
THEOREM Served == "crash" \notin Fault => (Spec => []MutationsServed)
<1> SUFFICES ASSUME "crash" \notin Fault
             PROVE  Spec => []MutationsServed
  OBVIOUS
<1>1. Init => Awake
  BY DEF Init, Awake, MutationsServed, Rolling, NoWorker
<1>2. IInv /\ IInv' /\ Awake /\ [Next]_vars => Awake'
  BY AwakeSteps
<1>3. Awake => MutationsServed
  BY DEF Awake
<1> QED BY Inductive, <1>1, <1>2, <1>3, PTL DEF Spec
=============================================================================
