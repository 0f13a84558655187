------------------------- MODULE MutationQueueProofs ------------------------
(***************************************************************************)
(* The safety properties of MutationQueue, for any set of mutations.        *)
(*                                                                         *)
(* They hold when a client that gives up while its mutation waits does not  *)
(* interrupt the wait ("Undisturbed"); without that assumption TLC refutes  *)
(* Serialized, see mutation_queue_disconnect.cfg.                           *)
(*                                                                         *)
(* The argument: the completed Deferreds are an initial segment of the ones *)
(* made, every mutation under way holds one of its own beyond that segment, *)
(* and the tail cannot move once somebody waits for it.                     *)
(***************************************************************************)
EXTENDS MutationQueue, TLAPS

\* A client's disconnect never interrupts the wait for the tail.
Undisturbed == Interruptible \subseteq {"running"}

\* A Deferred is completed only after the one before it.
Segment == \A i \in settled : \A j \in 0 .. i : j \in settled

\* A mutation under way holds an open Deferred, a running one the first of them.
Tickets ==
  /\ \A m \in Busy : ticket[m] \in 1 .. tail /\ ticket[m] \notin settled
  /\ \A m \in Mutation : stage[m] = "running" => ticket[m] - 1 \in settled
  /\ \A m, n \in Busy : ticket[m] = ticket[n] => m = n

\* Nobody waits for a tail that can still move.
Frozen ==
  /\ loop # "idle" => lifecycle # "running"
  /\ loop \in {"pause", "retire", "close"} => awaited["loop"] = tail
  /\ shutdown # "no" => lifecycle \in {"quiescing", "draining"}
  /\ shutdown = "wait" => awaited["shutdown"] = tail

IInv ==
  /\ TypeOK
  /\ 0 \in settled
  /\ Segment
  /\ Tickets
  /\ Frozen
  /\ SnapshotStable
  /\ QuietBeforeDrain

\* What the queue keeps is well typed, wherever clients disconnect.
THEOREM TypeCorrect == Spec => []TypeOK
<1>1. Init => TypeOK
  BY DEF Init, TypeOK, Stages, Loops
<1>2. TypeOK /\ [Next]_vars => TypeOK'
  <2> SUFFICES ASSUME TypeOK, [Next]_vars PROVE TypeOK'
    OBVIOUS
  <2> USE DEF TypeOK, Stages, Loops, queue
  <2>1. ASSUME NEW m \in Mutation, Progress(m) \/ Interrupt(m) PROVE TypeOK'
    <3>1. CASE Admit(m)
      BY <3>1 DEF Admit
    <3>2. CASE Serialize(m) /\ lifecycle = "running"
      BY <3>2 DEF Serialize
    <3>3. CASE Serialize(m) /\ lifecycle # "running"
      BY <3>3 DEF Serialize
    <3>4. CASE Run(m)
      BY <3>4 DEF Run
    <3>5. CASE Finish(m) \/ Interrupt(m)
      <4>1. /\ stage' = [stage EXCEPT ![m] = "done"]
            /\ settled' = settled \cup {ticket[m]}
            /\ revision' \in {revision, revision + 1}
            /\ UNCHANGED <<lifecycle, tail, ticket, loop, shutdown, awaited, snapshot>>
        BY <3>5 DEF Finish, Interrupt
      <4>2. ticket[m] \in 0 .. tail
        OBVIOUS
      <4>3. stage' \in [Mutation -> Stages] /\ revision' \in Nat
        BY <4>1
      <4>4. settled' \subseteq 0 .. tail'
        BY <4>1, <4>2
      <4> QED BY <4>1, <4>3, <4>4
    <3> QED BY <2>1, <3>1, <3>2, <3>3, <3>4, <3>5 DEF Progress
  <2>2. CASE Waiter
    BY <2>2 DEF Waiter, Paused, Drain, RequestShutdown
  <2>3. CASE PauseRefused \/ Resume
    BY <2>3 DEF PauseRefused, Resume
  <2>4. CASE Pause
    BY <2>4 DEF Pause
  <2>5. CASE Retire
    BY <2>5 DEF Retire, BeginRetire
  <2>6. CASE Close
    BY <2>6 DEF Close, BeginShutdown
  <2>7. CASE PrepareShutdown
    BY <2>7 DEF PrepareShutdown
  <2>8. CASE UNCHANGED vars
    BY <2>8 DEF vars
  <2> QED
    BY <2>1, <2>2, <2>3, <2>4, <2>5, <2>6, <2>7, <2>8 DEF Next
<1> QED BY <1>1, <1>2, PTL DEF Spec

\* Once the tail is complete no mutation is under way.
LEMMA TailSettled ==
  ASSUME TypeOK, Segment, Tickets, tail \in settled
  PROVE  Busy = {}
  BY DEF TypeOK, Segment, Tickets, Busy

\* The steps of a mutation.
LEMMA MutationSteps ==
  ASSUME IInv, NEW m \in Mutation, Undisturbed, Progress(m) \/ Interrupt(m)
  PROVE  IInv'
<1> USE DEF TypeOK, Stages, Loops, Busy
<1>1. CASE Admit(m)
  BY <1>1 DEF Admit, IInv, Segment, Tickets, Frozen, SnapshotStable,
     QuietBeforeDrain
<1>2. CASE Serialize(m) /\ lifecycle = "running"
  <2> USE <1>2 DEF Serialize
  <2>1. TypeOK' /\ Segment' /\ (0 \in settled)' /\ Frozen'
    BY DEF IInv, Segment, Frozen
  <2>2. \A n \in Mutation :
          /\ n # m => stage'[n] = stage[n] /\ ticket'[n] = ticket[n]
          /\ stage'[m] = "waiting" /\ ticket'[m] = tail + 1
    BY DEF IInv
  <2>3. Tickets'
    BY <2>2 DEF IInv, Tickets
  <2>4. SnapshotStable' /\ QuietBeforeDrain'
    BY DEF IInv, SnapshotStable, QuietBeforeDrain, Frozen
  <2> QED BY <2>1, <2>3, <2>4 DEF IInv
<1>3. CASE Serialize(m) /\ lifecycle # "running"
  BY <1>3 DEF Serialize, IInv, Segment, Tickets, Frozen, SnapshotStable,
     QuietBeforeDrain
<1>4. CASE Run(m)
  BY <1>4 DEF Run, IInv, Segment, Tickets, Frozen, SnapshotStable,
     QuietBeforeDrain
<1>5. CASE Finish(m) \/ Interrupt(m)
  <2>1. /\ stage[m] = "running"
        /\ stage' = [stage EXCEPT ![m] = "done"]
        /\ settled' = settled \cup {ticket[m]}
        /\ revision' \in {revision, revision + 1}
        /\ UNCHANGED <<lifecycle, tail, ticket, loop, shutdown, awaited, snapshot>>
    BY <1>5 DEF Finish, Interrupt, Undisturbed
  <2>2. m \in Busy /\ Busy' = Busy \ {m}
    BY <2>1 DEF IInv
  <2>3. TypeOK'
    <3>1. ticket[m] \in 0 .. tail /\ revision' \in Nat
      BY <2>1 DEF IInv
    <3> QED BY <2>1, <3>1 DEF IInv
  <2>4. (0 \in settled)' /\ Frozen'
    BY <2>1 DEF IInv, Frozen
  <2>5. Segment'
    <3>1. \A j \in 0 .. ticket[m] : j \in settled'
      <4>1. ticket[m] - 1 \in settled /\ ticket[m] \in Nat
        BY <2>1 DEF IInv, Tickets
      <4> QED BY <2>1, <4>1 DEF IInv, Segment
    <3> QED BY <3>1, <2>1 DEF IInv, Segment
  <2>6. Tickets'
    BY <2>1, <2>2 DEF IInv, Tickets
  <2>7. SnapshotStable' /\ QuietBeforeDrain'
    BY <2>1, <2>2 DEF IInv, SnapshotStable, QuietBeforeDrain
  <2> QED BY <2>3, <2>4, <2>5, <2>6, <2>7 DEF IInv
<1> QED BY <1>1, <1>2, <1>3, <1>4, <1>5 DEF Progress

\* The steps of the request loop and of daemon.prepareShutdown.
LEMMA LoopSteps ==
  ASSUME IInv,
         \/ Waiter \/ Pause \/ PauseRefused \/ Resume
         \/ Retire \/ Close \/ PrepareShutdown
  PROVE  IInv'
<1> USE DEF IInv, TypeOK, Stages, Loops, Segment, Tickets, Frozen, queue
<1>1. CASE Paused
  <2>1. loop = "pause" /\ awaited["loop"] = tail /\ tail \in settled
    BY <1>1 DEF Paused
  <2>2. Busy = {}
    BY <2>1, TailSettled
  <2>3. Busy' = Busy
    BY <1>1 DEF Paused, Busy
  <2> QED BY <1>1, <2>2, <2>3 DEF Paused, SnapshotStable, QuietBeforeDrain, Busy
<1>2. CASE Drain
  <2>1. awaited["loop"] = tail /\ tail \in settled
    BY <1>2 DEF Drain
  <2>2. Busy = {}
    BY <2>1, TailSettled
  <2>3. Busy' = Busy
    BY <1>2 DEF Drain, Busy
  <2> QED BY <1>2, <2>2, <2>3 DEF Drain, SnapshotStable, QuietBeforeDrain, Busy
<1>3. CASE RequestShutdown
  <2>1. awaited["shutdown"] = tail /\ tail \in settled
    BY <1>3 DEF RequestShutdown
  <2>2. Busy = {}
    BY <2>1, TailSettled
  <2>3. Busy' = Busy
    BY <1>3 DEF RequestShutdown, Busy
  <2> QED BY <1>3, <2>2, <2>3
          DEF RequestShutdown, SnapshotStable, QuietBeforeDrain, Busy
<1> USE DEF Busy, SnapshotStable, QuietBeforeDrain
<1>4. CASE Pause
  BY <1>4 DEF Pause
<1>5. CASE Resume
  BY <1>5 DEF Resume
<1>6. CASE Retire
  BY <1>6 DEF Retire, BeginRetire
<1>7. CASE Close
  BY <1>7 DEF Close, BeginShutdown
<1>8. CASE PrepareShutdown
  BY <1>8 DEF PrepareShutdown
<1>9. CASE PauseRefused
  BY <1>9 DEF PauseRefused
<1> QED BY <1>1, <1>2, <1>3, <1>4, <1>5, <1>6, <1>7, <1>8, <1>9 DEF Waiter

\* The strengthened invariant holds in every reachable state.
THEOREM Inductive ==
  ASSUME Undisturbed
  PROVE  Spec => []IInv
<1>1. Init => IInv
  BY DEF Init, IInv, TypeOK, Stages, Loops, Segment, Tickets, Frozen, Busy,
     SnapshotStable, QuietBeforeDrain
<1>2. IInv /\ [Next]_vars => IInv'
  <2> SUFFICES ASSUME IInv, [Next]_vars PROVE IInv'
    OBVIOUS
  <2>1. ASSUME NEW m \in Mutation, Progress(m) \/ Interrupt(m) PROVE IInv'
    BY <2>1, MutationSteps
  <2>2. CASE UNCHANGED vars
    BY <2>2 DEF vars, IInv, TypeOK, Segment, Tickets, Frozen, Busy,
       SnapshotStable, QuietBeforeDrain
  <2>3. CASE \/ Waiter \/ Pause \/ PauseRefused \/ Resume
             \/ Retire \/ Close \/ PrepareShutdown
    BY <2>3, LoopSteps
  <2> QED BY <2>1, <2>2, <2>3 DEF Next
<1> QED BY <1>1, <1>2, PTL DEF Spec

\* Mutations never overlap and never overtake each other.
THEOREM Serial ==
  ASSUME Undisturbed
  PROVE  Spec => []Serialized
<1>1. IInv => Serialized
  <2> SUFFICES ASSUME IInv, NEW m \in Mutation, NEW n \in Busy,
                      stage[m] = "running", n # m
               PROVE  ticket[m] < ticket[n]
    BY DEF Serialized, Busy
  <2>1. m \in Busy
    BY DEF Busy
  <2>2. ticket[m] - 1 \in settled /\ ticket[n] \notin settled
    BY DEF IInv, Tickets
  <2>3. ticket[n] \notin 0 .. (ticket[m] - 1)
    BY <2>2 DEF IInv, Segment
  <2>4. ticket[m] \in Nat /\ ticket[n] \in Nat /\ ticket[m] # ticket[n]
    BY <2>1 DEF IInv, Tickets, TypeOK
  <2> QED BY <2>3, <2>4
<1> QED BY <1>1, Inductive, PTL

\* What worker.pause answered stays true while the worker is paused.
THEOREM Stable ==
  ASSUME Undisturbed
  PROVE  Spec => []SnapshotStable
<1>1. IInv => SnapshotStable
  BY DEF IInv
<1> QED BY <1>1, Inductive, PTL

\* A worker drains, and asks for its shutdown, only when no mutation is left.
THEOREM Quiet ==
  ASSUME Undisturbed
  PROVE  Spec => []QuietBeforeDrain
<1>1. IInv => QuietBeforeDrain
  BY DEF IInv
<1> QED BY <1>1, Inductive, PTL
=============================================================================
