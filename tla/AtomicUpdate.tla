---------------------------- MODULE AtomicUpdate ----------------------------
(***************************************************************************)
(* What the daemon promises about one account mutation: its durable effect  *)
(* appears all at once or not at all, and a mutation that was answered with *)
(* success is in the store.  Requests are served one at a time.             *)
(*                                                                         *)
(* AccountTransaction implements this specification with several files, a   *)
(* rollback vault and a crash recovery; the refinement mapping is there.    *)
(***************************************************************************)
CONSTANT Store              \* the states of the durable store

VARIABLES
  store,                    \* what a restart of the daemon would start from
  phase,                    \* "none": no request; "open"; "done": in the store
  goal                      \* the store the open request asks for

vars == <<store, phase, goal>>

TypeOK ==
  /\ store \in Store
  /\ phase \in {"none", "open", "done"}
  /\ goal \in Store

Init == TypeOK /\ phase = "none"

\* A request states the whole store it wants.
Begin ==
  /\ phase = "none"
  /\ phase' = "open"
  /\ goal' \in Store
  /\ UNCHANGED store

\* The only step that changes the store.
Commit ==
  /\ phase = "open"
  /\ phase' = "done"
  /\ store' = goal
  /\ UNCHANGED goal

\* A request that fails leaves the store as it was.
Abort ==
  /\ phase = "open"
  /\ phase' = "none"
  /\ goal' \in Store
  /\ UNCHANGED store

\* The answer, or a crash of the daemon after the commit point.
Finish ==
  /\ phase = "done"
  /\ phase' = "none"
  /\ goal' \in Store
  /\ UNCHANGED store

Next == Begin \/ Commit \/ Abort \/ Finish

Spec == Init /\ [][Next]_vars
=============================================================================
