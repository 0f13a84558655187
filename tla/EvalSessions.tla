----------------------------- MODULE EvalSessions -----------------------------
(***************************************************************************)
(* The credentials that the daemon hands out for evaluations (daemon/src/   *)
(* services/eval-session/service.ts, EvalSessionManager).  A session lets a  *)
(* bounded number of model calls through, with bounded tokens, for a bounded *)
(* time; its operations are synchronous, so each is one step of the          *)
(* operation that calls it.  Which models it may name is left out: a request *)
(* that names another is refused like one with a body that does not parse.   *)
(***************************************************************************)
EXTENDS Integers

CONSTANTS
  Session,
  Limit             \* what each session may have, a record: Limits

Limits == [calls : Nat, input : Nat, output : Nat, perCall : Nat]

ASSUME LimitAssumption == Limit \in [Session -> Limits]

VARIABLES
  state,            \* closed, and whether it was opened at all
  credential,       \* its token is in the index by digests
  expired,          \* the clock is past its expiry
  calls, input, output   \* what was admitted so far

sessions == <<state, credential, expired, calls, input, output>>

SessionsTypeOK ==
  /\ state \in [Session -> {"none", "open", "closed"}]
  /\ credential \in [Session -> BOOLEAN]
  /\ expired \in [Session -> BOOLEAN]
  /\ calls \in [Session -> Nat]
  /\ input \in [Session -> Nat]
  /\ output \in [Session -> Nat]

SessionsInit ==
  /\ state = [s \in Session |-> "none"]
  /\ credential = [s \in Session |-> FALSE]
  /\ expired = [s \in Session |-> FALSE]
  /\ calls = [s \in Session |-> 0]
  /\ input = [s \in Session |-> 0]
  /\ output = [s \in Session |-> 0]

Shut(s) ==
  /\ state' = [state EXCEPT ![s] = "closed"]
  /\ credential' = [credential EXCEPT ![s] = FALSE]

\* open
Open(s) ==
  /\ state[s] = "none"
  /\ state' = [state EXCEPT ![s] = "open"]
  /\ credential' = [credential EXCEPT ![s] = TRUE]
  /\ UNCHANGED <<expired, calls, input, output>>

\* close
Close(s) ==
  /\ state[s] = "open"
  /\ Shut(s)
  /\ UNCHANGED <<expired, calls, input, output>>

\* closeAll, when the daemon is disposed of
CloseAll ==
  /\ state' = [s \in Session |-> IF state[s] = "open" THEN "closed" ELSE state[s]]
  /\ credential' = [s \in Session |-> FALSE]
  /\ UNCHANGED <<expired, calls, input, output>>

\* Nobody is told that a session expires: the next to look at it closes it.
Expire(s) ==
  /\ state[s] = "open" /\ ~ expired[s]
  /\ expired' = [expired EXCEPT ![s] = TRUE]
  /\ UNCHANGED <<state, credential, calls, input, output>>

\* resolve: the principal of a credential, unless it is over.
Resolves(s) == credential[s] /\ state[s] = "open" /\ ~ expired[s]

Unresolved(s) ==
  /\ ~ Resolves(s)
  /\ IF credential[s] THEN Shut(s) ELSE UNCHANGED <<state, credential>>
  /\ UNCHANGED <<expired, calls, input, output>>

\* Faulty: what was resolved is trusted.
AdmissibleOnce(s, i, o) ==
  /\ calls[s] < Limit[s].calls
  /\ input[s] + i <= Limit[s].input
  /\ o <= Limit[s].perCall
  /\ output[s] + o <= Limit[s].output

\* #admit: every limit is looked at again when the body is there, as sessions
\* close and expire, and others of the session are admitted, while it is read.
Admissible(s, i, o) ==
  /\ state[s] = "open" /\ ~ expired[s]
  /\ calls[s] < Limit[s].calls
  /\ input[s] + i <= Limit[s].input
  /\ o <= Limit[s].perCall
  /\ output[s] + o <= Limit[s].output

\* Faulty: output is not reserved.
ChargeInput(s, i, o) ==
  /\ calls' = [calls EXCEPT ![s] = @ + 1]
  /\ input' = [input EXCEPT ![s] = @ + i]
  /\ UNCHANGED <<state, credential, expired, output>>

Charge(s, i, o) ==
  /\ calls' = [calls EXCEPT ![s] = @ + 1]
  /\ input' = [input EXCEPT ![s] = @ + i]
  /\ output' = [output EXCEPT ![s] = @ + o]
  /\ UNCHANGED <<state, credential, expired>>

\* An expired session is closed when it is asked to admit a call.
Refuse(s) ==
  /\ IF state[s] = "open" /\ expired[s] THEN Shut(s) ELSE UNCHANGED <<state, credential>>
  /\ UNCHANGED <<expired, calls, input, output>>
=============================================================================
