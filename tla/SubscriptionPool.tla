--------------------------- MODULE SubscriptionPool ---------------------------
(***************************************************************************)
(* Requests that share the subscription accounts of one provider: how a     *)
(* request picks an account (subscription-pool-selection.ts), what it makes *)
(* of the answer (subscription-request-executor.ts), and how a credential   *)
(* that upstream denied is refreshed once for everybody and tried out by    *)
(* one request (account-set.ts, auth-health.ts).                            *)
(*                                                                         *)
(* Each step is what runs between two yields.  A credential is the number   *)
(* of its fingerprint: the file and the coordinator count up when it is     *)
(* replaced.  Quotas and models are abstracted to cooling, which strategy   *)
(* chooses among eligible accounts is left open, and a claim is named by    *)
(* the request that has it: a request has one at a time.  What is persisted *)
(* of the coordinator is AccountTransaction's.                              *)
(***************************************************************************)
EXTENDS Integers, FiniteSets

CONSTANTS
  Member,           \* the accounts
  Request,
  MaxPrint,         \* bound on how often a credential is replaced
  Replaced,         \* the same for each account
  None,
  Fault             \* what may happen besides, a subset of Faults

\* abort: a client goes away.  network: an attempt gets no answer.  relogin: an
\* operator replaces a credential.
Faults == {"abort", "network", "relogin"}
Fingerprint == 0..MaxPrint

ASSUME NoneAssumption == None \notin Request \cup Member
ASSUME FiniteAssumption == IsFiniteSet(Member) /\ IsFiniteSet(Request)
ASSUME PrintAssumption == MaxPrint \in Nat
ASSUME ReplacedAssumption == Replaced \in [Member -> Fingerprint]
ASSUME FaultAssumption == Fault \subseteq Faults

VARIABLES
  \* the coordinator, shared by all requests
  entry,            \* what is known of each credential of an account
  current,          \* the credential each account is on
  \* the accounts of the pool
  file,             \* the credential in the file of an account
  held,             \* the one the pool has loaded
  cooling,          \* no requests until some time
  cooled,           \* the same, as the capacity pool has it
  inFlight,         \* attempts of each account
  capacity,         \* leases of the capacity pool
  \* the requests
  pc,               \* where each request is
  why,              \* what it recovers or waits for
  member,           \* the account it is about
  print,            \* the credential it is about
  excluded,         \* accounts it will not try again
  absorbed,         \* accounts that it gave a second chance
  failedOver,       \* it left an account for a passing failure
  claim,            \* it has a claim on a refreshed credential
  waits,            \* the request whose claim it waits for
  heard             \* what came of that

coordinator == <<entry, current>>
pool == <<file, held, cooling, cooled, inFlight, capacity>>
attempt == <<why, member, print>>
tries == <<excluded, absorbed, failedOver>>
requests == <<pc, attempt, tries, claim, waits, heard>>
vars == <<coordinator, pool, requests>>

\* due: a backoff that is over.  A credential that nobody asked about is unknown.
Settled == {"unknown", "accepted", "rejected", "backoff"}
Kinds == Settled \cup {"none", "due", "recovering", "probation"}
Entry == [kind : Kinds, owner : Request \cup {None}]
Known(kind) == [kind |-> kind, owner |-> None]

Steps == {"new", "loop", "acquire", "wait", "refresh", "refreshed", "renewed", "judge",
          "ramp", "sent", "pause", "stream",
          "done", "exhausted", "unreachable", "aborted"}

TypeOK ==
  /\ entry \in [Member -> [Fingerprint -> Entry]]
  /\ current \in [Member -> Fingerprint]
  /\ file \in [Member -> Fingerprint]
  /\ held \in [Member -> Fingerprint]
  /\ cooling \in [Member -> BOOLEAN]
  /\ cooled \in [Member -> BOOLEAN]
  /\ inFlight \in [Member -> Nat]
  /\ capacity \in [Member -> Nat]
  /\ pc \in [Request -> Steps]
  /\ why \in [Request -> {"none", "backoff", "fresh", "denied", "select", "stream", "left", "early"}]
  /\ member \in [Request -> Member \cup {None}]
  /\ print \in [Request -> Fingerprint]
  /\ excluded \in [Request -> SUBSET Member]
  /\ absorbed \in [Request -> SUBSET Member]
  /\ failedOver \in [Request -> BOOLEAN]
  /\ claim \in [Request -> BOOLEAN]
  /\ waits \in [Request -> Request \cup {None}]
  /\ heard \in [Request -> Settled]

\* The accounts were loaded and registered when the pool was opened.
Init ==
  /\ entry = [m \in Member |-> [p \in Fingerprint |-> Known(IF p = 0 THEN "unknown" ELSE "none")]]
  /\ current = [m \in Member |-> 0]
  /\ file = [m \in Member |-> 0]
  /\ held = [m \in Member |-> 0]
  /\ cooling = [m \in Member |-> FALSE]
  /\ cooled = [m \in Member |-> FALSE]
  /\ inFlight = [m \in Member |-> 0]
  /\ capacity = [m \in Member |-> 0]
  /\ pc = [r \in Request |-> "new"]
  /\ why = [r \in Request |-> "none"]
  /\ member = [r \in Request |-> None]
  /\ print = [r \in Request |-> 0]
  /\ excluded = [r \in Request |-> {}]
  /\ absorbed = [r \in Request |-> {}]
  /\ failedOver = [r \in Request |-> FALSE]
  /\ claim = [r \in Request |-> FALSE]
  /\ waits = [r \in Request |-> None]
  /\ heard = [r \in Request |-> "unknown"]

Go(r, step) == pc' = [pc EXCEPT ![r] = step]

\* The account of the attempt is forgotten, and the whole request.
Back(r, step) ==
  /\ Go(r, step)
  /\ why' = [why EXCEPT ![r] = "none"]
  /\ member' = [member EXCEPT ![r] = None]
  /\ print' = [print EXCEPT ![r] = 0]

Forget(r) ==
  /\ excluded' = [excluded EXCEPT ![r] = {}]
  /\ absorbed' = [absorbed EXCEPT ![r] = {}]
  /\ failedOver' = [failedOver EXCEPT ![r] = FALSE]

Ends(r, step) == Back(r, step) /\ Forget(r)

Exclude(r, m) == excluded' = [excluded EXCEPT ![r] = @ \cup {m}]

-----------------------------------------------------------------------------
(* AccountAuthCoordinator                                                   *)

\* Faulty: a credential on probation looks like any other.
SnapshotOpen(m, p) ==
  IF current[m] # p THEN "superseded"
  ELSE CASE entry[m][p].kind = "recovering" -> "refreshing"
         [] entry[m][p].kind = "due" -> "backoff"
         [] entry[m][p].kind \in {"none", "probation"} -> "unknown"
         [] OTHER -> entry[m][p].kind

\* snapshot: what the pool sees of a credential.
Snapshot(m, p) ==
  IF current[m] # p THEN "superseded"
  ELSE CASE entry[m][p].kind \in {"recovering", "probation"} -> "refreshing"
         [] entry[m][p].kind = "due" -> "backoff"
         [] entry[m][p].kind = "none" -> "unknown"
         [] OTHER -> entry[m][p].kind

\* settleRecovery: those who wait for a claim hear what came of it.
Settle(claims, kind) ==
  /\ waits' = [r \in Request |-> IF waits[r] \in claims THEN None ELSE waits[r]]
  /\ heard' = [r \in Request |-> IF waits[r] \in claims THEN kind ELSE heard[r]]

\* The claim of a request, as long as nobody replaced the credential.
Recovers(r) == entry[member[r]][print[r]] = [kind |-> "recovering", owner |-> r]
OnProbation(r, p) == entry[member[r]][p] = [kind |-> "probation", owner |-> r]

\* Faulty: nobody is told.
FinishSilently(r, kind) ==
  /\ entry' = [entry EXCEPT ![member[r]] =
                 [p \in Fingerprint |-> IF OnProbation(r, p) THEN Known(kind) ELSE @[p]]]
  /\ UNCHANGED <<current, waits, heard>>

\* finishProbation
FinishProbation(r, kind) ==
  /\ entry' = [entry EXCEPT ![member[r]] =
                 [p \in Fingerprint |-> IF OnProbation(r, p) THEN Known(kind) ELSE @[p]]]
  /\ IF \E p \in Fingerprint : OnProbation(r, p) THEN Settle({r}, kind)
     ELSE UNCHANGED <<waits, heard>>
  /\ UNCHANGED current

\* Faulty: an accepted answer is believed whatever happened since.
MarkAnyAccepted(m, p) ==
  /\ entry' = [entry EXCEPT ![m][p] = Known("accepted")]
  /\ UNCHANGED <<current, waits, heard>>

\* markAccepted
MarkAccepted(m, p) ==
  /\ entry' = IF current[m] = p /\ entry[m][p].kind \in {"none", "unknown", "accepted"}
              THEN [entry EXCEPT ![m][p] = Known("accepted")] ELSE entry
  /\ UNCHANGED <<current, waits, heard>>

\* Faulty: who comes second recovers as well.
RoleAlone(m, p) ==
  IF entry[m][p].kind = "none" /\ current[m] # p THEN "superseded"
  ELSE CASE entry[m][p].kind = "probation" -> "waiter"
         [] entry[m][p].kind \in {"rejected", "backoff"} -> "blocked"
         [] OTHER -> "owner"

\* beginRecovery
Role(m, p) ==
  IF entry[m][p].kind = "none" /\ current[m] # p THEN "superseded"
  ELSE CASE entry[m][p].kind \in {"recovering", "probation"} -> "waiter"
         [] entry[m][p].kind \in {"rejected", "backoff"} -> "blocked"
         [] OTHER -> "owner"

BeginRecovery(r, m, p) ==
  /\ entry' = [entry EXCEPT ![m][p] = [kind |-> "recovering", owner |-> r]]
  /\ current' = [current EXCEPT ![m] = p]

-----------------------------------------------------------------------------
(* SubscriptionPoolSelector                                                 *)

\* synchronizeCredential: an account whose credential was replaced is reloaded.
Synchronized ==
  [m \in Member |-> IF current[m] # held[m] /\ file[m] = current[m] THEN file[m] ELSE held[m]]

EligibleAs(m, p) == Snapshot(m, p) \in {"unknown", "accepted"} /\ ~ cooling[m]
Eligible(m) == EligibleAs(m, held[m])

HasAlternative(r, m) == \E n \in Member \ (excluded[r] \cup {m}) : Eligible(n)

\* A lease of the capacity pool, and an attempt's release of both counts, which
\* is done once (ReleaseTwice is faulty).
Lease(m) == capacity' = [capacity EXCEPT ![m] = @ + 1]
Return(m) == capacity' = [capacity EXCEPT ![m] = @ - 1]
ReleaseTwice(m) ==
  /\ capacity' = [capacity EXCEPT ![m] = @ - 2]
  /\ inFlight' = [inFlight EXCEPT ![m] = @ - 1]
Release(m) == Return(m) /\ inFlight' = [inFlight EXCEPT ![m] = @ - 1]

\* acquire and recoverAuthentication begin here.
Asks(r, m, p, for) ==
  /\ member' = [member EXCEPT ![r] = m]
  /\ print' = [print EXCEPT ![r] = p]
  /\ why' = [why EXCEPT ![r] = for]

\* A backoff that is over is tried before the pool is.
Overdue(r) == {m \in Member \ excluded[r] :
                 Snapshot(m, held[m]) = "backoff" /\ entry[m][held[m]].kind = "due"}

Selects(r) ==
  \/ pc[r] = "acquire"
  \/ pc[r] = "loop" /\ ~ claim[r] /\ excluded[r] # Member /\ Overdue(r) = {}

Choice(r) == {m \in Member \ excluded[r] : EligibleAs(m, Synchronized[m])}

\* An account is leased; its credential is refreshed first when it is about to
\* expire (ensureFresh).
Select(r) ==
  /\ Selects(r)
  /\ held' = Synchronized
  /\ cooled' = cooling
  /\ \E m \in Choice(r) :
       /\ Lease(m)
       /\ Asks(r, m, held'[m], "fresh")
       /\ \/ Go(r, "ramp") /\ UNCHANGED coordinator
          \/ Go(r, "refresh") /\ BeginRecovery(r, m, held'[m])
  /\ UNCHANGED <<file, cooling, inFlight, tries, claim, waits, heard>>

\* No account can be had, but one is being recovered.
AwaitRecovery(r) ==
  /\ Selects(r) /\ Choice(r) = {}
  /\ held' = Synchronized
  /\ \E m \in Member \ excluded[r] :
       /\ entry[m][held'[m]].kind \in {"recovering", "probation"}
       /\ Asks(r, m, held'[m], "select")
       /\ waits' = [waits EXCEPT ![r] = entry[m][held'[m]].owner]
  /\ Go(r, "wait")
  /\ UNCHANGED <<coordinator, file, cooling, cooled, inFlight, capacity, tries, claim, heard>>

NoAccount(r) ==
  /\ Selects(r) /\ Choice(r) = {}
  /\ held' = Synchronized
  /\ \A m \in Member \ excluded[r] : entry[m][held'[m]].kind \notin {"recovering", "probation"}
  /\ Ends(r, "done")
  /\ UNCHANGED <<coordinator, file, cooling, cooled, inFlight, capacity, claim, waits, heard>>

\* The loop gives up when no account is left.
OutOfAccounts(r) ==
  /\ pc[r] = "loop"
  /\ excluded[r] = Member
  /\ Ends(r, "done")
  /\ UNCHANGED <<coordinator, pool, claim, waits, heard>>

Attempt(r, m) ==
  /\ inFlight' = [inFlight EXCEPT ![m] = @ + 1]
  /\ print' = [print EXCEPT ![r] = held[m]]
  /\ Go(r, "sent")

\* Faulty: the next account is looked for with the lease in hand.
RevalidateKeeps(r) ==
  LET m == member[r] IN
    /\ pc[r] = "ramp"
    /\ IF m \notin excluded[r] /\ Eligible(m)
       THEN Attempt(r, m) /\ UNCHANGED <<why, member>>
       ELSE Back(r, "acquire") /\ UNCHANGED inFlight
    /\ UNCHANGED <<coordinator, file, held, cooling, cooled, capacity, tries, claim, waits,
                   heard>>

\* What was awaited is looked at again: refresh, ramp and revalidation take time.
Revalidate(r) ==
  LET m == member[r] IN
    /\ pc[r] = "ramp"
    /\ IF m \notin excluded[r] /\ Eligible(m)
       THEN Attempt(r, m) /\ UNCHANGED <<capacity, why, member>>
       ELSE Return(m) /\ Back(r, "acquire") /\ UNCHANGED inFlight
    /\ UNCHANGED <<coordinator, file, held, cooling, cooled, tries, claim, waits, heard>>

\* The client leaves during the ramp: the lease of the capacity pool stays.
AbortRamp(r) ==
  /\ pc[r] = "ramp" /\ "abort" \in Fault
  /\ Go(r, "aborted") /\ Forget(r)
  /\ UNCHANGED <<coordinator, pool, attempt, claim, waits, heard>>

\* acquireProbation: the claim is what lets the request have the account.
AcquireProbation(r) ==
  /\ pc[r] = "loop" /\ claim[r] /\ excluded[r] # Member
  /\ ~ cooled[member[r]]
  /\ Lease(member[r])
  /\ Attempt(r, member[r])
  /\ UNCHANGED <<coordinator, file, held, cooling, cooled, why, member, tries, claim, waits,
                 heard>>

\* It fails when the capacity pool has the account cooling, as it was told at the
\* last selection, or when the client has gone.
AcquireProbationFails(r) ==
  /\ pc[r] = "loop" /\ claim[r] /\ excluded[r] # Member
  /\ \/ cooled[member[r]] /\ Ends(r, "exhausted")
     \/ "abort" \in Fault /\ Ends(r, "aborted")
  /\ UNCHANGED <<coordinator, pool, claim, waits, heard>>

-----------------------------------------------------------------------------
(* recoverAuthentication                                                    *)

\* The first to ask after a backoff owns the recovery.
RecoverOverdue(r) ==
  /\ pc[r] = "loop" /\ ~ claim[r] /\ excluded[r] # Member
  /\ \E m \in Overdue(r) : /\ BeginRecovery(r, m, held[m])
                           /\ Asks(r, m, held[m], "backoff")
  /\ Go(r, "refresh")
  /\ UNCHANGED <<pool, tries, claim, waits, heard>>

\* After an attempt was denied, with its credential.
Recover(r) ==
  LET m == member[r]
      p == print[r]
      role == Role(m, p)
  IN \/ /\ role = "superseded"
        /\ held' = [held EXCEPT ![m] = Synchronized[m]]
        /\ Back(r, "loop")
        /\ UNCHANGED <<coordinator, excluded, waits>>
     \/ /\ role = "blocked" \/ (role = "waiter" /\ HasAlternative(r, m))
        /\ Exclude(r, m)
        /\ Back(r, "loop")
        /\ UNCHANGED <<coordinator, held, waits>>
     \/ /\ role = "waiter" /\ ~ HasAlternative(r, m)
        /\ waits' = [waits EXCEPT ![r] = entry[m][p].owner]
        /\ Asks(r, m, p, "denied")
        /\ Go(r, "wait")
        /\ UNCHANGED <<coordinator, held, excluded>>
     \/ /\ role = "owner"
        /\ BeginRecovery(r, m, p)
        /\ Asks(r, m, p, "denied")
        /\ Go(r, "refresh")
        /\ UNCHANGED <<held, excluded, waits>>

Resume(r) ==
  /\ pc[r] = "wait" /\ waits[r] = None /\ why[r] # "early"
  /\ IF why[r] = "select" THEN Back(r, "acquire") ELSE Back(r, "loop")
  /\ IF why[r] = "denied" /\ heard[r] \in {"backoff", "rejected"}
     THEN Exclude(r, member[r]) ELSE UNCHANGED excluded
  /\ heard' = [heard EXCEPT ![r] = "unknown"]
  /\ UNCHANGED <<coordinator, pool, absorbed, failedOver, claim, waits>>

AbortWait(r) ==
  /\ pc[r] = "wait" /\ "abort" \in Fault
  /\ IF why[r] = "early" THEN Release(member[r]) ELSE UNCHANGED <<inFlight, capacity>>
  /\ Ends(r, "aborted")
  /\ waits' = [waits EXCEPT ![r] = None]
  /\ heard' = [heard EXCEPT ![r] = "unknown"]
  /\ UNCHANGED <<coordinator, file, held, cooling, cooled, claim>>

\* provider.refresh: the answer is written to the file of the account, whatever
\* credential is there by now.
RefreshWrites(r) ==
  /\ pc[r] = "refresh"
  /\ file[member[r]] < Replaced[member[r]]
  /\ file' = [file EXCEPT ![member[r]] = @ + 1]
  /\ Go(r, "refreshed")
  /\ UNCHANGED <<coordinator, held, cooling, cooled, inFlight, capacity, attempt, tries, claim,
                 waits, heard>>

\* A recovery for a stream runs beside it, without the signal of its client.
Detached == {"stream", "left"}

\* Without a claim the request goes on from where it recovered: a stream that was
\* handed to the client, with whatever it has yet to say.
Continue(r) ==
  \/ why[r] = "fresh" /\ Go(r, "judge") /\ UNCHANGED attempt
  \/ why[r] = "stream" /\ Go(r, "stream") /\ UNCHANGED attempt
  \/ why[r] = "left" /\ Back(r, "done")
  \/ why[r] = "backoff" /\ Back(r, "acquire")
  \/ why[r] = "denied" /\ Back(r, "loop")

\* markRefreshed: the claim moves to the new credential, if there still is one.
MarkRefreshed(r) ==
  LET m == member[r] IN
    /\ pc[r] = "refreshed"
    /\ IF Recovers(r)
       THEN /\ entry' = [entry EXCEPT
                           ![m] = [@ EXCEPT ![print[r]] = Known("none"),
                                            ![file[m]] = [kind |-> "probation", owner |-> r]]]
            /\ current' = [current EXCEPT ![m] = file[m]]
            /\ print' = [print EXCEPT ![r] = file[m]]
            /\ Go(r, "renewed")
            /\ UNCHANGED <<held, why, member>>
       ELSE /\ held' = [held EXCEPT ![m] = Synchronized[m]]
            /\ Continue(r)
            /\ UNCHANGED coordinator
    /\ UNCHANGED <<file, cooling, cooled, inFlight, capacity, tries, claim, waits, heard>>

\* The pool loads what was refreshed.  A cooldown ends with the old credential
\* unless it is newer than the recovery.
Load(r) ==
  /\ held' = [held EXCEPT ![member[r]] = print[r]]
  /\ \E still \in BOOLEAN : cooling' = [cooling EXCEPT ![member[r]] = @ /\ still]

\* A credential refreshed for its age or after a stream failed needs no
\* probation; others are tried out.
Renewed(r) ==
  /\ pc[r] = "renewed"
  /\ Load(r)
  /\ \/ /\ why[r] = "fresh" /\ Go(r, "ramp") /\ UNCHANGED attempt
        /\ FinishProbation(r, "unknown") /\ UNCHANGED claim
     \/ /\ why[r] \in Detached /\ Continue(r)
        /\ FinishProbation(r, "unknown") /\ UNCHANGED claim
     \/ /\ why[r] \in {"backoff", "denied"} /\ Go(r, "loop") /\ UNCHANGED attempt
        /\ claim' = [claim EXCEPT ![r] = TRUE]
        /\ UNCHANGED <<coordinator, waits, heard>>
  /\ UNCHANGED <<file, cooled, inFlight, capacity, tries>>

\* The client has gone meanwhile: nobody tries the credential out, and a lease
\* that was taken before stays.
AbortRenewed(r) ==
  /\ pc[r] = "renewed" /\ why[r] \notin Detached /\ "abort" \in Fault
  /\ Load(r)
  /\ FinishProbation(r, "unknown")
  /\ Go(r, "aborted") /\ Forget(r)
  /\ UNCHANGED <<file, cooled, inFlight, capacity, attempt, claim>>

\* failRefresh: for good, or for a while.
FailRefresh(r) ==
  \E kind \in {"rejected", "backoff"} :
    IF Recovers(r)
    THEN entry' = [entry EXCEPT ![member[r]][print[r]] = Known(kind)] /\ Settle({r}, kind)
    ELSE UNCHANGED <<entry, waits, heard>>

RefreshFails(r) ==
  /\ pc[r] = "refresh"
  /\ FailRefresh(r)
  /\ Continue(r)
  /\ IF why[r] \in Detached \cup {"fresh"} THEN UNCHANGED excluded ELSE Exclude(r, member[r])
  /\ UNCHANGED <<current, pool, absorbed, failedOver, claim>>

AbortRefresh(r) ==
  /\ pc[r] = "refresh" /\ why[r] \notin Detached /\ "abort" \in Fault
  /\ FailRefresh(r)
  /\ Go(r, "aborted") /\ Forget(r)
  /\ UNCHANGED <<current, pool, attempt, claim>>

\* ensureFresh without a refreshed credential: it may be one that others put there.
Judge(r) ==
  LET m == member[r] IN
    /\ pc[r] = "judge"
    /\ IF Snapshot(m, held[m]) \in {"unknown", "accepted"}
       THEN Go(r, "ramp") /\ UNCHANGED <<capacity, attempt, tries>>
       ELSE /\ Return(m)
            /\ IF m \notin excluded[r] /\ ~ Eligible(m) /\ HasAlternative(r, m)
               THEN Exclude(r, m) /\ Back(r, "acquire") /\ UNCHANGED <<absorbed, failedOver>>
               ELSE Ends(r, "done")
    /\ UNCHANGED <<coordinator, file, held, cooling, cooled, inFlight, claim, waits, heard>>

-----------------------------------------------------------------------------
(* SubscriptionRequestExecutor: what comes of an attempt                    *)

FinishClaim(r, kind) ==
  /\ IF claim[r] THEN FinishProbation(r, kind) ELSE UNCHANGED <<coordinator, waits, heard>>
  /\ claim' = [claim EXCEPT ![r] = FALSE]

\* The answer is handed to the client, with the lease.
Accepted(r) ==
  /\ pc[r] = "sent"
  /\ IF claim[r] THEN FinishProbation(r, "accepted") ELSE MarkAccepted(member[r], print[r])
  /\ claim' = [claim EXCEPT ![r] = FALSE]
  /\ Go(r, "stream") /\ Forget(r)
  /\ UNCHANGED <<pool, attempt>>

StreamEnds(r) ==
  /\ pc[r] = "stream"
  /\ Release(member[r])
  /\ Ends(r, "done")
  /\ UNCHANGED <<coordinator, file, held, cooling, cooled, claim, waits, heard>>

\* The provider ends a stream with a failure, which is not retried.  A credential
\* is recovered, by the one that the pool holds now, or the account penalized.
StreamFails(r) ==
  LET m == member[r]
      p == held[m]
      role == Role(m, p)
  IN /\ pc[r] = "stream" /\ why[r] # "stream"
     /\ \/ /\ role = "owner"
           /\ BeginRecovery(r, m, p)
           /\ Asks(r, m, p, "stream")
           /\ Go(r, "refresh")
           /\ UNCHANGED <<held, cooling>>
        \/ /\ role # "owner"
           /\ held' = IF role = "superseded" THEN [held EXCEPT ![m] = Synchronized[m]] ELSE held
           /\ why' = [why EXCEPT ![r] = "stream"]
           /\ UNCHANGED <<coordinator, pc, member, print, cooling>>
        \/ /\ cooling' = [cooling EXCEPT ![m] = TRUE]
           /\ why' = [why EXCEPT ![r] = "stream"]
           /\ UNCHANGED <<coordinator, pc, member, print, held>>
     /\ UNCHANGED <<file, cooled, inFlight, capacity, tries, claim, waits, heard>>

\* It does so while its credential is tried out, in what is read before the answer
\* is handed over and the claim finished.  The recovery finds this claim: it goes
\* on when another account could be had, and otherwise waits for it.
StreamFailsOnProbation(r) ==
  LET m == member[r] IN
    /\ pc[r] = "sent" /\ claim[r] /\ OnProbation(r, held[m])
    /\ IF \E n \in Member \ {m} : Eligible(n)
       THEN /\ FinishClaim(r, "accepted")
            /\ why' = [why EXCEPT ![r] = "stream"]
            /\ Go(r, "stream") /\ Forget(r)
       ELSE /\ waits' = [waits EXCEPT ![r] = r]
            /\ why' = [why EXCEPT ![r] = "early"]
            /\ Go(r, "wait")
            /\ UNCHANGED <<coordinator, tries, claim, heard>>
    /\ UNCHANGED <<pool, member, print>>

\* A login took the claim away, so that the wait is over: the stream goes on.
StreamResumes(r) ==
  /\ pc[r] = "wait" /\ waits[r] = None /\ why[r] = "early"
  /\ why' = [why EXCEPT ![r] = "stream"]
  /\ Go(r, "stream") /\ Forget(r)
  /\ claim' = [claim EXCEPT ![r] = FALSE]
  /\ heard' = [heard EXCEPT ![r] = "unknown"]
  /\ UNCHANGED <<coordinator, pool, member, print, waits>>

\* Its client leaves during the recovery, which goes on.
StreamLeft(r) ==
  /\ pc[r] \in {"refresh", "refreshed", "renewed"} /\ why[r] = "stream" /\ "abort" \in Fault
  /\ Release(member[r])
  /\ why' = [why EXCEPT ![r] = "left"]
  /\ UNCHANGED <<coordinator, file, held, cooling, cooled, pc, member, print, tries, claim, waits,
                 heard>>

\* The credential of the probation is no good either.
DeniedOnProbation(r) ==
  /\ pc[r] = "sent" /\ claim[r]
  /\ \E kind \in {"rejected", "unknown"} : FinishClaim(r, kind)
  /\ Exclude(r, member[r])
  /\ Release(member[r])
  /\ Back(r, "loop")
  /\ UNCHANGED <<file, held, cooling, cooled, absorbed, failedOver>>

Denied(r) ==
  /\ pc[r] = "sent" /\ ~ claim[r]
  /\ Release(member[r])
  /\ Recover(r)
  /\ UNCHANGED <<file, cooling, cooled, absorbed, failedOver, claim, heard>>

\* penalize: the account is left alone for a while.
Limited(r) ==
  /\ pc[r] = "sent"
  /\ \E kind \in {"accepted", "unknown"} : FinishClaim(r, kind)
  /\ cooling' = [cooling EXCEPT ![member[r]] = TRUE]
  /\ Exclude(r, member[r])
  /\ Release(member[r])
  /\ Back(r, "loop")
  /\ UNCHANGED <<file, held, cooled, absorbed, failedOver>>

\* A passing failure: once more with this account, then once with another.
Transient(r) ==
  LET m == member[r] IN
    /\ pc[r] = "sent"
    /\ FinishClaim(r, "unknown")
    /\ \/ /\ m \notin absorbed[r]
          /\ absorbed' = [absorbed EXCEPT ![r] = @ \cup {m}]
          /\ Go(r, "pause")
          /\ UNCHANGED <<inFlight, capacity, attempt, excluded, failedOver>>
       \/ /\ m \in absorbed[r] /\ ~ failedOver[r] /\ HasAlternative(r, m)
          /\ failedOver' = [failedOver EXCEPT ![r] = TRUE]
          /\ Exclude(r, m)
          /\ Release(m)
          /\ Back(r, "loop")
          /\ UNCHANGED absorbed
       \/ /\ m \in absorbed[r] /\ (failedOver[r] \/ ~ HasAlternative(r, m))
          /\ Release(m)
          /\ Ends(r, "done")
    /\ UNCHANGED <<file, held, cooling, cooled>>

PauseEnds(r) ==
  /\ pc[r] = "pause"
  /\ Release(member[r])
  /\ Back(r, "loop")
  /\ UNCHANGED <<coordinator, file, held, cooling, cooled, tries, claim, waits, heard>>

\* An answer about the request, which no other account would change.
Refused(r) ==
  /\ pc[r] = "sent"
  /\ \E kind \in {"accepted", "unknown"} : FinishClaim(r, kind)
  /\ Release(member[r])
  /\ Ends(r, "done")
  /\ UNCHANGED <<file, held, cooling, cooled>>

\* No answer, or nobody to answer to.  A claim is not finished.
NoAnswer(r) ==
  /\ pc[r] = "sent" /\ Fault \cap {"network", "abort"} # {}
  /\ Release(member[r])
  /\ Ends(r, "unreachable")
  /\ UNCHANGED <<coordinator, file, held, cooling, cooled, claim, waits, heard>>

-----------------------------------------------------------------------------
(* Time and operators                                                       *)

Start(r) ==
  /\ pc[r] = "new"
  /\ Go(r, "loop")
  /\ UNCHANGED <<coordinator, pool, attempt, tries, claim, waits, heard>>

CoolingOver(m) ==
  /\ cooling[m] \/ cooled[m]
  /\ cooling' = [cooling EXCEPT ![m] = FALSE]
  /\ cooled' = [cooled EXCEPT ![m] = FALSE]
  /\ UNCHANGED <<coordinator, file, held, inFlight, capacity, requests>>

BackoffOver(m) ==
  /\ \E p \in Fingerprint : /\ entry[m][p].kind = "backoff"
                      /\ entry' = [entry EXCEPT ![m][p] = Known("due")]
  /\ UNCHANGED <<current, pool, requests>>

\* A new login is in the file and activated (activateFingerprint,
\* reconcileActiveCredentials): what was known of the others is dropped.
Relogin(m) ==
  /\ "relogin" \in Fault
  /\ file[m] < Replaced[m]
  /\ file' = [file EXCEPT ![m] = @ + 1]
  /\ current' = [current EXCEPT ![m] = file'[m]]
  /\ entry' = [entry EXCEPT ![m] =
                 [p \in Fingerprint |-> Known(IF p = file'[m] THEN "unknown" ELSE "none")]]
  /\ Settle({entry[m][p].owner : p \in Fingerprint} \ {None}, "unknown")
  /\ UNCHANGED <<held, cooling, cooled, inFlight, capacity, pc, attempt, tries, claim>>

Acquires(r) ==
  \/ Start(r) \/ OutOfAccounts(r) \/ Select(r) \/ AwaitRecovery(r) \/ NoAccount(r)
  \/ Revalidate(r) \/ AbortRamp(r) \/ AcquireProbation(r) \/ AcquireProbationFails(r)

Recovery(r) ==
  \/ RecoverOverdue(r) \/ Resume(r) \/ AbortWait(r) \/ RefreshWrites(r) \/ MarkRefreshed(r)
  \/ Renewed(r) \/ AbortRenewed(r) \/ RefreshFails(r) \/ AbortRefresh(r) \/ Judge(r)

Answered(r) ==
  \/ Accepted(r) \/ StreamEnds(r) \/ StreamFails(r)
  \/ StreamFailsOnProbation(r) \/ StreamResumes(r) \/ StreamLeft(r)
  \/ DeniedOnProbation(r) \/ Denied(r) \/ Limited(r)
  \/ Transient(r) \/ PauseEnds(r) \/ Refused(r) \/ NoAnswer(r)

Next ==
  \/ \E r \in Request : Acquires(r) \/ Recovery(r) \/ Answered(r)
  \/ \E m \in Member : CoolingOver(m) \/ BackoffOver(m) \/ Relogin(m)

Spec == Init /\ [][Next]_vars

-----------------------------------------------------------------------------
(* Properties                                                               *)

\* A refresh token is spent by one request: whoever else is denied, or finds the
\* credential about to expire, waits for it or goes elsewhere.
OneRefresh ==
  \A r, s \in Request :
    pc[r] = "refresh" /\ pc[s] = "refresh" /\ member[r] = member[s] /\ print[r] = print[s]
      => r = s

\* A refreshed credential is tried out by one attempt: until it is settled nobody
\* who selected the account sends it, whenever that was.  Only a request that was
\* let in by a claim of its own may, when a login overtook that claim.
ProbationAlone ==
  \A r, s \in Request :
    /\ r # s /\ pc[r] = "sent" /\ claim[r] /\ OnProbation(r, print[r])
    /\ pc[s] \in {"sent", "pause", "stream"} /\ member[s] = member[r]
    /\ why[s] = "fresh"
    => print[s] # print[r]

\* The same of every request: the test of the coordinator says that it reserves
\* one attempt for the probation (account-auth-health.test.ts).  A claim that a
\* login overtook lets its request in all the same.
ProbationReserved ==
  \A r, s \in Request :
    /\ r # s /\ pc[r] = "sent" /\ claim[r] /\ OnProbation(r, print[r])
    /\ pc[s] = "sent" /\ member[s] = member[r]
    => print[s] # print[r]

\* A rejected credential stays out until it is replaced: a late success of an
\* attempt that was sent before does not bring it back.
RejectedStays ==
  [][\A m \in Member, p \in Fingerprint :
       entry[m][p].kind = "rejected" => entry'[m][p].kind \in {"rejected", "none"}]_vars

\* The counts that ramp and weight the accounts are those of the requests that
\* use them, but for the leases of clients that left before their attempt.
Uses(m) ==
  {r \in Request :
     /\ member[r] = m
     /\ \/ pc[r] \in {"sent", "pause", "stream"}
        \/ pc[r] \in {"refresh", "refreshed", "renewed"} /\ why[r] = "stream"
        \/ pc[r] = "wait" /\ why[r] = "early"}
Leases(m) == Uses(m) \cup
  {r \in Request :
     /\ member[r] = m /\ why[r] = "fresh"
     /\ pc[r] \in {"refresh", "refreshed", "renewed", "judge", "ramp", "aborted"}}

LeasesReturned ==
  \A m \in Member : inFlight[m] = Cardinality(Uses(m)) /\ capacity[m] = Cardinality(Leases(m))

\* A claim belongs to a request that goes on and will settle it, and whoever
\* waits waits for such a claim.  It is lost in four ways only: the attempt that
\* should try the credential out is not let in, gets no answer, is aborted, or
\* waits for its own claim.
ClaimsOwned ==
  /\ \A m \in Member, p \in Fingerprint :
       LET r == entry[m][p].owner IN
         /\ entry[m][p].kind = "recovering" => pc[r] \in {"refresh", "refreshed"}
         /\ entry[m][p].kind = "probation" =>
              \/ pc[r] = "renewed"
              \/ claim[r] /\ pc[r] \in {"loop", "sent", "exhausted", "unreachable", "aborted"}
              \/ claim[r] /\ waits[r] = r
  /\ \A r \in Request :
       waits[r] # None => \E m \in Member, p \in Fingerprint : entry[m][p].owner = waits[r]

\* Other requests wait while an account recovers (docs/subscription-pooling.md),
\* never the one that the recovery waits for.
WaitsForOther == \A r \in Request : waits[r] # r

\* A recovery after an answer is one of the credential that was answered, as the
\* retries of an attempt take care it is.
BlamedSent ==
  [][\A r \in Request, p \in Fingerprint :
       /\ pc[r] \in {"sent", "stream"}
       /\ entry'[member[r]][p] = [kind |-> "recovering", owner |-> r]
       => print[r] = p]_vars

\* The credential in the file of an account is the one the coordinator has it on,
\* but for the moment between a refresh and its being marked: otherwise nobody
\* loads it and the account is not used again.
FileKnown ==
  \A m \in Member :
    file[m] = current[m] \/ \E r \in Request : pc[r] = "refreshed" /\ member[r] = m
=============================================================================
