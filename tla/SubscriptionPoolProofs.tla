----------------------- MODULE SubscriptionPoolProofs -----------------------
(***************************************************************************)
(* Proofs about SubscriptionPool.  The inductive invariant is built in      *)
(* layers: what a request says of itself at each of its steps, how the      *)
(* credentials of an account are ordered, and which request each entry of   *)
(* the coordinator belongs to.  The leases come last, by counting.          *)
(***************************************************************************)
EXTENDS SubscriptionPool, FiniteSetTheorems, TLAPS

Using == {"sent", "pause", "stream"}
Recovering == {"refresh", "refreshed"}
Active == Using \cup Recovering \cup {"wait", "renewed", "judge", "ramp"}
Claiming == {"loop", "sent", "exhausted", "unreachable", "aborted"}

\* TypeOK but for the counts, which are natural because of the leases.
TypedCoordinator ==
  /\ entry \in [Member -> [Fingerprint -> Entry]]
  /\ current \in [Member -> Fingerprint]

TypedPool ==
  /\ file \in [Member -> Fingerprint]
  /\ held \in [Member -> Fingerprint]
  /\ cooling \in [Member -> BOOLEAN]
  /\ cooled \in [Member -> BOOLEAN]
  /\ inFlight \in [Member -> Int]
  /\ capacity \in [Member -> Int]

TypedAttempt ==
  /\ pc \in [Request -> Steps]
  /\ why \in [Request -> {"none", "backoff", "fresh", "denied", "select", "stream", "left", "early"}]
  /\ member \in [Request -> Member \cup {None}]
  /\ print \in [Request -> Fingerprint]

TypedTries ==
  /\ excluded \in [Request -> SUBSET Member]
  /\ absorbed \in [Request -> SUBSET Member]
  /\ failedOver \in [Request -> BOOLEAN]

TypedClaims ==
  /\ claim \in [Request -> BOOLEAN]
  /\ waits \in [Request -> Request \cup {None}]
  /\ heard \in [Request -> Settled]

Typed == TypedCoordinator /\ TypedPool /\ TypedAttempt /\ TypedTries /\ TypedClaims

\* What a request has at each step.
Controlled ==
  \A r \in Request :
    /\ pc[r] \in Active \/ (claim[r] /\ pc[r] = "loop") => member[r] \in Member
    /\ pc[r] \in {"ramp", "judge"} => why[r] = "fresh"
    /\ pc[r] \in Recovering \cup {"renewed"} =>
         why[r] \in {"fresh", "backoff", "denied", "stream", "left"}
    /\ pc[r] = "stream" \/ (pc[r] \in Recovering \cup {"renewed"} /\ why[r] \in {"stream", "left"})
       => excluded[r] = {}
    /\ \/ pc[r] \in Recovering \cup {"renewed", "sent"}
       \/ claim[r] /\ pc[r] = "loop"
       => member[r] \notin excluded[r]
    /\ claim[r] => pc[r] \in Claiming \/ (pc[r] = "wait" /\ why[r] = "early")
    /\ why[r] = "early" => pc[r] = "wait" /\ claim[r]
    /\ claim[r] /\ pc[r] \in {"loop", "sent"} => why[r] \in {"backoff", "denied"}
    /\ waits[r] # None => pc[r] = "wait"

\* The credentials of an account: the pool is never ahead of the coordinator, and
\* the coordinator never ahead of the file, and only the last one is spoken of.
CredentialsOrdered == \A m \in Member : held[m] <= current[m] /\ current[m] <= file[m]
Spoken == \A m \in Member, p \in Fingerprint : entry[m][p].kind # "none" => p = current[m]

PrintsOrdered ==
  \A r \in Request :
    /\ pc[r] \in Active => print[r] <= current[member[r]]
    /\ pc[r] = "refreshed" => print[r] < file[member[r]]

Ordered == CredentialsOrdered /\ Spoken /\ PrintsOrdered

\* An entry that is being recovered belongs to the request that recovers it.
Owns(m, p, r) ==
  \/ /\ entry[m][p].kind = "recovering"
     /\ pc[r] \in Recovering /\ member[r] = m /\ print[r] = p
  \/ /\ entry[m][p].kind = "probation"
     /\ \/ pc[r] = "renewed" /\ member[r] = m /\ print[r] = p
        \/ /\ claim[r] /\ pc[r] \in Claiming \cup {"wait"}
           /\ pc[r] \in {"loop", "sent", "wait"} => member[r] = m
           /\ pc[r] = "wait" => waits[r] = r

Owned ==
  \A m \in Member, p \in Fingerprint :
    IF entry[m][p].kind \in {"recovering", "probation"}
    THEN entry[m][p].owner \in Request /\ Owns(m, p, entry[m][p].owner)
    ELSE entry[m][p].owner = None

WaitsOwned ==
  \A r \in Request :
    waits[r] # None => \E m \in Member, p \in Fingerprint : entry[m][p].owner = waits[r]

\* A request that refreshes has the claim, or the credential was replaced.
Refreshing ==
  \A r \in Request :
    pc[r] = "refresh" => Recovers(r) \/ print[r] < current[member[r]]

\* Nobody who selected an account uses a credential that is on probation.
Reserved ==
  \A m \in Member, p \in Fingerprint, s \in Request :
    /\ entry[m][p].kind = "probation"
    /\ pc[s] \in Using /\ member[s] = m /\ why[s] = "fresh"
    => print[s] # p

IInv ==
  /\ Typed /\ Controlled /\ Ordered /\ Owned /\ WaitsOwned /\ Refreshing /\ OneRefresh /\ Reserved
  /\ LeasesReturned
-----------------------------------------------------------------------------
(* What a step of a request does to the others, and to the coordinator        *)

Framed(r) ==
  \A s \in Request \ {r} :
    /\ pc'[s] = pc[s] /\ why'[s] = why[s] /\ member'[s] = member[s] /\ print'[s] = print[s]
    /\ claim'[s] = claim[s]

HasEntry(o) == \E m \in Member, p \in Fingerprint : entry[m][p].owner = o

\* Nothing; the request keeps what it owns, and waits for an owner if for anyone.
Quiet(r) ==
  /\ UNCHANGED coordinator
  /\ pc'[r] # "refresh"
  /\ \A m \in Member, p \in Fingerprint : entry[m][p].owner = r => Owns(m, p, r)'
  /\ \A s \in Request :
       waits'[s] = waits[s] \/ (s = r /\ (waits'[s] = None \/ HasEntry(waits'[s])))

\* Only what the request does after a recovery is another thing.
Stays(r) == UNCHANGED <<coordinator, pc, member, print, waits, claim>>

\* The request owned nothing, and owns the recovery of a credential now.
Begins(r) ==
  \E m \in Member, p \in Fingerprint :
    /\ BeginRecovery(r, m, p)
    /\ current[m] = p /\ entry[m][p].kind \notin {"recovering", "probation", "rejected"}
    /\ pc'[r] = "refresh" /\ member'[r] = m /\ print'[r] = p
    /\ ~ HasEntry(r)
    /\ UNCHANGED waits

\* What the request owned is settled, and those who waited for it go on.
Settles(r) ==
  /\ \E kind \in Settled :
       \A m \in Member, p \in Fingerprint :
         entry'[m][p] = IF entry[m][p].owner = r THEN Known(kind) ELSE entry[m][p]
  /\ UNCHANGED current
  /\ pc'[r] # "refresh"
  /\ \A s \in Request : waits'[s] = IF waits[s] = r THEN None ELSE waits[s]

\* A credential that nobody owns is known to be good.
Accepts(r) ==
  /\ \E m \in Member, p \in Fingerprint : MarkAccepted(m, p)
  /\ ~ HasEntry(r)
  /\ pc'[r] # "refresh"

\* The claim moves to the credential that was refreshed.
Marks(r) ==
  LET m == member[r] IN
    /\ m \in Member /\ Recovers(r) /\ print[r] < file[m] /\ print[r] = current[m]
    /\ \A n \in Member, p \in Fingerprint :
         entry'[n][p] = IF n = m /\ p = file[m] THEN [kind |-> "probation", owner |-> r]
                        ELSE IF n = m /\ p = print[r] THEN Known("none") ELSE entry[n][p]
    /\ current' = [current EXCEPT ![m] = file[m]]
    /\ pc[r] = "refreshed" /\ pc'[r] = "renewed" /\ member'[r] = m /\ print'[r] = file[m]
    /\ UNCHANGED <<file, waits>>

-----------------------------------------------------------------------------
(* What the helpers of the actions leave                                       *)

\* What a finished probation leaves of the coordinator, entry by entry.
LEMMA FinishEffect ==
  ASSUME Typed, NEW r \in Request, member[r] \in Member,
         NEW kind \in {"accepted", "unknown", "rejected"}, FinishProbation(r, kind)
  PROVE  /\ TypedCoordinator' /\ waits' \in [Request -> Request \cup {None}]
         /\ heard' \in [Request -> Settled]
         /\ current' = current
         /\ \A m \in Member, p \in Fingerprint :
              entry'[m][p] = IF m = member[r] /\ OnProbation(r, p)
                             THEN Known(kind) ELSE entry[m][p]
         /\ \A s \in Request :
              waits'[s] = IF waits[s] = r /\ (\E p \in Fingerprint : OnProbation(r, p))
                          THEN None ELSE waits[s]
<1> USE DEF FinishProbation, Typed, TypedCoordinator, TypedClaims
<1>1. Known(kind) \in Entry BY DEF Known, Entry, Kinds, Settled
<1>2. entry' \in [Member -> [Fingerprint -> Entry]] BY <1>1
<1>3. /\ waits' \in [Request -> Request \cup {None}]
      /\ heard' \in [Request -> Settled]
  BY DEF Settle, Settled
<1>4. \A s \in Request :
        waits'[s] = IF waits[s] = r /\ (\E p \in Fingerprint : OnProbation(r, p))
                    THEN None ELSE waits[s]
  BY DEF Settle
<1> QED BY <1>2, <1>3, <1>4

\* What a failed refresh leaves.
LEMMA FailEffect ==
  ASSUME Typed, NEW r \in Request, member[r] \in Member, FailRefresh(r)
  PROVE  /\ entry' \in [Member -> [Fingerprint -> Entry]]
         /\ waits' \in [Request -> Request \cup {None}]
         /\ heard' \in [Request -> Settled]
         /\ \E kind \in {"rejected", "backoff"} :
              \A m \in Member, p \in Fingerprint :
                entry'[m][p] = IF m = member[r] /\ p = print[r] /\ Recovers(r)
                               THEN Known(kind) ELSE entry[m][p]
         /\ \A s \in Request :
              waits'[s] = IF waits[s] = r /\ Recovers(r) THEN None ELSE waits[s]
<1>1. print[r] \in Fingerprint BY DEF Typed, TypedAttempt
<1> USE DEF Typed, TypedCoordinator, TypedClaims
<1>2. PICK kind \in {"rejected", "backoff"} :
        IF Recovers(r)
        THEN entry' = [entry EXCEPT ![member[r]][print[r]] = Known(kind)] /\ Settle({r}, kind)
        ELSE UNCHANGED <<entry, waits, heard>>
  BY DEF FailRefresh
<1>3. Known(kind) \in Entry BY DEF Known, Entry, Kinds, Settled
<1>4. CASE Recovers(r)
  <2>1. entry' \in [Member -> [Fingerprint -> Entry]] BY <1>1, <1>2, <1>3, <1>4
  <2>2. /\ waits' \in [Request -> Request \cup {None}]
        /\ heard' \in [Request -> Settled]
        /\ \A s \in Request :
             waits'[s] = IF waits[s] = r /\ Recovers(r) THEN None ELSE waits[s]
    BY <1>2, <1>4 DEF Settle, Settled
  <2>3. \A m \in Member, p \in Fingerprint :
          entry'[m][p] = IF m = member[r] /\ p = print[r] /\ Recovers(r)
                         THEN Known(kind) ELSE entry[m][p]
    BY <1>1, <1>2, <1>4
  <2> QED BY <2>1, <2>2, <2>3
<1>5. CASE ~ Recovers(r) BY <1>2, <1>5
<1> QED BY <1>4, <1>5

\* What the beginning of a recovery leaves.
LEMMA BeginEffect ==
  ASSUME Typed, NEW r \in Request, NEW m \in Member, NEW p \in Fingerprint,
         BeginRecovery(r, m, p)
  PROVE  /\ TypedCoordinator'
         /\ \A n \in Member : current'[n] = IF n = m THEN p ELSE current[n]
         /\ \A n \in Member, q \in Fingerprint :
              entry'[n][q] = IF n = m /\ q = p THEN [kind |-> "recovering", owner |-> r]
                             ELSE entry[n][q]
<1>1. [kind |-> "recovering", owner |-> r] \in Entry BY DEF Entry, Kinds
<1> QED BY <1>1 DEF BeginRecovery, Typed, TypedCoordinator

\* What an accepted answer leaves.
LEMMA AcceptEffect ==
  ASSUME Typed, NEW m \in Member, NEW p \in Fingerprint, MarkAccepted(m, p)
  PROVE  /\ TypedCoordinator' /\ current' = current /\ UNCHANGED <<waits, heard>>
         /\ \A n \in Member, q \in Fingerprint :
              entry'[n][q] = IF /\ n = m /\ q = p
                                /\ current[m] = p
                                /\ entry[m][p].kind \in {"none", "unknown", "accepted"}
                             THEN Known("accepted") ELSE entry[n][q]
<1>1. Known("accepted") \in Entry BY DEF Known, Entry, Kinds, Settled
<1> QED BY <1>1 DEF MarkAccepted, Typed, TypedCoordinator

\* A synchronized account keeps the credential that is loaded, or is on the
\* current one.
LEMMA SynchronizedEffect ==
  ASSUME Typed
  PROVE  /\ Synchronized \in [Member -> Fingerprint]
         /\ \A m \in Member : Synchronized[m] \in {held[m], current[m]}
BY DEF Synchronized, Typed, TypedPool

\* It is never ahead of the coordinator.
LEMMA SynchronizedOrdered ==
  ASSUME Typed, CredentialsOrdered, Fingerprint \subseteq Nat
  PROVE  \A m \in Member : Synchronized[m] <= current[m]
<1>1. \A m \in Member : held[m] \in Nat /\ current[m] \in Nat
  BY DEF Typed, TypedCoordinator, TypedPool
<1> QED BY <1>1, SynchronizedEffect DEF CredentialsOrdered

\* The helpers of the actions keep the types.
LEMMA BackTyped ==
  ASSUME Typed, NEW r \in Request, NEW step \in Steps, Back(r, step)
  PROVE  TypedAttempt'
<1>1. 0 \in Fingerprint BY PrintAssumption DEF Fingerprint
<1> QED BY <1>1 DEF Back, Go, Typed, TypedAttempt

\* Moving a request on keeps the types of what it is about.
LEMMA GoTyped ==
  ASSUME Typed, NEW r \in Request, NEW step \in Steps, Go(r, step), UNCHANGED attempt
  PROVE  TypedAttempt'
BY DEF Go, Typed, TypedAttempt, attempt

\* So does giving it an account and a credential.
LEMMA AsksTyped ==
  ASSUME Typed, NEW r \in Request, NEW step \in Steps, NEW m \in Member, NEW p \in Fingerprint,
         NEW for \in {"backoff", "fresh", "denied", "select", "stream"},
         Go(r, step), Asks(r, m, p, for)
  PROVE  TypedAttempt'
BY DEF Go, Asks, Typed, TypedAttempt

\* So does sending an attempt.
LEMMA AttemptTyped ==
  ASSUME Typed, NEW r \in Request, NEW m \in Member, Attempt(r, m), UNCHANGED <<why, member>>
  PROVE  TypedAttempt' /\ inFlight' \in [Member -> Int]
BY DEF Attempt, Go, Typed, TypedAttempt, TypedPool, Steps

\* Giving up a claim keeps the types.
LEMMA ForgetTyped ==
  ASSUME Typed, NEW r \in Request, Forget(r)
  PROVE  TypedTries'
BY DEF Forget, Typed, TypedTries

\* So does excluding an account.
LEMMA ExcludeTyped ==
  ASSUME Typed, NEW r \in Request, NEW m \in Member, Exclude(r, m)
  PROVE  excluded' \in [Request -> SUBSET Member]
BY DEF Exclude, Typed, TypedTries

\* So does taking or giving back a lease, as far as integers go.
LEMMA LeaseTyped ==
  ASSUME Typed, NEW m \in Member
  PROVE  /\ Lease(m) => capacity' \in [Member -> Int]
         /\ Return(m) => capacity' \in [Member -> Int]
         /\ Release(m) => capacity' \in [Member -> Int] /\ inFlight' \in [Member -> Int]
BY DEF Lease, Return, Release, Typed, TypedPool

-----------------------------------------------------------------------------
(* Types, control and order                                                   *)

\* Every step keeps the types.
LEMMA TypedStep ==
  ASSUME Typed, Controlled, Next
  PROVE  Typed'
<1> USE PrintAssumption, ReplacedAssumption
<1>1. ASSUME NEW r \in Request, Start(r) PROVE Typed'
  <2>1. TypedCoordinator' BY <1>1 DEF Start, coordinator, Typed, TypedCoordinator
  <2>2. TypedPool' BY <1>1 DEF Start, pool, Typed, TypedPool
  <2>3. TypedAttempt' BY <1>1, GoTyped DEF Start, Steps
  <2>4. TypedTries' BY <1>1 DEF Start, tries, Typed, TypedTries
  <2>5. TypedClaims' BY <1>1 DEF Start, Typed, TypedClaims
  <2> QED BY <2>1, <2>2, <2>3, <2>4, <2>5 DEF Typed
<1>2. ASSUME NEW r \in Request, OutOfAccounts(r) PROVE Typed'
  <2>1. TypedCoordinator' BY <1>2 DEF OutOfAccounts, coordinator, Typed, TypedCoordinator
  <2>2. TypedPool' BY <1>2 DEF OutOfAccounts, pool, Typed, TypedPool
  <2>3. TypedAttempt' BY <1>2, BackTyped DEF OutOfAccounts, Ends, Steps
  <2>4. TypedTries' BY <1>2, ForgetTyped DEF OutOfAccounts, Ends
  <2>5. TypedClaims' BY <1>2 DEF OutOfAccounts, Typed, TypedClaims
  <2> QED BY <2>1, <2>2, <2>3, <2>4, <2>5 DEF Typed
<1>3. ASSUME NEW r \in Request, Select(r) PROVE Typed'
  <2>1. TypedCoordinator'
    BY <1>3, BeginEffect, SynchronizedEffect DEF Select, Choice, coordinator, Typed,
        TypedCoordinator
  <2>2. TypedPool'
    BY <1>3, LeaseTyped, SynchronizedEffect DEF Select, Choice, Typed, TypedPool
  <2>3. TypedAttempt' BY <1>3, AsksTyped, SynchronizedEffect DEF Select, Choice, Steps
  <2>4. TypedTries' BY <1>3 DEF Select, tries, Typed, TypedTries
  <2>5. TypedClaims' BY <1>3 DEF Select, Typed, TypedClaims
  <2> QED BY <2>1, <2>2, <2>3, <2>4, <2>5 DEF Typed
<1>4. ASSUME NEW r \in Request, AwaitRecovery(r) PROVE Typed'
  <2>1. TypedCoordinator' BY <1>4 DEF AwaitRecovery, coordinator, Typed, TypedCoordinator
  <2>2. TypedPool' BY <1>4, SynchronizedEffect DEF AwaitRecovery, Typed, TypedPool
  <2>3. TypedAttempt' BY <1>4, AsksTyped, SynchronizedEffect DEF AwaitRecovery, Steps
  <2>4. TypedTries' BY <1>4 DEF AwaitRecovery, tries, Typed, TypedTries
  <2>5. TypedClaims'
    BY <1>4, SynchronizedEffect DEF AwaitRecovery, Entry, Typed, TypedClaims,
        TypedCoordinator
  <2> QED BY <2>1, <2>2, <2>3, <2>4, <2>5 DEF Typed
<1>5. ASSUME NEW r \in Request, NoAccount(r) PROVE Typed'
  <2>1. TypedCoordinator' BY <1>5 DEF NoAccount, coordinator, Typed, TypedCoordinator
  <2>2. TypedPool' BY <1>5, SynchronizedEffect DEF NoAccount, Typed, TypedPool
  <2>3. TypedAttempt' BY <1>5, BackTyped DEF NoAccount, Ends, Steps
  <2>4. TypedTries' BY <1>5, ForgetTyped DEF NoAccount, Ends
  <2>5. TypedClaims' BY <1>5 DEF NoAccount, Typed, TypedClaims
  <2> QED BY <2>1, <2>2, <2>3, <2>4, <2>5 DEF Typed
<1>6. ASSUME NEW r \in Request, Revalidate(r) PROVE Typed'
  <2>0. member[r] \in Member BY <1>6 DEF Revalidate, Controlled, Active, Using, Recovering
  <2>1. TypedCoordinator' BY <1>6 DEF Revalidate, coordinator, Typed, TypedCoordinator
  <2>2. TypedPool' BY <1>6, <2>0, LeaseTyped, AttemptTyped DEF Revalidate, Typed, TypedPool
  <2>3. TypedAttempt' BY <1>6, <2>0, BackTyped, AttemptTyped DEF Revalidate, Steps
  <2>4. TypedTries' BY <1>6 DEF Revalidate, tries, Typed, TypedTries
  <2>5. TypedClaims' BY <1>6 DEF Revalidate, Typed, TypedClaims
  <2> QED BY <2>1, <2>2, <2>3, <2>4, <2>5 DEF Typed
<1>7. ASSUME NEW r \in Request, AbortRamp(r) PROVE Typed'
  <2>1. TypedCoordinator' BY <1>7 DEF AbortRamp, coordinator, Typed, TypedCoordinator
  <2>2. TypedPool' BY <1>7 DEF AbortRamp, pool, Typed, TypedPool
  <2>3. TypedAttempt' BY <1>7, GoTyped DEF AbortRamp, Steps
  <2>4. TypedTries' BY <1>7, ForgetTyped DEF AbortRamp
  <2>5. TypedClaims' BY <1>7 DEF AbortRamp, Typed, TypedClaims
  <2> QED BY <2>1, <2>2, <2>3, <2>4, <2>5 DEF Typed
<1>8. ASSUME NEW r \in Request, AcquireProbation(r) PROVE Typed'
  <2>0. member[r] \in Member
    BY <1>8 DEF AcquireProbation, Controlled, Active, Using, Recovering
  <2>1. TypedCoordinator' BY <1>8 DEF AcquireProbation, coordinator, Typed, TypedCoordinator
  <2>2. TypedPool'
    BY <1>8, <2>0, LeaseTyped, AttemptTyped DEF AcquireProbation, Typed, TypedPool
  <2>3. TypedAttempt' BY <1>8, <2>0, AttemptTyped DEF AcquireProbation
  <2>4. TypedTries' BY <1>8 DEF AcquireProbation, tries, Typed, TypedTries
  <2>5. TypedClaims' BY <1>8 DEF AcquireProbation, Typed, TypedClaims
  <2> QED BY <2>1, <2>2, <2>3, <2>4, <2>5 DEF Typed
<1>9. ASSUME NEW r \in Request, AcquireProbationFails(r) PROVE Typed'
  <2>1. TypedCoordinator'
    BY <1>9 DEF AcquireProbationFails, coordinator, Typed, TypedCoordinator
  <2>2. TypedPool' BY <1>9 DEF AcquireProbationFails, pool, Typed, TypedPool
  <2>3. TypedAttempt' BY <1>9, BackTyped DEF AcquireProbationFails, Ends, Steps
  <2>4. TypedTries' BY <1>9, ForgetTyped DEF AcquireProbationFails, Ends
  <2>5. TypedClaims' BY <1>9 DEF AcquireProbationFails, Typed, TypedClaims
  <2> QED BY <2>1, <2>2, <2>3, <2>4, <2>5 DEF Typed
<1>10. ASSUME NEW r \in Request, RecoverOverdue(r) PROVE Typed'
  <2>1. TypedCoordinator'
    BY <1>10, BeginEffect DEF RecoverOverdue, Overdue, Typed, TypedPool
  <2>2. TypedPool' BY <1>10 DEF RecoverOverdue, pool, Typed, TypedPool
  <2>3. TypedAttempt'
    BY <1>10, AsksTyped DEF RecoverOverdue, Overdue, Steps, Typed, TypedPool
  <2>4. TypedTries' BY <1>10 DEF RecoverOverdue, tries, Typed, TypedTries
  <2>5. TypedClaims' BY <1>10 DEF RecoverOverdue, Typed, TypedClaims
  <2> QED BY <2>1, <2>2, <2>3, <2>4, <2>5 DEF Typed
<1>11. ASSUME NEW r \in Request, Resume(r) PROVE Typed'
  <2>0. member[r] \in Member BY <1>11 DEF Resume, Controlled, Active, Using, Recovering
  <2>1. TypedCoordinator' BY <1>11 DEF Resume, coordinator, Typed, TypedCoordinator
  <2>2. TypedPool' BY <1>11 DEF Resume, pool, Typed, TypedPool
  <2>3. TypedAttempt' BY <1>11, <2>0, BackTyped DEF Resume, Steps
  <2>4. TypedTries' BY <1>11, <2>0, ExcludeTyped DEF Resume, Typed, TypedTries
  <2>5. TypedClaims' BY <1>11 DEF Resume, Settled, Typed, TypedClaims
  <2> QED BY <2>1, <2>2, <2>3, <2>4, <2>5 DEF Typed
<1>12. ASSUME NEW r \in Request, AbortWait(r) PROVE Typed'
  <2>0. member[r] \in Member BY <1>12 DEF AbortWait, Controlled, Active, Using, Recovering
  <2>1. TypedCoordinator' BY <1>12 DEF AbortWait, coordinator, Typed, TypedCoordinator
  <2>2. TypedPool' BY <1>12, <2>0, LeaseTyped DEF AbortWait, Typed, TypedPool
  <2>3. TypedAttempt' BY <1>12, BackTyped DEF AbortWait, Ends, Steps
  <2>4. TypedTries' BY <1>12, ForgetTyped DEF AbortWait, Ends
  <2>5. TypedClaims' BY <1>12 DEF AbortWait, Settled, Typed, TypedClaims
  <2> QED BY <2>1, <2>2, <2>3, <2>4, <2>5 DEF Typed
<1>13. ASSUME NEW r \in Request, RefreshWrites(r) PROVE Typed'
  <2>0. member[r] \in Member
    BY <1>13 DEF RefreshWrites, Controlled, Active, Using, Recovering
  <2>1. TypedCoordinator'
    BY <1>13, <2>0 DEF RefreshWrites, coordinator, Typed, TypedCoordinator
  <2>2. TypedPool' BY <1>13, <2>0 DEF RefreshWrites, Fingerprint, Typed, TypedPool
  <2>3. TypedAttempt' BY <1>13, <2>0, GoTyped DEF RefreshWrites, Steps
  <2>4. TypedTries' BY <1>13, <2>0 DEF RefreshWrites, tries, Typed, TypedTries
  <2>5. TypedClaims' BY <1>13, <2>0 DEF RefreshWrites, Typed, TypedClaims
  <2> QED BY <2>1, <2>2, <2>3, <2>4, <2>5 DEF Typed
<1>14. ASSUME NEW r \in Request, MarkRefreshed(r) PROVE Typed'
  <2>0. member[r] \in Member /\ print[r] \in Fingerprint
    BY <1>14 DEF MarkRefreshed, Controlled, Active, Recovering, Typed, TypedAttempt
  <2>1. file[member[r]] \in Fingerprint /\ Synchronized[member[r]] \in Fingerprint
    BY <2>0, SynchronizedEffect DEF Typed, TypedPool
  <2>2. CASE Recovers(r)
    <3>1. Known("none") \in Entry /\ [kind |-> "probation", owner |-> r] \in Entry
      BY DEF Known, Entry, Kinds, Settled
    <3>2. entry' = [entry EXCEPT ![member[r]] = 
                     [@ EXCEPT ![print[r]] = Known("none"),
                               ![file[member[r]]] = [kind |-> "probation", owner |-> r]]]
      BY <1>14, <2>2 DEF MarkRefreshed
    <3>3. [entry[member[r]] EXCEPT
             ![print[r]] = Known("none"),
             ![file[member[r]]] = [kind |-> "probation", owner |-> r]] \in [Fingerprint -> Entry]
      BY <2>0, <3>1 DEF Typed, TypedCoordinator
    <3>4. entry' \in [Member -> [Fingerprint -> Entry]]
      BY <3>2, <3>3, <2>0 DEF Typed, TypedCoordinator
    <3>5. current' \in [Member -> Fingerprint]
      BY <1>14, <2>1, <2>2 DEF MarkRefreshed, Typed, TypedCoordinator
    <3>6. TypedAttempt'
      BY <1>14, <2>1, <2>2 DEF MarkRefreshed, Go, Steps, Typed, TypedAttempt
    <3>7. TypedPool' BY <1>14, <2>2 DEF MarkRefreshed, Typed, TypedPool
    <3>8. TypedTries' /\ TypedClaims'
      BY <1>14 DEF MarkRefreshed, tries, Typed, TypedTries, TypedClaims
    <3> QED BY <3>4, <3>5, <3>6, <3>7, <3>8 DEF Typed, TypedCoordinator
  <2>3. CASE ~ Recovers(r)
    <3>1. TypedCoordinator'
      BY <1>14, <2>3 DEF MarkRefreshed, coordinator, Typed, TypedCoordinator
    <3>2. TypedAttempt'
      BY <1>14, <2>3, BackTyped, GoTyped DEF MarkRefreshed, Continue, Detached, Steps
    <3>3. TypedPool' BY <1>14, <2>1, <2>3 DEF MarkRefreshed, Typed, TypedPool
    <3>4. TypedTries' /\ TypedClaims'
      BY <1>14 DEF MarkRefreshed, tries, Typed, TypedTries, TypedClaims
    <3> QED BY <3>1, <3>2, <3>3, <3>4 DEF Typed
  <2> QED BY <2>2, <2>3
<1>15. ASSUME NEW r \in Request, Renewed(r) PROVE Typed'
  <2>0. member[r] \in Member BY <1>15 DEF Renewed, Controlled, Active, Using, Recovering
  <2>1. TypedCoordinator'
    BY <1>15, <2>0, FinishEffect DEF Renewed, coordinator, Typed, TypedCoordinator,
        TypedAttempt
  <2>2. TypedPool' BY <1>15, <2>0 DEF Renewed, Load, Typed, TypedPool, TypedAttempt
  <2>3. TypedAttempt' BY <1>15, <2>0, GoTyped, BackTyped DEF Renewed, Continue, Detached, Steps
  <2>4. TypedTries' BY <1>15 DEF Renewed, tries, Typed, TypedTries
  <2>5. TypedClaims'
    BY <1>15, <2>0, FinishEffect DEF Renewed, Typed, TypedClaims, TypedAttempt
  <2> QED BY <2>1, <2>2, <2>3, <2>4, <2>5 DEF Typed
<1>16. ASSUME NEW r \in Request, AbortRenewed(r) PROVE Typed'
  <2>0. member[r] \in Member
    BY <1>16 DEF AbortRenewed, Detached, Controlled, Active, Using, Recovering
  <2>1. TypedCoordinator'
    BY <1>16, <2>0, FinishEffect DEF AbortRenewed, Detached, Typed, TypedCoordinator, TypedAttempt
  <2>2. TypedPool' BY <1>16, <2>0 DEF AbortRenewed, Detached, Load, Typed, TypedPool, TypedAttempt
  <2>3. TypedAttempt' BY <1>16, <2>0, GoTyped DEF AbortRenewed, Detached, Steps
  <2>4. TypedTries' BY <1>16, <2>0, ForgetTyped DEF AbortRenewed
  <2>5. TypedClaims'
    BY <1>16, <2>0, FinishEffect DEF AbortRenewed, Detached, Typed, TypedClaims, TypedAttempt
  <2> QED BY <2>1, <2>2, <2>3, <2>4, <2>5 DEF Typed
<1>17. ASSUME NEW r \in Request, RefreshFails(r) PROVE Typed'
  <2>0. member[r] \in Member
    BY <1>17 DEF RefreshFails, Controlled, Active, Using, Recovering
  <2>1. TypedCoordinator'
    BY <1>17, <2>0, FailEffect DEF RefreshFails, Typed, TypedCoordinator
  <2>2. TypedPool' BY <1>17 DEF RefreshFails, pool, Typed, TypedPool
  <2>3. TypedAttempt'
    BY <1>17, <2>0, BackTyped, GoTyped DEF RefreshFails, Continue, Detached, Steps, attempt
  <2>4. TypedTries' BY <1>17, <2>0, ExcludeTyped DEF RefreshFails, Typed, TypedTries
  <2>5. TypedClaims' BY <1>17, <2>0, FailEffect DEF RefreshFails, Typed, TypedClaims
  <2> QED BY <2>1, <2>2, <2>3, <2>4, <2>5 DEF Typed
<1>18. ASSUME NEW r \in Request, AbortRefresh(r) PROVE Typed'
  <2>0. member[r] \in Member
    BY <1>18 DEF AbortRefresh, Detached, Controlled, Active, Using, Recovering
  <2>1. TypedCoordinator'
    BY <1>18, <2>0, FailEffect DEF AbortRefresh, Detached, Typed, TypedCoordinator
  <2>2. TypedPool' BY <1>18 DEF AbortRefresh, Detached, pool, Typed, TypedPool
  <2>3. TypedAttempt' BY <1>18, <2>0, GoTyped DEF AbortRefresh, Detached, Steps
  <2>4. TypedTries' BY <1>18, <2>0, ForgetTyped DEF AbortRefresh
  <2>5. TypedClaims' BY <1>18, <2>0, FailEffect DEF AbortRefresh, Detached, Typed, TypedClaims
  <2> QED BY <2>1, <2>2, <2>3, <2>4, <2>5 DEF Typed
<1>19. ASSUME NEW r \in Request, Judge(r) PROVE Typed'
  <2>0. member[r] \in Member BY <1>19 DEF Judge, Controlled, Active, Using, Recovering
  <2>1. TypedCoordinator' BY <1>19 DEF Judge, coordinator, Typed, TypedCoordinator
  <2>2. TypedPool' BY <1>19, <2>0, LeaseTyped DEF Judge, Typed, TypedPool
  <2>3. TypedAttempt' BY <1>19, <2>0, BackTyped, GoTyped DEF Judge, Ends, Steps
  <2>4. TypedTries'
    BY <1>19, <2>0, ExcludeTyped, ForgetTyped DEF Judge, Ends, Typed, TypedTries, tries
  <2>5. TypedClaims' BY <1>19 DEF Judge, Typed, TypedClaims
  <2> QED BY <2>1, <2>2, <2>3, <2>4, <2>5 DEF Typed
<1>20. ASSUME NEW r \in Request, Accepted(r) PROVE Typed'
  <2>0. member[r] \in Member BY <1>20 DEF Accepted, Controlled, Active, Using, Recovering
  <2>1. TypedCoordinator'
    BY <1>20, <2>0, FinishEffect, AcceptEffect DEF Accepted, Typed, TypedCoordinator,
        TypedAttempt
  <2>2. TypedPool' BY <1>20 DEF Accepted, pool, Typed, TypedPool
  <2>3. TypedAttempt' BY <1>20, <2>0, GoTyped DEF Accepted, Steps
  <2>4. TypedTries' BY <1>20, <2>0, ForgetTyped DEF Accepted
  <2>5. TypedClaims'
    BY <1>20, <2>0, FinishEffect, AcceptEffect DEF Accepted, Typed, TypedClaims,
        TypedAttempt
  <2> QED BY <2>1, <2>2, <2>3, <2>4, <2>5 DEF Typed
<1>21. ASSUME NEW r \in Request, StreamEnds(r) PROVE Typed'
  <2>0. member[r] \in Member BY <1>21 DEF StreamEnds, Controlled, Active, Using, Recovering
  <2>1. TypedCoordinator' BY <1>21 DEF StreamEnds, coordinator, Typed, TypedCoordinator
  <2>2. TypedPool' BY <1>21, <2>0, LeaseTyped DEF StreamEnds, Typed, TypedPool
  <2>3. TypedAttempt' BY <1>21, <2>0, BackTyped DEF StreamEnds, Ends, Steps
  <2>4. TypedTries' BY <1>21, <2>0, ForgetTyped DEF StreamEnds, Ends
  <2>5. TypedClaims' BY <1>21 DEF StreamEnds, Typed, TypedClaims
  <2> QED BY <2>1, <2>2, <2>3, <2>4, <2>5 DEF Typed
<1>22. ASSUME NEW r \in Request, DeniedOnProbation(r) PROVE Typed'
  <2>0. member[r] \in Member
    BY <1>22 DEF DeniedOnProbation, Controlled, Active, Using, Recovering
  <2>1. TypedCoordinator'
    BY <1>22, <2>0, FinishEffect DEF DeniedOnProbation, FinishClaim, coordinator, Typed,
        TypedCoordinator, TypedAttempt
  <2>2. TypedPool' BY <1>22, <2>0, LeaseTyped DEF DeniedOnProbation, Typed, TypedPool
  <2>3. TypedAttempt' BY <1>22, <2>0, BackTyped DEF DeniedOnProbation, Steps
  <2>4. TypedTries' BY <1>22, <2>0, ExcludeTyped DEF DeniedOnProbation, Typed, TypedTries
  <2>5. TypedClaims'
    BY <1>22, <2>0, FinishEffect DEF DeniedOnProbation, FinishClaim, Typed, TypedClaims,
        TypedAttempt
  <2> QED BY <2>1, <2>2, <2>3, <2>4, <2>5 DEF Typed
<1>23. ASSUME NEW r \in Request, Denied(r) PROVE Typed'
  <2>0. member[r] \in Member /\ print[r] \in Fingerprint
    BY <1>23 DEF Denied, Controlled, Active, Using, Typed, TypedAttempt
  <2>1. Recover(r) BY <1>23 DEF Denied
  <2>2. TypedCoordinator'
    BY <2>0, <2>1, BeginEffect DEF Recover, coordinator, Typed, TypedCoordinator
  <2>3. Synchronized[member[r]] \in Fingerprint BY <2>0, SynchronizedEffect
  <2>4. held' \in [Member -> Fingerprint] BY <2>1, <2>3 DEF Recover, Typed, TypedPool
  <2>5. TypedPool' BY <1>23, <2>0, <2>4, LeaseTyped DEF Denied, Typed, TypedPool
  <2>6. TypedAttempt' BY <2>0, <2>1, BackTyped, AsksTyped DEF Recover, Steps
  <2>7. TypedTries'
    BY <1>23, <2>0, <2>1, ExcludeTyped DEF Denied, Recover, Typed, TypedTries
  <2>8. TypedClaims'
    <3>1. UNCHANGED <<claim, heard>> BY <1>23 DEF Denied
    <3>2. entry[member[r]][print[r]].owner \in Request \cup {None}
      BY <2>0 DEF Entry, Typed, TypedCoordinator
    <3>3. waits' \in [Request -> Request \cup {None}]
      BY <2>1, <3>2 DEF Recover, Typed, TypedClaims
    <3> QED BY <3>1, <3>3 DEF Typed, TypedClaims
  <2> QED BY <2>2, <2>5, <2>6, <2>7, <2>8 DEF Typed
<1>24. ASSUME NEW r \in Request, Limited(r) PROVE Typed'
  <2>0. member[r] \in Member BY <1>24 DEF Limited, Controlled, Active, Using, Recovering
  <2>1. TypedCoordinator'
    BY <1>24, <2>0, FinishEffect DEF Limited, FinishClaim, coordinator, Typed,
        TypedCoordinator, TypedAttempt
  <2>2. TypedPool' BY <1>24, <2>0, LeaseTyped DEF Limited, Typed, TypedPool
  <2>3. TypedAttempt' BY <1>24, <2>0, BackTyped DEF Limited, Steps
  <2>4. TypedTries' BY <1>24, <2>0, ExcludeTyped DEF Limited, Typed, TypedTries
  <2>5. TypedClaims'
    BY <1>24, <2>0, FinishEffect DEF Limited, FinishClaim, Typed, TypedClaims, TypedAttempt
  <2> QED BY <2>1, <2>2, <2>3, <2>4, <2>5 DEF Typed
<1>25. ASSUME NEW r \in Request, Transient(r) PROVE Typed'
  <2>0. member[r] \in Member BY <1>25 DEF Transient, Controlled, Active, Using, Recovering
  <2>1. TypedCoordinator'
    BY <1>25, <2>0, FinishEffect DEF Transient, FinishClaim, coordinator, Typed,
        TypedCoordinator, TypedAttempt
  <2>2. TypedPool' BY <1>25, <2>0, LeaseTyped DEF Transient, Typed, TypedPool
  <2>3. TypedAttempt' BY <1>25, <2>0, BackTyped, GoTyped DEF Transient, Ends, Steps
  <2>4. TypedTries'
    <3>1. Exclude(r, member[r]) => excluded' \in [Request -> SUBSET Member]
      BY <2>0, ExcludeTyped
    <3>2. Forget(r) => TypedTries' BY ForgetTyped
    <3>3. [absorbed EXCEPT ![r] = @ \cup {member[r]}] \in [Request -> SUBSET Member]
      BY <2>0 DEF Typed, TypedTries
    <3> QED BY <1>25, <3>1, <3>2, <3>3 DEF Transient, Ends, Typed, TypedTries
  <2>5. TypedClaims'
    BY <1>25, <2>0, FinishEffect DEF Transient, FinishClaim, Typed, TypedClaims,
        TypedAttempt
  <2> QED BY <2>1, <2>2, <2>3, <2>4, <2>5 DEF Typed
<1>26. ASSUME NEW r \in Request, PauseEnds(r) PROVE Typed'
  <2>0. member[r] \in Member BY <1>26 DEF PauseEnds, Controlled, Active, Using, Recovering
  <2>1. TypedCoordinator' BY <1>26 DEF PauseEnds, coordinator, Typed, TypedCoordinator
  <2>2. TypedPool' BY <1>26, <2>0, LeaseTyped DEF PauseEnds, Typed, TypedPool
  <2>3. TypedAttempt' BY <1>26, <2>0, BackTyped DEF PauseEnds, Steps
  <2>4. TypedTries' BY <1>26 DEF PauseEnds, tries, Typed, TypedTries
  <2>5. TypedClaims' BY <1>26 DEF PauseEnds, Typed, TypedClaims
  <2> QED BY <2>1, <2>2, <2>3, <2>4, <2>5 DEF Typed
<1>27. ASSUME NEW r \in Request, Refused(r) PROVE Typed'
  <2>0. member[r] \in Member BY <1>27 DEF Refused, Controlled, Active, Using, Recovering
  <2>1. TypedCoordinator'
    BY <1>27, <2>0, FinishEffect DEF Refused, FinishClaim, coordinator, Typed,
        TypedCoordinator, TypedAttempt
  <2>2. TypedPool' BY <1>27, <2>0, LeaseTyped DEF Refused, Typed, TypedPool
  <2>3. TypedAttempt' BY <1>27, <2>0, BackTyped DEF Refused, Ends, Steps
  <2>4. TypedTries' BY <1>27, <2>0, ForgetTyped DEF Refused, Ends
  <2>5. TypedClaims'
    BY <1>27, <2>0, FinishEffect DEF Refused, FinishClaim, Typed, TypedClaims, TypedAttempt
  <2> QED BY <2>1, <2>2, <2>3, <2>4, <2>5 DEF Typed
<1>28. ASSUME NEW r \in Request, NoAnswer(r) PROVE Typed'
  <2>0. member[r] \in Member BY <1>28 DEF NoAnswer, Controlled, Active, Using, Recovering
  <2>1. TypedCoordinator' BY <1>28 DEF NoAnswer, coordinator, Typed, TypedCoordinator
  <2>2. TypedPool' BY <1>28, <2>0, LeaseTyped DEF NoAnswer, Typed, TypedPool
  <2>3. TypedAttempt' BY <1>28, <2>0, BackTyped DEF NoAnswer, Ends, Steps
  <2>4. TypedTries' BY <1>28, <2>0, ForgetTyped DEF NoAnswer, Ends
  <2>5. TypedClaims' BY <1>28 DEF NoAnswer, Typed, TypedClaims
  <2> QED BY <2>1, <2>2, <2>3, <2>4, <2>5 DEF Typed
<1>29. ASSUME NEW m \in Member, CoolingOver(m) PROVE Typed'
  <2>1. TypedCoordinator' BY <1>29 DEF CoolingOver, coordinator, Typed, TypedCoordinator
  <2>2. TypedPool' BY <1>29 DEF CoolingOver, Typed, TypedPool
  <2>3. TypedAttempt' BY <1>29 DEF CoolingOver, requests, attempt, Typed, TypedAttempt
  <2>4. TypedTries' BY <1>29 DEF CoolingOver, requests, tries, Typed, TypedTries
  <2>5. TypedClaims' BY <1>29 DEF CoolingOver, requests, Typed, TypedClaims
  <2> QED BY <2>1, <2>2, <2>3, <2>4, <2>5 DEF Typed
<1>30. ASSUME NEW m \in Member, BackoffOver(m) PROVE Typed'
  <2>1. TypedCoordinator'
    BY <1>30 DEF BackoffOver, Known, Entry, Kinds, Typed, TypedCoordinator
  <2>2. TypedPool' BY <1>30 DEF BackoffOver, pool, Typed, TypedPool
  <2>3. TypedAttempt' BY <1>30 DEF BackoffOver, requests, attempt, Typed, TypedAttempt
  <2>4. TypedTries' BY <1>30 DEF BackoffOver, requests, tries, Typed, TypedTries
  <2>5. TypedClaims' BY <1>30 DEF BackoffOver, requests, Typed, TypedClaims
  <2> QED BY <2>1, <2>2, <2>3, <2>4, <2>5 DEF Typed
<1>31. ASSUME NEW m \in Member, Relogin(m) PROVE Typed'
  <2>1. TypedCoordinator'
    BY <1>31 DEF Relogin, Fingerprint, Known, Entry, Kinds, Settled, Typed,
        TypedCoordinator, TypedPool
  <2>2. TypedPool' BY <1>31 DEF Relogin, Fingerprint, Typed, TypedPool
  <2>3. TypedAttempt' BY <1>31 DEF Relogin, attempt, Typed, TypedAttempt
  <2>4. TypedTries' BY <1>31 DEF Relogin, tries, Typed, TypedTries
  <2>5. TypedClaims' BY <1>31 DEF Relogin, Settle, Settled, Typed, TypedClaims
  <2> QED BY <2>1, <2>2, <2>3, <2>4, <2>5 DEF Typed
<1>32. ASSUME NEW r \in Request, StreamFails(r) PROVE Typed'
  <2>0. member[r] \in Member /\ held[member[r]] \in Fingerprint
    BY <1>32 DEF StreamFails, Controlled, Active, Using, Typed, TypedPool
  <2>1. TypedCoordinator'
    BY <1>32, <2>0, BeginEffect DEF StreamFails, coordinator, Typed, TypedCoordinator
  <2>2. Synchronized[member[r]] \in Fingerprint BY <2>0, SynchronizedEffect
  <2>3. TypedPool' BY <1>32, <2>0, <2>2 DEF StreamFails, Typed, TypedPool
  <2>4. TypedAttempt'
    BY <1>32, <2>0, AsksTyped DEF StreamFails, Steps, Typed, TypedAttempt
  <2>5. TypedTries' BY <1>32 DEF StreamFails, tries, Typed, TypedTries
  <2>6. TypedClaims' BY <1>32 DEF StreamFails, Typed, TypedClaims
  <2> QED BY <2>1, <2>3, <2>4, <2>5, <2>6 DEF Typed
<1>33. ASSUME NEW r \in Request, StreamFailsOnProbation(r) PROVE Typed'
  <2>0. member[r] \in Member
    BY <1>33 DEF StreamFailsOnProbation, Controlled, Active, Using, Recovering
  <2>1. TypedCoordinator'
    BY <1>33, <2>0, FinishEffect DEF StreamFailsOnProbation, FinishClaim, coordinator, Typed,
        TypedCoordinator
  <2>2. TypedPool' BY <1>33 DEF StreamFailsOnProbation, pool, Typed, TypedPool
  <2>3. TypedAttempt' BY <1>33 DEF StreamFailsOnProbation, Go, Steps, Typed, TypedAttempt
  <2>4. TypedTries'
    BY <1>33, ForgetTyped DEF StreamFailsOnProbation, tries, Typed, TypedTries
  <2>5. TypedClaims'
    BY <1>33, <2>0, FinishEffect DEF StreamFailsOnProbation, FinishClaim, Typed, TypedClaims
  <2> QED BY <2>1, <2>2, <2>3, <2>4, <2>5 DEF Typed
<1>34. ASSUME NEW r \in Request, StreamResumes(r) PROVE Typed'
  <2>1. TypedCoordinator' BY <1>34 DEF StreamResumes, coordinator, Typed, TypedCoordinator
  <2>2. TypedPool' BY <1>34 DEF StreamResumes, pool, Typed, TypedPool
  <2>3. TypedAttempt' BY <1>34 DEF StreamResumes, Go, Steps, Typed, TypedAttempt
  <2>4. TypedTries' BY <1>34, ForgetTyped DEF StreamResumes
  <2>5. TypedClaims' BY <1>34 DEF StreamResumes, Settled, Typed, TypedClaims
  <2> QED BY <2>1, <2>2, <2>3, <2>4, <2>5 DEF Typed
<1>35. ASSUME NEW r \in Request, StreamLeft(r) PROVE Typed'
  <2>0. member[r] \in Member BY <1>35 DEF StreamLeft, Controlled, Active, Using, Recovering
  <2>1. TypedCoordinator' BY <1>35 DEF StreamLeft, coordinator, Typed, TypedCoordinator
  <2>2. TypedPool' BY <1>35, <2>0, LeaseTyped DEF StreamLeft, Typed, TypedPool
  <2>3. TypedAttempt' BY <1>35 DEF StreamLeft, Typed, TypedAttempt
  <2>4. TypedTries' BY <1>35 DEF StreamLeft, tries, Typed, TypedTries
  <2>5. TypedClaims' BY <1>35 DEF StreamLeft, Typed, TypedClaims
  <2> QED BY <2>1, <2>2, <2>3, <2>4, <2>5 DEF Typed
<1> QED
  BY <1>1, <1>2, <1>3, <1>4, <1>5, <1>6, <1>7, <1>8, <1>9, <1>10, <1>11, <1>12, <1>13,
      <1>14, <1>15, <1>16, <1>17, <1>18, <1>19, <1>20, <1>21, <1>22, <1>23, <1>24,
      <1>25, <1>26, <1>27, <1>28, <1>29, <1>30, <1>31, <1>32, <1>33, <1>34, <1>35 DEF
      Next, Acquires, Recovery, Answered

\* Every step keeps what a request has at each of its steps.
LEMMA ControlledStep ==
  ASSUME Typed, Controlled, Next
  PROVE  Controlled'
<1> USE NoneAssumption
<1>1. ASSUME NEW r \in Request, Start(r) PROVE Controlled'
  BY <1>1 DEF Start, Go, tries, attempt, Controlled, Active, Using, Recovering, Claiming,
      Typed, TypedAttempt, TypedTries, TypedClaims
<1>2. ASSUME NEW r \in Request, OutOfAccounts(r) PROVE Controlled'
  BY <1>2 DEF OutOfAccounts, Back, Ends, Go, Forget, Controlled, Active, Using, Recovering,
      Claiming, Typed, TypedAttempt, TypedTries, TypedClaims
<1>3. ASSUME NEW r \in Request, Select(r) PROVE Controlled'
  BY <1>3 DEF Select, Asks, Go, Selects, Choice, tries, Controlled, Active, Using,
      Recovering, Claiming, Typed, TypedAttempt, TypedTries, TypedClaims
<1>4. ASSUME NEW r \in Request, AwaitRecovery(r) PROVE Controlled'
  BY <1>4 DEF AwaitRecovery, Asks, Go, Selects, tries, Controlled, Active, Using,
      Recovering, Claiming, Typed, TypedAttempt, TypedTries, TypedClaims
<1>5. ASSUME NEW r \in Request, NoAccount(r) PROVE Controlled'
  BY <1>5 DEF NoAccount, Back, Ends, Go, Selects, Forget, Controlled, Active, Using,
      Recovering, Claiming, Typed, TypedAttempt, TypedTries, TypedClaims
<1>6. ASSUME NEW r \in Request, Revalidate(r) PROVE Controlled'
  BY <1>6 DEF Revalidate, Attempt, Back, Go, tries, Controlled, Active, Using, Recovering,
      Claiming, Typed, TypedAttempt, TypedTries, TypedClaims
<1>7. ASSUME NEW r \in Request, AbortRamp(r) PROVE Controlled'
  BY <1>7 DEF AbortRamp, Go, Forget, attempt, Controlled, Active, Using, Recovering,
      Claiming, Typed, TypedAttempt, TypedTries, TypedClaims
<1>8. ASSUME NEW r \in Request, AcquireProbation(r) PROVE Controlled'
  BY <1>8 DEF AcquireProbation, Attempt, Go, tries, Controlled, Active, Using, Recovering,
      Claiming, Typed, TypedAttempt, TypedTries, TypedClaims
<1>9. ASSUME NEW r \in Request, AcquireProbationFails(r) PROVE Controlled'
  BY <1>9 DEF AcquireProbationFails, Back, Ends, Go, Forget, Controlled, Active, Using,
      Recovering, Claiming, Typed, TypedAttempt, TypedTries, TypedClaims
<1>10. ASSUME NEW r \in Request, RecoverOverdue(r) PROVE Controlled'
  BY <1>10 DEF RecoverOverdue, Asks, Go, tries, Overdue, Controlled, Active, Using,
      Recovering, Claiming, Typed, TypedAttempt, TypedTries, TypedClaims
<1>11. ASSUME NEW r \in Request, Resume(r) PROVE Controlled'
  BY <1>11 DEF Resume, Back, Go, Exclude, Controlled, Active, Using, Recovering, Claiming,
      Typed, TypedAttempt, TypedTries, TypedClaims
<1>12. ASSUME NEW r \in Request, AbortWait(r) PROVE Controlled'
  BY <1>12 DEF AbortWait, Back, Ends, Go, Forget, Controlled, Active, Using, Recovering,
      Claiming, Typed, TypedAttempt, TypedTries, TypedClaims
<1>13. ASSUME NEW r \in Request, RefreshWrites(r) PROVE Controlled'
  BY <1>13 DEF RefreshWrites, Go, tries, attempt, Controlled, Active, Using, Recovering,
      Claiming, Typed, TypedAttempt, TypedTries, TypedClaims
<1>14. ASSUME NEW r \in Request, MarkRefreshed(r) PROVE Controlled'
  BY <1>14 DEF MarkRefreshed, Back, Go, Continue, Detached, tries, attempt,
      Controlled, Active, Using,
      Recovering, Claiming, Typed, TypedAttempt, TypedTries, TypedClaims
<1>15. ASSUME NEW r \in Request, Renewed(r) PROVE Controlled'
  BY <1>15, FinishEffect DEF Renewed, Continue, Detached, Back, Go, tries,
      attempt, Controlled, Active, Using,
      Recovering, Claiming, Typed, TypedAttempt, TypedTries, TypedClaims
<1>16. ASSUME NEW r \in Request, AbortRenewed(r) PROVE Controlled'
  BY <1>16, FinishEffect DEF AbortRenewed, Detached, Go, Forget, attempt, Controlled, Active, Using,
      Recovering, Claiming, Typed, TypedAttempt, TypedTries, TypedClaims
<1>17. ASSUME NEW r \in Request, RefreshFails(r) PROVE Controlled'
  BY <1>17, FailEffect DEF RefreshFails, Back, Go, Continue, Detached, Exclude, attempt, Controlled,
      Active, Using, Recovering, Claiming, Typed, TypedAttempt, TypedTries, TypedClaims
<1>18. ASSUME NEW r \in Request, AbortRefresh(r) PROVE Controlled'
  BY <1>18, FailEffect DEF AbortRefresh, Detached, Go, Forget, attempt, Controlled, Active, Using,
      Recovering, Claiming, Typed, TypedAttempt, TypedTries, TypedClaims
<1>19. ASSUME NEW r \in Request, Judge(r) PROVE Controlled'
  BY <1>19 DEF Judge, Back, Ends, Go, tries, Exclude, Forget, attempt, Controlled, Active,
      Using, Recovering, Claiming, Typed, TypedAttempt, TypedTries, TypedClaims
<1>20. ASSUME NEW r \in Request, Accepted(r) PROVE Controlled'
  BY <1>20, FinishEffect, AcceptEffect DEF Accepted, Go, Forget, attempt, Controlled,
      Active, Using, Recovering, Claiming, Typed, TypedAttempt, TypedTries, TypedClaims
<1>21. ASSUME NEW r \in Request, StreamEnds(r) PROVE Controlled'
  BY <1>21 DEF StreamEnds, Back, Ends, Go, Forget, Controlled, Active, Using, Recovering,
      Claiming, Typed, TypedAttempt, TypedTries, TypedClaims
<1>22. ASSUME NEW r \in Request, DeniedOnProbation(r) PROVE Controlled'
  BY <1>22, FinishEffect DEF DeniedOnProbation, Back, Go, FinishClaim, Exclude, Controlled,
      Active, Using, Recovering, Claiming, Typed, TypedAttempt, TypedTries, TypedClaims
<1>23. ASSUME NEW r \in Request, Denied(r) PROVE Controlled'
  BY <1>23 DEF Denied, Asks, Back, Go, Recover, Exclude, Controlled, Active, Using,
      Recovering, Claiming, Typed, TypedAttempt, TypedTries, TypedClaims
<1>24. ASSUME NEW r \in Request, Limited(r) PROVE Controlled'
  BY <1>24, FinishEffect DEF Limited, Back, Go, FinishClaim, Exclude, Controlled, Active,
      Using, Recovering, Claiming, Typed, TypedAttempt, TypedTries, TypedClaims
<1>25. ASSUME NEW r \in Request, Transient(r) PROVE Controlled'
  BY <1>25, FinishEffect DEF Transient, Back, Ends, Go, FinishClaim, Exclude, Forget,
      attempt, Controlled, Active, Using, Recovering, Claiming, Typed, TypedAttempt,
      TypedTries, TypedClaims
<1>26. ASSUME NEW r \in Request, PauseEnds(r) PROVE Controlled'
  BY <1>26 DEF PauseEnds, Back, Go, tries, Controlled, Active, Using, Recovering, Claiming,
      Typed, TypedAttempt, TypedTries, TypedClaims
<1>27. ASSUME NEW r \in Request, Refused(r) PROVE Controlled'
  BY <1>27, FinishEffect DEF Refused, Back, Ends, Go, FinishClaim, Forget, Controlled,
      Active, Using, Recovering, Claiming, Typed, TypedAttempt, TypedTries, TypedClaims
<1>28. ASSUME NEW r \in Request, NoAnswer(r) PROVE Controlled'
  BY <1>28 DEF NoAnswer, Back, Ends, Go, Forget, Controlled, Active, Using, Recovering,
      Claiming, Typed, TypedAttempt, TypedTries, TypedClaims
<1>29. ASSUME NEW m \in Member, CoolingOver(m) PROVE Controlled'
  BY <1>29 DEF CoolingOver, tries, attempt, Controlled, Active, Using, Recovering, Claiming,
      requests, Typed, TypedAttempt, TypedTries, TypedClaims
<1>30. ASSUME NEW m \in Member, BackoffOver(m) PROVE Controlled'
  BY <1>30 DEF BackoffOver, tries, attempt, Controlled, Active, Using, Recovering, Claiming,
      requests, Typed, TypedAttempt, TypedTries, TypedClaims
<1>31. ASSUME NEW m \in Member, Relogin(m) PROVE Controlled'
  BY <1>31 DEF Relogin, Settle, tries, attempt, Controlled, Active, Using, Recovering,
      Claiming, Typed, TypedAttempt, TypedTries, TypedClaims
<1>32. ASSUME NEW r \in Request, StreamFails(r) PROVE Controlled'
  BY <1>32 DEF StreamFails, Asks, Go, tries, Controlled, Active, Using,
      Recovering, Claiming, Typed, TypedAttempt, TypedTries, TypedClaims
<1>33. ASSUME NEW r \in Request, StreamFailsOnProbation(r) PROVE Controlled'
  BY <1>33, FinishEffect DEF StreamFailsOnProbation, Go, FinishClaim, Forget,
      tries, Controlled, Active, Using,
      Recovering, Claiming, Typed, TypedAttempt, TypedTries, TypedClaims
<1>34. ASSUME NEW r \in Request, StreamResumes(r) PROVE Controlled'
  BY <1>34 DEF StreamResumes, Go, Forget, Controlled, Active, Using,
      Recovering, Claiming, Typed, TypedAttempt, TypedTries, TypedClaims
<1>35. ASSUME NEW r \in Request, StreamLeft(r) PROVE Controlled'
  BY <1>35 DEF StreamLeft, tries, Controlled, Active, Using,
      Recovering, Claiming, Typed, TypedAttempt, TypedTries, TypedClaims
<1> QED
  BY <1>1, <1>2, <1>3, <1>4, <1>5, <1>6, <1>7, <1>8, <1>9, <1>10, <1>11, <1>12, <1>13,
      <1>14, <1>15, <1>16, <1>17, <1>18, <1>19, <1>20, <1>21, <1>22, <1>23, <1>24,
      <1>25, <1>26, <1>27, <1>28, <1>29, <1>30, <1>31, <1>32, <1>33, <1>34, <1>35 DEF
      Next, Acquires, Recovery, Answered

\* A claim is on an entry of its request.
LEMMA OnProbationKind ==
  ASSUME NEW r \in Request
  PROVE  /\ \A p \in Fingerprint :
              OnProbation(r, p) =>
                entry[member[r]][p].kind = "probation" /\ entry[member[r]][p].owner = r
         /\ Recovers(r) =>
              /\ entry[member[r]][print[r]].kind = "recovering"
              /\ entry[member[r]][print[r]].owner = r
BY DEF OnProbation, Recovers

\* No change of an entry speaks of a credential that the account is not on.
LEMMA SpokenKept ==
  ASSUME Typed, Spoken, NEW r \in Request
  PROVE  /\ \A kind \in {"accepted", "unknown", "rejected"} :
              member[r] \in Member /\ FinishProbation(r, kind) => Spoken'
         /\ member[r] \in Member /\ FailRefresh(r) /\ UNCHANGED current => Spoken'
         /\ \A m \in Member, p \in Fingerprint :
              /\ MarkAccepted(m, p) => Spoken'
              /\ current[m] = p /\ BeginRecovery(r, m, p) => Spoken' /\ UNCHANGED current
         /\ UNCHANGED coordinator => Spoken'
<1>1. ASSUME NEW kind \in {"accepted", "unknown", "rejected"},
             member[r] \in Member, FinishProbation(r, kind)
      PROVE  Spoken'
  <2>1. \A m \in Member, p \in Fingerprint :
          entry'[m][p].kind # "none" => entry[m][p].kind # "none"
    BY <1>1, FinishEffect, OnProbationKind
  <2> QED BY <2>1, <1>1, FinishEffect DEF Spoken
<1>2. ASSUME member[r] \in Member, FailRefresh(r), UNCHANGED current PROVE Spoken'
  <2>1. \A m \in Member, p \in Fingerprint :
          entry'[m][p].kind # "none" => entry[m][p].kind # "none"
    BY <1>2, FailEffect, OnProbationKind
  <2> QED BY <2>1, <1>2 DEF Spoken
<1>3. ASSUME NEW m \in Member, NEW p \in Fingerprint, MarkAccepted(m, p) PROVE Spoken'
  BY <1>3, AcceptEffect DEF Spoken
<1>4. ASSUME NEW m \in Member, NEW p \in Fingerprint, current[m] = p, BeginRecovery(r, m, p)
      PROVE  Spoken' /\ UNCHANGED current
  <2>1. UNCHANGED current BY <1>4 DEF BeginRecovery, Typed, TypedCoordinator
  <2>2. \A n \in Member, q \in Fingerprint : (n = m /\ q = p) \/ entry'[n][q] = entry[n][q]
    BY <1>4 DEF BeginRecovery, Typed, TypedCoordinator
  <2> QED BY <1>4, <2>1, <2>2 DEF Spoken
<1>5. ASSUME UNCHANGED coordinator PROVE Spoken' BY <1>5 DEF Spoken, coordinator
<1> QED BY <1>1, <1>2, <1>3, <1>4, <1>5

\* Every step keeps the order of the credentials.
LEMMA OrderedStep ==
  ASSUME Typed, Controlled, Ordered, Next, Typed', Controlled'
  PROVE  Ordered'
<1>0. Fingerprint \subseteq Nat /\ 0 \in Fingerprint /\ Replaced \in [Member -> Fingerprint]
  BY PrintAssumption, ReplacedAssumption DEF Fingerprint
<1>a. \A m \in Member : /\ file[m] \in Nat /\ current[m] \in Nat /\ held[m] \in Nat
                       /\ file'[m] \in Nat /\ current'[m] \in Nat /\ held'[m] \in Nat
  BY <1>0 DEF Typed, TypedCoordinator, TypedPool
<1>b. \A r \in Request : print[r] \in Nat /\ print'[r] \in Nat
  BY <1>0 DEF Typed, TypedAttempt
<1> USE <1>0, <1>a, <1>b
<1>1. ASSUME NEW r \in Request, Start(r) PROVE Ordered'
  <2>1. CredentialsOrdered' /\ Spoken'
    BY <1>1 DEF Start, Known, coordinator, pool, Ordered, CredentialsOrdered, Spoken, Typed,
        TypedCoordinator, TypedPool, TypedAttempt
  <2>2. PrintsOrdered'
    BY <1>1 DEF Start, Go, Back, Asks, Attempt, coordinator, pool, attempt, Ordered,
        CredentialsOrdered, PrintsOrdered, Controlled, Active, Using, Recovering, Typed,
        TypedCoordinator, TypedPool, TypedAttempt
  <2> QED BY <2>1, <2>2 DEF Ordered
<1>2. ASSUME NEW r \in Request, OutOfAccounts(r) PROVE Ordered'
  <2>1. CredentialsOrdered' /\ Spoken'
    BY <1>2 DEF OutOfAccounts, Known, coordinator, pool, Ordered, CredentialsOrdered,
        Spoken, Typed, TypedCoordinator, TypedPool, TypedAttempt
  <2>2. PrintsOrdered'
    BY <1>2 DEF OutOfAccounts, Go, Back, Ends, Asks, Attempt, coordinator, pool, attempt,
        Ordered, CredentialsOrdered, PrintsOrdered, Controlled, Active, Using, Recovering,
        Typed, TypedCoordinator, TypedPool, TypedAttempt
  <2> QED BY <2>1, <2>2 DEF Ordered
<1>3. ASSUME NEW r \in Request, Select(r) PROVE Ordered'
  <2>1. held' = Synchronized /\ file' = file BY <1>3 DEF Select
  <2>2. PICK m \in Choice(r) :
          /\ Asks(r, m, held'[m], "fresh")
          /\ UNCHANGED coordinator \/ BeginRecovery(r, m, held'[m])
    BY <1>3 DEF Select
  <2>3. m \in Member /\ held'[m] \in Fingerprint /\ current[m] = held'[m]
    BY <2>1, <2>2, SynchronizedEffect DEF Choice, EligibleAs, Snapshot
  <2>4. Spoken' /\ UNCHANGED current BY <2>2, <2>3, SpokenKept DEF coordinator, Ordered
  <2>5. CredentialsOrdered'
    BY <2>1, <2>4, SynchronizedOrdered DEF Ordered, CredentialsOrdered
  <2>6. PrintsOrdered'
    BY <1>3, <2>1, <2>2, <2>3, <2>4 DEF Select, Asks, Go, Ordered, PrintsOrdered,
        Controlled, Active, Using, Recovering, Typed, TypedCoordinator, TypedPool,
        TypedAttempt
  <2> QED BY <2>1, <2>2, <2>3, <2>4, <2>5, <2>6 DEF Ordered
<1>4. ASSUME NEW r \in Request, AwaitRecovery(r) PROVE Ordered'
  <2>1. held' = Synchronized /\ file' = file BY <1>4 DEF AwaitRecovery
  <2>4. Spoken' /\ UNCHANGED current
    BY <1>4, SpokenKept DEF AwaitRecovery, coordinator, Ordered
  <2>5. CredentialsOrdered'
    BY <2>1, <2>4, SynchronizedOrdered DEF Ordered, CredentialsOrdered
  <2>6. PICK m \in Member : Asks(r, m, held'[m], "select") BY <1>4 DEF AwaitRecovery
  <2>7. Go(r, "wait") BY <1>4 DEF AwaitRecovery
  <2>8. PrintsOrdered'
    BY <2>1, <2>4, <2>5, <2>6, <2>7 DEF Asks, Go, Ordered, CredentialsOrdered,
        PrintsOrdered, Controlled, Active, Using, Recovering, Typed, TypedCoordinator,
        TypedPool, TypedAttempt
  <2> QED BY <2>1, <2>4, <2>5, <2>6, <2>7, <2>8 DEF Ordered
<1>5. ASSUME NEW r \in Request, NoAccount(r) PROVE Ordered'
  <2>1. held' = Synchronized /\ file' = file BY <1>5 DEF NoAccount
  <2>4. Spoken' /\ UNCHANGED current BY <1>5, SpokenKept DEF NoAccount, coordinator, Ordered
  <2>5. CredentialsOrdered'
    BY <2>1, <2>4, SynchronizedOrdered DEF Ordered, CredentialsOrdered
  <2>6. PrintsOrdered'
    BY <1>5, <2>1, <2>4 DEF NoAccount, Ends, Back, Go, Ordered, PrintsOrdered, Controlled,
        Active, Using, Recovering, Typed, TypedCoordinator, TypedPool, TypedAttempt
  <2> QED BY <2>1, <2>4, <2>5, <2>6 DEF Ordered
<1>6. ASSUME NEW r \in Request, Revalidate(r) PROVE Ordered'
  <2>1. CredentialsOrdered' /\ Spoken'
    BY <1>6 DEF Revalidate, coordinator, Ordered, CredentialsOrdered, Spoken
  <2>2. /\ member[r] \in Member /\ UNCHANGED <<current, file>>
        /\ Back(r, "acquire") \/ (Attempt(r, member[r]) /\ UNCHANGED member)
    BY <1>6 DEF Revalidate, coordinator, Controlled, Active, Using, Recovering
  <2>3. PrintsOrdered'
    BY <2>2 DEF Attempt, Back, Go, Ordered, CredentialsOrdered, PrintsOrdered, Controlled,
        Active, Using, Recovering, Typed, TypedAttempt
  <2> QED BY <2>1, <2>2, <2>3 DEF Ordered
<1>7. ASSUME NEW r \in Request, AbortRamp(r) PROVE Ordered'
  <2>1. CredentialsOrdered' /\ Spoken'
    BY <1>7 DEF AbortRamp, Known, coordinator, pool, Ordered, CredentialsOrdered, Spoken,
        Typed, TypedCoordinator, TypedPool, TypedAttempt
  <2>2. PrintsOrdered'
    BY <1>7 DEF AbortRamp, Go, Back, Asks, Attempt, coordinator, pool, attempt, Ordered,
        CredentialsOrdered, PrintsOrdered, Controlled, Active, Using, Recovering, Typed,
        TypedCoordinator, TypedPool, TypedAttempt
  <2> QED BY <2>1, <2>2 DEF Ordered
<1>8. ASSUME NEW r \in Request, AcquireProbation(r) PROVE Ordered'
  <2>1. CredentialsOrdered' /\ Spoken'
    BY <1>8 DEF AcquireProbation, Known, coordinator, Ordered, CredentialsOrdered, Spoken,
        Typed, TypedCoordinator, TypedPool, TypedAttempt
  <2>2. PrintsOrdered'
    BY <1>8 DEF AcquireProbation, Go, Back, Asks, Attempt, coordinator, attempt, Ordered,
        CredentialsOrdered, PrintsOrdered, Controlled, Active, Using, Recovering, Typed,
        TypedCoordinator, TypedPool, TypedAttempt
  <2> QED BY <2>1, <2>2 DEF Ordered
<1>9. ASSUME NEW r \in Request, AcquireProbationFails(r) PROVE Ordered'
  <2>1. CredentialsOrdered' /\ Spoken'
    BY <1>9 DEF AcquireProbationFails, Known, coordinator, pool, Ordered,
        CredentialsOrdered, Spoken, Typed, TypedCoordinator, TypedPool, TypedAttempt
  <2>2. PrintsOrdered'
    BY <1>9 DEF AcquireProbationFails, Go, Back, Ends, Asks, Attempt, coordinator, pool,
        attempt, Ordered, CredentialsOrdered, PrintsOrdered, Controlled, Active, Using,
        Recovering, Typed, TypedCoordinator, TypedPool, TypedAttempt
  <2> QED BY <2>1, <2>2 DEF Ordered
<1>10. ASSUME NEW r \in Request, RecoverOverdue(r) PROVE Ordered'
  <2>1. PICK m \in Overdue(r) : BeginRecovery(r, m, held[m]) /\ Asks(r, m, held[m], "backoff")
    BY <1>10 DEF RecoverOverdue
  <2>2. m \in Member /\ held[m] \in Fingerprint /\ current[m] = held[m]
    BY <2>1 DEF Overdue, Snapshot, Typed, TypedPool
  <2>3. Spoken' /\ UNCHANGED current BY <2>1, <2>2, SpokenKept DEF Ordered
  <2>4. CredentialsOrdered'
    BY <1>10, <2>3 DEF RecoverOverdue, pool, Ordered, CredentialsOrdered
  <2>5. PrintsOrdered'
    BY <1>10, <2>1, <2>2, <2>3 DEF RecoverOverdue, Asks, Go, pool, Ordered, PrintsOrdered,
        Controlled, Active, Using, Recovering, Typed, TypedCoordinator, TypedPool,
        TypedAttempt
  <2> QED BY <2>1, <2>2, <2>3, <2>4, <2>5 DEF Ordered
<1>11. ASSUME NEW r \in Request, Resume(r) PROVE Ordered'
  <2>1. CredentialsOrdered' /\ Spoken'
    BY <1>11 DEF Resume, Known, coordinator, pool, Ordered, CredentialsOrdered, Spoken,
        Typed, TypedCoordinator, TypedPool, TypedAttempt
  <2>2. PrintsOrdered'
    BY <1>11 DEF Resume, Go, Back, coordinator, pool, Ordered, PrintsOrdered, Active, Using,
        Recovering, Typed, TypedAttempt
  <2> QED BY <2>1, <2>2 DEF Ordered
<1>12. ASSUME NEW r \in Request, AbortWait(r) PROVE Ordered'
  <2>1. CredentialsOrdered' /\ Spoken'
    BY <1>12 DEF AbortWait, Known, coordinator, Ordered, CredentialsOrdered, Spoken,
        Typed, TypedCoordinator, TypedPool, TypedAttempt
  <2>2. PrintsOrdered'
    BY <1>12 DEF AbortWait, Go, Back, Ends, Asks, Attempt, coordinator, attempt,
        Ordered, CredentialsOrdered, PrintsOrdered, Controlled, Active, Using, Recovering,
        Typed, TypedCoordinator, TypedPool, TypedAttempt
  <2> QED BY <2>1, <2>2 DEF Ordered
<1>13. ASSUME NEW r \in Request, RefreshWrites(r) PROVE Ordered'
  <2>0. member[r] \in Member
    BY <1>13 DEF RefreshWrites, Controlled, Active, Using, Recovering
  <2>1. Spoken' BY <1>13 DEF RefreshWrites, coordinator, Ordered, Spoken
  <2>2. /\ file[member[r]] \in Nat /\ file' = [file EXCEPT ![member[r]] = @ + 1]
        /\ UNCHANGED <<entry, current, held, member, print>>
    BY <1>13, <2>0 DEF RefreshWrites, coordinator, attempt, Typed, TypedPool
  <2>3. \A m \in Member : file[m] <= file'[m] /\ file[m] \in Nat /\ current[m] \in Nat
    BY <2>2 DEF Typed, TypedCoordinator, TypedPool, TypedAttempt
  <2>4. CredentialsOrdered'
    BY <2>2, <2>3 DEF Ordered, CredentialsOrdered, Typed, TypedCoordinator, TypedPool,
        TypedAttempt
  <2>5. print[r] \in Nat /\ print[r] < file'[member[r]]
    BY <1>13, <2>0, <2>2 DEF RefreshWrites, Ordered, CredentialsOrdered, PrintsOrdered,
        Controlled, Active, Using, Recovering, Typed, TypedCoordinator, TypedPool,
        TypedAttempt
  <2>6. \A s \in Request : print[s] \in Nat
    BY DEF Typed, TypedCoordinator, TypedPool, TypedAttempt
  <2>7. PrintsOrdered'
    BY <1>13, <2>2, <2>3, <2>5, <2>6 DEF RefreshWrites, Go, Ordered, PrintsOrdered,
        Controlled, Active, Using, Recovering, Typed, TypedCoordinator, TypedPool,
        TypedAttempt
  <2> QED BY <2>0, <2>1, <2>2, <2>3, <2>4, <2>5, <2>6, <2>7 DEF Ordered
<1>14. ASSUME NEW r \in Request, MarkRefreshed(r) PROVE Ordered'
  <2>0. /\ member[r] \in Member /\ print[r] \in Fingerprint
        /\ file[member[r]] \in Fingerprint /\ pc[r] = "refreshed"
    BY <1>14 DEF MarkRefreshed, Controlled, Active, Using, Recovering, Typed,
        TypedCoordinator, TypedPool, TypedAttempt
  <2>1. CASE Recovers(r)
    <3>1. current[member[r]] = print[r] BY <2>0, <2>1 DEF Recovers, Ordered, Spoken
    <3>2. current' = [current EXCEPT ![member[r]] = file[member[r]]] /\ UNCHANGED <<file, held>>
      BY <1>14, <2>1 DEF MarkRefreshed
    <3>3. CredentialsOrdered'
      BY <2>0, <3>2 DEF Ordered, CredentialsOrdered, Typed, TypedCoordinator, TypedPool,
          TypedAttempt
    <3>4. \A m \in Member, p \in Fingerprint :
            entry'[m][p] = IF m = member[r] /\ p = file[m] THEN [kind |-> "probation", owner |-> r]
                           ELSE IF m = member[r] /\ p = print[r] THEN Known("none")
                           ELSE entry[m][p]
      BY <1>14, <2>0, <2>1 DEF MarkRefreshed, Typed, TypedCoordinator, TypedPool,
          TypedAttempt
    <3>5. Spoken'
      BY <2>0, <3>1, <3>2, <3>4 DEF Known, Ordered, Spoken, Typed, TypedCoordinator,
          TypedPool, TypedAttempt
    <3>6. \A m \in Member : current[m] <= current'[m]
      BY <3>2, <2>0 DEF Ordered, CredentialsOrdered, Typed, TypedCoordinator, TypedPool,
          TypedAttempt
    <3>7. /\ pc' = [pc EXCEPT ![r] = "renewed"] /\ print' = [print EXCEPT ![r] = file[member[r]]]
          /\ UNCHANGED member
      BY <1>14, <2>1 DEF MarkRefreshed, Go
    <3>8. \A s \in Request : print[s] \in Nat
      BY DEF Typed, TypedCoordinator, TypedPool, TypedAttempt
    <3>9. \A m \in Member : current[m] \in Nat /\ current'[m] \in Nat
      BY DEF Typed, TypedCoordinator, TypedPool, TypedAttempt
    <3>10. PrintsOrdered'
      BY <2>0, <3>2, <3>6, <3>7, <3>8, <3>9 DEF Ordered, PrintsOrdered, Controlled, Active,
          Using, Recovering, Typed, TypedCoordinator, TypedPool, TypedAttempt
    <3> QED BY <3>3, <3>5, <3>10 DEF Ordered
  <2>2. CASE ~ Recovers(r)
    <3>1. Spoken' /\ UNCHANGED <<current, file>>
      BY <1>14, <2>2 DEF MarkRefreshed, coordinator, Ordered, Spoken
    <3>2. CredentialsOrdered'
      BY <1>14, <2>0, <2>2, <3>1, SynchronizedOrdered DEF MarkRefreshed, Ordered,
          CredentialsOrdered, Typed, TypedPool
    <3>3. PrintsOrdered'
      BY <1>14, <2>2, <3>1 DEF MarkRefreshed, Continue, Detached, Back, Go, attempt, Ordered,
          PrintsOrdered, Controlled, Active, Using, Recovering, Typed, TypedCoordinator,
          TypedPool, TypedAttempt
    <3> QED BY <3>1, <3>2, <3>3 DEF Ordered
  <2> QED BY <2>1, <2>2
<1>15. ASSUME NEW r \in Request, Renewed(r) PROVE Ordered'
  <2>0. member[r] \in Member BY <1>15 DEF Renewed, Controlled, Active, Using, Recovering
  <2>1. Spoken' /\ UNCHANGED current
    BY <1>15, <2>0, SpokenKept, FinishEffect DEF Renewed, coordinator, Ordered
  <2>2. CredentialsOrdered'
    BY <1>15, <2>0, <2>1 DEF Renewed, Load, Ordered, CredentialsOrdered, PrintsOrdered,
        Active, Typed, TypedCoordinator, TypedPool, TypedAttempt
  <2>3. PrintsOrdered'
    BY <1>15, <2>1 DEF Renewed, Continue, Detached, Back, Go, Asks, Attempt,
        attempt, Ordered, PrintsOrdered,
        Controlled, Active, Using, Recovering, Typed, TypedCoordinator, TypedPool,
        TypedAttempt
  <2> QED BY <2>0, <2>1, <2>2, <2>3 DEF Ordered
<1>16. ASSUME NEW r \in Request, AbortRenewed(r) PROVE Ordered'
  <2>0. member[r] \in Member
    BY <1>16 DEF AbortRenewed, Detached, Controlled, Active, Using, Recovering
  <2>1. Spoken' /\ UNCHANGED current
    BY <1>16, <2>0, SpokenKept, FinishEffect DEF AbortRenewed, Detached, coordinator, Ordered
  <2>2. CredentialsOrdered'
    BY <1>16, <2>0, <2>1 DEF AbortRenewed, Detached, Load, Ordered,
        CredentialsOrdered, PrintsOrdered,
        Active, Typed, TypedCoordinator, TypedPool, TypedAttempt
  <2>3. PrintsOrdered'
    BY <1>16, <2>1 DEF AbortRenewed, Detached, Go, Back, Asks, Attempt, attempt, Ordered,
        PrintsOrdered, Controlled, Active, Using, Recovering, Typed, TypedCoordinator,
        TypedPool, TypedAttempt
  <2> QED BY <2>0, <2>1, <2>2, <2>3 DEF Ordered
<1>17. ASSUME NEW r \in Request, RefreshFails(r) PROVE Ordered'
  <2>0. member[r] \in Member
    BY <1>17 DEF RefreshFails, Controlled, Active, Using, Recovering
  <2>1. Spoken' /\ UNCHANGED current
    BY <1>17, <2>0, SpokenKept, FinishEffect DEF RefreshFails, coordinator, Ordered
  <2>2. CredentialsOrdered'
    BY <1>17, <2>1 DEF RefreshFails, pool, Ordered, CredentialsOrdered
  <2>3. PrintsOrdered'
    BY <1>17, <2>1 DEF RefreshFails, Go, Back, Asks, Attempt, Continue, Detached, attempt, pool,
        Ordered, PrintsOrdered, Controlled, Active, Using, Recovering, Typed,
        TypedCoordinator, TypedPool, TypedAttempt
  <2> QED BY <2>0, <2>1, <2>2, <2>3 DEF Ordered
<1>18. ASSUME NEW r \in Request, AbortRefresh(r) PROVE Ordered'
  <2>0. member[r] \in Member
    BY <1>18 DEF AbortRefresh, Detached, Controlled, Active, Using, Recovering
  <2>1. Spoken' /\ UNCHANGED current
    BY <1>18, <2>0, SpokenKept, FinishEffect DEF AbortRefresh, Detached, coordinator, Ordered
  <2>2. CredentialsOrdered'
    BY <1>18, <2>1 DEF AbortRefresh, Detached, pool, Ordered, CredentialsOrdered
  <2>3. PrintsOrdered'
    BY <1>18, <2>1 DEF AbortRefresh, Detached, Go, Back, Asks, Attempt, attempt, pool, Ordered,
        PrintsOrdered, Controlled, Active, Using, Recovering, Typed, TypedCoordinator,
        TypedPool, TypedAttempt
  <2> QED BY <2>0, <2>1, <2>2, <2>3 DEF Ordered
<1>19. ASSUME NEW r \in Request, Judge(r) PROVE Ordered'
  <2>1. CredentialsOrdered' /\ Spoken'
    BY <1>19 DEF Judge, Known, coordinator, Ordered, CredentialsOrdered, Spoken, Typed,
        TypedCoordinator, TypedPool, TypedAttempt
  <2>2. PrintsOrdered'
    BY <1>19 DEF Judge, Go, Back, Ends, coordinator, attempt, Ordered, PrintsOrdered, Active,
        Using, Recovering, Typed, TypedAttempt
  <2> QED BY <2>1, <2>2 DEF Ordered
<1>20. ASSUME NEW r \in Request, Accepted(r) PROVE Ordered'
  <2>0. member[r] \in Member BY <1>20 DEF Accepted, Controlled, Active, Using, Recovering
  <2>1. Spoken' /\ UNCHANGED current
    BY <1>20, <2>0, SpokenKept, FinishEffect, AcceptEffect DEF Accepted, coordinator,
        Ordered, Typed, TypedAttempt
  <2>2. CredentialsOrdered' BY <1>20, <2>1 DEF Accepted, pool, Ordered, CredentialsOrdered
  <2>3. PrintsOrdered'
    BY <1>20, <2>1 DEF Accepted, Go, Back, Asks, Attempt, attempt, pool, Ordered,
        PrintsOrdered, Controlled, Active, Using, Recovering, Typed, TypedCoordinator,
        TypedPool, TypedAttempt
  <2> QED BY <2>0, <2>1, <2>2, <2>3 DEF Ordered
<1>21. ASSUME NEW r \in Request, StreamEnds(r) PROVE Ordered'
  <2>1. CredentialsOrdered' /\ Spoken'
    BY <1>21 DEF StreamEnds, Known, coordinator, Ordered, CredentialsOrdered, Spoken, Typed,
        TypedCoordinator, TypedPool, TypedAttempt
  <2>2. PrintsOrdered'
    BY <1>21 DEF StreamEnds, Go, Back, Ends, Asks, Attempt, coordinator, attempt, Ordered,
        CredentialsOrdered, PrintsOrdered, Controlled, Active, Using, Recovering, Typed,
        TypedCoordinator, TypedPool, TypedAttempt
  <2> QED BY <2>1, <2>2 DEF Ordered
<1>22. ASSUME NEW r \in Request, DeniedOnProbation(r) PROVE Ordered'
  <2>0. member[r] \in Member
    BY <1>22 DEF DeniedOnProbation, Controlled, Active, Using, Recovering
  <2>1. Spoken' /\ UNCHANGED current
    BY <1>22, <2>0, SpokenKept, FinishEffect DEF DeniedOnProbation, FinishClaim,
        coordinator, Ordered
  <2>2. CredentialsOrdered'
    BY <1>22, <2>1 DEF DeniedOnProbation, Ordered, CredentialsOrdered
  <2>3. PrintsOrdered'
    BY <1>22, <2>1 DEF DeniedOnProbation, Go, Back, Asks, Attempt, attempt, Ordered,
        PrintsOrdered, Controlled, Active, Using, Recovering, Typed, TypedCoordinator,
        TypedPool, TypedAttempt
  <2> QED BY <2>0, <2>1, <2>2, <2>3 DEF Ordered
<1>23. ASSUME NEW r \in Request, Denied(r) PROVE Ordered'
  <2>0. member[r] \in Member /\ print[r] \in Fingerprint
    BY <1>23 DEF Denied, Controlled, Active, Using, Recovering, Typed, TypedAttempt
  <2>1. Recover(r) /\ file' = file BY <1>23 DEF Denied
  <2>2. Role(member[r], print[r]) = "owner" => current[member[r]] = print[r]
    BY <2>0 DEF Role, Ordered, Spoken
  <2>3. Spoken' /\ UNCHANGED current
    BY <2>0, <2>1, <2>2, SpokenKept DEF Recover, coordinator, Ordered
  <2>4. UNCHANGED held \/ held' = [held EXCEPT ![member[r]] = Synchronized[member[r]]]
    BY <2>1 DEF Recover
  <2>5. CredentialsOrdered'
    BY <2>0, <2>1, <2>3, <2>4, SynchronizedOrdered DEF Ordered, CredentialsOrdered, Typed,
        TypedPool
  <2>6. \/ Back(r, "loop")
        \/ \E step \in {"wait", "refresh"} : Go(r, step) /\ Asks(r, member[r], print[r], "denied")
    BY <2>1 DEF Recover
  <2>7. print[r] <= current[member[r]]
    BY <1>23 DEF Denied, Ordered, PrintsOrdered, Active, Using
  <2>8. PrintsOrdered'
    BY <2>0, <2>1, <2>3, <2>6, <2>7 DEF Asks, Back, Go, Ordered, PrintsOrdered, Active,
        Using, Recovering, Typed, TypedAttempt
  <2> QED BY <2>0, <2>1, <2>2, <2>3, <2>4, <2>5, <2>6, <2>7, <2>8 DEF Ordered
<1>24. ASSUME NEW r \in Request, Limited(r) PROVE Ordered'
  <2>0. member[r] \in Member BY <1>24 DEF Limited, Controlled, Active, Using, Recovering
  <2>1. Spoken' /\ UNCHANGED current
    BY <1>24, <2>0, SpokenKept, FinishEffect DEF Limited, FinishClaim, coordinator, Ordered
  <2>2. CredentialsOrdered' BY <1>24, <2>1 DEF Limited, Ordered, CredentialsOrdered
  <2>3. PrintsOrdered'
    BY <1>24, <2>1 DEF Limited, Go, Back, Asks, Attempt, attempt, Ordered, PrintsOrdered,
        Controlled, Active, Using, Recovering, Typed, TypedCoordinator, TypedPool,
        TypedAttempt
  <2> QED BY <2>0, <2>1, <2>2, <2>3 DEF Ordered
<1>25. ASSUME NEW r \in Request, Transient(r) PROVE Ordered'
  <2>0. member[r] \in Member BY <1>25 DEF Transient, Controlled, Active, Using, Recovering
  <2>1. Spoken' /\ UNCHANGED current
    BY <1>25, <2>0, SpokenKept, FinishEffect DEF Transient, FinishClaim, coordinator,
        Ordered
  <2>2. CredentialsOrdered' BY <1>25, <2>1 DEF Transient, Ordered, CredentialsOrdered
  <2>3. \/ Go(r, "pause") /\ UNCHANGED attempt
        \/ \E step \in {"loop", "done"} : Back(r, step)
    BY <1>25 DEF Transient, Ends
  <2>4. pc[r] = "sent" /\ UNCHANGED file BY <1>25 DEF Transient
  <2>5. PrintsOrdered'
    BY <2>1, <2>3, <2>4 DEF Go, Back, attempt, Ordered, PrintsOrdered, Controlled, Active,
        Using, Recovering, Typed, TypedAttempt
  <2> QED BY <2>0, <2>1, <2>2, <2>3, <2>4, <2>5 DEF Ordered
<1>26. ASSUME NEW r \in Request, PauseEnds(r) PROVE Ordered'
  <2>1. CredentialsOrdered' /\ Spoken'
    BY <1>26 DEF PauseEnds, Known, coordinator, Ordered, CredentialsOrdered, Spoken, Typed,
        TypedCoordinator, TypedPool, TypedAttempt
  <2>2. PrintsOrdered'
    BY <1>26 DEF PauseEnds, Go, Back, Asks, Attempt, coordinator, attempt, Ordered,
        CredentialsOrdered, PrintsOrdered, Controlled, Active, Using, Recovering, Typed,
        TypedCoordinator, TypedPool, TypedAttempt
  <2> QED BY <2>1, <2>2 DEF Ordered
<1>27. ASSUME NEW r \in Request, Refused(r) PROVE Ordered'
  <2>0. member[r] \in Member BY <1>27 DEF Refused, Controlled, Active, Using, Recovering
  <2>1. Spoken' /\ UNCHANGED current
    BY <1>27, <2>0, SpokenKept, FinishEffect DEF Refused, FinishClaim, coordinator, Ordered
  <2>2. CredentialsOrdered' BY <1>27, <2>1 DEF Refused, Ordered, CredentialsOrdered
  <2>3. PrintsOrdered'
    BY <1>27, <2>1 DEF Refused, Go, Back, Ends, Asks, Attempt, attempt, Ordered,
        PrintsOrdered, Controlled, Active, Using, Recovering, Typed, TypedCoordinator,
        TypedPool, TypedAttempt
  <2> QED BY <2>0, <2>1, <2>2, <2>3 DEF Ordered
<1>28. ASSUME NEW r \in Request, NoAnswer(r) PROVE Ordered'
  <2>1. CredentialsOrdered' /\ Spoken'
    BY <1>28 DEF NoAnswer, Known, coordinator, Ordered, CredentialsOrdered, Spoken, Typed,
        TypedCoordinator, TypedPool, TypedAttempt
  <2>2. PrintsOrdered'
    BY <1>28 DEF NoAnswer, Go, Back, Ends, Asks, Attempt, coordinator, attempt, Ordered,
        CredentialsOrdered, PrintsOrdered, Controlled, Active, Using, Recovering, Typed,
        TypedCoordinator, TypedPool, TypedAttempt
  <2> QED BY <2>1, <2>2 DEF Ordered
<1>29. ASSUME NEW m \in Member, CoolingOver(m) PROVE Ordered'
  <2>1. CredentialsOrdered' /\ Spoken'
    BY <1>29 DEF CoolingOver, Known, coordinator, Ordered, CredentialsOrdered, Spoken,
        Typed, TypedCoordinator, TypedPool, TypedAttempt
  <2>2. PrintsOrdered'
    BY <1>29 DEF CoolingOver, Go, Back, Asks, Attempt, coordinator, attempt, requests,
        Ordered, CredentialsOrdered, PrintsOrdered, Controlled, Active, Using, Recovering,
        Typed, TypedCoordinator, TypedPool, TypedAttempt
  <2> QED BY <2>1, <2>2 DEF Ordered
<1>30. ASSUME NEW m \in Member, BackoffOver(m) PROVE Ordered'
  <2>1. CredentialsOrdered' /\ Spoken'
    BY <1>30 DEF BackoffOver, Known, coordinator, pool, Ordered, CredentialsOrdered, Spoken,
        Typed, TypedCoordinator, TypedPool, TypedAttempt
  <2>2. PrintsOrdered'
    BY <1>30 DEF BackoffOver, Go, Back, Asks, Attempt, coordinator, pool, attempt, requests,
        Ordered, CredentialsOrdered, PrintsOrdered, Controlled, Active, Using, Recovering,
        Typed, TypedCoordinator, TypedPool, TypedAttempt
  <2> QED BY <2>1, <2>2 DEF Ordered
<1>31. ASSUME NEW m \in Member, Relogin(m) PROVE Ordered'
  <2>1. /\ file' = [file EXCEPT ![m] = @ + 1] /\ current' = [current EXCEPT ![m] = file'[m]]
        /\ UNCHANGED <<held, pc, member, print>>
    BY <1>31 DEF Relogin, attempt
  <2>2. \A k \in Member : file[k] \in Nat /\ current[k] \in Nat /\ held[k] \in Nat
    BY DEF Typed, TypedCoordinator, TypedPool, TypedAttempt
  <2>3. \A k \in Member :
          file[k] <= file'[k] /\ current[k] <= current'[k] /\ current'[k] <= file'[k]
    BY <2>1, <2>2 DEF Ordered, CredentialsOrdered, Typed, TypedCoordinator, TypedPool,
        TypedAttempt
  <2>4. CredentialsOrdered'
    BY <2>1, <2>2, <2>3 DEF Ordered, CredentialsOrdered, Typed, TypedCoordinator, TypedPool,
        TypedAttempt
  <2>5. Spoken'
    BY <1>31, <2>1 DEF Relogin, Known, Ordered, Spoken, Typed, TypedCoordinator, TypedPool,
        TypedAttempt
  <2>6. \A s \in Request : print[s] \in Nat
    BY DEF Typed, TypedCoordinator, TypedPool, TypedAttempt
  <2>7. \A k \in Member : current'[k] \in Nat /\ file'[k] \in Nat
    BY DEF Typed, TypedCoordinator, TypedPool, TypedAttempt
  <2>8. PrintsOrdered'
    BY <2>1, <2>2, <2>3, <2>6, <2>7 DEF Ordered, PrintsOrdered, Controlled, Active, Using,
        Recovering, Typed, TypedCoordinator, TypedPool, TypedAttempt
  <2> QED BY <2>1, <2>2, <2>3, <2>4, <2>5, <2>6, <2>7, <2>8 DEF Ordered
<1>32. ASSUME NEW r \in Request, StreamFails(r) PROVE Ordered'
  <2>0. member[r] \in Member /\ held[member[r]] \in Fingerprint
    BY <1>32 DEF StreamFails, Controlled, Active, Using, Typed, TypedPool
  <2>1. Role(member[r], held[member[r]]) = "owner" => current[member[r]] = held[member[r]]
    BY <2>0 DEF Role, Ordered, Spoken
  <2>2. Spoken' /\ UNCHANGED <<current, file>>
    BY <1>32, <2>0, <2>1, SpokenKept DEF StreamFails, coordinator, Ordered
  <2>3. UNCHANGED held \/ held' = [held EXCEPT ![member[r]] = Synchronized[member[r]]]
    BY <1>32 DEF StreamFails
  <2>4. CredentialsOrdered'
    BY <2>0, <2>2, <2>3, SynchronizedOrdered DEF Ordered, CredentialsOrdered, Typed,
        TypedPool
  <2>5. \/ UNCHANGED <<pc, member, print>>
        \/ Go(r, "refresh") /\ Asks(r, member[r], held[member[r]], "stream")
    BY <1>32 DEF StreamFails
  <2>6. held[member[r]] <= current[member[r]] BY <2>0 DEF Ordered, CredentialsOrdered
  <2>7. PrintsOrdered'
    BY <2>0, <2>2, <2>5, <2>6 DEF Asks, Go, Ordered, PrintsOrdered, Active, Using,
        Recovering, Typed, TypedAttempt
  <2> QED BY <2>2, <2>4, <2>7 DEF Ordered
<1>33. ASSUME NEW r \in Request, StreamFailsOnProbation(r) PROVE Ordered'
  <2>0. member[r] \in Member
    BY <1>33 DEF StreamFailsOnProbation, Controlled, Active, Using, Recovering
  <2>1. Spoken' /\ UNCHANGED current
    BY <1>33, <2>0, SpokenKept, FinishEffect DEF StreamFailsOnProbation, FinishClaim,
        coordinator, Ordered
  <2>2. CredentialsOrdered'
    BY <1>33, <2>1 DEF StreamFailsOnProbation, pool, Ordered, CredentialsOrdered
  <2>3. pc[r] = "sent" /\ (Go(r, "stream") \/ Go(r, "wait")) /\ UNCHANGED <<member, print, file>>
    BY <1>33 DEF StreamFailsOnProbation, pool
  <2>4. PrintsOrdered'
    BY <2>1, <2>3 DEF Go, Ordered, PrintsOrdered, Active, Using, Recovering, Typed,
        TypedAttempt
  <2> QED BY <2>1, <2>2, <2>4 DEF Ordered
<1>34. ASSUME NEW r \in Request, StreamResumes(r) PROVE Ordered'
  <2>1. CredentialsOrdered' /\ Spoken'
    BY <1>34 DEF StreamResumes, coordinator, pool, Ordered, CredentialsOrdered, Spoken
  <2>2. PrintsOrdered'
    BY <1>34 DEF StreamResumes, Go, coordinator, pool, Ordered, PrintsOrdered, Active, Using,
        Recovering, Typed, TypedAttempt
  <2> QED BY <2>1, <2>2 DEF Ordered
<1>35. ASSUME NEW r \in Request, StreamLeft(r) PROVE Ordered'
  <2>1. UNCHANGED <<entry, current, file, held, pc, member, print>>
    BY <1>35 DEF StreamLeft, coordinator
  <2> QED BY <2>1 DEF Ordered, CredentialsOrdered, Spoken, PrintsOrdered
<1> QED
  BY <1>1, <1>2, <1>3, <1>4, <1>5, <1>6, <1>7, <1>8, <1>9, <1>10, <1>11, <1>12, <1>13,
      <1>14, <1>15, <1>16, <1>17, <1>18, <1>19, <1>20, <1>21, <1>22, <1>23, <1>24,
      <1>25, <1>26, <1>27, <1>28, <1>29, <1>30, <1>31, <1>32, <1>33, <1>34, <1>35 DEF
      Next, Acquires, Recovery, Answered

\* A step of a request leaves the others where they are.
LEMMA RequestFramed ==
  ASSUME Typed, NEW r \in Request, Acquires(r) \/ Recovery(r) \/ Answered(r)
  PROVE  Framed(r)
<1>1. ASSUME Start(r) PROVE Framed(r)
  BY <1>1 DEF Go, Start, attempt, Framed, Typed, TypedAttempt, TypedClaims
<1>2. ASSUME OutOfAccounts(r) PROVE Framed(r)
  BY <1>2 DEF Back, Ends, Go, OutOfAccounts, Framed, Typed, TypedAttempt, TypedClaims
<1>3. ASSUME Select(r) PROVE Framed(r)
  BY <1>3 DEF Asks, Go, Select, Framed, Typed, TypedAttempt, TypedClaims
<1>4. ASSUME AwaitRecovery(r) PROVE Framed(r)
  BY <1>4 DEF Asks, AwaitRecovery, Go, Framed, Typed, TypedAttempt, TypedClaims
<1>5. ASSUME NoAccount(r) PROVE Framed(r)
  BY <1>5 DEF Back, Ends, Go, NoAccount, Framed, Typed, TypedAttempt, TypedClaims
<1>6. ASSUME Revalidate(r) PROVE Framed(r)
  BY <1>6 DEF Attempt, Back, Go, Revalidate, Framed, Typed, TypedAttempt, TypedClaims
<1>7. ASSUME AbortRamp(r) PROVE Framed(r)
  BY <1>7 DEF AbortRamp, Go, attempt, Framed, Typed, TypedAttempt, TypedClaims
<1>8. ASSUME AcquireProbation(r) PROVE Framed(r)
  BY <1>8 DEF AcquireProbation, Attempt, Go, Framed, Typed, TypedAttempt, TypedClaims
<1>9. ASSUME AcquireProbationFails(r) PROVE Framed(r)
  BY <1>9 DEF AcquireProbationFails, Back, Ends, Go, Framed, Typed, TypedAttempt,
      TypedClaims
<1>10. ASSUME RecoverOverdue(r) PROVE Framed(r)
  BY <1>10 DEF Asks, Go, RecoverOverdue, Framed, Typed, TypedAttempt, TypedClaims
<1>11. ASSUME Resume(r) PROVE Framed(r)
  BY <1>11 DEF Back, Go, Resume, Framed, Typed, TypedAttempt, TypedClaims
<1>12. ASSUME AbortWait(r) PROVE Framed(r)
  BY <1>12 DEF AbortWait, Back, Ends, Go, Framed, Typed, TypedAttempt, TypedClaims
<1>13. ASSUME RefreshWrites(r) PROVE Framed(r)
  BY <1>13 DEF Go, RefreshWrites, attempt, Framed, Typed, TypedAttempt, TypedClaims
<1>14. ASSUME MarkRefreshed(r) PROVE Framed(r)
  BY <1>14 DEF Back, Continue, Detached, Go, MarkRefreshed, attempt, Framed, Typed, TypedAttempt,
      TypedClaims
<1>15. ASSUME Renewed(r) PROVE Framed(r)
  BY <1>15 DEF Back, Continue, Detached, Go, Renewed, attempt, Framed, Typed,
      TypedAttempt, TypedClaims
<1>16. ASSUME AbortRenewed(r) PROVE Framed(r)
  BY <1>16 DEF AbortRenewed, Detached, Go, attempt, Framed, Typed, TypedAttempt, TypedClaims
<1>17. ASSUME RefreshFails(r) PROVE Framed(r)
  BY <1>17 DEF Back, Continue, Detached, Go, RefreshFails, attempt, Framed, Typed, TypedAttempt,
      TypedClaims
<1>18. ASSUME AbortRefresh(r) PROVE Framed(r)
  BY <1>18 DEF AbortRefresh, Detached, Go, attempt, Framed, Typed, TypedAttempt, TypedClaims
<1>19. ASSUME Judge(r) PROVE Framed(r)
  BY <1>19 DEF Back, Ends, Go, Judge, attempt, Framed, Typed, TypedAttempt, TypedClaims
<1>20. ASSUME Accepted(r) PROVE Framed(r)
  BY <1>20 DEF Accepted, Go, attempt, Framed, Typed, TypedAttempt, TypedClaims
<1>21. ASSUME StreamEnds(r) PROVE Framed(r)
  BY <1>21 DEF Back, Ends, Go, StreamEnds, Framed, Typed, TypedAttempt, TypedClaims
<1>22. ASSUME DeniedOnProbation(r) PROVE Framed(r)
  BY <1>22 DEF Back, DeniedOnProbation, FinishClaim, Go, Framed, Typed, TypedAttempt,
      TypedClaims
<1>23. ASSUME Denied(r) PROVE Framed(r)
  BY <1>23 DEF Asks, Back, Denied, Go, Recover, Framed, Typed, TypedAttempt, TypedClaims
<1>24. ASSUME Limited(r) PROVE Framed(r)
  BY <1>24 DEF Back, FinishClaim, Go, Limited, Framed, Typed, TypedAttempt, TypedClaims
<1>25. ASSUME Transient(r) PROVE Framed(r)
  BY <1>25 DEF Back, Ends, FinishClaim, Go, Transient, attempt, Framed, Typed, TypedAttempt,
      TypedClaims
<1>26. ASSUME PauseEnds(r) PROVE Framed(r)
  BY <1>26 DEF Back, Go, PauseEnds, Framed, Typed, TypedAttempt, TypedClaims
<1>27. ASSUME Refused(r) PROVE Framed(r)
  BY <1>27 DEF Back, Ends, FinishClaim, Go, Refused, Framed, Typed, TypedAttempt,
      TypedClaims
<1>28. ASSUME NoAnswer(r) PROVE Framed(r)
  BY <1>28 DEF Back, Ends, Go, NoAnswer, Framed, Typed, TypedAttempt, TypedClaims
<1>29. ASSUME StreamFails(r) PROVE Framed(r)
  BY <1>29 DEF Asks, Go, StreamFails, Framed, Typed, TypedAttempt,
      TypedClaims
<1>30. ASSUME StreamFailsOnProbation(r) PROVE Framed(r)
  BY <1>30 DEF FinishClaim, Go, StreamFailsOnProbation, Framed, Typed, TypedAttempt,
      TypedClaims
<1>31. ASSUME StreamResumes(r) PROVE Framed(r)
  BY <1>31 DEF Go, StreamResumes, Framed, Typed, TypedAttempt,
      TypedClaims
<1>32. ASSUME StreamLeft(r) PROVE Framed(r)
  BY <1>32 DEF StreamLeft, Framed, Typed, TypedAttempt,
      TypedClaims
<1> QED
  BY <1>1, <1>2, <1>3, <1>4, <1>5, <1>6, <1>7, <1>8, <1>9, <1>10, <1>11, <1>12, <1>13,
      <1>14, <1>15, <1>16, <1>17, <1>18, <1>19, <1>20, <1>21, <1>22, <1>23, <1>24,
      <1>25, <1>26, <1>27, <1>28, <1>29, <1>30, <1>31, <1>32 DEF Acquires, Recovery,
      Answered

\* Without a claim, and out of a recovery, a request owns nothing.
LEMMA OwnsNothing ==
  ASSUME Typed, Controlled, Owned, NEW r \in Request,
         ~ claim[r], pc[r] \notin Recovering \cup {"renewed"}
  PROVE  ~ HasEntry(r)
BY NoneAssumption DEF HasEntry, Owned, Owns

\* Who is after a recovery of its own owns the credential it is about, or none.
LEMMA OwnsOne ==
  ASSUME Typed, Controlled, Owned, NEW r \in Request,
         \/ pc[r] \in Recovering \cup {"renewed"}
         \/ claim[r] /\ pc[r] \in {"loop", "sent"}
  PROVE  \A m \in Member, p \in Fingerprint :
           entry[m][p].owner = r =>
             /\ m = member[r]
             /\ IF pc[r] \in Recovering THEN p = print[r] /\ Recovers(r)
                ELSE OnProbation(r, p)
<1>1. SUFFICES ASSUME NEW m \in Member, NEW p \in Fingerprint, entry[m][p].owner = r
               PROVE  /\ m = member[r]
                      /\ IF pc[r] \in Recovering THEN p = print[r] /\ Recovers(r)
                         ELSE OnProbation(r, p)
  OBVIOUS
<1>2. entry[m][p] \in Entry BY DEF Typed, TypedCoordinator
<1>3. entry[m][p] = [kind |-> entry[m][p].kind, owner |-> r] BY <1>1, <1>2 DEF Entry
<1>4. entry[m][p].kind \in {"recovering", "probation"} /\ Owns(m, p, r)
  BY <1>1, NoneAssumption DEF Owned
<1> QED BY <1>3, <1>4 DEF Owns, Controlled, Recovering, Claiming, Recovers, OnProbation

\* A finished probation settles what its request owned.
LEMMA FinishSettles ==
  ASSUME Typed, Controlled, Owned, WaitsOwned, NEW r \in Request,
         pc[r] = "renewed" \/ (claim[r] /\ pc[r] \in {"loop", "sent"}),
         NEW kind \in {"accepted", "unknown", "rejected"}, FinishProbation(r, kind),
         pc'[r] # "refresh"
  PROVE  Settles(r)
<1>1. member[r] \in Member BY DEF Controlled, Active, Using
<1>2. \A m \in Member, p \in Fingerprint :
        entry[m][p].owner = r <=> m = member[r] /\ OnProbation(r, p)
  BY <1>1, OwnsOne, OnProbationKind DEF Recovering, Controlled, Claiming
<1>3. \A m \in Member, p \in Fingerprint :
        entry'[m][p] = IF entry[m][p].owner = r THEN Known(kind) ELSE entry[m][p]
  BY <1>1, <1>2, FinishEffect
<1>4. \A s \in Request : waits[s] = r => \E p \in Fingerprint : OnProbation(r, p)
  BY <1>2, NoneAssumption DEF WaitsOwned
<1>5. \A s \in Request : waits'[s] = IF waits[s] = r THEN None ELSE waits[s]
  BY <1>1, <1>4, FinishEffect
<1>6. UNCHANGED current BY <1>1, FinishEffect
<1>7. kind \in Settled BY DEF Settled
<1> QED BY <1>3, <1>5, <1>6, <1>7 DEF Settles

\* So does a failed refresh.
LEMMA FailSettles ==
  ASSUME Typed, Controlled, Owned, WaitsOwned, NEW r \in Request,
         pc[r] = "refresh", FailRefresh(r), pc'[r] # "refresh", UNCHANGED current
  PROVE  Settles(r)
<1>1. member[r] \in Member BY DEF Controlled, Active, Recovering
<1>2. \A m \in Member, p \in Fingerprint :
        entry[m][p].owner = r <=> m = member[r] /\ p = print[r] /\ Recovers(r)
  BY <1>1, OwnsOne, OnProbationKind DEF Recovering
<1>3. PICK kind \in {"rejected", "backoff"} :
        \A m \in Member, p \in Fingerprint :
          entry'[m][p] = IF m = member[r] /\ p = print[r] /\ Recovers(r)
                         THEN Known(kind) ELSE entry[m][p]
  BY <1>1, FailEffect
<1>4. \A m \in Member, p \in Fingerprint :
        entry'[m][p] = IF entry[m][p].owner = r THEN Known(kind) ELSE entry[m][p]
  BY <1>2, <1>3
<1>5. \A s \in Request : waits[s] = r => Recovers(r)
  BY <1>2, NoneAssumption DEF WaitsOwned
<1>6. \A s \in Request : waits'[s] = IF waits[s] = r THEN None ELSE waits[s]
  BY <1>1, <1>5, FailEffect
<1>7. kind \in Settled BY DEF Settled
<1> QED BY <1>4, <1>6, <1>7 DEF Settles

Kind(r) == Quiet(r) \/ Stays(r) \/ Begins(r) \/ Settles(r) \/ Accepts(r) \/ Marks(r)

\* Every step of a request does one of six things to the coordinator.
LEMMA StepKind ==
  ASSUME Typed, Controlled, Ordered, Owned, WaitsOwned, Typed',
         NEW r \in Request, Acquires(r) \/ Recovery(r) \/ Answered(r)
  PROVE  Kind(r)
<1>1. ASSUME Start(r) PROVE Kind(r)
  <2>1. ~ HasEntry(r)
    BY <1>1, OwnsNothing DEF Start, Go, Controlled, Active, Using, Recovering, Claiming
  <2>2. Quiet(r)
    BY <1>1, <2>1 DEF Start, Go, Quiet, HasEntry, Typed, TypedAttempt, TypedClaims
  <2> QED BY <2>2 DEF Kind
<1>2. ASSUME OutOfAccounts(r) PROVE Kind(r)
  <2>0. ~ claim[r] BY <1>2 DEF OutOfAccounts, Controlled
  <2>1. ~ HasEntry(r)
    BY <2>0, <1>2, OwnsNothing DEF OutOfAccounts, Ends, Back, Go, Controlled, Active, Using,
        Recovering, Claiming
  <2>2. Quiet(r)
    BY <1>2, <2>1 DEF OutOfAccounts, Ends, Back, Go, Quiet, HasEntry, Typed, TypedAttempt,
        TypedClaims
  <2> QED BY <2>2 DEF Kind
<1>3. ASSUME Select(r) PROVE Kind(r)
  <2>1. ~ HasEntry(r)
    BY <1>3, OwnsNothing DEF Select, Selects, Controlled, Active, Using, Recovering,
        Claiming
  <2>2. held' = Synchronized /\ UNCHANGED waits BY <1>3 DEF Select
  <2>3. PICK m \in Choice(r) :
          /\ Asks(r, m, held'[m], "fresh")
          /\ \/ Go(r, "ramp") /\ UNCHANGED coordinator
             \/ Go(r, "refresh") /\ BeginRecovery(r, m, held'[m])
    BY <1>3 DEF Select
  <2>4. /\ m \in Member /\ held'[m] \in Fingerprint /\ current[m] = held'[m]
        /\ entry[m][held'[m]].kind \notin {"recovering", "probation", "rejected"}
    BY <2>2, <2>3, SynchronizedEffect DEF Choice, EligibleAs, Snapshot
  <2>5. CASE UNCHANGED coordinator /\ Go(r, "ramp")
    BY <2>1, <2>2, <2>5 DEF Kind, Quiet, HasEntry, Go, Typed, TypedAttempt
  <2>6. CASE Go(r, "refresh") /\ BeginRecovery(r, m, held'[m])
    <3>1. pc'[r] = "refresh" /\ member'[r] = m /\ print'[r] = held'[m]
      BY <2>3, <2>6 DEF Go, Asks, Typed, TypedAttempt
    <3>2. Begins(r) BY <2>1, <2>2, <2>4, <2>6, <3>1 DEF Begins
    <3> QED BY <3>2 DEF Kind
  <2> QED BY <2>3, <2>5, <2>6
<1>4. ASSUME AwaitRecovery(r) PROVE Kind(r)
  <2>1. ~ HasEntry(r)
    BY <1>4, OwnsNothing DEF AwaitRecovery, Selects, Controlled, Active, Using, Recovering,
        Claiming
  <2>2. held' = Synchronized /\ UNCHANGED coordinator /\ pc'[r] = "wait"
    BY <1>4 DEF AwaitRecovery, Go, Typed, TypedAttempt
  <2>3. PICK m \in Member : waits' = [waits EXCEPT ![r] = entry[m][held'[m]].owner]
    BY <1>4 DEF AwaitRecovery
  <2>4. HasEntry(entry[m][held'[m]].owner) BY <2>2, SynchronizedEffect DEF HasEntry
  <2>5. \A s \in Request :
        waits'[s] = waits[s] \/ (s = r /\ (waits'[s] = None \/ HasEntry(waits'[s])))
    BY <2>3, <2>4 DEF Typed, TypedClaims
  <2>6. Quiet(r) BY <2>1, <2>2, <2>5 DEF Quiet, HasEntry
  <2> QED BY <2>6 DEF Kind
<1>5. ASSUME NoAccount(r) PROVE Kind(r)
  <2>1. ~ HasEntry(r)
    BY <1>5, OwnsNothing DEF NoAccount, Selects, Ends, Back, Go, Controlled, Active, Using,
        Recovering, Claiming
  <2>2. Quiet(r)
    BY <1>5, <2>1 DEF NoAccount, Selects, Ends, Back, Go, Quiet, HasEntry, Typed,
        TypedAttempt, TypedClaims
  <2> QED BY <2>2 DEF Kind
<1>6. ASSUME Revalidate(r) PROVE Kind(r)
  <2>1. ~ HasEntry(r)
    BY <1>6, OwnsNothing DEF Revalidate, Attempt, Back, Go, Controlled, Active, Using,
        Recovering, Claiming
  <2>2. Quiet(r)
    BY <1>6, <2>1 DEF Revalidate, Attempt, Back, Go, Quiet, HasEntry, Typed, TypedAttempt,
        TypedClaims
  <2> QED BY <2>2 DEF Kind
<1>7. ASSUME AbortRamp(r) PROVE Kind(r)
  <2>1. ~ HasEntry(r)
    BY <1>7, OwnsNothing DEF AbortRamp, Go, pool, Controlled, Active, Using, Recovering,
        Claiming
  <2>2. Quiet(r)
    BY <1>7, <2>1 DEF AbortRamp, Go, pool, Quiet, HasEntry, Typed, TypedAttempt, TypedClaims
  <2> QED BY <2>2 DEF Kind
<1>8. ASSUME AcquireProbation(r) PROVE Kind(r)
  <2>1. claim[r] /\ pc[r] = "loop" /\ UNCHANGED <<coordinator, claim, waits>>
    BY <1>8 DEF AcquireProbation
  <2>2. \A m \in Member, p \in Fingerprint :
          entry[m][p].owner = r => m = member[r] /\ entry[m][p].kind = "probation"
    BY <2>1, OwnsOne, OnProbationKind DEF Recovering
  <2>3. pc'[r] = "sent" /\ member'[r] = member[r]
    BY <1>8 DEF AcquireProbation, Attempt, Go, Typed, TypedAttempt
  <2>4. Quiet(r) BY <2>1, <2>2, <2>3 DEF Quiet, Owns, Claiming, coordinator
  <2> QED BY <2>4 DEF Kind
<1>9. ASSUME AcquireProbationFails(r) PROVE Kind(r)
  <2>1. claim[r] /\ pc[r] = "loop" /\ UNCHANGED <<coordinator, claim, waits>>
    BY <1>9 DEF AcquireProbationFails
  <2>2. \A m \in Member, p \in Fingerprint :
          entry[m][p].owner = r => m = member[r] /\ entry[m][p].kind = "probation"
    BY <2>1, OwnsOne, OnProbationKind DEF Recovering
  <2>3. pc'[r] \in {"exhausted", "aborted"}
    BY <1>9 DEF AcquireProbationFails, Ends, Back, Go, Typed, TypedAttempt
  <2>4. Quiet(r) BY <2>1, <2>2, <2>3 DEF Quiet, Owns, Claiming, coordinator
  <2> QED BY <2>4 DEF Kind
<1>10. ASSUME RecoverOverdue(r) PROVE Kind(r)
  <2>1. ~ HasEntry(r)
    BY <1>10, OwnsNothing DEF RecoverOverdue, Controlled, Active, Using, Recovering,
        Claiming
  <2>2. PICK m \in Overdue(r) : BeginRecovery(r, m, held[m]) /\ Asks(r, m, held[m], "backoff")
    BY <1>10 DEF RecoverOverdue
  <2>3. /\ m \in Member /\ held[m] \in Fingerprint /\ current[m] = held[m]
        /\ entry[m][held[m]].kind \notin {"recovering", "probation", "rejected"}
    BY DEF Overdue, Snapshot, Typed, TypedPool
  <2>4. pc'[r] = "refresh" /\ member'[r] = m /\ print'[r] = held[m] /\ UNCHANGED waits
    BY <1>10, <2>2 DEF RecoverOverdue, Go, Asks, Typed, TypedAttempt
  <2>5. Begins(r) BY <2>1, <2>2, <2>3, <2>4 DEF Begins
  <2> QED BY <2>5 DEF Kind
<1>11. ASSUME Resume(r) PROVE Kind(r)
  <2>1. ~ HasEntry(r)
    BY <1>11, OwnsNothing DEF Resume, Back, Go, Controlled, Active, Using, Recovering,
        Claiming
  <2>2. Quiet(r)
    BY <1>11, <2>1 DEF Resume, Back, Go, Quiet, HasEntry, Typed, TypedAttempt, TypedClaims
  <2> QED BY <2>2 DEF Kind
<1>12. ASSUME AbortWait(r) PROVE Kind(r)
  <2>1. /\ pc[r] = "wait" /\ pc'[r] = "aborted" /\ UNCHANGED <<coordinator, claim>>
        /\ waits' = [waits EXCEPT ![r] = None]
    BY <1>12 DEF AbortWait, Ends, Back, Go, Typed, TypedAttempt
  <2>2. \A m \in Member, p \in Fingerprint :
          entry[m][p].owner = r => entry[m][p].kind = "probation" /\ claim[r]
    BY <2>1, NoneAssumption DEF Owned, Owns, Recovering
  <2>3. Quiet(r) BY <2>1, <2>2 DEF Quiet, Owns, Claiming, coordinator, Typed, TypedClaims
  <2> QED BY <2>3 DEF Kind
<1>13. ASSUME RefreshWrites(r) PROVE Kind(r)
  <2>1. /\ pc[r] = "refresh" /\ pc'[r] = "refreshed"
        /\ member'[r] = member[r] /\ print'[r] = print[r]
        /\ UNCHANGED <<coordinator, waits>>
    BY <1>13 DEF RefreshWrites, Go, attempt, Typed, TypedAttempt
  <2>2. \A m \in Member, p \in Fingerprint :
          entry[m][p].owner = r =>
            m = member[r] /\ p = print[r] /\ entry[m][p].kind = "recovering"
    BY <2>1, OwnsOne, OnProbationKind DEF Recovering
  <2>3. Quiet(r) BY <2>1, <2>2 DEF Quiet, Owns, Recovering, coordinator
  <2> QED BY <2>3 DEF Kind
<1>14. ASSUME MarkRefreshed(r) PROVE Kind(r)
  <2>0. /\ member[r] \in Member /\ print[r] \in Fingerprint /\ pc[r] = "refreshed"
        /\ file[member[r]] \in Fingerprint
    BY <1>14 DEF MarkRefreshed, Controlled, Active, Using, Recovering, Claiming, Typed,
        TypedAttempt, TypedPool
  <2>1. CASE Recovers(r)
    <3>1. print[r] < file[member[r]] BY <2>0 DEF Ordered, PrintsOrdered
    <3>2. print[r] = current[member[r]] BY <2>0, <2>1, OnProbationKind DEF Ordered, Spoken
    <3>3. \A n \in Member, p \in Fingerprint :
            entry'[n][p] = IF n = member[r] /\ p = file[n] THEN [kind |-> "probation", owner |-> r]
                           ELSE IF n = member[r] /\ p = print[r] THEN Known("none")
                           ELSE entry[n][p]
      BY <1>14, <2>0, <2>1 DEF MarkRefreshed, Typed, TypedCoordinator
    <3>4. pc'[r] = "renewed" /\ member'[r] = member[r] /\ print'[r] = file[member[r]]
      BY <1>14, <2>1 DEF MarkRefreshed, Go, Typed, TypedAttempt
    <3>5. current' = [current EXCEPT ![member[r]] = file[member[r]]] /\ UNCHANGED <<file, waits>>
      BY <1>14, <2>1 DEF MarkRefreshed
    <3>6. Marks(r) BY <2>0, <2>1, <3>1, <3>2, <3>3, <3>4, <3>5 DEF Marks
    <3> QED BY <3>6 DEF Kind
  <2>2. CASE ~ Recovers(r)
    <3>1. ~ HasEntry(r) BY <2>0, <2>2, OwnsOne DEF HasEntry, Recovering
    <3>2. UNCHANGED <<coordinator, waits>> /\ Continue(r) BY <1>14, <2>2 DEF MarkRefreshed
    <3>3. pc'[r] # "refresh" BY <3>2 DEF Continue, Detached, Back, Go, Typed, TypedAttempt
    <3>4. Quiet(r) BY <3>1, <3>2, <3>3 DEF Quiet, HasEntry
    <3> QED BY <3>4 DEF Kind
  <2> QED BY <2>1, <2>2
<1>15. ASSUME Renewed(r) PROVE Kind(r)
  <2>0. pc[r] = "renewed" BY <1>15 DEF Renewed
  <2>1. CASE FinishProbation(r, "unknown") /\ pc'[r] # "refresh"
    BY <2>0, <2>1, FinishSettles DEF Kind
  <2>2. CASE /\ Go(r, "loop") /\ UNCHANGED attempt /\ claim' = [claim EXCEPT ![r] = TRUE]
             /\ UNCHANGED <<coordinator, waits>>
    <3>1. pc'[r] = "loop" /\ member'[r] = member[r] /\ claim'[r]
      BY <2>2 DEF Go, attempt, Typed, TypedAttempt, TypedClaims
    <3>2. \A m \in Member, p \in Fingerprint :
            entry[m][p].owner = r => m = member[r] /\ entry[m][p].kind = "probation"
      BY <2>0, OwnsOne, OnProbationKind DEF Recovering
    <3>3. Quiet(r) BY <2>2, <3>1, <3>2 DEF Quiet, Owns, Claiming, coordinator
    <3> QED BY <3>3 DEF Kind
  <2> QED BY <1>15, <2>1, <2>2 DEF Renewed, Continue, Back, Go, Typed, TypedAttempt
<1>16. ASSUME AbortRenewed(r) PROVE Kind(r)
  BY <1>16, FinishSettles DEF AbortRenewed, Detached, Go, Kind, Typed, TypedAttempt
<1>17. ASSUME RefreshFails(r) PROVE Kind(r)
  BY <1>17, FailSettles DEF RefreshFails, Continue, Detached, Back, Go, Kind, Typed, TypedAttempt
<1>18. ASSUME AbortRefresh(r) PROVE Kind(r)
  BY <1>18, FailSettles DEF AbortRefresh, Detached, Go, Kind, Typed, TypedAttempt
<1>19. ASSUME Judge(r) PROVE Kind(r)
  <2>1. ~ HasEntry(r)
    BY <1>19, OwnsNothing DEF Judge, Ends, Back, Go, Controlled, Active, Using, Recovering,
        Claiming
  <2>2. Quiet(r)
    BY <1>19, <2>1 DEF Judge, Ends, Back, Go, Quiet, HasEntry, Typed, TypedAttempt,
        TypedClaims
  <2> QED BY <2>2 DEF Kind
<1>20. ASSUME Accepted(r) PROVE Kind(r)
  <2>0. pc[r] = "sent" /\ pc'[r] = "stream" BY <1>20 DEF Accepted, Go, Typed, TypedAttempt
  <2>1. CASE claim[r] BY <1>20, <2>0, <2>1, FinishSettles DEF Accepted, Kind
  <2>2. CASE ~ claim[r]
    <3>1. member[r] \in Member /\ print[r] \in Fingerprint
      BY <2>0 DEF Controlled, Active, Using, Recovering, Claiming, Typed, TypedAttempt
    <3>2. ~ HasEntry(r) BY <2>0, <2>2, OwnsNothing DEF Recovering
    <3>3. MarkAccepted(member[r], print[r]) BY <1>20, <2>2 DEF Accepted
    <3> QED BY <2>0, <3>1, <3>2, <3>3 DEF Accepts, Kind
  <2> QED BY <2>1, <2>2
<1>21. ASSUME StreamEnds(r) PROVE Kind(r)
  <2>1. ~ HasEntry(r)
    BY <1>21, OwnsNothing DEF StreamEnds, Ends, Back, Go, Controlled, Active, Using,
        Recovering, Claiming
  <2>2. Quiet(r)
    BY <1>21, <2>1 DEF StreamEnds, Ends, Back, Go, Quiet, HasEntry, Typed, TypedAttempt,
        TypedClaims
  <2> QED BY <2>2 DEF Kind
<1>22. ASSUME DeniedOnProbation(r) PROVE Kind(r)
  <2>1. pc[r] = "sent" /\ claim[r] /\ pc'[r] = "loop"
    BY <1>22 DEF DeniedOnProbation, Back, Go, Typed, TypedAttempt
  <2>2. PICK kind \in {"rejected", "unknown"} : FinishProbation(r, kind)
    BY <1>22, <2>1 DEF DeniedOnProbation, FinishClaim
  <2>3. Settles(r) BY <2>1, <2>2, FinishSettles
  <2> QED BY <2>3 DEF Kind
<1>23. ASSUME Denied(r) PROVE Kind(r)
  <2>0. /\ member[r] \in Member /\ print[r] \in Fingerprint /\ pc[r] = "sent" /\ ~ claim[r]
        /\ Recover(r)
    BY <1>23 DEF Denied, Controlled, Active, Using, Recovering, Claiming, Typed,
        TypedAttempt
  <2>1. ~ HasEntry(r) BY <2>0, OwnsNothing DEF Recovering
  <2>2. CASE Role(member[r], print[r]) = "owner"
    <3>1. /\ entry[member[r]][print[r]].kind \notin {"recovering", "probation", "rejected"}
          /\ current[member[r]] = print[r]
      BY <2>0, <2>2 DEF Role, Ordered, Spoken
    <3>2. /\ BeginRecovery(r, member[r], print[r]) /\ UNCHANGED waits
          /\ Go(r, "refresh") /\ Asks(r, member[r], print[r], "denied")
      BY <2>0, <2>2 DEF Recover
    <3>3. pc'[r] = "refresh" /\ member'[r] = member[r] /\ print'[r] = print[r]
      BY <3>2 DEF Go, Asks, Typed, TypedAttempt
    <3>4. Begins(r) BY <2>0, <2>1, <3>1, <3>2, <3>3 DEF Begins
    <3> QED BY <3>4 DEF Kind
  <2>3. CASE Role(member[r], print[r]) # "owner"
    <3>1. UNCHANGED coordinator /\ (Back(r, "loop") \/ Go(r, "wait"))
      BY <2>0, <2>3 DEF Recover
    <3>2. pc'[r] # "refresh" BY <3>1 DEF Back, Go, Typed, TypedAttempt
    <3>3. UNCHANGED waits \/ waits' = [waits EXCEPT ![r] = entry[member[r]][print[r]].owner]
      BY <2>0, <2>3 DEF Recover
    <3>4. HasEntry(entry[member[r]][print[r]].owner) BY <2>0 DEF HasEntry
    <3>5. \A s \in Request :
        waits'[s] = waits[s] \/ (s = r /\ (waits'[s] = None \/ HasEntry(waits'[s])))
      BY <3>3, <3>4 DEF Typed, TypedClaims
    <3>6. Quiet(r) BY <2>1, <3>1, <3>2, <3>5 DEF Quiet, HasEntry
    <3> QED BY <3>6 DEF Kind
  <2> QED BY <2>2, <2>3
<1>24. ASSUME Limited(r) PROVE Kind(r)
  <2>0. pc[r] = "sent" /\ pc'[r] \in {"loop", "done", "pause"}
    BY <1>24 DEF Limited, Back, Go, Typed, TypedAttempt
  <2>1. PICK kind \in {"accepted", "unknown"} : FinishClaim(r, kind) BY <1>24 DEF Limited
  <2>2. CASE claim[r] BY <2>0, <2>1, <2>2, FinishSettles DEF FinishClaim, Kind
  <2>3. CASE ~ claim[r]
    <3>1. ~ HasEntry(r) BY <2>0, <2>3, OwnsNothing DEF Recovering
    <3>2. Quiet(r) BY <2>0, <2>1, <2>3, <3>1 DEF FinishClaim, Quiet, HasEntry
    <3> QED BY <3>2 DEF Kind
  <2> QED BY <2>2, <2>3
<1>25. ASSUME Transient(r) PROVE Kind(r)
  <2>0. pc[r] = "sent" /\ pc'[r] \in {"loop", "done", "pause"}
    BY <1>25 DEF Transient, Ends, Back, Go, Typed, TypedAttempt
  <2>1. PICK kind \in {"unknown"} : FinishClaim(r, kind) BY <1>25 DEF Transient
  <2>2. CASE claim[r] BY <2>0, <2>1, <2>2, FinishSettles DEF FinishClaim, Kind
  <2>3. CASE ~ claim[r]
    <3>1. ~ HasEntry(r) BY <2>0, <2>3, OwnsNothing DEF Recovering
    <3>2. Quiet(r) BY <2>0, <2>1, <2>3, <3>1 DEF FinishClaim, Quiet, HasEntry
    <3> QED BY <3>2 DEF Kind
  <2> QED BY <2>2, <2>3
<1>26. ASSUME PauseEnds(r) PROVE Kind(r)
  <2>1. ~ HasEntry(r)
    BY <1>26, OwnsNothing DEF PauseEnds, Back, Go, Controlled, Active, Using, Recovering,
        Claiming
  <2>2. Quiet(r)
    BY <1>26, <2>1 DEF PauseEnds, Back, Go, Quiet, HasEntry, Typed, TypedAttempt,
        TypedClaims
  <2> QED BY <2>2 DEF Kind
<1>27. ASSUME Refused(r) PROVE Kind(r)
  <2>0. pc[r] = "sent" /\ pc'[r] \in {"loop", "done", "pause"}
    BY <1>27 DEF Refused, Ends, Back, Go, Typed, TypedAttempt
  <2>1. PICK kind \in {"accepted", "unknown"} : FinishClaim(r, kind) BY <1>27 DEF Refused
  <2>2. CASE claim[r] BY <2>0, <2>1, <2>2, FinishSettles DEF FinishClaim, Kind
  <2>3. CASE ~ claim[r]
    <3>1. ~ HasEntry(r) BY <2>0, <2>3, OwnsNothing DEF Recovering
    <3>2. Quiet(r) BY <2>0, <2>1, <2>3, <3>1 DEF FinishClaim, Quiet, HasEntry
    <3> QED BY <3>2 DEF Kind
  <2> QED BY <2>2, <2>3
<1>28. ASSUME NoAnswer(r) PROVE Kind(r)
  <2>0. pc[r] = "sent" /\ pc'[r] = "unreachable" /\ UNCHANGED <<coordinator, claim, waits>>
    BY <1>28 DEF NoAnswer, Ends, Back, Go, Typed, TypedAttempt
  <2>1. claim[r] => \A m \in Member, p \in Fingerprint :
                      entry[m][p].owner = r => entry[m][p].kind = "probation"
    BY <2>0, OwnsOne, OnProbationKind DEF Recovering
  <2>2. ~ claim[r] => ~ HasEntry(r) BY <2>0, OwnsNothing DEF Recovering
  <2>3. Quiet(r) BY <2>0, <2>1, <2>2 DEF Quiet, Owns, Claiming, HasEntry, coordinator
  <2> QED BY <2>3 DEF Kind
<1>29. ASSUME StreamFails(r) PROVE Kind(r)
  <2>0. /\ member[r] \in Member /\ held[member[r]] \in Fingerprint
        /\ pc[r] = "stream" /\ UNCHANGED waits
    BY <1>29 DEF StreamFails, Controlled, Active, Using, Typed, TypedPool
  <2>1. ~ HasEntry(r) BY <2>0, OwnsNothing DEF Controlled, Recovering, Claiming
  <2>2. CASE UNCHANGED <<coordinator, pc>> BY <2>0, <2>1, <2>2 DEF Kind, Quiet, HasEntry
  <2>3. CASE /\ Role(member[r], held[member[r]]) = "owner"
             /\ BeginRecovery(r, member[r], held[member[r]])
             /\ Go(r, "refresh") /\ Asks(r, member[r], held[member[r]], "stream")
    <3>1. /\ entry[member[r]][held[member[r]]].kind \notin {"recovering", "probation", "rejected"}
          /\ current[member[r]] = held[member[r]]
      BY <2>0, <2>3 DEF Role, Ordered, Spoken
    <3>2. pc'[r] = "refresh" /\ member'[r] = member[r] /\ print'[r] = held[member[r]]
      BY <2>3 DEF Go, Asks, Typed, TypedAttempt
    <3>3. Begins(r) BY <2>0, <2>1, <2>3, <3>1, <3>2 DEF Begins
    <3> QED BY <3>3 DEF Kind
  <2> QED BY <1>29, <2>2, <2>3 DEF StreamFails
<1>30. ASSUME StreamFailsOnProbation(r) PROVE Kind(r)
  <2>0. /\ member[r] \in Member /\ held[member[r]] \in Fingerprint
        /\ pc[r] = "sent" /\ claim[r] /\ OnProbation(r, held[member[r]])
    BY <1>30 DEF StreamFailsOnProbation, Controlled, Active, Using, Typed, TypedPool
  <2>1. CASE \E n \in Member \ {member[r]} : Eligible(n)
    <3>1. FinishProbation(r, "accepted") /\ pc'[r] = "stream"
      BY <1>30, <2>0, <2>1 DEF StreamFailsOnProbation, FinishClaim, Go, Typed, TypedAttempt
    <3> QED BY <2>0, <3>1, FinishSettles DEF Kind
  <2>2. CASE ~ \E n \in Member \ {member[r]} : Eligible(n)
    <3>1. /\ UNCHANGED <<coordinator, claim, member>>
          /\ waits' = [waits EXCEPT ![r] = r] /\ pc'[r] = "wait"
      BY <1>30, <2>2 DEF StreamFailsOnProbation, Go, Typed, TypedAttempt
    <3>2. HasEntry(r) BY <2>0, OnProbationKind DEF HasEntry
    <3>3. \A m \in Member, p \in Fingerprint :
            entry[m][p].owner = r => m = member[r] /\ entry[m][p].kind = "probation"
      BY <2>0, OwnsOne, OnProbationKind DEF Recovering
    <3>4. Quiet(r)
      BY <2>0, <3>1, <3>2, <3>3 DEF Quiet, Owns, coordinator, Typed, TypedClaims
    <3> QED BY <3>4 DEF Kind
  <2> QED BY <2>1, <2>2
<1>31. ASSUME StreamResumes(r) PROVE Kind(r)
  <2>1. pc[r] = "wait" /\ waits[r] = None /\ pc'[r] = "stream" /\ UNCHANGED <<coordinator, waits>>
    BY <1>31 DEF StreamResumes, Go, Typed, TypedAttempt
  <2>2. ~ HasEntry(r) BY <2>1, NoneAssumption DEF HasEntry, Owned, Owns, Recovering
  <2>3. Quiet(r) BY <2>1, <2>2 DEF Quiet, HasEntry
  <2> QED BY <2>3 DEF Kind
<1>32. ASSUME StreamLeft(r) PROVE Kind(r)
  BY <1>32 DEF StreamLeft, Kind, Stays
<1> QED
  BY <1>1, <1>2, <1>3, <1>4, <1>5, <1>6, <1>7, <1>8, <1>9, <1>10, <1>11, <1>12, <1>13,
      <1>14, <1>15, <1>16, <1>17, <1>18, <1>19, <1>20, <1>21, <1>22, <1>23, <1>24,
      <1>25, <1>26, <1>27, <1>28, <1>29, <1>30, <1>31, <1>32 DEF Acquires, Recovery,
      Answered

\* A request that selected an account uses a credential that is not on probation.
Enters(r) ==
  pc'[r] \in Using /\ why'[r] = "fresh" =>
    \/ pc[r] \in Using /\ member'[r] = member[r] /\ print'[r] = print[r] /\ why[r] = "fresh"
    \/ UNCHANGED coordinator /\ entry[member'[r]][print'[r]].kind # "probation"

\* Every attempt on a selected account was checked when it began.
LEMMA RequestEnters ==
  ASSUME Typed, Controlled, NEW r \in Request, Acquires(r) \/ Recovery(r) \/ Answered(r)
  PROVE  Enters(r)
<1>1. ASSUME Start(r) PROVE Enters(r)
  BY <1>1 DEF Go, Start, attempt, Using, Enters, Typed, TypedAttempt
<1>2. ASSUME OutOfAccounts(r) PROVE Enters(r)
  BY <1>2 DEF Back, Ends, Go, OutOfAccounts, Using, Enters, Typed, TypedAttempt
<1>3. ASSUME Select(r) PROVE Enters(r)
  BY <1>3 DEF Asks, Go, Select, Using, Enters, Typed, TypedAttempt
<1>4. ASSUME AwaitRecovery(r) PROVE Enters(r)
  BY <1>4 DEF Asks, AwaitRecovery, Go, Using, Enters, Typed, TypedAttempt
<1>5. ASSUME NoAccount(r) PROVE Enters(r)
  BY <1>5 DEF Back, Ends, Go, NoAccount, Using, Enters, Typed, TypedAttempt
<1>6. ASSUME Revalidate(r) PROVE Enters(r)
  BY <1>6 DEF Attempt, Back, Eligible, EligibleAs, Go, Revalidate, Snapshot, Active,
      Controlled, Using, Enters, Typed, TypedAttempt, TypedPool
<1>7. ASSUME AbortRamp(r) PROVE Enters(r)
  BY <1>7 DEF AbortRamp, Go, attempt, Using, Enters, Typed, TypedAttempt
<1>8. ASSUME AcquireProbation(r) PROVE Enters(r)
  BY <1>8 DEF AcquireProbation, Attempt, Controlled, Go, Using, Enters, Typed, TypedAttempt
<1>9. ASSUME AcquireProbationFails(r) PROVE Enters(r)
  BY <1>9 DEF AcquireProbationFails, Back, Ends, Go, Using, Enters, Typed, TypedAttempt
<1>10. ASSUME RecoverOverdue(r) PROVE Enters(r)
  BY <1>10 DEF Asks, Go, RecoverOverdue, Using, Enters, Typed, TypedAttempt
<1>11. ASSUME Resume(r) PROVE Enters(r)
  BY <1>11 DEF Back, Go, Resume, Using, Enters, Typed, TypedAttempt
<1>12. ASSUME AbortWait(r) PROVE Enters(r)
  BY <1>12 DEF AbortWait, Back, Ends, Go, Using, Enters, Typed, TypedAttempt
<1>13. ASSUME RefreshWrites(r) PROVE Enters(r)
  BY <1>13 DEF Go, RefreshWrites, attempt, Using, Enters, Typed, TypedAttempt
<1>14. ASSUME MarkRefreshed(r) PROVE Enters(r)
  BY <1>14 DEF Back, Continue, Detached, Go, MarkRefreshed, attempt, Using, Enters, Typed,
      TypedAttempt
<1>15. ASSUME Renewed(r) PROVE Enters(r)
  BY <1>15 DEF Back, Continue, Detached, Go, Renewed, attempt, Using, Enters, Typed, TypedAttempt
<1>16. ASSUME AbortRenewed(r) PROVE Enters(r)
  BY <1>16 DEF AbortRenewed, Detached, Go, attempt, Using, Enters, Typed, TypedAttempt
<1>17. ASSUME RefreshFails(r) PROVE Enters(r)
  BY <1>17 DEF Back, Continue, Detached, Go, RefreshFails, attempt, Using,
      Enters, Typed, TypedAttempt
<1>18. ASSUME AbortRefresh(r) PROVE Enters(r)
  BY <1>18 DEF AbortRefresh, Detached, Go, attempt, Using, Enters, Typed, TypedAttempt
<1>19. ASSUME Judge(r) PROVE Enters(r)
  BY <1>19 DEF Back, Ends, Go, Judge, attempt, Using, Enters, Typed, TypedAttempt
<1>20. ASSUME Accepted(r) PROVE Enters(r)
  BY <1>20 DEF Accepted, Go, attempt, Using, Enters, Typed, TypedAttempt
<1>21. ASSUME StreamEnds(r) PROVE Enters(r)
  BY <1>21 DEF Back, Ends, Go, StreamEnds, Using, Enters, Typed, TypedAttempt
<1>22. ASSUME DeniedOnProbation(r) PROVE Enters(r)
  BY <1>22 DEF Back, DeniedOnProbation, Go, Using, Enters, Typed, TypedAttempt
<1>23. ASSUME Denied(r) PROVE Enters(r)
  BY <1>23 DEF Asks, Back, Denied, Go, Recover, Using, Enters, Typed, TypedAttempt
<1>24. ASSUME Limited(r) PROVE Enters(r)
  BY <1>24 DEF Back, Go, Limited, Using, Enters, Typed, TypedAttempt
<1>25. ASSUME Transient(r) PROVE Enters(r)
  BY <1>25 DEF Back, Ends, Go, Transient, attempt, Using, Enters, Typed, TypedAttempt
<1>26. ASSUME PauseEnds(r) PROVE Enters(r)
  BY <1>26 DEF Back, Go, PauseEnds, Using, Enters, Typed, TypedAttempt
<1>27. ASSUME Refused(r) PROVE Enters(r)
  BY <1>27 DEF Back, Ends, Go, Refused, Using, Enters, Typed, TypedAttempt
<1>28. ASSUME NoAnswer(r) PROVE Enters(r)
  BY <1>28 DEF Back, Ends, Go, NoAnswer, Using, Enters, Typed, TypedAttempt
<1>29. ASSUME StreamFails(r) PROVE Enters(r)
  BY <1>29 DEF Asks, Go, StreamFails, Using, Enters, Typed, TypedAttempt
<1>30. ASSUME StreamFailsOnProbation(r) PROVE Enters(r)
  BY <1>30 DEF Go, StreamFailsOnProbation, Using, Enters, Typed, TypedAttempt
<1>31. ASSUME StreamResumes(r) PROVE Enters(r)
  BY <1>31 DEF Go, StreamResumes, Using, Enters, Typed, TypedAttempt
<1>32. ASSUME StreamLeft(r) PROVE Enters(r)
  BY <1>32 DEF StreamLeft, Using, Enters, Typed, TypedAttempt
<1> QED
  BY <1>1, <1>2, <1>3, <1>4, <1>5, <1>6, <1>7, <1>8, <1>9, <1>10, <1>11, <1>12, <1>13,
      <1>14, <1>15, <1>16, <1>17, <1>18, <1>19, <1>20, <1>21, <1>22, <1>23, <1>24,
      <1>25, <1>26, <1>27, <1>28, <1>29, <1>30, <1>31, <1>32 DEF Acquires, Recovery,
      Answered

\* Whatever a request does, entries and waiters keep their owners.
LEMMA OwnedRequest ==
  ASSUME Typed, Controlled, Ordered, Owned, WaitsOwned, Typed',
         NEW r \in Request, Kind(r), Framed(r)
  PROVE  Owned' /\ WaitsOwned'
<1> USE NoneAssumption
<1>0. \A m \in Member, p \in Fingerprint : entry[m][p].owner \in Request \cup {None}
  BY DEF Typed, TypedCoordinator, Entry
<1>a. \A s \in Request \ {r} : waits[s] = s => waits'[s] = s
  BY AcceptEffect DEF Kind, Quiet, Stays, Begins, Settles, Accepts, Marks
<1>1. \A m \in Member, p \in Fingerprint, s \in Request \ {r} :
        Owns(m, p, s) /\ entry'[m][p] = entry[m][p] => Owns(m, p, s)'
  BY <1>a DEF Owns, Framed
<1>2. CASE Quiet(r)
  <2>1. Owned' BY <1>0, <1>1, <1>2 DEF Quiet, Owned, coordinator
  <2>2. WaitsOwned' BY <1>2 DEF Quiet, WaitsOwned, HasEntry, coordinator
  <2> QED BY <2>1, <2>2
<1>7. CASE Stays(r)
  <2>1. Owned' BY <1>7, <1>1 DEF Stays, Owned, Owns, coordinator
  <2>2. WaitsOwned' BY <1>7 DEF Stays, WaitsOwned, coordinator
  <2> QED BY <2>1, <2>2
<1>3. CASE Begins(r)
  <2>1. PICK m \in Member, p \in Fingerprint :
          /\ BeginRecovery(r, m, p)
          /\ entry[m][p].kind \notin {"recovering", "probation", "rejected"}
          /\ pc'[r] = "refresh" /\ member'[r] = m /\ print'[r] = p
    BY <1>3 DEF Begins
  <2>2. ~ HasEntry(r) /\ UNCHANGED waits BY <1>3 DEF Begins
  <2>3. entry'[m][p].kind = "recovering" /\ entry'[m][p].owner = r /\ entry[m][p].owner = None
    <3>1. entry'[m][p] = [kind |-> "recovering", owner |-> r]
      BY <2>1 DEF BeginRecovery, Typed, TypedCoordinator
    <3>2. entry[m][p].owner = None BY <2>1 DEF Owned
    <3> QED BY <3>1, <3>2
  <2>4. \A k \in Member, q \in Fingerprint : (k = m /\ q = p) \/ entry'[k][q] = entry[k][q]
    BY <2>1 DEF BeginRecovery, Typed, TypedCoordinator
  <2>5. Owns(m, p, r)' BY <2>1, <2>3 DEF Owns, Recovering
  <2>6. Owned' BY <1>0, <1>1, <2>2, <2>3, <2>4, <2>5 DEF Owned, HasEntry
  <2>7. WaitsOwned' BY <2>2, <2>3, <2>4 DEF WaitsOwned
  <2> QED BY <2>6, <2>7
<1>4. CASE Settles(r)
  <2>1. PICK kind \in Settled :
          \A m \in Member, p \in Fingerprint :
            entry'[m][p] = IF entry[m][p].owner = r THEN Known(kind) ELSE entry[m][p]
    BY <1>4 DEF Settles
  <2>2. Known(kind).owner = None /\ Known(kind).kind \notin {"recovering", "probation"}
    BY DEF Known, Settled
  <2>3. Owned' BY <1>0, <1>1, <2>1, <2>2 DEF Owned
  <2>4. \A s \in Request : waits'[s] = IF waits[s] = r THEN None ELSE waits[s]
    BY <1>4 DEF Settles
  <2>5. WaitsOwned' BY <2>1, <2>4 DEF WaitsOwned
  <2> QED BY <2>3, <2>5
<1>5. CASE Accepts(r)
  <2>1. PICK m \in Member, p \in Fingerprint : MarkAccepted(m, p) BY <1>5 DEF Accepts
  <2>2. ~ HasEntry(r) /\ UNCHANGED waits BY <1>5, <2>1, AcceptEffect DEF Accepts
  <2>3. \A k \in Member, q \in Fingerprint :
          \/ entry'[k][q] = entry[k][q]
          \/ /\ entry[k][q].kind \in {"none", "unknown", "accepted"}
             /\ entry'[k][q].kind = "accepted" /\ entry'[k][q].owner = None
    BY <2>1, AcceptEffect DEF Known
  <2>4. \A k \in Member, q \in Fingerprint : entry'[k][q].owner = entry[k][q].owner
    BY <2>3 DEF Owned
  <2>5. Owned' BY <1>0, <1>1, <2>2, <2>3 DEF Owned, HasEntry
  <2>6. WaitsOwned' BY <2>2, <2>4 DEF WaitsOwned
  <2> QED BY <2>5, <2>6
<1>6. CASE Marks(r)
  <2>1. PICK m \in Member, p \in Fingerprint, q \in Fingerprint :
          m = member[r] /\ p = print[r] /\ q = file[m]
    BY <1>6 DEF Marks, Typed, TypedAttempt, TypedPool
  <2>2. p \in Nat /\ q \in Nat /\ p < q /\ p = current[m] /\ Recovers(r)
    BY <1>6, <2>1, PrintAssumption DEF Marks, Fingerprint
  <2>3. entry[m][p].owner = r /\ entry[m][q].kind = "none" /\ entry[m][q].owner = None
    <3>1. entry[m][p].owner = r BY <2>1, <2>2, OnProbationKind
    <3>2. entry[m][q].kind = "none" BY <2>1, <2>2 DEF Ordered, Spoken
    <3>3. entry[m][q].owner = None BY <3>2 DEF Owned
    <3> QED BY <3>1, <3>2, <3>3
  <2>4. /\ entry'[m][q].kind = "probation" /\ entry'[m][q].owner = r
        /\ entry'[m][p].kind = "none" /\ entry'[m][p].owner = None
    BY <1>6, <2>1, <2>2 DEF Marks, Known
  <2>5. \A k \in Member, x \in Fingerprint : (k = m /\ x \in {p, q}) \/ entry'[k][x] = entry[k][x]
    BY <1>6, <2>1 DEF Marks
  <2>6. /\ pc[r] = "refreshed" /\ pc'[r] = "renewed" /\ member'[r] = m /\ print'[r] = q
        /\ UNCHANGED waits
    BY <1>6, <2>1 DEF Marks
  <2>7. \A k \in Member, x \in Fingerprint : entry[k][x].owner = r => k = m /\ x = p
    BY <2>1, <2>6, OwnsOne DEF Recovering
  <2>8. Owns(m, q, r)' BY <2>4, <2>6 DEF Owns
  <2>9. Owned' BY <1>0, <1>1, <2>4, <2>5, <2>7, <2>8 DEF Owned
  <2>10. \A o \in Request, k \in Member, x \in Fingerprint :
           entry[k][x].owner = o => \E x2 \in Fingerprint : entry'[k][x2].owner = o
    BY <2>3, <2>4, <2>5
  <2>11. WaitsOwned' BY <2>6, <2>10 DEF WaitsOwned, Typed, TypedClaims
  <2> QED BY <2>9, <2>11
<1> QED BY <1>2, <1>3, <1>4, <1>5, <1>6, <1>7 DEF Kind

\* The same for a credential that is replaced, and for a backoff that is over.
LEMMA OwnedOthers ==
  ASSUME Typed, Controlled, Owned, WaitsOwned, NEW m \in Member,
         CoolingOver(m) \/ BackoffOver(m) \/ Relogin(m)
  PROVE  Owned' /\ WaitsOwned'
<1> USE NoneAssumption
<1>1. ASSUME CoolingOver(m) PROVE Owned' /\ WaitsOwned'
  BY <1>1 DEF CoolingOver, coordinator, requests, attempt, Owned, Owns, WaitsOwned
<1>2. ASSUME BackoffOver(m) PROVE Owned' /\ WaitsOwned'
  <2>1. PICK p \in Fingerprint :
          entry[m][p].kind = "backoff" /\ entry' = [entry EXCEPT ![m][p] = Known("due")]
    BY <1>2 DEF BackoffOver
  <2>2. entry'[m][p].kind = "due" /\ entry'[m][p].owner = None /\ entry[m][p].owner = None
    BY <2>1 DEF Known, Owned, Typed, TypedCoordinator
  <2>3. \A k \in Member, q \in Fingerprint : (k = m /\ q = p) \/ entry'[k][q] = entry[k][q]
    BY <2>1 DEF Typed, TypedCoordinator
  <2>4. UNCHANGED <<pc, member, print, claim, waits>>
    BY <1>2 DEF BackoffOver, requests, attempt
  <2>5. Owned' BY <2>2, <2>3, <2>4 DEF Owned, Owns
  <2>6. WaitsOwned' BY <2>2, <2>3, <2>4 DEF WaitsOwned
  <2> QED BY <2>5, <2>6
<1>3. ASSUME Relogin(m) PROVE Owned' /\ WaitsOwned'
  <2>1. UNCHANGED <<pc, member, print, claim>> BY <1>3 DEF Relogin, attempt
  <2>2. \A p \in Fingerprint :
          entry'[m][p].kind \in {"unknown", "none"} /\ entry'[m][p].owner = None
    BY <1>3 DEF Relogin, Known, Typed, TypedCoordinator
  <2>3. \A k \in Member \ {m}, p \in Fingerprint : entry'[k][p] = entry[k][p]
    BY <1>3 DEF Relogin, Typed, TypedCoordinator
  <2>5. \A s \in Request :
          waits'[s] = IF waits[s] \in {entry[m][p].owner : p \in Fingerprint} \ {None}
                      THEN None ELSE waits[s]
    BY <1>3 DEF Relogin, Settle
  <2>7. ASSUME NEW k \in Member \ {m}, NEW p \in Fingerprint, NEW o \in Request, Owns(k, p, o)
        PROVE  Owns(k, p, o)'
    <3>1. CASE pc[o] # "wait" BY <2>1, <2>3, <2>7, <3>1 DEF Owns
    <3>2. CASE pc[o] = "wait"
      <4>1. member[o] = k /\ waits[o] = o BY <2>7, <3>2 DEF Owns, Recovering
      <4>2. \A q \in Fingerprint : entry[m][q].owner # o
        BY <3>2, <4>1 DEF Owned, Owns, Recovering
      <4> QED BY <2>1, <2>3, <2>5, <2>7, <4>1, <4>2 DEF Owns
    <3> QED BY <3>1, <3>2
  <2>4. Owned' BY <2>2, <2>3, <2>7 DEF Owned
  <2>6. WaitsOwned' BY <2>3, <2>5 DEF WaitsOwned
  <2> QED BY <2>4, <2>6
<1> QED BY <1>1, <1>2, <1>3

\* Whatever a request does, no credential is refreshed twice.
LEMMA RefreshingRequest ==
  ASSUME Typed, Controlled, Ordered, Owned, WaitsOwned, Refreshing, OneRefresh, Typed', Ordered',
         NEW r \in Request, Kind(r), Framed(r)
  PROVE  Refreshing' /\ OneRefresh'
<1>0. \A m \in Member, p \in Fingerprint : entry[m][p].owner = r =>
        \A s \in Request \ {r} : ~ (Recovers(s) /\ member[s] = m /\ print[s] = p)
  BY OnProbationKind
<1>a. \A s \in Request : print[s] \in Nat /\ print[s] \in Fingerprint
  BY PrintAssumption DEF Fingerprint, Typed, TypedAttempt
<1>b. \A m \in Member : current[m] \in Nat /\ current'[m] \in Nat
  BY PrintAssumption DEF Fingerprint, Typed, TypedCoordinator
<1>c. \A s \in Request : pc[s] = "refresh" => member[s] \in Member
  BY DEF Controlled, Active, Recovering
<1>d. ASSUME pc'[r] # "refresh",
             \A s \in Request \ {r} : pc[s] = "refresh" /\ Recovers(s) =>
               entry'[member[s]][print[s]] = entry[member[s]][print[s]],
             \A m \in Member : current[m] <= current'[m]
      PROVE  Refreshing' /\ OneRefresh'
  <2>1. Refreshing'
    BY <1>a, <1>b, <1>c, <1>d DEF Refreshing, Recovers, Framed
  <2>2. OneRefresh' BY <1>d DEF OneRefresh, Framed
  <2> QED BY <2>1, <2>2
<1>1. CASE Quiet(r) BY <1>1, <1>b, <1>d DEF Quiet, coordinator
<1>6. CASE Stays(r)
  BY <1>6 DEF Stays, Refreshing, Recovers, OneRefresh, coordinator
<1>2. CASE Begins(r)
  <2>1. PICK m \in Member, p \in Fingerprint :
          /\ BeginRecovery(r, m, p)
          /\ current[m] = p /\ entry[m][p].kind \notin {"recovering", "probation", "rejected"}
          /\ pc'[r] = "refresh" /\ member'[r] = m /\ print'[r] = p
    BY <1>2 DEF Begins
  <2>2. entry'[m][p] = [kind |-> "recovering", owner |-> r]
    BY <2>1 DEF BeginRecovery, Typed, TypedCoordinator
  <2>3. \A k \in Member, q \in Fingerprint : (k = m /\ q = p) \/ entry'[k][q] = entry[k][q]
    BY <2>1 DEF BeginRecovery, Typed, TypedCoordinator
  <2>4. \A k \in Member : current'[k] = current[k]
    BY <2>1 DEF BeginRecovery, Typed, TypedCoordinator
  <2>5. \A s \in Request \ {r} : pc[s] = "refresh" => ~ (member[s] = m /\ print[s] = p)
    BY <2>1, <1>a, <1>b, <1>c, OnProbationKind DEF Refreshing
  <2>6. ASSUME NEW s \in Request, s # r, pc'[s] = "refresh"
        PROVE  Recovers(s)' \/ print'[s] < current'[member'[s]]
    BY <2>3, <2>4, <2>5, <2>6, <1>a, <1>c DEF Refreshing, Recovers, Framed
  <2>7. Recovers(r)' BY <2>1, <2>2 DEF Recovers
  <2>8. Refreshing' BY <2>6, <2>7 DEF Refreshing
  <2>9. OneRefresh' BY <2>1, <2>5 DEF OneRefresh, Framed
  <2> QED BY <2>8, <2>9
<1>3. CASE Settles(r)
  <2>1. pc'[r] # "refresh" /\ UNCHANGED current BY <1>3 DEF Settles
  <2>2. \A m \in Member, p \in Fingerprint : entry[m][p].owner # r => entry'[m][p] = entry[m][p]
    BY <1>3 DEF Settles
  <2> QED BY <2>1, <2>2, <1>0, <1>a, <1>b, <1>c, <1>d
<1>4. CASE Accepts(r)
  <2>1. PICK m \in Member, p \in Fingerprint : MarkAccepted(m, p) BY <1>4 DEF Accepts
  <2>2. UNCHANGED current BY <2>1, AcceptEffect
  <2>3. \A k \in Member, q \in Fingerprint :
          entry[k][q].kind = "recovering" => entry'[k][q] = entry[k][q]
    BY <2>1, AcceptEffect
  <2>4. pc'[r] # "refresh" BY <1>4 DEF Accepts
  <2> QED BY <2>2, <2>3, <2>4, <1>a, <1>b, <1>c, <1>d, OnProbationKind
<1>5. CASE Marks(r)
  <2>1. PICK m \in Member, p \in Fingerprint, q \in Fingerprint :
          m = member[r] /\ p = print[r] /\ q = file[m]
    BY <1>5 DEF Marks, Typed, TypedAttempt, TypedPool
  <2>2. p \in Nat /\ q \in Nat /\ p < q /\ p = current[m] /\ Recovers(r)
    BY <1>5, <2>1, PrintAssumption DEF Marks, Fingerprint
  <2>3. entry[m][p].owner = r BY <2>1, <2>2, OnProbationKind
  <2>4. entry[m][q].kind = "none" BY <2>1, <2>2 DEF Ordered, Spoken
  <2>5. \A k \in Member, x \in Fingerprint : (k = m /\ x \in {p, q}) \/ entry'[k][x] = entry[k][x]
    BY <1>5, <2>1 DEF Marks
  <2>6. current' = [current EXCEPT ![m] = q] /\ pc'[r] = "renewed" BY <1>5, <2>1 DEF Marks
  <2>7. \A k \in Member : current[k] <= current'[k]
    BY <2>1, <2>2, <2>6, <1>b DEF Typed, TypedCoordinator
  <2>8. \A s \in Request \ {r} : pc[s] = "refresh" /\ Recovers(s) =>
          entry'[member[s]][print[s]] = entry[member[s]][print[s]]
    BY <2>3, <2>4, <2>5, <1>a, <1>c, OnProbationKind
  <2> QED BY <2>6, <2>7, <2>8, <1>d
<1> QED BY <1>1, <1>2, <1>3, <1>4, <1>5, <1>6 DEF Kind

\* The same for the steps that are no request's.
LEMMA RefreshingOthers ==
  ASSUME Typed, Controlled, Ordered, Refreshing, OneRefresh, Typed', NEW m \in Member,
         CoolingOver(m) \/ BackoffOver(m) \/ Relogin(m)
  PROVE  Refreshing' /\ OneRefresh'
<1>1. ASSUME CoolingOver(m) PROVE Refreshing' /\ OneRefresh'
  BY <1>1 DEF CoolingOver, coordinator, requests, attempt, Refreshing, Recovers, OneRefresh
<1>2. ASSUME BackoffOver(m) PROVE Refreshing' /\ OneRefresh'
  <2>1. PICK p \in Fingerprint :
          entry[m][p].kind = "backoff" /\ entry' = [entry EXCEPT ![m][p] = Known("due")]
    BY <1>2 DEF BackoffOver
  <2>2. UNCHANGED <<current, pc, member, print>> BY <1>2 DEF BackoffOver, requests, attempt
  <2>3. \A k \in Member, q \in Fingerprint :
          entry[k][q].kind = "recovering" => entry'[k][q] = entry[k][q]
    BY <2>1 DEF Typed, TypedCoordinator
  <2>4. \A s \in Request : pc[s] = "refresh" => member[s] \in Member /\ print[s] \in Fingerprint
    BY DEF Controlled, Active, Recovering, Typed, TypedAttempt
  <2>5. \A s \in Request : pc[s] = "refresh" /\ Recovers(s) => Recovers(s)'
    BY <2>2, <2>3, <2>4, OnProbationKind DEF Recovers
  <2>6. Refreshing' BY <2>2, <2>5 DEF Refreshing
  <2>7. OneRefresh' BY <2>2 DEF OneRefresh
  <2> QED BY <2>6, <2>7
<1>3. ASSUME Relogin(m) PROVE Refreshing' /\ OneRefresh'
  <2>1. UNCHANGED <<pc, member, print>> BY <1>3 DEF Relogin, attempt
  <2>2. /\ file[m] \in Nat /\ current[m] \in Nat /\ current[m] <= file[m]
        /\ current'[m] = file[m] + 1
        /\ \A k \in Member \ {m} : current'[k] = current[k]
    BY <1>3, PrintAssumption
    DEF Relogin, Fingerprint, Ordered, CredentialsOrdered, Typed, TypedCoordinator, TypedPool
  <2>3. \A k \in Member \ {m}, p \in Fingerprint : entry'[k][p] = entry[k][p]
    BY <1>3 DEF Relogin, Typed, TypedCoordinator
  <2>4. \A s \in Request : pc[s] = "refresh" =>
          /\ member[s] \in Member /\ print[s] \in Fingerprint /\ print[s] \in Nat
          /\ print[s] <= current[member[s]]
    BY PrintAssumption
    DEF Fingerprint, Controlled, Active, Recovering, Ordered, PrintsOrdered, Typed, TypedAttempt
  <2>5. ASSUME NEW s \in Request, pc'[s] = "refresh"
        PROVE  Recovers(s)' \/ print'[s] < current'[member'[s]]
    <3>1. CASE member[s] = m BY <2>1, <2>2, <2>4, <2>5, <3>1
    <3>2. CASE member[s] # m BY <2>1, <2>2, <2>3, <2>4, <2>5, <3>2 DEF Refreshing, Recovers
    <3> QED BY <3>1, <3>2
  <2>6. Refreshing' BY <2>5 DEF Refreshing
  <2>7. OneRefresh' BY <2>1 DEF OneRefresh
  <2> QED BY <2>6, <2>7
<1> QED BY <1>1, <1>2, <1>3

\* Whatever a request does, a probation stays reserved.
LEMMA ReservedRequest ==
  ASSUME Typed, Controlled, Ordered, Owned, Reserved, Typed', Controlled',
         NEW r \in Request, Kind(r), Framed(r), Enters(r)
  PROVE  Reserved'
<1>a. \A s \in Request : print[s] \in Nat /\ print[s] \in Fingerprint
  BY PrintAssumption DEF Fingerprint, Typed, TypedAttempt
<1>d. ASSUME \A m \in Member, p \in Fingerprint :
               entry'[m][p].kind = "probation" => entry[m][p].kind = "probation"
      PROVE  Reserved'
  BY <1>d DEF Reserved, Framed, Enters
<1>1. CASE Quiet(r) BY <1>1, <1>d DEF Quiet, coordinator
<1>6. CASE Stays(r) BY <1>6, <1>d DEF Stays, coordinator
<1>2. CASE Begins(r)
  <2>1. PICK m \in Member, p \in Fingerprint : BeginRecovery(r, m, p) BY <1>2 DEF Begins
  <2>2. entry'[m][p] = [kind |-> "recovering", owner |-> r]
    BY <2>1 DEF BeginRecovery, Typed, TypedCoordinator
  <2>3. \A k \in Member, q \in Fingerprint : (k = m /\ q = p) \/ entry'[k][q] = entry[k][q]
    BY <2>1 DEF BeginRecovery, Typed, TypedCoordinator
  <2> QED BY <2>2, <2>3, <1>d
<1>3. CASE Settles(r)
  <2>1. \A m \in Member, p \in Fingerprint :
          entry'[m][p] = entry[m][p] \/ entry'[m][p].kind \in Settled
    BY <1>3 DEF Settles, Known
  <2> QED BY <2>1, <1>d DEF Settled
<1>4. CASE Accepts(r)
  <2>1. \A m \in Member, p \in Fingerprint :
          entry'[m][p] = entry[m][p] \/ entry'[m][p].kind = "accepted"
    BY <1>4, AcceptEffect DEF Accepts, Known
  <2> QED BY <2>1, <1>d
<1>5. CASE Marks(r)
  <2>1. PICK m \in Member, p \in Fingerprint, q \in Fingerprint :
          m = member[r] /\ p = print[r] /\ q = file[m]
    BY <1>5 DEF Marks, Typed, TypedAttempt, TypedPool
  <2>2. p \in Nat /\ q \in Nat /\ p < q /\ p = current[m] /\ pc'[r] = "renewed"
    BY <1>5, <2>1, PrintAssumption DEF Marks, Fingerprint
  <2>3. \A k \in Member, x \in Fingerprint :
          entry'[k][x].kind = "probation" => entry[k][x].kind = "probation" \/ (k = m /\ x = q)
    BY <1>5, <2>1 DEF Marks, Known
  <2>4. \A s \in Request \ {r} : pc[s] \in Using /\ member[s] = m => print[s] # q
    BY <2>2, <1>a DEF Ordered, PrintsOrdered, Active
  <2> QED BY <2>2, <2>3, <2>4 DEF Reserved, Framed, Using
<1> QED BY <1>1, <1>2, <1>3, <1>4, <1>5, <1>6 DEF Kind

\* The same for the steps that are no request's.
LEMMA ReservedOthers ==
  ASSUME Typed, Reserved, NEW m \in Member, CoolingOver(m) \/ BackoffOver(m) \/ Relogin(m)
  PROVE  Reserved'
<1>1. UNCHANGED <<pc, why, member, print>>
  BY DEF CoolingOver, BackoffOver, Relogin, requests, attempt
<1>2. \A k \in Member, p \in Fingerprint :
        entry'[k][p].kind = "probation" => entry[k][p].kind = "probation"
  BY DEF CoolingOver, BackoffOver, Relogin, Known, coordinator, Typed, TypedCoordinator
<1> QED BY <1>1, <1>2 DEF Reserved

-----------------------------------------------------------------------------
(* The leases                                                                 *)

InUse(r, m) ==
  /\ member[r] = m
  /\ \/ pc[r] \in Using
     \/ pc[r] \in Recovering \cup {"renewed"} /\ why[r] = "stream"
     \/ pc[r] = "wait" /\ why[r] = "early"
Leased(r, m) ==
  \/ InUse(r, m)
  \/ /\ member[r] = m /\ why[r] = "fresh"
     /\ pc[r] \in {"refresh", "refreshed", "renewed", "judge", "ramp", "aborted"}

One(b) == IF b THEN 1 ELSE 0

\* The counts follow the one request that takes the step.
Counts(r) ==
  \A m \in Member :
    /\ inFlight'[m] = inFlight[m] + One(InUse(r, m)') - One(InUse(r, m))
    /\ capacity'[m] = capacity[m] + One(Leased(r, m)') - One(Leased(r, m))

\* Every step of a request moves its own lease only.
LEMMA RequestCounts ==
  ASSUME Typed, Controlled, Typed', NEW r \in Request, Acquires(r) \/ Recovery(r) \/ Answered(r)
  PROVE  Counts(r)
<1>1. ASSUME Start(r) PROVE Counts(r)
  BY <1>1 DEF Asks, Go, Lease, Start, attempt, pool, Controlled, Active, Using, Recovering,
      Counts, One, InUse, Leased, Typed, TypedPool, TypedAttempt
<1>2. ASSUME OutOfAccounts(r) PROVE Counts(r)
  BY <1>2 DEF Asks, Back, Ends, Go, Lease, OutOfAccounts, pool, Controlled, Active, Using,
      Recovering, Counts, One, InUse, Leased, Typed, TypedPool, TypedAttempt
<1>3. ASSUME Select(r) PROVE Counts(r)
  <2>1. pc[r] \in {"acquire", "loop"} /\ UNCHANGED inFlight BY <1>3 DEF Select, Selects
  <2>2. PICK m \in Choice(r) :
          /\ Lease(m)
          /\ Asks(r, m, held'[m], "fresh")
          /\ \/ Go(r, "ramp")
             \/ Go(r, "refresh")
    BY <1>3 DEF Select
  <2>3. m \in Member BY DEF Choice
  <2>4. pc'[r] \in {"ramp", "refresh"} /\ member'[r] = m /\ why'[r] = "fresh"
    <3>1. pc'[r] \in {"ramp", "refresh"} BY <2>2 DEF Go, Typed, TypedAttempt
    <3>2. member'[r] = m BY <2>2 DEF Asks, Typed, TypedAttempt
    <3>3. why'[r] = "fresh" BY <2>2 DEF Asks, Typed, TypedAttempt
    <3> QED BY <3>1, <3>2, <3>3
  <2>5. capacity' = [capacity EXCEPT ![m] = @ + 1] BY <2>2 DEF Lease
  <2>6. \A n \in Member :
          /\ ~ InUse(r, n) /\ ~ InUse(r, n)' /\ ~ Leased(r, n)
          /\ Leased(r, n)' <=> n = m
    BY <2>1, <2>4 DEF InUse, Leased, Using, Recovering
  <2> QED BY <2>1, <2>3, <2>5, <2>6 DEF Counts, One, Typed, TypedPool
<1>4. ASSUME AwaitRecovery(r) PROVE Counts(r)
  <2>1. pc[r] \in {"acquire", "loop"} /\ UNCHANGED <<inFlight, capacity>>
    BY <1>4 DEF AwaitRecovery, Selects
  <2>2. pc'[r] = "wait" BY <1>4 DEF AwaitRecovery, Go, Typed, TypedAttempt
  <2>3. why'[r] = "select" BY <1>4 DEF AwaitRecovery, Asks, Typed, TypedAttempt
  <2> QED BY <2>1, <2>2, <2>3 DEF Counts, One, InUse, Leased, Using, Recovering, Typed, TypedPool
<1>5. ASSUME NoAccount(r) PROVE Counts(r)
  <2>1. pc[r] \in {"acquire", "loop"} /\ UNCHANGED <<inFlight, capacity>>
    BY <1>5 DEF NoAccount, Selects
  <2>2. pc'[r] = "done" BY <1>5 DEF NoAccount, Ends, Back, Go, Typed, TypedAttempt
  <2> QED BY <2>1, <2>2 DEF Counts, One, InUse, Leased, Using, Recovering, Typed, TypedPool
<1>6. ASSUME Revalidate(r) PROVE Counts(r)
  BY <1>6 DEF Asks, Attempt, Back, Go, Lease, Return, Revalidate, Controlled, Active, Using,
      Recovering, Counts, One, InUse, Leased, Typed, TypedPool, TypedAttempt
<1>7. ASSUME AbortRamp(r) PROVE Counts(r)
  BY <1>7 DEF AbortRamp, Asks, Go, Lease, attempt, pool, Controlled, Active, Using,
      Recovering, Counts, One, InUse, Leased, Typed, TypedPool, TypedAttempt
<1>8. ASSUME AcquireProbation(r) PROVE Counts(r)
  BY <1>8 DEF AcquireProbation, Asks, Attempt, Go, Lease, Controlled, Active, Using,
      Recovering, Counts, One, InUse, Leased, Typed, TypedPool, TypedAttempt
<1>9. ASSUME AcquireProbationFails(r) PROVE Counts(r)
  BY <1>9 DEF AcquireProbationFails, Asks, Back, Ends, Go, Lease, pool, Controlled, Active,
      Using, Recovering, Counts, One, InUse, Leased, Typed, TypedPool, TypedAttempt
<1>10. ASSUME RecoverOverdue(r) PROVE Counts(r)
  BY <1>10 DEF Asks, Go, Lease, RecoverOverdue, pool, Controlled, Active, Using, Recovering,
      Counts, One, InUse, Leased, Typed, TypedPool, TypedAttempt
<1>11. ASSUME Resume(r) PROVE Counts(r)
  BY <1>11 DEF Asks, Back, Go, Lease, Resume, pool, Controlled, Active, Using, Recovering,
      Counts, One, InUse, Leased, Typed, TypedPool, TypedAttempt
<1>12. ASSUME AbortWait(r) PROVE Counts(r)
  BY <1>12 DEF AbortWait, Asks, Back, Ends, Go, Lease, Release, Return, Controlled, Active, Using,
      Recovering, Counts, One, InUse, Leased, Typed, TypedPool, TypedAttempt
<1>13. ASSUME RefreshWrites(r) PROVE Counts(r)
  BY <1>13 DEF Asks, Go, Lease, RefreshWrites, attempt, Controlled, Active, Using,
      Recovering, Counts, One, InUse, Leased, Typed, TypedPool, TypedAttempt
<1>14. ASSUME MarkRefreshed(r) PROVE Counts(r)
  BY <1>14 DEF Asks, Back, Continue, Detached, Go, Lease, MarkRefreshed,
      attempt, Controlled, Active,
      Using, Recovering, Counts, One, InUse, Leased, Typed, TypedPool, TypedAttempt
<1>15. ASSUME Renewed(r) PROVE Counts(r)
  BY <1>15 DEF Asks, Back, Continue, Detached, Go, Lease, Renewed, attempt,
      Controlled, Active, Using, Recovering,
      Counts, One, InUse, Leased, Typed, TypedPool, TypedAttempt
<1>16. ASSUME AbortRenewed(r) PROVE Counts(r)
  BY <1>16 DEF AbortRenewed, Detached, Asks, Go, Lease, attempt, Controlled, Active, Using,
      Recovering, Counts, One, InUse, Leased, Typed, TypedPool, TypedAttempt
<1>17. ASSUME RefreshFails(r) PROVE Counts(r)
  BY <1>17 DEF Asks, Back, Continue, Detached, Go, Lease, RefreshFails, attempt, pool, Controlled,
      Active, Using, Recovering, Counts, One, InUse, Leased, Typed, TypedPool, TypedAttempt
<1>18. ASSUME AbortRefresh(r) PROVE Counts(r)
  BY <1>18 DEF AbortRefresh, Detached, Asks, Go, Lease, attempt, pool, Controlled, Active, Using,
      Recovering, Counts, One, InUse, Leased, Typed, TypedPool, TypedAttempt
<1>19. ASSUME Judge(r) PROVE Counts(r)
  BY <1>19 DEF Asks, Back, Ends, Go, Judge, Lease, Return, attempt, Controlled, Active,
      Using, Recovering, Counts, One, InUse, Leased, Typed, TypedPool, TypedAttempt
<1>20. ASSUME Accepted(r) PROVE Counts(r)
  BY <1>20 DEF Accepted, Asks, Go, Lease, attempt, pool, Controlled, Active, Using,
      Recovering, Counts, One, InUse, Leased, Typed, TypedPool, TypedAttempt
<1>21. ASSUME StreamEnds(r) PROVE Counts(r)
  BY <1>21 DEF Asks, Back, Ends, Go, Lease, Release, Return, StreamEnds, Controlled, Active,
      Using, Recovering, Counts, One, InUse, Leased, Typed, TypedPool, TypedAttempt
<1>22. ASSUME DeniedOnProbation(r) PROVE Counts(r)
  BY <1>22 DEF Asks, Back, DeniedOnProbation, Go, Lease, Release, Return, Controlled,
      Active, Using, Recovering, Counts, One, InUse, Leased, Typed, TypedPool, TypedAttempt
<1>23. ASSUME Denied(r) PROVE Counts(r)
  BY <1>23 DEF Asks, Back, Denied, Go, Lease, Recover, Release, Return, Controlled, Active,
      Using, Recovering, Counts, One, InUse, Leased, Typed, TypedPool, TypedAttempt
<1>24. ASSUME Limited(r) PROVE Counts(r)
  BY <1>24 DEF Asks, Back, Go, Lease, Limited, Release, Return, Controlled, Active, Using,
      Recovering, Counts, One, InUse, Leased, Typed, TypedPool, TypedAttempt
<1>25. ASSUME Transient(r) PROVE Counts(r)
  BY <1>25 DEF Asks, Back, Ends, Go, Lease, Release, Return, Transient, attempt, Controlled,
      Active, Using, Recovering, Counts, One, InUse, Leased, Typed, TypedPool, TypedAttempt
<1>26. ASSUME PauseEnds(r) PROVE Counts(r)
  BY <1>26 DEF Asks, Back, Go, Lease, PauseEnds, Release, Return, Controlled, Active, Using,
      Recovering, Counts, One, InUse, Leased, Typed, TypedPool, TypedAttempt
<1>27. ASSUME Refused(r) PROVE Counts(r)
  BY <1>27 DEF Asks, Back, Ends, Go, Lease, Refused, Release, Return, Controlled, Active,
      Using, Recovering, Counts, One, InUse, Leased, Typed, TypedPool, TypedAttempt
<1>28. ASSUME NoAnswer(r) PROVE Counts(r)
  BY <1>28 DEF Asks, Back, Ends, Go, Lease, NoAnswer, Release, Return, Controlled, Active,
      Using, Recovering, Counts, One, InUse, Leased, Typed, TypedPool, TypedAttempt
<1>29. ASSUME StreamFails(r) PROVE Counts(r)
  BY <1>29 DEF Asks, Go, StreamFails, Controlled, Active, Using, Recovering,
      Counts, One, InUse, Leased, Typed, TypedPool, TypedAttempt
<1>30. ASSUME StreamFailsOnProbation(r) PROVE Counts(r)
  BY <1>30 DEF Go, StreamFailsOnProbation, pool, Controlled, Active, Using, Recovering,
      Counts, One, InUse, Leased, Typed, TypedPool, TypedAttempt
<1>31. ASSUME StreamResumes(r) PROVE Counts(r)
  BY <1>31 DEF Go, StreamResumes, pool, Controlled, Active, Using, Recovering,
      Counts, One, InUse, Leased, Typed, TypedPool, TypedAttempt
<1>32. ASSUME StreamLeft(r) PROVE Counts(r)
  BY <1>32 DEF Release, Return, StreamLeft, Controlled, Active, Using, Recovering,
      Counts, One, InUse, Leased, Typed, TypedPool, TypedAttempt
<1> QED
  BY <1>1, <1>2, <1>3, <1>4, <1>5, <1>6, <1>7, <1>8, <1>9, <1>10, <1>11, <1>12, <1>13,
      <1>14, <1>15, <1>16, <1>17, <1>18, <1>19, <1>20, <1>21, <1>22, <1>23, <1>24,
      <1>25, <1>26, <1>27, <1>28, <1>29, <1>30, <1>31, <1>32 DEF Acquires, Recovery,
      Answered

\* Sets that differ in one element differ by that in size.
LEMMA OneMore ==
  ASSUME NEW S, NEW T, NEW r, IsFiniteSet(S), T \ {r} = S \ {r}
  PROVE  /\ IsFiniteSet(T) /\ Cardinality(S) \in Nat /\ Cardinality(T) \in Nat
         /\ Cardinality(T) = Cardinality(S) + One(r \in T) - One(r \in S)
<1>1. Cardinality(S) \in Nat BY FS_CardinalityType
<1>2. CASE r \in S /\ r \in T
  <2>1. T = S BY <1>2
  <2> QED BY <1>1, <1>2, <2>1 DEF One
<1>3. CASE r \notin S /\ r \notin T
  <2>1. T = S BY <1>3
  <2> QED BY <1>1, <1>3, <2>1 DEF One
<1>4. CASE r \in S /\ r \notin T
  <2>1. T = S \ {r} BY <1>4
  <2>2. IsFiniteSet(T) /\ Cardinality(T) = Cardinality(S) - 1
    BY <1>4, <2>1, FS_RemoveElement
  <2>3. Cardinality(T) \in Nat BY <2>2, FS_CardinalityType
  <2> QED BY <1>1, <1>4, <2>2, <2>3 DEF One
<1>5. CASE r \notin S /\ r \in T
  <2>1. T = S \cup {r} BY <1>5
  <2>2. IsFiniteSet(T) /\ Cardinality(T) = Cardinality(S) + 1 BY <1>5, <2>1, FS_AddElement
  <2> QED BY <1>1, <1>5, <2>2 DEF One
<1> QED BY <1>2, <1>3, <1>4, <1>5

\* The counts stay those of the requests.
LEMMA LeasesRequest ==
  ASSUME Typed, LeasesReturned, NEW r \in Request, Framed(r), Counts(r)
  PROVE  LeasesReturned'
<1>0. \A m \in Member : Uses(m) \subseteq Request /\ Leases(m) \subseteq Request
  BY DEF Uses, Leases
<1>1. \A m \in Member : IsFiniteSet(Uses(m)) /\ IsFiniteSet(Leases(m))
  BY <1>0, FiniteAssumption, FS_Subset
<1>2. \A s \in Request, m \in Member :
        /\ s \in Uses(m) <=> InUse(s, m)
        /\ s \in Leases(m) <=> Leased(s, m)
        /\ s \in Uses(m)' <=> InUse(s, m)'
        /\ s \in Leases(m)' <=> Leased(s, m)'
  BY DEF Uses, Leases, InUse, Leased, Using, Recovering
<1>3. \A s \in Request \ {r}, m \in Member :
        (InUse(s, m)' <=> InUse(s, m)) /\ (Leased(s, m)' <=> Leased(s, m))
  BY DEF InUse, Leased, Framed
<1>4. ASSUME NEW m \in Member
      PROVE  inFlight'[m] = Cardinality(Uses(m)') /\ capacity'[m] = Cardinality(Leases(m)')
  <2>1. Uses(m)' \subseteq Request /\ Leases(m)' \subseteq Request BY DEF Uses, Leases
  <2>2. Uses(m)' \ {r} = Uses(m) \ {r} /\ Leases(m)' \ {r} = Leases(m) \ {r}
    BY <1>0, <1>2, <1>3, <2>1
  <2>3. Cardinality(Uses(m)') = Cardinality(Uses(m)) + One(r \in Uses(m)') - One(r \in Uses(m))
    BY <1>1, <2>2, OneMore
  <2>4. Cardinality(Leases(m)') =
          Cardinality(Leases(m)) + One(r \in Leases(m)') - One(r \in Leases(m))
    BY <1>1, <2>2, OneMore
  <2>5. inFlight[m] = Cardinality(Uses(m)) /\ capacity[m] = Cardinality(Leases(m))
    BY DEF LeasesReturned
  <2> QED BY <1>2, <2>3, <2>4, <2>5 DEF Counts, One
<1> QED BY <1>4 DEF LeasesReturned

\* The same for the steps that are no request's.
LEMMA LeasesOthers ==
  ASSUME LeasesReturned, NEW m \in Member, CoolingOver(m) \/ BackoffOver(m) \/ Relogin(m)
  PROVE  LeasesReturned'
<1>1. UNCHANGED <<inFlight, capacity, pc, why, member>>
  BY DEF CoolingOver, BackoffOver, Relogin, requests, attempt, pool
<1> QED BY <1>1 DEF LeasesReturned, Uses, Leases

-----------------------------------------------------------------------------
(* The invariant                                                              *)

\* The invariant holds at first, and every step keeps it.
LEMMA Initial == ASSUME Init PROVE IInv
<1>0. Fingerprint \subseteq Nat /\ 0 \in Fingerprint BY PrintAssumption DEF Fingerprint
<1>1. Typed
  BY <1>0 DEF Init, Typed, TypedCoordinator, TypedPool, TypedAttempt, TypedTries,
      TypedClaims, Known, Entry, Kinds, Settled, Steps
<1>2. Controlled BY DEF Init, Controlled, Active, Using, Recovering, Claiming
<1>3. Ordered
  BY <1>0 DEF Init, Known, Ordered, CredentialsOrdered, Spoken, PrintsOrdered, Active,
      Using, Recovering
<1>4. Owned /\ WaitsOwned /\ Refreshing /\ OneRefresh /\ Reserved
  BY DEF Init, Known, Owned, WaitsOwned, Refreshing, OneRefresh, Reserved, Using
<1>5. LeasesReturned
  <2>1. \A m \in Member : Uses(m) = {} /\ Leases(m) = {} BY DEF Init, Uses, Leases
  <2> QED BY <2>1, FS_EmptySet DEF Init, LeasesReturned
<1> QED BY <1>1, <1>2, <1>3, <1>4, <1>5 DEF IInv

\* Every step keeps the invariant.
LEMMA Inductive == ASSUME IInv, [Next]_vars PROVE IInv'
<1> USE DEF IInv
<1>1. CASE UNCHANGED vars
  <2> USE <1>1 DEF vars, coordinator, pool, requests, attempt, tries
  <2>1. Typed'
    BY DEF Typed, TypedCoordinator, TypedPool, TypedAttempt, TypedTries, TypedClaims
  <2>2. Controlled' BY DEF Controlled
  <2>3. Ordered' BY DEF Ordered, CredentialsOrdered, Spoken, PrintsOrdered
  <2>4. Owned' /\ WaitsOwned' BY DEF Owned, Owns, WaitsOwned
  <2>5. Refreshing' /\ OneRefresh' /\ Reserved'
    BY DEF Refreshing, Recovers, OneRefresh, Reserved
  <2>6. LeasesReturned' BY DEF LeasesReturned, Uses, Leases
  <2> QED BY <2>1, <2>2, <2>3, <2>4, <2>5, <2>6
<1>2. CASE Next
  <2>1. Typed' BY <1>2, TypedStep
  <2>2. Controlled' BY <1>2, ControlledStep
  <2>3. Ordered' BY <1>2, <2>1, <2>2, OrderedStep
  <2>4. CASE \E r \in Request : Acquires(r) \/ Recovery(r) \/ Answered(r)
    <3>1. PICK r \in Request : Acquires(r) \/ Recovery(r) \/ Answered(r) BY <2>4
    <3>2. Kind(r) /\ Framed(r) /\ Enters(r) /\ Counts(r)
      BY <2>1, <3>1, StepKind, RequestFramed, RequestEnters, RequestCounts
    <3>3. Owned' /\ WaitsOwned' BY <2>1, <3>2, OwnedRequest
    <3>4. Refreshing' /\ OneRefresh' BY <2>1, <2>3, <3>2, RefreshingRequest
    <3>5. Reserved' BY <2>1, <2>2, <3>2, ReservedRequest
    <3>6. LeasesReturned' BY <3>2, LeasesRequest
    <3> QED BY <2>1, <2>2, <2>3, <3>3, <3>4, <3>5, <3>6
  <2>5. CASE \E m \in Member : CoolingOver(m) \/ BackoffOver(m) \/ Relogin(m)
    <3>1. PICK m \in Member : CoolingOver(m) \/ BackoffOver(m) \/ Relogin(m) BY <2>5
    <3>2. Owned' /\ WaitsOwned' BY <3>1, OwnedOthers
    <3>3. Refreshing' /\ OneRefresh' BY <2>1, <3>1, RefreshingOthers
    <3>4. Reserved' BY <3>1, ReservedOthers
    <3>5. LeasesReturned' BY <3>1, LeasesOthers
    <3> QED BY <2>1, <2>2, <2>3, <3>2, <3>3, <3>4, <3>5
  <2> QED BY <1>2, <2>4, <2>5 DEF Next
<1> QED BY <1>1, <1>2

\* The invariant holds, for any accounts and requests and however often credentials
\* are replaced.
THEOREM Invariant == Spec => []IInv
BY Initial, Inductive, PTL DEF Spec

\* What the pool and its requests keep is well typed: no count falls below zero.
THEOREM TypeCorrect == Spec => []TypeOK
<1>1. ASSUME IInv PROVE TypeOK
  <2>1. \A m \in Member : IsFiniteSet(Uses(m)) /\ IsFiniteSet(Leases(m))
    <3>1. \A m \in Member : Uses(m) \subseteq Request /\ Leases(m) \subseteq Request
      BY DEF Uses, Leases
    <3> QED BY <3>1, FiniteAssumption, FS_Subset
  <2>2. \A m \in Member : inFlight[m] \in Nat /\ capacity[m] \in Nat
    BY <1>1, <2>1, FS_CardinalityType DEF IInv, LeasesReturned
  <2>3. inFlight \in [Member -> Nat] /\ capacity \in [Member -> Nat]
    BY <1>1, <2>2 DEF IInv, Typed, TypedPool
  <2> QED BY <1>1, <2>3
      DEF IInv, Typed, TypedCoordinator, TypedPool, TypedAttempt, TypedTries, TypedClaims, TypeOK
<1> QED BY <1>1, Invariant, PTL

\* A refresh token is spent by one request, however many are denied at once.
THEOREM RefreshesOnce == Spec => []OneRefresh
<1>1. ASSUME IInv PROVE OneRefresh BY <1>1 DEF IInv
<1> QED BY <1>1, Invariant, PTL

\* Nobody who selected an account sends a credential that another tries out.
THEOREM TriedOutAlone == Spec => []ProbationAlone
<1>1. ASSUME IInv PROVE ProbationAlone
  <2>1. ASSUME NEW r \in Request, NEW s \in Request, pc[r] = "sent", OnProbation(r, print[r]),
               pc[s] \in {"sent", "pause", "stream"}, member[s] = member[r], why[s] = "fresh"
        PROVE  print[s] # print[r]
    <3>1. member[r] \in Member /\ print[r] \in Fingerprint
      BY <1>1, <2>1 DEF IInv, Controlled, Active, Using, Typed, TypedAttempt
    <3> QED BY <1>1, <2>1, <3>1, OnProbationKind DEF IInv, Reserved, Using
  <2> QED BY <2>1 DEF ProbationAlone
<1> QED BY <1>1, Invariant, PTL

\* The counts that weight the accounts are those of the requests that use them.
THEOREM LeasesBalance == Spec => []LeasesReturned
<1>1. ASSUME IInv PROVE LeasesReturned BY <1>1 DEF IInv
<1> QED BY <1>1, Invariant, PTL

\* Every claim has a request that goes on with it, and every waiter such a claim.
THEOREM ClaimsSettled == Spec => []ClaimsOwned
<1>1. ASSUME IInv PROVE ClaimsOwned
  BY <1>1 DEF IInv, Owned, Owns, WaitsOwned, Recovering, Claiming, ClaimsOwned
<1> QED BY <1>1, Invariant, PTL

\* What was rejected is not accepted by a late answer, nor tried again.
LEMMA RejectedKept ==
  ASSUME IInv, [Next]_vars, NEW m \in Member, NEW p \in Fingerprint, entry[m][p].kind = "rejected"
  PROVE  entry'[m][p].kind \in {"rejected", "none"}
<1> USE DEF IInv
<1>1. CASE UNCHANGED vars BY <1>1 DEF vars, coordinator
<1>2. ASSUME NEW r \in Request, Acquires(r) \/ Recovery(r) \/ Answered(r)
      PROVE  entry'[m][p].kind \in {"rejected", "none"}
  <2>1. Typed' BY <1>2, TypedStep DEF Next
  <2>2. Kind(r) BY <1>2, <2>1, StepKind
  <2>3. CASE Quiet(r) BY <2>3 DEF Quiet, coordinator
  <2>8. CASE Stays(r) BY <2>8 DEF Stays, coordinator
  <2>4. CASE Begins(r)
    <3>1. PICK n \in Member, q \in Fingerprint :
            /\ BeginRecovery(r, n, q)
            /\ entry[n][q].kind \notin {"recovering", "probation", "rejected"}
      BY <2>4 DEF Begins
    <3> QED BY <3>1 DEF BeginRecovery, Typed, TypedCoordinator
  <2>5. CASE Settles(r) BY <2>5, NoneAssumption DEF Settles, Owned
  <2>6. CASE Accepts(r) BY <2>6, AcceptEffect DEF Accepts
  <2>7. CASE Marks(r)
    <3>1. PICK n \in Member, x \in Fingerprint, y \in Fingerprint :
            n = member[r] /\ x = print[r] /\ y = file[n]
      BY <2>7 DEF Marks, Typed, TypedAttempt, TypedPool
    <3>2. x \in Nat /\ y \in Nat /\ x < y /\ x = current[n]
      BY <2>7, <3>1, PrintAssumption DEF Marks, Fingerprint
    <3>3. ~ (m = n /\ p = y) BY <3>2 DEF Ordered, Spoken
    <3> QED BY <2>7, <3>1, <3>3 DEF Marks, Known
  <2> QED BY <2>2, <2>3, <2>4, <2>5, <2>6, <2>7, <2>8 DEF Kind
<1>3. ASSUME NEW n \in Member, CoolingOver(n) \/ BackoffOver(n)
      PROVE  entry'[m][p].kind \in {"rejected", "none"}
  BY <1>3 DEF CoolingOver, BackoffOver, coordinator, Typed, TypedCoordinator
<1>4. ASSUME NEW n \in Member, Relogin(n) PROVE entry'[m][p].kind \in {"rejected", "none"}
  <2>1. current[m] = p /\ current[m] <= file[m] /\ file[m] \in Nat /\ current[m] \in Nat
    BY PrintAssumption
    DEF Fingerprint, Ordered, Spoken, CredentialsOrdered, Typed, TypedCoordinator, TypedPool
  <2>2. n = m => file'[m] = file[m] + 1 BY <1>4 DEF Relogin, Typed, TypedPool
  <2> QED BY <1>4, <2>1, <2>2 DEF Relogin, Known, Typed, TypedCoordinator
<1> QED BY <1>1, <1>2, <1>3, <1>4 DEF Next

\* What no step may do to a rejected credential.
RejectedStep ==
  \A m \in Member, p \in Fingerprint :
    entry[m][p].kind = "rejected" => entry'[m][p].kind \in {"rejected", "none"}

\* A rejected credential stays out until it is replaced, whatever is answered late
\* or refreshed meanwhile (auth-health.ts).
THEOREM RejectedForGood == Spec => RejectedStays
<1>1. IInv /\ [Next]_vars => [RejectedStep]_vars BY RejectedKept DEF RejectedStep
<1>2. Spec => [][RejectedStep]_vars BY <1>1, Invariant, PTL DEF Spec
<1> QED BY <1>2, PTL DEF RejectedStays, RejectedStep
=============================================================================
