------------------------ MODULE SwitchingProxyProofs ------------------------
(***************************************************************************)
(* Proofs about SwitchingProxy.  The invariant says where routers listen,   *)
(* which of them a request is bound to, and that a router that is told to   *)
(* drain has none left, or had its time.  What a session was charged is a   *)
(* sum over its requests: the section on sums says what a sum does when one *)
(* summand joins it, the section on the books who is in which sum.          *)
(***************************************************************************)
EXTENDS SwitchingProxy, FiniteSetTheorems, WellFoundedInduction, TLAPS

Asked == [calls : {0, 1}, input : Size \cup {0}, output : Size \cup {0}]
Pending == {"arrived", "reading", "forwarded", "streaming"}

\* TypeOK but for the counts, which are natural because of the leases.
RoutersTyped ==
  /\ active \in Router
  /\ port \in [Router -> Port \cup {None}]
  /\ up \in SUBSET Router
  /\ refusing \in SUBSET Router
  /\ leases \in [Port -> Int]
  /\ stage \in {"none", "swapped", "waiting", "drain", "closing"}
  /\ previous \in Router \cup {None}
  /\ overdue \in SUBSET Router

ProxyTyped ==
  /\ leaving \in SUBSET {"retiring", "draining"}
  /\ listener \in {"open", "closing", "closed"}
  /\ inflight \in Int

RequestsTyped ==
  /\ pc \in [Request -> {"new", "closed"} \cup Opened]
  /\ lease \in [Request -> Port \cup {None}]
  /\ home \in [Request -> Router \cup {None}]
  /\ key \in [Request -> Session \cup {Owner, None}]
  /\ at \in [Request -> Router \cup {None}]
  /\ asked \in [Request -> Asked]

Typed == SessionsTypeOK /\ RoutersTyped /\ ProxyTyped /\ RequestsTyped

\* Routers that run listen on ports of their own; the active one runs, and takes
\* requests.  Nothing is replaced once the daemon leaves.
Listening ==
  /\ \A g \in up \cup refusing \cup {active} : port[g] \in Port
  /\ \A g, h \in up : port[g] = port[h] => g = h
  /\ active \notin refusing
  /\ listener # "closed" => active \in up
  /\ stage # "none" => previous \in Router /\ previous # active /\ port[previous] \in Port
  /\ leaving # {} => stage = "none"
  /\ listener # "open" => leaving # {}

\* A request has its lease on the router that was active when it arrived.
Bound ==
  \A r \in Request :
    /\ IF pc[r] \in Opened THEN home[r] \in Router /\ lease[r] \in Port /\ lease[r] = port[home[r]]
       ELSE lease[r] = None
    /\ at[r] # None => pc[r] \in {"forwarded", "streaming"}

\* What is told to drain is idle, or had its time.
Idle ==
  stage \in {"drain", "closing"} =>
    previous \in overdue \/ \A r \in Request : pc[r] \in Opened => home[r] # previous

IInv == Typed /\ Listening /\ Bound /\ Idle /\ Attached /\ LeasesCount

-----------------------------------------------------------------------------
(* Types                                                                      *)

\* The operations of the sessions keep their types.
LEMMA SessionsTyped ==
  ASSUME SessionsTypeOK, NEW s \in Session
  PROVE  /\ Open(s) => SessionsTypeOK'
         /\ Close(s) => SessionsTypeOK'
         /\ CloseAll => SessionsTypeOK'
         /\ Expire(s) => SessionsTypeOK'
         /\ Unresolved(s) => SessionsTypeOK'
         /\ Refuse(s) => SessionsTypeOK'
         /\ \A i, o \in Nat : Charge(s, i, o) => SessionsTypeOK'
<1>1. Open(s) => SessionsTypeOK' BY DEF Open, SessionsTypeOK
<1>2. Shut(s) /\ UNCHANGED <<expired, calls, input, output>> => SessionsTypeOK'
  BY DEF Shut, SessionsTypeOK
<1>3. UNCHANGED sessions => SessionsTypeOK' BY DEF sessions, SessionsTypeOK
<1>4. CloseAll => SessionsTypeOK' BY DEF CloseAll, SessionsTypeOK
<1>5. Expire(s) => SessionsTypeOK' BY DEF Expire, SessionsTypeOK
<1>6. \A i, o \in Nat : Charge(s, i, o) => SessionsTypeOK' BY DEF Charge, SessionsTypeOK
<1> QED BY <1>1, <1>2, <1>3, <1>4, <1>5, <1>6 DEF Close, Unresolved, Refuse, sessions

\* Closing all of them does so even when there are none.
LEMMA CloseAllTyped == ASSUME SessionsTypeOK, CloseAll PROVE SessionsTypeOK'
BY DEF CloseAll, SessionsTypeOK

\* Every step keeps the types.
LEMMA TypedStep == ASSUME Typed, Listening, Bound, Next PROVE Typed'
<1> USE DEF Typed
<1>0. UNCHANGED sessions => SessionsTypeOK' BY DEF sessions, SessionsTypeOK
<1>a. UNCHANGED routers => RoutersTyped' BY DEF routers, RoutersTyped
<1>b. UNCHANGED proxy => ProxyTyped' BY DEF proxy, ProxyTyped
<1>c. UNCHANGED requests => RequestsTyped' BY DEF requests, RequestsTyped
<1>1. ASSUME NEW r \in Request, Arrive(r) PROVE Typed'
  <2>0. port[active] \in Port BY DEF Listening
  <2>1. RoutersTyped'
    <3>1. leases' \in [Port -> Int] BY <1>1, <2>0 DEF Arrive, RoutersTyped
    <3> QED BY <1>1, <3>1 DEF Arrive, RoutersTyped
  <2>2. ProxyTyped' BY <1>1 DEF Arrive, ProxyTyped
  <2>3. RequestsTyped' BY <1>1 DEF Arrive, Go, Opened, RoutersTyped, RequestsTyped
  <2> QED BY <1>0, <1>1, <2>1, <2>2, <2>3 DEF Arrive
<1>2. ASSUME NEW r \in Request, NEW k \in Session \cup {Owner}, Authorized(r, k) PROVE Typed'
  <2>1. RequestsTyped' BY <1>2 DEF Authorized, Go, Opened, RequestsTyped
  <2> QED BY <1>0, <1>a, <1>b, <1>2, <2>1 DEF Authorized
<1>3. ASSUME NEW r \in Request, Answers(r) PROVE RoutersTyped' /\ ProxyTyped' /\ RequestsTyped'
  <2>1. RequestsTyped' BY <1>3 DEF Answers, Go, Opened, RequestsTyped
  <2> QED BY <1>a, <1>b, <1>3, <2>1 DEF Answers
<1>4. ASSUME NEW r \in Request, Rejected(r) PROVE Typed'
  BY <1>0, <1>3, <1>4, SessionsTyped DEF Rejected
<1>5. ASSUME NEW r \in Request, Read(r) PROVE Typed'
  <2>1. Forward(r) BY <1>5 DEF Read
  <2>2. pc' \in [Request -> {"new", "closed"} \cup Opened] /\ at' \in [Request -> Router \cup {None}]
    BY <2>1 DEF Forward, Go, Opened, RoutersTyped, RequestsTyped
  <2>3. CASE UNCHANGED <<sessions, asked>>
    BY <1>0, <1>a, <1>b, <2>1, <2>2, <2>3 DEF Forward, RequestsTyped
  <2>4. CASE key[r] \in Session /\ \E i \in Size, o \in Size \cup {0} :
               Charge(key[r], i, o) /\ asked' = [asked EXCEPT ![r] = Call(i, o)]
    <3>1. PICK i \in Size, o \in Size \cup {0} :
            Charge(key[r], i, o) /\ asked' = [asked EXCEPT ![r] = Call(i, o)]
      BY <2>4
    <3>2. i \in Nat /\ o \in Nat BY SizeAssumption
    <3>3. SessionsTypeOK' BY <2>4, <3>1, <3>2, SessionsTyped
    <3>4. asked' \in [Request -> Asked] BY <3>1 DEF Call, Asked, RequestsTyped
    <3> QED BY <1>a, <1>b, <2>1, <2>2, <3>3, <3>4 DEF Forward, RequestsTyped
  <2> QED BY <1>5, <2>3, <2>4 DEF Read
<1>6. ASSUME NEW r \in Request, ReadRefused(r) PROVE Typed'
  BY <1>0, <1>3, <1>6, SessionsTyped DEF ReadRefused
<1>7. ASSUME NEW r \in Request, Answered(r) PROVE Typed'
  <2>1. RequestsTyped' BY <1>7 DEF Answered, Go, Opened, RequestsTyped
  <2> QED BY <1>0, <1>a, <1>b, <1>7, <2>1 DEF Answered
<1>8. ASSUME NEW r \in Request, Ends(r) PROVE Typed'
  <2>1. RoutersTyped' BY <1>8 DEF Ends, Bound, RoutersTyped
  <2>2. ProxyTyped' BY <1>8 DEF Ends, ProxyTyped
  <2>3. RequestsTyped' BY <1>8 DEF Ends, Go, RequestsTyped
  <2> QED BY <1>0, <1>8, <2>1, <2>2, <2>3 DEF Ends
<1>9. ASSUME NEW s \in Session, Control(s) PROVE Typed'
  BY <1>a, <1>b, <1>c, <1>9, SessionsTyped DEF Control
<1>10. ASSUME NEW s \in Session, Clock(s) PROVE Typed'
  BY <1>a, <1>b, <1>c, <1>10, SessionsTyped DEF Clock
<1>11. ASSUME Replace PROVE Typed'
  <2>1. RoutersTyped' BY <1>11 DEF Replace, Swap, RoutersTyped
  <2> QED BY <1>0, <1>b, <1>c, <1>11, <2>1 DEF Replace
<1>12. ASSUME WaitIdle \/ GraceOver \/ DrainRouter PROVE Typed'
  <2>1. RoutersTyped' BY <1>12 DEF WaitIdle, GraceOver, DrainRouter, Listening, RoutersTyped
  <2> QED BY <1>0, <1>b, <1>c, <1>12, <2>1 DEF WaitIdle, GraceOver, DrainRouter
<1>13. ASSUME CloseRouter PROVE Typed'
  <2>1. RoutersTyped' BY <1>13 DEF CloseRouter, RoutersTyped
  <2>2. RequestsTyped' BY <1>13 DEF CloseRouter, Opened, RequestsTyped
  <2> QED BY <1>0, <1>b, <1>13, <2>1, <2>2 DEF CloseRouter
<1>14. ASSUME Interrupted PROVE Typed'
  <2>1. RoutersTyped' BY <1>14 DEF Interrupted, RoutersTyped
  <2> QED BY <1>0, <1>b, <1>c, <1>14, <2>1 DEF Interrupted
<1>15. ASSUME Retire \/ Drain \/ StopListening PROVE Typed'
  <2>1. ProxyTyped' BY <1>15 DEF Retire, Drain, StopListening, ProxyTyped
  <2> QED BY <1>0, <1>a, <1>c, <1>15, <2>1 DEF Retire, Drain, StopListening
<1>16. ASSUME Stopped PROVE Typed'
  <2>1. RoutersTyped' BY <1>16 DEF Stopped, RoutersTyped
  <2>2. ProxyTyped' BY <1>16 DEF Stopped, ProxyTyped
  <2> QED BY <1>c, <1>16, <2>1, <2>2, CloseAllTyped DEF Stopped
<1> QED
  BY <1>1, <1>2, <1>4, <1>5, <1>6, <1>7, <1>8, <1>9, <1>10, <1>11, <1>12, <1>13, <1>14, <1>15,
     <1>16
  DEF Next, Serves

-----------------------------------------------------------------------------
(* What a step does to routers and leases                                     *)

\* A request between its arrival and its end goes on, with the lease it has.
Moves(r) ==
  /\ pc[r] \in Pending
  /\ \/ \E g \in up \ refusing :
          port[g] = lease[r] /\ pc[r] = "reading" /\ at' = [at EXCEPT ![r] = g] /\ Go(r, "forwarded")
     \/ /\ pc[r] \in {"arrived", "reading"} /\ UNCHANGED at
        /\ \E step \in {"reading", "answered"} : Go(r, step)
     \/ pc[r] = "forwarded" /\ UNCHANGED at /\ Go(r, "streaming")
     \/ at' = [at EXCEPT ![r] = None] /\ Go(r, "answered")
  /\ UNCHANGED <<routers, proxy, lease, home>>

Leaves == Retire \/ Drain \/ StopListening

\* A step is the arrival or the end of a request, a move of it, a step of the
\* replacement or of the end of the proxy, or of the sessions only.
LEMMA StepKind ==
  ASSUME Next
  PROVE  \/ \E r \in Request : Arrive(r) \/ Moves(r) \/ Ends(r)
         \/ Replace \/ WaitIdle \/ GraceOver \/ DrainRouter \/ CloseRouter \/ Interrupted
         \/ Leaves \/ Stopped
         \/ UNCHANGED <<routers, proxy, requests>>
<1>1. ASSUME NEW r \in Request, NEW k \in Session \cup {Owner}, Authorized(r, k) PROVE Moves(r)
  BY <1>1 DEF Authorized, Moves, Pending
<1>2. ASSUME NEW r \in Request, Rejected(r) PROVE Moves(r)
  BY <1>2 DEF Rejected, Answers, Moves, Pending
<1>3. ASSUME NEW r \in Request, Read(r) PROVE Moves(r)
  <2>1. pc[r] = "reading" /\ Forward(r) BY <1>3 DEF Read
  <2> QED BY <2>1 DEF Forward, Moves, Pending
<1>4. ASSUME NEW r \in Request, ReadRefused(r) PROVE Moves(r)
  BY <1>4 DEF ReadRefused, Answers, Moves, Pending
<1>5. ASSUME NEW r \in Request, Answered(r) PROVE Moves(r)
  BY <1>5 DEF Answered, Moves, Pending
<1>6. ASSUME NEW s \in Session, Control(s) \/ Clock(s) PROVE UNCHANGED <<routers, proxy, requests>>
  BY <1>6 DEF Control, Clock
<1> QED BY <1>1, <1>2, <1>3, <1>4, <1>5, <1>6 DEF Next, Serves, Leaves

\* Who was not bound to a lease has none.
LEMMA Unbound ==
  ASSUME Typed, Bound, NEW r \in Request, pc[r] = "new"
  PROVE  lease[r] = None /\ at[r] = None
BY DEF Typed, RequestsTyped, Bound, Opened

-----------------------------------------------------------------------------
(* Routers                                                                    *)

\* Every step keeps the ports of routers apart, and the active one up.
LEMMA ListeningStep == ASSUME Typed, Listening, Next PROVE Listening'
<1>1. CASE UNCHANGED <<routers, proxy>> BY <1>1 DEF routers, proxy, Listening
<1>2. CASE \E r \in Request : Arrive(r) BY <1>2 DEF Arrive, Listening
<1>3. CASE \E r \in Request : Ends(r)
  <2>1. /\ UNCHANGED <<active, port, up, refusing, previous, leaving, listener>>
        /\ stage' # "none" => stage # "none"
        /\ leaving # {} => stage' = stage
    BY <1>3 DEF Ends, Listening
  <2> QED BY <2>1 DEF Listening
<1>4. CASE Replace
  <2>1. PICK g \in Router, p \in Port :
          /\ port[g] = None
          /\ \A h \in up : port[h] # p
          /\ port' = [port EXCEPT ![g] = p]
          /\ up' = up \cup {g}
          /\ active' = g
    BY <1>4 DEF Replace, Swap
  <2>2. g \notin up \cup refusing \cup {active} BY <2>1, NoneAssumption DEF Listening
  <2>3. port'[g] = p /\ \A h \in up \cup refusing \cup {active} : port'[h] = port[h]
    BY <2>1, <2>2 DEF Typed, RoutersTyped
  <2>4. previous' = active /\ refusing' = refusing /\ leaving = {} /\ UNCHANGED proxy
    BY <1>4 DEF Replace
  <2>5. active \in Router BY DEF Typed, RoutersTyped
  <2> QED BY <2>1, <2>2, <2>3, <2>4, <2>5 DEF Listening, proxy
<1>5. CASE WaitIdle \/ GraceOver
  BY <1>5 DEF WaitIdle, GraceOver, proxy, Listening
<1>6. CASE DrainRouter BY <1>6 DEF DrainRouter, proxy, Listening
<1>7. CASE CloseRouter BY <1>7 DEF CloseRouter, proxy, Listening
<1>8. CASE Interrupted BY <1>8 DEF Interrupted, proxy, Listening
<1>9. CASE Leaves BY <1>9 DEF Leaves, Retire, Drain, StopListening, routers, Listening
<1>10. CASE Stopped BY <1>10 DEF Stopped, Listening
<1> QED
  BY <1>1, <1>2, <1>3, <1>4, <1>5, <1>6, <1>7, <1>8, <1>9, <1>10, StepKind DEF Moves

\* No step takes a request its lease away, but its end.
LEMMA BoundStep == ASSUME Typed, Listening, Bound, Next PROVE Bound'
<1> USE DEF Typed, RoutersTyped, RequestsTyped
<1>1. CASE UNCHANGED <<port, pc, lease, home, at>> BY <1>1 DEF Bound
<1>2. ASSUME NEW r \in Request, Arrive(r) PROVE Bound'
  <2>1. port[active] \in Port BY DEF Listening
  <2> QED BY <1>2, <2>1, Unbound DEF Arrive, Go, Bound, Opened
<1>3. ASSUME NEW r \in Request, Moves(r) PROVE Bound'
  <2>1. UNCHANGED <<port, lease, home>> BY <1>3 DEF Moves, routers
  <2>2. pc[r] \in Opened /\ pc'[r] \in Opened
    BY <1>3 DEF Moves, Go, Pending, Opened
  <2>3. \A q \in Request \ {r} : pc'[q] = pc[q] /\ at'[q] = at[q] BY <1>3 DEF Moves, Go
  <2>4. at'[r] # None => pc'[r] \in {"forwarded", "streaming"}
    BY <1>3 DEF Moves, Go, Bound
  <2> QED BY <2>1, <2>2, <2>3, <2>4 DEF Bound
<1>4. ASSUME NEW r \in Request, Ends(r) PROVE Bound'
  <2>1. UNCHANGED port BY <1>4 DEF Ends
  <2>2. pc'[r] = "closed" /\ lease'[r] = None /\ at'[r] = None BY <1>4 DEF Ends, Go
  <2>3. \A q \in Request \ {r} :
          pc'[q] = pc[q] /\ at'[q] = at[q] /\ lease'[q] = lease[q] /\ home'[q] = home[q]
    BY <1>4 DEF Ends, Go
  <2> QED BY <2>1, <2>2, <2>3 DEF Bound, Opened
<1>5. CASE Replace
  <2>1. PICK g \in Router : port[g] = None /\ \A h \in Router \ {g} : port'[h] = port[h]
    BY <1>5 DEF Replace
  <2>2. UNCHANGED <<pc, lease, home, at>> BY <1>5 DEF Replace, requests
  <2>3. \A r \in Request : pc[r] \in Opened => home[r] \in Router \ {g}
    BY <2>1, NoneAssumption DEF Bound
  <2> QED BY <2>1, <2>2, <2>3 DEF Bound
<1>6. CASE CloseRouter
  <2>1. UNCHANGED <<port, lease, home>> BY <1>6 DEF CloseRouter
  <2>2. \A r \in Request :
          \/ pc'[r] = pc[r] /\ at'[r] = at[r]
          \/ pc'[r] = "answered" /\ at'[r] = None /\ at[r] = previous
    BY <1>6 DEF CloseRouter
  <2>3. previous # None BY <1>6, NoneAssumption DEF CloseRouter, Listening, Router
  <2> QED BY <2>1, <2>2, <2>3 DEF Bound, Opened
<1>7. CASE WaitIdle \/ GraceOver \/ DrainRouter \/ Interrupted \/ Leaves \/ Stopped
  BY <1>1, <1>7
  DEF WaitIdle, GraceOver, DrainRouter, Interrupted, Leaves, Retire, Drain, StopListening, Stopped,
      requests, routers
<1> QED BY <1>1, <1>2, <1>3, <1>4, <1>5, <1>6, <1>7, StepKind DEF routers, requests

-----------------------------------------------------------------------------
(* Leases                                                                     *)

\* What inflight counts.
InFlight == {r \in Request : pc[r] \in Opened}

\* Counting one more, and one less.
LEMMA OneMore ==
  ASSUME NEW S, NEW T, IsFiniteSet(S), NEW x, x \notin S, T = S \cup {x}
  PROVE  Cardinality(T) = Cardinality(S) + 1
BY FS_AddElement

\* (see OneMore)
LEMMA OneLess ==
  ASSUME NEW S, NEW T, IsFiniteSet(S), NEW x \in S, T = S \ {x}
  PROVE  Cardinality(T) = Cardinality(S) - 1
BY FS_RemoveElement

\* Requests are finitely many, so are those that hold a lease or are open.
LEMMA Counted ==
  /\ \A p : IsFiniteSet(Holders(p)) /\ Cardinality(Holders(p)) \in Nat
  /\ IsFiniteSet(InFlight) /\ Cardinality(InFlight) \in Nat
<1>1. \A S \in SUBSET Request : IsFiniteSet(S) /\ Cardinality(S) \in Nat
  BY FiniteAssumption, FS_Subset, FS_CardinalityType
<1> QED BY <1>1 DEF Holders, InFlight

\* Only an arrival and an end count, and they count one.
LEMMA LeasesStep == ASSUME Typed, Listening, Bound, LeasesCount, Next PROVE LeasesCount'
<1> USE DEF Typed, RoutersTyped, ProxyTyped, RequestsTyped
<1>0. inflight = Cardinality(InFlight) /\ (inflight' = Cardinality(InFlight') <=>
        inflight' = Cardinality({r \in Request : pc'[r] \in Opened}))
  BY DEF LeasesCount, InFlight
<1>1. ASSUME UNCHANGED <<lease, leases, inflight>>, InFlight' = InFlight PROVE LeasesCount'
  BY <1>0, <1>1 DEF LeasesCount, Holders, InFlight
<1>2. CASE UNCHANGED <<lease, leases, inflight, pc>>
  <2>1. InFlight' = InFlight BY <1>2 DEF InFlight
  <2> QED BY <1>1, <1>2, <2>1
<1>3. ASSUME NEW r \in Request, Arrive(r) PROVE LeasesCount'
  <2>1. port[active] \in Port /\ lease[r] = None BY <1>3, Unbound DEF Listening, Arrive
  <2>2. InFlight' = InFlight \cup {r} /\ r \notin InFlight BY <1>3 DEF Arrive, Go, InFlight, Opened
  <2>3. inflight' = Cardinality(InFlight') BY <1>0, <1>3, <2>2, OneMore, Counted DEF Arrive
  <2>4. ASSUME NEW p \in Port PROVE leases'[p] = Cardinality(Holders(p)')
    <3>1. CASE p = port[active]
      <4>1. Holders(p)' = Holders(p) \cup {r} /\ r \notin Holders(p)
        BY <1>3, <2>1, <3>1, NoneAssumption DEF Arrive, Holders
      <4>2. leases'[p] = leases[p] + 1 BY <1>3, <3>1 DEF Arrive
      <4> QED BY <4>1, <4>2, OneMore, Counted DEF LeasesCount
    <3>2. CASE p # port[active]
      <4>1. Holders(p)' = Holders(p) BY <1>3, <2>1, <3>2, NoneAssumption DEF Arrive, Holders
      <4>2. leases'[p] = leases[p] BY <1>3, <3>2 DEF Arrive
      <4> QED BY <4>1, <4>2 DEF LeasesCount
    <3> QED BY <3>1, <3>2
  <2> QED BY <1>0, <2>3, <2>4 DEF LeasesCount
<1>4. ASSUME NEW r \in Request, Ends(r) PROVE LeasesCount'
  <2>1. lease[r] \in Port /\ pc[r] \in Opened BY <1>4 DEF Bound, Ends
  <2>2. InFlight' = InFlight \ {r} /\ r \in InFlight BY <1>4 DEF Ends, Go, InFlight, Opened
  <2>3. inflight' = Cardinality(InFlight') BY <1>0, <1>4, <2>2, OneLess, Counted DEF Ends
  <2>4. ASSUME NEW p \in Port PROVE leases'[p] = Cardinality(Holders(p)')
    <3>1. CASE p = lease[r]
      <4>1. Holders(p)' = Holders(p) \ {r} /\ r \in Holders(p)
        BY <1>4, <2>1, <3>1, NoneAssumption DEF Ends, Holders
      <4>2. leases'[p] = leases[p] - 1 BY <1>4, <3>1 DEF Ends
      <4> QED BY <4>1, <4>2, OneLess, Counted DEF LeasesCount
    <3>2. CASE p # lease[r]
      <4>1. Holders(p)' = Holders(p) BY <1>4, <2>1, <3>2, NoneAssumption DEF Ends, Holders
      <4>2. leases'[p] = leases[p] BY <1>4, <3>2 DEF Ends
      <4> QED BY <4>1, <4>2 DEF LeasesCount
    <3> QED BY <3>1, <3>2
  <2> QED BY <1>0, <2>3, <2>4 DEF LeasesCount
<1>5. ASSUME NEW r \in Request, Moves(r) PROVE LeasesCount'
  <2>1. UNCHANGED <<lease, leases, inflight>> BY <1>5 DEF Moves, routers, proxy
  <2>2. pc[r] \in Opened /\ pc'[r] \in Opened BY <1>5 DEF Moves, Go, Pending, Opened
  <2>3. \A q \in Request \ {r} : pc'[q] = pc[q] BY <1>5 DEF Moves, Go
  <2>4. InFlight' = InFlight BY <2>2, <2>3 DEF InFlight
  <2> QED BY <1>1, <2>1, <2>4
<1>6. CASE CloseRouter
  <2>1. UNCHANGED <<lease, leases, inflight>> BY <1>6 DEF CloseRouter, proxy
  <2>2. previous # None BY <1>6, NoneAssumption DEF CloseRouter, Listening, Router
  <2>3. \A r \in Request : pc'[r] \in Opened <=> pc[r] \in Opened
    BY <1>6, <2>2 DEF CloseRouter, Bound, Opened
  <2>4. InFlight' = InFlight BY <2>3 DEF InFlight
  <2> QED BY <1>1, <2>1, <2>4
<1>7. CASE Replace \/ WaitIdle \/ GraceOver \/ DrainRouter \/ Interrupted \/ Leaves \/ Stopped
  BY <1>2, <1>7
  DEF Replace, Swap, WaitIdle, GraceOver, DrainRouter, Interrupted, Leaves, Retire, Drain,
      StopListening, Stopped, requests, routers, proxy
<1>8. CASE UNCHANGED <<routers, proxy, requests>> BY <1>2, <1>8 DEF routers, proxy, requests
<1> QED BY <1>3, <1>4, <1>5, <1>6, <1>7, <1>8, StepKind

-----------------------------------------------------------------------------
(* What a request is bound to                                                 *)

\* A port without leases belongs to a router without requests.
LEMMA Unleased ==
  ASSUME Typed, Bound, LeasesCount, NEW p \in Port, leases[p] = 0
  PROVE  \A r \in Request : pc[r] \in Opened => lease[r] # p
<1>1. Holders(p) = {} BY Counted, FS_EmptySet DEF LeasesCount
<1> QED BY <1>1 DEF Holders

\* Nothing arrives at a router that was replaced, and one whose last lease was
\* given back has no request left.
LEMMA IdleStep ==
  ASSUME Typed, Listening, Bound, LeasesCount, Idle, Next, Typed', Bound', LeasesCount'
  PROVE  Idle'
<1> USE DEF Typed, RoutersTyped, RequestsTyped
<1>0. ASSUME UNCHANGED <<stage, previous, overdue>>,
             \A r \in Request : pc'[r] \in Opened => pc[r] \in Opened /\ home'[r] = home[r]
      PROVE  Idle'
  BY <1>0 DEF Idle
<1>1. ASSUME NEW r \in Request, Arrive(r) PROVE Idle'
  <2>1. UNCHANGED <<stage, previous, overdue>> BY <1>1 DEF Arrive
  <2>2. stage # "none" => home'[r] # previous BY <1>1 DEF Arrive, Listening
  <2>3. \A q \in Request \ {r} : pc'[q] = pc[q] /\ home'[q] = home[q] BY <1>1 DEF Arrive, Go
  <2> QED BY <2>1, <2>2, <2>3 DEF Idle
<1>2. ASSUME NEW r \in Request, Moves(r) PROVE Idle'
  <2>1. UNCHANGED <<stage, previous, overdue, home>> BY <1>2 DEF Moves, routers
  <2>2. \A q \in Request : pc'[q] \in Opened => pc[q] \in Opened
    BY <1>2 DEF Moves, Go, Pending, Opened
  <2> QED BY <1>0, <2>1, <2>2
<1>3. ASSUME NEW r \in Request, Ends(r) PROVE Idle'
  <2>1. UNCHANGED <<port, previous, overdue>> BY <1>3 DEF Ends
  <2>2. \A q \in Request : pc'[q] \in Opened => pc[q] \in Opened /\ home'[q] = home[q]
    BY <1>3 DEF Ends, Go, Opened
  <2>3. CASE stage' = stage BY <1>0, <2>1, <2>2, <2>3
  <2>4. CASE stage = "waiting" /\ port[previous] = lease[r] /\ leases'[lease[r]] = 0
    <3>1. port[previous] \in Port BY <2>4 DEF Listening
    <3>2. \A q \in Request : pc'[q] \in Opened => lease'[q] # port'[previous']
      <4>1. leases'[port[previous]] = 0 BY <2>4
      <4>2. Holders(port[previous])' = {}
        <5>1. \A p : IsFiniteSet(Holders(p)') BY FiniteAssumption, FS_Subset DEF Holders
        <5>2. Cardinality(Holders(port[previous])') = 0 BY <3>1, <4>1, <2>1 DEF LeasesCount
        <5> QED BY <5>1, <5>2, FS_EmptySet
      <4> QED BY <2>1, <4>2 DEF Holders
    <3>3. \A q \in Request : pc'[q] \in Opened => home'[q] # previous' BY <3>2 DEF Bound
    <3> QED BY <3>3 DEF Idle
  <2> QED BY <1>3, <2>3, <2>4 DEF Ends
<1>4. CASE WaitIdle
  <2>1. UNCHANGED <<previous, pc, home>> BY <1>4 DEF WaitIdle, requests
  <2>2. CASE leases[port[previous]] = 0
    <3>1. port[previous] \in Port BY <1>4 DEF WaitIdle, Listening
    <3>2. \A r \in Request : pc[r] \in Opened => home[r] # previous
      BY <2>2, <3>1, Unleased DEF Bound
    <3> QED BY <2>1, <3>2 DEF Idle
  <2>3. CASE leases[port[previous]] # 0
    <3>1. stage' = "waiting" BY <1>4, <2>3 DEF WaitIdle
    <3> QED BY <3>1 DEF Idle
  <2> QED BY <2>2, <2>3
<1>5. CASE GraceOver BY <1>5 DEF GraceOver, Idle
<1>6. CASE DrainRouter BY <1>6 DEF DrainRouter, requests, Idle
<1>7. CASE Replace \/ CloseRouter \/ Interrupted
  <2>1. stage' \notin {"drain", "closing"} BY <1>7 DEF Replace, CloseRouter, Interrupted
  <2> QED BY <2>1 DEF Idle
<1>8. CASE Leaves \/ Stopped \/ UNCHANGED <<routers, proxy, requests>>
  BY <1>0, <1>8 DEF Leaves, Retire, Drain, StopListening, Stopped, requests, routers
<1> QED BY <1>1, <1>2, <1>3, <1>4, <1>5, <1>6, <1>7, <1>8, StepKind

\* Its first router runs and takes what is forwarded, or its grace is over.
Serving(r) == home[r] \in (up \ refusing) \cup overdue

\* A port leads to the router of the lease, as no two that run share one.
LEMMA AttachedStep ==
  ASSUME Typed, Listening, Bound, LeasesCount, Idle, Attached, Next PROVE Attached'
<1> USE DEF Typed, RoutersTyped, RequestsTyped
<1>a. \A r \in Request :
        /\ at[r] # None => at[r] = home[r] \/ home[r] \in overdue
        /\ pc[r] \in Pending => Serving(r)
  BY DEF Attached, Pending, Serving
<1>b. SUFFICES
        ASSUME NEW r \in Request
        PROVE  /\ at'[r] # None => at'[r] = home'[r] \/ home'[r] \in overdue'
               /\ pc'[r] \in Pending => Serving(r)'
  BY DEF Attached, Pending, Serving
<1>0. ASSUME UNCHANGED home, overdue \subseteq overdue', at'[r] \in {at[r], None},
             pc'[r] \in Pending => pc[r] \in Pending /\ home[r] \in (up' \ refusing') \cup overdue'
      PROVE  /\ at'[r] # None => at'[r] = home'[r] \/ home'[r] \in overdue'
             /\ pc'[r] \in Pending => Serving(r)'
  BY <1>0, <1>a DEF Serving
<1>1. ASSUME UNCHANGED <<home, up, refusing, overdue>>, at'[r] \in {at[r], None},
             pc'[r] \in Pending => pc[r] \in Pending
      PROVE  /\ at'[r] # None => at'[r] = home'[r] \/ home'[r] \in overdue'
             /\ pc'[r] \in Pending => Serving(r)'
  BY <1>0, <1>1, <1>a DEF Serving
<1>2. ASSUME NEW q \in Request, Arrive(q)
      PROVE  /\ at'[r] # None => at'[r] = home'[r] \/ home'[r] \in overdue'
             /\ pc'[r] \in Pending => Serving(r)'
  <2>1. UNCHANGED <<up, refusing, overdue, at>> BY <1>2 DEF Arrive
  <2>2. CASE r = q
    <3>1. home'[r] = active /\ active \in up \ refusing BY <1>2, <2>2 DEF Arrive, Listening
    <3>2. at[r] = None BY <1>2, <2>2, Unbound DEF Arrive
    <3> QED BY <2>1, <3>1, <3>2 DEF Serving
  <2>3. CASE r # q
    <3>1. home'[r] = home[r] /\ pc'[r] = pc[r] BY <1>2, <2>3 DEF Arrive, Go
    <3> QED BY <1>a, <2>1, <3>1 DEF Serving
  <2> QED BY <2>2, <2>3
<1>3. ASSUME NEW q \in Request, Moves(q)
      PROVE  /\ at'[r] # None => at'[r] = home'[r] \/ home'[r] \in overdue'
             /\ pc'[r] \in Pending => Serving(r)'
  <2>1. UNCHANGED <<home, port, up, refusing, overdue>> BY <1>3 DEF Moves, routers
  <2>2. pc[q] \in Pending BY <1>3 DEF Moves
  <2>3. pc'[r] \in Pending => pc[r] \in Pending BY <1>3, <2>2 DEF Moves, Go
  <2>4. CASE r = q /\ \E g \in up \ refusing :
               port[g] = lease[q] /\ pc[q] = "reading" /\ at' = [at EXCEPT ![q] = g]
    <3>1. PICK g \in up \ refusing : port[g] = lease[r] /\ at'[r] = g BY <2>4
    <3>2. port[home[r]] = lease[r] BY <2>2, <2>4 DEF Bound, Pending, Opened
    <3>3. home[r] \in up => home[r] = g BY <3>1, <3>2 DEF Listening
    <3>4. home[r] \in up \/ home[r] \in overdue BY <1>a, <2>2, <2>4 DEF Serving
    <3> QED BY <1>a, <2>1, <2>3, <3>1, <3>3, <3>4 DEF Serving
  <2>5. CASE at'[r] \in {at[r], None} BY <1>1, <2>1, <2>3, <2>5
  <2> QED BY <1>3, <2>4, <2>5 DEF Moves
<1>4. ASSUME NEW q \in Request, Ends(q)
      PROVE  /\ at'[r] # None => at'[r] = home'[r] \/ home'[r] \in overdue'
             /\ pc'[r] \in Pending => Serving(r)'
  <2>1. UNCHANGED <<up, refusing, overdue>> BY <1>4 DEF Ends
  <2>2. CASE r = q
    <3>1. at'[r] = None /\ pc'[r] = "closed" BY <1>4, <2>2 DEF Ends, Go
    <3> QED BY <3>1 DEF Pending
  <2>3. CASE r # q
    <3>1. at'[r] = at[r] /\ home'[r] = home[r] /\ pc'[r] = pc[r] BY <1>4, <2>3 DEF Ends, Go
    <3> QED BY <1>a, <2>1, <3>1 DEF Serving
  <2> QED BY <2>2, <2>3
<1>5. CASE Replace
  <2>1. UNCHANGED <<refusing, overdue, home, at, pc>> /\ up \subseteq up'
    BY <1>5 DEF Replace, requests
  <2> QED BY <1>0, <1>a, <2>1 DEF Serving
<1>6. CASE GraceOver
  <2>1. UNCHANGED <<up, refusing, home, at, pc>> /\ overdue \subseteq overdue'
    BY <1>6 DEF GraceOver, requests
  <2> QED BY <1>0, <1>a, <2>1 DEF Serving
<1>7. CASE DrainRouter
  <2>1. UNCHANGED <<up, overdue, home, at, pc>> /\ refusing' = refusing \cup {previous}
    BY <1>7 DEF DrainRouter, requests
  <2>2. pc[r] \in Pending => home[r] # previous \/ home[r] \in overdue
    BY <1>7 DEF DrainRouter, Idle, Pending, Opened
  <2> QED BY <1>0, <1>a, <2>1, <2>2 DEF Serving
<1>8. CASE CloseRouter
  <2>1. UNCHANGED <<overdue, home>> /\ up' = up \ {previous} /\ refusing' \subseteq refusing
    BY <1>8 DEF CloseRouter
  <2>2. at'[r] \in {at[r], None} /\ pc'[r] \in {pc[r], "answered"} BY <1>8 DEF CloseRouter
  <2>3. pc[r] \in Pending => home[r] # previous \/ home[r] \in overdue
    BY <1>8 DEF CloseRouter, Idle, Pending, Opened
  <2> QED BY <1>0, <1>a, <2>1, <2>2, <2>3 DEF Serving, Pending
<1>9. CASE Stopped
  <2>1. UNCHANGED <<home, overdue, at, pc>> BY <1>9 DEF Stopped, requests
  <2>2. InFlight = {}
    <3>1. Cardinality(InFlight) = 0 BY <1>9 DEF Stopped, LeasesCount, InFlight
    <3> QED BY <3>1, Counted, FS_EmptySet
  <2>3. pc[r] \notin Pending BY <2>2 DEF InFlight, Pending, Opened
  <2> QED BY <1>0, <2>1, <2>3
<1>10. CASE WaitIdle \/ Interrupted \/ Leaves \/ UNCHANGED <<routers, proxy, requests>>
  BY <1>1, <1>10
  DEF WaitIdle, Interrupted, Leaves, Retire, Drain, StopListening, requests, routers
<1> QED BY <1>2, <1>3, <1>4, <1>5, <1>6, <1>7, <1>8, <1>9, <1>10, StepKind

-----------------------------------------------------------------------------
(* Sums                                                                       *)

\* A non-empty set of naturals has a least member.
LEMMA LeastMember ==
  ASSUME NEW T \in SUBSET Nat, T # {}
  PROVE  \E n \in T : \A m \in T : n <= m
<1> DEFINE Below == {p \in Nat \X Nat : p[1] < p[2]}
<1>1. Below = OpToRel(<, Nat) BY DEF OpToRel
<1>2. IsWellFoundedOn(Below, Nat)
  <2> HIDE DEF Below
  <2> QED BY <1>1, NatLessThanWellFounded, Zenon
<1>3. PICK n \in T : \A m \in T : ~ (<<m, n>> \in Below)
  <2> HIDE DEF Below
  <2> QED BY <1>2, WFMin, Zenon
<1>4. \A m \in Nat : <<m, n>> \in Below <=> m < n
  OBVIOUS
<1>5. T \subseteq Nat /\ n \in Nat OBVIOUS
<1>6. ASSUME NEW m \in T PROVE n <= m
  <2> HIDE DEF Below
  <2>1. m \in Nat /\ ~ (m < n) BY <1>3, <1>4, <1>5
  <2> QED BY <1>5, <2>1
<1> QED BY <1>6

\* One round of the recursion that adds up h over the subsets of a set.
Adds(g, h, s) ==
  IF s = {} THEN 0 ELSE LET x == CHOOSE x \in s : TRUE IN h[x] + g[s \ {x}]

\* The sum is what the recursion comes to.
Sums(g, h, S) == g = [s \in SUBSET S |-> Adds(g, h, s)]

LEMMA SumUnfolded ==
  ASSUME NEW h, NEW S
  PROVE SumFunctionOnSet(h, S) = (CHOOSE g : Sums(g, h, S))[S]
BY DEF SumFunctionOnSet, FoldFunctionOnSet, MapThenFoldSet, Sums, Adds

\* The recursion is defined on the subsets of a finite set.
LEMMA SumsExist ==
  ASSUME NEW h, NEW S, IsFiniteSet(S)
  PROVE  \E g : Sums(g, h, S)
<1> DEFINE Upto(n) == {s \in SUBSET S : Cardinality(s) <= n}
           Solved(n) == \E g : g = [s \in Upto(n) |-> Adds(g, h, s)]
<1>1. \A s \in SUBSET S : IsFiniteSet(s) /\ Cardinality(s) \in Nat
  BY FS_Subset, FS_CardinalityType
<1>2. \A n \in Nat : Solved(n)
  <2> SUFFICES ASSUME {n \in Nat : ~ Solved(n)} # {} PROVE FALSE
    OBVIOUS
  <2> HIDE DEF Solved
  <2>1. PICK n \in {m \in Nat : ~ Solved(m)} : \A m \in {m \in Nat : ~ Solved(m)} : n <= m
    BY LeastMember
  <2>2. n # 0
    <3>1. Solved(0)
      <4> DEFINE g == [s \in {{}} |-> 0]
      <4>1. Upto(0) = {{}} BY <1>1, FS_EmptySet
      <4>2. g = [s \in Upto(0) |-> Adds(g, h, s)] BY <4>1 DEF Adds
      <4> QED BY <4>2 DEF Solved
    <3> QED BY <2>1, <3>1
  <2>3. PICK g : g = [s \in Upto(n - 1) |-> Adds(g, h, s)]
    <3>1. n - 1 \in Nat /\ n \in Nat BY <2>1, <2>2
    <3>2. Solved(n - 1) BY <2>1, <3>1
    <3> QED BY <3>2 DEF Solved
  <2> DEFINE f == [s \in Upto(n) |-> Adds(g, h, s)]
  <2>4. ASSUME NEW s \in Upto(n) PROVE Adds(f, h, s) = Adds(g, h, s)
    <3>1. CASE s = {} BY <3>1 DEF Adds
    <3>2. CASE s # {}
      <4> DEFINE x == CHOOSE x \in s : TRUE
      <4>1. x \in s BY <3>2
      <4> HIDE DEF x
      <4>a. s \in SUBSET S /\ Cardinality(s) <= n /\ n \in Nat BY <2>1
      <4>b. Cardinality(s \ {x}) = Cardinality(s) - 1 BY <1>1, <4>1, <4>a, FS_RemoveElement
      <4>c. Cardinality(s) \in Nat BY <1>1, <4>a
      <4>2. s \ {x} \in Upto(n - 1) BY <4>a, <4>b, <4>c
      <4>3. s \ {x} \in Upto(n) BY <4>a, <4>b, <4>c
      <4>4. f[s \ {x}] = g[s \ {x}]
        <5>1. f[s \ {x}] = Adds(g, h, s \ {x}) BY <4>3
        <5>2. g[s \ {x}] = Adds(g, h, s \ {x}) BY <4>2, <2>3
        <5> QED BY <5>1, <5>2
      <4> QED BY <3>2, <4>4 DEF Adds, x
    <3> QED BY <3>1, <3>2
  <2>5. f = [s \in Upto(n) |-> Adds(f, h, s)] BY <2>4
  <2> HIDE DEF f, Upto
  <2>6. Solved(n) BY <2>5 DEF Solved
  <2> QED BY <2>1, <2>6
<1>3. Upto(Cardinality(S)) = SUBSET S
  BY <1>1, FS_Subset
<1>4. Solved(Cardinality(S)) BY <1>1, <1>2
<1> HIDE DEF Upto
<1> QED BY <1>3, <1>4 DEF Sums

\* Two sums of functions that agree are the same, whatever set the recursion
\* started from.
LEMMA SumsAgree ==
  ASSUME NEW S, IsFiniteSet(S), NEW R \in SUBSET S,
         NEW h, NEW k, \A x \in R : h[x] = k[x],
         NEW g, Sums(g, h, S), NEW f, Sums(f, k, R)
  PROVE  g[R] = f[R]
<1> DEFINE Differ == {n \in Nat : \E s \in SUBSET R : Cardinality(s) = n /\ g[s] # f[s]}
<1>1. \A s \in SUBSET R : IsFiniteSet(s) /\ Cardinality(s) \in Nat
  BY FS_Subset, FS_CardinalityType
<1>2. \A s \in SUBSET R : g[s] = Adds(g, h, s) /\ f[s] = Adds(f, k, s)
  BY DEF Sums
<1>3. Differ = {}
  <2> SUFFICES ASSUME Differ # {} PROVE FALSE
    OBVIOUS
  <2>1. PICK n \in Differ : \A m \in Differ : n <= m
    <3>1. Differ \in SUBSET Nat OBVIOUS
    <3> HIDE DEF Differ
    <3> QED BY <3>1, LeastMember
  <2>2. PICK s \in SUBSET R : Cardinality(s) = n /\ g[s] # f[s]
    BY <2>1
  <2>3. s # {} BY <1>2, <2>2 DEF Adds
  <2> DEFINE x == CHOOSE x \in s : TRUE
  <2>4. x \in s BY <2>3
  <2>5. g[s] = h[x] + g[s \ {x}] /\ f[s] = k[x] + f[s \ {x}]
    BY <1>2, <2>3 DEF Adds
  <2> HIDE DEF x
  <2>6. h[x] = k[x] BY <2>2, <2>4
  <2>7. Cardinality(s \ {x}) = n - 1 BY <1>1, <2>2, <2>4, FS_RemoveElement
  <2>8. g[s \ {x}] # f[s \ {x}] BY <2>2, <2>5, <2>6
  <2>9. n - 1 \in Nat BY <1>1, <2>7
  <2>10. n - 1 \in Differ /\ n \in Nat BY <2>7, <2>8, <2>9
  <2> HIDE DEF Differ
  <2> QED BY <2>1, <2>9, <2>10
<1> QED BY <1>1, <1>3

\* What a sum is: nothing, or a member and the sum of the others.
LEMMA SumChosen ==
  ASSUME NEW h, NEW S, IsFiniteSet(S)
  PROVE  /\ S = {} => SumFunctionOnSet(h, S) = 0
         /\ S # {} => \E x \in S : SumFunctionOnSet(h, S) = h[x] + SumFunctionOnSet(h, S \ {x})
<1> DEFINE Sol(R) == CHOOSE g : Sums(g, h, R)
<1>1. ASSUME NEW R \in SUBSET S PROVE Sums(Sol(R), h, R) /\ SumFunctionOnSet(h, R) = Sol(R)[R]
  <2>1. IsFiniteSet(R) BY FS_Subset
  <2> QED BY <2>1, SumsExist, SumUnfolded
<1> HIDE DEF Sol
<1>2. Sol(S)[S] = Adds(Sol(S), h, S) BY <1>1 DEF Sums
<1>3. CASE S = {} BY <1>1, <1>2, <1>3 DEF Adds
<1>4. CASE S # {}
  <2> DEFINE x == CHOOSE x \in S : TRUE
  <2>1. x \in S BY <1>4
  <2>2. Sol(S)[S] = h[x] + Sol(S)[S \ {x}] BY <1>2, <1>4 DEF Adds
  <2> HIDE DEF x
  <2>3. Sol(S)[S \ {x}] = Sol(S \ {x})[S \ {x}]
    <3>1. Sums(Sol(S), h, S) /\ Sums(Sol(S \ {x}), h, S \ {x}) BY <1>1
    <3> QED BY <3>1, SumsAgree
  <2> QED BY <1>1, <1>4, <2>1, <2>2, <2>3
<1> QED BY <1>3, <1>4

\* The sum looks at the members of the set only.
LEMMA SumSame ==
  ASSUME NEW S, IsFiniteSet(S), NEW h, NEW k, \A x \in S : h[x] = k[x]
  PROVE  SumFunctionOnSet(h, S) = SumFunctionOnSet(k, S)
<1>1. PICK g : Sums(g, h, S) /\ SumFunctionOnSet(h, S) = g[S] BY SumsExist, SumUnfolded
<1>2. PICK f : Sums(f, k, S) /\ SumFunctionOnSet(k, S) = f[S] BY SumsExist, SumUnfolded
<1> QED BY <1>1, <1>2, SumsAgree

\* A sum of naturals is one, and any member may be taken out of it.
LEMMA SumMember ==
  ASSUME NEW S, IsFiniteSet(S), NEW h, \A x \in S : h[x] \in Nat
  PROVE  /\ SumFunctionOnSet(h, S) \in Nat
         /\ \A x \in S : SumFunctionOnSet(h, S) = h[x] + SumFunctionOnSet(h, S \ {x})
<1> DEFINE Sum(s) == SumFunctionOnSet(h, s)
           Right(s) == Sum(s) \in Nat /\ \A x \in s : Sum(s) = h[x] + Sum(s \ {x})
           Wrong == {n \in Nat : \E s \in SUBSET S : Cardinality(s) = n /\ ~ Right(s)}
<1>1. \A s \in SUBSET S : IsFiniteSet(s) /\ Cardinality(s) \in Nat
  BY FS_Subset, FS_CardinalityType
<1>2. Wrong = {}
  <2> SUFFICES ASSUME Wrong # {} PROVE FALSE
    OBVIOUS
  <2>1. PICK n \in Wrong : \A m \in Wrong : n <= m
    <3>1. Wrong \in SUBSET Nat OBVIOUS
    <3> HIDE DEF Wrong
    <3> QED BY <3>1, LeastMember
  <2>2. PICK s \in SUBSET S : Cardinality(s) = n /\ ~ Right(s)
    BY <2>1
  <2>3. ASSUME NEW t \in SUBSET s, t # s PROVE Right(t)
    <3>1. Cardinality(t) < n BY <1>1, <2>2, <2>3, FS_Subset
    <3>2. Cardinality(t) \in Nat /\ n \in Nat BY <1>1, <2>2
    <3>3. Cardinality(t) \notin Wrong
      <4> HIDE DEF Wrong
      <4> QED BY <2>1, <3>1, <3>2
    <3> HIDE DEF Right
    <3> QED BY <3>2, <3>3
  <2>4. IsFiniteSet(s) BY <1>1
  <2>5. s # {}
    <3>1. s = {} => Sum(s) = 0 BY <2>4, SumChosen
    <3> HIDE DEF Sum
    <3> QED BY <2>2, <3>1
  <2>6. PICK c \in s : Sum(s) = h[c] + Sum(s \ {c}) BY <2>4, <2>5, SumChosen
  <2> HIDE DEF Sum
  <2>7. Sum(s) \in Nat
    <3>1. Sum(s \ {c}) \in Nat BY <2>3
    <3>2. h[c] \in Nat BY <2>2
    <3> QED BY <2>6, <3>1, <3>2
  <2>8. ASSUME NEW x \in s PROVE Sum(s) = h[x] + Sum(s \ {x})
    <3>1. CASE x = c BY <2>6, <3>1
    <3>2. CASE x # c
      <4> DEFINE rest == s \ {c, x}
      <4>1. rest = (s \ {c}) \ {x} /\ rest = (s \ {x}) \ {c} OBVIOUS
      <4> HIDE DEF rest
      <4>2. Sum(s \ {c}) = h[x] + Sum(rest) BY <2>3, <3>2, <4>1
      <4>3. Sum(s \ {x}) = h[c] + Sum(rest) BY <2>3, <3>2, <4>1
      <4>4. Sum(rest) \in Nat BY <2>3, <4>1
      <4>5. h[x] \in Nat /\ h[c] \in Nat BY <2>2
      <4> HIDE DEF Right, Wrong
      <4>6. Sum(s) = h[c] + (h[x] + Sum(rest)) BY <2>6, <4>2
      <4> QED BY <4>3, <4>4, <4>5, <4>6
    <3> QED BY <3>1, <3>2
  <2> QED BY <2>2, <2>7, <2>8
<1>3. Right(S)
  <2>1. Cardinality(S) \notin Wrong BY <1>2
  <2> HIDE DEF Right
  <2> QED BY <1>1, <2>1
<1> QED BY <1>3

-----------------------------------------------------------------------------
(* The books of the sessions                                                  *)

\* A request is charged once, after its principal is known, which it keeps.
ChargedOnce ==
  \A r \in Request :
    /\ asked[r] # Nothing => key[r] \in Session /\ pc[r] \notin {"new", "arrived", "reading"}
    /\ pc[r] \in {"new", "arrived"} => key[r] = None

\* The sum of h over the requests that the map K gives to s.
Booked(h, K, s) == SumFunctionOnSet(h, {q \in Request : K[q] = s})

CallsOf == [r \in Request |-> asked[r].calls]
InputOf == [r \in Request |-> asked[r].input]
OutputOf == [r \in Request |-> asked[r].output]

\* Of two books that differ in one request, the sums differ in what it counts for.
LEMMA OneDiffers ==
  ASSUME NEW h \in [Request -> Nat], NEW k \in [Request -> Nat], NEW K, NEW L,
         NEW r \in Request, \A q \in Request \ {r} : K[q] = L[q] /\ h[q] = k[q],
         NEW s
  PROVE  /\ Booked(h, K, s) \in Nat
         /\ Booked(k, L, s) + (IF K[r] = s THEN h[r] ELSE 0)
              = Booked(h, K, s) + (IF L[r] = s THEN k[r] ELSE 0)
<1> DEFINE old == {q \in Request : K[q] = s}
           new == {q \in Request : L[q] = s}
           rest == old \ {r}
<1>1. IsFiniteSet(old) /\ IsFiniteSet(new) /\ IsFiniteSet(rest)
  BY FiniteAssumption, FS_Subset
<1>2. rest = new \ {r} /\ rest \subseteq Request \ {r} OBVIOUS
<1>3. /\ r \in old <=> K[r] = s
      /\ r \in new <=> L[r] = s
      /\ ~ (r \in old) => rest = old
      /\ ~ (r \in new) => rest = new
  OBVIOUS
<1>4. (\A q \in old : h[q] \in Nat) /\ (\A q \in new : k[q] \in Nat) OBVIOUS
<1>5. \A q \in rest : h[q] \in Nat /\ h[q] = k[q] OBVIOUS
<1>6. h[r] \in Nat /\ k[r] \in Nat OBVIOUS
<1> HIDE DEF old, new, rest
<1>7. SumFunctionOnSet(h, rest) = SumFunctionOnSet(k, rest) BY <1>1, <1>5, SumSame
<1>8. SumFunctionOnSet(h, rest) \in Nat BY <1>1, <1>5, SumMember
<1>9. SumFunctionOnSet(h, old)
        = SumFunctionOnSet(h, rest) + (IF K[r] = s THEN h[r] ELSE 0)
  <2>1. CASE r \in old
    <3>1. SumFunctionOnSet(h, old) = h[r] + SumFunctionOnSet(h, old \ {r})
      BY <1>1, <1>4, <2>1, SumMember
    <3> QED BY <1>3, <1>6, <1>8, <2>1, <3>1 DEF rest
  <2>2. CASE r \notin old BY <1>3, <1>8, <2>2
  <2> QED BY <2>1, <2>2
<1>10. SumFunctionOnSet(k, new)
         = SumFunctionOnSet(k, rest) + (IF L[r] = s THEN k[r] ELSE 0)
  <2>1. CASE r \in new
    <3>1. SumFunctionOnSet(k, new) = k[r] + SumFunctionOnSet(k, new \ {r})
      BY <1>1, <1>4, <2>1, SumMember
    <3> QED BY <1>2, <1>3, <1>6, <1>7, <1>8, <2>1, <3>1
  <2>2. CASE r \notin new BY <1>3, <1>7, <1>8, <2>2
  <2> QED BY <2>1, <2>2
<1> QED BY <1>6, <1>7, <1>8, <1>9, <1>10 DEF Booked, old, new

\* A request that is not charged, or not yet, may get and lose its principal; the
\* one that is admitted has its principal charged; nothing else changes the books.
LEMMA BooksKind ==
  ASSUME Typed, Bound, ChargedOnce, [Next]_vars
  PROVE  \/ UNCHANGED <<calls, input, output, key, asked>>
         \/ /\ UNCHANGED <<calls, input, output, asked>>
            /\ \E r \in Request : /\ asked[r] = Nothing
                                  /\ \A q \in Request \ {r} : key'[q] = key[q]
         \/ \E r \in Request, i \in Size, o \in Size \cup {0} :
              /\ pc[r] = "reading" /\ key[r] \in Session
              /\ Admissible(key[r], i, o) /\ Charge(key[r], i, o)
              /\ UNCHANGED key
              /\ asked' = [asked EXCEPT ![r] = Call(i, o)]
<1>1. CASE UNCHANGED vars BY <1>1 DEF vars, sessions, requests
<1>2. ASSUME NEW r \in Request, NEW k \in Session \cup {Owner}, Authorized(r, k)
      PROVE  /\ UNCHANGED <<calls, input, output, asked>>
             /\ asked[r] = Nothing
             /\ \A q \in Request \ {r} : key'[q] = key[q]
  BY <1>2 DEF Authorized, ChargedOnce, sessions, Typed, RequestsTyped
<1>3. ASSUME NEW r \in Request, Ends(r)
      PROVE  \/ UNCHANGED <<calls, input, output, key, asked>>
             \/ /\ UNCHANGED <<calls, input, output, asked>>
                /\ asked[r] = Nothing
                /\ \A q \in Request \ {r} : key'[q] = key[q]
  <2>1. UNCHANGED <<calls, input, output, asked>> BY <1>3 DEF Ends, sessions
  <2>2. CASE asked[r] = Nothing
    BY <1>3, <2>1, <2>2 DEF Ends, Typed, RequestsTyped
  <2>3. CASE asked[r] # Nothing
    BY <1>3, <2>1, <2>3 DEF Ends, Typed, RequestsTyped
  <2> QED BY <2>2, <2>3
<1>4. ASSUME NEW r \in Request, Read(r)
      PROVE  \/ UNCHANGED <<calls, input, output, key, asked>>
             \/ \E i \in Size, o \in Size \cup {0} :
                  /\ pc[r] = "reading" /\ key[r] \in Session
                  /\ Admissible(key[r], i, o) /\ Charge(key[r], i, o)
                  /\ UNCHANGED key
                  /\ asked' = [asked EXCEPT ![r] = Call(i, o)]
  BY <1>4 DEF Read, Forward, sessions
<1>5. ASSUME NEW r \in Request, Arrive(r) \/ Rejected(r) \/ ReadRefused(r) \/ Answered(r)
      PROVE  UNCHANGED <<calls, input, output, key, asked>>
  BY <1>5 DEF Arrive, Rejected, Unresolved, ReadRefused, Refuse, Answers, Answered, sessions
<1>6. ASSUME NEW s \in Session, Control(s) \/ Clock(s)
      PROVE  UNCHANGED <<calls, input, output, key, asked>>
  BY <1>6 DEF Control, Open, Close, Clock, Expire, requests
<1>7. CASE Replace \/ WaitIdle \/ GraceOver \/ DrainRouter \/ CloseRouter \/ Interrupted
  BY <1>7 DEF Replace, WaitIdle, GraceOver, DrainRouter, CloseRouter,
      Interrupted, sessions, requests
<1>8. CASE Retire \/ Drain \/ StopListening \/ Stopped
  BY <1>8 DEF Retire, Drain, StopListening, Stopped, CloseAll, sessions, requests
<1> QED BY <1>1, <1>2, <1>3, <1>4, <1>5, <1>6, <1>7, <1>8 DEF Next, Serves

\* A request is charged only when its body is there.
LEMMA ChargedOnceStep == ASSUME Typed, Bound, ChargedOnce, Next PROVE ChargedOnce'
<1> USE DEF Typed, RequestsTyped
<1>0. ASSUME UNCHANGED <<key, asked>>,
             \A r \in Request : pc'[r] \in {"new", "arrived", "reading"} => pc[r] \in {"new", "arrived", "reading"},
             \A r \in Request : pc'[r] \in {"new", "arrived"} => pc[r] \in {"new", "arrived"}
      PROVE  ChargedOnce'
  BY <1>0 DEF ChargedOnce
<1>1. ASSUME NEW r \in Request, NEW k \in Session \cup {Owner}, Authorized(r, k) PROVE ChargedOnce'
  BY <1>1 DEF Authorized, Go, ChargedOnce
<1>2. ASSUME NEW r \in Request, Ends(r) PROVE ChargedOnce'
  <2>1. /\ UNCHANGED asked /\ pc'[r] = "closed"
        /\ asked[r] # Nothing => key'[r] = key[r]
        /\ \A q \in Request \ {r} : pc'[q] = pc[q] /\ key'[q] = key[q]
    BY <1>2 DEF Ends, Go
  <2> QED BY <2>1 DEF ChargedOnce
<1>3. ASSUME NEW r \in Request, Read(r) PROVE ChargedOnce'
  <2>1. pc[r] = "reading" /\ pc'[r] \in {"answered", "forwarded"} /\ UNCHANGED key
    BY <1>3 DEF Read, Forward, Go
  <2>2. \A q \in Request \ {r} : pc'[q] = pc[q] BY <1>3 DEF Read, Forward, Go
  <2>3. \A q \in Request \ {r} : asked'[q] = asked[q] BY <1>3 DEF Read
  <2>4. asked'[r] # Nothing => key[r] \in Session BY <1>3 DEF Read, ChargedOnce
  <2> QED BY <2>1, <2>2, <2>3, <2>4 DEF ChargedOnce
<1>4. ASSUME NEW r \in Request, Arrive(r) PROVE ChargedOnce'
  <2>1. /\ UNCHANGED <<asked, key>> /\ pc[r] = "new" /\ pc'[r] = "arrived"
        /\ \A q \in Request \ {r} : pc'[q] = pc[q]
    BY <1>4 DEF Arrive, Go
  <2> QED BY <2>1 DEF ChargedOnce
<1>5. ASSUME NEW r \in Request, Rejected(r) \/ ReadRefused(r) \/ Answered(r) PROVE ChargedOnce'
  <2>1. /\ UNCHANGED <<asked, key>> /\ pc'[r] \in {"answered", "streaming"}
        /\ \A q \in Request \ {r} : pc'[q] = pc[q]
    BY <1>5 DEF Rejected, ReadRefused, Answers, Answered, Go
  <2> QED BY <1>0, <2>1
<1>6. CASE CloseRouter
  <2>1. UNCHANGED <<key, asked>> /\ \A r \in Request : pc'[r] \in {pc[r], "answered"}
    BY <1>6 DEF CloseRouter
  <2> QED BY <1>0, <2>1
<1>7. CASE UNCHANGED requests BY <1>7 DEF requests, ChargedOnce
<1> QED
  BY <1>1, <1>2, <1>3, <1>4, <1>5, <1>6, <1>7
  DEF Next, Serves, Control, Clock, Replace, WaitIdle, GraceOver, DrainRouter, Interrupted, Retire,
      Drain, StopListening, Stopped, requests

\* Every step keeps the books.
LEMMA AccountedStep ==
  ASSUME Typed, Typed', Bound, ChargedOnce, Accounted, [Next]_vars PROVE Accounted'
<1> USE DEF CallsOf, InputOf, OutputOf
<1>1. Accounted <=>
        \A s \in Session :
          /\ calls[s] = Booked(CallsOf, key, s) /\ calls[s] <= Limit[s].calls
          /\ input[s] = Booked(InputOf, key, s) /\ input[s] <= Limit[s].input
          /\ output[s] = Booked(OutputOf, key, s) /\ output[s] <= Limit[s].output
  BY DEF Accounted, Booked
<1>2. Accounted' <=>
        \A s \in Session :
          /\ calls'[s] = Booked(CallsOf', key', s) /\ calls'[s] <= Limit[s].calls
          /\ input'[s] = Booked(InputOf', key', s) /\ input'[s] <= Limit[s].input
          /\ output'[s] = Booked(OutputOf', key', s) /\ output'[s] <= Limit[s].output
  BY DEF Accounted, Booked
<1>3. \A r \in Request : asked[r] \in Asked /\ asked'[r] \in Asked
  BY DEF Typed, RequestsTyped
<1>4. /\ CallsOf \in [Request -> Nat] /\ CallsOf' \in [Request -> Nat]
      /\ InputOf \in [Request -> Nat] /\ InputOf' \in [Request -> Nat]
      /\ OutputOf \in [Request -> Nat] /\ OutputOf' \in [Request -> Nat]
  <2>1. \A a \in Asked : a.calls \in Nat /\ a.input \in Nat /\ a.output \in Nat
    <3>1. \A n \in Size \cup {0} : n \in Nat BY SizeAssumption
    <3>2. \A a \in Asked :
            a.calls \in {0, 1} /\ a.input \in Size \cup {0} /\ a.output \in Size \cup {0}
      BY DEF Asked
    <3> QED BY <3>1, <3>2
  <2>2. \A r \in Request :
          /\ asked[r].calls \in Nat /\ asked[r].input \in Nat /\ asked[r].output \in Nat
          /\ asked'[r].calls \in Nat /\ asked'[r].input \in Nat /\ asked'[r].output \in Nat
    <3> HIDE DEF Asked
    <3> QED BY <1>3, <2>1
  <2> QED BY <2>2
<1> HIDE DEF CallsOf, InputOf, OutputOf
<1>5. CASE UNCHANGED <<calls, input, output, key, asked>>
  BY <1>1, <1>2, <1>5 DEF CallsOf, InputOf, OutputOf
<1>6. CASE /\ UNCHANGED <<calls, input, output, asked>>
           /\ \E r \in Request : /\ asked[r] = Nothing
                                 /\ \A q \in Request \ {r} : key'[q] = key[q]
  <2>1. PICK r \in Request : asked[r] = Nothing /\ \A q \in Request \ {r} : key'[q] = key[q]
    BY <1>6
  <2>2. UNCHANGED <<CallsOf, InputOf, OutputOf>> BY <1>6 DEF CallsOf, InputOf, OutputOf
  <2>3. CallsOf[r] = 0 /\ InputOf[r] = 0 /\ OutputOf[r] = 0
    BY <2>1 DEF CallsOf, InputOf, OutputOf, Nothing
  <2>4. ASSUME NEW h \in [Request -> Nat], h[r] = 0, NEW s
        PROVE  Booked(h, key', s) = Booked(h, key, s)
    <3>1. Booked(h, key, s) \in Nat /\ Booked(h, key', s) \in Nat BY <2>1, OneDiffers
    <3> DEFINE new == key'
    <3>a. \A q \in Request \ {r} : key[q] = new[q] /\ h[q] = h[q] BY <2>1
    <3> HIDE DEF new
    <3>b. Booked(h, new, s) + (IF key[r] = s THEN h[r] ELSE 0)
            = Booked(h, key, s) + (IF new[r] = s THEN h[r] ELSE 0)
      BY <2>4, <3>a, OneDiffers
    <3>2. Booked(h, key', s) + (IF key[r] = s THEN h[r] ELSE 0)
            = Booked(h, key, s) + (IF key'[r] = s THEN h[r] ELSE 0)
      BY <3>b DEF new
    <3> QED BY <2>4, <3>1, <3>2
  <2> QED BY <1>1, <1>2, <1>4, <1>6, <2>2, <2>3, <2>4
<1>7. CASE \E r \in Request, i \in Size, o \in Size \cup {0} :
              /\ pc[r] = "reading" /\ key[r] \in Session
              /\ Admissible(key[r], i, o) /\ Charge(key[r], i, o)
              /\ UNCHANGED key
              /\ asked' = [asked EXCEPT ![r] = Call(i, o)]
  <2>1. PICK r \in Request, i \in Size, o \in Size \cup {0} :
              /\ pc[r] = "reading" /\ key[r] \in Session
              /\ Admissible(key[r], i, o) /\ Charge(key[r], i, o)
              /\ UNCHANGED key
              /\ asked' = [asked EXCEPT ![r] = Call(i, o)]
    BY <1>7
  <2>2. asked[r] = Nothing BY <2>1 DEF ChargedOnce
  <2>3. i \in Nat /\ o \in Nat BY SizeAssumption
  <2>4. asked'[r] = Call(i, o) /\ \A q \in Request \ {r} : asked'[q] = asked[q]
    BY <2>1 DEF Typed, RequestsTyped
  <2>5. /\ CallsOf[r] = 0 /\ InputOf[r] = 0 /\ OutputOf[r] = 0
        /\ CallsOf'[r] = 1 /\ InputOf'[r] = i /\ OutputOf'[r] = o
    BY <2>2, <2>4 DEF CallsOf, InputOf, OutputOf, Nothing, Call
  <2>6. \A q \in Request \ {r} :
          CallsOf'[q] = CallsOf[q] /\ InputOf'[q] = InputOf[q] /\ OutputOf'[q] = OutputOf[q]
    BY <2>4 DEF CallsOf, InputOf, OutputOf
  <2>7. ASSUME NEW h \in [Request -> Nat], NEW k \in [Request -> Nat], h[r] = 0,
               \A q \in Request \ {r} : h[q] = k[q], NEW s
        PROVE  Booked(k, key', s) = Booked(h, key, s) + (IF key[r] = s THEN k[r] ELSE 0)
    <3>1. Booked(h, key, s) \in Nat /\ Booked(k, key, s) \in Nat BY <2>7, OneDiffers
    <3>2. Booked(k, key, s) + (IF key[r] = s THEN h[r] ELSE 0)
            = Booked(h, key, s) + (IF key[r] = s THEN k[r] ELSE 0)
      BY <2>7, OneDiffers
    <3>3. key' = key BY <2>1
    <3> QED BY <2>7, <3>1, <3>2, <3>3
  <2>8. ASSUME NEW s \in Session
        PROVE  /\ Booked(CallsOf', key', s) =
                     Booked(CallsOf, key, s) + (IF key[r] = s THEN 1 ELSE 0)
               /\ Booked(InputOf', key', s) =
                     Booked(InputOf, key, s) + (IF key[r] = s THEN i ELSE 0)
               /\ Booked(OutputOf', key', s) =
                     Booked(OutputOf, key, s) + (IF key[r] = s THEN o ELSE 0)
    BY <1>4, <2>5, <2>6, <2>7
  <2>9. ASSUME NEW s \in Session
        PROVE  /\ calls'[s] = calls[s] + (IF key[r] = s THEN 1 ELSE 0)
               /\ input'[s] = input[s] + (IF key[r] = s THEN i ELSE 0)
               /\ output'[s] = output[s] + (IF key[r] = s THEN o ELSE 0)
    BY <2>1, <2>3 DEF Charge, Typed, SessionsTypeOK
  <2>10. ASSUME NEW s \in Session
         PROVE  /\ calls'[s] <= Limit[s].calls
                /\ input'[s] <= Limit[s].input
                /\ output'[s] <= Limit[s].output
    <3>1. /\ calls[s] \in Nat /\ input[s] \in Nat /\ output[s] \in Nat
          /\ Limit[s].calls \in Nat /\ Limit[s].input \in Nat /\ Limit[s].output \in Nat
      BY LimitAssumption DEF Limits, Typed, SessionsTypeOK
    <3>2. CASE s = key[r] BY <2>1, <2>9, <3>1, <3>2 DEF Admissible
    <3>3. CASE s # key[r] BY <1>1, <2>9, <3>1, <3>3
    <3> QED BY <3>2, <3>3
  <2> QED BY <1>1, <1>2, <2>8, <2>9, <2>10
<1> QED BY <1>5, <1>6, <1>7, BooksKind

-----------------------------------------------------------------------------
(* Theorems                                                                   *)

\* The invariant holds when the daemon has its first router.
LEMMA Initial == Init => IInv
<1> SUFFICES ASSUME Init PROVE IInv OBVIOUS
<1> USE DEF Init
<1>0. PICK p \in Port : port = [g \in Router |-> IF g = 0 THEN p ELSE None]
  BY FiniteAssumption
<1>1. 0 \in Router BY RouterAssumption DEF Router
<1>2. Typed
  <2>1. SessionsTypeOK BY DEF SessionsInit, SessionsTypeOK
  <2>2. RoutersTyped BY <1>0, <1>1 DEF RoutersTyped
  <2>3. RequestsTyped BY DEF RequestsTyped, Asked, Nothing
  <2> QED BY <2>1, <2>2, <2>3 DEF Typed, ProxyTyped
<1>3. Listening BY <1>0, <1>1 DEF Listening
<1>4. Bound /\ Idle BY DEF Bound, Idle, Opened
<1>5. Attached BY DEF Attached
<1>6. LeasesCount
  <2>1. \A q \in Port : Holders(q) = {} BY NoneAssumption DEF Holders
  <2>2. {r \in Request : pc[r] \in Opened} = {} BY DEF Opened
  <2> QED BY <2>1, <2>2, FS_EmptySet DEF LeasesCount
<1> QED BY <1>2, <1>3, <1>4, <1>5, <1>6 DEF IInv

\* The invariant is inductive: every step of requests, replacements, timers,
\* sessions and the end of the proxy keeps it.
THEOREM Inductive == IInv /\ [Next]_vars => IInv'
<1> SUFFICES ASSUME IInv, [Next]_vars PROVE IInv' OBVIOUS
<1>1. CASE UNCHANGED vars
  BY <1>1
  DEF vars, sessions, routers, proxy, requests, IInv, Typed, SessionsTypeOK, RoutersTyped,
      ProxyTyped, RequestsTyped, Listening, Bound, Idle, Attached, LeasesCount, Holders
<1>2. CASE Next
  <2>1. Typed' /\ Listening' /\ Bound' /\ LeasesCount'
    BY <1>2, TypedStep, ListeningStep, BoundStep, LeasesStep DEF IInv
  <2>2. Idle' /\ Attached' BY <1>2, <2>1, IdleStep, AttachedStep DEF IInv
  <2> QED BY <2>1, <2>2 DEF IInv
<1> QED BY <1>1, <1>2

\* The invariant holds in every state: of any requests, ports, replacements and
\* sessions, wherever the client of a replacement disconnects.
THEOREM Invariant == Spec => []IInv
BY Initial, Inductive, PTL DEF Spec

\* Every state of routers, proxy, requests and sessions is well typed; a count
\* of leases or of requests in flight is never negative.
THEOREM TypeCorrect == Spec => []TypeOK
<1>1. IInv => TypeOK
  <2> SUFFICES ASSUME IInv PROVE TypeOK OBVIOUS
  <2>1. \A p \in Port : leases[p] \in Nat BY Counted DEF IInv, LeasesCount
  <2>2. inflight \in Nat BY Counted DEF IInv, LeasesCount, InFlight
  <2>3. leases \in [Port -> Nat] BY <2>1 DEF IInv, Typed, RoutersTyped
  <2> QED BY <2>2, <2>3
    DEF IInv, Typed, RoutersTyped, ProxyTyped, RequestsTyped, Opened, Asked, TypeOK
<1> QED BY <1>1, Invariant, PTL

\* Leases and requests in flight are counted right, for any number of requests
\* and of replacements, on ports that are used again (switching-proxy.ts).
THEOREM LeasesBalance == Spec => []LeasesCount
<1>1. IInv => LeasesCount BY DEF IInv
<1> QED BY <1>1, Invariant, PTL

\* A request is answered by the router it arrived at, which serves until then
\* unless its grace is over, for any number of requests and replacements.
THEOREM StaysAttached == Spec => []Attached
<1>1. IInv => Attached BY DEF IInv
<1> QED BY <1>1, Invariant, PTL

\* No step charges a session that is closed or past its time, whatever was
\* authorized before (eval-session.ts).
THEOREM InTime == Spec => AdmittedInTime
<1> DEFINE Step == \A s \in Session : calls'[s] > calls[s] => state[s] = "open" /\ ~ expired[s]
<1>1. IInv /\ [Next]_vars => [Step]_vars
  <2> SUFFICES ASSUME IInv, Next, NEW s \in Session, calls'[s] > calls[s]
               PROVE  state[s] = "open" /\ ~ expired[s]
    OBVIOUS
  <2>0. calls \in [Session -> Nat] BY DEF IInv, Typed, SessionsTypeOK
  <2>1. calls' # calls BY <2>0
  <2>2. PICK r \in Request : Read(r) /\ calls' # calls
    BY <2>1
    DEF Next, Serves, Arrive, Authorized, Rejected, Unresolved, Answers, ReadRefused, Refuse,
        Answered, Ends, Control, Open, Close, Clock, Expire, Replace, WaitIdle, GraceOver,
        DrainRouter, CloseRouter, Interrupted, Retire, Drain, StopListening, Stopped, CloseAll,
        sessions
  <2>3. PICK i \in Size, o \in Size \cup {0} :
          Admissible(key[r], i, o) /\ Charge(key[r], i, o) /\ key[r] \in Session
    BY <2>2 DEF Read, sessions
  <2>4. key[r] = s BY <2>0, <2>3 DEF Charge
  <2> QED BY <2>3, <2>4 DEF Admissible
<1>2. Spec => [][Step]_vars BY <1>1, Invariant, PTL DEF Spec
<1> QED BY <1>2 DEF AdmittedInTime

\* Every call of a session that went to a router is counted, once, and no session
\* is ever over its limits: for any number of sessions and requests, whatever is
\* authorized, read, admitted, closed and expired in between (service.ts, #admit).
THEOREM BooksBalance == Spec => []Accounted
<1> DEFINE Books == IInv /\ ChargedOnce /\ Accounted
<1>1. Init => Books
  <2> SUFFICES ASSUME Init PROVE ChargedOnce /\ Accounted BY Initial
  <2>1. ChargedOnce BY DEF Init, ChargedOnce
  <2>2. Accounted
    <3>1. ASSUME NEW s \in Session PROVE {r \in Request : key[r] = s} = {}
      BY NoneAssumption DEF Init
    <3>2. \A h : SumFunctionOnSet(h, {}) = 0 BY FS_EmptySet, SumChosen
    <3>3. \A s \in Session : Limit[s].calls >= 0 /\ Limit[s].input >= 0 /\ Limit[s].output >= 0
      BY LimitAssumption DEF Limits
    <3> QED BY <3>1, <3>2, <3>3 DEF Init, SessionsInit, Accounted
  <2> QED BY <2>1, <2>2
<1>2. Books /\ [Next]_vars => Books'
  <2> SUFFICES ASSUME IInv, ChargedOnce, Accounted, [Next]_vars PROVE Books' OBVIOUS
  <2>1. IInv' BY Inductive
  <2>2. Typed /\ Bound /\ Typed' BY <2>1 DEF IInv
  <2>3. ChargedOnce'
    <3>1. CASE UNCHANGED vars BY <3>1 DEF vars, requests, ChargedOnce
    <3> QED BY <2>2, <3>1, ChargedOnceStep
  <2> QED BY <2>1, <2>2, <2>3, AccountedStep
<1>3. Books => Accounted OBVIOUS
<1> QED BY <1>1, <1>2, <1>3, PTL DEF Spec
=============================================================================
