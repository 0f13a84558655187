---------------------------- MODULE SwitchingProxy ----------------------------
(***************************************************************************)
(* The data plane of a daemon: the listener that stays (gateway/src/         *)
(* switching-proxy.ts), the routers behind it that are replaced (daemon/src/  *)
(* daemon-generations.ts), and the evaluation sessions that bound some of the *)
(* requests (EvalSessions).                                                 *)
(*                                                                         *)
(* A request takes a lease on the active router when it arrives, is           *)
(* authorized, reads its body, and is then forwarded to the router it has the *)
(* lease on.  Between any two of these the router may be replaced, and the    *)
(* daemon may retire or drain.  A router is named by a number and listens on  *)
(* a port that the system chose: ports are used again.                       *)
(* The map of generations by port is the table of leases here, where one that *)
(* is not in the map has none.  Replacements are one at a time and none runs  *)
(* when the daemon leaves: see MutationQueue.                               *)
(***************************************************************************)
EXTENDS EvalSessions, FiniteSetsExt

CONSTANTS
  Request,
  Port,             \* ports of routers
  MaxRouter,        \* bound on replacements
  Size,             \* what a call may ask for, in tokens
  Owner,            \* a principal that is not a session
  None,
  Fault             \* what may happen besides, a subset of Faults

\* disconnect: the client whose mutation replaces the router goes away.
Faults == {"disconnect"}
Router == 0..MaxRouter

ASSUME NoneAssumption == None \notin Request \cup Port \cup Session \cup {Owner} \cup Nat
ASSUME OwnerAssumption == Owner \notin Session
ASSUME FiniteAssumption == IsFiniteSet(Request) /\ Port # {}
ASSUME RouterAssumption == MaxRouter \in Nat
ASSUME SizeAssumption == Size \subseteq Nat
ASSUME FaultAssumption == Fault \subseteq Faults

VARIABLES
  \* routers
  active,           \* the target of new requests
  port,             \* where each router listens, None before it starts
  up,               \* the routers that run
  refusing,         \* those that drain: they refuse
  leases,           \* on the router of each port
  stage,            \* of the replacement of a router
  previous,         \* the router that is replaced
  overdue,          \* routers whose requests did not end in time
  \* the proxy
  leaving,          \* retiring, draining
  listener,
  inflight,
  \* requests
  pc,
  lease,            \* the port of the router it has a lease on
  home,             \* history: the active router when it arrived
  key,              \* its principal
  at,               \* the router that it was forwarded to
  asked             \* what its session was charged with

routers == <<active, port, up, refusing, leases, stage, previous, overdue>>
proxy == <<leaving, listener, inflight>>
requests == <<pc, lease, home, key, at, asked>>
vars == <<sessions, routers, proxy, requests>>

Nothing == [calls |-> 0, input |-> 0, output |-> 0]
Call(i, o) == [calls |-> 1, input |-> i, output |-> o]

TypeOK ==
  /\ SessionsTypeOK
  /\ active \in Router
  /\ port \in [Router -> Port \cup {None}]
  /\ up \in SUBSET Router
  /\ refusing \in SUBSET Router
  /\ leases \in [Port -> Nat]
  /\ stage \in {"none", "swapped", "waiting", "drain", "closing"}
  /\ previous \in Router \cup {None}
  /\ overdue \in SUBSET Router
  /\ leaving \in SUBSET {"retiring", "draining"}
  /\ listener \in {"open", "closing", "closed"}
  /\ inflight \in Nat
  /\ pc \in [Request -> {"new", "arrived", "reading", "forwarded", "streaming", "answered",
                         "closed"}]
  /\ lease \in [Request -> Port \cup {None}]
  /\ home \in [Request -> Router \cup {None}]
  /\ key \in [Request -> Session \cup {Owner, None}]
  /\ at \in [Request -> Router \cup {None}]
  /\ asked \in [Request -> [calls : {0, 1}, input : Size \cup {0}, output : Size \cup {0}]]

Init ==
  /\ SessionsInit
  /\ active = 0
  /\ port = [g \in Router |-> IF g = 0 THEN CHOOSE p \in Port : TRUE ELSE None]
  /\ up = {0}
  /\ refusing = {}
  /\ leases = [p \in Port |-> 0]
  /\ stage = "none"
  /\ previous = None
  /\ overdue = {}
  /\ leaving = {}
  /\ listener = "open"
  /\ inflight = 0
  /\ pc = [r \in Request |-> "new"]
  /\ lease = [r \in Request |-> None]
  /\ home = [r \in Request |-> None]
  /\ key = [r \in Request |-> None]
  /\ at = [r \in Request |-> None]
  /\ asked = [r \in Request |-> Nothing]

-----------------------------------------------------------------------------
(* Requests                                                                 *)

Go(r, step) == pc' = [pc EXCEPT ![r] = step]

\* The callback of createServer, before anything is known of the request.
Arrive(r) ==
  /\ pc[r] = "new"
  /\ listener = "open"
  /\ leases' = [leases EXCEPT ![port[active]] = @ + 1]
  /\ inflight' = inflight + 1
  /\ lease' = [lease EXCEPT ![r] = port[active]]
  /\ home' = [home EXCEPT ![r] = active]
  /\ Go(r, "arrived")
  /\ UNCHANGED <<sessions, active, port, up, refusing, stage, previous, overdue, leaving,
                 listener, key, at, asked>>

\* The proxy answers itself.
Answers(r) ==
  /\ Go(r, "answered")
  /\ UNCHANGED <<routers, proxy, lease, home, key, at, asked>>

Authorized(r, k) ==
  /\ pc[r] = "arrived"
  /\ "draining" \notin leaving
  /\ k \in Session => Resolves(k)
  /\ key' = [key EXCEPT ![r] = k]
  /\ Go(r, "reading")
  /\ UNCHANGED <<sessions, routers, proxy, lease, home, at, asked>>

\* No such credential, a session that is over, or a proxy that drains.
Rejected(r) ==
  /\ pc[r] = "arrived"
  /\ IF "draining" \in leaving THEN UNCHANGED sessions
     ELSE UNCHANGED sessions \/ \E s \in Session : Unresolved(s)
  /\ Answers(r)

\* Faulty: a request goes to the router that is active by now.
ForwardActive(r) ==
  /\ at' = [at EXCEPT ![r] = active]
  /\ Go(r, "forwarded")
  /\ UNCHANGED <<routers, proxy, lease, home, key>>

\* Whoever listens on the port of the lease gets the request: nobody may, and a
\* router that drains refuses.
Forward(r) ==
  LET there == {g \in up \ refusing : port[g] = lease[r]} IN
    /\ IF there = {} THEN Go(r, "answered") /\ UNCHANGED at
       ELSE \E g \in there : at' = [at EXCEPT ![r] = g] /\ Go(r, "forwarded")
    /\ UNCHANGED <<routers, proxy, lease, home, key>>

\* The body is there: a call of a session is admitted first, other requests of
\* it and those of other principals are not looked at.
Read(r) ==
  /\ pc[r] = "reading"
  /\ \/ Forward(r) /\ UNCHANGED <<sessions, asked>>
     \/ /\ key[r] \in Session
        /\ \E i \in Size, o \in Size \cup {0} :
             /\ Admissible(key[r], i, o)
             /\ Charge(key[r], i, o)
             /\ asked' = [asked EXCEPT ![r] = Call(i, o)]
        /\ Forward(r)

\* A session does not admit the call, or the body is no good.
ReadRefused(r) ==
  /\ pc[r] = "reading"
  /\ \/ UNCHANGED sessions
     \/ /\ key[r] \in Session
        /\ \E i \in Size, o \in Size \cup {0} : ~ Admissible(key[r], i, o)
        /\ Refuse(key[r])
  /\ Answers(r)

\* The router answers; or it does not, or not in time.
Answered(r) ==
  /\ pc[r] = "forwarded"
  /\ \/ Go(r, "streaming") /\ UNCHANGED at
     \/ Go(r, "answered") /\ at' = [at EXCEPT ![r] = None]
  /\ UNCHANGED <<sessions, routers, proxy, lease, home, key, asked>>

Opened == {"arrived", "reading", "forwarded", "streaming", "answered"}

\* The response closes, whether it ended or the client left: who waits for the
\* router to be idle goes on when this was the last lease.
Ends(r) ==
  LET p == lease[r] IN
    /\ pc[r] \in Opened
    /\ leases' = [leases EXCEPT ![p] = @ - 1]
    /\ inflight' = inflight - 1
    /\ stage' = IF stage = "waiting" /\ port[previous] = p /\ leases'[p] = 0 THEN "drain"
                ELSE stage
    /\ Go(r, "closed")
    /\ lease' = [lease EXCEPT ![r] = None]
    /\ at' = [at EXCEPT ![r] = None]
    /\ home' = [home EXCEPT ![r] = None]
    /\ key' = [key EXCEPT ![r] = IF asked[r] = Nothing THEN None ELSE @]
    /\ UNCHANGED <<sessions, active, port, up, refusing, previous, overdue, leaving, listener,
                   asked>>

-----------------------------------------------------------------------------
(* The replacement of a router                                              *)

\* Faulty: the entry of a port is made anew.
SwapAnew(g, p) ==
  /\ active' = g
  /\ leases' = [leases EXCEPT ![p] = 0]

\* swapTarget: a port that was used before keeps its entry.
Swap(g, p) ==
  /\ active' = g
  /\ UNCHANGED leases

\* A candidate listens on a port of its own and becomes the target.
Replace ==
  /\ stage = "none" /\ leaving = {}
  /\ \E g \in Router, p \in Port :
       /\ port[g] = None /\ \A h \in Router : h < g => port[h] # None
       /\ \A h \in up : port[h] # p
       /\ port' = [port EXCEPT ![g] = p]
       /\ up' = up \cup {g}
       /\ Swap(g, p)
  /\ previous' = active
  /\ stage' = "swapped"
  /\ UNCHANGED <<sessions, refusing, overdue, proxy, requests>>

\* Faulty: it asks for those that were forwarded.
WaitForwarded ==
  /\ stage = "swapped"
  /\ stage' = IF \A r \in Request : at[r] # previous THEN "drain" ELSE "waiting"
  /\ UNCHANGED <<sessions, active, port, up, refusing, leases, previous, overdue, proxy,
                 requests>>

\* waitForTargetIdle
WaitIdle ==
  /\ stage = "swapped"
  /\ stage' = IF leases[port[previous]] = 0 THEN "drain" ELSE "waiting"
  /\ UNCHANGED <<sessions, active, port, up, refusing, leases, previous, overdue, proxy,
                 requests>>

\* Its timer
GraceOver ==
  /\ stage = "waiting"
  /\ stage' = "drain"
  /\ overdue' = overdue \cup {previous}
  /\ UNCHANGED <<sessions, active, port, up, refusing, leases, previous, proxy, requests>>

\* gateway.drain: the router refuses what comes now, and what it has may end.
DrainRouter ==
  /\ stage = "drain"
  /\ stage' = "closing"
  /\ refusing' = refusing \cup {previous}
  /\ UNCHANGED <<sessions, active, port, up, leases, previous, overdue, proxy, requests>>

\* It closes when nothing is left or its time is over, which cuts off the rest.
CloseRouter ==
  /\ stage = "closing"
  /\ previous \in overdue \/ \A r \in Request : at[r] # previous
  /\ up' = up \ {previous}
  /\ refusing' = refusing \ {previous}
  /\ pc' = [r \in Request |-> IF at[r] = previous THEN "answered" ELSE pc[r]]
  /\ at' = [r \in Request |-> IF at[r] = previous THEN None ELSE at[r]]
  /\ stage' = "none"
  /\ previous' = None
  /\ UNCHANGED <<sessions, active, port, leases, overdue, proxy, lease, home, key,
                 asked>>

\* The handler of the mutation is interrupted: the old router stays.
Interrupted ==
  /\ "disconnect" \in Fault
  /\ stage # "none"
  /\ stage' = "none"
  /\ previous' = None
  /\ UNCHANGED <<sessions, active, port, up, refusing, leases, overdue, proxy, requests>>

-----------------------------------------------------------------------------
(* The end of the proxy                                                     *)

Retire ==
  /\ stage = "none" /\ "retiring" \notin leaving
  /\ leaving' = leaving \cup {"retiring"}
  /\ UNCHANGED <<sessions, routers, listener, inflight, requests>>

Drain ==
  /\ stage = "none" /\ "draining" \notin leaving
  /\ leaving' = leaving \cup {"draining"}
  /\ UNCHANGED <<sessions, routers, listener, inflight, requests>>

\* Faulty: requests in flight may take their time.
StopWhenIdle ==
  /\ leaving # {} /\ listener = "open" /\ inflight = 0
  /\ listener' = "closing"
  /\ UNCHANGED <<sessions, routers, leaving, inflight, requests>>

\* waitForInflight is over, with nothing in flight or with its time: only now is
\* the listener closed, and what is left is cut off.
StopListening ==
  /\ leaving # {} /\ listener = "open"
  /\ listener' = "closing"
  /\ UNCHANGED <<sessions, routers, leaving, inflight, requests>>

\* Then the daemon gives up the router and the sessions.
Stopped ==
  /\ listener = "closing" /\ inflight = 0
  /\ listener' = "closed"
  /\ up' = up \ {active}
  /\ CloseAll
  /\ UNCHANGED <<active, port, refusing, leases, stage, previous, overdue, leaving, inflight,
                 requests>>

Control(s) ==
  /\ listener = "open"
  /\ Open(s) \/ Close(s)
  /\ UNCHANGED <<routers, proxy, requests>>

Clock(s) == Expire(s) /\ UNCHANGED <<routers, proxy, requests>>

Serves(r) ==
  \/ Arrive(r) \/ \E k \in Session \cup {Owner} : Authorized(r, k)
  \/ Rejected(r) \/ Read(r) \/ ReadRefused(r) \/ Answered(r) \/ Ends(r)

Next ==
  \/ \E r \in Request : Serves(r)
  \/ \E s \in Session : Control(s) \/ Clock(s)
  \/ Replace \/ WaitIdle \/ GraceOver \/ DrainRouter \/ CloseRouter \/ Interrupted
  \/ Retire \/ Drain \/ StopListening \/ Stopped

Spec == Init /\ [][Next]_vars

\* The handler of a replacement goes on, timers expire, and the responses of
\* connections that were cut off close.  Clients need not end their requests.
CutOff == listener = "closing" /\ \E r \in Request : Ends(r)
Fairness ==
  /\ WF_vars(WaitIdle) /\ WF_vars(GraceOver) /\ WF_vars(DrainRouter) /\ WF_vars(CloseRouter)
  /\ WF_vars(StopListening) /\ WF_vars(CutOff) /\ WF_vars(Stopped)

FairSpec == Spec /\ Fairness

-----------------------------------------------------------------------------
(* Properties                                                               *)

Holders(p) == {r \in Request : lease[r] = p}

\* A lease is a request that arrived and did not close, whatever was replaced or
\* refused in between, and a port that is used again takes its leases over.
LeasesCount ==
  /\ \A p \in Port : leases[p] = Cardinality(Holders(p))
  /\ inflight = Cardinality({r \in Request : pc[r] \in Opened})

\* A request is answered by the router that was active when it arrived, which
\* runs until then unless its requests did not end in time.
Attached ==
  \A r \in Request :
    /\ at[r] # None => at[r] = home[r] \/ home[r] \in overdue
    /\ pc[r] \in {"arrived", "reading", "forwarded", "streaming"} =>
         home[r] \in (up \ refusing) \cup overdue

\* Every call of a session that a router was asked to do was admitted and is
\* counted, however many are under way at once, and the sums are within its limits.
Accounted ==
  \A s \in Session :
    LET mine == {r \in Request : key[r] = s}
        CallsOf == [r \in Request |-> asked[r].calls]
        InputOf == [r \in Request |-> asked[r].input]
        OutputOf == [r \in Request |-> asked[r].output]
    IN /\ calls[s] = SumFunctionOnSet(CallsOf, mine) /\ calls[s] <= Limit[s].calls
       /\ input[s] = SumFunctionOnSet(InputOf, mine) /\ input[s] <= Limit[s].input
       /\ output[s] = SumFunctionOnSet(OutputOf, mine) /\ output[s] <= Limit[s].output

\* A session that is closed or past its time admits nothing, although the request
\* was authorized before.
AdmittedInTime ==
  [][\A s \in Session : calls'[s] > calls[s] => state[s] = "open" /\ ~ expired[s]]_vars

\* A replacement and a retirement come to an end, whatever clients do.
EndsInTime ==
  /\ stage # "none" ~> stage = "none"
  /\ leaving # {} ~> listener = "closed"

\* New connections reach the worker that replaced a retiring one.
NewElsewhere ==
  [][\A r \in Request : pc[r] = "new" /\ pc'[r] # "new" => "retiring" \notin leaving]_vars
=============================================================================
