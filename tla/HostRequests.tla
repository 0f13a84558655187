---------------------------- MODULE HostRequests ----------------------------
(***************************************************************************)
(* Mutations with an idempotency key.  A worker asks the host before it     *)
(* runs one (worker.ts executeIdempotent, over ipc-request-channel.ts), and *)
(* the host remembers which keys are running and what they answered, across *)
(* workers (host-idempotency.ts, control/src/idempotency-store.ts).         *)
(*                                                                         *)
(* A call is one attempt: a client that tries again makes another call with *)
(* the key of the first.  The operation id the host hands out is the call   *)
(* it was handed to, and the result of an operation is that call too.       *)
(*                                                                         *)
(* Messages of one worker to the host arrive in order, those of two workers *)
(* in any.  An answer to a request that nobody waits for any more is dropped *)
(* where it is sent or when the request times out.  The host is one process *)
(* and forgets everything when it stops.                                    *)
(***************************************************************************)
EXTENDS Integers, Sequences, FiniteSets

CONSTANTS
  Call, Key, Worker,
  Asks,             \* what the calls may ask for: their keys and fingerprints
  None,             \* no call
  MaxEntries,       \* capacity of the store
  Fault             \* what may go wrong, a subset of Faults

\* slow: the answer to a report, or to a call that waits for another, comes
\* after the worker gave up on it.  slow begin: so does the answer that starts
\* an operation.  early exit: the host hears that a worker died before it has
\* read all its messages.
Faults == {"slow", "slow begin", "early exit"}

\* What the host says; instead of "completed", the operation of the result.
Says == {"started", "refused", "ack"}

Prints == UNION {{asks[c].print : c \in Call} : asks \in Asks}

ASSUME NoneAssumption == None \notin Call \cup Worker \cup Says
ASSUME SaysAssumption == Says \cap Call = {}
ASSUME AsksAssumption == Asks \subseteq [Call -> [key : Key, print : Prints]]
ASSUME FiniteAssumption == IsFiniteSet(Key) /\ IsFiniteSet(Call)
ASSUME EntriesAssumption == MaxEntries \in Nat \ {0}
ASSUME FaultAssumption == Fault \subseteq Faults

VARIABLES
  \* at the workers
  pc,               \* where each call is
  ask,              \* its key and fingerprint
  at,               \* the worker it was made to
  answer,           \* the operation whose result the caller got
  applied,          \* operations that took effect
  worker,           \* "up", "dead", or "failed": dead and the host knows it
  \* between them
  mail,             \* messages of each worker that the host has not read
  reply,            \* the host's answer to each call that its worker has not read
  \* at the host
  store,            \* the entry of each key
  ops,              \* operations that were started and not reported
  sequence,         \* how many operations were started
  number,           \* the number of each
  waits,            \* the operation whose promise a call waits for
  expired,          \* operations that were completed ttlMs ago
  gate              \* somebody has the transition gate

atWorkers == <<pc, ask, at, answer, applied, worker>>
atHost == <<store, ops, sequence, number, waits, expired>>
vars == <<atWorkers, mail, reply, atHost, gate>>

NoEntry == [op |-> None, done |-> FALSE]
Entry == [op : Call, done : BOOLEAN] \cup {NoEntry}
Message == [what : {"begin", "complete", "fail"}, call : Call]

Steps == {"new", "begin", "run", "report", "abort", "ok", "error", "lost"}

TypeOK ==
  /\ pc \in [Call -> Steps]
  /\ ask \in Asks
  /\ at \in [Call -> Worker \cup {None}]
  /\ answer \in [Call -> Call \cup {None}]
  /\ applied \in SUBSET Call
  /\ worker \in [Worker -> {"up", "dead", "failed"}]
  /\ mail \in [Worker -> Seq(Message)]
  /\ reply \in [Call -> Says \cup Call \cup {None}]
  /\ store \in [Key -> Entry]
  /\ ops \in SUBSET Call
  /\ sequence \in Nat
  /\ number \in [Call -> Nat]
  /\ waits \in [Call -> Call \cup {None}]
  /\ expired \in SUBSET Call
  /\ gate \in BOOLEAN

Init ==
  /\ pc = [c \in Call |-> "new"]
  /\ ask \in Asks
  /\ at = [c \in Call |-> None]
  /\ answer = [c \in Call |-> None]
  /\ applied = {}
  /\ worker = [w \in Worker |-> "up"]
  /\ mail = [w \in Worker |-> <<>>]
  /\ reply = [c \in Call |-> None]
  /\ store = [k \in Key |-> NoEntry]
  /\ ops = {}
  /\ sequence = 0
  /\ number = [c \in Call |-> 0]
  /\ waits = [c \in Call |-> None]
  /\ expired = {}
  /\ gate = FALSE

Go(c, step) == pc' = [pc EXCEPT ![c] = step]

\* A call sends the host a request; nothing that was answered before counts.
Send(c, what, w) ==
  /\ mail' = [mail EXCEPT ![w] = Append(@, [what |-> what, call |-> c])]
  /\ reply' = [reply EXCEPT ![c] = None]

Hears(c) == reply' = [reply EXCEPT ![c] = None]

-----------------------------------------------------------------------------
(* executeIdempotent                                                        *)

Begin(c) ==
  /\ pc[c] = "new"
  /\ \E w \in Worker : /\ worker[w] = "up"
                       /\ at' = [at EXCEPT ![c] = w]
                       /\ Send(c, "begin", w)
  /\ Go(c, "begin")
  /\ UNCHANGED <<ask, answer, applied, worker, atHost, gate>>

\* The host's answer to begin.
Began(c) ==
  /\ pc[c] = "begin"
  /\ reply[c] # None
  /\ Hears(c)
  /\ IF reply[c] \in Call
     THEN Go(c, "ok") /\ answer' = [answer EXCEPT ![c] = reply[c]]
     ELSE /\ Go(c, IF reply[c] = "started" THEN "run" ELSE "error")
          /\ UNCHANGED answer
  /\ UNCHANGED <<ask, at, applied, worker, mail, atHost, gate>>

Operate(c) ==
  /\ pc[c] = "run"
  /\ applied' = applied \cup {c}
  /\ Send(c, "complete", at[c])
  /\ Go(c, "report")
  /\ UNCHANGED <<ask, at, answer, worker, atHost, gate>>

OperationFails(c) ==
  /\ pc[c] = "run"
  /\ Send(c, "fail", at[c])
  /\ Go(c, "abort")
  /\ UNCHANGED <<ask, at, answer, applied, worker, atHost, gate>>

Completed(c) ==
  /\ pc[c] = "report"
  /\ reply[c] = "ack"
  /\ Hears(c)
  /\ answer' = [answer EXCEPT ![c] = c]
  /\ Go(c, "ok")
  /\ UNCHANGED <<ask, at, applied, worker, mail, atHost, gate>>

\* The host does not know the operation, or its answer does not come in time.
NotCompleted(c) ==
  /\ pc[c] = "report"
  /\ reply[c] = "refused" \/ "slow" \in Fault
  /\ Send(c, "fail", at[c])
  /\ Go(c, "abort")
  /\ UNCHANGED <<ask, at, answer, applied, worker, atHost, gate>>

\* Whatever comes of it, the caller hears of an error.
Failed(c) ==
  /\ pc[c] = "abort"
  /\ reply[c] # None \/ "slow" \in Fault
  /\ Hears(c)
  /\ Go(c, "error")
  /\ UNCHANGED <<ask, at, answer, applied, worker, mail, atHost, gate>>

BeginTimesOut(c) ==
  /\ pc[c] = "begin"
  /\ \/ "slow" \in Fault /\ waits[c] # None
     \/ "slow begin" \in Fault
  /\ Hears(c)
  /\ Go(c, "error")
  /\ UNCHANGED <<ask, at, answer, applied, worker, mail, atHost, gate>>

-----------------------------------------------------------------------------
(* HostIdempotencyCoordinator and its store                                 *)

KeyOf(c) == ask[c].key

\* Faulty: overlooks the operations that are running.
FoundDone(k) == IF store[k].op \in expired \/ ~ store[k].done THEN NoEntry ELSE store[k]

\* The entry of a key; one that has expired is none.
Found(k) == IF store[k].op \in expired THEN NoEntry ELSE store[k]

\* Those who wait for an answer to such a request.
Awaits(c, what) ==
  pc[c] = CASE what = "begin" -> "begin" [] what = "complete" -> "report"
            [] what = "fail" -> "abort"

Reply(c, what, says) ==
  reply' = IF Awaits(c, what) THEN [reply EXCEPT ![c] = says] ELSE reply

\* Faulty: takes no notice of the parameters.
JoinAnything(c) ==
  LET e == Found(KeyOf(c)) IN
    IF e.done THEN Reply(c, "begin", e.op) /\ UNCHANGED waits
    ELSE waits' = [waits EXCEPT ![c] = e.op] /\ UNCHANGED reply

\* The key is known: the answer of its operation, when there is one.
Join(c) ==
  LET e == Found(KeyOf(c)) IN
    IF ask[e.op].print # ask[c].print
    THEN Reply(c, "begin", "refused") /\ UNCHANGED waits
    ELSE IF e.done THEN Reply(c, "begin", e.op) /\ UNCHANGED waits
    ELSE waits' = [waits EXCEPT ![c] = e.op] /\ UNCHANGED reply

StartOperation(c) ==
  /\ store' = [store EXCEPT ![KeyOf(c)] = [op |-> c, done |-> FALSE]]
  /\ ops' = ops \cup {c}
  /\ sequence' = sequence + 1
  /\ number' = [number EXCEPT ![c] = sequence']
  /\ Reply(c, "begin", "started")
  /\ UNCHANGED waits

\* The promises of some operations are settled: whoever reports one hears an
\* ack, and those who wait for one what came of it.
Settle(done, what, says) ==
  /\ ops' = ops \ done
  /\ reply' = [c \in Call |->
                 IF c \in done /\ Awaits(c, what) THEN "ack"
                 ELSE IF waits[c] \in done /\ Awaits(c, "begin") THEN says
                 ELSE reply[c]]
  /\ waits' = [c \in Call |-> IF waits[c] \in done THEN None ELSE waits[c]]

\* An operation the host does not know.
Refuse(op, what) ==
  /\ Reply(op, what, "refused")
  /\ UNCHANGED <<store, ops, waits>>

\* Faulty: an emptied entry has no flag.
WithoutFlag(gone) ==
  [k \in Key |-> IF store[k].op \in gone THEN [op |-> None] ELSE store[k]]

\* The oldest entries go, while there are more than MaxEntries.
Evict(st) ==
  [k \in Key |->
     IF /\ st[k].op # None
        /\ Cardinality({j \in Key : /\ st[j].op # None
                                    /\ number[st[j].op] > number[st[k].op]}) >= MaxEntries
     THEN NoEntry ELSE st[k]]

CompleteOperation(op) ==
  IF op \in ops
  THEN /\ Settle({op}, "complete", op)
       /\ store' = IF store[KeyOf(op)].op = op
                   THEN Evict([store EXCEPT ![KeyOf(op)].done = TRUE])
                   ELSE store
  ELSE Refuse(op, "complete")

\* The store without the entries of some operations.
Without(gone) == [k \in Key |-> IF store[k].op \in gone THEN NoEntry ELSE store[k]]

\* Faulty: an operation the host does not know loses its entry all the same.
FailAnyway(op) ==
  /\ Settle({op}, "fail", "refused")
  /\ store' = Without({op})

FailOperation(op) ==
  IF op \in ops
  THEN /\ Settle({op}, "fail", "refused")
       /\ store' = Without({op})
  ELSE Refuse(op, "fail")

-----------------------------------------------------------------------------
(* The host reads what a worker sent: handleMessage                         *)

Read(w, what) ==
  /\ mail[w] # <<>>
  /\ Head(mail[w]).what = what
  /\ mail' = [mail EXCEPT ![w] = Tail(@)]

HostBegin(w) ==
  /\ Read(w, "begin")
  /\ LET c == Head(mail[w]).call
     IN IF Found(KeyOf(c)) = NoEntry
        THEN StartOperation(c)
        ELSE Join(c) /\ UNCHANGED <<store, ops, sequence, number>>
  /\ UNCHANGED <<atWorkers, expired, gate>>

HostComplete(w) ==
  /\ Read(w, "complete")
  /\ CompleteOperation(Head(mail[w]).call)
  /\ UNCHANGED <<atWorkers, sequence, number, expired, gate>>

HostFail(w) ==
  /\ Read(w, "fail")
  /\ FailOperation(Head(mail[w]).call)
  /\ UNCHANGED <<atWorkers, sequence, number, expired, gate>>

\* What a worker has started and not reported.
Owned(w) == {c \in ops : at[c] = w}

\* Faulty: forgets the operations of the dead worker, but not their entries.
ForgetOwner(w) ==
  /\ worker[w] = "dead"
  /\ ~ gate
  /\ mail[w] = <<>>
  /\ worker' = [worker EXCEPT ![w] = "failed"]
  /\ ops' = ops \ Owned(w)
  /\ UNCHANGED <<pc, ask, at, answer, applied, mail, reply, store, sequence, number,
                 waits, expired, gate>>

\* recoverActiveWorker, behind the transition gate: what the worker had started
\* has failed.
FailOwner(w) ==
  /\ worker[w] = "dead"
  /\ ~ gate
  /\ "early exit" \in Fault \/ mail[w] = <<>>
  /\ worker' = [worker EXCEPT ![w] = "failed"]
  /\ Settle(Owned(w), "fail", "refused")
  /\ store' = Without(Owned(w))
  /\ UNCHANGED <<pc, ask, at, answer, applied, mail, sequence, number, expired, gate>>

-----------------------------------------------------------------------------
(* The rest of the world                                                    *)

\* A worker crashes, or is killed when its grace is over.
Die(w) ==
  /\ worker[w] = "up"
  /\ worker' = [worker EXCEPT ![w] = "dead"]
  /\ pc' = [c \in Call |->
              IF pc[c] \notin {"new", "ok", "error"} /\ at[c] = w
              THEN "lost" ELSE pc[c]]
  /\ reply' = [c \in Call |-> IF at[c] = w THEN None ELSE reply[c]]
  /\ UNCHANGED <<ask, at, answer, applied, mail, atHost, gate>>

\* ttlMs pass since an operation was completed.
Expire ==
  /\ \E k \in Key : store[k].done /\ expired' = expired \cup {store[k].op}
  /\ UNCHANGED <<atWorkers, mail, reply, store, ops, sequence, number, waits, gate>>

\* A roll has the gate.  It matters only while an exit waits for it.
TakeGate ==
  /\ ~ gate
  /\ \E w \in Worker : worker[w] = "dead"
  /\ gate' = TRUE
  /\ UNCHANGED <<atWorkers, mail, reply, atHost>>

LeaveGate ==
  /\ gate
  /\ gate' = FALSE
  /\ UNCHANGED <<atWorkers, mail, reply, atHost>>

HostReads(w) == HostBegin(w) \/ HostComplete(w) \/ HostFail(w)

Proceed(c) ==
  \/ Began(c) \/ Operate(c) \/ OperationFails(c)
  \/ Completed(c) \/ NotCompleted(c) \/ Failed(c)

Next ==
  \/ \E c \in Call : Begin(c) \/ Proceed(c) \/ BeginTimesOut(c)
  \/ \E w \in Worker : HostReads(w) \/ FailOwner(w) \/ Die(w)
  \/ Expire \/ TakeGate \/ LeaveGate

Spec == Init /\ [][Next]_vars

-----------------------------------------------------------------------------
(* Properties                                                               *)

\* So many other keys came after this one that its entry may be gone.
Later(op) == {c \in Call : number[c] > number[op] /\ KeyOf(c) # KeyOf(op)}
PushedOut(op) == Cardinality(Later(op)) >= MaxEntries

\* One operation runs for a key, however often the call is repeated and on
\* whatever workers: the key is taken from begin to the report, or to the death
\* of the worker.
SingleRunner ==
  \A c, d \in Call :
    /\ c # d /\ pc[c] = "run" /\ pc[d] = "run"
    /\ KeyOf(c) = KeyOf(d)
    => PushedOut(c) \/ PushedOut(d)

\* A mutation somebody was told had succeeded is not run again for another call
\* with its key, until it expired or was pushed out: not even when its report
\* was late and a failure was reported after it, nor when its worker died.
DoneOnce ==
  [][\A c, d \in Call :
       c \in ops' \ ops /\ pc[d] = "ok" /\ KeyOf(d) = KeyOf(c)
         => answer[d] \in expired \/ PushedOut(answer[d])]_vars

\* What a caller is told of is an operation that took effect, under its own key
\* and with its own parameters.
AnswersTrue ==
  \A c \in Call :
    pc[c] = "ok" =>
      /\ answer[c] \in applied
      /\ KeyOf(answer[c]) = KeyOf(c)
      /\ ask[answer[c]].print = ask[c].print

\* A key that is taken is given back: the call that has it goes on, or its
\* report is on the way, or its worker is dead and the host will fail what it
\* owned.  Whoever waits for an operation waits for one of these.
KeysHeld ==
  /\ \A c \in ops :
       \/ worker[at[c]] = "dead"
       \/ pc[c] = "begin" /\ reply[c] = "started"
       \/ pc[c] = "run"
       \/ \E i \in DOMAIN mail[at[c]] :
            mail[at[c]][i].what # "begin" /\ mail[at[c]][i].call = c
  /\ \A c \in Call : waits[c] # None => waits[c] \in ops
=============================================================================
