---------------------------- MODULE LifecycleLock ----------------------------
(***************************************************************************)
(* The lifecycle lock (runtime/src/authority-service.ts): a lock file       *)
(* opened with "wx" that names its owner, and a second file, the reaper,    *)
(* opened the same way by whoever takes the lock of a dead owner over.      *)
(*                                                                         *)
(* The contenders are processes that share nothing but the two files.  A    *)
(* change of a file is a step, and so is the look that decides on it.       *)
(*                                                                         *)
(* Abstractions.  A file is known by the process that created it: a process *)
(* creates one at a time, so this is what its nonce tells.  An age is one   *)
(* bit, whether LOCK_STABILIZE_MS have passed.  A process that crashes does *)
(* not come back; its successor is another process.                         *)
(***************************************************************************)
EXTENDS Naturals

CONSTANTS
  Process,          \* processes that want the lock
  Nobody,           \* the owner of no file
  Fault             \* what may go wrong, a subset of Faults

\* crash: a process dies.  slow: a process is overtaken between a look at a
\* file and what it does about it, or for LOCK_STABILIZE_MS between the
\* creation of a file and its first write.
Faults == {"crash", "slow"}

ASSUME NobodyAssumption == Nobody \notin Process
ASSUME FaultAssumption == Fault \subseteq Faults

VARIABLES
  lock,             \* the lock file
  reaper,           \* the reaper file
  pc,               \* where each process is; "dead" when it crashed
  mine              \* processes that created a lock file and have not released it

vars == <<lock, reaper, pc, mine>>

Absent == [owner |-> Nobody, written |-> FALSE, old |-> FALSE]
Fresh(p) == [owner |-> p, written |-> FALSE, old |-> FALSE]
File == [owner : Process, written : BOOLEAN, old : BOOLEAN] \cup {Absent}

\* Steps of tryReapAndAcquire, in which the process has the reaper file.
Reaping == {"sign", "judge", "clear", "reopen", "rewrite", "unreap"}

\* "wait": the turn got nothing; another one follows, or the time is up.
Steps == {"idle", "look", "wait", "unwedge", "stat", "open", "write", "inspect", "reap",
          "held", "remove", "dead"} \cup Reaping

TypeOK ==
  /\ lock \in File
  /\ reaper \in File
  /\ pc \in [Process -> Steps]
  /\ mine \in SUBSET Process

Init ==
  /\ lock = Absent
  /\ reaper = Absent
  /\ pc = [p \in Process |-> "idle"]
  /\ mine = {}

Alive(p) == p \in Process /\ pc[p] # "dead"
Go(p, step) == pc' = [pc EXCEPT ![p] = step]

\* Nobody has looked and not yet acted, unless processes may be that slow.
Prompt(step) == "slow" \in Fault \/ \A q \in Process : pc[q] # step

\* Faulty: does not give the owner the time to write its name.
StaleUnwritten(file) ==
  /\ file # Absent
  /\ IF file.written THEN ~ Alive(file.owner) /\ file.old ELSE TRUE

\* Faulty: forgets to ask whether the owner lives.
StaleAged(file) == file # Absent /\ file.old

\* The owner is dead and the file is old; without a name, the file is old.
Stale(file) ==
  /\ file # Absent
  /\ file.old
  /\ file.written => ~ Alive(file.owner)

-----------------------------------------------------------------------------
(* acquireLifecycleLock: one turn of its loop.                              *)

Contend(p) ==
  /\ pc[p] = "idle"
  /\ Go(p, "look")
  /\ UNCHANGED <<lock, reaper, mine>>

\* Timed out, or onWait found another authority.
GiveUp(p) ==
  /\ pc[p] = "wait"
  /\ Go(p, "idle")
  /\ UNCHANGED <<lock, reaper, mine>>

\* Faulty: leaves the file of a dead reaper alone.
LookAway(p) ==
  /\ pc[p] \in {"look", "wait"}
  /\ Go(p, "stat")
  /\ UNCHANGED <<lock, reaper, mine>>

LookAtReaper(p) ==
  /\ pc[p] \in {"look", "wait"}
  /\ Go(p, IF Stale(reaper) THEN "unwedge" ELSE "stat")
  /\ UNCHANGED <<lock, reaper, mine>>

RemoveStaleReaper(p) ==
  /\ pc[p] = "unwedge"
  /\ reaper' = Absent
  /\ Go(p, "stat")
  /\ UNCHANGED <<lock, mine>>

-----------------------------------------------------------------------------
(* tryAcquire                                                               *)

StatReaper(p) ==
  /\ pc[p] = "stat"
  /\ Go(p, IF reaper = Absent THEN "open" ELSE "inspect")
  /\ UNCHANGED <<lock, reaper, mine>>

OpenLock(p) ==
  /\ pc[p] = "open"
  /\ IF lock = Absent
     THEN lock' = Fresh(p) /\ mine' = mine \cup {p} /\ Go(p, "write")
     ELSE Go(p, "inspect") /\ UNCHANGED <<lock, mine>>
  /\ UNCHANGED reaper

\* A file that was unlinked meanwhile takes the write all the same.
Signed(file, p) == IF file.owner = p THEN [file EXCEPT !.written = TRUE] ELSE file

WriteLock(p) ==
  /\ pc[p] = "write"
  /\ lock' = Signed(lock, p)
  /\ Go(p, "held")
  /\ UNCHANGED <<reaper, mine>>

InspectLock(p) ==
  /\ pc[p] = "inspect"
  /\ Go(p, IF Stale(lock) THEN "reap" ELSE "wait")
  /\ UNCHANGED <<lock, reaper, mine>>

-----------------------------------------------------------------------------
(* tryReapAndAcquire                                                        *)

OpenReaper(p) ==
  /\ pc[p] = "reap"
  /\ IF reaper = Absent
     THEN Prompt("unwedge") /\ reaper' = Fresh(p) /\ Go(p, "sign")
     ELSE Go(p, "wait") /\ UNCHANGED reaper
  /\ UNCHANGED <<lock, mine>>

WriteReaper(p) ==
  /\ pc[p] = "sign"
  /\ reaper' = Signed(reaper, p)
  /\ Go(p, "judge")
  /\ UNCHANGED <<lock, mine>>

\* A lock file that is gone counts as stale here.
JudgeLock(p) ==
  /\ pc[p] = "judge"
  /\ Go(p, IF lock = Absent \/ Stale(lock) THEN "clear" ELSE "unreap")
  /\ UNCHANGED <<lock, reaper, mine>>

ClearLock(p) ==
  /\ pc[p] = "clear"
  /\ Prompt("reap")
  /\ lock' = Absent
  /\ Go(p, "reopen")
  /\ UNCHANGED <<reaper, mine>>

ReopenLock(p) ==
  /\ pc[p] = "reopen"
  /\ IF lock = Absent
     THEN lock' = Fresh(p) /\ mine' = mine \cup {p} /\ Go(p, "rewrite")
     ELSE Go(p, "unreap") /\ UNCHANGED <<lock, mine>>
  /\ UNCHANGED reaper

RewriteLock(p) ==
  /\ pc[p] = "rewrite"
  /\ lock' = Signed(lock, p)
  /\ Go(p, "unreap")
  /\ UNCHANGED <<reaper, mine>>

\* The reaper file goes if it is still the one this process signed.
RemoveReaper(p) ==
  /\ pc[p] = "unreap"
  /\ reaper' = IF reaper.owner = p /\ reaper.written THEN Absent ELSE reaper
  /\ Go(p, IF p \in mine THEN "held" ELSE "wait")
  /\ UNCHANGED <<lock, mine>>

-----------------------------------------------------------------------------
(* release, and what happens to processes and files                         *)

Release(p) ==
  /\ pc[p] = "held"
  /\ Go(p, IF lock.owner = p /\ lock.written THEN "remove" ELSE "idle")
  /\ mine' = mine \ {p}
  /\ UNCHANGED <<lock, reaper>>

RemoveLock(p) ==
  /\ pc[p] = "remove"
  /\ lock' = Absent
  /\ Go(p, "idle")
  /\ UNCHANGED <<reaper, mine>>

Crash(p) ==
  /\ "crash" \in Fault
  /\ Alive(p)
  /\ Go(p, "dead")
  /\ mine' = mine \ {p}
  /\ UNCHANGED <<lock, reaper>>

\* LOCK_STABILIZE_MS pass.
Ages(file) ==
  /\ file # Absent
  /\ "slow" \in Fault \/ file.written \/ ~ Alive(file.owner)

AgeLock ==
  /\ Ages(lock)
  /\ lock' = [lock EXCEPT !.old = TRUE]
  /\ UNCHANGED <<reaper, pc, mine>>

AgeReaper ==
  /\ Ages(reaper)
  /\ reaper' = [reaper EXCEPT !.old = TRUE]
  /\ UNCHANGED <<lock, pc, mine>>

\* What a process does once it has called acquireLifecycleLock.
Proceed(p) ==
  \/ LookAtReaper(p) \/ RemoveStaleReaper(p)
  \/ StatReaper(p) \/ OpenLock(p) \/ WriteLock(p) \/ InspectLock(p)
  \/ OpenReaper(p) \/ WriteReaper(p) \/ JudgeLock(p) \/ ClearLock(p)
  \/ ReopenLock(p) \/ RewriteLock(p) \/ RemoveReaper(p) \/ RemoveLock(p)

Next ==
  \/ \E p \in Process : \/ Contend(p) \/ GiveUp(p) \/ Proceed(p)
                        \/ Release(p) \/ Crash(p)
  \/ AgeLock \/ AgeReaper

Spec == Init /\ [][Next]_vars

\* Processes that live go on, and time passes.  The two steps that wait for
\* others to be prompt are not put off for ever.
FairSpec ==
  /\ Spec
  /\ \A p \in Process : /\ WF_vars(Proceed(p))
                        /\ SF_vars(OpenReaper(p) \/ ClearLock(p))
  /\ WF_vars(AgeLock) /\ WF_vars(AgeReaper)

-----------------------------------------------------------------------------
(* Properties                                                               *)

Holds(p) == pc[p] \in {"held", "remove"}

\* At most one process has the lock, whoever crashed before and wherever it
\* was: a lock is taken over from the dead only, and by one process.
Exclusive == \A p, q \in Process : Holds(p) /\ Holds(q) => p = q

\* The file of a process that lives is removed by this process alone: neither
\* a reaper nor an owner that was replaced deletes the lock of a successor.
LiveLockKept ==
  [][\A p \in Process :
        lock.owner = p /\ Alive(p) => lock'.owner = p \/ pc[p] = "remove"]_vars

\* A crash never wedges the lock: as long as a process tries, some process gets
\* it, whatever files the dead left behind.
NeverWedged ==
  (\E p \in Process : pc[p] \notin {"idle", "dead"})
    ~> \/ \E p \in Process : Holds(p)
       \/ \A p \in Process : pc[p] \in {"idle", "dead"}
=============================================================================
