------------------------------ MODULE OneDaemon ------------------------------
(***************************************************************************)
(* What the host promises to clients: whichever worker processes come and   *)
(* go, mutations are served by one daemon.  It has the document in hand     *)
(* while it serves, each mutation builds on the last, and a successor takes *)
(* over only after it was let go of, with everything it had written.        *)
(*                                                                         *)
(* HostRoll implements this specification; the refinement mapping is there. *)
(***************************************************************************)
EXTENDS Naturals

CONSTANTS
  Server,                   \* who may serve
  Nobody

VARIABLES
  document,                 \* the number of mutations that are on disk
  server,                   \* who serves mutations
  inHand                    \* what it works on; 0 when nobody does

vars == <<document, server, inHand>>

Init == document = 0 /\ server = Nobody /\ inHand = 0

TakeOver(s) ==
  /\ server = Nobody
  /\ server' = s
  /\ inHand' = document
  /\ UNCHANGED document

\* A mutation writes what the server made of the document it has.
Mutate ==
  /\ server # Nobody
  /\ inHand' = inHand + 1
  /\ document' = inHand'
  /\ UNCHANGED server

\* It pauses, closes or dies.
LetGo ==
  /\ server # Nobody
  /\ server' = Nobody
  /\ inHand' = 0
  /\ UNCHANGED document

Next == (\E s \in Server : TakeOver(s)) \/ Mutate \/ LetGo

Spec == Init /\ [][Next]_vars
=============================================================================
