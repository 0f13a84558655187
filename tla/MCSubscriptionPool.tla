------------------------- MODULE MCSubscriptionPool -------------------------
(* Small instances of SubscriptionPool for TLC.                             *)
EXTENDS SubscriptionPool, TLC

CONSTANTS m1, m2

\* One account whose credential is replaced again and again, and another.
MCReplaced == [m \in Member |-> IF m = m1 THEN MaxPrint ELSE 0]

\* Requests are alike.
MCSymmetry == Permutations(Request)
=============================================================================
