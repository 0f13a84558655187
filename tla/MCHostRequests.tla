--------------------------- MODULE MCHostRequests ---------------------------
(* Small instances of HostRequests for TLC.                                 *)
EXTENDS HostRequests, TLC

CONSTANTS w1, w2, c1, c2, c3, k1, k2, f1, f2

Request(k, f) == [key |-> k, print |-> f]

\* Two attempts of one call, and a third call: one with another key, one that
\* uses the key again with other parameters, or a third attempt.
MCAsks ==
  {[c \in Call |-> IF c = c3 THEN r ELSE Request(k1, f1)] :
     r \in {Request(k2, f1), Request(k1, f2), Request(k1, f1)}}

\* The workers are alike, and so are the first two calls.
MCSymmetry == Permutations({w1, w2}) \cup Permutations({c1, c2})
=============================================================================
