------------------------ MODULE MCAccountTransaction ------------------------
(* Small instances of AccountTransaction for TLC.                           *)
EXTENDS AccountTransaction

CONSTANTS a1, a2, c1, d0, d1, s1, s2

MCNative == {a1, a2}
MCCliproxy == {c1}
MCDocument == {d0, d1}
MCSlot == {s1, s2}
=============================================================================
