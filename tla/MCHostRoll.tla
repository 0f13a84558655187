------------------------------ MODULE MCHostRoll ----------------------------
(* Small instances of HostRoll for TLC.                                     *)
EXTENDS HostRoll
=============================================================================
