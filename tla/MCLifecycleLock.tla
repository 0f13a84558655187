-------------------------- MODULE MCLifecycleLock ---------------------------
(* Small instances of LifecycleLock for TLC.                                *)
EXTENDS LifecycleLock
=============================================================================
