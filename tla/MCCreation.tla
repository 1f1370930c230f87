---------------------------- MODULE MCCreation ----------------------------
(* Model checking of Creation: one drop is created and retried by two       *)
(* requests, and submitted up to twice.                                     *)
EXTENDS Creation, TLC
=============================================================================
