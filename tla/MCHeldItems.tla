---------------------------- MODULE MCHeldItems ----------------------------
(* Bounds for the model checker.                                           *)
EXTENDS HeldItems
=============================================================================
