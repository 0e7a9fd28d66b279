---------------------------- MODULE MCWorldEvents -----------------------------
(***************************************************************************)
(* Small instances of WorldEvents for TLC.                                 *)
(***************************************************************************)
EXTENDS WorldEvents
=============================================================================
