----------------------------- MODULE MCHostActors -----------------------------
(***************************************************************************)
(* Small instances of HostActors for TLC.                                  *)
(***************************************************************************)
EXTENDS HostActors
=============================================================================
