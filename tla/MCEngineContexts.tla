-------------------------- MODULE MCEngineContexts ---------------------------
(***************************************************************************)
(* Small instances of EngineContexts for TLC.                              *)
(***************************************************************************)
EXTENDS EngineContexts
=============================================================================
