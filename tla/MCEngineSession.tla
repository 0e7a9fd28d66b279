--------------------------- MODULE MCEngineSession ---------------------------
(***************************************************************************)
(* Small instances of EngineSession for TLC.                               *)
(***************************************************************************)
EXTENDS EngineSession, TLC

\* Button bits are interchangeable, and so are scenes.
Interchangeable == Permutations(Buttons) \cup Permutations(Scenes)
=============================================================================
