-------------------------- MODULE MCDynamicCollision --------------------------
(***************************************************************************)
(* Small instances of DynamicCollision for TLC.                            *)
(***************************************************************************)
EXTENDS DynamicCollision, TLC

\* A pose is only compared with another one.
PoseSymmetry == Permutations(Poses)
=============================================================================
