------------------------------ MODULE MCEnemyBgm ------------------------------
(***************************************************************************)
(* A small instance of EnemyBgm for TLC.                                   *)
(***************************************************************************)
EXTENDS EnemyBgm
===============================================================================
