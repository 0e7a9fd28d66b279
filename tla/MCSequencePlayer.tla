---------------------------- MODULE MCSequencePlayer ---------------------------
(***************************************************************************)
(* A small instance of SequencePlayer for TLC.                             *)
(***************************************************************************)
EXTENDS SequencePlayer
===============================================================================
