----------------------------- MODULE AudioPlayers -----------------------------
(***************************************************************************)
(* What a host may believe of the sequence players: each one is idle,      *)
(* plays a sequence, or fades it out.  Notes, channels and volumes are     *)
(* those of SequencePlayer, which implements this module.                  *)
(***************************************************************************)
CONSTANTS
  Players,        \* OOT_AUDIO_PLAYER_MAIN .. _SUB.
  Sequences,      \* Sequences of the ROM.
  Sequence0       \* Sequence 0, which plays the sound effects.

VARIABLE player   \* Per player, its status and its last sequence.

Idle == [status |-> "idle", sequence |-> Sequence0]

Init == player = [p \in Players |-> Idle]

\* player_load: whatever the player was doing, it starts anew.
Load(p, s) == player' = [player EXCEPT ![p] = [status |-> "playing", sequence |-> s]]

\* oot_audio_sequence_stop with a fade: nothing happens to an idle player.
FadeOut(p) ==
  player' = [player EXCEPT ![p].status = IF @ = "idle" THEN @ ELSE "fading"]

\* oot_audio_sequence_stop without a fade, the end of a fade, and the end of
\* the sequence.
Silence(p) == player' = [player EXCEPT ![p].status = "idle"]

Next == \E p \in Players : \/ \E s \in Sequences : Load(p, s)
                           \/ FadeOut(p) \/ Silence(p)

Spec == Init /\ [][Next]_player
===============================================================================
