------------------------------- MODULE EnemyBgm -------------------------------
(***************************************************************************)
(* The battle music: a driver that runs at the end of every tick of Link   *)
(* and plays a sequence on a player while an enemy is near.  It remembers  *)
(* in `active` that it has started the theme.  The players belong to the   *)
(* host as well, and the session of the library can be restarted, which    *)
(* resets the players and not the driver.                                  *)
(***************************************************************************)
CONSTANTS
  Players, Sequences, Sequence0,     \* As in AudioPlayers.
  Theme,          \* NA_BGM_ENEMY, which the host does not play itself.
  DefaultPlayer,  \* OOT_AUDIO_PLAYER_SUB.
  BgmPlayers,     \* Players that the host gives to the driver.
  HostPlayers     \* Players on which the host plays sequences.

ASSUME ThemeAssumption == {Theme, Sequence0} \subseteq Sequences /\ Theme # Sequence0
ASSUME PlayersAssumption ==
  /\ DefaultPlayer \in Players
  /\ BgmPlayers \subseteq Players /\ HostPlayers \subseteq Players

VARIABLES
  player,         \* What the sequence players do.
  enabled, bgmPlayer, fades, active,      \* s_enemyBgm; fades is fadeMs > 0.
  trusted         \* The driver has seen no enemy since the last interference.

vars == <<player, enabled, bgmPlayer, fades, active, trusted>>

Audio == INSTANCE AudioPlayers

Init ==
  /\ Audio!Init
  /\ enabled = FALSE /\ bgmPlayer = DefaultPlayer /\ fades = TRUE
  /\ active = FALSE /\ trusted = TRUE

(***************************************************************************)
(* The driver.                                                             *)
(***************************************************************************)
SilenceTheme == IF fades THEN Audio!FadeOut(bgmPlayer) ELSE Audio!Silence(bgmPlayer)
StopTheme == SilenceTheme /\ active' = FALSE

\* The sequence may be missing in the ROM.
StartTheme(found) ==
  /\ IF found THEN Audio!Load(bgmPlayer, Theme) ELSE UNCHANGED player
  /\ active' = found

Keep == UNCHANGED <<player, active>>

\* liboot_enemy_bgm_tick, which ends oot_link_tick; near says whether the
\* update of Link has signalled an enemy.  A mistake: a driver that is disabled
\* in a battle forgets to note that the theme is over.
Forgets(near, found) ==
  CASE ~enabled /\ active         -> SilenceTheme /\ UNCHANGED active
    [] enabled /\ near /\ ~active -> StartTheme(found)
    [] enabled /\ ~near /\ active -> StopTheme
    [] OTHER                      -> Keep
Drive(near, found) ==
  CASE ~enabled /\ active         -> StopTheme
    [] enabled /\ near /\ ~active -> StartTheme(found)
    [] enabled /\ ~near /\ active -> StopTheme
    [] OTHER                      -> Keep

Tick(near, found) ==
  /\ Drive(near, found)
  /\ trusted' = (trusted \/ ~near \/ ~enabled)
  /\ UNCHANGED <<enabled, bgmPlayer, fades>>

(***************************************************************************)
(* The host.                                                               *)
(***************************************************************************)
\* A host that does not name a player gets the default one.
Unspecified == "0xFF"
Chosen(p) == IF p = Unspecified THEN DefaultPlayer ELSE p

\* oot_audio_set_enemy_bgm; nothing is started or stopped before the next tick.
SetEnemyBgm(on, p, withFade) ==
  /\ enabled' = on /\ bgmPlayer' = Chosen(p) /\ fades' = withFade
  /\ trusted' = (trusted /\ Chosen(p) = bgmPlayer)
  /\ UNCHANGED <<player, active>>

\* oot_audio_sequence_play and oot_audio_sequence_stop, or the script of a
\* sequence that the host plays.  The theme itself goes round in a loop.
HostPlays(p) ==
  /\ \/ \E s \in Sequences \ {Theme} : Audio!Load(p, s)
     \/ Audio!FadeOut(p)
     \/ Audio!Silence(p)
  /\ trusted' = (trusted /\ p # bgmPlayer)
  /\ UNCHANGED <<enabled, bgmPlayer, fades, active>>

\* A fade-out reaches its end while the host renders.
FadeEnds(p) ==
  /\ player[p].status = "fading" /\ Audio!Silence(p)
  /\ UNCHANGED <<enabled, bgmPlayer, fades, active, trusted>>

\* oot_global_init of a running session, or oot_global_terminate and
\* oot_global_init: liboot_audio_sequence_reset.
Restart ==
  /\ player' = [p \in Players |-> Audio!Idle]
  /\ trusted' = FALSE
  /\ UNCHANGED <<enabled, bgmPlayer, fades, active>>

Next ==
  \/ \E near, found \in BOOLEAN : Tick(near, found)
  \/ \E on, withFade \in BOOLEAN, p \in BgmPlayers \cup {Unspecified} :
       SetEnemyBgm(on, p, withFade)
  \/ \E p \in HostPlayers : HostPlays(p)
  \/ \E p \in Players : FadeEnds(p)
  \/ Restart

Spec == Init /\ [][Next]_vars

-----------------------------------------------------------------------------
(***************************************************************************)
(* Properties.                                                             *)
(***************************************************************************)
\* The type of every variable.
TypeOK ==
  /\ player \in [Players -> [status : {"idle", "playing", "fading"},
                             sequence : Sequences]]
  /\ bgmPlayer \in Players
  /\ {enabled, fades, active, trusted} \subseteq BOOLEAN

ThemeOn == {p \in Players : player[p] = [status |-> "playing", sequence |-> Theme]}

\* The driver is never wrong about its theme for long: what the host or a
\* restart did to its player may upset it, but only until the next tick without
\* an enemy, which makes `active` and the player agree again.  Without that the
\* theme would not start for the next enemy, or would not stop after him.
ThemeIsKnown == trusted => (active <=> bgmPlayer \in ThemeOn)
===============================================================================
