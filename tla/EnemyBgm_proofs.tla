---------------------------- MODULE EnemyBgm_proofs ----------------------------
(***************************************************************************)
(* Proof that a driver that keeps to one player is never wrong about its   *)
(* theme for long, whatever the host, the restarts and the ROM do.         *)
(***************************************************************************)
EXTENDS EnemyBgm, TLAPS

\* The theme plays only if the driver has noted it: one half of ThemeIsKnown
\* holds even after an interference, and makes the next tick without an enemy
\* repair the other half.
IInv ==
  /\ TypeOK
  /\ bgmPlayer = DefaultPlayer
  /\ bgmPlayer \in ThemeOn => active
  /\ ThemeIsKnown

\* What the operations of a player do to the theme on a given player.
LEMMA Played ==
  ASSUME player \in [Players -> [status : {"idle", "playing", "fading"},
                                 sequence : Sequences]],
         NEW p \in Players, NEW s \in Sequences, Audio!Load(p, s)
  PROVE  /\ player' \in [Players -> [status : {"idle", "playing", "fading"},
                                     sequence : Sequences]]
         /\ \A q \in Players : q \in ThemeOn' <=>
              IF q = p THEN s = Theme ELSE q \in ThemeOn
  BY DEF Audio!Load, ThemeOn

LEMMA Hushed ==
  ASSUME player \in [Players -> [status : {"idle", "playing", "fading"},
                                 sequence : Sequences]],
         NEW p \in Players, Audio!FadeOut(p) \/ Audio!Silence(p)
  PROVE  /\ player' \in [Players -> [status : {"idle", "playing", "fading"},
                                     sequence : Sequences]]
         /\ \A q \in Players : q \in ThemeOn' <=> q # p /\ q \in ThemeOn
<1>1. CASE Audio!FadeOut(p)
  BY <1>1 DEF Audio!FadeOut, ThemeOn
<1>2. CASE Audio!Silence(p)
  BY <1>2 DEF Audio!Silence, ThemeOn
<1> QED BY <1>1, <1>2

-----------------------------------------------------------------------------
\* The driver starts switched off, over idle players.
LEMMA BgmInit == Init => IInv
<1> SUFFICES ASSUME Init PROVE IInv
  OBVIOUS
<1>1. TypeOK
  BY ThemeAssumption, PlayersAssumption DEF Init, Audio!Init, Audio!Idle, TypeOK
<1>2. bgmPlayer \notin ThemeOn
  BY PlayersAssumption DEF Init, Audio!Init, Audio!Idle, ThemeOn
<1> QED BY <1>1, <1>2 DEF Init, IInv, ThemeIsKnown

\* Stopping the theme: the driver is right afterwards.
LEMMA Stopping ==
  ASSUME IInv, StopTheme, UNCHANGED <<enabled, bgmPlayer, fades>>,
         trusted' \in BOOLEAN
  PROVE  IInv'
<1>1. Audio!FadeOut(bgmPlayer) \/ Audio!Silence(bgmPlayer)
  BY DEF StopTheme, SilenceTheme
<1>2. bgmPlayer \in Players /\ active' = FALSE
  BY DEF IInv, TypeOK, StopTheme
<1>3. /\ player' \in [Players -> [status : {"idle", "playing", "fading"},
                                  sequence : Sequences]]
      /\ bgmPlayer \notin ThemeOn'
  BY <1>1, <1>2, Hushed DEF IInv, TypeOK
<1>4. TypeOK'
  BY <1>2, <1>3 DEF IInv, TypeOK
<1> QED BY <1>2, <1>3, <1>4 DEF IInv, ThemeIsKnown

\* Starting it, whether the ROM has it or not.
LEMMA Starting ==
  ASSUME IInv, ~active, NEW found \in BOOLEAN, StartTheme(found),
         UNCHANGED <<enabled, bgmPlayer, fades>>, trusted' \in BOOLEAN
  PROVE  IInv'
<1>1. bgmPlayer \in Players /\ active' = found
  BY DEF IInv, TypeOK, StartTheme
<1>2. CASE found
  <2>1. /\ player' \in [Players -> [status : {"idle", "playing", "fading"},
                                    sequence : Sequences]]
        /\ bgmPlayer \in ThemeOn'
    BY <1>1, <1>2, Played, ThemeAssumption DEF StartTheme, IInv, TypeOK
  <2> QED BY <1>1, <1>2, <2>1 DEF IInv, TypeOK, ThemeIsKnown
<1>3. CASE ~found
  <2>1. UNCHANGED player
    BY <1>3 DEF StartTheme
  <2>2. bgmPlayer \notin ThemeOn'
    BY <2>1 DEF IInv, ThemeOn
  <2> QED BY <1>1, <1>3, <2>1, <2>2 DEF IInv, TypeOK, ThemeIsKnown
<1> QED BY <1>2, <1>3

\* A tick that leaves the theme alone.  If it makes the driver trusted again,
\* no theme is on: it was off already, or the tick would have stopped it.
LEMMA Keeping ==
  ASSUME IInv, NEW near \in BOOLEAN, Keep,
         UNCHANGED <<enabled, bgmPlayer, fades>>,
         trusted' = (trusted \/ ~near \/ ~enabled),
         ~(~enabled /\ active), ~(enabled /\ ~near /\ active)
  PROVE  IInv'
<1>1. TypeOK'
  BY DEF IInv, TypeOK, Keep
<1>2. bgmPlayer' = bgmPlayer /\ active' = active /\ ThemeOn' = ThemeOn
  BY DEF Keep, ThemeOn
<1>3. trusted' => trusted \/ ~active
  OBVIOUS
<1> QED BY <1>1, <1>2, <1>3 DEF IInv, ThemeIsKnown

-----------------------------------------------------------------------------
\* A tick.
LEMMA TickKeeps ==
  ASSUME IInv, NEW near \in BOOLEAN, NEW found \in BOOLEAN, Tick(near, found)
  PROVE  IInv'
<1>1. /\ UNCHANGED <<enabled, bgmPlayer, fades>>
      /\ trusted' = (trusted \/ ~near \/ ~enabled)
      /\ trusted' \in BOOLEAN
  BY DEF Tick, IInv, TypeOK
<1>2. CASE ~enabled /\ active
  BY <1>1, <1>2, Stopping DEF Tick, Drive
<1>3. CASE enabled /\ near /\ ~active
  BY <1>1, <1>3, Starting DEF Tick, Drive
<1>4. CASE enabled /\ ~near /\ active
  BY <1>1, <1>4, Stopping DEF Tick, Drive
<1>5. CASE /\ ~(~enabled /\ active) /\ ~(enabled /\ near /\ ~active)
           /\ ~(enabled /\ ~near /\ active)
  <2>1. Keep
    BY <1>5 DEF Tick, Drive
  <2> QED BY <1>1, <1>5, <2>1, Keeping
<1> QED BY <1>2, <1>3, <1>4, <1>5

\* The host may end the theme but never starts it, and a player that is not
\* the driver's does not matter.
LEMMA HostKeeps ==
  ASSUME IInv, NEW p \in Players, HostPlays(p), HostPlayers \subseteq Players
  PROVE  IInv'
<1>1. /\ UNCHANGED <<enabled, bgmPlayer, fades, active>>
      /\ trusted' = (trusted /\ p # bgmPlayer)
  BY DEF HostPlays
<1>2. bgmPlayer \in Players /\ trusted' \in BOOLEAN
  BY <1>1 DEF IInv, TypeOK
<1>3. /\ player' \in [Players -> [status : {"idle", "playing", "fading"},
                                  sequence : Sequences]]
      /\ bgmPlayer \in ThemeOn' <=> p # bgmPlayer /\ bgmPlayer \in ThemeOn
  <2>1. CASE \E s \in Sequences \ {Theme} : Audio!Load(p, s)
    BY <1>2, <2>1, Played DEF IInv, TypeOK
  <2>2. CASE Audio!FadeOut(p) \/ Audio!Silence(p)
    BY <1>2, <2>2, Hushed DEF IInv, TypeOK
  <2> QED BY <2>1, <2>2 DEF HostPlays
<1>4. TypeOK'
  BY <1>1, <1>2, <1>3 DEF IInv, TypeOK
<1> QED BY <1>1, <1>3, <1>4 DEF IInv, ThemeIsKnown

\* The end of a fade changes no theme: one that fades is over already.
LEMMA FadeKeeps ==
  ASSUME IInv, NEW p \in Players, FadeEnds(p)
  PROVE  IInv'
<1>1. UNCHANGED <<enabled, bgmPlayer, fades, active, trusted>>
  BY DEF FadeEnds
<1>2. bgmPlayer \in Players
  BY DEF IInv, TypeOK
<1>3. /\ player' \in [Players -> [status : {"idle", "playing", "fading"},
                                  sequence : Sequences]]
      /\ bgmPlayer \in ThemeOn' <=> p # bgmPlayer /\ bgmPlayer \in ThemeOn
  BY <1>2, Hushed DEF FadeEnds, IInv, TypeOK
<1>4. p \notin ThemeOn
  BY DEF FadeEnds, ThemeOn
<1>5. TypeOK'
  BY <1>1, <1>3 DEF IInv, TypeOK
<1> QED BY <1>1, <1>3, <1>4, <1>5 DEF IInv, ThemeIsKnown

\* A restart silences every player and is not trusted.
LEMMA RestartKeeps == IInv /\ Restart => IInv'
<1> SUFFICES ASSUME IInv, Restart PROVE IInv'
  OBVIOUS
<1>1. bgmPlayer' \notin ThemeOn'
  BY DEF Restart, IInv, TypeOK, ThemeOn, Audio!Idle
<1>2. TypeOK'
  BY ThemeAssumption DEF Restart, IInv, TypeOK, Audio!Idle
<1> QED BY <1>1, <1>2 DEF Restart, IInv, ThemeIsKnown

\* Giving the driver its own player again changes what it does next only.
LEMMA SetKeeps ==
  ASSUME IInv, BgmPlayers \subseteq {DefaultPlayer},
         NEW on \in BOOLEAN, NEW withFade \in BOOLEAN,
         NEW p \in BgmPlayers \cup {Unspecified}, SetEnemyBgm(on, p, withFade)
  PROVE  IInv'
<1>1. bgmPlayer' = bgmPlayer /\ Chosen(p) = DefaultPlayer
  BY DEF SetEnemyBgm, Chosen, IInv
<1>2. /\ UNCHANGED <<player, active>> /\ enabled' = on /\ fades' = withFade
      /\ trusted' = (trusted /\ Chosen(p) = bgmPlayer)
  BY DEF SetEnemyBgm
<1>3. TypeOK' /\ ThemeOn' = ThemeOn
  BY <1>1, <1>2 DEF IInv, TypeOK, ThemeOn
<1> QED BY <1>1, <1>2, <1>3 DEF IInv, ThemeIsKnown

\* The invariant is inductive for a driver that keeps to one player, which is
\* what every host of oot_engine_set_enemy_bgm has.
LEMMA BgmStep == IInv /\ [Next]_vars /\ BgmPlayers \subseteq {DefaultPlayer} => IInv'
<1> SUFFICES ASSUME IInv, [Next]_vars, BgmPlayers \subseteq {DefaultPlayer}
             PROVE  IInv'
  OBVIOUS
<1>1. CASE \E near, found \in BOOLEAN : Tick(near, found)
  BY <1>1, TickKeeps
<1>2. CASE \E on, withFade \in BOOLEAN, p \in BgmPlayers \cup {Unspecified} :
             SetEnemyBgm(on, p, withFade)
  BY <1>2, SetKeeps
<1>3. CASE \E p \in HostPlayers : HostPlays(p)
  BY <1>3, HostKeeps, PlayersAssumption
<1>4. CASE \E p \in Players : FadeEnds(p)
  BY <1>4, FadeKeeps
<1>5. CASE Restart
  BY <1>5, RestartKeeps
<1>6. CASE UNCHANGED vars
  BY <1>6 DEF vars, IInv, TypeOK, ThemeIsKnown, ThemeOn
<1> QED BY <1>1, <1>2, <1>3, <1>4, <1>5, <1>6 DEF Next

\* Whatever the players, the sequences and the interferences: a driver that is
\* never given another player agrees with its player about the theme whenever
\* a tick without an enemy has followed the last interference.
THEOREM DriverIsRight ==
  ASSUME BgmPlayers \subseteq {DefaultPlayer}
  PROVE  Spec => []ThemeIsKnown
<1>1. Init => IInv
  BY BgmInit
<1>2. IInv /\ [Next]_vars => IInv'
  BY BgmStep
<1>3. IInv => ThemeIsKnown
  BY DEF IInv
<1> QED BY <1>1, <1>2, <1>3, PTL DEF Spec
===============================================================================
