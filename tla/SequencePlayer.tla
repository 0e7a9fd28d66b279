---------------------------- MODULE SequencePlayer ----------------------------
(***************************************************************************)
(* The sequence players and the voices they share.  A player runs the      *)
(* script of a sequence, its channels and their layers run scripts of      *)
(* their own, and a layer starts notes, each on a voice of a common pool.  *)
(* A voice belongs to nobody: the layer remembers its number and serial,   *)
(* and a voice that has been given away has another serial.                *)
(*                                                                         *)
(* Scripts are data of the ROM.  Any command may follow any other, and a   *)
(* delay may lie between any two, so that one command is one action here.  *)
(* A script that stops itself (stopScript) or is invalid without more is   *)
(* one that issues no command.  Pitch, volume, pan and envelopes are left  *)
(* out; so are the IO ports, which only decide what a script does.         *)
(***************************************************************************)
EXTENDS Naturals, FiniteSetsExt

CONSTANTS
  Players,        \* OOT_AUDIO_PLAYER_MAIN .. _SUB.
  SfxPlayer,      \* OOT_AUDIO_PLAYER_SFX.
  Channels,       \* Channels of a player.
  Layers,         \* Layers of a channel.
  NumVoices,      \* AUDIO_VOICES.
  Sequences,      \* Sequences of the ROM.
  Sequence0,      \* Sequence 0, which plays the sound effects.
  Sounds,         \* Samples and wave forms, as far as legato tells them apart.
  MaxSerial,      \* Bound on s_voiceSerial.
  MaxFade         \* Bound on the length of a fade, in frames.

ASSUME VoicesAssumption == NumVoices \in Nat \ {0} /\ MaxSerial \in Nat \ {0}
ASSUME FadeAssumption == MaxFade \in Nat \ {0}
ASSUME SfxAssumption == SfxPlayer \in Players /\ Sequence0 \in Sequences

VARIABLES
  players,        \* s_players, without their channels.
  channels,       \* Per player and channel, "on", "off" or "leaving".
  layers,         \* Per player, channel and layer.
  voices,         \* s_voices.
  nextSerial,     \* s_voiceSerial.
  silenced        \* Players the host has heard the last of, see Silenced.

vars == <<players, channels, layers, voices, nextSerial, silenced>>

Voices == 0 .. NumVoices - 1
Places == Players \X Channels \X Layers
PlacesOf(p) == {x \in Places : x[1] = p}
PlacesIn(p, c) == {x \in Places : x[1] = p /\ x[2] = c}
NoVoice == NumVoices
NoSound == "none"
Nowhere == "nowhere"

NoLayer == [enabled |-> FALSE, legato |-> FALSE, voice |-> NoVoice, serial |-> 0]
\* An inactive voice; what else is left in it is never read.
Quiet == [active |-> FALSE, releasing |-> FALSE, sound |-> NoSound,
          place |-> Nowhere, serial |-> 0]
\* fadeLeft is fadeSeconds, and silent says that fadeGain is as good as zero.
\* A fade goes to silence if pendingStop is set, and else to full gain.
NoPlayer == [playing |-> FALSE, paused |-> FALSE, pendingStop |-> FALSE,
             sequence |-> Sequence0, fadeLeft |-> 0, silent |-> TRUE]

\* liboot_audio_sequence_reset.
Init ==
  /\ players = [p \in Players |-> NoPlayer]
  /\ channels = [p \in Players |-> [c \in Channels |-> "off"]]
  /\ layers = [x \in Places |-> NoLayer]
  /\ voices = [v \in Voices |-> Quiet]
  /\ nextSerial = 1
  /\ silenced = {}

(***************************************************************************)
(* Voices.                                                                 *)
(***************************************************************************)
\* voice_matches_layer.  A mistake: the serial is not compared.
MatchesByNumber(x) == layers[x].voice \in Voices /\ voices[layers[x].voice].active
Matches(x) == /\ layers[x].voice \in Voices
              /\ voices[layers[x].voice].active
              /\ voices[layers[x].voice].serial = layers[x].serial

Held(places) == {layers[x].voice : x \in {y \in places : Matches(y)}}
Sounding(p) == {v \in Voices : voices[v].active /\ voices[v].place[1] = p}

\* voice_decay and voice_release of some voices.
Released(ids) == [v \in Voices |-> [voices[v] EXCEPT !.releasing = @ \/ v \in ids]]

\* layer_decay of some layers.
Decayed(places) == Released(Held(places))

\* voices_stop_player without a release.  A mistake: they fade by themselves.
LetDie(p) == Released(Sounding(p))
Stopped(p) == [v \in Voices |-> IF v \in Sounding(p) THEN Quiet ELSE voices[v]]

\* The voice that voice_allocate takes: the first inactive one, or the
\* quietest of those being released, or the next in turn.
Available(vs) ==
  LET inactive == {v \in Voices : ~vs[v].active}
      releasing == {v \in Voices : vs[v].releasing}
  IN  IF inactive # {} THEN {Min(inactive)}
      ELSE IF releasing # {} THEN releasing
      ELSE {nextSerial % NumVoices}

(***************************************************************************)
(* Players.                                                                *)
(***************************************************************************)
Runs(p) == players[p].playing /\ ~players[p].paused
ChannelRuns(p, c) == Runs(p) /\ channels[p][c] = "on"

AllOff == [c \in Channels |-> "off"]

\* The record player_load leaves behind.  A mistake: a fade-out goes on.
StillFading(p, s, fade) ==
  [players[p] EXCEPT !.playing = TRUE, !.paused = FALSE, !.sequence = s]
Loaded(p, s, fade) ==
  [NoPlayer EXCEPT !.playing = TRUE, !.sequence = s, !.fadeLeft = fade,
                   !.silent = fade > 0]

PlayerLoad(p, s, fade) ==
  /\ players' = [players EXCEPT ![p] = Loaded(p, s, fade)]
  /\ channels' = [channels EXCEPT ![p] = AllOff]
  /\ layers' = [x \in Places |-> IF x[1] = p THEN NoLayer ELSE layers[x]]
  /\ voices' = Stopped(p)
  /\ silenced' = silenced \ {p}
  /\ UNCHANGED nextSerial

\* channel_disable of some channels of a player: the layers keep the number
\* of their voice.
Disabled(places) ==
  [x \in Places |-> IF x \in places THEN [layers[x] EXCEPT !.enabled = FALSE]
                    ELSE layers[x]]

\* How a player is stopped at once, by the host or at the end of a fade.
Silenced(p) ==
  /\ channels' = [channels EXCEPT ![p] = AllOff]
  /\ layers' = Disabled(PlacesOf(p))
  /\ voices' = Stopped(p)
  /\ silenced' = silenced \cup {p}
  /\ UNCHANGED nextSerial

-----------------------------------------------------------------------------
(***************************************************************************)
(* Calls of the host.  A sequence that is not in the ROM changes nothing.  *)
(***************************************************************************)
\* oot_audio_sequence_play and oot_audio_nature_play.
Play(p, s, fade) == PlayerLoad(p, s, fade)

\* oot_audio_sequence_stop.
Stop(p) ==
  /\ players' = [players EXCEPT ![p].playing = FALSE, ![p].pendingStop = FALSE,
                                ![p].silent = TRUE, ![p].fadeLeft = 0]
  /\ Silenced(p)

StopFading(p, fade) ==
  /\ players[p].playing
  /\ players' = [players EXCEPT ![p].pendingStop = TRUE, ![p].fadeLeft = fade]
  /\ UNCHANGED <<channels, layers, voices, nextSerial, silenced>>

\* oot_audio_sequence_pause.
Pause(p, paused) ==
  /\ players' = [players EXCEPT ![p].paused = paused]
  /\ UNCHANGED <<channels, layers, voices, nextSerial, silenced>>

\* oot_audio_sfx_play: sequence 0 must be playing and not on its way out.
\* What follows are IO ports.
SfxPlay ==
  /\ \/ ~players[SfxPlayer].playing
     \/ players[SfxPlayer].sequence # Sequence0
     \/ players[SfxPlayer].pendingStop
  /\ PlayerLoad(SfxPlayer, Sequence0, 0)

\* oot_audio_sfx_stop and oot_audio_sfx_stop_all, of those voices of the player
\* that carry the number of the effect.
SfxStop(tagged) ==
  /\ tagged \subseteq Sounding(SfxPlayer)
  /\ voices' = Released(tagged)
  /\ UNCHANGED <<players, channels, layers, nextSerial, silenced>>

(***************************************************************************)
(* oot_audio_render_s16.                                                   *)
(***************************************************************************)
\* player_update_fade: the gain goes straight from where it is to its target.
\* A mistake: the time left is counted down although no fade is going on.
AlwaysFaded(p) ==
  [players[p] EXCEPT !.fadeLeft = @ - 1, !.silent = players[p].pendingStop]
Faded(p) ==
  LET q == players[p]
  IN  IF q.fadeLeft = 0 THEN q
      ELSE [q EXCEPT !.fadeLeft = @ - 1,
                     !.silent = q.pendingStop /\ (@ \/ q.fadeLeft = 1)]

\* A player that fades whether it is paused or not.  A mistake: a pause also
\* stops the fade.
FadesIfRunning(p) == Runs(p)
Fades(p) == players[p].playing

Frame(p) ==
  /\ Fades(p)
  /\ IF Faded(p).pendingStop /\ Faded(p).silent
     THEN /\ players' = [players EXCEPT ![p] = [Faded(p) EXCEPT !.playing = FALSE,
                                                               !.pendingStop = FALSE]]
          /\ Silenced(p)
     ELSE /\ players' = [players EXCEPT ![p] = Faded(p)]
          /\ UNCHANGED <<channels, layers, voices, nextSerial, silenced>>

\* A voice whose envelope or sample has come to its end.  Voices of a paused
\* player stand still.
VoiceEnds(v) ==
  /\ voices[v].active /\ ~players[voices[v].place[1]].paused
  /\ voices' = [voices EXCEPT ![v] = Quiet]
  /\ UNCHANGED <<players, channels, layers, nextSerial, silenced>>

(***************************************************************************)
(* Commands of the scripts.                                                *)
(***************************************************************************)
\* player_finish: the end of the sequence, or an invalid command.
PlayerFinish(p) ==
  /\ Runs(p)
  /\ players' = [players EXCEPT ![p].playing = FALSE]
  /\ channels' = [channels EXCEPT ![p] = AllOff]
  /\ layers' = Disabled(PlacesOf(p))
  /\ voices' = Released(Held(PlacesOf(p)))
  /\ UNCHANGED <<nextSerial, silenced>>

\* 0xC4: a sequence starts another one, on any player.
LoadSequence(p, q, s) == Runs(p) /\ PlayerLoad(q, s, 0)

\* channel_enable, from a sequence or a channel.
ChannelEnable(p, c) ==
  /\ Runs(p)
  /\ channels' = [channels EXCEPT ![p][c] = "on"]
  /\ layers' = [x \in Places |-> IF x \in PlacesIn(p, c) THEN NoLayer ELSE layers[x]]
  /\ voices' = Decayed(PlacesIn(p, c))
  /\ UNCHANGED <<players, nextSerial, silenced>>

\* channel_disable.  A channel that names itself (0xCD) is disabled but its
\* script runs on until its next delay.
ChannelDisable(p, c, own) ==
  /\ Runs(p) /\ (own => channels[p][c] # "off")
  /\ channels' = [channels EXCEPT ![p][c] = IF own THEN "leaving" ELSE "off"]
  /\ layers' = Disabled(PlacesIn(p, c))
  /\ voices' = Decayed(PlacesIn(p, c))
  /\ UNCHANGED <<players, nextSerial, silenced>>

ChannelLeaves(p, c) ==
  /\ channels[p][c] = "leaving"
  /\ channels' = [channels EXCEPT ![p][c] = "off"]
  /\ UNCHANGED <<players, layers, voices, nextSerial, silenced>>

\* layer_enable; the layer stays disabled if its script is out of bounds.
LayerEnable(x, valid) ==
  /\ Runs(x[1]) /\ channels[x[1]][x[2]] # "off"
  /\ layers' = [layers EXCEPT ![x] = [NoLayer EXCEPT !.enabled = valid]]
  /\ voices' = Decayed({x})
  /\ UNCHANGED <<players, channels, nextSerial, silenced>>

LayerRuns(x) == ChannelRuns(x[1], x[2]) /\ layers[x].enabled

\* The end of a layer's script, and 0x90 of its channel's.
LayerEnd(x) ==
  /\ Runs(x[1]) /\ channels[x[1]][x[2]] # "off"
  /\ layers' = [layers EXCEPT ![x].enabled = FALSE]
  /\ voices' = Decayed({x})
  /\ UNCHANGED <<players, channels, nextSerial, silenced>>

\* The gate of a note closes, a rest (0xC0), or 0xC4 and 0xC5.
LayerMute(x, legato) ==
  /\ LayerRuns(x)
  /\ layers' = [layers EXCEPT ![x].legato = legato]
  /\ voices' = Decayed({x})
  /\ UNCHANGED <<players, channels, nextSerial, silenced>>

\* layer_note without a sample: the note before is over unless it is legato.
LayerNoteSilent(x) ==
  /\ LayerRuns(x) /\ ~layers[x].legato
  /\ voices' = Decayed({x})
  /\ UNCHANGED <<players, channels, layers, nextSerial, silenced>>

\* voice_start_sample and voice_start_wave.  A legato note of the same sound
\* goes on with its voice and needs no action.
Continues(x, sound) ==
  /\ layers[x].legato /\ Matches(x)
  /\ ~voices[layers[x].voice].releasing /\ voices[layers[x].voice].sound = sound

LayerNote(x, sound) ==
  /\ LayerRuns(x) /\ ~Continues(x, sound) /\ nextSerial < MaxSerial
  /\ LET serial == nextSerial + 1
     IN  \E v \in Available(Decayed({x})) :
           /\ voices' = [Decayed({x}) EXCEPT ![v] =
                           [active |-> TRUE, releasing |-> FALSE, sound |-> sound,
                            place |-> x, serial |-> serial]]
           /\ layers' = [layers EXCEPT ![x].voice = v, ![x].serial = serial]
           /\ nextSerial' = serial
  /\ UNCHANGED <<players, channels, silenced>>

-----------------------------------------------------------------------------
Host ==
  \/ \E p \in Players, fade \in 0 .. MaxFade, s \in Sequences : Play(p, s, fade)
  \/ \E p \in Players : \/ Stop(p)
                        \/ \E fade \in 1 .. MaxFade : StopFading(p, fade)
                        \/ \E paused \in BOOLEAN : Pause(p, paused)
  \/ SfxPlay
  \/ \E tagged \in SUBSET Voices : SfxStop(tagged)

Scripts ==
  \/ \E p \in Players :
       \/ PlayerFinish(p)
       \/ \E q \in Players, s \in Sequences : LoadSequence(p, q, s)
       \/ \E c \in Channels : \/ ChannelEnable(p, c) \/ ChannelLeaves(p, c)
                              \/ \E own \in BOOLEAN : ChannelDisable(p, c, own)
  \/ \E x \in Places :
       \/ LayerEnd(x) \/ LayerNoteSilent(x)
       \/ \E b \in BOOLEAN : LayerEnable(x, b) \/ LayerMute(x, b)
       \/ \E sound \in Sounds : LayerNote(x, sound)

Next == \/ Host \/ Scripts
        \/ \E p \in Players : Frame(p)
        \/ \E v \in Voices : VoiceEnds(v)

Spec == Init /\ [][Next]_vars

\* A host that keeps rendering.
FairSpec == Spec /\ \A p \in Players : WF_vars(Frame(p))

-----------------------------------------------------------------------------
(***************************************************************************)
(* Properties.                                                             *)
(***************************************************************************)
\* The type of every variable.
TypeOK ==
  /\ players \in [Players -> [playing : BOOLEAN, paused : BOOLEAN,
                              pendingStop : BOOLEAN, sequence : Sequences,
                              fadeLeft : 0 .. MaxFade, silent : BOOLEAN]]
  /\ channels \in [Players -> [Channels -> {"on", "off", "leaving"}]]
  /\ layers \in [Places -> [enabled : BOOLEAN, legato : BOOLEAN,
                            voice : Voices \cup {NoVoice}, serial : 0 .. MaxSerial]]
  /\ DOMAIN voices = Voices
  /\ \A v \in Voices :
       \/ voices[v] = Quiet
       \/ voices[v] \in [active : {TRUE}, releasing : BOOLEAN, sound : Sounds,
                         place : Places, serial : 1 .. MaxSerial]
  /\ nextSerial \in 1 .. MaxSerial
  /\ silenced \subseteq Players

\* No note hangs: a voice that is not being released belongs to a layer that
\* is running and still knows it, so that something can end it.  Every way a
\* layer, a channel or a player ends lets go of its voices first.  And a layer
\* whose voice was stolen never releases or continues the note of the thief.
VoicesAreTended ==
  /\ \A v \in Voices : voices[v].active /\ ~voices[v].releasing =>
       LET x == voices[v].place
       IN  /\ players[x[1]].playing /\ channels[x[1]][x[2]] = "on"
           /\ layers[x].enabled /\ layers[x].voice = v /\ Matches(x)
  /\ \A x \in Places : Matches(x) => voices[layers[x].voice].place = x

\* A player that the host has stopped, or faded out to the end, makes no sound
\* at all until it is loaded again.
StoppedIsSilent == \A p \in silenced : Sounding(p) = {}

\* A fade-out comes to its end, paused or not, unless the host starts it over
\* and over again.
FadeOutEnds ==
  \A p \in Players :
    <>[][\A fade \in 1 .. MaxFade : ~StopFading(p, fade)]_vars =>
      (players[p].playing /\ players[p].pendingStop ~>
         ~players[p].playing \/ ~players[p].pendingStop)

\* Refinement: what the host sees of a player is idle, playing or fading.
Status(q) == IF ~q.playing THEN "idle"
             ELSE IF q.pendingStop THEN "fading" ELSE "playing"

Seen == INSTANCE AudioPlayers WITH
  player <- [p \in Players |-> [status |-> Status(players[p]),
                                sequence |-> players[p].sequence]]

PlayersAreSimple == Seen!Spec
=============================================================================
