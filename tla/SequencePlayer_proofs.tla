------------------------- MODULE SequencePlayer_proofs -------------------------
(***************************************************************************)
(* Proofs about SequencePlayer, for any number of players, channels,       *)
(* layers and voices and any script.                                       *)
(*                                                                         *)
(* A layer and its voice know each other only by a number and a serial.    *)
(* That a layer never takes the note of a thief for its own needs that no  *)
(* layer remembers a serial that is still to be given out; that a stopped  *)
(* player stays silent needs that it does not run, because only a layer    *)
(* that runs starts a note.                                                *)
(***************************************************************************)
EXTENDS SequencePlayer, WellFoundedInduction, NaturalsInduction, TLAPS

\* No layer knows a serial that has not been given out yet.
SerialsAreOld == \A x \in Places : layers[x].serial <= nextSerial

\* A player that the host has heard the last of does not run.
SilencedAreIdle == \A p \in silenced : ~players[p].playing

VoiceInv == /\ TypeOK
            /\ VoicesAreTended
            /\ StoppedIsSilent
            /\ SerialsAreOld
            /\ SilencedAreIdle

-----------------------------------------------------------------------------
(***************************************************************************)
(* Lemmas about the helpers.                                               *)
(***************************************************************************)
Player == [playing : BOOLEAN, paused : BOOLEAN, pendingStop : BOOLEAN,
           sequence : Sequences, fadeLeft : 0 .. MaxFade, silent : BOOLEAN]
Layer == [enabled : BOOLEAN, legato : BOOLEAN,
          voice : Voices \cup {NoVoice}, serial : 0 .. MaxSerial]
Note == [active : {TRUE}, releasing : BOOLEAN, sound : Sounds,
         place : Places, serial : 1 .. MaxSerial]

\* The numbers are what the assumptions say.
LEMMA Sizes ==
  /\ NumVoices \in Nat \ {0} /\ MaxSerial \in Nat \ {0} /\ MaxFade \in Nat \ {0}
  /\ SfxPlayer \in Players /\ Sequence0 \in Sequences
  /\ NoVoice \notin Voices
  BY VoicesAssumption, FadeAssumption, SfxAssumption DEF NoVoice, Voices

\* A place is a player, a channel of his and a layer of it.
LEMMA PlaceShape ==
  /\ \A x \in Places : x[1] \in Players /\ x[2] \in Channels
  /\ \A p \in Players : PlacesOf(p) \subseteq Places
  /\ \A p \in Players, c \in Channels : PlacesIn(p, c) \subseteq Places
  BY DEF Places, PlacesOf, PlacesIn

\* An inactive voice is quiet and an active one is a note.
LEMMA VoiceShape ==
  ASSUME TypeOK, NEW v \in Voices
  PROVE  /\ voices[v].active \in BOOLEAN
         /\ voices[v].active => voices[v] \in Note
         /\ ~voices[v].active => voices[v] = Quiet
<1>1. voices[v] = Quiet \/ voices[v] \in Note
  BY DEF TypeOK, Note
<1>2. voices[v] \in Note => voices[v].active = TRUE
  BY DEF Note
<1>3. Quiet.active = FALSE
  BY DEF Quiet
<1>. QED  BY <1>1, <1>2, <1>3

\* Only active voices are held.
LEMMA HeldShape ==
  ASSUME TypeOK, NEW places \in SUBSET Places, NEW v \in Held(places)
  PROVE  v \in Voices /\ voices[v].active
  BY DEF Held, Matches

\* A release touches nothing but the releasing flag of the active voices that
\* are named.
LEMMA ReleasedShape ==
  ASSUME TypeOK, NEW ids, NEW v \in Voices,
         v \in ids => voices[v].active
  PROVE  /\ Released(ids)[v] \in Note \cup {Quiet}
         /\ ~voices[v].active => Released(ids)[v] = Quiet
         /\ Released(ids)[v].active = voices[v].active
         /\ Released(ids)[v].place = voices[v].place
         /\ Released(ids)[v].serial = voices[v].serial
         /\ Released(ids)[v].releasing <=> voices[v].releasing \/ v \in ids
<1>1. Released(ids)[v] = [voices[v] EXCEPT !.releasing = @ \/ v \in ids]
  BY DEF Released
<1>2. CASE voices[v].active
  <2>1. voices[v] \in Note
    BY <1>2, VoiceShape
  <2>. QED  BY <1>1, <1>2, <2>1 DEF Note
<1>3. CASE ~voices[v].active
  <2>1. voices[v] = Quiet /\ v \notin ids
    BY <1>3, VoiceShape
  <2>. DEFINE named == Quiet.releasing \/ v \in ids
  <2>2. Released(ids)[v] = [Quiet EXCEPT !.releasing = named]
    BY <1>1, <2>1
  <2>3. named = FALSE
    BY <2>1 DEF Quiet
  <2>. HIDE DEF named
  <2>4. Released(ids)[v] = Quiet
    BY <2>2, <2>3 DEF Quiet
  <2>. QED  BY <1>3, <2>1, <2>4 DEF Quiet
<1>. QED  BY <1>2, <1>3, VoiceShape

\* Likewise for the notes of some layers.
LEMMA DecayedShape ==
  ASSUME TypeOK, NEW places \in SUBSET Places, NEW v \in Voices
  PROVE  /\ Decayed(places)[v] \in Note \cup {Quiet}
         /\ ~voices[v].active => Decayed(places)[v] = Quiet
         /\ Decayed(places)[v].active = voices[v].active
         /\ Decayed(places)[v].place = voices[v].place
         /\ Decayed(places)[v].serial = voices[v].serial
         /\ Decayed(places)[v].releasing
              <=> voices[v].releasing \/ v \in Held(places)
  BY HeldShape, ReleasedShape DEF Decayed

\* The types of the voices, said as the lemmas need it.
LEMMA VoicesType ==
  ASSUME TypeOK, NEW ids,
         \A v \in ids : v \in Voices /\ voices[v].active
  PROVE  /\ DOMAIN Released(ids) = Voices
         /\ \A v \in Voices : Released(ids)[v] \in Note \cup {Quiet}
  BY ReleasedShape DEF Released

\* A player that is stopped at once loses all its voices and no others.
LEMMA StoppedShape ==
  ASSUME TypeOK, NEW p \in Players
  PROVE  /\ DOMAIN Stopped(p) = Voices
         /\ \A v \in Voices : /\ Stopped(p)[v] \in Note \cup {Quiet}
                              /\ Stopped(p)[v].active <=>
                                   voices[v].active /\ voices[v].place[1] # p
                              /\ Stopped(p)[v].active => Stopped(p)[v] = voices[v]
<1>1. DOMAIN Stopped(p) = Voices
  BY DEF Stopped
<1>2. ASSUME NEW v \in Voices, v \in Sounding(p)
      PROVE  Stopped(p)[v] = Quiet /\ voices[v].active /\ voices[v].place[1] = p
  BY <1>2 DEF Stopped, Sounding
<1>3. ASSUME NEW v \in Voices, v \notin Sounding(p)
      PROVE  /\ Stopped(p)[v] = voices[v]
             /\ ~voices[v].active \/ voices[v].place[1] # p
             /\ voices[v] \in Note \cup {Quiet}
  BY <1>3, VoiceShape DEF Stopped, Sounding
<1>4. Quiet.active = FALSE
  BY DEF Quiet
<1>. QED  BY <1>1, <1>2, <1>3, <1>4

\* The layers after some have been disabled, or forgotten.
LEMMA LayersShape ==
  ASSUME TypeOK, NEW places \in SUBSET Places
  PROVE  /\ NoLayer \in Layer
         /\ Disabled(places) \in [Places -> Layer]
         /\ [x \in Places |-> IF x \in places THEN NoLayer ELSE layers[x]]
              \in [Places -> Layer]
         /\ \A x \in Places :
              /\ Disabled(places)[x].voice = layers[x].voice
              /\ Disabled(places)[x].serial = layers[x].serial
              /\ x \notin places => Disabled(places)[x] = layers[x]
<1>1. NoLayer \in Layer
  BY Sizes DEF NoLayer, Layer
<1>2. layers \in [Places -> Layer]
  BY DEF TypeOK, Layer
<1>3. \A x \in Places : /\ [layers[x] EXCEPT !.enabled = FALSE] \in Layer
                         /\ [layers[x] EXCEPT !.enabled = FALSE].voice = layers[x].voice
                         /\ [layers[x] EXCEPT !.enabled = FALSE].serial = layers[x].serial
  BY <1>2 DEF Layer
<1>. QED  BY <1>1, <1>2, <1>3 DEF Disabled

-----------------------------------------------------------------------------
(***************************************************************************)
(* The voices are tended.                                                  *)
(***************************************************************************)
\* A step that starts no note keeps the voices tended if it lets go of those
\* of the places it changes.
LEMMA LetGo ==
  ASSUME TypeOK, VoicesAreTended, NEW places \in SUBSET Places,
         \A v \in Voices : voices'[v].active =>
           /\ voices[v].active /\ voices'[v].place = voices[v].place
           /\ voices'[v].serial = voices[v].serial
           /\ voices[v].releasing => voices'[v].releasing
           /\ ~voices[v].releasing /\ voices[v].place \in places
                => voices'[v].releasing,
         \A x \in Places : \/ layers'[x].voice = NoVoice
                           \/ /\ layers'[x].voice = layers[x].voice
                              /\ layers'[x].serial = layers[x].serial,
         \A x \in Places \ places :
           /\ layers'[x] = layers[x]
           /\ players[x[1]].playing => players'[x[1]].playing
           /\ channels[x[1]][x[2]] = "on" => channels'[x[1]][x[2]] = "on"
  PROVE  VoicesAreTended'
<1>1. ASSUME NEW x \in Places, Matches(x)'
      PROVE  Matches(x) /\ voices'[layers'[x].voice].place = x
             /\ layers'[x].voice = layers[x].voice
  <2>1. layers'[x].voice \in Voices
    BY <1>1 DEF Matches, Voices
  <2>2. /\ layers'[x].voice = layers[x].voice
        /\ layers'[x].serial = layers[x].serial
    BY <2>1, Sizes
  <2>3. Matches(x)
    BY <1>1, <2>1, <2>2 DEF Matches
  <2>4. voices[layers[x].voice].place = x
    BY <2>3 DEF VoicesAreTended
  <2>. QED  BY <1>1, <2>1, <2>2, <2>3, <2>4 DEF Matches
<1>2. ASSUME NEW v \in Voices, voices'[v].active, ~voices'[v].releasing,
             NEW x, x = voices'[v].place
      PROVE  /\ players'[x[1]].playing /\ channels'[x[1]][x[2]] = "on"
             /\ layers'[x].enabled /\ layers'[x].voice = v /\ Matches(x)'
  <2>1. voices[v].active /\ ~voices[v].releasing /\ voices[v].place = x
    BY <1>2
  <2>2. x \in Places \ places
    <3>1. voices[v] \in Note
      BY <2>1, VoiceShape
    <3>. QED  BY <1>2, <2>1, <3>1 DEF Note
  <2>3. /\ players[x[1]].playing /\ channels[x[1]][x[2]] = "on"
        /\ layers[x].enabled /\ layers[x].voice = v /\ Matches(x)
    BY <2>1 DEF VoicesAreTended
  <2>4. Matches(x)'
    BY <1>2, <2>2, <2>3 DEF Matches, Voices
  <2>. QED  BY <2>2, <2>3, <2>4
<1>3. Voices' = Voices /\ Places' = Places
  BY DEF Voices, Places
<1>. QED  BY <1>1, <1>2, <1>3 DEF VoicesAreTended

\* The notes of some layers decay.
LEMMA DecayLetsGo ==
  ASSUME TypeOK, VoicesAreTended, NEW places \in SUBSET Places,
         voices' = Decayed(places), NEW v \in Voices, voices'[v].active
  PROVE  /\ voices[v].active /\ voices'[v].place = voices[v].place
         /\ voices'[v].serial = voices[v].serial
         /\ voices[v].releasing => voices'[v].releasing
         /\ ~voices[v].releasing /\ voices[v].place \in places
              => voices'[v].releasing
<1>1. /\ voices[v].active /\ voices'[v].place = voices[v].place
      /\ voices'[v].serial = voices[v].serial
      /\ voices'[v].releasing <=> voices[v].releasing \/ v \in Held(places)
  BY DecayedShape
<1>2. ASSUME ~voices[v].releasing, voices[v].place \in places
      PROVE  v \in Held(places)
  <2>1. /\ layers[voices[v].place].voice = v
        /\ Matches(voices[v].place)
    BY <1>1, <1>2 DEF VoicesAreTended
  <2>. QED  BY <1>2, <2>1 DEF Held
<1>. QED  BY <1>1, <1>2

\* The voices of a player are stopped.
LEMMA StopLetsGo ==
  ASSUME TypeOK, NEW p \in Players, voices' = Stopped(p),
         NEW v \in Voices, voices'[v].active
  PROVE  /\ voices[v].active /\ voices'[v] = voices[v]
         /\ voices[v].place \notin PlacesOf(p)
  BY StoppedShape DEF PlacesOf

-----------------------------------------------------------------------------
(***************************************************************************)
(* The invariant, by what the actions have in common.                      *)
(***************************************************************************)
\* A step that plays nothing new makes no player sound that did not.
LEMMA NoNewSound ==
  ASSUME StoppedIsSilent, silenced' = silenced,
         \A v \in Voices : voices'[v].active =>
           voices[v].active /\ voices'[v].place = voices[v].place
  PROVE  StoppedIsSilent'
  BY DEF StoppedIsSilent, Sounding, Voices

\* The notes of some layers decay, which may be changed, while the others, and
\* their players and channels, go on.
LEMMA DecayStep ==
  ASSUME VoiceInv, NEW places \in SUBSET Places, voices' = Decayed(places),
         players' \in [Players -> Player],
         channels' \in [Players -> [Channels -> {"on", "off", "leaving"}]],
         layers' \in [Places -> Layer],
         UNCHANGED <<nextSerial, silenced>>,
         \A p \in Players : players'[p].playing => players[p].playing,
         \A x \in Places : \/ layers'[x].voice = NoVoice /\ layers'[x].serial = 0
                           \/ /\ layers'[x].voice = layers[x].voice
                              /\ layers'[x].serial = layers[x].serial,
         \A x \in Places \ places :
           /\ layers'[x] = layers[x]
           /\ players[x[1]].playing => players'[x[1]].playing
           /\ channels[x[1]][x[2]] = "on" => channels'[x[1]][x[2]] = "on"
  PROVE  VoiceInv'
<1>. TypeOK /\ VoicesAreTended
  BY DEF VoiceInv
<1>1. TypeOK'
  <2>1. DOMAIN voices' = Voices
    BY DEF Decayed, Released
  <2>2. \A v \in Voices : voices'[v] \in Note \cup {Quiet}
    BY DecayedShape
  <2>3. Voices' = Voices /\ Places' = Places
    BY DEF Voices, Places
  <2>. QED  BY <2>1, <2>2, <2>3 DEF TypeOK, Player, Layer, Note
<1>2. VoicesAreTended'
  BY DecayLetsGo, LetGo
<1>3. StoppedIsSilent'
  BY DecayLetsGo, NoNewSound DEF VoiceInv
<1>4. SerialsAreOld'
  <2>1. nextSerial \in 1 .. MaxSerial /\ nextSerial' = nextSerial
    BY DEF TypeOK
  <2>2. ASSUME NEW x \in Places
        PROVE  layers'[x].serial <= nextSerial
    <3>1. layers[x].serial <= nextSerial
      BY DEF VoiceInv, SerialsAreOld
    <3>2. layers'[x].serial = 0 \/ layers'[x].serial = layers[x].serial
      OBVIOUS
    <3>. QED  BY <2>1, <3>1, <3>2
  <2>. QED  BY <2>1, <2>2 DEF SerialsAreOld, Places
<1>5. SilencedAreIdle'
  <2>1. silenced \subseteq Players
    BY DEF TypeOK
  <2>. QED  BY <2>1 DEF VoiceInv, SilencedAreIdle
<1>. QED  BY <1>1, <1>2, <1>3, <1>4, <1>5 DEF VoiceInv

\* A player is stopped at once.
LEMMA SilenceStep ==
  ASSUME VoiceInv, NEW p \in Players, Silenced(p), NEW q \in Player,
         ~q.playing, players' = [players EXCEPT ![p] = q]
  PROVE  VoiceInv'
<1>. TypeOK /\ VoicesAreTended
  BY DEF VoiceInv
<1>0. /\ channels' = [channels EXCEPT ![p] = AllOff]
      /\ layers' = Disabled(PlacesOf(p)) /\ voices' = Stopped(p)
      /\ silenced' = silenced \cup {p} /\ nextSerial' = nextSerial
      /\ PlacesOf(p) \in SUBSET Places
  BY PlaceShape DEF Silenced
<1>a. Voices' = Voices /\ Places' = Places
  BY DEF Voices, Places
<1>b. /\ players' \in [Players -> Player]
      /\ channels' \in [Players -> [Channels -> {"on", "off", "leaving"}]]
      /\ \A r \in Players : r # p => players'[r] = players[r]
                                     /\ channels'[r] = channels[r]
      /\ players'[p] = q
  BY <1>0 DEF TypeOK, Player, AllOff
<1>1. TypeOK'
  <2>1. DOMAIN voices' = Voices /\ \A v \in Voices : voices'[v] \in Note \cup {Quiet}
    BY <1>0, StoppedShape
  <2>2. layers' \in [Places -> Layer]
    BY <1>0, LayersShape
  <2>. QED  BY <1>0, <1>a, <1>b, <2>1, <2>2
            DEF TypeOK, Player, Layer, Note
<1>2. VoicesAreTended'
  <2>1. \A v \in Voices : voices'[v].active =>
          voices[v].active /\ voices'[v] = voices[v]
          /\ voices[v].place \notin PlacesOf(p)
    BY <1>0, StopLetsGo
  <2>2. \A x \in Places \ PlacesOf(p) :
          /\ layers'[x] = layers[x]
          /\ players'[x[1]] = players[x[1]] /\ channels'[x[1]] = channels[x[1]]
    BY <1>0, <1>b, LayersShape, PlaceShape DEF PlacesOf
  <2>3. \A x \in Places : /\ layers'[x].voice = layers[x].voice
                          /\ layers'[x].serial = layers[x].serial
    BY <1>0, LayersShape
  <2>. QED  BY <1>0, <2>1, <2>2, <2>3, LetGo
<1>3. StoppedIsSilent'
  <2>1. \A v \in Voices : voices'[v].active =>
          voices[v].active /\ voices'[v] = voices[v] /\ voices[v].place[1] # p
    BY <1>0, StoppedShape
  <2>. QED  BY <1>0, <2>1 DEF VoiceInv, StoppedIsSilent, Sounding, Voices
<1>4. SerialsAreOld'
  BY <1>0, <1>a, LayersShape DEF VoiceInv, SerialsAreOld
<1>5. SilencedAreIdle'
  BY <1>0, <1>b DEF VoiceInv, SilencedAreIdle, TypeOK
<1>. QED  BY <1>1, <1>2, <1>3, <1>4, <1>5 DEF VoiceInv

\* A player is loaded.
LEMMA LoadStep ==
  ASSUME VoiceInv, NEW p \in Players, NEW s \in Sequences,
         NEW fade \in 0 .. MaxFade, PlayerLoad(p, s, fade)
  PROVE  /\ VoiceInv'
         /\ players' = [players EXCEPT ![p] = Loaded(p, s, fade)]
         /\ Loaded(p, s, fade) \in Player
         /\ Loaded(p, s, fade).playing /\ ~Loaded(p, s, fade).pendingStop
         /\ Loaded(p, s, fade).sequence = s
<1>. TypeOK /\ VoicesAreTended
  BY DEF VoiceInv
<1>0. /\ players' = [players EXCEPT ![p] = Loaded(p, s, fade)]
      /\ channels' = [channels EXCEPT ![p] = AllOff]
      /\ layers' = [x \in Places |-> IF x \in PlacesOf(p) THEN NoLayer ELSE layers[x]]
      /\ voices' = Stopped(p)
      /\ silenced' = silenced \ {p} /\ nextSerial' = nextSerial
      /\ PlacesOf(p) \in SUBSET Places
  BY PlaceShape DEF PlayerLoad, PlacesOf
<1>a. Voices' = Voices /\ Places' = Places
  BY DEF Voices, Places
<1>b. /\ Loaded(p, s, fade) \in Player
      /\ Loaded(p, s, fade).playing /\ ~Loaded(p, s, fade).pendingStop
      /\ Loaded(p, s, fade).sequence = s
  <2>1. (fade > 0) \in BOOLEAN
    OBVIOUS
  <2>. QED  BY <2>1, Sizes DEF Loaded, NoPlayer, Player
<1>c. /\ players' \in [Players -> Player]
      /\ channels' \in [Players -> [Channels -> {"on", "off", "leaving"}]]
      /\ \A r \in Players : r # p => players'[r] = players[r]
                                     /\ channels'[r] = channels[r]
  BY <1>0, <1>b DEF TypeOK, Player, AllOff
<1>1. TypeOK'
  <2>1. DOMAIN voices' = Voices /\ \A v \in Voices : voices'[v] \in Note \cup {Quiet}
    BY <1>0, StoppedShape
  <2>2. layers' \in [Places -> Layer]
    BY <1>0, LayersShape
  <2>. QED  BY <1>0, <1>a, <1>c, <2>1, <2>2
            DEF TypeOK, Player, Layer, Note
<1>2. VoicesAreTended'
  <2>1. \A v \in Voices : voices'[v].active =>
          voices[v].active /\ voices'[v] = voices[v]
          /\ voices[v].place \notin PlacesOf(p)
    BY <1>0, StopLetsGo
  <2>2. \A x \in Places \ PlacesOf(p) :
          /\ layers'[x] = layers[x]
          /\ players'[x[1]] = players[x[1]] /\ channels'[x[1]] = channels[x[1]]
    BY <1>0, <1>c, PlaceShape DEF PlacesOf
  <2>3. \A x \in Places : layers'[x].voice = NoVoice \/ layers'[x] = layers[x]
    BY <1>0 DEF NoLayer
  <2>. QED  BY <1>0, <2>1, <2>2, <2>3, LetGo
<1>3. StoppedIsSilent'
  <2>1. \A v \in Voices : voices'[v].active =>
          voices[v].active /\ voices'[v] = voices[v]
    BY <1>0, StoppedShape
  <2>. QED  BY <1>0, <2>1 DEF VoiceInv, StoppedIsSilent, Sounding, Voices
<1>4. SerialsAreOld'
  <2>1. \A x \in Places : layers'[x].serial = 0 \/ layers'[x] = layers[x]
    BY <1>0 DEF NoLayer
  <2>. QED  BY <1>0, <1>a, <2>1 DEF VoiceInv, SerialsAreOld, TypeOK
<1>5. SilencedAreIdle'
  BY <1>0, <1>c DEF VoiceInv, SilencedAreIdle, TypeOK
<1>. QED  BY <1>0, <1>b, <1>1, <1>2, <1>3, <1>4, <1>5 DEF VoiceInv

\* Only the record of a player changes, and not whether it runs.
LEMMA PlayerStep ==
  ASSUME VoiceInv, UNCHANGED <<channels, layers, voices, nextSerial, silenced>>,
         players' \in [Players -> Player],
         \A p \in Players : players'[p].playing = players[p].playing
  PROVE  VoiceInv'
<1>. TypeOK /\ VoicesAreTended
  BY DEF VoiceInv
<1>1. TypeOK'
  BY DEF TypeOK, Player, Voices, Places
<1>2. VoicesAreTended'
  <2>1. \A v \in Voices : voices[v].active => voices[v].place[1] \in Players
    BY VoiceShape, PlaceShape DEF Note
  <2>. QED  BY <2>1 DEF VoicesAreTended, Matches, Voices, Places
<1>3. StoppedIsSilent' /\ SerialsAreOld'
  BY DEF VoiceInv, StoppedIsSilent, Sounding, SerialsAreOld, Voices, Places
<1>4. SilencedAreIdle'
  BY DEF VoiceInv, SilencedAreIdle, TypeOK
<1>. QED  BY <1>1, <1>2, <1>3, <1>4 DEF VoiceInv

\* Voices end or are released, for whatever reason.
LEMMA VoicesStep ==
  ASSUME VoiceInv, UNCHANGED <<players, channels, layers, nextSerial, silenced>>,
         DOMAIN voices' = Voices,
         \A v \in Voices : voices'[v] \in Note \cup {Quiet},
         \A v \in Voices : voices'[v].active =>
           /\ voices[v].active /\ voices'[v].place = voices[v].place
           /\ voices'[v].serial = voices[v].serial
           /\ voices[v].releasing => voices'[v].releasing
  PROVE  VoiceInv'
<1>. TypeOK /\ VoicesAreTended
  BY DEF VoiceInv
<1>1. TypeOK'
  BY DEF TypeOK, Note, Voices, Places
<1>2. VoicesAreTended'
  <2>1. {} \in SUBSET Places
    OBVIOUS
  <2>. QED  BY <2>1, LetGo
<1>3. StoppedIsSilent'
  BY NoNewSound DEF VoiceInv
<1>4. SerialsAreOld' /\ SilencedAreIdle'
  BY DEF VoiceInv, SerialsAreOld, SilencedAreIdle, Places
<1>. QED  BY <1>1, <1>2, <1>3, <1>4 DEF VoiceInv

-----------------------------------------------------------------------------
(***************************************************************************)
(* The actions.                                                            *)
(***************************************************************************)
LEMMA VoiceInit == Init => VoiceInv
<1>. SUFFICES ASSUME Init
              PROVE  VoiceInv
  OBVIOUS
<1>1. TypeOK
  <2>1. NoPlayer \in Player
    BY Sizes DEF NoPlayer, Player
  <2>2. NoLayer \in Layer
    BY Sizes DEF NoLayer, Layer
  <2>3. \A v \in Voices : voices[v] = Quiet
    BY DEF Init
  <2>. QED  BY <2>1, <2>2, <2>3, Sizes DEF Init, TypeOK, Player, Layer, AllOff
<1>2. VoicesAreTended
  <2>1. \A v \in Voices : ~voices[v].active
    BY DEF Init, Quiet
  <2>. QED  BY <2>1 DEF VoicesAreTended, Matches
<1>3. StoppedIsSilent /\ SilencedAreIdle
  BY DEF Init, StoppedIsSilent, SilencedAreIdle
<1>4. SerialsAreOld
  BY DEF Init, SerialsAreOld, NoLayer
<1>. QED  BY <1>1, <1>2, <1>3, <1>4 DEF VoiceInv

\* Calls of the host.
LEMMA StopStep ==
  ASSUME VoiceInv, NEW p \in Players, Stop(p)
  PROVE  VoiceInv'
<1>. DEFINE q == [players[p] EXCEPT !.playing = FALSE, !.pendingStop = FALSE,
                                    !.silent = TRUE, !.fadeLeft = 0]
<1>1. players[p] \in Player
  BY DEF VoiceInv, TypeOK, Player
<1>2. q \in Player /\ ~q.playing
  <2>1. 0 \in 0 .. MaxFade
    BY Sizes
  <2>. QED  BY <1>1, <2>1 DEF Player
<1>3. players' = [players EXCEPT ![p] = q]
  BY DEF Stop, VoiceInv, TypeOK
<1>4. Silenced(p)
  BY DEF Stop
<1>. HIDE DEF q
<1>. QED  BY <1>2, <1>3, <1>4, SilenceStep

\* Every call of the host keeps the invariant.
LEMMA HostStep ==
  ASSUME VoiceInv, Host
  PROVE  VoiceInv'
<1>. TypeOK
  BY DEF VoiceInv
<1>1. ASSUME NEW p \in Players, NEW fade \in 0 .. MaxFade, NEW s \in Sequences,
             Play(p, s, fade)
      PROVE  VoiceInv'
  BY <1>1, LoadStep DEF Play
<1>2. ASSUME NEW p \in Players, NEW fade \in 1 .. MaxFade, StopFading(p, fade)
      PROVE  VoiceInv'
  <2>1. players' = [players EXCEPT ![p] = [players[p] EXCEPT !.pendingStop = TRUE,
                                                            !.fadeLeft = fade]]
    BY <1>2 DEF StopFading, TypeOK
  <2>2. /\ [players[p] EXCEPT !.pendingStop = TRUE, !.fadeLeft = fade] \in Player
        /\ [players[p] EXCEPT !.pendingStop = TRUE, !.fadeLeft = fade].playing
             = players[p].playing
    <3>1. players[p] \in Player /\ fade \in 0 .. MaxFade
      BY Sizes DEF TypeOK, Player
    <3>. QED  BY <3>1 DEF Player
  <2>3. players \in [Players -> Player]
    BY DEF TypeOK, Player
  <2>. QED  BY <1>2, <2>1, <2>2, <2>3, PlayerStep DEF StopFading
<1>3. ASSUME NEW p \in Players, NEW paused \in BOOLEAN, Pause(p, paused)
      PROVE  VoiceInv'
  <2>1. players' = [players EXCEPT ![p] = [players[p] EXCEPT !.paused = paused]]
    BY <1>3 DEF Pause, TypeOK
  <2>2. /\ [players[p] EXCEPT !.paused = paused] \in Player
        /\ [players[p] EXCEPT !.paused = paused].playing = players[p].playing
    BY DEF TypeOK, Player
  <2>3. players \in [Players -> Player]
    BY DEF TypeOK, Player
  <2>. QED  BY <1>3, <2>1, <2>2, <2>3, PlayerStep DEF Pause
<1>4. CASE SfxPlay
  BY <1>4, Sizes, LoadStep DEF SfxPlay
<1>5. ASSUME NEW tagged \in SUBSET Voices, SfxStop(tagged)
      PROVE  VoiceInv'
  <2>1. \A v \in tagged : v \in Voices /\ voices[v].active
    BY <1>5 DEF SfxStop, Sounding
  <2>. QED  BY <1>5, <2>1, ReleasedShape, VoicesType, VoicesStep DEF SfxStop
<1>. QED  BY <1>1, <1>2, <1>3, <1>4, <1>5, StopStep DEF Host

\* Frames.
LEMMA FadedShape ==
  ASSUME TypeOK, NEW p \in Players
  PROVE  /\ Faded(p) \in Player
         /\ Faded(p).playing = players[p].playing
         /\ Faded(p).pendingStop = players[p].pendingStop
         /\ Faded(p).sequence = players[p].sequence
<1>1. players[p] \in Player
  BY DEF TypeOK, Player
<1>2. CASE players[p].fadeLeft = 0
  BY <1>1, <1>2 DEF Faded
<1>3. CASE players[p].fadeLeft # 0
  <2>. DEFINE silent == players[p].pendingStop
                          /\ (players[p].silent \/ players[p].fadeLeft = 1)
  <2>1. Faded(p) = [players[p] EXCEPT !.fadeLeft = players[p].fadeLeft - 1,
                                      !.silent = silent]
    BY <1>3 DEF Faded
  <2>2. silent \in BOOLEAN
    BY <1>1 DEF Player
  <2>3. players[p].fadeLeft - 1 \in 0 .. MaxFade
    BY <1>1, <1>3, Sizes DEF Player
  <2>. HIDE DEF silent
  <2>. QED  BY <1>1, <2>1, <2>2, <2>3 DEF Player
<1>. QED  BY <1>2, <1>3

\* A frame of a player: its fade goes on, or ends and silences it.
LEMMA FrameStep ==
  ASSUME VoiceInv, NEW p \in Players, Frame(p)
  PROVE  VoiceInv'
<1>. TypeOK
  BY DEF VoiceInv
<1>1. CASE Faded(p).pendingStop /\ Faded(p).silent
  <2>. DEFINE q == [Faded(p) EXCEPT !.playing = FALSE, !.pendingStop = FALSE]
  <2>1. q \in Player /\ ~q.playing
    BY FadedShape DEF Player
  <2>2. players' = [players EXCEPT ![p] = q] /\ Silenced(p)
    BY <1>1 DEF Frame
  <2>. HIDE DEF q
  <2>. QED  BY <2>1, <2>2, SilenceStep
<1>2. CASE ~(Faded(p).pendingStop /\ Faded(p).silent)
  <2>1. /\ players' = [players EXCEPT ![p] = Faded(p)]
        /\ UNCHANGED <<channels, layers, voices, nextSerial, silenced>>
    BY <1>2 DEF Frame
  <2>2. players \in [Players -> Player]
    BY DEF TypeOK, Player
  <2>. QED  BY <2>1, <2>2, FadedShape, PlayerStep
<1>. QED  BY <1>1, <1>2

\* A voice comes to its end by itself.
LEMMA EndStep ==
  ASSUME VoiceInv, NEW v \in Voices, VoiceEnds(v)
  PROVE  VoiceInv'
<1>. TypeOK
  BY DEF VoiceInv
<1>1. \A w \in Voices : voices'[w] = IF w = v THEN Quiet ELSE voices[w]
  BY DEF VoiceEnds, TypeOK
<1>2. DOMAIN voices' = Voices
  BY DEF VoiceEnds, TypeOK
<1>3. \A w \in Voices : voices'[w] \in Note \cup {Quiet}
  BY <1>1, VoiceShape
<1>4. \A w \in Voices : voices'[w].active => w # v /\ voices'[w] = voices[w]
  BY <1>1 DEF Quiet
<1>. QED  BY <1>2, <1>3, <1>4, VoicesStep DEF VoiceEnds

\* Commands that end what they name.
LEMMA DisableStep ==
  ASSUME VoiceInv, NEW places \in SUBSET Places,
         voices' = Decayed(places), layers' = Disabled(places),
         players' \in [Players -> Player],
         channels' \in [Players -> [Channels -> {"on", "off", "leaving"}]],
         UNCHANGED <<nextSerial, silenced>>,
         \A p \in Players : players'[p].playing => players[p].playing,
         \A x \in Places \ places :
           /\ players[x[1]].playing => players'[x[1]].playing
           /\ channels[x[1]][x[2]] = "on" => channels'[x[1]][x[2]] = "on"
  PROVE  VoiceInv'
<1>. TypeOK
  BY DEF VoiceInv
<1>1. layers' \in [Places -> Layer]
  BY LayersShape
<1>. QED  BY <1>1, LayersShape, DecayStep

\* The end of a sequence lets go of every note it still holds.
LEMMA FinishStep ==
  ASSUME VoiceInv, NEW p \in Players, PlayerFinish(p)
  PROVE  VoiceInv'
<1>. TypeOK
  BY DEF VoiceInv
<1>0. players[p] \in Player
  BY DEF TypeOK, Player
<1>1. /\ [players[p] EXCEPT !.playing = FALSE] \in Player
      /\ ~[players[p] EXCEPT !.playing = FALSE].playing
  BY <1>0 DEF Player
<1>2. players' = [players EXCEPT ![p] = [players[p] EXCEPT !.playing = FALSE]]
  BY DEF PlayerFinish, TypeOK
<1>3. /\ players' \in [Players -> Player]
      /\ ~players'[p].playing
      /\ \A q \in Players : q # p => players'[q] = players[q]
  BY <1>1, <1>2 DEF TypeOK, Player
<1>4. /\ channels' \in [Players -> [Channels -> {"on", "off", "leaving"}]]
      /\ \A q \in Players : q # p => channels'[q] = channels[q]
  BY DEF PlayerFinish, TypeOK, AllOff
<1>5. /\ PlacesOf(p) \in SUBSET Places
      /\ \A x \in Places \ PlacesOf(p) : x[1] # p /\ x[1] \in Players
  BY PlaceShape DEF PlacesOf
<1>6. \A x \in Places \ PlacesOf(p) :
        players'[x[1]] = players[x[1]] /\ channels'[x[1]] = channels[x[1]]
  BY <1>3, <1>4, <1>5
<1>7. voices' = Decayed(PlacesOf(p)) /\ layers' = Disabled(PlacesOf(p))
  BY DEF PlayerFinish, Decayed
<1>. QED  BY <1>3, <1>4, <1>5, <1>6, <1>7, DisableStep DEF PlayerFinish

\* What a change of one channel does to the table of channels.
LEMMA ChannelsShape ==
  ASSUME TypeOK, NEW p \in Players, NEW c \in Channels,
         NEW state \in {"on", "off", "leaving"},
         channels' = [channels EXCEPT ![p][c] = state]
  PROVE  /\ channels' \in [Players -> [Channels -> {"on", "off", "leaving"}]]
         /\ \A x \in Places \ PlacesIn(p, c) :
              channels'[x[1]][x[2]] = channels[x[1]][x[2]]
         /\ PlacesIn(p, c) \in SUBSET Places
<1>1. channels' \in [Players -> [Channels -> {"on", "off", "leaving"}]]
  BY DEF TypeOK
<1>2. \A q \in Players, d \in Channels :
        channels'[q][d] = IF q = p /\ d = c THEN state ELSE channels[q][d]
  BY DEF TypeOK
<1>3. \A x \in Places \ PlacesIn(p, c) :
        x[1] \in Players /\ x[2] \in Channels /\ ~(x[1] = p /\ x[2] = c)
  BY PlaceShape DEF PlacesIn
<1>. QED  BY <1>1, <1>2, <1>3, PlaceShape

\* A channel is enabled, disabled, or leaves.
LEMMA ChannelStep ==
  ASSUME VoiceInv, NEW p \in Players, NEW c \in Channels,
         \/ ChannelEnable(p, c) \/ ChannelLeaves(p, c)
         \/ \E own \in BOOLEAN : ChannelDisable(p, c, own)
  PROVE  VoiceInv'
<1>. TypeOK
  BY DEF VoiceInv
<1>0. players \in [Players -> Player]
  BY DEF TypeOK, Player
<1>1. CASE ChannelEnable(p, c)
  <2>1. /\ channels' = [channels EXCEPT ![p][c] = "on"]
        /\ layers' = [x \in Places |-> IF x \in PlacesIn(p, c) THEN NoLayer
                                                             ELSE layers[x]]
        /\ voices' = Decayed(PlacesIn(p, c))
        /\ UNCHANGED <<players, nextSerial, silenced>>
    BY <1>1 DEF ChannelEnable
  <2>2. layers' \in [Places -> Layer]
    BY <2>1, ChannelsShape, LayersShape
  <2>3. \A x \in Places : \/ layers'[x].voice = NoVoice /\ layers'[x].serial = 0
                          \/ layers'[x] = layers[x]
    BY <2>1 DEF NoLayer
  <2>4. \A x \in Places \ PlacesIn(p, c) : layers'[x] = layers[x]
    BY <2>1
  <2>5. /\ channels' \in [Players -> [Channels -> {"on", "off", "leaving"}]]
        /\ \A x \in Places \ PlacesIn(p, c) :
             channels'[x[1]][x[2]] = channels[x[1]][x[2]]
        /\ PlacesIn(p, c) \in SUBSET Places
    BY <2>1, ChannelsShape
  <2>6. players' = players /\ UNCHANGED <<nextSerial, silenced>>
    BY <2>1
  <2>7. \A x \in Places : \/ layers'[x].voice = NoVoice /\ layers'[x].serial = 0
                          \/ /\ layers'[x].voice = layers[x].voice
                             /\ layers'[x].serial = layers[x].serial
    BY <2>3
  <2>. QED  BY <1>0, <2>1, <2>2, <2>4, <2>5, <2>6, <2>7, DecayStep
<1>2. ASSUME NEW own \in BOOLEAN, ChannelDisable(p, c, own)
      PROVE  VoiceInv'
  <2>1. /\ channels' = [channels EXCEPT ![p][c] = IF own THEN "leaving" ELSE "off"]
        /\ layers' = Disabled(PlacesIn(p, c))
        /\ voices' = Decayed(PlacesIn(p, c))
        /\ UNCHANGED <<players, nextSerial, silenced>>
    BY <1>2 DEF ChannelDisable
  <2>. QED  BY <1>0, <2>1, ChannelsShape, DisableStep
<1>3. CASE ChannelLeaves(p, c)
  <2>1. /\ channels[p][c] = "leaving"
        /\ channels' = [channels EXCEPT ![p][c] = "off"]
        /\ UNCHANGED <<players, layers, voices, nextSerial, silenced>>
    BY <1>3 DEF ChannelLeaves
  <2>2. TypeOK'
    BY <2>1, ChannelsShape DEF TypeOK, Voices, Places
  <2>3. VoicesAreTended'
    <3>1. \A x \in Places : channels[x[1]][x[2]] = "on"
                              => channels'[x[1]][x[2]] = "on"
      <4>1. \A x \in PlacesIn(p, c) : channels[x[1]][x[2]] = "leaving"
        BY <2>1 DEF PlacesIn
      <4>. QED  BY <2>1, <4>1, ChannelsShape
    <3>2. {} \in SUBSET Places
      OBVIOUS
    <3>. QED  BY <2>1, <3>1, <3>2, LetGo DEF VoiceInv
  <2>4. StoppedIsSilent' /\ SerialsAreOld' /\ SilencedAreIdle'
    BY <2>1 DEF VoiceInv, StoppedIsSilent, Sounding, SerialsAreOld,
                SilencedAreIdle, Voices, Places
  <2>. QED  BY <2>2, <2>3, <2>4 DEF VoiceInv
<1>. QED  BY <1>1, <1>2, <1>3

\* Commands of one layer that start no note.
LEMMA LayerStep ==
  ASSUME VoiceInv, NEW x \in Places,
         \/ LayerEnd(x) \/ LayerNoteSilent(x)
         \/ \E b \in BOOLEAN : LayerEnable(x, b) \/ LayerMute(x, b)
  PROVE  VoiceInv'
<1>. TypeOK
  BY DEF VoiceInv
<1>1. /\ players \in [Players -> Player]
      /\ channels \in [Players -> [Channels -> {"on", "off", "leaving"}]]
      /\ layers \in [Places -> Layer]
  BY DEF TypeOK, Player, Layer
<1>2. /\ voices' = Decayed({x}) /\ {x} \in SUBSET Places
      /\ UNCHANGED <<players, channels, nextSerial, silenced>>
  BY DEF LayerEnd, LayerNoteSilent, LayerEnable, LayerMute
<1>3. ASSUME NEW layer \in Layer, layers' = [layers EXCEPT ![x] = layer],
             \/ layer.voice = NoVoice /\ layer.serial = 0
             \/ layer.voice = layers[x].voice /\ layer.serial = layers[x].serial
      PROVE  VoiceInv'
  <2>1. layers' \in [Places -> Layer]
    BY <1>1, <1>3
  <2>2. \A y \in Places : layers'[y] = IF y = x THEN layer ELSE layers[y]
    BY <1>1, <1>3
  <2>. QED  BY <1>1, <1>2, <1>3, <2>1, <2>2, DecayStep
<1>4. CASE LayerEnd(x)
  <2>1. layers' = [layers EXCEPT ![x] = [layers[x] EXCEPT !.enabled = FALSE]]
    BY <1>1, <1>4 DEF LayerEnd
  <2>2. /\ [layers[x] EXCEPT !.enabled = FALSE] \in Layer
        /\ [layers[x] EXCEPT !.enabled = FALSE].voice = layers[x].voice
        /\ [layers[x] EXCEPT !.enabled = FALSE].serial = layers[x].serial
    BY <1>1 DEF Layer
  <2>. QED  BY <1>3, <2>1, <2>2
<1>5. CASE LayerNoteSilent(x)
  <2>1. layers' = layers
    BY <1>5 DEF LayerNoteSilent
  <2>. QED  BY <1>1, <1>2, <2>1, DecayStep
<1>6. ASSUME NEW b \in BOOLEAN, LayerEnable(x, b)
      PROVE  VoiceInv'
  <2>1. layers' = [layers EXCEPT ![x] = [NoLayer EXCEPT !.enabled = b]]
    BY <1>6 DEF LayerEnable
  <2>2. /\ [NoLayer EXCEPT !.enabled = b] \in Layer
        /\ [NoLayer EXCEPT !.enabled = b].voice = NoVoice
        /\ [NoLayer EXCEPT !.enabled = b].serial = 0
    <3>1. NoLayer \in Layer
      BY <1>2, LayersShape
    <3>2. NoLayer.voice = NoVoice /\ NoLayer.serial = 0
      BY DEF NoLayer
    <3>. QED  BY <3>1, <3>2 DEF Layer
  <2>. QED  BY <1>3, <2>1, <2>2
<1>7. ASSUME NEW b \in BOOLEAN, LayerMute(x, b)
      PROVE  VoiceInv'
  <2>1. layers' = [layers EXCEPT ![x] = [layers[x] EXCEPT !.legato = b]]
    BY <1>1, <1>7 DEF LayerMute
  <2>2. /\ [layers[x] EXCEPT !.legato = b] \in Layer
        /\ [layers[x] EXCEPT !.legato = b].voice = layers[x].voice
        /\ [layers[x] EXCEPT !.legato = b].serial = layers[x].serial
    BY <1>1 DEF Layer
  <2>. QED  BY <1>3, <2>1, <2>2
<1>. QED  BY <1>4, <1>5, <1>6, <1>7

\* A set of natural numbers that is not empty has a least element.
LEMMA LeastExists ==
  ASSUME NEW S, S \subseteq Nat, S # {}
  PROVE  Min(S) \in S
<1>. DEFINE R == OpToRel(<, Nat)
<1>1. IsWellFoundedOn(R, Nat)
  BY NatLessThanWellFounded
<1>2. \A x, y \in Nat : <<y, x>> \in R <=> y < x
  BY DEF OpToRel
<1>. HIDE DEF R
<1>3. PICK x \in S : \A y \in S : ~(<<y, x>> \in R)
  BY <1>1, WFMin
<1>4. \A y \in S : x <= y
  <2>. SUFFICES ASSUME NEW y \in S
                PROVE  x <= y
    OBVIOUS
  <2>1. ~(y < x)
    BY <1>2, <1>3
  <2>. QED  BY <2>1
<1>. QED  BY <1>4 DEF Min

\* voice_allocate always finds a voice of the pool.
LEMMA AvailableShape ==
  ASSUME TypeOK, NEW vs
  PROVE  Available(vs) \subseteq Voices
<1>1. Voices \subseteq Nat
  BY Sizes DEF Voices
<1>2. {v \in Voices : ~vs[v].active} # {}
        => Min({v \in Voices : ~vs[v].active}) \in Voices
  BY <1>1, LeastExists
<1>3. nextSerial % NumVoices \in Voices
  <2>1. nextSerial \in Nat
    BY Sizes DEF TypeOK
  <2>. QED  BY <2>1, Sizes DEF Voices
<1>. QED  BY <1>2, <1>3 DEF Available

\* A layer starts a note, on a voice that may have been another layer's.
LEMMA NoteStep ==
  ASSUME VoiceInv, NEW x \in Places, NEW sound \in Sounds, LayerNote(x, sound)
  PROVE  VoiceInv'
<1>. TypeOK /\ VoicesAreTended
  BY DEF VoiceInv
<1>. DEFINE serial == nextSerial + 1
            note(v) == [active |-> TRUE, releasing |-> FALSE, sound |-> sound,
                        place |-> x, serial |-> serial]
<1>1. PICK v \in Available(Decayed({x})) :
        /\ voices' = [Decayed({x}) EXCEPT ![v] = note(v)]
        /\ layers' = [layers EXCEPT ![x].voice = v, ![x].serial = serial]
  BY DEF LayerNote
<1>2. v \in Voices
  BY AvailableShape
<1>3. /\ LayerRuns(x) /\ nextSerial < MaxSerial /\ nextSerial' = serial
      /\ UNCHANGED <<players, channels, silenced>>
  BY DEF LayerNote
<1>4. /\ nextSerial \in 1 .. MaxSerial /\ serial \in 1 .. MaxSerial
      /\ serial > nextSerial /\ serial \in 0 .. MaxSerial
  BY <1>3, Sizes DEF TypeOK
<1>. HIDE DEF serial
<1>5. /\ note(v) \in Note /\ note(v).active /\ ~note(v).releasing
      /\ note(v).place = x /\ note(v).serial = serial
  BY <1>4 DEF Note
<1>. HIDE DEF note
<1>6. /\ DOMAIN voices' = Voices /\ voices'[v] = note(v)
      /\ \A w \in Voices : w # v => voices'[w] = Decayed({x})[w]
  <2>1. DOMAIN Decayed({x}) = Voices
    BY DEF Decayed, Released
  <2>2. Decayed({x}) = [w \in Voices |-> Decayed({x})[w]]
    BY DEF Decayed, Released
  <2>. QED  BY <1>1, <1>2, <2>1, <2>2
<1>7. /\ layers' \in [Places -> Layer]
      /\ layers'[x].voice = v /\ layers'[x].serial = serial
      /\ layers'[x].enabled = layers[x].enabled
      /\ \A y \in Places : y # x => layers'[y] = layers[y]
  <2>1. layers \in [Places -> Layer]
    BY DEF TypeOK, Layer
  <2>2. layers' = [layers EXCEPT ![x] =
                     [layers[x] EXCEPT !.voice = v, !.serial = serial]]
    BY <1>1, <2>1
  <2>3. /\ [layers[x] EXCEPT !.voice = v, !.serial = serial] \in Layer
        /\ [layers[x] EXCEPT !.voice = v, !.serial = serial].voice = v
        /\ [layers[x] EXCEPT !.voice = v, !.serial = serial].serial = serial
        /\ [layers[x] EXCEPT !.voice = v, !.serial = serial].enabled
             = layers[x].enabled
    BY <1>2, <1>4, <2>1 DEF Layer
  <2>. QED  BY <2>1, <2>2, <2>3
<1>a. Voices' = Voices /\ Places' = Places
  BY DEF Voices, Places
<1>8. TypeOK'
  <2>1. \A w \in Voices : voices'[w] \in Note \cup {Quiet}
    BY <1>5, <1>6, DecayedShape
  <2>2. /\ players' \in [Players -> Player]
        /\ channels' \in [Players -> [Channels -> {"on", "off", "leaving"}]]
        /\ silenced' \subseteq Players /\ nextSerial' \in 1 .. MaxSerial
    BY <1>3, <1>4 DEF TypeOK, Player
  <2>. QED  BY <1>6, <1>7, <1>a, <2>1, <2>2 DEF TypeOK, Player, Layer, Note
<1>9. \A y \in Places : y # x => (Matches(y)' => Matches(y) /\ layers[y].voice # v)
  <2>. SUFFICES ASSUME NEW y \in Places, y # x, Matches(y)'
                PROVE  Matches(y) /\ layers[y].voice # v
    OBVIOUS
  <2>1. layers'[y] = layers[y] /\ layers[y].voice \in Voices
    BY <1>7 DEF Matches, Voices
  <2>2. layers[y].serial # serial
    <3>1. layers[y].serial <= nextSerial
      BY DEF VoiceInv, SerialsAreOld
    <3>2. layers[y].serial \in Nat
      BY Sizes DEF TypeOK
    <3>. QED  BY <1>4, <3>1, <3>2
  <2>3. layers[y].voice # v
    BY <1>5, <1>6, <2>1, <2>2 DEF Matches
  <2>. QED  BY <1>6, <2>1, <2>3, DecayedShape DEF Matches
<1>10. Matches(x)' /\ voices'[v].place = x
  BY <1>2, <1>5, <1>6, <1>7 DEF Matches, Voices
<1>11. VoicesAreTended'
  <2>1. ASSUME NEW w \in Voices, voices'[w].active, ~voices'[w].releasing,
               NEW y, y = voices'[w].place
        PROVE  /\ players'[y[1]].playing /\ channels'[y[1]][y[2]] = "on"
               /\ layers'[y].enabled /\ layers'[y].voice = w /\ Matches(y)'
    <3>1. CASE w = v
      BY <1>3, <1>5, <1>6, <1>7, <1>10, <2>1, <3>1
      DEF LayerRuns, ChannelRuns, Runs
    <3>2. CASE w # v
      <4>1. /\ voices'[w] = Decayed({x})[w] /\ voices[w].active
            /\ ~voices[w].releasing /\ voices[w].place = y
            /\ w \notin Held({x})
        BY <1>6, <2>1, <3>2, DecayedShape
      <4>2. /\ players[y[1]].playing /\ channels[y[1]][y[2]] = "on"
            /\ layers[y].enabled /\ layers[y].voice = w /\ Matches(y)
        BY <4>1 DEF VoicesAreTended
      <4>3. y # x
        BY <4>1, <4>2 DEF Held
      <4>4. y \in Places
        <5>1. voices[w] \in Note
          BY <4>1, VoiceShape
        <5>. QED  BY <4>1, <5>1 DEF Note
      <4>5. layers'[y] = layers[y]
        BY <1>7, <4>3, <4>4
      <4>6. voices'[w].serial = voices[w].serial
        BY <4>1, DecayedShape
      <4>7. Matches(y)'
        BY <2>1, <4>2, <4>5, <4>6 DEF Matches, Voices
      <4>. QED  BY <1>3, <4>2, <4>5, <4>7
    <3>. QED  BY <3>1, <3>2
  <2>2. ASSUME NEW y \in Places, Matches(y)'
        PROVE  voices'[layers'[y].voice].place = y
    <3>1. CASE y = x
      BY <1>7, <1>10, <3>1
    <3>2. CASE y # x
      <4>1. Matches(y) /\ layers[y].voice # v /\ layers'[y] = layers[y]
        BY <1>7, <1>9, <2>2, <3>2
      <4>2. layers[y].voice \in Voices /\ voices[layers[y].voice].place = y
        BY <4>1 DEF Matches, VoicesAreTended
      <4>. QED  BY <1>6, <4>1, <4>2, DecayedShape
    <3>. QED  BY <3>1, <3>2
  <2>. QED  BY <1>a, <2>1, <2>2 DEF VoicesAreTended
<1>12. StoppedIsSilent'
  <2>1. ASSUME NEW p \in silenced, NEW w \in Voices, voices'[w].active,
               voices'[w].place[1] = p
        PROVE  FALSE
    <3>1. CASE w = v
      BY <1>3, <1>5, <1>6, <2>1, <3>1
      DEF LayerRuns, ChannelRuns, Runs, VoiceInv, SilencedAreIdle
    <3>2. CASE w # v
      <4>1. voices[w].active /\ voices[w].place[1] = p
        BY <1>6, <2>1, <3>2, DecayedShape
      <4>. QED  BY <4>1 DEF VoiceInv, StoppedIsSilent, Sounding
    <3>. QED  BY <3>1, <3>2
  <2>. QED  BY <1>3, <1>a, <2>1 DEF StoppedIsSilent, Sounding
<1>13. SerialsAreOld'
  <2>1. \A y \in Places : layers[y].serial \in Nat
    BY Sizes DEF TypeOK
  <2>. QED  BY <1>3, <1>4, <1>7, <1>a, <2>1 DEF VoiceInv, SerialsAreOld
<1>14. SilencedAreIdle'
  BY <1>3 DEF VoiceInv, SilencedAreIdle
<1>. QED  BY <1>8, <1>11, <1>12, <1>13, <1>14 DEF VoiceInv

-----------------------------------------------------------------------------
\* The inductive invariant holds in every state.
LEMMA VoiceInductive == Spec => []VoiceInv
<1>1. VoiceInv /\ [Next]_vars => VoiceInv'
  <2>. SUFFICES ASSUME VoiceInv, [Next]_vars
                PROVE  VoiceInv'
    OBVIOUS
  <2>1. CASE Host
    BY <2>1, HostStep
  <2>2. CASE Scripts
    <3>1. ASSUME NEW p \in Players, NEW q \in Players, NEW s \in Sequences,
                 LoadSequence(p, q, s)
          PROVE  VoiceInv'
      <4>1. 0 \in 0 .. MaxFade
        BY Sizes
      <4>. QED  BY <3>1, <4>1, LoadStep DEF LoadSequence
    <3>2. ASSUME NEW p \in Players, NEW c \in Channels,
                 \/ ChannelEnable(p, c) \/ ChannelLeaves(p, c)
                 \/ \E own \in BOOLEAN : ChannelDisable(p, c, own)
          PROVE  VoiceInv'
      BY <3>2, ChannelStep
    <3>3. ASSUME NEW x \in Places,
                 \/ LayerEnd(x) \/ LayerNoteSilent(x)
                 \/ \E b \in BOOLEAN : LayerEnable(x, b) \/ LayerMute(x, b)
          PROVE  VoiceInv'
      BY <3>3, LayerStep
    <3>4. ASSUME NEW x \in Places, NEW sound \in Sounds, LayerNote(x, sound)
          PROVE  VoiceInv'
      BY <3>4, NoteStep
    <3>5. ASSUME NEW p \in Players, PlayerFinish(p)
          PROVE  VoiceInv'
      BY <3>5, FinishStep
    <3>. QED  BY <2>2, <3>1, <3>2, <3>3, <3>4, <3>5 DEF Scripts
  <2>3. CASE \E p \in Players : Frame(p)
    BY <2>3, FrameStep
  <2>4. CASE \E v \in Voices : VoiceEnds(v)
    BY <2>4, EndStep
  <2>5. CASE UNCHANGED vars
    <3>1. players \in [Players -> Player]
      BY DEF VoiceInv, TypeOK, Player
    <3>. QED  BY <2>5, <3>1, PlayerStep DEF vars
  <2>. QED  BY <2>1, <2>2, <2>3, <2>4, <2>5 DEF Next
<1>. QED  BY VoiceInit, <1>1, PTL DEF Spec

\* Every variable keeps its type, whatever the host calls and whatever the
\* scripts say: no voice number leaves the pool.
THEOREM TypeCorrect == Spec => []TypeOK
  BY VoiceInductive, PTL DEF VoiceInv

\* No note hangs, and no layer takes the note of a thief for its own.
THEOREM NoNoteHangs == Spec => []VoicesAreTended
  BY VoiceInductive, PTL DEF VoiceInv

\* A player that the host has stopped, or that has faded out, makes no sound
\* until it is loaded again.
THEOREM StoppedStaysSilent == Spec => []StoppedIsSilent
  BY VoiceInductive, PTL DEF VoiceInv

-----------------------------------------------------------------------------
(***************************************************************************)
(* Refinement of AudioPlayers.                                             *)
(***************************************************************************)
\* What the host sees of one record, and of all of them.
View(q) == [status |-> Status(q), sequence |-> q.sequence]
Views == [p \in Players |-> View(players[p])]

\* One player changes, as some action of AudioPlayers lets it.
LEMMA OneView ==
  ASSUME TypeOK, NEW p \in Players, NEW q,
         players' = [players EXCEPT ![p] = q],
         \/ View(q) = View(players[p])
         \/ \E s \in Sequences : View(q) = [status |-> "playing", sequence |-> s]
         \/ /\ q.sequence = players[p].sequence
            /\ \/ Status(q) = "idle"
               \/ Status(q) = "fading" /\ Status(players[p]) # "idle"
  PROVE  [Seen!Next]_Views
<1>1. Views' = [Views EXCEPT ![p] = View(q)]
  <2>1. \A r \in Players : players'[r] = IF r = p THEN q ELSE players[r]
    BY DEF TypeOK
  <2>. QED  BY <2>1 DEF Views, View, Status
<1>2. Views[p] = View(players[p])
  BY DEF Views
<1>3. CASE View(q) = View(players[p])
  <2>1. Views' = Views
    BY <1>1, <1>2, <1>3 DEF Views
  <2>. QED  BY <2>1
<1>4. ASSUME NEW s \in Sequences,
             View(q) = [status |-> "playing", sequence |-> s]
      PROVE  Seen!Next
  <2>1. Seen!Load(p, s)
    BY <1>1, <1>4 DEF Seen!Load, Views, View
  <2>. QED  BY <2>1 DEF Seen!Next
<1>5. CASE q.sequence = players[p].sequence /\ Status(q) = "idle"
  <2>1. View(q) = [View(players[p]) EXCEPT !.status = "idle"]
    BY <1>5 DEF View
  <2>2. Seen!Silence(p)
    BY <1>1, <1>2, <2>1 DEF Seen!Silence, Views, View
  <2>. QED  BY <2>2 DEF Seen!Next
<1>6. CASE /\ q.sequence = players[p].sequence
           /\ Status(q) = "fading" /\ Status(players[p]) # "idle"
  <2>1. View(q) = [View(players[p]) EXCEPT !.status = "fading"]
    BY <1>6 DEF View
  <2>2. View(players[p]).status # "idle"
    BY <1>6 DEF View
  <2>3. Seen!FadeOut(p)
    BY <1>1, <1>2, <2>1, <2>2 DEF Seen!FadeOut, Views, View
  <2>. QED  BY <2>3 DEF Seen!Next
<1>. QED  BY <1>3, <1>4, <1>5, <1>6

\* A step that leaves the records of the players alone.
LEMMA SameViews ==
  ASSUME players' = players
  PROVE  [Seen!Next]_Views
  BY DEF Views

\* What each of them shows the host.
LEMMA LoadSeen ==
  ASSUME VoiceInv, NEW p \in Players, NEW s \in Sequences,
         NEW fade \in 0 .. MaxFade, PlayerLoad(p, s, fade)
  PROVE  [Seen!Next]_Views
<1>1. View(Loaded(p, s, fade)) = [status |-> "playing", sequence |-> s]
  BY LoadStep DEF View, Status
<1>. QED  BY <1>1, LoadStep, OneView DEF VoiceInv

LEMMA HostSeen ==
  ASSUME VoiceInv, Host
  PROVE  [Seen!Next]_Views
<1>. TypeOK
  BY DEF VoiceInv
<1>. \A p \in Players : players[p] \in Player
  BY DEF TypeOK, Player
<1>1. ASSUME NEW p \in Players, NEW fade \in 0 .. MaxFade, NEW s \in Sequences,
             Play(p, s, fade)
      PROVE  [Seen!Next]_Views
  BY <1>1, LoadSeen DEF Play
<1>2. ASSUME NEW p \in Players, Stop(p)
      PROVE  [Seen!Next]_Views
  <2>. DEFINE q == [players[p] EXCEPT !.playing = FALSE, !.pendingStop = FALSE,
                                      !.silent = TRUE, !.fadeLeft = 0]
  <2>1. players' = [players EXCEPT ![p] = q]
    BY <1>2 DEF Stop, TypeOK
  <2>2. Status(q) = "idle" /\ q.sequence = players[p].sequence
    BY DEF Player, Status
  <2>. HIDE DEF q
  <2>. QED  BY <2>1, <2>2, OneView
<1>3. ASSUME NEW p \in Players, NEW fade \in 1 .. MaxFade, StopFading(p, fade)
      PROVE  [Seen!Next]_Views
  <2>. DEFINE q == [players[p] EXCEPT !.pendingStop = TRUE, !.fadeLeft = fade]
  <2>1. players' = [players EXCEPT ![p] = q] /\ players[p].playing
    BY <1>3 DEF StopFading, TypeOK
  <2>2. Status(q) = "fading" /\ q.sequence = players[p].sequence
    BY <2>1 DEF Player, Status
  <2>3. Status(players[p]) # "idle"
    BY <2>1 DEF Status
  <2>. HIDE DEF q
  <2>. QED  BY <2>1, <2>2, <2>3, OneView
<1>4. ASSUME NEW p \in Players, NEW paused \in BOOLEAN, Pause(p, paused)
      PROVE  [Seen!Next]_Views
  <2>. DEFINE q == [players[p] EXCEPT !.paused = paused]
  <2>1. players' = [players EXCEPT ![p] = q]
    BY <1>4 DEF Pause, TypeOK
  <2>2. View(q) = View(players[p])
    BY DEF Player, Status, View
  <2>. HIDE DEF q
  <2>. QED  BY <2>1, <2>2, OneView
<1>5. CASE SfxPlay
  BY <1>5, Sizes, LoadSeen DEF SfxPlay
<1>6. ASSUME NEW tagged \in SUBSET Voices, SfxStop(tagged)
      PROVE  [Seen!Next]_Views
  BY <1>6, SameViews DEF SfxStop
<1>. QED  BY <1>1, <1>2, <1>3, <1>4, <1>5, <1>6 DEF Host

LEMMA FrameSeen ==
  ASSUME VoiceInv, NEW p \in Players, Frame(p)
  PROVE  [Seen!Next]_Views
<1>. TypeOK
  BY DEF VoiceInv
<1>1. CASE Faded(p).pendingStop /\ Faded(p).silent
  <2>. DEFINE q == [Faded(p) EXCEPT !.playing = FALSE, !.pendingStop = FALSE]
  <2>1. Status(q) = "idle" /\ q.sequence = players[p].sequence
    BY FadedShape DEF Player, Status
  <2>2. players' = [players EXCEPT ![p] = q]
    BY <1>1 DEF Frame
  <2>. HIDE DEF q
  <2>. QED  BY <2>1, <2>2, OneView
<1>2. CASE ~(Faded(p).pendingStop /\ Faded(p).silent)
  <2>1. players' = [players EXCEPT ![p] = Faded(p)]
    BY <1>2 DEF Frame
  <2>2. View(Faded(p)) = View(players[p])
    BY FadedShape DEF View, Status
  <2>. QED  BY <2>1, <2>2, OneView
<1>. QED  BY <1>1, <1>2

LEMMA ScriptsSeen ==
  ASSUME VoiceInv, Scripts
  PROVE  [Seen!Next]_Views
<1>. TypeOK
  BY DEF VoiceInv
<1>1. ASSUME NEW p \in Players, PlayerFinish(p)
      PROVE  [Seen!Next]_Views
  <2>. DEFINE q == [players[p] EXCEPT !.playing = FALSE]
  <2>1. players' = [players EXCEPT ![p] = q]
    BY <1>1 DEF PlayerFinish, TypeOK
  <2>2. Status(q) = "idle" /\ q.sequence = players[p].sequence
    BY DEF TypeOK, Player, Status
  <2>. HIDE DEF q
  <2>. QED  BY <2>1, <2>2, OneView
<1>2. ASSUME NEW p \in Players, NEW q \in Players, NEW s \in Sequences,
             LoadSequence(p, q, s)
      PROVE  [Seen!Next]_Views
  <2>1. 0 \in 0 .. MaxFade
    BY Sizes
  <2>. QED  BY <1>2, <2>1, LoadSeen DEF LoadSequence
<1>3. CASE \E p \in Players, c \in Channels :
             \/ ChannelEnable(p, c) \/ ChannelLeaves(p, c)
             \/ \E own \in BOOLEAN : ChannelDisable(p, c, own)
  <2>1. players' = players
    BY <1>3 DEF ChannelEnable, ChannelLeaves, ChannelDisable
  <2>. QED  BY <2>1, SameViews
<1>4. CASE \E x \in Places :
             \/ LayerEnd(x) \/ LayerNoteSilent(x)
             \/ \E b \in BOOLEAN : LayerEnable(x, b) \/ LayerMute(x, b)
             \/ \E sound \in Sounds : LayerNote(x, sound)
  <2>1. players' = players
    BY <1>4 DEF LayerEnd, LayerNoteSilent, LayerEnable, LayerMute, LayerNote
  <2>. QED  BY <2>1, SameViews
<1>. QED  BY <1>1, <1>2, <1>3, <1>4 DEF Scripts

\* Refinement: whatever notes, channels and fades do, a host may believe that
\* each player is idle, plays a sequence or fades it out.
THEOREM PlayersRefineSimple == Spec => PlayersAreSimple
<1>1. Init => Seen!Init
  BY DEF Init, Seen!Init, Seen!Idle, NoPlayer, Status
<1>2. VoiceInv /\ [Next]_vars => [Seen!Next]_Views
  <2>. SUFFICES ASSUME VoiceInv, [Next]_vars
                PROVE  [Seen!Next]_Views
    OBVIOUS
  <2>1. CASE \E p \in Players : Frame(p)
    BY <2>1, FrameSeen
  <2>2. CASE (\E v \in Voices : VoiceEnds(v)) \/ UNCHANGED vars
    BY <2>2, SameViews DEF VoiceEnds, vars
  <2>. QED  BY <2>1, <2>2, HostSeen, ScriptsSeen DEF Next
<1>. QED  BY <1>1, <1>2, VoiceInductive, PTL
          DEF Spec, PlayersAreSimple, Seen!Spec, Views, View
================================================================================
