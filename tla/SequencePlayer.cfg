SPECIFICATION FairSpec
CONSTANTS
  Players = {main, sfx}
  SfxPlayer = sfx
  Channels = {c1}
  Layers = {l1}
  NumVoices = 1
  Sequences = {seq0}
  Sequence0 = seq0
  Sounds = {s1}
  MaxSerial = 3
  MaxFade = 1
INVARIANTS
  TypeOK
  VoicesAreTended
  StoppedIsSilent
PROPERTIES
  PlayersAreSimple
  FadeOutEnds
