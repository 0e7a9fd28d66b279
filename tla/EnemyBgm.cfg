SPECIFICATION Spec
CONSTANTS
  Players = {main, sub}
  Sequences = {seq0, theme}
  Sequence0 = seq0
  Theme = theme
  DefaultPlayer = sub
  BgmPlayers = {sub}
  HostPlayers = {main, sub}
INVARIANTS
  ThemeIsKnown
