SPECIFICATION Spec
CONSTANTS
  Scenes = {s1, s2}
  Rooms = 2
  Slots = 3
  MaxRevision = 4
  Textures <- MCTextures
INVARIANTS TypeOK DrawnAsMeant HostCopyIsHonest
SYMMETRY SceneSymmetry
