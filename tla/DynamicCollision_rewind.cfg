SPECIFICATION Spec
CONSTANTS
  MaxObjects = 2
  MaxSurfaces = 3
  MaxGeneration = 2
  MaxToken = 2
  Poses = {home, away}
  Sizes = {1, 2}
INVARIANTS
  GeometryIsTransformed
