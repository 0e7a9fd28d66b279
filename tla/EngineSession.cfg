SPECIFICATION Spec
CONSTANTS
  Buttons = {A, B}
  Scenes = {scene1, scene2}
  Statics = {static1}
  NoWorld = NoWorld
  HasChild = TRUE
  Step = 3
  Tolerance = 1
  MaxSubsteps = 2
  MaxElapsed = 8
SYMMETRY Interchangeable
INVARIANTS
  TypeOK
  PublishedIsCurrent
  StepsAreExact
PROPERTIES
  LatchedPressSurvives
  ItemsObeyAgeOnceShown
