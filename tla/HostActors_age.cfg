SPECIFICATION ActorSpec
CONSTANTS
  Buttons = {}
  Scenes = {}
  Statics = {static1}
  NoWorld = NoWorld
  HasChild = TRUE
  Step = 3
  Tolerance = 1
  MaxSubsteps = 1
  MaxElapsed = 0
  TargetSlots = 1
  ActorSlots = 2
  PoolSize = 2
  QueueCapacity = 2
  MaxToken = 4
PROPERTIES
  AgeChangeDestroysActors
