SPECIFICATION FairSpec
CONSTANTS
  Exits = {"exit1", "exit2"}
  Voids = {"void1"}
  Capacity = 2
  Width = 4
INVARIANTS
  TypeOK
  EventsAreInOrder
PROPERTIES
  OncePerStay
  FullQueueIsRetried
