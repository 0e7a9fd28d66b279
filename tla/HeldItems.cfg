SPECIFICATION Spec
CONSTANTS
  Slots = 2
  MaxExplosives = 2
  Fuse = 3
  LastOffer = 1
  Burst = 1
  Reach = 2
  Flight = 1
  HostBombs = TRUE
  PatientHost = TRUE
INVARIANTS TypeOK HoldIsMutual PutAwayIsComplete
PROPERTIES NothingStaysOut
