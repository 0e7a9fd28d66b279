SPECIFICATION FairSpec
CONSTANTS
  Threads = {t1, t2}
  Engines = {e1, e2}
  NoEngine = NoEngine
  NoImage = NoImage
  Absent = Absent
  MultiInstance = TRUE
  MaxTicks = 2
INVARIANTS
  TypeOK
  GuardExclusion
  ImagesMatchHandles
  CleanBoot
  NothingDanglesOrLeaks
  HookReachesCaller
PROPERTIES
  EnginesAreIsolated
  GuardIsReleased
