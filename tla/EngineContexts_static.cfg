SPECIFICATION Spec
CONSTANTS
  Threads = {t1, t2}
  Engines = {e1, e2}
  NoEngine = NoEngine
  NoImage = NoImage
  Absent = Absent
  MultiInstance = FALSE
  MaxTicks = 2
PROPERTIES
  OkIsTruthful
