SPECIFICATION Spec
CONSTANTS
  s1 = s1
  s2 = s2
  Stores = {s1, s2}
  NoStore = NoStore
  c1 = c1
  Callers = {c1}
  t1 = t1
  Timers = {t1}
  NoThread = NoThread
  MaxGen <- TwoStores
  SerializeFaults = TRUE
INVARIANTS
  TypeOK
  ImagesAreStates
  NothingForgotten
  BlobOpens
  CleanCloseIsDurable
PROPERTIES
  StaleNeverOverwrites
  SingleWriter
  ImplementsLog
CHECK_DEADLOCK FALSE
