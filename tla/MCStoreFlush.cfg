SPECIFICATION FairSpec
CONSTANTS
  s1 = s1
  s2 = s2
  Stores = {s1}
  NoStore = NoStore
  c1 = c1
  Callers = {c1}
  t1 = t1
  Timers = {t1}
  NoThread = NoThread
  MaxGen <- OneStore
  SerializeFaults = FALSE
INVARIANTS
  UnpersistedIsReported
PROPERTIES
  EventuallyDurableOrReported
  CloseReleases
CHECK_DEADLOCK FALSE
