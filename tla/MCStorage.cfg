SPECIFICATION Spec
CONSTANTS
  x = x
  y = y
  Namespaces = {n1}
  Keys = {k1}
  QueueNames = {q1, q2}
  Tables = {"kv", "cache"}
  Sizes = {2}
  Msgs = {x, y}
  SizeOf <- OneEach
  Limits = {0, 3}
  Lifetimes = {0, 1}
  Nothing = Nothing
  MaxId = 2
  MaxTime = 1
INVARIANTS
  TypeOK
  NeverServedExpired
PROPERTIES
  QuotaCeiling
  ImplementsMailboxes
