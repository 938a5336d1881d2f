SPECIFICATION FairSpec
CONSTANTS
  q1 = q1
  q2 = q2
  Reqs = {q1, q2}
  Main = Main
  s1 = s1
  Servers = {s1}
  r1 = r1
  Timers = {r1}
  pw1 = pw1
  Passwords = {pw1}
  MaxOpens = 2
  MaxWrites = 2
  NoThread = NoThread
INVARIANTS
  TypeOK
  KeyOpensBlob
  DriveHasOwner
  AcceptedIsSealed
PROPERTIES
  WritesAreAuthorised
  IdleIsLocked
