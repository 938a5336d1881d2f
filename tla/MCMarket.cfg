SPECIFICATION Spec
CONSTANTS
  ann = ann
  tool = tool
  v1 = v1
  v2 = v2
  m1 = m1
  m2 = m2
  src1 = src1
  src2 = src2
  w1 = w1
  w2 = w2
  r1 = r1
  Works = {w1, w2}
  Offers <- Contents
  DailyLimit = 2
  MayDie = TRUE
  Nothing = Nothing
  Gets = {r1}
  Wanted = {Nothing, v1}
  Hosts = {"domain", "mirror"}
SYMMETRY Submissions
INVARIANTS
  TypeOK
  BadgeIsEarned
  UnverifiedIsQueued
  BudgetIsCounted
  PublishRepairs
  InstalledIsReviewed
PROPERTIES
  PublishedStays
  NoRollback
