SPECIFICATION FairSpec
CONSTANTS
  t1 = t1
  s1 = s1
  s2 = s2
  l1 = l1
  i1 = i1
  i2 = i2
  PoolSize = 2
  Threads = {t1}
  Main = Main
  Db = Db
  Shorts = {s1, s2}
  Submissions = {s1}
  Logins = {l1}
  Imports = {i1, i2}
  Calls = 2
  MaxLost = 1
INVARIANTS
  StarvedByWaiters
PROPERTIES
  EveryRequestEnds
CHECK_DEADLOCK FALSE
