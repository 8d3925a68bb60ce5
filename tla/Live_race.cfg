SPECIFICATION FairSpec
CONSTANTS
  s1 = s1
  s2 = s2
  g1 = g1
  p1 = p1
  c1 = c1
  c2 = c2
  Submissions = {s1}
  RunResults = {}
  Instant <- MCInstant
  Never = 3
  Outcome <- MCOutcome
  Pages = {p1}
  Connections = {c1}
  Nothing = Nothing
  Db = Db
  Sse = Sse
  ClientCap = 3
  MaxDrops = 0
  RxCap = 2
PROPERTIES
  PageShowsVerdict
CHECK_DEADLOCK FALSE
