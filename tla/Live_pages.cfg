SPECIFICATION FairSpec
CONSTANTS
  s1 = s1
  s2 = s2
  g1 = g1
  p1 = p1
  c1 = c1
  c2 = c2
  Submissions = {s1, s2}
  RunResults = {g1}
  Instant <- MCInstant
  Never = 3
  Outcome <- MCOutcome
  Pages = {p1}
  Connections = {c1, c2}
  Nothing = Nothing
  Db = Db
  Sse = Sse
  ClientCap = 2
  MaxDrops = 1
  RxCap = 1
INVARIANTS
  TypeOK
  StaleViewHasCause
  ScoreIsListed
PROPERTIES
  ScoreOnlyImproves
  GoneClientsLeave
  PageCatchesUp
CHECK_DEADLOCK FALSE
