SPECIFICATION Spec
CONSTANTS
  s1 = s1
  s2 = s2
  r1 = r1
  m1 = m1
  w1 = w1
  w2 = w2
  cpp = cpp
  java = java
  Submissions = {s1, s2}
  RunCalls = {r1}
  JudgeCalls = {}
  Workers = {w1, w2}
  Languages = {cpp, java}
  Lang <- MixedLang
  CheckerLang <- MixedChecker
  Supports <- MixedSupports
  Verdicts = {"Accepted", "WrongAnswer"}
  Db = Db
  NoJob = NoJob
  RxCap = 1
  MaxFaults = 2
INVARIANTS
  TypeOK
  AtMostOnce
  VerdictIsItsOwn
  WaitingIsAccountedFor
PROPERTIES
  ServiceSpec
CHECK_DEADLOCK FALSE
