SPECIFICATION FairSpec
CONSTANTS
  s1 = s1
  s2 = s2
  r1 = r1
  m1 = m1
  w1 = w1
  w2 = w2
  cpp = cpp
  java = java
  Submissions = {s1}
  RunCalls = {}
  JudgeCalls = {}
  Workers = {w1}
  Languages = {cpp}
  Lang <- SameLang
  CheckerLang <- SameChecker
  Supports <- SameSupports
  Verdicts = {"Accepted", "WrongAnswer"}
  Db = Db
  NoJob = NoJob
  RxCap = 2
  MaxFaults = 0
PROPERTIES
  EverySubmissionIsJudged
CHECK_DEADLOCK FALSE
