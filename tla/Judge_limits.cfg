SPECIFICATION Spec
CONSTANTS
  w1 = w1
  w2 = w2
  cppJob = cppJob
  javaJob = javaJob
  pyJob = pyJob
  emptyJob = emptyJob
  genJob = genJob
  checker = checker
  generator = generator
  Workers = {w1}
  Judgements = {cppJob}
  RunJobs = {}
  Programs = {checker}
  Program <- OneProgram
  Output <- OutputFile
  NoOutput = NoOutput
  Silent = {}
  TestCount <- Counts
  Nobody = Nobody
  MaxCrashes = 0
INVARIANTS
  AcceptedWithinLimits
CHECK_DEADLOCK FALSE
