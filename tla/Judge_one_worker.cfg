SPECIFICATION FairSpec
CONSTANTS
  w1 = w1
  w2 = w2
  cppJob = cppJob
  javaJob = javaJob
  pyJob = pyJob
  emptyJob = emptyJob
  genJob = genJob
  checker = checker
  generator = generator
  Workers = {w1}
  Judgements = {cppJob, pyJob, emptyJob}
  RunJobs = {genJob}
  Programs = {checker, generator}
  Program <- OneProgram
  Output <- OutputFile
  NoOutput = NoOutput
  Silent = {}
  TestCount <- Counts
  Nobody = Nobody
  MaxCrashes = 1
PROPERTIES
  CacheStaysWhole
  WorkerComesBack
CHECK_DEADLOCK FALSE
