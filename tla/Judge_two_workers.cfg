SPECIFICATION Spec
CONSTANTS
  w1 = w1
  w2 = w2
  cppJob = cppJob
  javaJob = javaJob
  pyJob = pyJob
  emptyJob = emptyJob
  genJob = genJob
  checker = checker
  generator = generator
  Workers = {w1, w2}
  Judgements = {cppJob, javaJob}
  RunJobs = {genJob}
  Programs = {checker}
  Program <- SharedProgram
  Output <- OneFile
  NoOutput = NoOutput
  Silent = {javaJob}
  TestCount <- Counts
  Nobody = Nobody
  MaxCrashes = 1
INVARIANTS
  TypeOK
  AcceptedIsEarned
  VerdictNamesTheFailure
  RunsOwnProgram
  PartialOnlyAfterCrash
PROPERTIES
  ContractSpec
CHECK_DEADLOCK FALSE
