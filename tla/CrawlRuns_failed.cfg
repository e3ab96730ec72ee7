CONSTANTS
  Runs = {"r1", "r2"}
  NoRun = NoRun
  Jobs = {"j1", "j2"}
  NoJob = NoJob
  Workers = {"w1", "w2"}
  Handlers = {"h1"}
  MaxCrashes = 1
  MaxDuplicates = 1
SPECIFICATION Spec
INVARIANT FailedRunRecorded
CHECK_DEADLOCK FALSE
