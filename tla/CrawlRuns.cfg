CONSTANTS
  Runs = {"r1", "r2"}
  NoRun = NoRun
  Jobs = {"j1", "j2"}
  NoJob = NoJob
  Workers = {"w1", "w2"}
  Handlers = {"h1", "h2"}
  MaxCrashes = 1
  MaxDuplicates = 1
SPECIFICATION FairSpec
INVARIANTS TypeOK SucceededHasCrawled JobKeepsItsRow TaskIdNamesJob
PROPERTIES NeverQueuedAgain PublishedRunStarts
CHECK_DEADLOCK FALSE
