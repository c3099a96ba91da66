\* Two scan requests, a cancel call and a chained match on one worker, with
\* shutdown, crash and restart.
SPECIFICATION FairScanSpec
CONSTANTS
  Jobs = {j1, j2}
  Payloads <- ScanPayloads
  NoPayload = none
  Workers = 1
  Events = {"shutdown", "crash"}
  Requests = {q1, q2}
  Cancelers = {c1}
  Libraries = {l1}
  NoJob = nojob
  HasProviders = TRUE
  Serial = TRUE
CHECK_DEADLOCK FALSE
INVARIANTS CancelReachesRunningScans
PROPERTIES  ChainedJobsAreWaitedFor  ShutdownCompletes JobsSettleWhileUp
