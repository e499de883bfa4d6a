\* One worker that dies once is enough to lose a job.
CONSTANTS
  Worker = {w1}
  Job = {j1}
  MAX_RETRIES = 3
  MaxCrashes = 1
  MaxErrors = 0
  MaxSteals = 0
SPECIFICATION Spec
INVARIANTS
  NoJobLost
