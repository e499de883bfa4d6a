\* Liveness: two workers, one job; one crash, one lost reply, one steal.
CONSTANTS
  Worker = {w1, w2}
  Job = {j1}
  MAX_RETRIES = 2
  MaxCrashes = 1
  MaxErrors = 1
  MaxSteals = 1
SPECIFICATION FairSpec
PROPERTIES
  EventuallySettled
