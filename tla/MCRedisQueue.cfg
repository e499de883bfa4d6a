\* Safety: two workers, two jobs; one crash, one lost reply, one steal.
CONSTANTS
  Worker = {w1, w2}
  Job = {j1, j2}
  MAX_RETRIES = 3
  MaxCrashes = 1
  MaxErrors = 1
  MaxSteals = 1
SPECIFICATION Spec
SYMMETRY Symmetry
INVARIANTS
  TypeOK
  UniqueUnlessStolen
  AttemptsCountFailures
PROPERTIES
  NoSilentLoss
  FirstInFirstOut
  ImplementsJobQueue
