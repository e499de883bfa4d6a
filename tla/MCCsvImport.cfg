\* Two workers, two uploads, two deaths anywhere.
CONSTANTS
  j1 = j1
  t1 = t1
  a = a
  b = b
  c = c
  Bad = Bad
  Email = {a, b, c}
  Job = {j1, j2}
  Worker = {w1, w2}
  Tenant <- MCTenant
  File <- MCFile
  CHUNK_SIZE = 2
  MaxCrashes = 2
SPECIFICATION FairSpec
INVARIANTS
  TypeOK
  CheckpointMatchesData
  ProgressTrailsDatabase
PROPERTIES
  ProgressNeverGoesBack
  EveryUploadFinishes
CHECK_DEADLOCK FALSE
