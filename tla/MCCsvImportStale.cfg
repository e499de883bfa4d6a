\* One worker that dies once, between a chunk's COMMIT and its hset.
CONSTANTS
  j1 = j1
  t1 = t1
  a = a
  b = b
  c = c
  Bad = Bad
  Email = {a, b, c}
  Job = {j1}
  Worker = {w1}
  Tenant <- MCTenant
  File <- MCFile
  CHUNK_SIZE = 2
  MaxCrashes = 1
SPECIFICATION Spec
INVARIANTS
  DoneShowsAllRows
CHECK_DEADLOCK FALSE
