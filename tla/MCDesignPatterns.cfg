\* Three callers and three faults at a breaker of three failures; two loops and
\* five commands of two keys; two clients with three calls of two leads; two
\* workers and three jobs; two wallets of three, a key that is not there; three
\* subscriptions by two listeners and two publications.
CONSTANTS
  Caller = {c1, c2, c3}
  MAX_FAILURES = 3
  RESET_AFTER = 2
  MaxFaults = 3
  Worker = {w1, w2}
  Key = {k1, k2}
  MaxCommands = 5
  Client = {a1, a2}
  Lead = {l1, l2}
  ATTEMPTS = 3
  Channel = {"email", "vendor"}
  MaxCalls = 3
  Consumer = {p1, p2}
  Job = {j1, j2, j3}
  Level = {"basic", "safe"}
  Account = {b1, b2}
  Unknown = {b3}
  BALANCE = 3
  Amount <- MCAmount
  MaxTaken = 4
  Listener = {h1, h2}
  Publication = {e1, e2}
  MaxSubscriptions = 3
SPECIFICATION FairSpec
INVARIANTS
  WastedCallsBounded
  CommandsAccountedFor
  ContactedMeansTold
  SafeKeepsJobs
  CancellationIsFinal
  TransfersWhole
  ToldInOrder
PROPERTIES
  RecoversAfterOutage
CHECK_DEADLOCK FALSE
