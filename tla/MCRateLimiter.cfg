\* Two in two ticks; two threads or servers; one death of a server.
CONSTANTS
  u1 = u1
  u2 = u2
  User = {u1, u2}
  Thread = {t1, t2}
  LIMIT = 2
  WINDOW = 2
  Asks <- AllAsks
  MaxCrashes = 1
SPECIFICATION FairSpec
INVARIANTS
  QuotaKept
PROPERTIES
  DenialsEarned
  RetryAfterHonoured
  EventuallyAllowed
CHECK_DEADLOCK FALSE
