\* One client that retries, one event that is rolled back.
CONSTANTS
  k1 = k1
  k2 = k2
  u1 = u1
  Caller = {c1}
  Key = {k1, k2}
  User = {u1}
  Body <- MCBody
  MaxOrders = 3
  EventId = {e1}
  Payload <- MCPayload
  MaxErrors = 1
SPECIFICATION Spec
INVARIANTS
  SameKeySameOrder
