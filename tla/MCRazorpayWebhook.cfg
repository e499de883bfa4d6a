\* Two concurrent requests, two keys, three orders, two events, one raise.
CONSTANTS
  k1 = k1
  k2 = k2
  u1 = u1
  Caller = {c1, c2}
  Key = {k1, k2}
  User = {u1}
  Body <- MCBody
  MaxOrders = 3
  EventId = {e1, e2}
  Payload <- MCPayload
  MaxErrors = 1
SPECIFICATION FairSpec
INVARIANTS
  CreditsMatchPaidOrders
  PaidIffCaptured
  AnswersAgreeUnlessUndone
PROPERTIES
  OnlyAllowedTransitions
  EventuallyRecorded
