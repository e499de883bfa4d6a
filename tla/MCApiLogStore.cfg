\* Two calls; caps of one and two records; two deletes, clears, new caps or
\* deaths of the process in any combination.
CONSTANTS
  MaxCalls = 2
  Caps = {1, 2}
  MaxUpsets = 2
SPECIFICATION FairSpec
INVARIANTS
  KeepsNewest
  IndexBounded
  OrphansExplained
PROPERTIES
  ViewCatchesUp
CHECK_DEADLOCK FALSE
