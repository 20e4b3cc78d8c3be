\* Two creators and two destroys over a three-slot table that earlier
\* programs may have partly used, with acquires and releases on any slot.
CONSTANTS
  NPETERSONLOCKS = 3
  Creators = {c1, c2}
  MaxDestroys = 2
SPECIFICATION Spec
INVARIANT TypeOK
PROPERTY ImplementsAtomicCreate
PROPERTY CreateReturns
\* Once the calls are made the callers may stop.
CHECK_DEADLOCK FALSE
