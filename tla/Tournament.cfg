\* Four processes (two levels, three locks) over a four-slot table that
\* earlier programs may have partly used; fork may fail.
CONSTANTS
  NPETERSONLOCKS = 4
  N = 4
  ForkCanFail = TRUE
  EnvDuringCreate = FALSE
  MaxEnvDestroys = 0
SPECIFICATION Spec
INVARIANT TypeOK
INVARIANT FlagsTrackInterest
PROPERTY ImplementsMutex
PROPERTY StarvationFreedom
\* Every behaviour ends with all processes exited: the program stops.
CHECK_DEADLOCK FALSE
