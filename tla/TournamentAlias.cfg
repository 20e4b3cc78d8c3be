\* The four-process tree next to a program that destroys one handle of its
\* choice while tournament_create is still allocating the tree's locks.
CONSTANTS
  NPETERSONLOCKS = 4
  N = 4
  ForkCanFail = FALSE
  EnvDuringCreate = TRUE
  MaxEnvDestroys = 1
SPECIFICATION Spec
PROPERTY ImplementsMutex
CHECK_DEADLOCK FALSE
