\* The four-process tree next to a program that destroys one handle of its
\* choice: does tournament_acquire always return?
CONSTANTS
  NPETERSONLOCKS = 4
  N = 4
  ForkCanFail = FALSE
  EnvDuringCreate = FALSE
  MaxEnvDestroys = 1
SPECIFICATION Spec
PROPERTY AcquireReturns
CHECK_DEADLOCK FALSE
