\* The four-process tree next to a program that destroys one handle of its
\* choice (a tree lock or not) once the tree is built; fork may fail.
CONSTANTS
  NPETERSONLOCKS = 4
  N = 4
  ForkCanFail = TRUE
  EnvDuringCreate = FALSE
  MaxEnvDestroys = 1
SPECIFICATION Spec
PROPERTY ImplementsMutex
\* Every behaviour ends with all processes exited or stuck waiting on a
\* flag no process will clear: the program stops.
CHECK_DEADLOCK FALSE
