\* ptest.c next to a program that creates a lock of its own and may destroy
\* one handle of its choice (not creating again afterwards), over a
\* two-slot table that earlier programs may have partly used.
CONSTANTS
  NPETERSONLOCKS = 2
  ITER = 3
  MaxEnvCreates = 1
  MaxEnvDestroys = 1
  EnvRecreates = FALSE
SPECIFICATION Spec
INVARIANT TypeOK
INVARIANT MutualExclusion
PROPERTY Termination
INVARIANT BoundedWaiting
PROPERTY ImplementsLock
\* Every behaviour ends with both processes exited: the program stops.
CHECK_DEADLOCK FALSE
