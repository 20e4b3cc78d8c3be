\* ptest.c next to a program that destroys a handle of its choice and then
\* creates a lock, which the kernel may place in the slot just freed.
CONSTANTS
  NPETERSONLOCKS = 2
  ITER = 2
  MaxEnvCreates = 1
  MaxEnvDestroys = 1
  EnvRecreates = TRUE
SPECIFICATION Spec
INVARIANT MutualExclusion
CHECK_DEADLOCK FALSE
