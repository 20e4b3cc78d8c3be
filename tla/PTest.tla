------------------------------- MODULE PTest -------------------------------
(***************************************************************************)
(* The two-process Peterson lock test user/ptest.c (main) running over the *)
(* kernel lock table of PetersonLock, next to another program that calls  *)
(* peterson_create and peterson_destroy on handles of its choice.          *)
(*                                                                         *)
(* The parent creates one lock and forks; the parent uses role 0, the      *)
(* child role 1; each runs ITER acquire / critical section / release      *)
(* iterations.  A failed acquire or release ends the loop: the parent     *)
(* then (as after the loop) waits for the child and destroys the lock, the *)
(* child exits.  Printing, sleep() and exit codes are left out.           *)
(***************************************************************************)
EXTENDS Integers, FiniteSets

CONSTANTS NPETERSONLOCKS,
          ITER,              \* iterations of the loop (100 in the code)
          MaxEnvCreates,     \* peterson_create calls by the other program
          MaxEnvDestroys,    \* peterson_destroy calls by the other program
          EnvRecreates       \* may it create after it has destroyed?

ASSUME /\ ITER \in Nat \ {0} /\ MaxEnvCreates \in Nat /\ MaxEnvDestroys \in Nat
       /\ EnvRecreates \in BOOLEAN

VARIABLES active, flag, turn,
          pc,         \* pc[p]: where process p is in main()
          lockId,     \* lock_id, inherited by the child at fork
          iter,       \* iter[p]: loop counter i of process p
          envCreates, envDestroys,
          overtaken   \* history: entries of the peer into the critical
                      \* section during p's current wait (no code variable)

K == INSTANCE PetersonLock

vars == <<active, flag, turn, pc, lockId, iter, envCreates, envDestroys,
          overtaken>>

Parent == "parent"
Child == "child"
Procs == {Parent, Child}

\* int role = (fork_ret > 0) ? 0 : 1;
Role(p) == IF p = Parent THEN 0 ELSE 1

Peer(p) == IF p = Parent THEN Child ELSE Parent

\* Where a process goes when its loop ends, normally or by a failed call:
\* the parent waits for the child and destroys the lock, the child exits.
LoopExit(p) == IF p = Parent THEN "wait" ELSE "exited"

Halted == {"exited", "unforked"}

TypeOK ==
  /\ K!TypeOK
  /\ pc \in [Procs -> {"create", "fork", "acquire", "spin", "cs", "wait",
                       "destroy", "exited", "unforked"}]
  /\ lockId \in K!Slots \cup {-1}
  /\ iter \in [Procs -> 0 .. ITER]
  /\ envCreates \in 0 .. MaxEnvCreates
  /\ envDestroys \in 0 .. MaxEnvDestroys
  /\ overtaken \in [Procs -> 0 .. ITER]

\* The kernel after peterson_init and whatever locks earlier programs
\* created and never destroyed (user/tournament.c never destroys its locks).
Init ==
  /\ active \in [K!Slots -> BOOLEAN]
  /\ flag = [i \in K!Slots |-> K!NoInterest]
  /\ turn = [i \in K!Slots |-> 0]
  /\ pc = [p \in Procs |-> IF p = Parent THEN "create" ELSE "unforked"]
  /\ lockId = -1
  /\ iter = [p \in Procs |-> 0]
  /\ envCreates = 0
  /\ envDestroys = 0
  /\ overtaken = [p \in Procs |-> 0]

----------------------------------------------------------------------------
(* Parent and child.                                                       *)

\* lock_id = peterson_create(); a failure ends the program.
CreateLock ==
  /\ pc[Parent] = "create"
  /\ \E id \in K!Slots \cup {-1} :
        /\ K!Create(id)
        /\ lockId' = id
        /\ pc' = [pc EXCEPT ![Parent] = IF id < 0 THEN "exited" ELSE "fork"]
  /\ UNCHANGED <<iter, envCreates, envDestroys>>

\* fork() succeeds: both processes enter the loop.
ForkOk ==
  /\ pc[Parent] = "fork"
  /\ pc' = [pc EXCEPT ![Parent] = "acquire", ![Child] = "acquire"]
  /\ UNCHANGED <<active, flag, turn, lockId, iter, envCreates, envDestroys>>

\* fork() fails: peterson_destroy(lock_id), then exit(1).
ForkFail ==
  /\ pc[Parent] = "fork"
  /\ \E res \in {0, -1} : K!Destroy(lockId, res)
  /\ pc' = [pc EXCEPT ![Parent] = "exited"]
  /\ UNCHANGED <<lockId, iter, envCreates, envDestroys>>

\* peterson_acquire(lock_id, role) up to entering, failing or yielding.
Acquire(p) ==
  /\ pc[p] = "acquire"
  /\ \E res \in {0, -1, K!Yield} :
        /\ K!AcquireEnter(lockId, Role(p), res)
        /\ pc' = [pc EXCEPT ![p] = CASE res = 0 -> "cs"
                                   [] res = K!Yield -> "spin"
                                   [] res = -1 -> LoopExit(p)]
  /\ UNCHANGED <<lockId, iter, envCreates, envDestroys>>

\* The rest of peterson_acquire, after a yield in its wait loop.
Spin(p) ==
  /\ pc[p] = "spin"
  /\ \E res \in {0, -1} :
        /\ K!AcquireRecheck(lockId, Role(p), res)
        /\ pc' = [pc EXCEPT ![p] = IF res = 0 THEN "cs" ELSE LoopExit(p)]
  /\ UNCHANGED <<lockId, iter, envCreates, envDestroys>>

\* for (int i = 0; i < 100; i++): whether iteration i runs.
\* Mutation (the bound written i <= 100):
MoreIterationsInclusive(i) == i <= ITER
MoreIterations(i) == i < ITER

\* Leave the critical section: peterson_release(lock_id, role), then the
\* next iteration or the end of the loop.
ReleaseLock(p) ==
  /\ pc[p] = "cs"
  /\ \E res \in {0, -1} :
        /\ K!Release(lockId, Role(p), res)
        /\ iter' = [iter EXCEPT ![p] = IF res = 0 THEN @ + 1 ELSE @]
        /\ pc' = [pc EXCEPT ![p] =
                    IF res = 0 /\ MoreIterations(iter[p] + 1) THEN "acquire"
                    ELSE LoopExit(p)]
  /\ UNCHANGED <<lockId, envCreates, envDestroys>>

\* wait(0): the parent blocks until the child has exited.
WaitChild ==
  /\ pc[Parent] = "wait"
  /\ pc[Child] = "exited"
  /\ pc' = [pc EXCEPT ![Parent] = "destroy"]
  /\ UNCHANGED <<active, flag, turn, lockId, iter, envCreates, envDestroys>>

\* peterson_destroy(lock_id), then exit.
DestroyLock ==
  /\ pc[Parent] = "destroy"
  /\ \E res \in {0, -1} : K!Destroy(lockId, res)
  /\ pc' = [pc EXCEPT ![Parent] = "exited"]
  /\ UNCHANGED <<lockId, iter, envCreates, envDestroys>>

----------------------------------------------------------------------------
(* Another program using the same system calls.                            *)

EnvCreate ==
  /\ envCreates < MaxEnvCreates
  /\ EnvRecreates \/ envDestroys = 0
  /\ \E id \in K!Slots \cup {-1} : K!Create(id)
  /\ envCreates' = envCreates + 1
  /\ UNCHANGED <<pc, lockId, iter, envDestroys>>

EnvDestroy ==
  /\ envDestroys < MaxEnvDestroys
  /\ \E h \in K!Slots, res \in {0, -1} : K!Destroy(h, res)
  /\ envDestroys' = envDestroys + 1
  /\ UNCHANGED <<pc, lockId, iter, envCreates>>

ProcStep(p) == Acquire(p) \/ Spin(p) \/ ReleaseLock(p)

\* Keeps the history variable: a process's count restarts whenever it is
\* not parked in the wait loop, and grows when its peer enters.
CountOvertakes ==
  overtaken' = [p \in Procs |->
                  IF pc'[p] # "spin" THEN 0
                  ELSE IF pc[Peer(p)] # "cs" /\ pc'[Peer(p)] = "cs"
                       THEN overtaken[p] + 1
                       ELSE overtaken[p]]

Next ==
  /\ \/ CreateLock \/ ForkOk \/ ForkFail \/ WaitChild \/ DestroyLock
     \/ \E p \in Procs : ProcStep(p)
     \/ EnvCreate \/ EnvDestroy
  /\ CountOvertakes

\* The xv6 scheduler runs every runnable process again: each process's
\* steps are weakly fair; the other program need not do anything.
Fairness ==
  /\ WF_vars((CreateLock \/ ForkOk \/ ForkFail \/ WaitChild \/ DestroyLock)
             /\ CountOvertakes)
  /\ \A p \in Procs : WF_vars(ProcStep(p) /\ CountOvertakes)

Spec == Init /\ [][Next]_vars /\ Fairness

----------------------------------------------------------------------------
(* Properties.                                                             *)

\* Peterson mutual exclusion through the system-call interface: the parent
\* (role 0) and the child (role 1) are never in the critical section of
\* ptest's loop at the same time, even when the other program destroys
\* (or re-creates) the lock under them.
MutualExclusion == ~(pc[Parent] = "cs" /\ pc[Child] = "cs")

\* No process of ptest hangs: whatever the other program destroys, and
\* however the scheduler interleaves the two, both eventually exit (a
\* waiter on a destroyed lock gets -1 instead of spinning forever).
Termination == <>(\A p \in Procs : pc[p] \in Halted)

\* Peterson's bounded waiting through the system-call interface: once a
\* process is parked in peterson_acquire's wait loop (its flag raised and
\* the turn handed over), its peer enters the critical section at most
\* once before the waiter gets in or gives up.  It rests on the order of
\* the writes in sys_peterson_acquire (flag, then turn, then the check).
BoundedWaiting == \A p \in Procs : overtaken[p] <= 1

\* What AbstractLock sees of a ptest process: idle until it parks in the
\* wait loop, trying while parked, in the critical section, gone once its
\* loop has ended; the child is idle until forked.
PartyState(p) ==
  CASE pc[p] = "spin" -> "trying"
    [] pc[p] = "cs" -> "cs"
    [] pc[p] \in {"wait", "destroy", "exited"} -> "gone"
    [] OTHER -> "idle"

\* The life of ptest's lock as seen through its handle lock_id.  The parent
\* exits holding a handle only after its own peterson_destroy, so a lock in
\* that slot afterwards is some other program's.
LockLife ==
  CASE lockId = -1 -> "unborn"
    [] active[lockId] /\ pc[Parent] # "exited" -> "alive"
    [] OTHER -> "dead"

Lock == INSTANCE AbstractLock
          WITH Parties <- Procs, st <- [p \in Procs |-> PartyState(p)],
               life <- LockLife

\* ptest's lock, through the system calls, behaves as one two-party lock:
\* the parent and child are never inside together; peterson_acquire and
\* peterson_release succeed only on the live lock and return -1 only
\* once it is destroyed; and the handle never shows a live lock again
\* after its lock was destroyed.
ImplementsLock == Lock!Spec
=============================================================================
