----------------------------- MODULE Tournament -----------------------------
(***************************************************************************)
(* The tournament tree: user/tournament.c (main) driving the library       *)
(* tournament_create / tournament_acquire / tournament_release (user/     *)
(* libtournament.c, in src/user/ptest.c) over the kernel lock table of     *)
(* PetersonLock.                                                           *)
(*                                                                         *)
(* Process 0 is the original caller; it allocates the N-1 locks (breadth   *)
(* first, root at array index 0) and forks children 1 .. N-1 in order,     *)
(* each inheriting the lock array and its own id.  Every process then      *)
(* acquires its locks from level L-1 up to the root, runs its critical     *)
(* section, releases from the root down, and exits; process 0 first waits *)
(* for its N-1 children.  A process is identified by its tournament id.    *)
(* Printing, malloc and exit codes are left out; N = 1, where acquire and  *)
(* release do nothing, is not modelled.                                    *)
(***************************************************************************)
EXTENDS Integers, Sequences, FiniteSets, TreeIndex

CONSTANTS NPETERSONLOCKS,
          N,              \* num_processes, the program's argument
          ForkCanFail,    \* whether fork() may fail (no free process slot)
          MaxEnvDestroys, \* peterson_destroy calls by another program
          EnvDuringCreate \* whether it may call them while tournament_create
                          \* is still allocating the tree's locks

ASSUME /\ ValidCount(N) /\ N > 1
       /\ ForkCanFail \in BOOLEAN /\ EnvDuringCreate \in BOOLEAN
       /\ MaxEnvDestroys \in Nat

VARIABLES active, flag, turn,
          pc,          \* pc[p]: where process p is
          lockIds,     \* peterson_lock_ids_array, as far as it is filled
          lvl,         \* lvl[p]: the loop variable l of acquire / release
          nextChild,   \* the fork loop's i: the id the next child gets
          envDestroys

K == INSTANCE PetersonLock

vars == <<active, flag, turn, pc, lockIds, lvl, nextChild, envDestroys>>

Procs == 0 .. N - 1
Children == 1 .. N - 1

\* L_levels, computed by tournament_create.
L == Log2IfPowerOf2(N)

\* The kernel lock and role process p uses at level l.
LockAt(p, l) == lockIds[ArrayIdx(p, l, L) + 1]
Role(p, l) == RoleAt(p, l, L)

TypeOK ==
  /\ K!TypeOK
  /\ pc \in [Procs -> {"create", "fork", "acquire", "spin", "cs", "release",
                       "wait", "exited", "unforked"}]
  /\ lockIds \in Seq(K!Slots \cup {-1})
  /\ Len(lockIds) <= N - 1
  /\ lvl \in [Procs -> 0 .. L - 1]
  /\ nextChild \in 1 .. N
  /\ envDestroys \in 0 .. MaxEnvDestroys

\* The lock table holds whatever earlier programs left allocated (this
\* program, like them, never destroys its locks).
Init ==
  /\ active \in [K!Slots -> BOOLEAN]
  /\ flag = [i \in K!Slots |-> K!NoInterest]
  /\ turn = [i \in K!Slots |-> 0]
  /\ pc = [p \in Procs |-> IF p = 0 THEN "create" ELSE "unforked"]
  /\ lockIds = <<>>
  /\ lvl = [p \in Procs |-> L - 1]
  /\ nextChild = 1
  /\ envDestroys = 0

----------------------------------------------------------------------------
(* tournament_create, run by process 0.                                    *)

\* peterson_lock_ids_array[i] = peterson_create(); a failure makes
\* tournament_create return -1 (the locks created so far stay allocated)
\* and main exit.
AllocLock ==
  /\ pc[0] = "create"
  /\ \E id \in K!Slots \cup {-1} :
        /\ K!Create(id)
        /\ lockIds' = Append(lockIds, id)
        /\ pc' = [pc EXCEPT ![0] = CASE id < 0 -> "exited"
                                   [] Len(lockIds) + 1 = N - 1 -> "fork"
                                   [] OTHER -> "create"]
  /\ UNCHANGED <<lvl, nextChild, envDestroys>>

\* fork() for id nextChild succeeds; after the last one tournament_create
\* returns 0 to process 0, which goes on to tournament_acquire.
ForkOk ==
  /\ pc[0] = "fork"
  /\ pc' = [pc EXCEPT ![nextChild] = "acquire",
                      ![0] = IF nextChild = N - 1 THEN "acquire" ELSE "fork"]
  /\ nextChild' = nextChild + 1
  /\ UNCHANGED <<active, flag, turn, lockIds, lvl, envDestroys>>

\* fork() fails: tournament_create returns -1 and process 0 exits; the
\* children forked so far carry on.
ForkFail ==
  /\ ForkCanFail
  /\ pc[0] = "fork"
  /\ pc' = [pc EXCEPT ![0] = "exited"]
  /\ UNCHANGED <<active, flag, turn, lockIds, lvl, nextChild, envDestroys>>

----------------------------------------------------------------------------
(* tournament_acquire and tournament_release, run by every process.        *)

\* After peterson_acquire returned res at level lvl[p]: on 0 go up one
\* level or, past the root, into the critical section; on -1 the process
\* exits holding the levels below (no rollback).
AfterAcquire(p, res) ==
  CASE res = 0 /\ lvl[p] = 0 -> /\ pc' = [pc EXCEPT ![p] = "cs"]
                                /\ UNCHANGED lvl
    [] res = 0 -> /\ pc' = [pc EXCEPT ![p] = "acquire"]
                  /\ lvl' = [lvl EXCEPT ![p] = @ - 1]
    [] res = K!Yield -> pc' = [pc EXCEPT ![p] = "spin"] /\ UNCHANGED lvl
    [] res = -1 -> pc' = [pc EXCEPT ![p] = "exited"] /\ UNCHANGED lvl

\* One iteration of tournament_acquire's loop: peterson_acquire on the
\* lock of this level, up to entering, failing or yielding.
Acquire(p) ==
  /\ pc[p] = "acquire"
  /\ \E res \in {0, -1, K!Yield} :
        /\ K!AcquireEnter(LockAt(p, lvl[p]), Role(p, lvl[p]), res)
        /\ AfterAcquire(p, res)
  /\ UNCHANGED <<lockIds, nextChild, envDestroys>>

\* The rest of that peterson_acquire after a yield in its wait loop.
Spin(p) ==
  /\ pc[p] = "spin"
  /\ \E res \in {0, -1} :
        /\ K!AcquireRecheck(LockAt(p, lvl[p]), Role(p, lvl[p]), res)
        /\ AfterAcquire(p, res)
  /\ UNCHANGED <<lockIds, nextChild, envDestroys>>

\* for (int l = 0; l < L_levels; l++): whether level l + 1 follows l.
\* Mutations (the bound written L_levels - 1, and <=):
MoreLevelsShort(l) == l + 1 < L - 1
MoreLevelsLong(l) == l + 1 <= L
MoreLevels(l) == l + 1 < L

\* One iteration of tournament_release's loop (levels 0 .. L-1); leaving
\* the critical section is the release of level 0.  After the last level
\* process 0 waits for its children and the others exit; a failed release
\* exits at once, the levels below still held.
Release(p) ==
  /\ pc[p] \in {"cs", "release"}
  /\ \E res \in {0, -1} :
        /\ K!Release(LockAt(p, lvl[p]), Role(p, lvl[p]), res)
        /\ pc' = [pc EXCEPT ![p] =
                    CASE res = -1 -> "exited"
                      [] MoreLevels(lvl[p]) -> "release"
                      [] p = 0 -> "wait"
                      [] OTHER -> "exited"]
        /\ lvl' = [lvl EXCEPT ![p] = IF res = 0 /\ MoreLevels(@) THEN @ + 1 ELSE @]
  /\ UNCHANGED <<lockIds, nextChild, envDestroys>>

\* main's wait((int*)0) loop: process 0 exits once its children have.
WaitChildren ==
  /\ pc[0] = "wait"
  /\ \A c \in Children : pc[c] = "exited"
  /\ pc' = [pc EXCEPT ![0] = "exited"]
  /\ UNCHANGED <<active, flag, turn, lockIds, lvl, nextChild, envDestroys>>

\* Another program calls peterson_destroy on a handle of its choice; the
\* tree's handles are plain slot indices, so it may hit one of them.
EnvDestroy ==
  /\ envDestroys < MaxEnvDestroys
  /\ EnvDuringCreate \/ pc[0] # "create"
  /\ \E h \in K!Slots, res \in {0, -1} : K!Destroy(h, res)
  /\ envDestroys' = envDestroys + 1
  /\ UNCHANGED <<pc, lockIds, lvl, nextChild>>

ProcStep(p) == Acquire(p) \/ Spin(p) \/ Release(p)

Next ==
  \/ AllocLock \/ ForkOk \/ ForkFail \/ WaitChildren
  \/ \E p \in Procs : ProcStep(p)
  \/ EnvDestroy

\* The xv6 scheduler keeps running every runnable process, and a process
\* spinning in peterson_acquire yields: every process's steps are weakly
\* fair.  The other program need not do anything.
Fairness ==
  /\ WF_vars(AllocLock \/ ForkOk \/ ForkFail \/ WaitChildren)
  /\ \A p \in Procs : WF_vars(ProcStep(p))

Spec == Init /\ [][Next]_vars /\ Fairness

----------------------------------------------------------------------------
(* Properties.                                                             *)

\* The levels whose interest flag process p has raised and not yet
\* cleared: the levels below the one it is acquiring, the one it waits at,
\* all of them in the critical section, those not yet released.
InterestLevels(p) ==
  CASE pc[p] = "acquire" -> lvl[p] + 1 .. L - 1
    [] pc[p] \in {"spin", "release"} -> lvl[p] .. L - 1
    [] pc[p] = "cs" -> 0 .. L - 1
    [] OTHER -> {}

\* The (tree node, role) pairs whose flag p has raised.
Held(p) == {<<ArrayIdx(p, l, L), Role(p, l)>> : l \in InterestLevels(p)}

TreeBuilt ==
  /\ Len(lockIds) = N - 1
  /\ \A k \in 1 .. N - 1 : lockIds[k] # -1

\* One flag bit per role is enough for the tree: once the locks are
\* allocated, no two processes ever hold interest in the same node with
\* the same role, and the kernel's flag of every node and role is raised
\* exactly when some process holds that interest.  Releasing from the
\* leaves up, or deriving a role from the wrong bit of the id, lets a
\* process clear a flag a sibling has raised since.
FlagsTrackInterest ==
  TreeBuilt =>
    /\ \A p, q \in Procs : p # q => Held(p) \cap Held(q) = {}
    /\ \A k \in 0 .. N - 2, r \in K!Roles :
          flag[lockIds[k + 1]][r] =
            IF \E p \in Procs : <<k, r>> \in Held(p) THEN 1 ELSE 0

\* The participant states AbstractMutex sees: trying once a flag is
\* raised, in the critical section between tournament_acquire and
\* tournament_release, done from the release of the root on.
AbstractState(p) ==
  CASE pc[p] = "cs" -> "cs"
    [] pc[p] \in {"release", "wait"} -> "done"
    [] pc[p] = "exited" -> "done"
    [] InterestLevels(p) # {} -> "trying"
    [] OTHER -> "idle"

Abstract == INSTANCE AbstractMutex WITH st <- [p \in Procs |-> AbstractState(p)]

\* The tree implements a mutual exclusion lock over all N processes: at
\* most one process is between tournament_acquire and tournament_release,
\* and it got there only while no other was.
ImplementsMutex == Abstract!Spec

\* No process starves: a forked process that starts tournament_acquire
\* reaches its critical section, however the scheduler interleaves the
\* others (Peterson's bounded waiting, composed up the tree).
StarvationFreedom == \A p \in Procs : pc[p] = "acquire" ~> pc[p] = "cs"

\* tournament_acquire returns: a process that starts it eventually enters
\* its critical section or gets -1 and exits, whatever other program
\* destroys a lock of the tree (spec section 5: a destroy surfaces as an
\* error, not a hang).  The no-rollback exit of tournament_acquire leaves
\* the flags of the lower levels raised, which is what this is about.
AcquireReturns ==
  \A p \in Procs : pc[p] = "acquire" ~> pc[p] \in {"cs", "exited"}
=============================================================================
