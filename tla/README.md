# TLA+ models of the xv6 Peterson locks and tournament tree

This directory models the Peterson lock system calls and the tournament
tree library of this repository, and checks them with TLC.

## The system

| Part | Source | State | Operations |
|---|---|---|---|
| Peterson lock table (kernel) | `src/unnamed/part_000` (peterson.h), `src/unnamed/part_001` (peterson.c) | `ptable[16]`: `active`, `flag[2]`, `turn`, one spinlock per slot; `ptable_lock` | `peterson_init`, `sys_peterson_create` (with `peterson_alloc`), `sys_peterson_acquire`, `sys_peterson_release`, `sys_peterson_destroy` (with `peterson_free`) |
| Tournament library | `src/user/ptest.c` lines 78-277 (libtournament.c) | per process: `peterson_lock_ids_array`, `N_processes`, `L_levels`, `my_id`, copied at fork | `get_log2_if_power_of_2`, `tournament_create`, `tournament_acquire`, `tournament_release` |
| tournament driver | `src/user/tournament.c` | argument | checks, create, acquire, critical section, release, process 0 waits for its children |
| ptest driver | `src/user/ptest.c` lines 1-77 | `lock_id`, role, loop counter | create, fork, 100 acquire/release rounds, wait, destroy |
| xv6 scheduler, fork, yield, spinlocks | outside the repository | | not modelled: they are the interleaving of steps, weak fairness, and step atomicity |

How they interact. User processes call the lock table through system calls
and address a lock by its slot index. Every read and write of `active`,
`flag` and `turn` happens while the slot spinlock is held. Create and
destroy also hold `ptable_lock`. The only place where a process waits is
the loop in `sys_peterson_acquire`: it releases the slot spinlock, calls
`yield()`, takes the spinlock again and checks once more. The tournament
library builds a tree of N-1 locks, stored breadth first, in process 0 and
forks N-1 children. Each child inherits the lock array. A process with id
`my_id` uses role bit `L-1-l` of its id at level `l`. It acquires from the
leaf level up to the root and releases from the root down.

What is hard:
- the interleaving of the two roles' writes and checks around the yield;
- a lock destroyed, or destroyed and re-created, while a process waits or
  holds it (any process may destroy any handle);
- partial failure: fork or create failing partway, acquire failing in the
  middle of the tree with no rollback, and flags left raised when a process
  exits;
- slots leaking across runs, because tournament never destroys its locks;
- the bit arithmetic that assigns nodes and roles;
- starvation freedom of the composed tree.

What makes each part correct:
- lock table: the two roles never hold a lock at the same time; a waiter
  on a destroyed lock returns -1 and does not hang; create never hands out
  an active slot;
- tree: at most one process holds interest per (node, role), so one flag
  bit per role is enough; mutual exclusion among all N; every process
  eventually enters;
- arithmetic: the count check accepts exactly 1, 2, 4, 8 and 16, and each
  path is the leaf's chain of ancestors.

## Modules

- `PetersonLock.tla`: the kernel table as a library. Variables `active`,
  `flag` and `turn`. Each system call is an operator whose last parameter
  is its return value: `Create(id)`, `AcquireEnter(h, r, res)`,
  `AcquireRecheck(h, r, res)`, `Release(h, r, res)` and `Destroy(h, res)`.
  `AcquireEnter` is the call up to its first yield; the result `Yield`
  means the caller is parked. `AcquireRecheck` is a later pass of the loop.
  A pass that only yields again changes nothing, so it is left to
  stuttering. The range checks on handles and roles are not modelled,
  because the modelled clients only pass handles from create and roles
  0 and 1.
- `PetersonAlloc.tla`: `sys_peterson_create` as the code runs it. The
  scan takes `ptable_lock` (`BeginCreate`), then probes one slot per step
  (`ProbeFree`, `ProbeTaken`). Between probes run destroys, which also
  take `ptable_lock`, and acquires and releases on any slot, which take
  only the slot's spinlock. `ptable_lock` is the variable `tableLock`. A
  slot spinlock is held only within one step, so it needs no variable.
- `PetersonPool.tla`: the same callers with every system call one atomic
  step. `PetersonAlloc` maps onto it with the identity on the table and
  `result`, which checks that `PetersonLock`'s atomic `Create` is a sound
  abstraction of the scan.
- `AbstractLock.tla`: what one two-party lock promises (spec sections 3
  and 4). The lock is created once, may be destroyed at any time, and is
  never alive again. While it is alive at most one party is inside. A call
  succeeds only on a live lock and fails only on a dead one.
- `PTest.tla`: `ptest.c`'s parent (role 0) and child (role 1) over the
  kernel. It runs next to another program that may create locks
  (`MaxEnvCreates`) and destroy any handle (`MaxEnvDestroys`);
  `EnvRecreates` says whether it may create after it has destroyed, which
  is what lets a new lock reuse ptest's slot. The initial
  table has any set of slots already allocated by earlier programs.
  `overtaken` is a history variable with no counterpart in the code. It
  counts the peer's entries into the critical section while a process is
  parked in the wait loop, and `BoundedWaiting` bounds it.
  `PartyState` and `LockLife` map a process and the lock behind `lock_id`
  onto `AbstractLock`, and `ImplementsLock` checks that mapping. The
  parent exits holding a handle only after its own `peterson_destroy`, so
  `LockLife` counts the lock dead from then on, whatever later fills the
  slot.
- `TreeIndex.tla`: the library's arithmetic. `Log2IfPowerOf2`,
  `ValidCount`, `RoleAt`, `ArrayIdx` and the acquire/release paths are
  written as pure operators, next to the reference definition `RefPath`,
  the heap-ancestor path. `MC_TreeIndex.tla` compares
  them for every count from -1 to 18 and every id from 0 to 15.
  `DriverAccepts` is `tournament.c`'s own check on its argument, which is
  compared with the library's `ValidCount`.
- `Tournament.tla`: `tournament.c` plus the library over the kernel.
  Process 0 allocates the locks (`AllocLock`, which may fail when the table
  is full) and forks (`ForkOk`, or `ForkFail` when `ForkCanFail`). Every
  process then runs `Acquire`/`Spin` from level L-1 to 0 and `Release`
  from level 0 to L-1, and process 0 finishes with `WaitChildren`.
  `lvl[p]` is the loop variable `l`. `EnvDestroy` is another program
  calling `peterson_destroy` on any slot, at most `MaxEnvDestroys` times.
  It acts either only after `tournament_create` has allocated the locks,
  or also during allocation (`EnvDuringCreate`).
- `AbstractMutex.tla`: what the tree promises. Participants go idle,
  trying, cs, done, and enter only while nobody is inside.
  `Tournament` maps onto it (`AbstractState`) and checks it as the
  property `ImplementsMutex`.

## Runs

| Run | Checks | Bounds | Result |
|---|---|---|---|
| `ptest_destroy` (`PTest.cfg`) | `TypeOK`, `MutualExclusion`, `Termination`, `BoundedWaiting`, `ImplementsLock` | 2 slots, 3 iterations, 1 foreign create, then at most 1 foreign destroy | pass, 2,915 states |
| `ptest_reuse` (`PTestReuse.cfg`) | `MutualExclusion` | 2 slots, 2 iterations, 1 foreign destroy, then 1 foreign create | violation (see below) |
| `tournament4` (`Tournament.cfg`) | `TypeOK`, `FlagsTrackInterest`, `ImplementsMutex`, `StarvationFreedom` | N = 4 (two levels, three locks), 4 slots, fork may fail | pass, 5,738 states |
| `tournament_destroy` (`TournamentDestroy.cfg`) | `ImplementsMutex` | N = 4, 4 slots, fork may fail, 1 foreign destroy of any slot once the tree is built | pass, 29,425 states |
| `tournament_alias` (`TournamentAlias.cfg`) | `ImplementsMutex` | N = 4, 1 foreign destroy, also during `tournament_create` | violation (see below) |
| `tournament_orphan` (`TournamentOrphan.cfg`) | `AcquireReturns` | N = 4, 1 foreign destroy once the tree is built | violation (see below) |
| `peterson_alloc` (`PetersonAlloc.cfg`) | `TypeOK`, `ImplementsAtomicCreate`, `CreateReturns` | 3 slots, any initial allocation, 2 creators, 2 destroys, acquires and releases on any slot | pass, 87,320 states |
| `tree_index` (`MC_TreeIndex.cfg`) | `PathsMatchTree`, `DriverAgreesWithLibrary` | counts -1..18, ids 0..15 | pass, 320 states |

Why the bounds are enough:
- Two ptest iterations let a process release and then re-enter while the
  other waits, which is the case Peterson's turn exists for. The run with
  `BoundedWaiting` uses three. A process can be parked only after its peer
  is already inside, so being overtaken twice needs the peer to enter
  three times.
- One foreign destroy is enough to destroy any single tree node at any
  moment: the root, a leaf, a lock not yet used, or a slot outside the tree.
- A two-slot table with any initial allocation covers both a failed
  create and a lock placed in either slot.
- N = 4 has two levels. That gives leaf locks with two processes each, and
  a root where the winners of different leaves meet. It is the smallest
  tree in which a release order or a role bit can be wrong.
- In `peterson_alloc`, two creators contend for `ptable_lock`. Two
  destroys let a slot be freed before a scan, or while it runs after a
  slot it has passed. Three slots give a scan a first, a
  middle and a last probe, which makes the -1 path and the wrap of the
  loop bound distinct.
- The arithmetic run covers the whole input range the code accepts.

Deadlock checking is off in the ptest and tournament runs, because both
programs really do stop: every process exits. It is also off in
`peterson_alloc`, whose callers make a bounded number of calls and then
stop. A process stuck waiting is
still caught, by `Termination` and `StarvationFreedom`.

### Findings

`ptest_reuse` shows that a handle is only a slot index. The failing trace
goes like this:
1. The parent holds the lock.
2. Another program destroys the lock, and then creates a lock, which
   `peterson_alloc` places in the same slot.
3. The child's `peterson_acquire` sees the freshly reset flags and an
   active slot, and returns 0.

Both processes are now in the critical section, which spec section 3
rules out. The child's call is a fresh `peterson_acquire` made after the
re-create, on the handle it inherited at fork; the kernel checks only
that slot `lock_id` is active, so it cannot tell the new lock from the
destroyed one. This is the shortest trace, and the finding is about it.

`tournament_alias` shows the same weakness inside one tournament, with no
foreign create:
1. `tournament_create` has allocated some of the tree's locks.
2. Another program destroys one of them.
3. `tournament_create`'s next `peterson_create` gets the freed slot back.

Two tree nodes (in the trace, both leaves) now share one kernel lock.
Processes 0 and 2 then use the same flag at the leaf. This lets process 1
through the leaf while process 0 holds it, and process 1 then enters the
root with the same role as process 0. Both are in the critical section.

`tournament_orphan` is about the no-rollback exit of `tournament_acquire`.
1. Another program destroys the root.
2. Each process waiting at the root gets -1 and exits. Its leaf flag stays
   raised, because the code does not roll back and the kernel does not
   clear flags at exit.
3. The sibling at each such leaf spins in `sys_peterson_acquire` forever,
   on a lock nobody destroyed.

Spec section 5 says a destroy surfaces as an error, not a hang. Sections 4
and 9 keep the no-rollback policy that causes the hang.

`tournament_destroy` shows what still holds when the destroy comes after
the tree is built: mutual exclusion. Its mutant shows which check carries
it. `peterson_free` clears both flags, so a waiter's loop condition turns
false at once. The in-loop `active` check (peterson.c line 126) therefore
never fires, and it is the final check at line 141 that returns -1.
Without that final check, a waiter at the destroyed root goes into the
critical section. The same mutant breaks `ImplementsLock` in ptest.

`peterson_alloc` shows what makes the slot-by-slot scan safe. Destroy is
the only step that frees a slot, and it needs the `ptable_lock` that the
scan holds. So a slot the scan has passed cannot become free before the
scan ends. A destroy that took only the slot's spinlock would let a create
return a slot that is not the lowest free one, or return -1 while a slot
is free.

## Fairness

Every process's steps are weakly fair (`WF_vars(ProcStep(p))`). The xv6
scheduler runs every runnable process again, and a waiting process yields
rather than blocks. A waiter's `AcquireRecheck` is enabled exactly when
the loop would exit, and in Peterson's protocol that stays true until the
waiter moves. So weak fairness is enough, and no strong fairness is
assumed. The other program in `PTest` and `Tournament` has no fairness: it
may never act.

## Not modelled, and why

- Printing, `sleep()`, exit codes and malloc failure: they do not touch
  the locks.
- N = 1: acquire and release do nothing.
- Out-of-range handles and roles: the clients cannot produce them.
- A tree of eight processes: three levels and seven locks interleave
  into more states than TLC explores in several minutes, even with
  safety alone. Processes are not interchangeable (each id fixes its
  path), so no symmetry set applies. N = 4 already has the two-level
  structure the arithmetic run checks for every N up to 16.
- Back-to-back tournament runs over one table: every run starts from any
  set of slots already allocated, which covers what a leak leaves behind.
  The leak itself only makes a later create fail, and spec sections 7
  and 9 document that.
- Memory ordering: every access to `flag` and `turn` is under the slot
  spinlock, and the spinlock orders them.

## Plan

Done:
- First sitting: the kernel table (`PetersonLock`), ptest over it with
  destroy and re-create (`PTest`), the tree arithmetic (`TreeIndex`), and
  the tree over the kernel with a refinement to `AbstractMutex`
  (`Tournament`).
- Second sitting:
  - Bounded waiting for ptest.
  - The tree next to a program that destroys its locks, before or after
    the tree is built: one passing run and two findings.
  - The driver's own argument check.
  - The eight-process tree was tried and is out of reach (see above).

- Third sitting:
  - `AbstractLock`, with `PTest` shown to implement it.
  - The allocation scan run slot by slot (`PetersonAlloc`), shown to
    implement the atomic create (`PetersonPool`), with a liveness property
    for `ptable_lock`.
- Fourth sitting, a review of the project against the code:
  - The `ptest_reuse` finding now describes the trace TLC shows: a fresh
    acquire on a stale handle.
  - Three checks that repeated others were dropped: the foreign-create-only
    ptest run, which gave no more than an arbitrary initial table; the
    count check, which the driver/library agreement and the path check
    already cover; and a second check of the tree's type invariant.
  - The other program's create now runs in `ptest_destroy`, before any
    destroy, and `LockLife` no longer mistakes a later lock in the slot
    for ptest's own.

Next: the only parts left out are the external collaborators (scheduler,
fork, spinlocks) and the cases above that TLC cannot reach.
