---------------------------- MODULE PetersonAlloc ---------------------------
(***************************************************************************)
(* sys_peterson_create as the code runs it, one slot at a time: under      *)
(* ptable_lock, peterson_alloc takes slot i's spinlock, looks at `active', *)
(* and either allocates the slot or releases it and goes on to i + 1.      *)
(* Next to the creators run sys_peterson_destroy (ptable_lock, then the    *)
(* slot's spinlock) and acquire / release (the slot's spinlock only).      *)
(* A slot spinlock is held only within one step, so it needs no variable; *)
(* ptable_lock is held across the scan and is the variable tableLock.     *)
(***************************************************************************)
EXTENDS Integers

CONSTANTS NPETERSONLOCKS,
          Creators,       \* processes calling peterson_create once each
          MaxDestroys     \* peterson_destroy calls by other processes

ASSUME MaxDestroys \in Nat

VARIABLES active, flag, turn,
          tableLock,  \* the holder of ptable_lock, or NoHolder
          scan,       \* scan[c]: the loop index i of c's peterson_alloc
          result,     \* result[c]: what c's call returned, or Pending
          destroys

K == INSTANCE PetersonLock
P == INSTANCE PetersonPool

vars == <<active, flag, turn, tableLock, scan, result, destroys>>

NoHolder == "none"
Pending == P!Pending

TypeOK ==
  /\ K!TypeOK
  /\ tableLock \in Creators \cup {NoHolder}
  /\ scan \in [Creators -> K!Slots]
  /\ result \in [Creators -> K!Slots \cup {-1, Pending}]
  /\ destroys \in 0 .. MaxDestroys

Init ==
  /\ P!Init
  /\ tableLock = NoHolder
  /\ scan = [c \in Creators |-> 0]
  /\ destroys = 0

\* acquire(&ptable_lock) at the start of sys_peterson_create; the loop
\* starts at slot 0.
BeginCreate(c) ==
  /\ result[c] = Pending /\ tableLock = NoHolder
  /\ tableLock' = c
  /\ scan' = [scan EXCEPT ![c] = 0]
  /\ UNCHANGED <<active, flag, turn, result, destroys>>

\* Slot scan[c] is inactive: allocate and reset it, return its index and
\* release ptable_lock.
ProbeFree(c) ==
  LET i == scan[c] IN
  /\ tableLock = c /\ ~active[i]
  /\ active' = [active EXCEPT ![i] = TRUE]
  /\ K!ResetSlot(i)
  /\ result' = [result EXCEPT ![c] = i]
  /\ tableLock' = NoHolder
  /\ UNCHANGED <<scan, destroys>>

\* Mutation (the loop bound written i <= NPETERSONLOCKS):
ProbeTakenPastEnd(c) ==
  LET i == scan[c] IN
  /\ tableLock = c /\ active[i]
  /\ IF i < NPETERSONLOCKS
       THEN scan' = [scan EXCEPT ![c] = i + 1] /\ UNCHANGED <<tableLock, result>>
       ELSE /\ result' = [result EXCEPT ![c] = -1]
            /\ tableLock' = NoHolder
            /\ UNCHANGED scan
  /\ UNCHANGED <<active, flag, turn, destroys>>

\* Mutation (ptable_lock not released on the failing path):
ProbeTakenKeepsLock(c) ==
  LET i == scan[c] IN
  /\ tableLock = c /\ active[i]
  /\ IF i < NPETERSONLOCKS - 1
       THEN scan' = [scan EXCEPT ![c] = i + 1] /\ UNCHANGED <<tableLock, result>>
       ELSE result' = [result EXCEPT ![c] = -1] /\ UNCHANGED <<tableLock, scan>>
  /\ UNCHANGED <<active, flag, turn, destroys>>

\* Slot scan[c] is active: go on to the next slot, or, past the last one,
\* return -1 and release ptable_lock.
ProbeTaken(c) ==
  LET i == scan[c] IN
  /\ tableLock = c /\ active[i]
  /\ IF i < NPETERSONLOCKS - 1
       THEN scan' = [scan EXCEPT ![c] = i + 1] /\ UNCHANGED <<tableLock, result>>
       ELSE /\ result' = [result EXCEPT ![c] = -1]
            /\ tableLock' = NoHolder
            /\ UNCHANGED scan
  /\ UNCHANGED <<active, flag, turn, destroys>>

\* Mutation (destroy taking only the slot's spinlock):
DestroyNoTableLock(h) ==
  /\ destroys < MaxDestroys
  /\ \E res \in {0, -1} : K!Destroy(h, res)
  /\ destroys' = destroys + 1
  /\ UNCHANGED <<tableLock, scan, result>>

\* sys_peterson_destroy(h): it takes ptable_lock (waiting while a create
\* holds it), then the slot's spinlock, and frees an active slot.
Destroy(h) ==
  /\ destroys < MaxDestroys /\ tableLock = NoHolder
  /\ \E res \in {0, -1} : K!Destroy(h, res)
  /\ destroys' = destroys + 1
  /\ UNCHANGED <<tableLock, scan, result>>

\* sys_peterson_acquire's first pass and sys_peterson_release, by any
\* process on any slot: they take only the slot's spinlock.
UseSlot(h, r) ==
  /\ \E res \in {0, -1, K!Yield} : K!AcquireEnter(h, r, res) \/ K!Release(h, r, res)
  /\ UNCHANGED <<tableLock, scan, result, destroys>>

Next ==
  \/ \E c \in Creators : BeginCreate(c) \/ ProbeFree(c) \/ ProbeTaken(c)
  \/ \E h \in K!Slots : Destroy(h)
  \/ \E h \in K!Slots, r \in K!Roles : UseSlot(h, r)

\* A process holding or waiting for a spinlock keeps being scheduled.
Spec == Init /\ [][Next]_vars
          /\ \A c \in Creators : WF_vars(BeginCreate(c) \/ ProbeFree(c) \/ ProbeTaken(c))

----------------------------------------------------------------------------
(* Properties.                                                             *)

\* The slot-by-slot scan is as good as one atomic step: every run of the
\* code, with destroys, acquires and releases interleaved between the
\* probes, is a run of PetersonPool in which each create takes the lowest
\* free slot at once, or returns -1 only when every slot is active.  It
\* holds because destroy, the only step that frees a slot, needs the
\* ptable_lock the scan holds.
ImplementsAtomicCreate == P!Spec

\* Every peterson_create returns, however creators and destroyers contend
\* for ptable_lock.
CreateReturns == \A c \in Creators : <>(result[c] # Pending)
=============================================================================
