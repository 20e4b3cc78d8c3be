---------------------------- MODULE PetersonLock ----------------------------
(***************************************************************************)
(* The kernel's Peterson lock table (kernel/peterson.h, kernel/peterson.c). *)
(*                                                                         *)
(* ptable holds NPETERSONLOCKS slots; each slot has an `active' bit, two   *)
(* interest flags and a turn.  Every read and write of those fields in the *)
(* code happens while the slot's spinlock ptable[i].lk is held, and        *)
(* create/destroy additionally hold ptable_lock; so each stretch of code   *)
(* between acquire(&pl->lk) and release(&pl->lk) is one atomic step here,  *)
(* and neither spinlock needs a variable of its own.                       *)
(*                                                                         *)
(* The module is a library: each system call is an operator whose last    *)
(* parameter is the value the call returns to user space, so that a       *)
(* composing module can branch on it in the same step.  The wait loop of   *)
(* sys_peterson_acquire yields with the spinlock released; its first pass  *)
(* is AcquireEnter (result Yield when the caller must wait) and every    *)
(* later pass is AcquireRecheck.                                           *)
(***************************************************************************)
EXTENDS Integers, FiniteSetsExt

CONSTANT NPETERSONLOCKS       \* number of slots in ptable

ASSUME NPETERSONLOCKS \in Nat \ {0}

VARIABLES active,   \* active[i]: slot i is allocated
          flag,     \* flag[i][r]: interest flag of role r in slot i (0 or 1)
          turn      \* turn[i]: the role that must wait when both are interested

kvars == <<active, flag, turn>>

Slots == 0 .. NPETERSONLOCKS - 1
Roles == {0, 1}
Other(r) == 1 - r

\* Stands for "no return yet": the caller of sys_peterson_acquire is parked
\* in the wait loop.  An integer distinct from the call's results 0 and -1.
Yield == -2

NoInterest == [r \in Roles |-> 0]

\* A slot reset to its allocated/freed contents: no interest, turn = 0.
ResetSlot(h) ==
  /\ flag' = [flag EXCEPT ![h] = NoInterest]
  /\ turn' = [turn EXCEPT ![h] = 0]

TypeOK ==
  /\ active \in [Slots -> BOOLEAN]
  /\ flag \in [Slots -> [Roles -> {0, 1}]]
  /\ turn \in [Slots -> Roles]

\* peterson_init: every slot inactive and cleared.
Init ==
  /\ active = [i \in Slots |-> FALSE]
  /\ flag = [i \in Slots |-> NoInterest]
  /\ turn = [i \in Slots |-> 0]

\* The loop condition of the Peterson wait: the other role is interested
\* and it is the other role's turn.
MustWait(h, r) == flag[h][Other(r)] = 1 /\ turn[h] = Other(r)

----------------------------------------------------------------------------
(* System calls.                                                           *)

\* sys_peterson_create with peterson_alloc: under ptable_lock, the scan
\* takes the lowest-indexed inactive slot, marks it active and resets it;
\* -1 when every slot is active.
Create(id) ==
  LET free == {i \in Slots : ~active[i]}
  IN \/ /\ free # {}
        /\ id = Min(free)
        /\ active' = [active EXCEPT ![id] = TRUE]
        /\ ResetSlot(id)
     \/ /\ free = {}
        /\ id = -1
        /\ UNCHANGED kvars

\* Mutation (the turn given to the caller's own role, pl->turn = role):
AcquireEnterOwnTurn(h, r, res) ==
  \/ /\ ~active[h]
     /\ res = -1
     /\ UNCHANGED kvars
  \/ /\ active[h]
     /\ flag' = [flag EXCEPT ![h][r] = 1]
     /\ turn' = [turn EXCEPT ![h] = r]
     /\ UNCHANGED active
     /\ res = 0

\* sys_peterson_acquire from its entry to the first yield or return: on an
\* active slot, raise flag[r], hand the turn to the other role, and either
\* enter (0) or park in the wait loop (Yield).  The clients modelled pass
\* only handles from create and roles 0/1, so the argument check never
\* rejects.
AcquireEnter(h, r, res) ==
  \/ /\ ~active[h]
     /\ res = -1
     /\ UNCHANGED kvars
  \/ /\ active[h]
     /\ flag' = [flag EXCEPT ![h][r] = 1]
     /\ turn' = [turn EXCEPT ![h] = Other(r)]
     /\ UNCHANGED active
     /\ res = IF flag[h][Other(r)] = 1 THEN Yield ELSE 0

\* Mutation (the wait written as `if' instead of `while': one yield, then
\* the caller goes ahead):
AcquireRecheckOnce(h, r, res) ==
  /\ res = IF active[h] THEN 0 ELSE -1
  /\ UNCHANGED kvars

\* Mutation (no final check of `active' after the loop: only the in-loop
\* check reports a destroy):
AcquireRecheckNoFinalCheck(h, r, res) ==
  /\ ~(MustWait(h, r) /\ active[h])
  /\ res = IF MustWait(h, r) THEN -1 ELSE 0
  /\ UNCHANGED kvars

\* One later pass of the wait loop, after yield() and re-acquiring pl->lk.
\* While the loop condition holds on an active slot the caller yields again,
\* a step that changes nothing and is left to stuttering.  Otherwise it
\* returns: -1 if the slot is inactive (the in-loop check when the
\* condition still holds, the final check when it does not), else 0.
AcquireRecheck(h, r, res) ==
  /\ ~(MustWait(h, r) /\ active[h])
  /\ res = IF active[h] THEN 0 ELSE -1
  /\ UNCHANGED kvars

\* Mutation (release forgets to clear the caller's flag):
ReleaseKeepsFlag(h, r, res) ==
  /\ res = IF active[h] THEN 0 ELSE -1
  /\ UNCHANGED kvars

\* Mutation (release written like peterson_free's reset, clearing both
\* flags and the turn):
ReleaseResets(h, r, res) ==
  \/ /\ ~active[h]
     /\ res = -1
     /\ UNCHANGED kvars
  \/ /\ active[h]
     /\ ResetSlot(h)
     /\ UNCHANGED active
     /\ res = 0

\* sys_peterson_release: clear flag[r] of an active slot; -1 if inactive.
Release(h, r, res) ==
  \/ /\ ~active[h]
     /\ res = -1
     /\ UNCHANGED kvars
  \/ /\ active[h]
     /\ flag' = [flag EXCEPT ![h][r] = 0]
     /\ UNCHANGED <<active, turn>>
     /\ res = 0

\* sys_peterson_destroy with peterson_free: under ptable_lock then pl->lk,
\* mark an active slot inactive and reset it; -1 if already inactive.
Destroy(h, res) ==
  \/ /\ ~active[h]
     /\ res = -1
     /\ UNCHANGED kvars
  \/ /\ active[h]
     /\ active' = [active EXCEPT ![h] = FALSE]
     /\ ResetSlot(h)
     /\ res = 0
=============================================================================
