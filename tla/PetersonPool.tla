---------------------------- MODULE PetersonPool ----------------------------
(***************************************************************************)
(* The lock table as its callers see it, with every system call one atomic *)
(* step (PetersonLock's operators): creators each make one                 *)
(* peterson_create call, whose result they keep; any caller may destroy,   *)
(* acquire or release any slot at any time.                                *)
(***************************************************************************)
EXTENDS Integers

CONSTANTS NPETERSONLOCKS, Creators

VARIABLES active, flag, turn,
          result     \* result[c]: what c's peterson_create returned, or Pending

K == INSTANCE PetersonLock

Pending == -3

Init ==
  /\ active \in [K!Slots -> BOOLEAN]
  /\ flag = [i \in K!Slots |-> K!NoInterest]
  /\ turn = [i \in K!Slots |-> 0]
  /\ result = [c \in Creators |-> Pending]

Create(c) ==
  /\ result[c] = Pending
  /\ \E id \in K!Slots \cup {-1} : K!Create(id) /\ result' = [result EXCEPT ![c] = id]

Next ==
  \/ \E c \in Creators : Create(c)
  \/ \E h \in K!Slots, r \in K!Roles, res \in {0, -1, K!Yield} :
        /\ \/ K!Destroy(h, res)
           \/ K!AcquireEnter(h, r, res)
           \/ K!Release(h, r, res)
        /\ UNCHANGED result

Spec == Init /\ [][Next]_<<active, flag, turn, result>>
=============================================================================
