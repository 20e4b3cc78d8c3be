---------------------------- MODULE AbstractLock ----------------------------
(***************************************************************************)
(* What one two-party Peterson lock promises its two users (spec.md,      *)
(* sections 3 and 4): the lock is created once, may be destroyed at any    *)
(* time by anyone, and is never alive again afterwards.  While it is       *)
(* alive, at most one party is inside; a call succeeds only on a live     *)
(* lock, and a call fails only on a dead one.  A party that is done (or   *)
(* whose call failed) is gone for good.                                    *)
(***************************************************************************)
CONSTANT Parties

VARIABLES st,     \* st[p] \in {"idle", "trying", "cs", "gone"}
          life    \* "unborn", "alive" or "dead"

vars == <<st, life>>

TypeOK ==
  /\ st \in [Parties -> {"idle", "trying", "cs", "gone"}]
  /\ life \in {"unborn", "alive", "dead"}

Init == st = [p \in Parties |-> "idle"] /\ life = "unborn"

Create == life = "unborn" /\ life' = "alive" /\ UNCHANGED st

Destroy == life = "alive" /\ life' = "dead" /\ UNCHANGED st

\* A party asks for the lock and has to wait.
Request(p) ==
  /\ life = "alive" /\ st[p] = "idle"
  /\ st' = [st EXCEPT ![p] = "trying"]
  /\ UNCHANGED life

\* It gets the lock, at once or after waiting, only while nobody holds it.
Enter(p) ==
  /\ life = "alive" /\ st[p] \in {"idle", "trying"}
  /\ \A q \in Parties : st[q] # "cs"
  /\ st' = [st EXCEPT ![p] = "cs"]
  /\ UNCHANGED life

\* It gives the lock back, and either asks again later or is done.
Leave(p) ==
  /\ life = "alive" /\ st[p] = "cs"
  /\ \E s \in {"idle", "gone"} : st' = [st EXCEPT ![p] = s]
  /\ UNCHANGED life

\* A call on a dead lock fails, and the party gives up.
Fail(p) ==
  /\ life = "dead" /\ st[p] \in {"idle", "trying", "cs"}
  /\ st' = [st EXCEPT ![p] = "gone"]
  /\ UNCHANGED life

\* A party not holding the lock ends, possibly destroying it on the way.
Retire(p) ==
  /\ st[p] = "idle"
  /\ st' = [st EXCEPT ![p] = "gone"]
  /\ \/ UNCHANGED life
     \/ life = "alive" /\ life' = "dead"

Next ==
  \/ Create \/ Destroy
  \/ \E p \in Parties : Request(p) \/ Enter(p) \/ Leave(p) \/ Fail(p) \/ Retire(p)

Spec == Init /\ [][Next]_vars
=============================================================================
