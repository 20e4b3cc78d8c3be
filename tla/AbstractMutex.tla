---------------------------- MODULE AbstractMutex ----------------------------
(***************************************************************************)
(* What the tournament library promises its callers: each participant     *)
(* goes from idle, through trying (inside tournament_acquire), into the    *)
(* critical section and out, and a participant enters only while nobody   *)
(* is inside.  A participant may also give up (a failed call, then        *)
(* exit()) before it enters.                                               *)
(***************************************************************************)
CONSTANT Procs

VARIABLE st    \* st[p] \in {"idle", "trying", "cs", "done"}

TypeOK == st \in [Procs -> {"idle", "trying", "cs", "done"}]

Init == st = [p \in Procs |-> "idle"]

Start(p) == st[p] = "idle" /\ st' = [st EXCEPT ![p] = "trying"]

Enter(p) ==
  /\ st[p] = "trying"
  /\ \A q \in Procs : st[q] # "cs"
  /\ st' = [st EXCEPT ![p] = "cs"]

Leave(p) == st[p] = "cs" /\ st' = [st EXCEPT ![p] = "done"]

GiveUp(p) == st[p] \in {"idle", "trying"} /\ st' = [st EXCEPT ![p] = "done"]

Next == \E p \in Procs : Start(p) \/ Enter(p) \/ Leave(p) \/ GiveUp(p)

Spec == Init /\ [][Next]_st
=============================================================================
