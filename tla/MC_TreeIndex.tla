---------------------------- MODULE MC_TreeIndex ----------------------------
(***************************************************************************)
(* Checks the tournament index arithmetic of TreeIndex against its         *)
(* reference definitions for every argument tournament_create can be       *)
(* given around its range and every participant id.  The state is the     *)
(* argument pair under test; each step moves to any other pair.            *)
(***************************************************************************)
EXTENDS TreeIndex

\* Participant counts tried: the accepted ones and their neighbours.
Counts == -1 .. MaxProcesses + 2
Ids == 0 .. MaxProcesses - 1

VARIABLES n, id

Init == n \in Counts /\ id \in Ids
Next == \E m \in Counts, i \in Ids : n' = m /\ id' = i /\ <<m, i>> # <<n, id>>
Spec == Init /\ [][Next]_<<n, id>>

\* tournament.c checks its argument itself before tournament_create checks
\* it again: the two checks, written differently in two files (a range and
\* n & (n-1) in one, a size bound and get_log2_if_power_of_2 in the other),
\* accept the same counts, 1, 2, 4, 8 and 16, so the driver never hands
\* the library a count it rejects and never turns away one it would take.
DriverAgreesWithLibrary == DriverAccepts(n) <=> ValidCount(n)

\* For every accepted count and participant, tournament_acquire visits the
\* ancestors of the participant's leaf from the bottom up, each with the
\* role of the side it arrives from (so every array index is within
\* 0 .. n-2 and the out-of-bounds branch is dead), and tournament_release
\* visits the same locks with the same roles in the reverse order.
PathsMatchTree ==
  (ValidCount(n) /\ id < n) =>
    LET L == Log2IfPowerOf2(n)
    IN /\ AcquirePath(id, L) = RefPath(id, n)
       /\ ReleasePath(id, L) = Reverse(RefPath(id, n))
=============================================================================
