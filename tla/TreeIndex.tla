----------------------------- MODULE TreeIndex -----------------------------
(***************************************************************************)
(* The arithmetic of the tournament library (user/libtournament.c, here in *)
(* src/user/ptest.c): the participant-count check, the number of levels,   *)
(* and the (lock array index, role) a participant uses at each level of    *)
(* the tree, whose N-1 locks are stored breadth first, root at index 0.    *)
(*                                                                         *)
(* Next to each definition of the code stands a reference definition of    *)
(* what it is meant to compute, independent of the bit arithmetic.         *)
(***************************************************************************)
EXTENDS Integers, Sequences, Bitwise

\* The largest participant count tournament_create accepts.
MaxProcesses == 16

----------------------------------------------------------------------------
(* The code.                                                               *)

\* get_log2_if_power_of_2: -1 unless n is a positive power of two, else
\* the number of halvings of n down to 1.
Log2IfPowerOf2(n) ==
  LET RECURSIVE Halvings(_)
      Halvings(t) == IF t > 1 THEN 1 + Halvings(shiftR(t, 1)) ELSE 0
  IN CASE n <= 0 -> -1
       [] n = 1 -> 0
       [] (n & (n - 1)) # 0 -> -1
       [] OTHER -> Halvings(n)

\* tournament_create's argument checks: at most 16, and a positive power
\* of two.
ValidCount(n) == n <= MaxProcesses /\ Log2IfPowerOf2(n) # -1

\* Mutation (the upper bound written < 16):
DriverAcceptsBelow16(n) ==
  /\ n > 0 /\ n < MaxProcesses
  /\ n = 1 \/ (n & (n - 1)) = 0

\* tournament.c's own checks on its argument before tournament_create:
\* between 1 and 16, and 1 or a power of two.
DriverAccepts(n) ==
  /\ n > 0 /\ n <= MaxProcesses
  /\ n = 1 \/ (n & (n - 1)) = 0

\* Mutation (the role taken from bit L-l, one too high):
RoleAtHighBit(id, l, L) == shiftR(id, L - l) & 1

\* role_at_level: bit L-1-l of the participant id.
RoleAt(id, l, L) == shiftR(id, L - 1 - l) & 1

\* Mutation (the offset of level l written 2^l):
ArrayIdxOffByOne(id, l, L) == shiftR(id, L - l) + 2^l

\* array_idx: the id shifted right by L-l is the lock's position within
\* level l, and the 2^l - 1 locks of the levels above come first.
ArrayIdx(id, l, L) == shiftR(id, L - l) + (2^l - 1)

\* The (array index, role) pairs of tournament_acquire's loop, in the order
\* it visits them: level L-1 (the leaves' parents) up to level 0 (the root).
AcquirePath(id, L) ==
  [i \in 1 .. L |-> LET l == L - i IN <<ArrayIdx(id, l, L), RoleAt(id, l, L)>>]

\* tournament_release's loop visits the levels 0 .. L-1.
ReleasePath(id, L) ==
  [i \in 1 .. L |-> LET l == i - 1 IN <<ArrayIdx(id, l, L), RoleAt(id, l, L)>>]

----------------------------------------------------------------------------
(* Reference definitions.                                                  *)

\* In a heap-ordered complete binary tree of n-1 inner nodes (root 0,
\* children of k at 2k+1 and 2k+2), participant id sits at leaf n-1+id.
\* Its path to the root lists each inner ancestor with the side the path
\* arrives from: 0 from the left child, 1 from the right.
RefPath(id, n) ==
  LET RECURSIVE Up(_)
      Up(k) == IF k = 0 THEN <<>>
               ELSE LET parent == (k - 1) \div 2
                        side == IF k = 2 * parent + 1 THEN 0 ELSE 1
                    IN <<<<parent, side>>>> \o Up(parent)
  IN Up(n - 1 + id)

Reverse(s) == [i \in 1 .. Len(s) |-> s[Len(s) + 1 - i]]
=============================================================================
