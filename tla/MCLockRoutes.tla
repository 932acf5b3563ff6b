---------------------------- MODULE MCLockRoutes ----------------------------
(***************************************************************************)
(* LockRoutes on two entities and two workers, with room for one          *)
(* concurrent lock, so that the cap is reached and overshot.               *)
(***************************************************************************)
EXTENDS LockRoutes, TLC

CONSTANTS e1, e2, w1, w2

TwoEntities == {e1, e2}
TwoWorkers == {w1, w2}
TwoTtls == {1, 2}

Symmetry == Permutations(TwoEntities) \cup Permutations(TwoWorkers)

=============================================================================
