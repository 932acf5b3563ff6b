--------------------------- MODULE MCStreamRoutes ---------------------------
(***************************************************************************)
(* StreamRoutes with two workers and two items: one worker can join the    *)
(* old poller of an item while the other starts or shares a new one.       *)
(***************************************************************************)
EXTENDS StreamRoutes

CONSTANTS w1, w2, i1, i2, p1, p2, t1, t2

Workers == {w1, w2}
Items == {i1, i2}
Pollers == {p1, p2}
Tickets == {t1, t2}

=============================================================================
