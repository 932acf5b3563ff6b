---------------------------- MODULE MCLockClients ----------------------------
(***************************************************************************)
(* LockClients with a C++ lock guard and a browser page that run one after *)
(* the other, in any order and any number of times, on two entities.  A    *)
(* lease lasts two steps of time, so that a heartbeat is due after one.    *)
(***************************************************************************)
EXTENDS LockClients

CONSTANTS e1, e2, g1, t1

TwoEntities == {e1, e2}
OneGuard == {g1}
OneTab == {t1}
OneTtl == {2}

=============================================================================
