----------------------------- MODULE LockLease -----------------------------
(***************************************************************************)
(* What a client may rely on when it talks to the lock service, with no    *)
(* clock, no map and no id arithmetic.  Every entity is free or leased     *)
(* under one lock id.  A lease is granted only on a free entity and only   *)
(* under an id that was never granted before, anywhere; once lost it is    *)
(* lost for good.  LockManager is shown to implement this.                 *)
(***************************************************************************)
EXTENDS Naturals

CONSTANTS Entity,   \* the entities that can be locked
          LockIds   \* the ids a lease may be granted under, NoHolder not among them

NoHolder == 0

VARIABLES holder,   \* the id each entity is leased under, or NoHolder
          issued    \* every id granted so far

leaseVars == <<holder, issued>>

Init ==
  /\ holder = [e \in Entity |-> NoHolder]
  /\ issued = {}

\* A free entity is leased under an id nobody has seen yet.
Grant(e, id) ==
  /\ holder[e] = NoHolder
  /\ id \in LockIds \ issued
  /\ holder' = [holder EXCEPT ![e] = id]
  /\ issued' = issued \cup {id}

\* Leases end: one of them by its holder's release, or any number of them
\* at once when time passes.
Lose(S) ==
  /\ holder' = [e \in Entity |-> IF e \in S THEN NoHolder ELSE holder[e]]
  /\ UNCHANGED issued

Next ==
  \/ \E e \in Entity, id \in LockIds : Grant(e, id)
  \/ \E S \in SUBSET Entity : Lose(S)

Spec == Init /\ [][Next]_leaseVars

=============================================================================
