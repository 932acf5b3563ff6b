---------------------------- MODULE LockManager ----------------------------
(***************************************************************************)
(* core/src/lock_manager.cpp: per-entity locks with a time to live.  Every *)
(* member function holds mtx_ from its first line to its last, so each is  *)
(* one atomic step here.                                                   *)
(*                                                                         *)
(* The code stores the instant expires_at and compares it with clock_();   *)
(* this module stores the distance between the two, in whole seconds, and  *)
(* lets Tick shrink it.  An entry whose time has run out stays in the map, *)
(* as in the code, until somebody overwrites or erases it.                 *)
(***************************************************************************)
EXTENDS Naturals, FiniteSets

CONSTANTS Entity,        \* entity paths
          MaxTtl,        \* kMaxLockTtlSeconds
          TtlRequests,   \* the ttl_seconds values callers ask for
          MaxId          \* bound on next_id_, for model checking

ASSUME LockManagerAssumption ==
  /\ MaxTtl \in Nat \ {0}
  /\ TtlRequests \subseteq Nat \ {0}
  /\ MaxId \in Nat

VARIABLES locks,         \* locks_: the entry of each entity, or NoEntry
          nextId         \* next_id_: the number in the next "lock-<n>" id

lockVars == <<locks, nextId>>

NoId == 0                                 \* a request without a lock id
NoEntry == [id |-> NoId, left |-> 0]      \* the entity is not in the map

LockIds == 1 .. MaxId                     \* ids that can be handed out
SuppliedIds == {NoId} \cup LockIds        \* what a caller may present

LockEntry == [id : 0 .. MaxId, left : 0 .. MaxTtl]

(***************************************************************************)
(* The queries.                                                            *)
(***************************************************************************)

\* Mutation: an entry counts as held for as long as it is in the map.
HeldForever(e) == locks[e].id # NoId

LockedUnexpired(e) == locks[e].left > 0

HeldAs(e, id) == LockedUnexpired(e) /\ locks[e].id = id

\* check_lock: an unlocked entity is open to everybody.
CheckLock(e, id) == LockedUnexpired(e) => locks[e].id = id

HeldLockCount == Cardinality({e \in Entity : LockedUnexpired(e)})

\* Mutation: an over-generous request is honoured as it stands.
NoClamp(ttl) == ttl

Clamp(ttl) == IF ttl < MaxTtl THEN ttl ELSE MaxTtl

(***************************************************************************)
(* The operations.                                                         *)
(***************************************************************************)

Init ==
  /\ locks = [e \in Entity |-> NoEntry]
  /\ nextId = 1

\* Mutation: the id counter is not advanced.
AcquireSameId(e, ttl) ==
  /\ ~LockedUnexpired(e)
  /\ nextId <= MaxId
  /\ locks' = [locks EXCEPT ![e] = [id |-> nextId, left |-> Clamp(ttl)]]
  /\ UNCHANGED nextId

\* Mutation: a held entity is granted again.
AcquireOverHolder(e, ttl) ==
  /\ nextId <= MaxId
  /\ locks' = [locks EXCEPT ![e] = [id |-> nextId, left |-> Clamp(ttl)]]
  /\ nextId' = nextId + 1

\* acquire, the granting path: an expired entry is simply overwritten.
Acquire(e, ttl) ==
  /\ ~LockedUnexpired(e)
  /\ nextId <= MaxId
  /\ locks' = [locks EXCEPT ![e] = [id |-> nextId, left |-> Clamp(ttl)]]
  /\ nextId' = nextId + 1

\* acquire, the conflict path (std::nullopt).
AcquireConflict(e) ==
  /\ LockedUnexpired(e)
  /\ UNCHANGED lockVars

\* release: the holder's id erases the entry, an expired or absent entry is
\* erased whatever the id (NotFound), another id changes nothing (WrongId).
Release(e, id) ==
  /\ locks' = IF CheckLock(e, id) THEN [locks EXCEPT ![e] = NoEntry] ELSE locks
  /\ UNCHANGED nextId

\* Mutation: renew looks the id up without asking whether it has expired.
RenewExpired(e, id, ttl) ==
  /\ locks' = IF locks[e].id = id /\ id # NoId
              THEN [locks EXCEPT ![e].left = Clamp(ttl)]
              ELSE locks
  /\ UNCHANGED nextId

\* renew: as release, except that the holder's id restarts the lease.
Renew(e, id, ttl) ==
  /\ locks' = IF HeldAs(e, id) THEN [locks EXCEPT ![e].left = Clamp(ttl)]
              ELSE IF LockedUnexpired(e) THEN locks
              ELSE [locks EXCEPT ![e] = NoEntry]
  /\ UNCHANGED nextId

\* steady_clock advances by one second.
Tick ==
  /\ \E e \in Entity : LockedUnexpired(e)
  /\ locks' = [e \in Entity |->
                 [locks[e] EXCEPT !.left = IF @ > 0 THEN @ - 1 ELSE 0]]
  /\ UNCHANGED nextId

Next ==
  \/ \E e \in Entity, ttl \in TtlRequests : Acquire(e, ttl)
  \/ \E e \in Entity : AcquireConflict(e)
  \/ \E e \in Entity, id \in SuppliedIds : Release(e, id)
  \/ \E e \in Entity, id \in SuppliedIds, ttl \in TtlRequests : Renew(e, id, ttl)
  \/ Tick

Spec == Init /\ [][Next]_lockVars

\* Time does not stop; callers are under no obligation to do anything.
FairSpec == Spec /\ WF_lockVars(Tick)

(***************************************************************************)
(* Properties.                                                             *)
(***************************************************************************)

\* Every entry is a lock entry, and no entry lives longer than the clamp
\* kMaxLockTtlSeconds allows, whatever was asked for.
TypeOK ==
  /\ locks \in [Entity -> LockEntry]
  /\ nextId \in 1 .. MaxId + 1

\* Ids are "lock-<n>" with n from one shared counter: every id in the map
\* was handed out, and two entities never share one, live or expired.
IdsUnique ==
  /\ \A e \in Entity : locks[e].id < nextId
  /\ \A e \in Entity : LockedUnexpired(e) => locks[e].id # NoId
  /\ \A d, e \in Entity : d # e /\ locks[d].id # NoId => locks[d].id # locks[e].id

\* The inductive invariant behind the theorems of LockManagerProofs.
LockInv == TypeOK /\ IdsUnique

\* A lease with time left is cut short only by a release that presents its
\* own id: not by another client's release, renew or acquire, and not by
\* one on another entity (release's and renew's WrongId path, acquire's
\* conflict path).
CutShortOnlyByHolder ==
  [][\A e \in Entity : \A id \in LockIds :
       HeldAs(e, id) /\ locks[e].left > 1 /\ ~HeldAs(e, id)' => Release(e, id)]_lockVars

\* A lock whose client has died does not block the entity for ever: one that
\* stays held is one that is renewed again and again.
AbandonedLockExpires ==
  \A e \in Entity, id \in LockIds :
    <>[]HeldAs(e, id) => []<><<\E ttl \in TtlRequests : Renew(e, id, ttl)>>_lockVars

\* The lock map keeps the promise of LockLease: exclusive leases under fresh
\* ids that never come back.
Lease == INSTANCE LockLease
           WITH LockIds <- LockIds,
                holder <- [e \in Entity |-> IF LockedUnexpired(e) THEN locks[e].id ELSE NoId],
                issued <- 1 .. nextId - 1

ImplementsLease == Lease!Spec

=============================================================================
