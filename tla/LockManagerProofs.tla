------------------------- MODULE LockManagerProofs -------------------------
(***************************************************************************)
(* Proofs about LockManager, for any set of entities, any clamp and any    *)
(* number of ids.                                                          *)
(***************************************************************************)
EXTENDS LockManager, TLAPS

(***************************************************************************)
(* What every step does to the lock map.                                   *)
(***************************************************************************)

\* Clamp answers a lease length that LockEntry admits.
LEMMA ClampInRange ==
  ASSUME NEW ttl \in TtlRequests
  PROVE  Clamp(ttl) \in 1 .. MaxTtl
  BY LockManagerAssumption DEF Clamp

\* LockInv, the conjunction of TypeOK and IdsUnique, holds initially.
LEMMA InitInv == Init => LockInv
  BY LockManagerAssumption
     DEF Init, LockInv, TypeOK, IdsUnique, LockEntry, NoEntry, NoId, LockedUnexpired

\* The grant: the one step that hands out an id, always a fresh one.
LEMMA AcquireInv ==
  ASSUME LockInv, NEW e \in Entity, NEW ttl \in TtlRequests, Acquire(e, ttl)
  PROVE  LockInv'
<1>1. Clamp(ttl) \in 1 .. MaxTtl
  BY ClampInRange
<1>2. TypeOK'
  BY <1>1, LockManagerAssumption DEF LockInv, TypeOK, LockEntry, Acquire
<1>3. IdsUnique'
  BY <1>1, LockManagerAssumption
     DEF LockInv, TypeOK, IdsUnique, LockEntry, Acquire, LockedUnexpired, NoId
<1>4. QED
  BY <1>2, <1>3 DEF LockInv

\* A release keeps an entry or erases it.
LEMMA ReleaseInv ==
  ASSUME LockInv, NEW e \in Entity, NEW id \in SuppliedIds, Release(e, id)
  PROVE  LockInv'
<1>1. CASE CheckLock(e, id)
  <2>1. locks' = [locks EXCEPT ![e] = NoEntry] /\ nextId' = nextId
    BY <1>1 DEF Release
  <2>2. TypeOK'
    BY <2>1, LockManagerAssumption DEF LockInv, TypeOK, LockEntry, NoEntry, NoId
  <2>3. IdsUnique'
    BY <2>1, LockManagerAssumption
       DEF LockInv, TypeOK, IdsUnique, LockEntry, NoEntry, NoId, LockedUnexpired
  <2>4. QED
    BY <2>2, <2>3 DEF LockInv
<1>2. CASE ~CheckLock(e, id)
  BY <1>2 DEF Release, LockInv, TypeOK, IdsUnique, LockedUnexpired
<1>3. QED
  BY <1>1, <1>2

\* A renewal changes the time left and never the id, or erases an entry.
LEMMA RenewInv ==
  ASSUME LockInv, NEW e \in Entity, NEW id \in SuppliedIds, NEW ttl \in TtlRequests,
         Renew(e, id, ttl)
  PROVE  LockInv'
<1>1. CASE HeldAs(e, id)
  <2>1. locks' = [locks EXCEPT ![e].left = Clamp(ttl)] /\ nextId' = nextId
    BY <1>1 DEF Renew
  <2>2. Clamp(ttl) \in 1 .. MaxTtl
    BY ClampInRange
  <2>3. TypeOK'
    BY <2>1, <2>2, LockManagerAssumption DEF LockInv, TypeOK, LockEntry
  <2>4. \A d \in Entity : locks'[d].id = locks[d].id
    BY <2>1 DEF LockInv, TypeOK, LockEntry
  <2>5. \A d \in Entity : LockedUnexpired(d)' => LockedUnexpired(d)
    BY <1>1, <2>1 DEF LockInv, TypeOK, LockEntry, HeldAs, LockedUnexpired
  <2>6. IdsUnique'
    BY <2>1, <2>4, <2>5 DEF LockInv, IdsUnique
  <2>7. QED
    BY <2>3, <2>6 DEF LockInv
<1>2. CASE ~HeldAs(e, id) /\ LockedUnexpired(e)
  BY <1>2 DEF Renew, LockInv, TypeOK, IdsUnique, LockedUnexpired
<1>3. CASE ~HeldAs(e, id) /\ ~LockedUnexpired(e)
  <2>1. locks' = [locks EXCEPT ![e] = NoEntry] /\ nextId' = nextId
    BY <1>3 DEF Renew
  <2>2. TypeOK'
    BY <2>1, LockManagerAssumption DEF LockInv, TypeOK, LockEntry, NoEntry, NoId
  <2>3. IdsUnique'
    BY <2>1, LockManagerAssumption
       DEF LockInv, TypeOK, IdsUnique, LockEntry, NoEntry, NoId, LockedUnexpired
  <2>4. QED
    BY <2>2, <2>3 DEF LockInv
<1>4. QED
  BY <1>1, <1>2, <1>3

\* Time changes no id and revives no lease.
LEMMA TickInv ==
  ASSUME LockInv, Tick
  PROVE  LockInv'
<1>1. /\ locks' = [e \in Entity |->
                     [locks[e] EXCEPT !.left = IF @ > 0 THEN @ - 1 ELSE 0]]
      /\ nextId' = nextId
  BY DEF Tick
<1>2. TypeOK'
  BY <1>1, LockManagerAssumption DEF LockInv, TypeOK, LockEntry
<1>3. \A d \in Entity : locks'[d].id = locks[d].id
  BY <1>1 DEF LockInv, TypeOK, LockEntry
<1>4. \A d \in Entity : LockedUnexpired(d)' => LockedUnexpired(d)
  BY <1>1, LockManagerAssumption DEF LockInv, TypeOK, LockEntry, LockedUnexpired
<1>5. IdsUnique'
  <2>1. nextId' = nextId
    BY <1>1
  <2>2. QED
    BY <1>3, <1>4, <2>1 DEF LockInv, IdsUnique
<1>6. QED
  BY <1>2, <1>5 DEF LockInv

\* LockInv is inductive.
LEMMA NextInv == LockInv /\ [Next]_lockVars => LockInv'
<1> SUFFICES ASSUME LockInv, [Next]_lockVars PROVE LockInv'
  OBVIOUS
<1>1. CASE \E e \in Entity, ttl \in TtlRequests : Acquire(e, ttl)
  BY <1>1, AcquireInv
<1>2. CASE \E e \in Entity : AcquireConflict(e)
  BY <1>2 DEF AcquireConflict, lockVars, LockInv, TypeOK, IdsUnique, LockedUnexpired
<1>3. CASE \E e \in Entity, id \in SuppliedIds : Release(e, id)
  BY <1>3, ReleaseInv
<1>4. CASE \E e \in Entity, id \in SuppliedIds, ttl \in TtlRequests : Renew(e, id, ttl)
  BY <1>4, RenewInv
<1>5. CASE Tick
  BY <1>5, TickInv
<1>6. CASE UNCHANGED lockVars
  BY <1>6 DEF lockVars, LockInv, TypeOK, IdsUnique, LockedUnexpired
<1>7. QED
  BY <1>1, <1>2, <1>3, <1>4, <1>5, <1>6 DEF Next

\* LockInv holds in every reachable state.
THEOREM SpecLockInv == Spec => []LockInv
  BY InitInv, NextInv, PTL DEF Spec

\* No entry outlives the clamp, whatever lock_manager.cpp is asked for.
THEOREM SpecTypeOK == Spec => []TypeOK
<1>1. LockInv => TypeOK
  BY DEF LockInv
<1>2. QED
  BY <1>1, SpecLockInv, PTL

\* Lock ids are never shared, by live or by expired entries.
THEOREM SpecIdsUnique == Spec => []IdsUnique
<1>1. LockInv => IdsUnique
  BY DEF LockInv
<1>2. QED
  BY <1>1, SpecLockInv, PTL

(***************************************************************************)
(* Who can end a lease.                                                    *)
(***************************************************************************)

\* The step behind CutShortOnlyByHolder: a lease with more than a second
\* left survives every operation but a release with its own id.
LEMMA CutShortStep ==
  ASSUME LockInv, Next,
         NEW e \in Entity, NEW id \in LockIds,
         HeldAs(e, id), locks[e].left > 1, ~HeldAs(e, id)'
  PROVE  Release(e, id)
<1> USE LockManagerAssumption DEF LockInv, TypeOK, LockEntry, HeldAs, LockedUnexpired
<1>0. locks[e] \in LockEntry /\ locks[e].left > 0 /\ locks[e].id = id
  OBVIOUS
<1>1. CASE \E d \in Entity, ttl \in TtlRequests : Acquire(d, ttl)
  <2>1. PICK d \in Entity, ttl \in TtlRequests : Acquire(d, ttl)
    BY <1>1
  <2>2. d # e
    BY <1>0, <2>1 DEF Acquire
  <2>3. locks'[e] = locks[e]
    BY <2>1, <2>2 DEF Acquire
  <2>4. QED
    BY <1>0, <2>3
<1>2. CASE \E d \in Entity : AcquireConflict(d)
  BY <1>2 DEF AcquireConflict, lockVars
<1>3. CASE \E d \in Entity, other \in SuppliedIds : Release(d, other)
  <2>1. PICK d \in Entity, other \in SuppliedIds : Release(d, other)
    BY <1>3
  <2>2. CASE d # e
    BY <2>1, <2>2 DEF Release
  <2>3. CASE d = e /\ other = id
    BY <2>1, <2>3
  <2>4. CASE d = e /\ other # id
    BY <1>0, <2>1, <2>4 DEF Release, CheckLock
  <2>5. QED
    BY <2>2, <2>3, <2>4
<1>4. CASE \E d \in Entity, other \in SuppliedIds, ttl \in TtlRequests :
             Renew(d, other, ttl)
  <2>1. PICK d \in Entity, other \in SuppliedIds, ttl \in TtlRequests :
               Renew(d, other, ttl)
    BY <1>4
  <2>2. Clamp(ttl) \in 1 .. MaxTtl
    BY ClampInRange
  <2>3. CASE d # e
    BY <2>1, <2>3 DEF Renew
  <2>4. CASE d = e /\ other # id
    BY <1>0, <2>1, <2>4 DEF Renew
  <2>5. CASE d = e /\ other = id
    <3>1. locks' = [locks EXCEPT ![e].left = Clamp(ttl)]
      BY <1>0, <2>1, <2>5 DEF Renew
    <3>2. locks'[e].left = Clamp(ttl) /\ locks'[e].id = id
      BY <1>0, <3>1
    <3>3. QED
      BY <2>2, <3>2
  <2>6. QED
    BY <2>3, <2>4, <2>5
<1>5. CASE Tick
  <2>1. locks'[e].left = locks[e].left - 1 /\ locks'[e].id = id
    BY <1>0, <1>5 DEF Tick
  <2>2. QED
    BY <1>0, <2>1
<1>6. QED
  BY <1>1, <1>2, <1>3, <1>4, <1>5 DEF Next

\* A running lease is cut short by its own holder's release only.
THEOREM SpecCutShortOnlyByHolder == Spec => CutShortOnlyByHolder
<1>1. LockInv /\ [Next]_lockVars =>
        [\A e \in Entity : \A id \in LockIds :
           HeldAs(e, id) /\ locks[e].left > 1 /\ ~HeldAs(e, id)' => Release(e, id)]_lockVars
  BY CutShortStep
<1>2. QED
  BY <1>1, SpecLockInv, PTL DEF Spec, CutShortOnlyByHolder
(***************************************************************************)
(* LockManager implements LockLease under the mapping of Lease: the holder *)
(* of an entity is the id of its unexpired entry, and the ids issued are   *)
(* those below next_id_.                                                   *)
(***************************************************************************)

\* The id an entity is leased under, the mapping of LockLease's holder.
Holder == [e \in Entity |-> IF LockedUnexpired(e) THEN locks[e].id ELSE NoId]

\* A step that leaves next_id_ alone, and after which every entity has the
\* holder it had or none, is a loss of leases.
LEMMA LossOnly ==
  ASSUME nextId' = nextId,
         \A e \in Entity : LockedUnexpired(e)' =>
                             LockedUnexpired(e) /\ locks'[e].id = locks[e].id
  PROVE  \E S \in SUBSET Entity : Lease!Lose(S)
<1> USE DEF LockedUnexpired
<1> DEFINE S == {e \in Entity : ~(locks'[e].left > 0)}
<1>1. \A e \in Entity : Holder'[e] = IF e \in S THEN 0 ELSE Holder[e]
  BY DEF Holder, NoId
<1>2. Holder' = [e \in Entity |-> IF e \in S THEN 0 ELSE Holder[e]]
  BY <1>1 DEF Holder
<1>3. (1 .. nextId - 1)' = 1 .. nextId - 1
  OBVIOUS
<1>4. Lease!Lose(S)
  BY <1>2, <1>3 DEF Lease!Lose, Lease!NoHolder, Holder
<1>5. S \in SUBSET Entity
  OBVIOUS
<1>6. QED
  BY <1>4, <1>5 DEF Lease!Lose

\* A granting acquire is a grant: the entity was free and the id is new.
LEMMA AcquireGrants ==
  ASSUME LockInv, NEW e \in Entity, NEW ttl \in TtlRequests, Acquire(e, ttl)
  PROVE  nextId \in LockIds /\ Lease!Grant(e, nextId)
<1> USE LockManagerAssumption DEF LockInv, TypeOK, LockEntry
<1>1. Clamp(ttl) \in 1 .. MaxTtl
  BY ClampInRange
<1>2. nextId \in LockIds \ (1 .. nextId - 1)
  BY DEF Acquire, LockIds
<1>3. Holder[e] = 0
  BY DEF Holder, Acquire, NoId
<1>4. Holder' = [Holder EXCEPT ![e] = nextId]
  <2>1. \A d \in Entity : Holder'[d] = IF d = e THEN nextId ELSE Holder[d]
    BY <1>1 DEF Holder, Acquire, LockedUnexpired
  <2>2. QED
    BY <2>1 DEF Holder
<1>5. (1 .. nextId - 1)' = (1 .. nextId - 1) \cup {nextId}
  BY DEF Acquire
<1>6. QED
  BY <1>2, <1>3, <1>4, <1>5 DEF Lease!Grant, Lease!NoHolder, Holder, LockIds

\* Every step of LockManager is a step of LockLease or leaves the mapped
\* variables alone.
LEMMA LeaseStep ==
  LockInv /\ [Next]_lockVars => [Lease!Next]_Lease!leaseVars
<1> SUFFICES ASSUME LockInv, [Next]_lockVars PROVE [Lease!Next]_Lease!leaseVars
  OBVIOUS
<1>1. CASE \E e \in Entity, ttl \in TtlRequests : Acquire(e, ttl)
  <2>1. PICK e \in Entity, ttl \in TtlRequests : Acquire(e, ttl)
    BY <1>1
  <2>2. nextId \in LockIds /\ Lease!Grant(e, nextId)
    BY <2>1, AcquireGrants
  <2>3. \E id \in LockIds : Lease!Grant(e, id)
    BY <2>2 DEF Lease!Grant
  <2>4. QED
    BY <2>3 DEF Lease!Next
<1> USE LockManagerAssumption DEF LockInv, TypeOK, LockEntry
<1>2. CASE \E e \in Entity : AcquireConflict(e)
  BY <1>2 DEF AcquireConflict, lockVars, Lease!leaseVars, LockedUnexpired
<1>3. CASE \E e \in Entity, id \in SuppliedIds : Release(e, id)
  <2>1. PICK e \in Entity, id \in SuppliedIds : Release(e, id)
    BY <1>3
  <2>2. nextId' = nextId
    BY <2>1 DEF Release
  <2>3. \A d \in Entity : LockedUnexpired(d)' =>
                            LockedUnexpired(d) /\ locks'[d].id = locks[d].id
    BY <2>1 DEF Release, LockedUnexpired, NoEntry
  <2>4. QED
    BY <2>2, <2>3, LossOnly DEF Lease!Next
<1>4. CASE \E e \in Entity, id \in SuppliedIds, ttl \in TtlRequests :
             Renew(e, id, ttl)
  <2>1. PICK e \in Entity, id \in SuppliedIds, ttl \in TtlRequests :
               Renew(e, id, ttl)
    BY <1>4
  <2>2. nextId' = nextId
    BY <2>1 DEF Renew
  <2>3. Clamp(ttl) \in 1 .. MaxTtl
    BY ClampInRange
  <2>4. \A d \in Entity : LockedUnexpired(d)' =>
                            LockedUnexpired(d) /\ locks'[d].id = locks[d].id
    <3>1. CASE HeldAs(e, id)
      <4>1. locks' = [locks EXCEPT ![e].left = Clamp(ttl)]
        BY <2>1, <3>1 DEF Renew
      <4>2. QED
        BY <3>1, <4>1 DEF LockedUnexpired, HeldAs
    <3>2. CASE ~HeldAs(e, id)
      BY <2>1, <3>2 DEF Renew, LockedUnexpired, NoEntry
    <3>3. QED
      BY <3>1, <3>2
  <2>5. QED
    BY <2>2, <2>4, LossOnly DEF Lease!Next
<1>5. CASE Tick
  <2>1. nextId' = nextId
    BY <1>5 DEF Tick
  <2>2. \A d \in Entity : LockedUnexpired(d)' =>
                            LockedUnexpired(d) /\ locks'[d].id = locks[d].id
    BY <1>5 DEF Tick, LockedUnexpired
  <2>3. QED
    BY <2>1, <2>2, LossOnly DEF Lease!Next
<1>6. CASE UNCHANGED lockVars
  BY <1>6 DEF lockVars, Lease!leaseVars, LockedUnexpired
<1>7. QED
  BY <1>1, <1>2, <1>3, <1>4, <1>5, <1>6 DEF Next

\* The lock map is exclusive leases under fresh ids.
THEOREM SpecImplementsLease == Spec => ImplementsLease
<1>1. Init => Lease!Init
  BY DEF Init, Lease!Init, Lease!NoHolder, LockedUnexpired, NoEntry, NoId
<1>2. QED
  BY <1>1, LeaseStep, SpecLockInv, PTL DEF Spec, ImplementsLease, Lease!Spec

=============================================================================
