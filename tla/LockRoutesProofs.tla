-------------------------- MODULE LockRoutesProofs --------------------------
(***************************************************************************)
(* Proofs about LockRoutes, for any finite number of workers and entities, *)
(* any capacity and any number of ids.  The routes touch the lock map only *)
(* through LockManager's operations, so LockManager's invariant carries    *)
(* over; what is new is what the handlers remember between two of them.    *)
(***************************************************************************)
EXTENDS LockRoutes, LockManagerProofs, FiniteSetTheorems

(***************************************************************************)
(* The routes as clients of LockManager.                                   *)
(***************************************************************************)

\* Every step of the routes is a LockManager step or leaves the map alone.
LEMMA RoutesStepLocks ==
  ASSUME RoutesTypeOK, [RoutesNext]_routeVars
  PROVE  [Next]_lockVars
<1>1. CASE \E w \in Worker, e \in Entity : PostLockCheck(w, e)
  BY <1>1 DEF PostLockCheck, lockVars
<1>2. CASE \E w \in Worker : PostLockAcquire(w)
  <2>1. PICK w \in Worker : PostLockAcquire(w)
    BY <1>2
  <2>2. op[w].phase = "acquire" /\ op[w] \in Op
    BY <2>1 DEF PostLockAcquire, RoutesTypeOK
  <2>3. op[w].entity \in Entity
    BY <2>2 DEF Op
  <2>4. QED
    BY <2>1, <2>3 DEF PostLockAcquire, Next
<1>3. CASE \E w \in Worker, e \in Entity, id \in SuppliedIds, ttl \in TtlRequests :
             PutLock(w, e, id, ttl)
  BY <1>3 DEF PutLock, Next
<1>4. CASE \E w \in Worker, e \in Entity, id \in SuppliedIds : DeleteLock(w, e, id)
  BY <1>4 DEF DeleteLock, Next
<1>5. CASE \E w \in Worker, e \in Entity, id \in SuppliedIds : GatedCheck(w, e, id)
  BY <1>5 DEF GatedCheck, lockVars
<1>6. CASE \E w \in Worker : GatedReject(w) \/ EnsureSession(w) \/ RevertToDefault(w)
  BY <1>6 DEF GatedReject, EnsureSession, RevertToDefault, lockVars
<1>7. CASE \E w \in Worker : RecordSession(w) \/ ForgetSession(w) \/ LeaveUnrecorded(w)
  BY <1>7 DEF RecordSession, ForgetSession, LeaveUnrecorded, lockVars
<1>8. CASE \E e \in Entity : SessionIdleTimeout(e)
  BY <1>8 DEF SessionIdleTimeout, lockVars
<1>9. CASE RoutesTick
  BY <1>9 DEF RoutesTick, Next
<1>10. CASE UNCHANGED routeVars
  BY <1>10 DEF routeVars, lockVars
<1>11. QED
  BY <1>1, <1>2, <1>3, <1>4, <1>5, <1>6, <1>7, <1>8, <1>9, <1>10 DEF RoutesNext

\* What a LockManager step can do to one entry: keep it, erase it, change
\* its time, or replace it by one under the next id.
LEMMA EntryStep ==
  ASSUME LockInv, [Next]_lockVars, NEW e \in Entity
  PROVE  \/ nextId' = nextId /\ locks'[e].id \in {locks[e].id, NoId}
            /\ (LockedUnexpired(e)' => LockedUnexpired(e) /\ locks'[e].id = locks[e].id)
         \/ nextId' = nextId + 1 /\ locks'[e] = locks[e]
         \/ nextId' = nextId + 1 /\ locks'[e].id = nextId
<1>1. CASE \E d \in Entity, ttl \in TtlRequests : Acquire(d, ttl)
  BY <1>1 DEF LockInv, TypeOK, LockEntry, Acquire
<1>2. CASE \E d \in Entity : AcquireConflict(d)
  BY <1>2 DEF AcquireConflict, lockVars, LockedUnexpired
<1>3. CASE \E d \in Entity, id \in SuppliedIds : Release(d, id)
  BY <1>3 DEF LockInv, TypeOK, LockEntry, Release, LockedUnexpired, NoEntry, NoId
<1>4. CASE \E d \in Entity, id \in SuppliedIds, ttl \in TtlRequests : Renew(d, id, ttl)
  <2>1. PICK d \in Entity, id \in SuppliedIds, ttl \in TtlRequests : Renew(d, id, ttl)
    BY <1>4
  <2>2. CASE HeldAs(d, id)
    <3>1. locks' = [locks EXCEPT ![d].left = Clamp(ttl)] /\ nextId' = nextId
      BY <2>1, <2>2 DEF Renew
    <3>2. QED
      BY <2>2, <3>1 DEF LockInv, TypeOK, LockEntry, LockedUnexpired, HeldAs
  <2>3. CASE ~HeldAs(d, id)
    BY <2>1, <2>3
       DEF Renew, LockInv, TypeOK, LockEntry, LockedUnexpired, NoEntry, NoId
  <2>4. QED
    BY <2>2, <2>3
<1>5. CASE Tick
  BY <1>5 DEF Tick, LockInv, TypeOK, LockEntry, LockedUnexpired
<1>6. CASE UNCHANGED lockVars
  BY <1>6 DEF lockVars, LockedUnexpired
<1>7. QED
  BY <1>1, <1>2, <1>3, <1>4, <1>5, <1>6 DEF Next

(***************************************************************************)
(* What each worker may be in the middle of.                               *)
(***************************************************************************)

\* The fields of op[w] are those of its phase.
LEMMA OpFields ==
  ASSUME NEW o \in Op
  PROVE  /\ o.phase \in {"idle", "acquire"} \cup InVtable
         /\ o.phase = "acquire" => o.entity \in Entity
         /\ o.phase \in InVtable => /\ o.entity \in Entity
                                    /\ o.id \in 0 .. MaxId
                                    /\ o.by \in {"gated", "teardown"}
                                    /\ o.seen \in 1 .. MaxId + 1
                                    /\ o.by = "teardown" =>
                                         /\ o.id \in LockIds
                                         /\ o.phase \in {"effect", "revert", "settle"}
<1> USE LockManagerAssumption
<1>1. CASE o \in [phase : InVtable, entity : Entity, id : 0 .. MaxId,
                  by : {"gated"}, seen : 1 .. MaxId + 1]
  BY <1>1 DEF InVtable, InSession
<1>2. CASE o \in [phase : {"effect", "revert", "settle"}, entity : Entity, id : LockIds,
                  by : {"teardown"}, seen : 1 .. MaxId + 1]
  <2>1. /\ o.phase \in {"effect", "revert", "settle"} /\ o.entity \in Entity
        /\ o.id \in LockIds /\ o.by = "teardown" /\ o.seen \in 1 .. MaxId + 1
    BY <1>2
  <2>2. o.phase \in InVtable /\ o.phase # "acquire" /\ o.id \in 0 .. MaxId
    BY <2>1 DEF LockIds, InVtable, InSession
  <2>3. QED
    BY <2>1, <2>2
<1>3. CASE o \in [phase : {"idle"}] \cup [phase : {"acquire"}, entity : Entity]
  BY <1>3 DEF InVtable, InSession
<1>4. QED
  BY <1>1, <1>2, <1>3 DEF Op

\* Every operation has a phase, which can be replaced.
LEMMA OpPhase ==
  ASSUME NEW o \in Op, NEW phase
  PROVE  [o EXCEPT !.phase = phase].phase = phase
  BY DEF Op

\* A vtable call that enters its SessionManager stays what it was.
LEMMA EnterOp ==
  ASSUME NEW o \in Op, o.phase = "effect", NEW phase \in InSession,
         o.by = "teardown" => phase \in {"revert", "settle"}
  PROVE  /\ [o EXCEPT !.phase = phase] \in Op
         /\ [o EXCEPT !.phase = phase].phase = phase
         /\ [o EXCEPT !.phase = phase].entity = o.entity
         /\ [o EXCEPT !.phase = phase].id = o.id
         /\ [o EXCEPT !.phase = phase].by = o.by
         /\ [o EXCEPT !.phase = phase].seen = o.seen
<1>1. CASE o \in [phase : InVtable, entity : Entity, id : 0 .. MaxId,
                  by : {"gated"}, seen : 1 .. MaxId + 1]
  <2>1. [o EXCEPT !.phase = phase] \in [phase : InVtable, entity : Entity,
                  id : 0 .. MaxId, by : {"gated"}, seen : 1 .. MaxId + 1]
    BY <1>1 DEF InVtable
  <2>2. QED
    BY <1>1, <2>1 DEF Op
<1>2. CASE o \in [phase : {"effect", "revert", "settle"}, entity : Entity, id : LockIds,
                  by : {"teardown"}, seen : 1 .. MaxId + 1]
  <2>1. [o EXCEPT !.phase = phase] \in [phase : {"effect", "revert", "settle"},
                  entity : Entity, id : LockIds, by : {"teardown"}, seen : 1 .. MaxId + 1]
    BY <1>2
  <2>2. QED
    BY <1>2, <2>1 DEF Op
<1>3. CASE o \in [phase : {"idle"}] \cup [phase : {"acquire"}, entity : Entity]
  BY <1>3
<1>4. QED
  BY <1>1, <1>2, <1>3 DEF Op

\* One worker's operation changes at a time, to one of these.
OpMoves(w, o) ==
  /\ op' = [op EXCEPT ![w] = o]
  /\ \/ o = IdleOp
     \/ \E e \in Entity : op[w] = IdleOp /\ o = AcquireOp(e)
     \/ \E e \in Entity, id \in SuppliedIds :
          /\ op[w] = IdleOp /\ o = VtableOp(e, AdmittedUnder(e, id), "gated")
          /\ CheckLock(e, id)
          /\ UNCHANGED <<locks, nextId>>
     \/ \E e \in Entity, id \in LockIds :
          /\ op[w] = IdleOp /\ o = VtableOp(e, id, "teardown")
          /\ HeldAs(e, id) /\ Release(e, id)
     \/ \E phase \in InSession :
          /\ op[w].phase = "effect" /\ o = [op[w] EXCEPT !.phase = phase]
          /\ o.entity = op[w].entity /\ o.id = op[w].id /\ o.seen = op[w].seen

\* Every step of the routes moves one worker that way, or none.
LEMMA OpStep ==
  ASSUME RoutesInv, [RoutesNext]_routeVars
  PROVE  op' = op \/ \E w \in Worker, o \in Op : OpMoves(w, o)
<1> USE LockManagerAssumption
<1>0. RoutesTypeOK /\ TypeOK /\ IdleOp \in Op
  BY DEF RoutesInv, RoutesTypeOK, IdleOp, Op
<1>1. CASE \E w \in Worker, e \in Entity : PostLockCheck(w, e)
  <2>1. PICK w \in Worker, e \in Entity : PostLockCheck(w, e)
    BY <1>1
  <2>2. AcquireOp(e) \in Op
    BY DEF AcquireOp, Op
  <2>3. op' = op \/ OpMoves(w, AcquireOp(e))
    BY <2>1 DEF PostLockCheck, Idle, Become, OpMoves
  <2>4. QED
    BY <2>2, <2>3
<1>2. CASE \E w \in Worker : \/ PostLockAcquire(w)
                             \/ GatedReject(w)
                             \/ RecordSession(w)
                             \/ ForgetSession(w)
                             \/ LeaveUnrecorded(w)
  BY <1>0, <1>2
     DEF PostLockAcquire, GatedReject, RecordSession, ForgetSession, LeaveUnrecorded,
         Leave, Finish, Become, OpMoves
<1>3. CASE \E w \in Worker, e \in Entity, id \in SuppliedIds, ttl \in TtlRequests :
             PutLock(w, e, id, ttl)
  BY <1>3 DEF PutLock
<1>4. CASE \E w \in Worker, e \in Entity, id \in SuppliedIds : DeleteLock(w, e, id)
  <2>1. PICK w \in Worker, e \in Entity, id \in SuppliedIds : DeleteLock(w, e, id)
    BY <1>4
  <2>2. CASE HeldAs(e, id)
    <3>1. id \in LockIds
      BY <1>0, <2>2 DEF HeldAs, SuppliedIds, LockedUnexpired, RoutesInv, LockInv, IdsUnique
    <3>2. VtableOp(e, id, "teardown") \in Op
      BY <1>0, <3>1 DEF VtableOp, Op, TypeOK
    <3>3. OpMoves(w, VtableOp(e, id, "teardown"))
      BY <2>1, <2>2, <3>1 DEF DeleteLock, Idle, Become, OpMoves
    <3>4. QED
      BY <3>2, <3>3
  <2>3. CASE ~HeldAs(e, id)
    BY <2>1, <2>3 DEF DeleteLock
  <2>4. QED
    BY <2>2, <2>3
<1>5. CASE \E w \in Worker, e \in Entity, id \in SuppliedIds : GatedCheck(w, e, id)
  <2>1. PICK w \in Worker, e \in Entity, id \in SuppliedIds : GatedCheck(w, e, id)
    BY <1>5
  <2>2. VtableOp(e, AdmittedUnder(e, id), "gated") \in Op
    BY <1>0 DEF VtableOp, AdmittedUnder, Op, SuppliedIds, LockIds, NoId, TypeOK, InVtable
  <2>3. op' = op \/ OpMoves(w, VtableOp(e, AdmittedUnder(e, id), "gated"))
    BY <2>1 DEF GatedCheck, Idle, Become, OpMoves
  <2>4. QED
    BY <2>2, <2>3
<1>6. CASE \E w \in Worker : EnsureSession(w) \/ RevertToDefault(w)
  <2>1. PICK w \in Worker : EnsureSession(w) \/ RevertToDefault(w)
    BY <1>6
  <2>2. op[w] \in Op /\ op[w].phase = "effect"
    BY <1>0, <2>1 DEF RoutesTypeOK, EnsureSession, RevertToDefault
  <2>3. CASE Finish(w)
    BY <1>0, <2>3 DEF Finish, Become, OpMoves
  <2>4. CASE \E phase \in InSession :
               /\ Enter(w, phase)
               /\ op[w].by = "teardown" => phase \in {"revert", "settle"}
    <3>1. PICK phase \in InSession :
                 /\ Enter(w, phase)
                 /\ op[w].by = "teardown" => phase \in {"revert", "settle"}
      BY <2>4
    <3> DEFINE o == [op[w] EXCEPT !.phase = phase]
    <3>2. op' = [op EXCEPT ![w] = o]
      BY <3>1 DEF Enter, Become
    <3>3. o \in Op /\ o.entity = op[w].entity /\ o.id = op[w].id /\ o.seen = op[w].seen
      BY <2>2, <3>1, EnterOp
    <3>4. OpMoves(w, o)
      BY <2>2, <3>2, <3>3 DEF OpMoves
    <3>5. QED
      BY <3>3, <3>4
  <2>5. QED
    BY <2>1, <2>3, <2>4 DEF EnsureSession, RevertToDefault, InSession
<1>7. CASE \E e \in Entity : SessionIdleTimeout(e)
  BY <1>7 DEF SessionIdleTimeout
<1>8. CASE RoutesTick
  BY <1>8 DEF RoutesTick
<1>9. CASE UNCHANGED routeVars
  BY <1>9 DEF routeVars
<1>10. QED
  BY <1>1, <1>2, <1>3, <1>4, <1>5, <1>6, <1>7, <1>8, <1>9 DEF RoutesNext

(***************************************************************************)
(* RoutesInv is inductive.                                                 *)
(***************************************************************************)

\* Every part of RoutesInv holds initially.
LEMMA RoutesInitInv == RoutesInit => RoutesInv
<1> SUFFICES ASSUME RoutesInit PROVE RoutesInv
  OBVIOUS
<1>1. LockInv
  BY InitInv DEF RoutesInit
<1>2. RoutesTypeOK
  <2>1. IdleOp \in Op
    BY DEF IdleOp, Op
  <2>2. DefaultSession \in Session
    BY LockManagerAssumption DEF DefaultSession, Session, NoId
  <2>3. QED
    BY <1>1, <2>1, <2>2 DEF RoutesInit, RoutesTypeOK, LockInv
<1>3. SeenBefore /\ RacesOnlyNewerHolder
  BY DEF RoutesInit, SeenBefore, RacesOnlyNewerHolder, IdleOp, InVtable, InSession
<1>4. ReleasedIdsGone /\ OwnersPlaced /\ ReleasedSessionIsTornDown
  BY DEF RoutesInit, ReleasedIdsGone, OwnersPlaced, ReleasedSessionIsTornDown,
         DefaultSession
<1>5. QED
  BY <1>1, <1>2, <1>3, <1>4 DEF RoutesInv

\* A session is left alone, ended, or recorded as escalated, and in the last
\* case it counts as held exactly when its owner holds the entity.
LEMMA SessionMoves ==
  ASSUME RoutesInv, [RoutesNext]_routeVars
  PROVE  /\ session' \in [Entity -> Session]
         /\ \A e \in Entity :
              \/ session'[e] = session[e]
              \/ session'[e] = DefaultSession
              \/ /\ session'[e].held => HeldAs(e, session'[e].owner)
                 /\ UNCHANGED <<locks, nextId, released>>
<1> USE LockManagerAssumption
<1>0. /\ op \in [Worker -> Op]
      /\ session \in [Entity -> Session] /\ DefaultSession \in Session
  BY DEF RoutesInv, RoutesTypeOK, DefaultSession, Session, NoId
<1>1. CASE UNCHANGED session
  BY <1>0, <1>1
<1>2. CASE \E e \in Entity : session' = [session EXCEPT ![e] = DefaultSession]
  BY <1>0, <1>2
<1>3. CASE \E w \in Worker : op[w].phase = "escalate" /\ RecordSession(w)
  <2>1. PICK w \in Worker : op[w].phase = "escalate" /\ RecordSession(w)
    BY <1>3
  <2> DEFINE e == op[w].entity
             s == [up |-> TRUE, owner |-> op[w].id, held |-> HeldAs(e, op[w].id)]
  <2>2. e \in Entity /\ op[w].id \in 0 .. MaxId
    BY <1>0, <2>1, OpFields DEF InVtable, InSession
  <2>3. session' = [session EXCEPT ![e] = s] /\ UNCHANGED <<locks, nextId, released>>
    BY <2>1 DEF RecordSession
  <2>4. s \in Session
    BY <2>2 DEF Session, HeldAs, LockedUnexpired
  <2>5. QED
    BY <1>0, <2>2, <2>3, <2>4
<1>4. CASE \E w \in Worker : /\ op[w].phase \in InVtable
                             /\ session' = [session EXCEPT ![op[w].entity] = DefaultSession]
  BY <1>0, <1>2, <1>4, OpFields
<1>5. QED
  BY <1>1, <1>2, <1>3, <1>4
     DEF RoutesNext, PostLockCheck, PostLockAcquire, PutLock, DeleteLock, GatedCheck,
         GatedReject, EnsureSession, RevertToDefault, RecordSession, ForgetSession,
         LeaveUnrecorded, SessionIdleTimeout, RoutesTick, routeVars, InVtable, InSession

\* An id becomes released by its holder's DELETE, which goes on to tear the
\* session down.
LEMMA ReleasedMoves ==
  ASSUME RoutesInv, [RoutesNext]_routeVars
  PROVE  \/ released' = released
         \/ \E w \in Worker, e \in Entity, id \in LockIds :
              /\ op[w] = IdleOp
              /\ op' = [op EXCEPT ![w] = VtableOp(e, id, "teardown")]
              /\ HeldAs(e, id) /\ Release(e, id)
              /\ released' = released \cup {id}
<1> USE LockManagerAssumption
<1>1. CASE \E w \in Worker, e \in Entity, id \in SuppliedIds : DeleteLock(w, e, id)
  <2>1. PICK w \in Worker, e \in Entity, id \in SuppliedIds : DeleteLock(w, e, id)
    BY <1>1
  <2>2. CASE HeldAs(e, id)
    <3>1. id \in LockIds
      BY <2>2 DEF HeldAs, SuppliedIds, RoutesInv, LockInv, IdsUnique
    <3>2. QED
      BY <2>1, <2>2, <3>1 DEF DeleteLock, Idle, Become
  <2>3. CASE ~HeldAs(e, id)
    BY <2>1, <2>3 DEF DeleteLock
  <2>4. QED
    BY <2>2, <2>3
<1>2. QED
  BY <1>1
     DEF RoutesNext, PostLockCheck, PostLockAcquire, PutLock, GatedCheck, GatedReject,
         EnsureSession, RevertToDefault, RecordSession, ForgetSession, LeaveUnrecorded,
         SessionIdleTimeout, RoutesTick, routeVars

\* The two other histories keep their types, and a teardown stays lapsed.
LEMMA HistoryMoves ==
  ASSUME RoutesInv, [RoutesNext]_routeVars
  PROVE  /\ lapsed' \in SUBSET LockIds
         /\ lapsed \subseteq lapsed'
         /\ crowded' \in SUBSET Worker
<1>0. op \in [Worker -> Op] /\ lapsed \in SUBSET LockIds /\ crowded \in SUBSET Worker
  BY DEF RoutesInv, RoutesTypeOK
<1>1. CASE \E w \in Worker : EnsureSession(w) \/ RevertToDefault(w)
  BY <1>0, <1>1 DEF EnsureSession, RevertToDefault, Enter, Inside
<1>2. CASE \E w \in Worker : RecordSession(w) \/ ForgetSession(w)
  BY <1>0, <1>2 DEF RecordSession, ForgetSession, Leave
<1>3. CASE \E w \in Worker : LeaveUnrecorded(w)
  <2>1. PICK w \in Worker : LeaveUnrecorded(w)
    BY <1>3
  <2>2. op[w].by = "teardown" => op[w].id \in LockIds
    BY <1>0, <2>1, OpFields DEF LeaveUnrecorded, InVtable
  <2>3. QED
    BY <1>0, <2>1, <2>2 DEF LeaveUnrecorded, Leave
<1>4. QED
  BY <1>0, <1>1, <1>2, <1>3
     DEF RoutesNext, PostLockCheck, PostLockAcquire, PutLock, DeleteLock, GatedCheck,
         GatedReject, SessionIdleTimeout, RoutesTick, routeVars

\* A teardown that has yet to end the session goes on to: it is dropped only
\* once the session is down, or when its join of the heartbeat threw.
LEMMA TeardownGoesOn ==
  ASSUME RoutesInv, [RoutesNext]_routeVars,
         NEW w \in Worker, op[w].phase \in {"effect", "revert"}, op[w].by = "teardown"
  PROVE  \/ op'[w] = op[w]
         \/ op'[w] = [op[w] EXCEPT !.phase = "revert"] /\ op[w].phase = "effect"
         \/ ~session'[op[w].entity].up
         \/ op[w].id \in lapsed'
<1>0. /\ op \in [Worker -> Op]
      /\ session \in [Entity -> Session]
      /\ op[w].entity \in Entity
  BY OpFields DEF RoutesInv, RoutesTypeOK, InVtable, InSession
<1>1. CASE RevertToDefault(w)
  <2>1. op' = [op EXCEPT ![w] = [op[w] EXCEPT !.phase =
                 IF session[op[w].entity].up THEN "revert" ELSE "settle"]]
    BY <1>1 DEF RevertToDefault, Enter, Become
  <2>2. UNCHANGED session /\ op[w].phase = "effect"
    BY <1>1 DEF RevertToDefault
  <2>3. QED
    BY <1>0, <2>1, <2>2
<1>2. CASE ForgetSession(w)
  BY <1>0, <1>2 DEF ForgetSession, DefaultSession
<1>3. CASE LeaveUnrecorded(w)
  BY <1>3 DEF LeaveUnrecorded, InSession
<1>4. CASE GatedReject(w) \/ EnsureSession(w) \/ RecordSession(w) \/ PostLockAcquire(w)
  BY <1>4 DEF GatedReject, EnsureSession, RecordSession, PostLockAcquire
<1>5. CASE \E v \in Worker : v # w /\ \E o : op' = [op EXCEPT ![v] = o]
  BY <1>0, <1>5
<1>6. CASE UNCHANGED op
  BY <1>6
<1>7. CASE \E v \in Worker : \/ GatedReject(v) \/ EnsureSession(v) \/ RevertToDefault(v)
                             \/ RecordSession(v) \/ ForgetSession(v) \/ LeaveUnrecorded(v)
                             \/ PostLockAcquire(v)
  <2>1. PICK v \in Worker : \/ GatedReject(v) \/ EnsureSession(v) \/ RevertToDefault(v)
                            \/ RecordSession(v) \/ ForgetSession(v) \/ LeaveUnrecorded(v)
                            \/ PostLockAcquire(v)
    BY <1>7
  <2>2. \E o : op' = [op EXCEPT ![v] = o]
    BY <2>1 DEF GatedReject, EnsureSession, RevertToDefault, RecordSession, ForgetSession,
                LeaveUnrecorded, PostLockAcquire, Enter, Leave, Finish, Become
  <2>3. QED
    BY <1>1, <1>2, <1>3, <1>4, <1>5, <2>1, <2>2
<1>8. CASE \E v \in Worker, e \in Entity :
             \/ PostLockCheck(v, e)
             \/ \E id \in SuppliedIds : DeleteLock(v, e, id) \/ GatedCheck(v, e, id)
  <2>1. PICK v \in Worker : op[v] = IdleOp /\ \E o : op' = op \/ op' = [op EXCEPT ![v] = o]
    BY <1>8 DEF PostLockCheck, DeleteLock, GatedCheck, Idle, Become
  <2>2. v # w
    BY <2>1 DEF IdleOp
  <2>3. QED
    BY <1>5, <2>1, <2>2
<1>9. QED
  BY <1>6, <1>7, <1>8
     DEF RoutesNext, PutLock, SessionIdleTimeout, RoutesTick, routeVars

\* RoutesInv is inductive.
LEMMA RoutesNextInv == RoutesInv /\ [RoutesNext]_routeVars => RoutesInv'
<1> SUFFICES ASSUME RoutesInv, [RoutesNext]_routeVars PROVE RoutesInv'
  OBVIOUS
<1> USE LockManagerAssumption
<1>1. [Next]_lockVars
  BY RoutesStepLocks DEF RoutesInv
<1>2. LockInv /\ LockInv'
  BY <1>1, NextInv DEF RoutesInv
<1>3. nextId \in 1 .. MaxId + 1 /\ nextId' \in 1 .. MaxId + 1 /\ nextId' >= nextId
  BY <1>1, <1>2 DEF LockInv, TypeOK, Next, Acquire, AcquireConflict, Release, Renew,
                    Tick, lockVars
<1>4. op \in [Worker -> Op] /\ op' \in [Worker -> Op]
  BY OpStep DEF RoutesInv, RoutesTypeOK, OpMoves
<1>5. released \in SUBSET LockIds /\ released' \in SUBSET LockIds
  BY ReleasedMoves DEF RoutesInv, RoutesTypeOK
<1>6. RoutesTypeOK'
  BY <1>2, <1>4, <1>5, SessionMoves, HistoryMoves DEF RoutesTypeOK, LockInv
<1>7. SeenBefore'
  <2> SUFFICES ASSUME NEW v \in Worker, op'[v].phase \in InVtable
               PROVE  op'[v].seen <= nextId'
    BY DEF SeenBefore
  <2>1. CASE op[v].phase \in InVtable /\ op'[v].seen = op[v].seen
    <3>1. op[v].seen \in 1 .. MaxId + 1 /\ op[v].seen <= nextId
      BY <1>4, <2>1, OpFields DEF RoutesInv, SeenBefore
    <3>2. QED
      BY <1>3, <2>1, <3>1
  <2>2. CASE op'[v] # op[v]
    <3>1. PICK w \in Worker, o \in Op : OpMoves(w, o)
      BY <2>2, OpStep
    <3>2. w = v /\ op'[v] = o
      BY <1>4, <2>2, <3>1 DEF OpMoves
    <3>3. o # IdleOp /\ \A d \in Entity : o # AcquireOp(d)
      BY <3>2 DEF IdleOp, AcquireOp, InVtable, InSession
    <3>4. CASE \E d \in Entity, id \in 0 .. MaxId, by \in {"gated", "teardown"} :
                 o = VtableOp(d, id, by)
      BY <1>3, <3>2, <3>4 DEF VtableOp
    <3>5. CASE op[v].phase = "effect" /\ o.seen = op[v].seen
      BY <2>1, <3>2, <3>5 DEF InVtable
    <3>6. \A d \in Entity, id \in SuppliedIds :
            id \in 0 .. MaxId /\ AdmittedUnder(d, id) \in 0 .. MaxId
      BY DEF SuppliedIds, LockIds, NoId, AdmittedUnder
    <3>7. QED
      BY <3>1, <3>2, <3>3, <3>4, <3>5, <3>6 DEF OpMoves, SuppliedIds
  <2>3. QED
    BY <2>1, <2>2
<1>8. RacesOnlyNewerHolder'
  <2> SUFFICES ASSUME NEW v \in Worker, op'[v].phase \in InVtable,
                      NEW e \in Entity, e = op'[v].entity, LockedUnexpired(e)'
               PROVE  locks'[e].id \in {op'[v].id} \cup (op'[v].seen .. MaxId)
    <3>1. ASSUME NEW v \in Worker, op'[v].phase \in InVtable
          PROVE  op'[v].entity \in Entity
      BY <1>4, <3>1, OpFields
    <3>2. QED
      BY <3>1 DEF RacesOnlyNewerHolder, LockedUnexpired
  <2>1. op'[v].seen \in 1 .. MaxId + 1
    BY <1>4, OpFields
  <2>2. \/ nextId' = nextId /\ LockedUnexpired(e) /\ locks'[e].id = locks[e].id
        \/ nextId' = nextId + 1 /\ locks'[e] = locks[e]
        \/ nextId' = nextId + 1 /\ locks'[e].id = nextId
    BY <1>1, <1>2, EntryStep
  <2>3. CASE /\ op[v].phase \in InVtable /\ op'[v].entity = op[v].entity
             /\ op'[v].id = op[v].id /\ op'[v].seen = op[v].seen
    <3>1. op[v].seen <= nextId
      BY <2>3 DEF RoutesInv, SeenBefore
    <3>2. LockedUnexpired(e) => locks[e].id \in {op[v].id} \cup (op[v].seen .. MaxId)
      BY <2>3 DEF RoutesInv, RacesOnlyNewerHolder
    <3>3. CASE nextId' = nextId + 1 /\ locks'[e].id = nextId
      BY <1>3, <2>1, <2>3, <3>1, <3>3
    <3>4. CASE nextId' = nextId + 1 /\ locks'[e] = locks[e]
      BY <2>3, <3>2, <3>4 DEF LockedUnexpired
    <3>5. QED
      BY <2>2, <2>3, <3>2, <3>3, <3>4
  <2>4. CASE op'[v] # op[v]
    <3>1. PICK w \in Worker, o \in Op : OpMoves(w, o)
      BY <2>4, OpStep
    <3>2. w = v /\ op'[v] = o
      BY <1>4, <2>4, <3>1 DEF OpMoves
    <3>3. CASE \E d \in Entity, id \in SuppliedIds :
                 /\ o = VtableOp(d, AdmittedUnder(d, id), "gated")
                 /\ CheckLock(d, id)
                 /\ UNCHANGED <<locks, nextId>>
      BY <3>2, <3>3 DEF VtableOp, AdmittedUnder, HeldAs, CheckLock, LockedUnexpired
    <3>4. CASE \E d \in Entity, id \in LockIds :
                 o = VtableOp(d, id, "teardown") /\ HeldAs(d, id) /\ Release(d, id)
      <4>1. ~LockedUnexpired(e)'
        BY <1>2, <3>2, <3>4
           DEF VtableOp, HeldAs, Release, CheckLock, LockedUnexpired, LockInv, TypeOK,
               NoEntry
      <4>2. QED
        BY <4>1
    <3>5. CASE /\ op[v].phase = "effect" /\ o.entity = op[v].entity
               /\ o.id = op[v].id /\ o.seen = op[v].seen
      BY <2>3, <3>2, <3>5 DEF InVtable
    <3>6. o # IdleOp /\ \A d \in Entity : o # AcquireOp(d)
      BY <3>2 DEF IdleOp, AcquireOp, InVtable, InSession
    <3>7. QED
      BY <3>1, <3>2, <3>3, <3>4, <3>5, <3>6 DEF OpMoves
  <2>5. QED
    BY <2>3, <2>4
<1>9. ReleasedIdsGone'
  <2> SUFFICES ASSUME NEW id \in released'
               PROVE  id < nextId' /\ \A e \in Entity : locks'[e].id # id
    BY DEF ReleasedIdsGone
  <2>1. id \in LockIds /\ id \in 1 .. MaxId
    BY <1>5 DEF LockIds
  <2>2. CASE id \in released
    <3>1. id < nextId /\ \A e \in Entity : locks[e].id # id
      BY <2>2 DEF RoutesInv, ReleasedIdsGone
    <3>2. \A e \in Entity : locks'[e].id \in {locks[e].id, NoId, nextId}
      BY <1>1, <1>2, EntryStep
    <3>3. QED
      BY <1>3, <2>1, <3>1, <3>2 DEF NoId
  <2>3. CASE id \notin released
    <3>1. PICK e \in Entity : HeldAs(e, id) /\ Release(e, id)
      BY <2>3, ReleasedMoves
    <3>2. locks[e].id = id /\ locks' = [locks EXCEPT ![e] = NoEntry] /\ nextId' = nextId
      BY <3>1 DEF HeldAs, Release, CheckLock
    <3>3. id < nextId /\ \A d \in Entity \ {e} : locks[d].id # id
      BY <1>2, <2>1, <3>2 DEF LockInv, IdsUnique, NoId
    <3>4. QED
      BY <1>2, <2>1, <3>2, <3>3 DEF LockInv, TypeOK, NoEntry, NoId
  <2>4. QED
    BY <2>2, <2>3
<1>10. OwnersPlaced'
  <2> SUFFICES ASSUME NEW d \in Entity, session'[d].up, session'[d].held
               PROVE  /\ session'[d].owner \in LockIds
                      /\ session'[d].owner < nextId'
                      /\ \A e \in Entity \ {d} : locks'[e].id # session'[d].owner
    BY DEF OwnersPlaced
  <2>1. CASE session'[d] = session[d]
    <3>1. /\ session[d].owner \in 1 .. MaxId
          /\ session[d].owner < nextId
          /\ \A e \in Entity \ {d} : locks[e].id # session[d].owner
      BY <2>1 DEF RoutesInv, OwnersPlaced, LockIds
    <3>2. \A e \in Entity : locks'[e].id \in {locks[e].id, NoId, nextId}
      BY <1>1, <1>2, EntryStep
    <3>3. QED
      BY <1>3, <2>1, <3>1, <3>2 DEF NoId, LockIds
  <2>2. CASE HeldAs(d, session'[d].owner) /\ UNCHANGED <<locks, nextId, released>>
    <3>1. /\ locks[d].id = session'[d].owner /\ locks[d].id # NoId
          /\ locks[d].id \in 0 .. MaxId /\ locks[d].id < nextId
      BY <1>2, <2>2 DEF HeldAs, LockInv, IdsUnique, TypeOK, LockEntry
    <3>2. \A e \in Entity \ {d} : locks[e].id # locks[d].id
      BY <1>2, <3>1 DEF LockInv, IdsUnique
    <3>3. QED
      BY <2>2, <3>1, <3>2 DEF LockIds, NoId
  <2>3. QED
    BY <2>1, <2>2, SessionMoves DEF DefaultSession
<1>11. ReleasedSessionIsTornDown'
  <2> SUFFICES ASSUME NEW e \in Entity, session'[e].up, session'[e].held,
                      session'[e].owner \in released', session'[e].owner \notin lapsed'
               PROVE  \E w \in Worker : /\ op'[w].phase \in {"effect", "revert"}
                                        /\ op'[w].by = "teardown"
                                        /\ op'[w].entity = e
                                        /\ op'[w].id = session'[e].owner
    BY DEF ReleasedSessionIsTornDown, BeingTornDown
  <2>1. session'[e] = session[e]
    <3>1. ~(HeldAs(e, session'[e].owner) /\ UNCHANGED <<locks, nextId, released>>)
      BY DEF RoutesInv, ReleasedIdsGone, HeldAs
    <3>2. session'[e] # DefaultSession
      BY DEF DefaultSession
    <3>3. QED
      BY <3>1, <3>2, SessionMoves
  <2>2. session[e].owner \notin lapsed
    BY <2>1, HistoryMoves
  <2>3. CASE session[e].owner \in released
    <3>1. PICK w \in Worker : /\ op[w].phase \in {"effect", "revert"}
                              /\ op[w].by = "teardown"
                              /\ op[w].entity = e
                              /\ op[w].id = session[e].owner
      BY <2>1, <2>2, <2>3 DEF RoutesInv, ReleasedSessionIsTornDown, BeingTornDown
    <3>2. \/ op'[w] = op[w]
          \/ op'[w] = [op[w] EXCEPT !.phase = "revert"] /\ op[w].phase = "effect"
      BY <2>1, <3>1, TeardownGoesOn
    <3>3. CASE op'[w] = op[w]
      BY <2>1, <3>1, <3>3
    <3>4. CASE op'[w] = [op[w] EXCEPT !.phase = "revert"] /\ op[w].phase = "effect"
      <4>1. op[w] \in Op
        BY <1>4
      <4>2. /\ op'[w].phase = "revert" /\ op'[w].entity = op[w].entity
            /\ op'[w].id = op[w].id /\ op'[w].by = op[w].by
        BY <3>4, <4>1, EnterOp DEF InSession
      <4>3. QED
        BY <2>1, <3>1, <4>2
    <3>5. QED
      BY <3>2, <3>3, <3>4
  <2>4. CASE session[e].owner \notin released
    <3>1. PICK w \in Worker, d \in Entity, id \in LockIds :
                 /\ op' = [op EXCEPT ![w] = VtableOp(d, id, "teardown")]
                 /\ HeldAs(d, id)
                 /\ released' = released \cup {id}
      BY <2>1, <2>4, ReleasedMoves
    <3>2. session[e].owner = id
      BY <2>1, <2>4, <3>1
    <3>3. d = e
      BY <2>1, <3>1, <3>2 DEF RoutesInv, OwnersPlaced, HeldAs
    <3>4. op'[w] = VtableOp(e, id, "teardown")
      BY <1>4, <3>1, <3>3
    <3>5. QED
      BY <2>1, <3>2, <3>4 DEF VtableOp
  <2>5. QED
    BY <2>3, <2>4
<1>12. QED
  BY <1>2, <1>6, <1>7, <1>8, <1>9, <1>10, <1>11 DEF RoutesInv

\* RoutesInv holds in every reachable state.
THEOREM SpecRoutesInv == RoutesSpec => []RoutesInv
<1>1. RoutesInit => RoutesInv
  BY RoutesInitInv
<1>2. RoutesInv /\ [RoutesNext]_routeVars => RoutesInv'
  BY RoutesNextInv
<1>3. QED
  BY <1>1, <1>2, PTL DEF RoutesSpec

\* The server, whatever its workers do, uses the lock map as LockManager
\* allows; with it come all of LockManager's theorems.
THEOREM RoutesImplementLockManager == RoutesSpec => Spec
<1>1. RoutesInit => Init
  BY DEF RoutesInit
<1>2. RoutesInv /\ [RoutesNext]_routeVars => [Next]_lockVars
  BY RoutesStepLocks DEF RoutesInv
<1>3. QED
  BY <1>1, <1>2, SpecRoutesInv, PTL DEF RoutesSpec, Spec

\* Types of the handlers' state.
THEOREM SpecRoutesTypeOK == RoutesSpec => []RoutesTypeOK
<1>1. RoutesInv => RoutesTypeOK
  BY DEF RoutesInv
<1>2. QED
  BY <1>1, SpecRoutesInv, PTL

\* A vtable call collides only with locks granted since its lock check.
THEOREM SpecRacesOnlyNewerHolder == RoutesSpec => []RacesOnlyNewerHolder
<1>1. RoutesInv => RacesOnlyNewerHolder
  BY DEF RoutesInv
<1>2. QED
  BY <1>1, SpecRoutesInv, PTL

\* A session recorded while its lock was held outlives the lock's release
\* only until the releasing handler has torn it down, or has failed to.
THEOREM SpecReleasedSessionIsTornDown == RoutesSpec => []ReleasedSessionIsTornDown
<1>1. RoutesInv => ReleasedSessionIsTornDown
  BY DEF RoutesInv
<1>2. QED
  BY <1>1, SpecRoutesInv, PTL

(***************************************************************************)
(* The capacity check.                                                     *)
(***************************************************************************)

Held == {e \in Entity : locks[e].left > 0}

\* HeldLockCount is a number, and Admitted a set no larger than Worker.
LEMMA CountsAreNumbers ==
  /\ IsFiniteSet(Held) /\ HeldLockCount = Cardinality(Held) /\ HeldLockCount \in Nat
  /\ IsFiniteSet(Admitted) /\ Cardinality(Admitted) \in Nat
  /\ Cardinality(Admitted) <= Cardinality(Worker) /\ Cardinality(Worker) \in Nat
<1>1. IsFiniteSet(Held) /\ HeldLockCount = Cardinality(Held)
  BY LockRoutesAssumption, FS_Subset DEF Held, HeldLockCount, LockedUnexpired
<1>2. IsFiniteSet(Admitted) /\ Cardinality(Admitted) <= Cardinality(Worker)
  BY LockRoutesAssumption, FS_Subset DEF Admitted
<1>3. QED
  BY <1>1, <1>2, LockRoutesAssumption, FS_CardinalityType

\* Without a grant, the number of held locks does not grow.
LEMMA HeldShrinks ==
  ASSUME LockInv, [Next]_lockVars, nextId' = nextId
  PROVE  Cardinality(Held') <= Cardinality(Held)
<1>1. \A e \in Entity : LockedUnexpired(e)' => LockedUnexpired(e)
  BY EntryStep DEF LockInv, TypeOK
<1>2. Held' \subseteq Held
  BY <1>1 DEF Held, LockedUnexpired
<1>3. QED
  BY <1>2, CountsAreNumbers, FS_Subset

\* With one, it grows by one at most.
LEMMA HeldGrowsByOne ==
  ASSUME LockInv, NEW e \in Entity, NEW ttl \in TtlRequests, Acquire(e, ttl)
  PROVE  Cardinality(Held') <= Cardinality(Held) + 1
<1>1. Held' \subseteq Held \cup {e}
  BY DEF Held, Acquire, LockInv, TypeOK
<1>2. IsFiniteSet(Held \cup {e}) /\ Cardinality(Held \cup {e}) <= Cardinality(Held) + 1
  <2>1. IsFiniteSet(Held) /\ Cardinality(Held) \in Nat
    BY CountsAreNumbers
  <2>2. /\ IsFiniteSet(Held \cup {e})
        /\ Cardinality(Held \cup {e}) =
             IF e \in Held THEN Cardinality(Held) ELSE Cardinality(Held) + 1
    BY <2>1, FS_AddElement, Zenon
  <2>3. QED
    BY <2>1, <2>2
<1>3. Cardinality(Held') <= Cardinality(Held \cup {e})
  BY <1>1, <1>2, FS_Subset
<1>4. IsFiniteSet(Held') /\ Cardinality(Held') \in Nat /\ Cardinality(Held) \in Nat
      /\ Cardinality(Held \cup {e}) \in Nat
  BY <1>1, <1>2, CountsAreNumbers, FS_Subset, FS_CardinalityType
<1>5. QED
  BY <1>2, <1>3, <1>4

\* A step that admits nobody and grants nothing keeps the bound.
LEMMA BoundKept ==
  ASSUME LockInv, OvershootBounded, [Next]_lockVars, nextId' = nextId,
         Admitted' \subseteq Admitted
  PROVE  OvershootBounded'
<1>1. Cardinality(Held') <= Cardinality(Held) /\ Cardinality(Admitted') <= Cardinality(Admitted)
  BY HeldShrinks, CountsAreNumbers, FS_Subset
<1>2. IsFiniteSet(Held') /\ IsFiniteSet(Admitted')
  BY LockRoutesAssumption, FS_Subset DEF Held, Admitted
<1>3. Cardinality(Held') \in Nat /\ Cardinality(Admitted') \in Nat
  BY <1>2, FS_CardinalityType
<1>4. HeldLockCount' = Cardinality(Held')
  BY DEF HeldLockCount, Held, LockedUnexpired
<1>5. QED
  BY <1>1, <1>3, <1>4, CountsAreNumbers, LockRoutesAssumption DEF OvershootBounded

\* The bound is inductive.
LEMMA OvershootStep ==
  ASSUME RoutesInv, OvershootBounded, [RoutesNext]_routeVars
  PROVE  OvershootBounded'
<1>0. LockInv /\ [Next]_lockVars /\ op \in [Worker -> Op]
  BY RoutesStepLocks DEF RoutesInv, RoutesTypeOK
<1>1. CASE \E w \in Worker, e \in Entity : PostLockCheck(w, e)
  <2>1. PICK w \in Worker, e \in Entity : PostLockCheck(w, e)
    BY <1>1
  <2>2. UNCHANGED <<locks, nextId>>
    BY <2>1 DEF PostLockCheck
  <2>3. CASE BelowCap
    <3>1. HeldLockCount < MaxConcurrentLocks /\ HeldLockCount' = HeldLockCount
      BY <2>2, <2>3 DEF BelowCap, HeldLockCount, LockedUnexpired
    <3>2. IsFiniteSet(Admitted') /\ Cardinality(Admitted') <= Cardinality(Worker)
      BY LockRoutesAssumption, FS_Subset DEF Admitted
    <3>3. Cardinality(Admitted') \in Nat
      BY <3>2, FS_CardinalityType
    <3>4. QED
      BY <3>1, <3>2, <3>3, CountsAreNumbers, LockRoutesAssumption DEF OvershootBounded
  <2>4. CASE ~BelowCap
    <3>1. Admitted' = Admitted
      BY <2>1, <2>4 DEF PostLockCheck, Admitted
    <3>2. QED
      BY <1>0, <2>2, <3>1, BoundKept
  <2>5. QED
    BY <2>3, <2>4
<1>2. CASE \E w \in Worker : PostLockAcquire(w)
  <2>1. PICK w \in Worker : PostLockAcquire(w)
    BY <1>2
  <2>2. w \in Admitted /\ Admitted' = Admitted \ {w}
    BY <1>0, <2>1 DEF PostLockAcquire, Finish, Become, Admitted, IdleOp
  <2>3. CASE AcquireConflict(op[w].entity)
    BY <1>0, <2>2, <2>3, BoundKept DEF AcquireConflict, lockVars
  <2>4. CASE \E ttl \in TtlRequests : Acquire(op[w].entity, ttl)
    <3>1. op[w].entity \in Entity
      BY <1>0, <2>1, OpFields DEF PostLockAcquire
    <3>2. Cardinality(Held') <= Cardinality(Held) + 1
      BY <1>0, <2>4, <3>1, HeldGrowsByOne
    <3>3. Cardinality(Admitted') = Cardinality(Admitted) - 1
      BY <2>2, CountsAreNumbers, FS_RemoveElement
    <3>4. HeldLockCount' = Cardinality(Held') /\ IsFiniteSet(Held')
      BY LockRoutesAssumption, FS_Subset DEF HeldLockCount, Held, LockedUnexpired
    <3>5. Cardinality(Held') \in Nat
      BY <3>4, FS_CardinalityType
    <3>6. QED
      BY <3>2, <3>3, <3>4, <3>5, CountsAreNumbers, LockRoutesAssumption
         DEF OvershootBounded
  <2>5. QED
    BY <2>1, <2>3, <2>4 DEF PostLockAcquire
<1>3. CASE \/ \E w \in Worker, e \in Entity, id \in SuppliedIds, ttl \in TtlRequests :
                PutLock(w, e, id, ttl)
           \/ \E w \in Worker, e \in Entity, id \in SuppliedIds : DeleteLock(w, e, id)
           \/ \E w \in Worker : GatedReject(w) \/ EnsureSession(w) \/ RevertToDefault(w)
           \/ \E w \in Worker : \/ RecordSession(w) \/ ForgetSession(w)
                               \/ LeaveUnrecorded(w)
           \/ \E w \in Worker, e \in Entity, id \in SuppliedIds : GatedCheck(w, e, id)
           \/ \E e \in Entity : SessionIdleTimeout(e)
           \/ RoutesTick
           \/ UNCHANGED routeVars
  <2>1. nextId' = nextId
    BY <1>3 DEF PutLock, DeleteLock, GatedReject, EnsureSession, RevertToDefault,
                RecordSession, ForgetSession, LeaveUnrecorded, GatedCheck,
                SessionIdleTimeout, RoutesTick, Release, Renew, Tick, routeVars
  <2>2. \A v \in Worker : op'[v].phase = "acquire" => op[v].phase = "acquire"
    <3>1. CASE op' = op
      BY <3>1
    <3>2. CASE \E w \in Worker : \/ GatedReject(w) \/ RecordSession(w)
                                 \/ ForgetSession(w) \/ LeaveUnrecorded(w)
      <4>1. PICK w \in Worker : op' = [op EXCEPT ![w] = IdleOp]
        BY <3>2 DEF GatedReject, RecordSession, ForgetSession, LeaveUnrecorded, Leave,
                    Finish, Become
      <4>2. QED
        BY <1>0, <4>1 DEF IdleOp
    <3>3. CASE \E w \in Worker : EnsureSession(w) \/ RevertToDefault(w)
      <4>1. PICK w \in Worker, phase \in InSession :
                   /\ op[w].phase = "effect"
                   /\ \/ op' = [op EXCEPT ![w] = IdleOp]
                      \/ op' = [op EXCEPT ![w] = [op[w] EXCEPT !.phase = phase]]
        BY <3>3 DEF EnsureSession, RevertToDefault, Enter, Finish, Become, InSession
      <4>2. op[w] \in Op
        BY <1>0
      <4> DEFINE o == [op[w] EXCEPT !.phase = phase]
      <4>3. o.phase # "acquire" /\ IdleOp.phase # "acquire"
        BY <4>2, OpPhase DEF IdleOp, InSession
      <4>4. op' = [op EXCEPT ![w] = IdleOp] \/ op' = [op EXCEPT ![w] = o]
        BY <4>1
      <4> HIDE DEF o
      <4>5. QED
        BY <1>0, <4>3, <4>4
    <3>4. CASE \E w \in Worker, e \in Entity, id \in SuppliedIds :
                 DeleteLock(w, e, id) \/ GatedCheck(w, e, id)
      <4>1. PICK w \in Worker, e \in Entity, id \in SuppliedIds, by \in {"gated", "teardown"} :
                   \/ op' = op
                   \/ op' = [op EXCEPT ![w] = VtableOp(e, id, by)]
                   \/ op' = [op EXCEPT ![w] = VtableOp(e, AdmittedUnder(e, id), by)]
        BY <3>4 DEF DeleteLock, GatedCheck, Become
      <4>2. QED
        BY <1>0, <4>1 DEF VtableOp
    <3>5. QED
      BY <1>3, <3>1, <3>2, <3>3, <3>4
         DEF PutLock, SessionIdleTimeout, RoutesTick, routeVars
  <2>3. Admitted' \subseteq Admitted
    BY <2>2 DEF Admitted
  <2>4. QED
    BY <1>0, <2>1, <2>3, BoundKept
<1>4. QED
  BY <1>1, <1>2, <1>3 DEF RoutesNext

\* Held locks and admitted requests never exceed kMaxConcurrentLocks by as
\* much as one per worker thread.
THEOREM SpecOvershootBounded == RoutesSpec => []OvershootBounded
<1>1. RoutesInit => OvershootBounded
  <2> SUFFICES ASSUME RoutesInit PROVE OvershootBounded
    OBVIOUS
  <2>1. Held = {}
    BY DEF RoutesInit, Init, NoEntry, Held
  <2>2. HeldLockCount = 0
    BY <2>1, CountsAreNumbers, FS_EmptySet
  <2>3. Admitted = {} /\ Cardinality(Admitted) = 0
    BY FS_EmptySet DEF RoutesInit, Admitted, IdleOp
  <2>4. QED
    BY <2>2, <2>3, CountsAreNumbers, LockRoutesAssumption DEF OvershootBounded
<1>2. RoutesInv /\ OvershootBounded /\ [RoutesNext]_routeVars => OvershootBounded'
  BY OvershootStep
<1>3. QED
  BY <1>1, <1>2, SpecRoutesInv, PTL DEF RoutesSpec

=============================================================================
