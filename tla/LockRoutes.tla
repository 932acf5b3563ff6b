----------------------------- MODULE LockRoutes -----------------------------
(***************************************************************************)
(* The lock-gated half of the HTTP server (server/src/routes_locks.cpp and *)
(* the PUT data, POST mode, POST operations and DELETE faults handlers),   *)
(* run by a pool of worker threads over one LockManager.                   *)
(*                                                                         *)
(* LockManager calls are atomic, handlers are not: a handler that decides  *)
(* on one call and acts on the next leaves a window in between, and        *)
(* nothing but the LockManager's own mutex orders the workers.  Each such  *)
(* window is a phase of op[w]:                                             *)
(*   "acquire"   handle_post_lock, past the capacity check                 *)
(*   "effect"    before the vtable call: a gated handler past its lock     *)
(*               check, or handle_delete_lock past release                 *)
(*   "escalate"  in ensure_session, past its look at the recorded session  *)
(*               and before it records the new one                         *)
(*   "lower"     the same, when the session asked for is the default one   *)
(*   "revert"    in revert_to_default, the same, with a session to end     *)
(*   "settle"    in revert_to_default, which found nothing to end          *)
(*                                                                         *)
(* The vtable behind an entity is reduced to what its SessionManager has   *)
(* recorded: is a session escalated, and for whom.  The heartbeat thread   *)
(* and the ECU inside it are the subject of SessionManager.                *)
(***************************************************************************)
EXTENDS LockManager

CONSTANTS Worker,               \* the threads of the HTTP server
          MaxConcurrentLocks    \* kMaxConcurrentLocks

ASSUME LockRoutesAssumption ==
  /\ MaxConcurrentLocks \in Nat \ {0}
  /\ IsFiniteSet(Worker)
  /\ IsFiniteSet(Entity)

VARIABLES op,        \* what each worker is in the middle of
          session,   \* each entity's recorded diagnostic session
          released,  \* history: the ids whose release returned Released
          lapsed,    \* history: those whose teardown an exception cut short
          crowded    \* history: workers that met another in a SessionManager

routeVars == <<locks, nextId, op, session, released, lapsed, crowded>>

\* What a vtable call is doing, the last four inside the entity's
\* SessionManager.
InSession == {"escalate", "lower", "revert", "settle"}
InVtable == {"effect"} \cup InSession

\* id is the lock the call was admitted under, NoId on an unlocked entity.
\* `seen` remembers nextId at that moment: ids below it were handed out
\* before, ids from it on after.
IdleOp == [phase |-> "idle"]
AcquireOp(e) == [phase |-> "acquire", entity |-> e]
VtableOp(e, id, by) ==
  [phase |-> "effect", entity |-> e, id |-> id, by |-> by, seen |-> nextId]

Op == [phase : {"idle"}]
        \cup [phase : {"acquire"}, entity : Entity]
        \cup [phase : InVtable, entity : Entity, id : 0 .. MaxId,
              by : {"gated"}, seen : 1 .. MaxId + 1]
        \cup [phase : {"effect", "revert", "settle"}, entity : Entity, id : LockIds,
              by : {"teardown"}, seen : 1 .. MaxId + 1]

\* owner is the lock the escalating call was admitted under, NoId for none;
\* held says that it still held the entity when the session was recorded.
DefaultSession == [up |-> FALSE, owner |-> NoId, held |-> FALSE]
Session == [up : BOOLEAN, owner : 0 .. MaxId, held : BOOLEAN]

Idle(w) == op[w] = IdleOp
Admitted == {w \in Worker : op[w].phase = "acquire"}
Inside(e) == {w \in Worker : op[w].phase \in InSession /\ op[w].entity = e}

Become(w, o) == op' = [op EXCEPT ![w] = o]
Finish(w) == Become(w, IdleOp)

RoutesInit ==
  /\ Init
  /\ op = [w \in Worker |-> IdleOp]
  /\ session = [e \in Entity |-> DefaultSession]
  /\ released = {}
  /\ lapsed = {}
  /\ crowded = {}

(***************************************************************************)
(* POST locks: the capacity check and acquire are two critical sections.   *)
(***************************************************************************)

\* Mutation: the capacity test is off by one.
AdmitAtCap == HeldLockCount <= MaxConcurrentLocks

BelowCap == HeldLockCount < MaxConcurrentLocks

\* The second conjunct is the model's bound on ids, not the code's.
PostLockCheck(w, e) ==
  /\ Idle(w)
  /\ nextId + Cardinality(Admitted) <= MaxId
  /\ \/ BelowCap /\ Become(w, AcquireOp(e))
     \/ ~BelowCap /\ UNCHANGED op          \* 503 BUSY
  /\ UNCHANGED <<locks, nextId, session, released, lapsed, crowded>>

\* 201 with the new id, or 423 when somebody else got there first.
PostLockAcquire(w) ==
  /\ op[w].phase = "acquire"
  /\ \/ \E ttl \in TtlRequests : Acquire(op[w].entity, ttl)
     \/ AcquireConflict(op[w].entity)
  /\ Finish(w)
  /\ UNCHANGED <<session, released, lapsed, crowded>>

\* PUT locks is one renew, with nothing after it but the answer.
PutLock(w, e, id, ttl) ==
  /\ Idle(w)
  /\ Renew(e, id, ttl)
  /\ UNCHANGED <<op, session, released, lapsed, crowded>>

(***************************************************************************)
(* DELETE locks: release, and then, on success, set_mode("default").       *)
(***************************************************************************)

\* Mutation: the handler answers without tearing the session down.
DeleteLockOnly(w, e, id) ==
  /\ Idle(w)
  /\ Release(e, id)
  /\ released' = IF HeldAs(e, id) THEN released \cup {id} ELSE released
  /\ UNCHANGED <<op, session, lapsed, crowded>>

\* Mutation: the teardown follows whatever release answered.
DeleteLockAlways(w, e, id) ==
  /\ Idle(w)
  /\ Release(e, id)
  /\ Become(w, VtableOp(e, id, "teardown"))
  /\ released' = IF HeldAs(e, id) THEN released \cup {id} ELSE released
  /\ UNCHANGED <<session, lapsed, crowded>>

DeleteLock(w, e, id) ==
  /\ Idle(w)
  /\ Release(e, id)
  /\ \/ /\ HeldAs(e, id)
        /\ Become(w, VtableOp(e, id, "teardown"))
        /\ released' = released \cup {id}
     \/ /\ ~HeldAs(e, id)                  \* 403 FORBIDDEN or 404 NOT_FOUND
        /\ UNCHANGED <<op, released>>
  /\ UNCHANGED <<session, lapsed, crowded>>

(***************************************************************************)
(* PUT data, POST mode, POST operations, DELETE faults: check_lock_header, *)
(* then the body is parsed, then the vtable is called.                     *)
(***************************************************************************)

AdmittedUnder(e, id) == IF HeldAs(e, id) THEN id ELSE NoId

\* Mutation: the header is not compared with the lock.
PassAnyLock(w, e, id) ==
  /\ Idle(w)
  /\ Become(w, VtableOp(e, AdmittedUnder(e, id), "gated"))
  /\ UNCHANGED <<locks, nextId, session, released, lapsed, crowded>>

GatedCheck(w, e, id) ==
  /\ Idle(w)
  /\ \/ CheckLock(e, id) /\ Become(w, VtableOp(e, AdmittedUnder(e, id), "gated"))
     \/ ~CheckLock(e, id) /\ UNCHANGED op  \* 423 LOCKED
  /\ UNCHANGED <<locks, nextId, session, released, lapsed, crowded>>

\* A request the handler rejects on its body or its scope, after the lock
\* check and before the vtable call; or a vtable call that leaves the session
\* alone (clear_faults, a write without requires_session).
GatedReject(w) ==
  /\ op[w].phase = "effect"
  /\ op[w].by = "gated"
  /\ Finish(w)
  /\ UNCHANGED <<locks, nextId, session, released, lapsed, crowded>>

(***************************************************************************)
(* Inside the vtable call: the session is looked at under mtx_, the ECU    *)
(* asked and the heartbeat joined with mtx_ released, and the outcome      *)
(* recorded under mtx_ again, whatever others recorded in between.         *)
(***************************************************************************)

\* The part past the look at the session, where calls can meet.
Enter(w, phase) ==
  LET others == Inside(op[w].entity)
  IN  /\ Become(w, [op[w] EXCEPT !.phase = phase])
      /\ crowded' = IF others = {} THEN crowded ELSE crowded \cup others \cup {w}

Leave(w) == Finish(w) /\ crowded' = crowded \ {w}

\* ensure_session, which write_data, set_mode and execute_operation call with
\* the session that the catalog or the client names.  There is nothing to do
\* when it is the recorded one; an escalated one may also be another.
EnsureSession(w) ==
  /\ op[w].phase = "effect"
  /\ op[w].by = "gated"
  /\ \/ Finish(w) /\ UNCHANGED crowded
     \/ Enter(w, "escalate")
     \/ session[op[w].entity].up /\ Enter(w, "lower")
  /\ UNCHANGED <<locks, nextId, session, released, lapsed>>

\* set_mode("default"), asked for by a client or by DELETE locks.
RevertToDefault(w) ==
  /\ op[w].phase = "effect"
  /\ Enter(w, IF session[op[w].entity].up THEN "revert" ELSE "settle")
  /\ UNCHANGED <<locks, nextId, session, released, lapsed>>

\* The ECU confirmed and the old heartbeat is joined.
RecordSession(w) ==
  /\ \/ /\ op[w].phase = "escalate"
        /\ LET e == op[w].entity
               id == op[w].id
           IN  session' = [session EXCEPT ![e] =
                 [up |-> TRUE, owner |-> id, held |-> HeldAs(e, id)]]
     \/ /\ op[w].phase = "lower"
        /\ session' = [session EXCEPT ![op[w].entity] = DefaultSession]
  /\ Leave(w)
  /\ UNCHANGED <<locks, nextId, released, lapsed>>

\* The session is forgotten whether or not the ECU confirms.
ForgetSession(w) ==
  /\ op[w].phase = "revert"
  /\ session' = [session EXCEPT ![op[w].entity] = DefaultSession]
  /\ Leave(w)
  /\ UNCHANGED <<locks, nextId, released, lapsed>>

\* Nothing is recorded: the ECU did not confirm the switch, or there was
\* nothing to end.  Or the join threw, because another call in the same
\* SessionManager joined the heartbeat first; then even a revert ends here.
LeaveUnrecorded(w) ==
  /\ op[w].phase \in InSession
  /\ op[w].phase = "revert" => w \in crowded
  /\ lapsed' = IF op[w].phase = "revert" /\ op[w].by = "teardown"
               THEN lapsed \cup {op[w].id} ELSE lapsed
  /\ Leave(w)
  /\ UNCHANGED <<locks, nextId, session, released>>

\* SessionManager's idle timeout.
SessionIdleTimeout(e) ==
  /\ session[e].up
  /\ session' = [session EXCEPT ![e] = DefaultSession]
  /\ UNCHANGED <<locks, nextId, op, released, lapsed, crowded>>

RoutesTick == Tick /\ UNCHANGED <<op, session, released, lapsed, crowded>>

RoutesNext ==
  \/ \E w \in Worker, e \in Entity : PostLockCheck(w, e)
  \/ \E w \in Worker : PostLockAcquire(w)
  \/ \E w \in Worker, e \in Entity, id \in SuppliedIds, ttl \in TtlRequests :
       PutLock(w, e, id, ttl)
  \/ \E w \in Worker, e \in Entity, id \in SuppliedIds : DeleteLock(w, e, id)
  \/ \E w \in Worker, e \in Entity, id \in SuppliedIds : GatedCheck(w, e, id)
  \/ \E w \in Worker : GatedReject(w)
  \/ \E w \in Worker : EnsureSession(w) \/ RevertToDefault(w)
  \/ \E w \in Worker : RecordSession(w) \/ ForgetSession(w) \/ LeaveUnrecorded(w)
  \/ \E e \in Entity : SessionIdleTimeout(e)
  \/ RoutesTick

RoutesSpec == RoutesInit /\ [][RoutesNext]_routeVars

(***************************************************************************)
(* Properties.                                                             *)
(***************************************************************************)

RoutesTypeOK ==
  /\ TypeOK
  /\ op \in [Worker -> Op]
  /\ session \in [Entity -> Session]
  /\ released \in SUBSET LockIds
  /\ lapsed \in SUBSET LockIds
  /\ crowded \in SUBSET Worker

\* The capacity check reads a count that other workers may be about to
\* raise.  The overshoot is bounded by the pool: held locks and admitted
\* requests together never exceed the cap by as much as one per worker.
OvershootBounded ==
  HeldLockCount + Cardinality(Admitted) < MaxConcurrentLocks + Cardinality(Worker)

\* A vtable call made on the strength of a lock check, or of a release, can
\* collide with another client's lock, because the lock is not held over
\* the call.  Until it returns it never collides with a lock that existed
\* when the check (or the release) was made: only with one granted since.
RacesOnlyNewerHolder ==
  \A w \in Worker : op[w].phase \in InVtable =>
    LET e == op[w].entity
    IN  LockedUnexpired(e) => locks[e].id \in {op[w].id} \cup (op[w].seen .. MaxId)

\* The handler that released the lock a session was opened under has yet to
\* look at the session, or has seen it and is ending it.
BeingTornDown(e) ==
  \E w \in Worker : /\ op[w].phase \in {"effect", "revert"}
                    /\ op[w].by = "teardown"
                    /\ op[w].entity = e
                    /\ op[w].id = session[e].owner

\* "Session lifetime follows lock lifetime" (handle_delete_lock), as far as
\* it goes: a session recorded while its lock was held outlives the release
\* only for as long as the releasing handler needs to end it, however other
\* calls look, switch and record in between; unless that handler's join of
\* the heartbeat collided with another call's.  A session recorded after the
\* release is not covered: the call was admitted before it, nobody tears its
\* session down, and it stays up.
ReleasedSessionIsTornDown ==
  \A e \in Entity :
    /\ session[e].up /\ session[e].held
    /\ session[e].owner \in released \ lapsed
    => BeingTornDown(e)

\* What makes the two properties above inductive: a call was admitted before
\* any id still to come, a released id is in no entry, and the id a session
\* was recorded under while it was held is in no other entity's entry.
SeenBefore ==
  \A w \in Worker : op[w].phase \in InVtable => op[w].seen <= nextId

ReleasedIdsGone ==
  \A id \in released : id < nextId /\ \A e \in Entity : locks[e].id # id

OwnersPlaced ==
  \A d \in Entity : session[d].up /\ session[d].held =>
    /\ session[d].owner \in LockIds
    /\ session[d].owner < nextId
    /\ \A e \in Entity \ {d} : locks[e].id # session[d].owner

\* The inductive invariant behind the theorems of LockRoutesProofs.
RoutesInv ==
  /\ LockInv
  /\ RoutesTypeOK
  /\ SeenBefore
  /\ RacesOnlyNewerHolder
  /\ ReleasedIdsGone
  /\ OwnersPlaced
  /\ ReleasedSessionIsTornDown

\* handle_post_lock's comment: the lock cap "doubles as a cap on
\* concurrently escalated UDS sessions".  It does not, because check_lock
\* lets every request through on an unlocked entity.
SessionsWithinCap ==
  Cardinality({e \in Entity : session[e].up}) <= MaxConcurrentLocks

\* handle_delete_lock's comment: it tears down "whatever session-like state
\* the backend opened for this lock".  The teardown runs after the release,
\* so it can end the session of the client that locked the entity next.
TeardownSparesNewHolder ==
  [][\A w \in Worker : ForgetSession(w) /\ op[w].by = "teardown" =>
       LET e == op[w].entity
       IN  ~(session[e].up /\ HeldAs(e, session[e].owner))]_routeVars

=============================================================================
