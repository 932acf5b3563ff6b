---------------------------- MODULE LockClients ----------------------------
(***************************************************************************)
(* The clients of the lock service, over LockManager:                      *)
(*   - client/src/lock_guard.cpp: a C++ LockGuard acquires in its          *)
(*     constructor, renews from a heartbeat thread and releases in its     *)
(*     destructor;                                                         *)
(*   - web/src/composables/useLock.ts as web/src/views/DataTable.vue uses  *)
(*     it: a browser component that acquires and releases on a button,     *)
(*     renews from an interval timer and may change entity, unmount or     *)
(*     vanish at any time;                                                 *)
(*   - SovdClient::request and its TypeScript counterpart, which retry 503 *)
(*     and 504 and nothing else;                                           *)
(*   - Router::try_forward, when a gateway stands between client and       *)
(*     server.                                                             *)
(*                                                                         *)
(* A request a client waits for is sent, and served or not, in steps of    *)
(* their own; its answer is used when it is given.  A request nobody waits *)
(* for, because its answer was lost or was never of interest, is a stray,  *)
(* which the server serves whenever it arrives, if it does.  Time passes   *)
(* in steps of which a lease lasts Ttl.                                    *)
(***************************************************************************)
EXTENDS LockManager

CONSTANTS Guard,        \* C++ lock guards, one after the other in a process each
          Tab,          \* browser pages, with a DataTable component each
          Nowhere,      \* no entity
          Ttl,          \* the ttl_seconds every client asks for
          MaxRetries,   \* RetryPolicy::max_retries
          MaxActive,    \* bound on the clients running at a time, for model checking
          MaxStrays,    \* bound on the strays under way at a time, likewise
          MaxFaults     \* bound on lost answers and crashes, likewise

Client == Guard \cup Tab

ASSUME LockClientsAssumption ==
  /\ Guard \cap Tab = {}
  /\ Nowhere \notin Entity
  /\ Ttl \in TtlRequests
  /\ 1 < Ttl /\ Ttl <= MaxTtl       \* a page renews once a step
  /\ {MaxRetries, MaxActive, MaxStrays, MaxFaults} \subseteq Nat

VARIABLES guard,        \* each LockGuard and its heartbeat thread
          tab,          \* each component and its timers
          calls,        \* the requests each client waits for
          strays,       \* the requests nobody waits for
          late,         \* history: the client was once not served in time
          faults        \* how many faults there have been

clientVars == <<locks, nextId, guard, tab, calls, strays, late, faults>>

Kinds == {"acquire", "renew", "release"}
Request == [kind : Kinds, entity : Entity, id : SuppliedIds]
Call == [kind : Kinds, entity : Entity, id : SuppliedIds, tries : 0 .. MaxRetries]

\* hb is where the heartbeat thread is: "off" (no thread), about to test
\* stop_, between that test and its wait, waiting, renewing, or returned.
GuardState == [at : {"none", "acquire", "hold", "stop", "release"},
               entity : Entity \cup {Nowhere}, id : SuppliedIds,
               hb : {"off", "test", "enter", "wait", "renew", "done"}, beatIn : 0 .. Ttl]
NoGuard == [at |-> "none", entity |-> Nowhere, id |-> NoId, hb |-> "off", beatIn |-> 0]

\* handle is the entity that heartbeatTimer's interval renews; leaked are
\* those of intervals nothing refers to any more; due have yet to fire.
TabState == [at : {"closed", "mounted", "unmounted"}, path : Entity \cup {Nowhere},
             id : SuppliedIds, handle : Entity \cup {Nowhere},
             leaked : SUBSET Entity, due : SUBSET Entity]
NoTab == [at |-> "closed", path |-> Nowhere, id |-> NoId, handle |-> Nowhere,
          leaked |-> {}, due |-> {}]

ClientsInit ==
  /\ Init
  /\ guard = [g \in Guard |-> NoGuard]
  /\ tab = [t \in Tab |-> NoTab]
  /\ calls = [c \in Client |-> {}]
  /\ strays = {}
  /\ late = [c \in Client |-> FALSE]
  /\ faults = 0

Active == {g \in Guard : guard[g].at # "none"} \cup {t \in Tab : tab[t].at # "closed"}
RoomForClient == Cardinality(Active) < MaxActive
RoomForStray == Cardinality(strays) < MaxStrays

Req(kind, e, id) == [kind |-> kind, entity |-> e, id |-> id]
AsStray(k) == Req(k.kind, k.entity, k.id)

\* request(): the client waits for the answer.
Send(c, kind, e, id) ==
  calls' = [calls EXCEPT ![c] =
    @ \cup {[kind |-> kind, entity |-> e, id |-> id, tries |-> 0]}]

(***************************************************************************)
(* What a client does with the outcome of a request.                       *)
(***************************************************************************)

\* Mutation: the heartbeat fires at the end of the lease.
BeatAtExpiry == Ttl

\* interval is half the lease.
BeatInterval == Ttl \div 2

\* The constructor returns, with or without a heartbeat, or throws; a failed
\* renewal is reported and ignored; the destructor returns, whatever became
\* of the release.
GuardReturn(g, k, ok, id) ==
  \/ /\ k.kind = "acquire" /\ ok
     /\ \E hb \in {"off", "test"} :
          guard' = [guard EXCEPT ![g] =
            [@ EXCEPT !.at = "hold", !.id = id, !.hb = hb, !.beatIn = BeatInterval]]
  \/ /\ k.kind = "release" \/ (k.kind = "acquire" /\ ~ok)
     /\ guard' = [guard EXCEPT ![g] = NoGuard]
  \/ /\ k.kind = "renew"
     /\ guard' = [guard EXCEPT ![g] = [@ EXCEPT !.hb = "test", !.beatIn = BeatInterval]]

\* acquire() resumes, wherever the component is by now: it takes the id and
\* starts a timer, and the handle of an earlier timer is lost.
TabReturn(t, k, ok, id) ==
  IF ok THEN tab' = [tab EXCEPT ![t] =
               [tab[t] EXCEPT !.id = id, !.handle = k.entity,
                              !.leaked = @ \cup ({tab[t].handle} \ {Nowhere})]]
        ELSE UNCHANGED tab

Return(c, k, ok, id) ==
  /\ calls' = [calls EXCEPT ![c] = @ \ {k}]
  /\ \/ c \in Guard /\ GuardReturn(c, k, ok, id) /\ UNCHANGED tab
     \/ c \in Tab /\ TabReturn(c, k, ok, id) /\ UNCHANGED guard

(***************************************************************************)
(* The server, and the gateway in front of it.                             *)
(***************************************************************************)

\* handle_post_lock, handle_put_lock and handle_delete_lock.
Serve(r) ==
  \/ r.kind = "acquire" /\ (Acquire(r.entity, Ttl) \/ AcquireConflict(r.entity))
  \/ r.kind = "renew" /\ Renew(r.entity, r.id, Ttl)
  \/ r.kind = "release" /\ Release(r.entity, r.id)

Granted(r) == IF r.kind = "acquire" THEN ~LockedUnexpired(r.entity)
                                    ELSE HeldAs(r.entity, r.id)

\* An acquire's answer carries the id it was granted under.
Answer(c, k) ==
  /\ Serve(k)
  /\ Return(c, k, Granted(k), IF k.kind = "acquire" THEN nextId ELSE k.id)
  /\ UNCHANGED <<strays, late, faults>>

\* Mutation: request() counts its attempts and never looks at the count.
AnswerBusyForever(c, k) ==
  /\ calls' = [calls EXCEPT ![c] = (@ \ {k}) \cup {[k EXCEPT !.tries = @ + 1]}]
  /\ UNCHANGED <<locks, nextId, guard, tab, strays, late, faults>>

\* 503, the request not served: another request to the same proxied entity
\* is in flight (try_forward), or the server is at its capacity of locks
\* (handle_post_lock).  request() tries again, up to a limit.
AnswerBusy(c, k) ==
  /\ \/ /\ k.tries < MaxRetries
        /\ calls' = [calls EXCEPT ![c] = (@ \ {k}) \cup {[k EXCEPT !.tries = @ + 1]}]
        /\ UNCHANGED <<guard, tab, late>>
     \/ /\ k.tries = MaxRetries
        /\ Return(c, k, FALSE, NoId)
        /\ late' = [late EXCEPT ![c] = TRUE]
  /\ UNCHANGED <<locks, nextId, strays, faults>>

\* The client's read timeout, its connection's end, or a 502 from a gateway
\* whose own read timeout was up: request() throws, and whether the request
\* was or will be served is open.
LoseAnswer(c, k) ==
  /\ faults < MaxFaults /\ RoomForStray
  /\ strays' = strays \cup {AsStray(k)}
  /\ Return(c, k, FALSE, NoId)
  /\ late' = [late EXCEPT ![c] = TRUE]
  /\ faults' = faults + 1
  /\ UNCHANGED <<locks, nextId>>

ServeStray(s) ==
  /\ Serve(s)
  /\ strays' = strays \ {s}
  /\ UNCHANGED <<guard, tab, calls, late, faults>>

DropStray(s) ==
  /\ strays' = strays \ {s}
  /\ late' = [c \in Client |-> late[c] \/ (c \in Tab /\ s.kind = "renew" /\ s.id = tab[c].id)]
  /\ UNCHANGED <<locks, nextId, guard, tab, calls, faults>>

(***************************************************************************)
(* LockGuard.                                                              *)
(***************************************************************************)

Construct(g, e) ==
  /\ guard[g].at = "none" /\ RoomForClient
  /\ guard' = [guard EXCEPT ![g] = [NoGuard EXCEPT !.at = "acquire", !.entity = e]]
  /\ late' = [late EXCEPT ![g] = FALSE]
  /\ Send(g, "acquire", e, NoId)
  /\ UNCHANGED <<locks, nextId, tab, strays, faults>>

\* wait_for tests stop_ ...
HeartbeatTest(g) ==
  /\ guard[g].hb = "test"
  /\ guard' = [guard EXCEPT ![g].hb = IF guard[g].at = "stop" THEN "done" ELSE "enter"]
  /\ UNCHANGED <<locks, nextId, tab, calls, strays, late, faults>>

\* ... and blocks: a notification in between finds nobody waiting.
HeartbeatBlock(g) ==
  /\ guard[g].hb = "enter"
  /\ guard' = [guard EXCEPT ![g].hb = "wait"]
  /\ UNCHANGED <<locks, nextId, tab, calls, strays, late, faults>>

\* Mutation: only the notification ends the wait.
HeartbeatTimeoutNever(g) ==
  /\ guard[g].hb = "wait" /\ guard[g].beatIn = 0 /\ guard[g].at # "stop"
  /\ guard' = [guard EXCEPT ![g].hb = "renew"]
  /\ Send(g, "renew", guard[g].entity, guard[g].id)
  /\ UNCHANGED <<locks, nextId, tab, strays, late, faults>>

\* The interval is over: stop_ is tested once more.
HeartbeatTimeout(g) ==
  /\ guard[g].hb = "wait" /\ guard[g].beatIn = 0
  /\ \/ /\ guard[g].at = "stop"
        /\ guard' = [guard EXCEPT ![g].hb = "done"]
        /\ UNCHANGED calls
     \/ /\ guard[g].at # "stop"
        /\ guard' = [guard EXCEPT ![g].hb = "renew"]
        /\ Send(g, "renew", guard[g].entity, guard[g].id)
  /\ UNCHANGED <<locks, nextId, tab, strays, late, faults>>

\* The destructor sets stop_ and notifies: a waiting heartbeat tests again.
Destroy(g) ==
  /\ guard[g].at = "hold"
  /\ guard' = [guard EXCEPT ![g] =
       [guard[g] EXCEPT !.at = "stop", !.hb = IF @ = "wait" THEN "test" ELSE @]]
  /\ UNCHANGED <<locks, nextId, tab, calls, strays, late, faults>>

\* Mutation: the thread is detached, not joined.
JoinedAtOnce(g) ==
  /\ guard[g].at = "stop"
  /\ guard' = [guard EXCEPT ![g].at = "release"]
  /\ Send(g, "release", guard[g].entity, guard[g].id)
  /\ UNCHANGED <<locks, nextId, tab, strays, late, faults>>

\* join has returned, or there was nothing to join; release.
Joined(g) ==
  /\ guard[g].at = "stop" /\ guard[g].hb \in {"off", "done"}
  /\ guard' = [guard EXCEPT ![g].at = "release"]
  /\ Send(g, "release", guard[g].entity, guard[g].id)
  /\ UNCHANGED <<locks, nextId, tab, strays, late, faults>>

\* The client's process dies; what it has sent may still be served.
CrashGuard(g) ==
  /\ guard[g].at # "none"
  /\ faults < MaxFaults /\ RoomForStray
  /\ guard' = [guard EXCEPT ![g] = NoGuard]
  /\ strays' = strays \cup {AsStray(k) : k \in calls[g]}
  /\ calls' = [calls EXCEPT ![g] = {}]
  /\ faults' = faults + 1
  /\ UNCHANGED <<locks, nextId, tab, late>>

(***************************************************************************)
(* useLock and DataTable.  lockId and the timers belong to the component;  *)
(* getPath() is the component's path at the time of the call.  Nothing     *)
(* depends on the answers to its renewals and releases: they are strays    *)
(* from the start.                                                         *)
(***************************************************************************)

OpenPage(t, e) ==
  /\ tab[t].at = "closed" /\ RoomForClient
  /\ tab' = [tab EXCEPT ![t] = [NoTab EXCEPT !.at = "mounted", !.path = e]]
  /\ UNCHANGED <<locks, nextId, guard, calls, strays, late, faults>>

\* release(): stop the heartbeat, forget the id, DELETE the lock at `path`.
ReleaseAt(t, path) ==
  /\ RoomForStray
  /\ strays' = strays \cup
       (IF tab[t].id = NoId THEN {} ELSE {Req("release", path, tab[t].id)})

Released(s) == [s EXCEPT !.handle = Nowhere, !.id = NoId, !.due = @ \cap s.leaked]

\* toggleEdit, when not in edit mode.  The button stays enabled while an
\* acquire is under way; the bound here is one of them per entity.
EditOn(t) ==
  /\ tab[t].at = "mounted" /\ tab[t].id = NoId
  /\ \A k \in calls[t] : k.entity # tab[t].path
  /\ Send(t, "acquire", tab[t].path, NoId)
  /\ late' = [late EXCEPT ![t] = @ /\ calls[t] # {}]
  /\ UNCHANGED <<locks, nextId, guard, tab, strays, faults>>

\* toggleEdit, in edit mode.
EditOff(t) ==
  /\ tab[t].at = "mounted" /\ tab[t].id # NoId
  /\ ReleaseAt(t, tab[t].path)
  /\ tab' = [tab EXCEPT ![t] = Released(@)]
  /\ UNCHANGED <<locks, nextId, guard, calls, late, faults>>

\* An interval fires: it renews the component's id at the entity it was
\* started for.
TimerFires(t, e) ==
  /\ e \in tab[t].due /\ RoomForStray
  /\ tab' = [tab EXCEPT ![t].due = @ \ {e}]
  /\ strays' = strays \cup (IF tab[t].id = NoId THEN {} ELSE {Req("renew", e, tab[t].id)})
  /\ UNCHANGED <<locks, nextId, guard, calls, late, faults>>

\* The user selects another entity.  The watcher runs after the path has
\* changed, so that is the path it releases at.
SelectEntity(t, e) ==
  /\ tab[t].at = "mounted" /\ e # tab[t].path
  /\ ReleaseAt(t, e)
  /\ tab' = [tab EXCEPT ![t] = [Released(@) EXCEPT !.path = e]]
  /\ UNCHANGED <<locks, nextId, guard, calls, late, faults>>

\* The user goes to another view.
Unmount(t) ==
  /\ tab[t].at = "mounted"
  /\ ReleaseAt(t, tab[t].path)
  /\ tab' = [tab EXCEPT ![t] = [Released(@) EXCEPT !.at = "unmounted"]]
  /\ UNCHANGED <<locks, nextId, guard, calls, late, faults>>

\* The page goes away.  Its beforeunload handler, if it is still registered
\* and gets to run, sends a release; an acquire may be left under way.
ClosePage(t) ==
  /\ tab[t].at # "closed"
  /\ Cardinality(strays) + Cardinality(calls[t]) <= MaxStrays
  /\ \/ /\ tab[t].at = "mounted" /\ ReleaseAt(t, tab[t].path) /\ calls[t] = {}
     \/ strays' = strays \cup {AsStray(k) : k \in calls[t]}
  /\ tab' = [tab EXCEPT ![t] = NoTab]
  /\ calls' = [calls EXCEPT ![t] = {}]
  /\ UNCHANGED <<locks, nextId, guard, late, faults>>

(***************************************************************************)
(* Time.                                                                   *)
(***************************************************************************)

Timers(t) == tab[t].leaked \cup ({tab[t].handle} \ {Nowhere})

\* The heartbeat's deadline runs while its thread tests, enters and waits.
Beats(g) == guard[g].hb \in {"test", "enter", "wait"}

\* c still waits for an answer, or has not got round to a heartbeat.
Behind(c) ==
  \/ calls[c] # {}
  \/ c \in Guard /\ Beats(c) /\ guard[c].beatIn = 0
  \/ /\ c \in Tab
     /\ tab[c].due # {} \/ \E s \in strays : s.kind = "renew" /\ s.id = tab[c].id

ClientsTick ==
  /\ \/ Tick
     \/ (\A e \in Entity : ~LockedUnexpired(e)) /\ UNCHANGED lockVars
  /\ guard' = [g \in Guard |->
       IF Beats(g) /\ guard[g].beatIn > 0 THEN [guard[g] EXCEPT !.beatIn = @ - 1] ELSE guard[g]]
  /\ tab' = [t \in Tab |-> [tab[t] EXCEPT !.due = Timers(t)]]
  /\ late' = [c \in Client |-> late[c] \/ Behind(c)]
  /\ UNCHANGED <<calls, strays, faults>>

(***************************************************************************)
(* The specification.                                                      *)
(***************************************************************************)

GuardStep(g) ==
  \/ HeartbeatTest(g)
  \/ HeartbeatBlock(g)
  \/ HeartbeatTimeout(g)
  \/ Joined(g)

TabStep(t) ==
  \/ EditOn(t)
  \/ EditOff(t)
  \/ Unmount(t)
  \/ ClosePage(t)
  \/ \E e \in Entity : OpenPage(t, e) \/ TimerFires(t, e) \/ SelectEntity(t, e)

NetworkStep(c) ==
  \E k \in calls[c] : Answer(c, k) \/ AnswerBusy(c, k) \/ LoseAnswer(c, k)

ClientsNext ==
  \/ \E g \in Guard, e \in Entity : Construct(g, e)
  \/ \E g \in Guard : GuardStep(g) \/ Destroy(g) \/ CrashGuard(g)
  \/ \E t \in Tab : TabStep(t)
  \/ \E c \in Client : NetworkStep(c)
  \/ \E s \in strays : ServeStray(s) \/ DropStray(s)
  \/ ClientsTick

ClientsSpec == ClientsInit /\ [][ClientsNext]_clientVars

\* Time passes, a C++ client's threads run, and its requests are answered
\* or time out.  Nobody has to click, a browser's fetch has no timeout, and
\* a stray may stay on its way for as long as it likes.
ClientsFairSpec ==
  /\ ClientsSpec
  /\ WF_clientVars(ClientsTick)
  /\ \A g \in Guard : WF_clientVars(GuardStep(g)) /\ WF_clientVars(NetworkStep(g))

(***************************************************************************)
(* Properties.                                                             *)
(***************************************************************************)

\* The guards, the components, their requests and the strays are records of
\* their kinds.
ClientsTypeOK ==
  /\ guard \in [Guard -> GuardState]
  /\ tab \in [Tab -> TabState]
  /\ calls \in [Client -> SUBSET Call]
  /\ strays \in SUBSET Request
  /\ late \in [Client -> BOOLEAN]
  /\ faults \in 0 .. MaxFaults

\* A LockGuard never has two requests under way: its heartbeat thread renews
\* only after the constructor is through with acquire and before the
\* destructor starts its release, and never while its own last renewal is
\* being answered or tried again.
OneRequestPerGuard ==
  \A g \in Guard :
    /\ \A j, k \in calls[g] : j = k
    /\ \A k \in calls[g] : k.kind = "renew" => guard[g].at \in {"hold", "stop"}

\* A heartbeat at half the lease keeps the lock: a LockGuard between its
\* constructor and its destructor, or a component in edit mode, that has
\* been served in time holds the lock it believes it holds, whatever other
\* clients, stray requests and its own overlapping calls do.
HoldersKeepTheirLock ==
  /\ \A g \in Guard :
       guard[g].at = "hold" /\ guard[g].hb # "off" /\ ~late[g] =>
         HeldAs(guard[g].entity, guard[g].id)
  /\ \A t \in Tab :
       tab[t].handle # Nowhere /\ ~late[t] => HeldAs(tab[t].handle, tab[t].id)

\* A lock somebody has the id of.
Kept(id) ==
  \/ \E g \in Guard : guard[g].id = id
  \/ \E t \in Tab : tab[t].id = id

Forgotten(e) == \E id \in LockIds : HeldAs(e, id) /\ ~Kept(id)

\* A lock nobody has the id of, because its client crashed, the answer to
\* its acquire or its release was lost, or the release went to the wrong
\* entity, does not stay: no stray renewal and no leaked timer keeps it.
ForgottenLockExpires == \A e \in Entity : []<>~Forgotten(e)

\* The destructor returns, also when its notification falls between the
\* heartbeat's test and its wait, and whatever becomes of the release.
DestructorReturns ==
  \A g \in Guard : guard[g].at \in {"stop", "release"} ~> guard[g].at = "none"

\* useLock's comment: "Callers must release() before the underlying path
\* changes (DataTable enforces this with a watcher)".  The watcher runs
\* after the change, and asks the wrong entity for the release.
ReleasesReachTheirLock ==
  \A s \in strays : s.kind = "release" =>
    \A e \in Entity : HeldAs(e, s.id) => e = s.entity

=============================================================================
