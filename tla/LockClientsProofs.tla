-------------------------- MODULE LockClientsProofs --------------------------
(***************************************************************************)
(* Proofs about LockClients, for any guards, pages and entities and any    *)
(* bounds: what the clients and the network do is, to the lock manager,    *)
(* one of its own behaviours, and a guard never has more than one request  *)
(* under way.                                                              *)
(***************************************************************************)
EXTENDS LockClients, LockManagerProofs

(***************************************************************************)
(* The inductive invariant.  A guard's request belongs to its phase, which *)
(* is why the entity it names is one: an idle guard has no request whose   *)
(* return could start a heartbeat for nothing.                             *)
(***************************************************************************)

Phase(s, cs) ==
  /\ s.at = "none" => s.hb = "off" /\ cs = {}
  /\ s.at # "none" => s.entity \in Entity
  /\ s.at = "acquire" => s.hb = "off"
  /\ s.at = "release" => s.hb \in {"off", "done"}
  /\ \A j, k \in cs : j = k
  /\ \A k \in cs : /\ k.kind = "acquire" => s.at = "acquire"
                   /\ k.kind = "release" => s.at = "release"
                   /\ k.kind = "renew" => s.hb = "renew"

Phases == \A g \in Guard : Phase(guard[g], calls[g])

\* A mounted component is about an entity.
Paths == \A t \in Tab : tab[t].at = "mounted" => tab[t].path \in Entity

\* What the clients know and have asked for.
ClientState ==
  /\ guard \in [Guard -> GuardState]
  /\ tab \in [Tab -> TabState]
  /\ calls \in [Client -> SUBSET Call]
  /\ Phases
  /\ Paths

ClientsInv ==
  /\ LockInv
  /\ ClientState
  /\ strays \in SUBSET Request
  /\ late \in [Client -> BOOLEAN]
  /\ faults \in 0 .. MaxFaults

(***************************************************************************)
(* The pieces the actions are made of.                                     *)
(***************************************************************************)

LEMMA BeatIntervalInRange == BeatInterval \in 0 .. Ttl
  BY LockClientsAssumption, LockManagerAssumption DEF BeatInterval

LEMMA NoGuardType == NoGuard \in GuardState /\ Phase(NoGuard, {})
  BY LockClientsAssumption, LockManagerAssumption DEF NoGuard, GuardState, SuppliedIds, Phase

LEMMA NoTabType == NoTab \in TabState
  BY LockManagerAssumption DEF NoTab, TabState, SuppliedIds

LEMMA StrayType ==
  ASSUME NEW k \in Call
  PROVE  AsStray(k) \in Request
  BY DEF AsStray, Req, Request, Call

LEMMA SentCall ==
  ASSUME NEW kind \in Kinds, NEW e \in Entity, NEW id \in SuppliedIds
  PROVE  [kind |-> kind, entity |-> e, id |-> id, tries |-> 0] \in Call
  BY LockClientsAssumption DEF Call

\* A step of one guard, given its next record and its next requests.
LEMMA OneGuard ==
  ASSUME ClientState, NEW g \in Guard, NEW s \in GuardState, NEW cs \in SUBSET Call,
         Phase(s, cs), guard' = [guard EXCEPT ![g] = s], calls' = [calls EXCEPT ![g] = cs],
         tab' = tab
  PROVE  ClientState'
<1>1. guard' \in [Guard -> GuardState] /\ calls' \in [Client -> SUBSET Call]
  BY DEF ClientState
<1>2. \A h \in Guard : Phase(guard'[h], calls'[h])
  BY LockClientsAssumption DEF ClientState, Phases, Client
<1>3. QED
  BY <1>1, <1>2 DEF ClientState, Phases, Paths

\* Likewise a step of one page.
LEMMA OneTab ==
  ASSUME ClientState, NEW t \in Tab, NEW s \in TabState, NEW cs \in SUBSET Call,
         s.at = "mounted" => s.path \in Entity,
         tab' = [tab EXCEPT ![t] = s], calls' = [calls EXCEPT ![t] = cs], guard' = guard
  PROVE  ClientState'
<1>1. tab' \in [Tab -> TabState] /\ calls' \in [Client -> SUBSET Call]
  BY DEF ClientState
<1>2. \A g \in Guard : Phase(guard'[g], calls'[g])
  <2>1. \A g \in Guard : calls'[g] = calls[g]
    BY LockClientsAssumption DEF ClientState, Client
  <2>2. QED
    BY <2>1 DEF ClientState, Phases
<1>3. QED
  BY <1>1, <1>2 DEF ClientState, Phases, Paths

LEMMA GuardReturns ==
  ASSUME ClientState, NEW g \in Guard, NEW k \in calls[g], NEW ok, NEW id,
         ok => id \in SuppliedIds, GuardReturn(g, k, ok, id), tab' = tab,
         calls' = [calls EXCEPT ![g] = @ \ {k}]
  PROVE  ClientState'
<1>1. guard[g] \in GuardState /\ k \in Call /\ Phase(guard[g], calls[g])
  BY DEF ClientState, Phases, Client
<1>2. calls' = [calls EXCEPT ![g] = {}]
  BY <1>1 DEF Phase
<1>3. CASE k.kind = "acquire" /\ ok
  <2> DEFINE s(hb) == [guard[g] EXCEPT !.at = "hold", !.id = id, !.hb = hb,
                                       !.beatIn = BeatInterval]
  <2>1. PICK hb \in {"off", "test"} : guard' = [guard EXCEPT ![g] = s(hb)]
    BY <1>3 DEF GuardReturn
  <2>2. s(hb) \in GuardState /\ Phase(s(hb), {})
    BY <1>1, <1>3, BeatIntervalInRange DEF GuardState, Phase
  <2> HIDE DEF s
  <2>3. QED
    BY <1>2, <2>1, <2>2, OneGuard
<1>4. CASE k.kind = "release" \/ (k.kind = "acquire" /\ ~ok)
  BY <1>2, <1>4, NoGuardType, OneGuard DEF GuardReturn
<1>5. CASE k.kind = "renew"
  <2>1. LET s == [guard[g] EXCEPT !.hb = "test", !.beatIn = BeatInterval]
        IN  s \in GuardState /\ Phase(s, {})
    BY <1>1, <1>5, BeatIntervalInRange DEF GuardState, Phase
  <2>2. guard' = [guard EXCEPT ![g] = [guard[g] EXCEPT !.hb = "test", !.beatIn = BeatInterval]]
    BY <1>5 DEF GuardReturn
  <2>3. QED
    BY <1>2, <2>1, <2>2, OneGuard
<1>6. QED
  BY <1>3, <1>4, <1>5 DEF GuardReturn

LEMMA TabReturns ==
  ASSUME ClientState, NEW t \in Tab, NEW k \in calls[t], NEW ok, NEW id,
         ok => id \in SuppliedIds, TabReturn(t, k, ok, id), guard' = guard,
         calls' = [calls EXCEPT ![t] = @ \ {k}]
  PROVE  ClientState'
<1>1. tab[t] \in TabState /\ calls[t] \in SUBSET Call /\ k.entity \in Entity
  BY DEF ClientState, Call, Client
<1>2. tab[t].at = "mounted" => tab[t].path \in Entity
  BY DEF ClientState, Paths
<1>3. calls[t] \ {k} \in SUBSET Call
  BY <1>1
<1>4. CASE ok
  <2> DEFINE s == [tab[t] EXCEPT !.id = id, !.handle = k.entity,
                                 !.leaked = @ \cup ({tab[t].handle} \ {Nowhere})]
  <2>1. s \in TabState /\ (s.at = "mounted" => s.path \in Entity)
    BY <1>1, <1>2, <1>4 DEF TabState
  <2>2. tab' = [tab EXCEPT ![t] = s]
    BY <1>4 DEF TabReturn
  <2> HIDE DEF s
  <2>3. QED
    BY <1>3, <2>1, <2>2, OneTab
<1>5. CASE ~ok
  <2>1. tab' = [tab EXCEPT ![t] = tab[t]]
    BY <1>5 DEF TabReturn, ClientState
  <2>2. QED
    BY <1>1, <1>2, <1>3, <2>1, OneTab
<1>6. QED
  BY <1>4, <1>5

LEMMA Returns ==
  ASSUME ClientState, NEW c \in Client, NEW k \in calls[c], NEW ok, NEW id,
         ok => id \in SuppliedIds, Return(c, k, ok, id)
  PROVE  ClientState'
  BY GuardReturns, TabReturns DEF Return

LEMMA ReleasedType ==
  ASSUME NEW s \in TabState
  PROVE  Released(s) \in TabState
  BY LockManagerAssumption DEF Released, TabState, SuppliedIds

LEMMA ReleaseAtType ==
  ASSUME ClientsInv, NEW t \in Tab, NEW e \in Entity, ReleaseAt(t, e)
  PROVE  strays' \in SUBSET Request
<1>1. Req("release", e, tab[t].id) \in Request
  BY DEF ClientsInv, ClientState, TabState, Req, Request, Kinds
<1>2. QED
  BY <1>1 DEF ReleaseAt, ClientsInv

(***************************************************************************)
(* The server's part of a step is a step of the lock manager.              *)
(***************************************************************************)

LEMMA ServeStep ==
  ASSUME NEW r, r.entity \in Entity, r.id \in SuppliedIds, Serve(r)
  PROVE  Next
  BY LockClientsAssumption DEF Serve, Next

\* A granted acquire's id is one that can be handed out.
LEMMA GrantedId ==
  ASSUME LockInv, NEW k \in Call, Serve(k), Granted(k)
  PROVE  (IF k.kind = "acquire" THEN nextId ELSE k.id) \in SuppliedIds
<1>1. CASE k.kind = "acquire"
  <2>1. Acquire(k.entity, Ttl)
    BY <1>1 DEF Serve, Granted, AcquireConflict
  <2>2. QED
    BY <1>1, <2>1, LockManagerAssumption DEF Acquire, LockInv, TypeOK, SuppliedIds, LockIds
<1>2. CASE k.kind # "acquire"
  BY <1>2 DEF Call
<1>3. QED
  BY <1>1, <1>2

\* What a client's step leaves to be shown when its own part is.
Bookkeeping ==
  /\ strays \in SUBSET Request
  /\ late \in [Client -> BOOLEAN]
  /\ faults \in 0 .. MaxFaults

LEMMA NetworkStepInv ==
  ASSUME ClientsInv, NEW c \in Client, NetworkStep(c)
  PROVE  ClientState' /\ Bookkeeping' /\ [Next]_lockVars
<1>1. PICK k \in calls[c] : Answer(c, k) \/ AnswerBusy(c, k) \/ LoseAnswer(c, k)
  BY DEF NetworkStep
<1>2. k \in Call /\ k.entity \in Entity /\ k.id \in SuppliedIds
  BY DEF ClientsInv, ClientState, Call
<1>3. CASE Answer(c, k)
  <2>1. Next
    BY <1>2, <1>3, ServeStep DEF Answer
  <2>2. Granted(k) => (IF k.kind = "acquire" THEN nextId ELSE k.id) \in SuppliedIds
    BY <1>2, <1>3, GrantedId DEF Answer, ClientsInv
  <2>3. ClientState'
    BY <1>3, <2>2, Returns DEF Answer, ClientsInv
  <2>4. QED
    BY <1>3, <2>1, <2>3 DEF Answer, ClientsInv, Bookkeeping
<1>4. CASE AnswerBusy(c, k)
  <2>1. UNCHANGED lockVars /\ strays' = strays /\ faults' = faults
    BY <1>4 DEF AnswerBusy, lockVars
  <2>2. CASE /\ k.tries < MaxRetries
             /\ calls' = [calls EXCEPT ![c] = (@ \ {k}) \cup {[k EXCEPT !.tries = @ + 1]}]
             /\ UNCHANGED <<guard, tab, late>>
    <3> DEFINE retry == [k EXCEPT !.tries = @ + 1]
               cs == (calls[c] \ {k}) \cup {retry}
    <3>1. retry \in Call /\ retry.kind = k.kind
      BY <1>2, <2>2, LockClientsAssumption DEF Call
    <3>2. cs \in SUBSET Call /\ calls' = [calls EXCEPT ![c] = cs]
      BY <2>2, <3>1 DEF ClientsInv, ClientState
    <3>3. ClientState'
      <4>1. CASE c \in Guard
        <5> DEFINE s == guard[c]
        <5>1. s \in GuardState /\ Phase(s, calls[c])
          BY <4>1 DEF ClientsInv, ClientState, Phases
        <5>2. cs = {retry}
          BY <5>1 DEF Phase
        <5>3. Phase(s, cs)
          BY <3>1, <5>1, <5>2 DEF Phase
        <5>4. guard' = [guard EXCEPT ![c] = s] /\ tab' = tab /\ ClientState
          BY <2>2 DEF ClientsInv, ClientState
        <5> HIDE DEF s, cs
        <5>5. QED
          BY <3>2, <4>1, <5>1, <5>3, <5>4, OneGuard
      <4>2. CASE c \in Tab
        <5>1. tab[c] \in TabState /\ (tab[c].at = "mounted" => tab[c].path \in Entity)
          BY <4>2 DEF ClientsInv, ClientState, Paths
        <5>2. tab' = [tab EXCEPT ![c] = tab[c]]
          BY <2>2 DEF ClientsInv, ClientState
        <5>3. QED
          BY <2>2, <3>2, <4>2, <5>1, <5>2, OneTab DEF ClientsInv
      <4>3. QED
        BY <4>1, <4>2 DEF Client
    <3>4. QED
      BY <2>1, <2>2, <3>3 DEF ClientsInv, Bookkeeping
  <2>3. CASE Return(c, k, FALSE, NoId) /\ late' = [late EXCEPT ![c] = TRUE]
    <3>1. ClientState'
      BY <2>3, Returns DEF ClientsInv
    <3>2. QED
      BY <2>1, <2>3, <3>1 DEF ClientsInv, Bookkeeping
  <2>4. QED
    BY <1>4, <2>2, <2>3 DEF AnswerBusy
<1>5. CASE LoseAnswer(c, k)
  <2>1. UNCHANGED lockVars
    BY <1>5 DEF LoseAnswer, lockVars
  <2>2. AsStray(k) \in Request
    BY <1>2, StrayType
  <2>3. ClientState'
    BY <1>5, Returns DEF LoseAnswer, ClientsInv
  <2>4. late' \in [Client -> BOOLEAN] /\ faults' \in 0 .. MaxFaults
    BY <1>5, LockClientsAssumption DEF LoseAnswer, ClientsInv
  <2>5. strays' \in SUBSET Request
    BY <1>5, <2>2 DEF LoseAnswer, ClientsInv
  <2>6. QED
    BY <2>1, <2>3, <2>4, <2>5 DEF Bookkeeping
<1>6. QED
  BY <1>1, <1>3, <1>4, <1>5

\* Nothing depends on a stray: its service touches the lock map only.
LEMMA StrayStepInv ==
  ASSUME ClientsInv, NEW s \in strays, ServeStray(s) \/ DropStray(s)
  PROVE  ClientState' /\ Bookkeeping' /\ [Next]_lockVars
<1>1. s \in Request /\ s.entity \in Entity /\ s.id \in SuppliedIds
  BY DEF ClientsInv, Request
<1>2. UNCHANGED <<guard, tab, calls, faults>>
  BY DEF ServeStray, DropStray
<1>3. ClientState'
  BY <1>2 DEF ClientsInv, ClientState, Phases, Paths
<1>4. CASE ServeStray(s)
  BY <1>1, <1>3, <1>4, ServeStep DEF ServeStray, ClientsInv, Bookkeeping
<1>5. CASE DropStray(s)
  <2>1. late' \in [Client -> BOOLEAN]
    BY <1>5 DEF DropStray, ClientsInv
  <2>2. QED
    BY <1>3, <1>5, <2>1 DEF DropStray, ClientsInv, Bookkeeping, lockVars
<1>6. QED
  BY <1>4, <1>5

(***************************************************************************)
(* The clients' own steps leave the lock map alone.                        *)
(***************************************************************************)

LEMMA ConstructInv ==
  ASSUME ClientsInv, NEW g \in Guard, NEW e \in Entity, Construct(g, e)
  PROVE  ClientState' /\ Bookkeeping' /\ UNCHANGED lockVars
<1> DEFINE s == [NoGuard EXCEPT !.at = "acquire", !.entity = e]
           call == [kind |-> "acquire", entity |-> e, id |-> NoId, tries |-> 0]
<1>1. call \in Call
  BY SentCall DEF Kinds, SuppliedIds
<1>2. s \in GuardState /\ Phase(s, {call})
  <2>1. s \in GuardState
    BY NoGuardType DEF GuardState
  <2>2. s.at = "acquire" /\ s.hb = "off" /\ s.entity = e
    BY DEF NoGuard
  <2>3. call.kind = "acquire"
    OBVIOUS
  <2>4. QED
    BY <2>1, <2>2, <2>3 DEF Phase
<1>3. calls[g] = {}
  BY DEF Construct, ClientsInv, ClientState, Phases, Phase
<1>4. guard' = [guard EXCEPT ![g] = s] /\ calls' = [calls EXCEPT ![g] = {call}]
  BY <1>3 DEF Construct, Send, ClientsInv, ClientState
<1> HIDE DEF s, call
<1>5. ClientState'
  BY <1>1, <1>2, <1>4, OneGuard DEF Construct, ClientsInv
<1>6. late' \in [Client -> BOOLEAN]
  BY DEF Construct, ClientsInv
<1>7. QED
  BY <1>5, <1>6 DEF Construct, ClientsInv, Bookkeeping, lockVars

LEMMA GuardStepInv ==
  ASSUME ClientsInv, NEW g \in Guard, GuardStep(g) \/ Destroy(g) \/ CrashGuard(g)
  PROVE  ClientState' /\ Bookkeeping' /\ UNCHANGED lockVars
<1> DEFINE s == guard[g]
<1>1. s \in GuardState /\ Phase(s, calls[g]) /\ calls[g] \in SUBSET Call /\ s.id \in SuppliedIds
  BY DEF ClientsInv, ClientState, Phases, GuardState, Client
<1>2. UNCHANGED <<lockVars, tab, late>>
  BY DEF GuardStep, HeartbeatTest, HeartbeatBlock, HeartbeatTimeout, Joined, Destroy,
         CrashGuard, lockVars
<1>3. ASSUME NEW to \in GuardState, Phase(to, calls[g]),
             guard' = [guard EXCEPT ![g] = to], UNCHANGED calls
      PROVE  ClientState'
  <2>1. calls' = [calls EXCEPT ![g] = calls[g]]
    BY <1>3 DEF ClientsInv, ClientState
  <2>2. QED
    BY <1>1, <1>2, <1>3, <2>1, OneGuard DEF ClientsInv
<1>4. CASE HeartbeatTest(g)
  <2> DEFINE to == [s EXCEPT !.hb = IF s.at = "stop" THEN "done" ELSE "enter"]
  <2>1. to \in GuardState /\ Phase(to, calls[g])
    BY <1>1, <1>4 DEF HeartbeatTest, GuardState, Phase
  <2>2. guard' = [guard EXCEPT ![g] = to] /\ UNCHANGED calls
    BY <1>4 DEF HeartbeatTest
  <2> HIDE DEF to
  <2>3. QED
    BY <1>2, <1>3, <1>4, <2>1, <2>2 DEF HeartbeatTest, ClientsInv, Bookkeeping
<1>5. CASE HeartbeatBlock(g)
  <2> DEFINE to == [s EXCEPT !.hb = "wait"]
  <2>1. to \in GuardState /\ Phase(to, calls[g])
    BY <1>1, <1>5 DEF HeartbeatBlock, GuardState, Phase
  <2>2. guard' = [guard EXCEPT ![g] = to] /\ UNCHANGED calls
    BY <1>5 DEF HeartbeatBlock
  <2> HIDE DEF to
  <2>3. QED
    BY <1>2, <1>3, <1>5, <2>1, <2>2 DEF HeartbeatBlock, ClientsInv, Bookkeeping
<1>6. CASE HeartbeatTimeout(g)
  <2>1. s.hb = "wait" /\ UNCHANGED <<strays, faults>>
    BY <1>6 DEF HeartbeatTimeout
  <2>2. calls[g] = {} /\ s.entity \in Entity
    BY <1>1, <2>1 DEF Phase, GuardState, Call, Kinds
  <2>3. CASE s.at = "stop"
    <3> DEFINE to == [s EXCEPT !.hb = "done"]
    <3>1. to \in GuardState /\ Phase(to, calls[g])
      BY <1>1, <2>1, <2>2, <2>3 DEF GuardState, Phase
    <3>2. guard' = [guard EXCEPT ![g] = to] /\ UNCHANGED calls
      BY <1>6, <2>3 DEF HeartbeatTimeout
    <3> HIDE DEF to
    <3>3. QED
      BY <1>2, <1>3, <2>1, <3>1, <3>2 DEF ClientsInv, Bookkeeping
  <2>4. CASE s.at # "stop"
    <3> DEFINE to == [s EXCEPT !.hb = "renew"]
               call == [kind |-> "renew", entity |-> s.entity, id |-> s.id, tries |-> 0]
    <3>1. call \in Call
      BY <1>1, <2>2, SentCall DEF Kinds
    <3>2. to \in GuardState /\ Phase(to, {call})
      BY <1>1, <2>1, <2>2 DEF GuardState, Phase
    <3>3. guard' = [guard EXCEPT ![g] = to] /\ calls' = [calls EXCEPT ![g] = {call}]
      BY <1>6, <2>2, <2>4 DEF HeartbeatTimeout, Send, ClientsInv, ClientState
    <3> HIDE DEF to, call
    <3>4. ClientState'
      BY <1>2, <3>1, <3>2, <3>3, OneGuard DEF ClientsInv
    <3>5. QED
      BY <1>2, <2>1, <3>4 DEF ClientsInv, Bookkeeping
  <2>5. QED
    BY <2>3, <2>4
<1>7. CASE Joined(g)
  <2>1. s.at = "stop" /\ s.hb \in {"off", "done"} /\ UNCHANGED <<strays, faults>>
    BY <1>7 DEF Joined
  <2>2. calls[g] = {} /\ s.entity \in Entity
    BY <1>1, <2>1 DEF Phase, GuardState, Call, Kinds
  <2> DEFINE to == [s EXCEPT !.at = "release"]
             call == [kind |-> "release", entity |-> s.entity, id |-> s.id, tries |-> 0]
  <2>3. call \in Call
    BY <1>1, <2>2, SentCall DEF Kinds
  <2>4. to \in GuardState /\ Phase(to, {call})
    BY <1>1, <2>1, <2>2 DEF GuardState, Phase
  <2>5. guard' = [guard EXCEPT ![g] = to] /\ calls' = [calls EXCEPT ![g] = {call}]
    BY <1>7, <2>2 DEF Joined, Send, ClientsInv, ClientState
  <2> HIDE DEF to, call
  <2>6. ClientState'
    BY <1>2, <2>3, <2>4, <2>5, OneGuard DEF ClientsInv
  <2>7. QED
    BY <1>2, <2>1, <2>6 DEF ClientsInv, Bookkeeping
<1>8. CASE Destroy(g)
  <2> DEFINE to == [s EXCEPT !.at = "stop", !.hb = IF @ = "wait" THEN "test" ELSE @]
  <2>1. to \in GuardState /\ Phase(to, calls[g])
    BY <1>1, <1>8 DEF Destroy, GuardState, Phase
  <2>2. guard' = [guard EXCEPT ![g] = to] /\ UNCHANGED calls
    BY <1>8 DEF Destroy
  <2> HIDE DEF to
  <2>3. QED
    BY <1>2, <1>3, <1>8, <2>1, <2>2 DEF Destroy, ClientsInv, Bookkeeping
<1>9. CASE CrashGuard(g)
  <2>1. ClientState'
    BY <1>2, <1>9, NoGuardType, OneGuard DEF CrashGuard, ClientsInv
  <2>2. {AsStray(k) : k \in calls[g]} \subseteq Request
    BY <1>1, StrayType
  <2>3. faults' \in 0 .. MaxFaults
    BY <1>9, LockClientsAssumption DEF CrashGuard, ClientsInv
  <2>4. QED
    BY <1>2, <1>9, <2>1, <2>2, <2>3 DEF CrashGuard, ClientsInv, Bookkeeping
<1>10. QED
  BY <1>4, <1>5, <1>6, <1>7, <1>8, <1>9 DEF GuardStep

LEMMA TabStepInv ==
  ASSUME ClientsInv, NEW t \in Tab, TabStep(t)
  PROVE  ClientState' /\ Bookkeeping' /\ UNCHANGED lockVars
<1> DEFINE s == tab[t]
<1>1. /\ s \in TabState /\ s.id \in SuppliedIds /\ s.due \subseteq Entity
      /\ calls[t] \in SUBSET Call
      /\ s.at = "mounted" => s.path \in Entity
  BY DEF ClientsInv, ClientState, Paths, TabState, Client
<1>2. UNCHANGED <<lockVars, guard, faults>>
  BY DEF TabStep, EditOn, EditOff, Unmount, ClosePage, OpenPage, TimerFires, SelectEntity,
         lockVars
<1>3. ASSUME NEW to \in TabState, to.at = "mounted" => to.path \in Entity,
             tab' = [tab EXCEPT ![t] = to], UNCHANGED calls
      PROVE  ClientState'
  <2>1. calls' = [calls EXCEPT ![t] = calls[t]]
    BY <1>3 DEF ClientsInv, ClientState
  <2>2. QED
    BY <1>1, <1>2, <1>3, <2>1, OneTab DEF ClientsInv
<1>4. Released(s) \in TabState /\ Released(s).at = s.at /\ Released(s).path = s.path
  BY <1>1, ReleasedType DEF Released, TabState
<1>5. CASE EditOn(t)
  <2>1. s.path \in Entity
    BY <1>1, <1>5 DEF EditOn
  <2> DEFINE cs == calls[t] \cup
               {[kind |-> "acquire", entity |-> s.path, id |-> NoId, tries |-> 0]}
  <2>2. cs \in SUBSET Call
    BY <1>1, <2>1, SentCall DEF Kinds, SuppliedIds
  <2>3. calls' = [calls EXCEPT ![t] = cs] /\ tab' = [tab EXCEPT ![t] = s]
    BY <1>5 DEF EditOn, Send, ClientsInv, ClientState
  <2> HIDE DEF cs
  <2>4. ClientState'
    BY <1>1, <1>2, <2>2, <2>3, OneTab DEF ClientsInv
  <2>5. late' \in [Client -> BOOLEAN] /\ strays' = strays
    BY <1>5 DEF EditOn, ClientsInv
  <2>6. QED
    BY <1>2, <2>4, <2>5 DEF ClientsInv, Bookkeeping
<1>6. CASE EditOff(t)
  <2>1. strays' \in SUBSET Request
    BY <1>1, <1>6, ReleaseAtType DEF EditOff
  <2>2. tab' = [tab EXCEPT ![t] = Released(s)] /\ UNCHANGED <<calls, late>>
    BY <1>6 DEF EditOff
  <2>3. ClientState'
    BY <1>1, <1>3, <1>4, <2>2
  <2>4. QED
    BY <1>2, <2>1, <2>2, <2>3 DEF ClientsInv, Bookkeeping
<1>7. CASE Unmount(t)
  <2> DEFINE to == [Released(s) EXCEPT !.at = "unmounted"]
  <2>1. strays' \in SUBSET Request
    BY <1>1, <1>7, ReleaseAtType DEF Unmount
  <2>2. to \in TabState /\ to.at # "mounted"
    BY <1>4 DEF TabState
  <2>3. tab' = [tab EXCEPT ![t] = to] /\ UNCHANGED <<calls, late>>
    BY <1>7 DEF Unmount
  <2> HIDE DEF to
  <2>4. ClientState'
    BY <1>3, <2>2, <2>3
  <2>5. QED
    BY <1>2, <2>1, <2>3, <2>4 DEF ClientsInv, Bookkeeping
<1>8. CASE ClosePage(t)
  <2>1. strays' \in SUBSET Request
    <3>1. CASE s.at = "mounted" /\ ReleaseAt(t, s.path) /\ calls[t] = {}
      BY <1>1, <3>1, ReleaseAtType
    <3>2. CASE strays' = strays \cup {AsStray(k) : k \in calls[t]}
      <4>1. {AsStray(k) : k \in calls[t]} \subseteq Request
        BY <1>1, StrayType
      <4>2. QED
        BY <3>2, <4>1 DEF ClientsInv
    <3>3. QED
      BY <1>8, <3>1, <3>2 DEF ClosePage
  <2>2. /\ tab' = [tab EXCEPT ![t] = NoTab] /\ calls' = [calls EXCEPT ![t] = {}]
        /\ late' = late
    BY <1>8 DEF ClosePage
  <2>3. NoTab \in TabState /\ NoTab.at # "mounted"
    BY NoTabType DEF NoTab
  <2>4. ClientState'
    BY <1>2, <2>2, <2>3, OneTab DEF ClientsInv
  <2>5. QED
    BY <1>2, <2>1, <2>2, <2>4 DEF ClientsInv, Bookkeeping
<1>9. ASSUME NEW e \in Entity, OpenPage(t, e)
      PROVE  ClientState' /\ Bookkeeping'
  <2> DEFINE to == [NoTab EXCEPT !.at = "mounted", !.path = e]
  <2>1. to \in TabState /\ to.path \in Entity
    BY NoTabType DEF TabState, NoTab
  <2>2. tab' = [tab EXCEPT ![t] = to] /\ UNCHANGED <<calls, late, strays>>
    BY <1>9 DEF OpenPage
  <2> HIDE DEF to
  <2>3. ClientState'
    BY <1>3, <2>1, <2>2
  <2>4. QED
    BY <1>2, <2>2, <2>3 DEF ClientsInv, Bookkeeping
<1>10. ASSUME NEW e \in Entity, TimerFires(t, e)
       PROVE  ClientState' /\ Bookkeeping'
  <2> DEFINE to == [s EXCEPT !.due = @ \ {e}]
  <2>1. to \in TabState /\ (to.at = "mounted" => to.path \in Entity)
    BY <1>1 DEF TabState
  <2>2. tab' = [tab EXCEPT ![t] = to] /\ UNCHANGED <<calls, late>>
    BY <1>10 DEF TimerFires
  <2>3. Req("renew", e, s.id) \in Request
    BY <1>1 DEF Req, Request, Kinds
  <2>4. strays' \in SUBSET Request
    BY <1>10, <2>3 DEF TimerFires, ClientsInv
  <2> HIDE DEF to
  <2>5. ClientState'
    BY <1>3, <2>1, <2>2
  <2>6. QED
    BY <1>2, <2>2, <2>4, <2>5 DEF ClientsInv, Bookkeeping
<1>11. ASSUME NEW e \in Entity, SelectEntity(t, e)
       PROVE  ClientState' /\ Bookkeeping'
  <2> DEFINE to == [Released(s) EXCEPT !.path = e]
  <2>1. to \in TabState /\ to.path \in Entity
    BY <1>4 DEF TabState
  <2>2. tab' = [tab EXCEPT ![t] = to] /\ UNCHANGED <<calls, late>>
    BY <1>11 DEF SelectEntity
  <2>3. strays' \in SUBSET Request
    BY <1>11, ReleaseAtType DEF SelectEntity
  <2> HIDE DEF to
  <2>4. ClientState'
    BY <1>3, <2>1, <2>2
  <2>5. QED
    BY <1>2, <2>2, <2>3, <2>4 DEF ClientsInv, Bookkeeping
<1>12. QED
  BY <1>2, <1>5, <1>6, <1>7, <1>8, <1>9, <1>10, <1>11 DEF TabStep

\* Time moves every clock and no phase.
LEMMA ClientsTickInv ==
  ASSUME ClientsInv, ClientsTick
  PROVE  ClientState' /\ Bookkeeping' /\ [Next]_lockVars
<1>1. UNCHANGED <<calls, strays, faults>>
  BY DEF ClientsTick
<1>2. \A g \in Guard : /\ guard'[g] \in GuardState
                       /\ Phase(guard'[g], calls[g])
  <2> TAKE g \in Guard
  <2>1. guard[g] \in GuardState /\ Phase(guard[g], calls[g])
    BY DEF ClientsInv, ClientState, Phases
  <2>2. guard'[g] = IF Beats(g) /\ guard[g].beatIn > 0
                    THEN [guard[g] EXCEPT !.beatIn = @ - 1] ELSE guard[g]
    BY DEF ClientsTick
  <2>3. CASE Beats(g) /\ guard[g].beatIn > 0
    <3>1. guard'[g] = [guard[g] EXCEPT !.beatIn = @ - 1]
      BY <2>2, <2>3
    <3>2. guard[g].beatIn - 1 \in 0 .. Ttl
      BY <2>1, <2>3, LockClientsAssumption, LockManagerAssumption DEF GuardState
    <3>3. guard'[g] \in GuardState
      BY <2>1, <3>1, <3>2 DEF GuardState
    <3>4. guard'[g].at = guard[g].at /\ guard'[g].hb = guard[g].hb
            /\ guard'[g].entity = guard[g].entity
      BY <2>1, <3>1 DEF GuardState
    <3>5. QED
      BY <2>1, <3>3, <3>4 DEF Phase
  <2>4. QED
    BY <2>1, <2>2, <2>3
<1>3. guard' \in [Guard -> GuardState]
  BY <1>2 DEF ClientsTick
<1>4. \A t \in Tab : /\ tab'[t] \in TabState
                     /\ tab'[t].at = "mounted" => tab'[t].path \in Entity
  BY DEF ClientsTick, ClientsInv, ClientState, Paths, TabState, Timers
<1>5. tab' \in [Tab -> TabState]
  BY <1>4 DEF ClientsTick
<1>6. ClientState'
  BY <1>1, <1>2, <1>3, <1>4, <1>5 DEF ClientsInv, ClientState, Phases, Paths
<1>7. late' \in [Client -> BOOLEAN]
  BY DEF ClientsTick, ClientsInv
<1>8. [Next]_lockVars
  BY DEF ClientsTick, Next
<1>9. QED
  BY <1>1, <1>6, <1>7, <1>8 DEF ClientsInv, Bookkeeping

(***************************************************************************)
(* The theorems.                                                           *)
(***************************************************************************)

LEMMA ClientsInitInv == ClientsInit => ClientsInv
<1> SUFFICES ASSUME ClientsInit PROVE ClientsInv
  OBVIOUS
<1>1. LockInv
  BY InitInv DEF ClientsInit
<1>2. Phases /\ guard \in [Guard -> GuardState]
  BY NoGuardType DEF ClientsInit, Phases, Client
<1>3. Paths /\ tab \in [Tab -> TabState]
  BY NoTabType DEF ClientsInit, Paths, NoTab
<1>4. QED
  BY <1>1, <1>2, <1>3, LockClientsAssumption DEF ClientsInit, ClientsInv, ClientState

\* Every step keeps the invariant, and is one of the lock manager's or none
\* of its business.
LEMMA ClientsStep ==
  ClientsInv /\ [ClientsNext]_clientVars => ClientsInv' /\ [Next]_lockVars
<1> SUFFICES ASSUME ClientsInv, [ClientsNext]_clientVars PROVE ClientsInv' /\ [Next]_lockVars
  OBVIOUS
<1>1. ClientState' /\ Bookkeeping' /\ [Next]_lockVars
  <2>1. CASE \E g \in Guard, e \in Entity : Construct(g, e)
    BY <2>1, ConstructInv
  <2>2. CASE \E g \in Guard : GuardStep(g) \/ Destroy(g) \/ CrashGuard(g)
    BY <2>2, GuardStepInv
  <2>3. CASE \E t \in Tab : TabStep(t)
    BY <2>3, TabStepInv
  <2>4. CASE \E c \in Client : NetworkStep(c)
    BY <2>4, NetworkStepInv
  <2>5. CASE \E s \in strays : ServeStray(s) \/ DropStray(s)
    BY <2>5, StrayStepInv
  <2>6. CASE ClientsTick
    BY <2>6, ClientsTickInv
  <2>7. CASE UNCHANGED clientVars
    BY <2>7 DEF clientVars, lockVars, ClientsInv, ClientState, Phases, Paths, Bookkeeping
  <2>8. QED
    BY <2>1, <2>2, <2>3, <2>4, <2>5, <2>6, <2>7 DEF ClientsNext
<1>2. LockInv'
  BY <1>1, NextInv DEF ClientsInv
<1>3. QED
  BY <1>1, <1>2 DEF ClientsInv, Bookkeeping

\* The records stay records of their kinds: in particular every request
\* that reaches the server names an entity.
THEOREM ClientsAlwaysTypeOK == ClientsSpec => []ClientsTypeOK
<1>1. ClientsInv => ClientsTypeOK
  BY DEF ClientsInv, ClientState, ClientsTypeOK
<1>2. QED
  BY <1>1, ClientsInitInv, ClientsStep, PTL DEF ClientsSpec

\* Whatever the clients and the network do, the lock map behaves as
\* LockManager says.
THEOREM ClientsKeepLockManager == ClientsSpec => Spec
<1>1. ClientsInit => Init
  BY DEF ClientsInit
<1>2. QED
  BY <1>1, ClientsInitInv, ClientsStep, PTL DEF ClientsSpec, Spec

\* So everything LockManager promises holds among its clients: a lease with
\* time left is cut short by a release with its own id and nothing else, and
\* ids are never shared.
THEOREM ClientsCutShortOnlyByHolder == ClientsSpec => CutShortOnlyByHolder
  BY ClientsKeepLockManager, SpecCutShortOnlyByHolder, PTL

\* A LockGuard's heartbeat never overlaps its constructor or its destructor's
\* release.
THEOREM ClientsOneRequestPerGuard == ClientsSpec => []OneRequestPerGuard
<1>1. ClientsInv => OneRequestPerGuard
  <2> SUFFICES ASSUME ClientsInv, NEW g \in Guard
               PROVE  /\ \A j, k \in calls[g] : j = k
                      /\ \A k \in calls[g] : k.kind = "renew" => guard[g].at \in {"hold", "stop"}
    BY DEF OneRequestPerGuard
  <2>1. guard[g] \in GuardState /\ Phase(guard[g], calls[g])
    BY DEF ClientsInv, ClientState, Phases
  <2>2. QED
    BY <2>1 DEF Phase, GuardState
<1>2. QED
  BY <1>1, ClientsInitInv, ClientsStep, PTL DEF ClientsSpec

(***************************************************************************)
(* HoldersKeepTheirLock.  Its invariant says whose the ids are, and how    *)
(* far from its end a lease is.                                            *)
(***************************************************************************)

IdOf(c) == IF c \in Guard THEN guard[c].id ELSE tab[c].id

\* No id that a client has, or has sent, will be handed out again, and no two
\* clients have the same.
IdsApart ==
  /\ \A c \in Client : IdOf(c) < nextId
  /\ \A s \in strays : s.id < nextId
  /\ \A c, d \in Client : IdOf(c) = IdOf(d) /\ IdOf(c) # NoId => c = d

\* Whoever sends a release has forgotten the id, or will never claim it again.
ReleasesForgotten == \A s \in strays, c \in Client :
  s.kind = "release" /\ IdOf(c) # NoId => s.id # IdOf(c)

\* A client waits for answers about its own lock only.
CallsOwned ==
  /\ \A g \in Guard : \A k \in calls[g] :
       /\ k.entity = guard[g].entity
       /\ k.id = IF k.kind = "acquire" THEN NoId ELSE guard[g].id
  /\ \A t \in Tab : \A k \in calls[t] : k.kind = "acquire" /\ k.id = NoId

\* A guard's heartbeat comes before its lease ends.
GuardHolding(g) ==
  /\ guard[g].beatIn < Ttl
  /\ guard[g].hb = "renew" => calls[g] # {}
  /\ guard[g].hb = "done" => guard[g].at # "hold"
  /\ guard[g].at = "hold" /\ guard[g].hb # "off" /\ ~late[g] =>
       /\ HeldAs(guard[g].entity, guard[g].id)
       /\ Beats(g) => guard[g].beatIn < locks[guard[g].entity].left

\* A page's lease is not at its last step, or its timer is due, or the
\* renewal is under way.
TabHolding(t) ==
  /\ tab[t].handle = Nowhere <=> tab[t].id = NoId
  /\ tab[t].handle # Nowhere /\ ~late[t] =>
       /\ HeldAs(tab[t].handle, tab[t].id)
       /\ \/ locks[tab[t].handle].left > 1
          \/ tab[t].handle \in tab[t].due
          \/ Req("renew", tab[t].handle, tab[t].id) \in strays

IdsInv == IdsApart /\ ReleasesForgotten /\ CallsOwned

HoldersInv ==
  /\ ClientsInv
  /\ IdsInv
  /\ \A g \in Guard : GuardHolding(g)
  /\ \A t \in Tab : TabHolding(t)

(***************************************************************************)
(* What the server does to a lease that is held.                           *)
(***************************************************************************)

LeaseKept(e, id) == HeldAs(e, id) =>
  /\ locks'[e].id = id /\ locks'[e].left > 0
  /\ locks'[e].left = locks[e].left \/ locks'[e].left = Ttl

LEMMA TtlClamp == Ttl \in Nat /\ 1 < Ttl /\ Clamp(Ttl) = Ttl /\ BeatInterval < Ttl
<1>1. Ttl \in Nat /\ 1 < Ttl /\ Ttl <= MaxTtl /\ MaxTtl \in Nat
  BY LockClientsAssumption, LockManagerAssumption
<1>2. QED
  BY <1>1 DEF Clamp, BeatInterval

\* An entry that is held is an entry of the map with an id.
LEMMA HeldEntry ==
  ASSUME LockInv, NEW e \in Entity, NEW id, HeldAs(e, id)
  PROVE  /\ locks[e] \in LockEntry /\ locks[e].id = id /\ id # NoId
         /\ locks[e].left \in Nat /\ locks[e].left > 0
<1>1. locks[e] \in LockEntry
  BY DEF LockInv, TypeOK
<1>2. QED
  BY <1>1, LockManagerAssumption DEF LockInv, IdsUnique, HeldAs, LockedUnexpired, LockEntry

\* Only a release with its own id takes it away, and a renewal with its own
\* id restarts it.
LEMMA ServedLease ==
  ASSUME LockInv, NEW r, Serve(r), NEW e \in Entity, NEW id,
         r.kind = "release" => r.id # id
  PROVE  /\ LeaseKept(e, id)
         /\ HeldAs(e, id) /\ r.kind = "renew" /\ r.entity = e /\ r.id = id => locks'[e].left = Ttl
<1> SUFFICES ASSUME HeldAs(e, id)
             PROVE  /\ locks'[e].id = id /\ locks'[e].left > 0
                    /\ locks'[e].left = locks[e].left \/ locks'[e].left = Ttl
                    /\ r.kind = "renew" /\ r.entity = e /\ r.id = id => locks'[e].left = Ttl
  BY DEF LeaseKept
<1>1. /\ locks[e] \in LockEntry /\ locks[e].id = id /\ id # NoId
      /\ locks[e].left \in Nat /\ locks[e].left > 0
  BY HeldEntry
<1>2. locks \in [Entity -> LockEntry]
  BY DEF LockInv, TypeOK
<1>3. CASE locks'[e] = locks[e] /\ ~(r.kind = "renew" /\ r.entity = e /\ r.id = id)
  BY <1>1, <1>3
<1>4. CASE locks'[e] = [locks[e] EXCEPT !.left = Ttl]
  BY <1>1, <1>4, TtlClamp DEF LockEntry
<1>5. CASE r.kind = "acquire" /\ (Acquire(r.entity, Ttl) \/ AcquireConflict(r.entity))
  <2>1. locks'[e] = locks[e]
    BY <1>1, <1>2, <1>5 DEF Acquire, AcquireConflict, lockVars, LockedUnexpired
  <2>2. QED
    BY <1>3, <1>5, <2>1
<1>6. CASE r.kind = "renew" /\ Renew(r.entity, r.id, Ttl)
  <2>1. CASE r.entity = e /\ r.id = id
    BY <1>2, <1>4, <1>6, <2>1, TtlClamp DEF Renew
  <2>2. CASE r.entity = e /\ r.id # id
    BY <1>1, <1>3, <1>6, <2>2 DEF Renew, HeldAs, LockedUnexpired
  <2>3. CASE r.entity # e
    BY <1>2, <1>3, <1>6, <2>3 DEF Renew
  <2>4. QED
    BY <2>1, <2>2, <2>3
<1>7. CASE r.kind = "release" /\ Release(r.entity, r.id)
  <2>1. CASE r.entity = e
    BY <1>1, <1>3, <1>7, <2>1 DEF Release, CheckLock, LockedUnexpired
  <2>2. CASE r.entity # e
    BY <1>2, <1>3, <1>7, <2>2 DEF Release
  <2>3. QED
    BY <2>1, <2>2
<1>8. QED
  BY <1>5, <1>6, <1>7 DEF Serve

LEMMA GrantedLease ==
  ASSUME LockInv, NEW k \in Call, Serve(k), k.kind = "acquire", Granted(k)
  PROVE  /\ nextId' = nextId + 1 /\ nextId \in LockIds
         /\ locks'[k.entity] = [id |-> nextId, left |-> Ttl]
<1>1. Acquire(k.entity, Ttl)
  BY DEF Serve, Granted, AcquireConflict
<1>2. locks \in [Entity -> LockEntry] /\ k.entity \in Entity /\ nextId \in Nat /\ nextId > 0
  BY LockManagerAssumption DEF LockInv, TypeOK, Call
<1>3. locks'[k.entity] = [id |-> nextId, left |-> Ttl] /\ nextId' = nextId + 1
  BY <1>1, <1>2, TtlClamp DEF Acquire
<1>4. nextId \in LockIds
  BY <1>1, <1>2, LockManagerAssumption DEF Acquire, LockIds
<1>5. QED
  BY <1>3, <1>4

(***************************************************************************)
(* Who is not involved in a step.                                          *)
(***************************************************************************)

\* What a guard knows of its own lease.
LEMMA GuardFacts ==
  ASSUME HoldersInv, NEW g \in Guard
  PROVE  /\ g \in Client /\ g \notin Tab /\ IdOf(g) = guard[g].id
         /\ guard[g] \in GuardState /\ guard[g].id \in SuppliedIds
         /\ Phase(guard[g], calls[g]) /\ calls[g] \in SUBSET Call
         /\ guard[g].at = "hold" => guard[g].entity \in Entity
         /\ GuardHolding(g)
  BY LockClientsAssumption
     DEF HoldersInv, ClientsInv, ClientState, Phases, Phase, GuardState, Client, IdOf

\* And a page of its own.
LEMMA TabFacts ==
  ASSUME HoldersInv, NEW t \in Tab
  PROVE  /\ t \in Client /\ t \notin Guard /\ IdOf(t) = tab[t].id
         /\ tab[t] \in TabState /\ tab[t].id \in SuppliedIds /\ calls[t] \in SUBSET Call
         /\ tab[t].handle # Nowhere => tab[t].handle \in Entity
         /\ TabHolding(t)
  BY LockClientsAssumption
     DEF HoldersInv, ClientsInv, ClientState, TabState, Client, IdOf

LEMMA GuardKept ==
  ASSUME HoldersInv, NEW g \in Guard, guard'[g] = guard[g],
         calls[g] # {} => calls'[g] # {}, late[g] => late'[g],
         guard[g].entity \in Entity => LeaseKept(guard[g].entity, guard[g].id)
  PROVE  GuardHolding(g)'
<1>1. /\ guard[g].beatIn < Ttl
      /\ guard[g].hb = "renew" => calls'[g] # {}
      /\ guard[g].hb = "done" => guard[g].at # "hold"
  BY GuardFacts DEF GuardHolding
<1>2. ASSUME guard[g].at = "hold", guard[g].hb # "off", ~late'[g]
      PROVE  /\ locks'[guard[g].entity].id = guard[g].id
             /\ locks'[guard[g].entity].left > 0
             /\ Beats(g) => guard[g].beatIn < locks'[guard[g].entity].left
  <2> DEFINE e == guard[g].entity
  <2>1. HeldAs(e, guard[g].id) /\ (Beats(g) => guard[g].beatIn < locks[e].left) /\ e \in Entity
    BY <1>2, GuardFacts DEF GuardHolding
  <2>2. /\ locks'[e].id = guard[g].id /\ locks'[e].left > 0
        /\ locks'[e].left = locks[e].left \/ locks'[e].left = Ttl
    BY <2>1 DEF LeaseKept
  <2>3. QED
    BY <1>1, <2>1, <2>2
<1>3. Beats(g)' <=> Beats(g)
  BY DEF Beats
<1>4. QED
  BY <1>1, <1>2, <1>3 DEF GuardHolding, HeldAs, LockedUnexpired

LEMMA TabKept ==
  ASSUME HoldersInv, NEW t \in Tab, tab'[t] = tab[t], late[t] => late'[t],
         tab[t].handle \in Entity => LeaseKept(tab[t].handle, tab[t].id),
         LET r == Req("renew", tab[t].handle, tab[t].id)
         IN  r \in strays => \/ r \in strays' \/ late'[t]
                             \/ HeldAs(tab[t].handle, tab[t].id) => locks'[tab[t].handle].left = Ttl
  PROVE  TabHolding(t)'
<1> DEFINE e == tab[t].handle
           r == Req("renew", e, tab[t].id)
<1>1. e = Nowhere <=> tab[t].id = NoId
  BY TabFacts DEF TabHolding
<1>2. ASSUME e # Nowhere, ~late'[t]
      PROVE  /\ locks'[e].id = tab[t].id /\ locks'[e].left > 0
             /\ locks'[e].left > 1 \/ e \in tab[t].due \/ r \in strays'
  <2>1. /\ HeldAs(e, tab[t].id) /\ e \in Entity
        /\ locks[e].left > 1 \/ e \in tab[t].due \/ r \in strays
    BY <1>2, TabFacts DEF TabHolding
  <2>2. /\ locks'[e].id = tab[t].id /\ locks'[e].left > 0
        /\ locks'[e].left = locks[e].left \/ locks'[e].left = Ttl
    BY <2>1 DEF LeaseKept
  <2>3. r \in strays => r \in strays' \/ locks'[e].left = Ttl
    BY <1>2, <2>1
  <2>4. QED
    BY <2>1, <2>2, <2>3, TtlClamp
<1>3. Req("renew", tab[t].handle, tab[t].id)' = r
  BY DEF Req
<1>4. QED
  BY <1>1, <1>2, <1>3 DEF TabHolding, HeldAs, LockedUnexpired

LEMMA ClientIds ==
  ASSUME HoldersInv
  PROVE  /\ nextId \in Nat \ {0}
         /\ \A c \in Client : IdOf(c) \in Nat
         /\ \A s \in strays : s.id \in Nat
<1>1. SuppliedIds \subseteq Nat
  BY LockManagerAssumption DEF SuppliedIds, NoId, LockIds
<1>2. \A c \in Client : IdOf(c) \in Nat
  BY <1>1, GuardFacts, TabFacts DEF Client
<1>3. nextId \in Nat \ {0}
  BY LockManagerAssumption DEF HoldersInv, ClientsInv, LockInv, TypeOK
<1>4. \A s \in strays : s.id \in SuppliedIds
  BY DEF HoldersInv, ClientsInv, Request
<1>5. QED
  BY <1>1, <1>2, <1>3, <1>4

\* A step in which one client keeps its id, forgets it or is granted one,
\* and sends what nobody waits for.
LEMMA IdsStep ==
  ASSUME HoldersInv, NEW c \in Client,
         \A d \in Client \ {c} : IdOf(d)' = IdOf(d),
         \/ IdOf(c)' \in {IdOf(c), NoId} /\ nextId' = nextId
         \/ IdOf(c)' = nextId /\ nextId' = nextId + 1,
         \A s \in strays' \ strays : /\ s.id \in {NoId, IdOf(c)}
                                     /\ s.kind = "release" => s.id = NoId \/ IdOf(c)' = NoId
  PROVE  IdsApart' /\ ReleasesForgotten'
<1> USE DEF NoId
<1>1. /\ nextId \in Nat \ {0}
      /\ \A d \in Client : IdOf(d) \in Nat /\ IdOf(d) < nextId
      /\ \A s \in strays : s.id \in Nat /\ s.id < nextId
      /\ \A b, d \in Client : IdOf(b) = IdOf(d) /\ IdOf(b) # NoId => b = d
      /\ \A s \in strays, d \in Client : s.kind = "release" /\ IdOf(d) # NoId => s.id # IdOf(d)
  BY ClientIds DEF HoldersInv, IdsInv, IdsApart, ReleasesForgotten
<1>2. nextId' \in Nat /\ nextId <= nextId'
  BY <1>1
<1>3. \A d \in Client : IdOf(d)' \in Nat /\ IdOf(d)' < nextId'
  BY <1>1, <1>2
<1>4. \A s \in strays' : s.id \in Nat /\ s.id < nextId'
  BY <1>1, <1>2
<1>5. \A b, d \in Client : IdOf(b)' = IdOf(d)' /\ IdOf(b)' # NoId => b = d
  BY <1>1
<1>6. ASSUME NEW s \in strays', NEW d \in Client, s.kind = "release", IdOf(d)' # NoId
      PROVE  s.id # IdOf(d)'
  <2>1. CASE s \in strays
    BY <1>1, <1>6, <2>1
  <2>2. CASE s \notin strays
    BY <1>1, <1>6, <2>2
  <2>3. QED
    BY <2>1, <2>2
<1>7. IdsApart'
  BY <1>3, <1>4, <1>5 DEF IdsApart
<1>8. QED
  BY <1>6, <1>7 DEF ReleasesForgotten

\* A step of one client that asks nothing of the server, or nothing yet: it
\* keeps its id, `had`, or forgets it, and is late on its own account.
Sends(c, had, has, cs) ==
  /\ calls' = [calls EXCEPT ![c] = cs]
  /\ UNCHANGED <<locks, nextId>>
  /\ \A d \in Client \ {c} : late'[d] = late[d]
  /\ strays \subseteq strays'
  /\ \A n \in strays' \ strays : /\ n.id \in {NoId, had}
                                 /\ n.kind = "release" => n.id = NoId \/ has = NoId
  /\ has \in {had, NoId}

GuardMove(g, s, cs) ==
  /\ guard' = [guard EXCEPT ![g] = s] /\ UNCHANGED tab
  /\ Sends(g, guard[g].id, s.id, cs)
  /\ \A k \in cs : k.entity = s.entity /\ k.id = IF k.kind = "acquire" THEN NoId ELSE s.id

TabMove(t, s, cs) ==
  /\ tab' = [tab EXCEPT ![t] = s] /\ UNCHANGED guard
  /\ Sends(t, tab[t].id, s.id, cs)
  /\ \A k \in cs : k.kind = "acquire" /\ k.id = NoId

LEMMA GuardOnly ==
  ASSUME HoldersInv, ClientsInv', NEW g \in Guard, NEW s, NEW cs, GuardMove(g, s, cs),
         GuardHolding(g)'
  PROVE  HoldersInv'
<1> USE DEF GuardMove, Sends
<1>1. guard \in [Guard -> GuardState] /\ calls \in [Client -> SUBSET Call] /\ g \in Client
  BY DEF HoldersInv, ClientsInv, ClientState, Client
<1>2. /\ guard'[g] = s /\ calls'[g] = cs
      /\ \A h \in Guard \ {g} : guard'[h] = guard[h]
      /\ \A d \in Client \ {g} : calls'[d] = calls[d]
  BY <1>1
<1>3. IdsApart' /\ ReleasesForgotten'
  <2>1. IdOf(g)' = s.id /\ IdOf(g) = guard[g].id
    BY <1>2 DEF IdOf
  <2>2. \A d \in Client \ {g} : IdOf(d)' = IdOf(d)
    BY <1>2 DEF IdOf, Client
  <2>3. IdOf(g)' \in {IdOf(g), NoId} /\ nextId' = nextId
    BY <2>1
  <2>4. \A n \in strays' \ strays : /\ n.id \in {NoId, IdOf(g)}
                                    /\ n.kind = "release" => n.id = NoId \/ IdOf(g)' = NoId
    BY <2>1
  <2>5. QED
    BY <1>1, <2>2, <2>3, <2>4, IdsStep
<1>4. CallsOwned'
  <2>1. \A h \in Guard : \A k \in calls'[h] :
          /\ k.entity = guard'[h].entity
          /\ k.id = IF k.kind = "acquire" THEN NoId ELSE guard'[h].id
    BY <1>2 DEF HoldersInv, IdsInv, CallsOwned, Client
  <2>2. \A t \in Tab : calls'[t] = calls[t]
    BY <1>2, LockClientsAssumption DEF Client
  <2>3. QED
    BY <2>1, <2>2 DEF HoldersInv, IdsInv, CallsOwned
<1>5. \A h \in Guard : GuardHolding(h)'
  <2> TAKE h \in Guard
  <2>1. CASE h # g
    <3>1. guard'[h] = guard[h] /\ calls'[h] = calls[h] /\ late'[h] = late[h]
      BY <1>2, <2>1 DEF Client
    <3>2. LeaseKept(guard[h].entity, guard[h].id)
      BY DEF LeaseKept, HeldAs, LockedUnexpired
    <3>3. QED
      BY <3>1, <3>2, GuardKept
  <2>2. QED
    BY <2>1
<1>6. \A t \in Tab : TabHolding(t)'
  <2> TAKE t \in Tab
  <2>1. tab'[t] = tab[t] /\ late'[t] = late[t]
    BY LockClientsAssumption DEF Client
  <2>2. LeaseKept(tab[t].handle, tab[t].id)
    BY DEF LeaseKept, HeldAs, LockedUnexpired
  <2>3. QED
    BY <2>1, <2>2, TabKept
<1>7. QED
  BY <1>3, <1>4, <1>5, <1>6 DEF HoldersInv, IdsInv

LEMMA TabOnly ==
  ASSUME HoldersInv, ClientsInv', NEW t \in Tab, NEW s, NEW cs, TabMove(t, s, cs),
         TabHolding(t)'
  PROVE  HoldersInv'
<1> USE DEF TabMove, Sends
<1>1. tab \in [Tab -> TabState] /\ calls \in [Client -> SUBSET Call] /\ t \in Client
  BY DEF HoldersInv, ClientsInv, ClientState, Client
<1>2. /\ tab'[t] = s /\ calls'[t] = cs
      /\ \A u \in Tab \ {t} : tab'[u] = tab[u]
      /\ \A d \in Client \ {t} : calls'[d] = calls[d]
  BY <1>1
<1>3. t \notin Guard
  BY TabFacts
<1>4. IdsApart' /\ ReleasesForgotten'
  <2>1. IdOf(t)' = s.id /\ IdOf(t) = tab[t].id
    BY <1>2, <1>3 DEF IdOf
  <2>2. \A d \in Client \ {t} : IdOf(d)' = IdOf(d)
    BY <1>2 DEF IdOf, Client
  <2>3. IdOf(t)' \in {IdOf(t), NoId} /\ nextId' = nextId
    BY <2>1
  <2>4. \A n \in strays' \ strays : /\ n.id \in {NoId, IdOf(t)}
                                    /\ n.kind = "release" => n.id = NoId \/ IdOf(t)' = NoId
    BY <2>1
  <2>5. QED
    BY <1>1, <2>2, <2>3, <2>4, IdsStep
<1>5. CallsOwned'
  <2>1. \A g \in Guard : calls'[g] = calls[g]
    BY <1>2, <1>3 DEF Client
  <2>2. \A u \in Tab : \A k \in calls'[u] : k.kind = "acquire" /\ k.id = NoId
    BY <1>2 DEF HoldersInv, IdsInv, CallsOwned, Client
  <2>3. QED
    BY <2>1, <2>2 DEF HoldersInv, IdsInv, CallsOwned
<1>6. \A g \in Guard : GuardHolding(g)'
  <2> TAKE g \in Guard
  <2>1. guard'[g] = guard[g] /\ calls'[g] = calls[g] /\ late'[g] = late[g]
    BY <1>2, <1>3 DEF Client
  <2>2. LeaseKept(guard[g].entity, guard[g].id)
    BY DEF LeaseKept, HeldAs, LockedUnexpired
  <2>3. QED
    BY <2>1, <2>2, GuardKept
<1>7. \A u \in Tab : TabHolding(u)'
  <2> TAKE u \in Tab
  <2>1. CASE u # t
    <3>1. tab'[u] = tab[u] /\ late'[u] = late[u]
      BY <1>2, <2>1 DEF Client
    <3>2. LeaseKept(tab[u].handle, tab[u].id)
      BY DEF LeaseKept, HeldAs, LockedUnexpired
    <3>3. QED
      BY <3>1, <3>2, TabKept
  <2>2. QED
    BY <2>1
<1>8. QED
  BY <1>4, <1>5, <1>6, <1>7 DEF HoldersInv, IdsInv

(***************************************************************************)
(* The clients' own steps.                                                 *)
(***************************************************************************)

\* A guard that has no claim to a lease.
LEMMA NoClaim ==
  ASSUME NEW g \in Guard, guard'[g].beatIn < Ttl,
         guard'[g].hb = "renew" => calls'[g] # {},
         guard'[g].hb = "done" => guard'[g].at # "hold",
         guard'[g].at # "hold" \/ late'[g]
  PROVE  GuardHolding(g)'
  BY DEF GuardHolding

LEMMA ConstructHolds ==
  ASSUME HoldersInv, ClientsInv', NEW g \in Guard, NEW e \in Entity, Construct(g, e)
  PROVE  HoldersInv'
<1> DEFINE s == [NoGuard EXCEPT !.at = "acquire", !.entity = e]
           cs == {[kind |-> "acquire", entity |-> e, id |-> NoId, tries |-> 0]}
<1>1. g \in Client /\ guard[g].at = "none" /\ calls[g] = {} /\ guard' = [guard EXCEPT ![g] = s]
  BY GuardFacts DEF Construct, Phase
<1>2. /\ s.at = "acquire" /\ s.entity = e /\ s.id = NoId /\ s.hb = "off" /\ s.beatIn = 0
      /\ \A k \in cs : k.entity = e /\ k.id = NoId /\ k.kind = "acquire"
  BY DEF NoGuard
<1>3. calls' = [calls EXCEPT ![g] = cs]
  BY <1>1 DEF Construct, Send, HoldersInv, ClientsInv, ClientState
<1>4. /\ UNCHANGED <<locks, nextId, tab, strays>>
      /\ \A d \in Client \ {g} : late'[d] = late[d]
  BY DEF Construct, HoldersInv, ClientsInv
<1>5. guard'[g] = s
  BY <1>1 DEF HoldersInv, ClientsInv, ClientState
<1> HIDE DEF s, cs
<1>6. GuardHolding(g)'
  BY <1>2, <1>5, NoClaim, TtlClamp
<1>7. QED
  <2>1. GuardMove(g, s, cs)
    BY <1>1, <1>2, <1>3, <1>4, <1>6 DEF GuardMove, Sends
  <2>2. QED
    BY <2>1, <1>6, GuardOnly

LEMMA GuardStepHolds ==
  ASSUME HoldersInv, ClientsInv', NEW g \in Guard, GuardStep(g) \/ Destroy(g) \/ CrashGuard(g)
  PROVE  HoldersInv'
<1> DEFINE s == guard[g]
<1>1. /\ g \in Client /\ s \in GuardState /\ Phase(s, calls[g]) /\ GuardHolding(g)
      /\ s.beatIn \in Nat /\ s.beatIn < Ttl
      /\ \A k \in calls[g] : k.entity = s.entity /\ k.id = IF k.kind = "acquire" THEN NoId ELSE s.id
  BY GuardFacts, TtlClamp DEF GuardState, GuardHolding, HoldersInv, IdsInv, CallsOwned
<1>2. UNCHANGED <<locks, nextId, tab, late>>
  BY DEF GuardStep, HeartbeatTest, HeartbeatBlock, HeartbeatTimeout, Joined, Destroy, CrashGuard
<1>3. /\ guard \in [Guard -> GuardState] /\ calls \in [Client -> SUBSET Call]
      /\ calls = [calls EXCEPT ![g] = calls[g]]
  BY DEF HoldersInv, ClientsInv, ClientState
<1>4. ASSUME NEW to, NEW cs, guard' = [guard EXCEPT ![g] = to], calls' = [calls EXCEPT ![g] = cs],
             UNCHANGED strays, to.id = s.id,
             \A k \in cs : k.entity = to.entity /\ k.id = IF k.kind = "acquire" THEN NoId ELSE to.id,
             GuardHolding(g)'
      PROVE  HoldersInv'
  <2>1. GuardMove(g, to, cs)
    BY <1>2, <1>4 DEF GuardMove, Sends
  <2>2. QED
    BY <2>1, <1>4, GuardOnly
<1>5. ASSUME NEW to, guard' = [guard EXCEPT ![g] = to], UNCHANGED <<calls, strays>>,
              to.id = s.id, to.entity = s.entity, GuardHolding(g)'
       PROVE  HoldersInv'
  <2>1. calls' = [calls EXCEPT ![g] = calls[g]]
    BY <1>3, <1>5
  <2>2. \A k \in calls[g] : k.entity = to.entity /\ k.id = IF k.kind = "acquire" THEN NoId ELSE to.id
    BY <1>1, <1>5
  <2> HIDE DEF s
  <2>3. QED
    BY <1>4, <1>5, <2>1, <2>2
<1>6. CASE HeartbeatTest(g)
  <2> DEFINE to == [s EXCEPT !.hb = IF s.at = "stop" THEN "done" ELSE "enter"]
  <2>1. guard' = [guard EXCEPT ![g] = to] /\ guard'[g] = to /\ UNCHANGED <<calls, strays>>
    BY <1>3, <1>6 DEF HeartbeatTest
  <2>2. /\ to.id = s.id /\ to.entity = s.entity /\ to.at = s.at /\ to.beatIn = s.beatIn
        /\ to.hb = IF s.at = "stop" THEN "done" ELSE "enter"
    BY <1>1 DEF GuardState
  <2>3. s.hb = "test"
    BY <1>6 DEF HeartbeatTest
  <2> HIDE DEF to
  <2>4. GuardHolding(g)'
    BY <1>1, <1>2, <2>1, <2>2, <2>3 DEF GuardHolding, Beats, HeldAs, LockedUnexpired
  <2>5. QED
    BY <1>5, <2>1, <2>2, <2>4
<1>7. CASE HeartbeatBlock(g)
  <2> DEFINE to == [s EXCEPT !.hb = "wait"]
  <2>1. guard' = [guard EXCEPT ![g] = to] /\ guard'[g] = to /\ UNCHANGED <<calls, strays>>
    BY <1>3, <1>7 DEF HeartbeatBlock
  <2>2. /\ to.id = s.id /\ to.entity = s.entity /\ to.at = s.at /\ to.beatIn = s.beatIn
        /\ to.hb = "wait"
    BY <1>1 DEF GuardState
  <2>3. s.hb = "enter"
    BY <1>7 DEF HeartbeatBlock
  <2> HIDE DEF to
  <2>4. GuardHolding(g)'
    BY <1>1, <1>2, <2>1, <2>2, <2>3 DEF GuardHolding, Beats, HeldAs, LockedUnexpired
  <2>5. QED
    BY <1>5, <2>1, <2>2, <2>4
<1>8. CASE HeartbeatTimeout(g)
  <2>1. s.hb = "wait" /\ calls[g] = {} /\ UNCHANGED strays
    BY <1>1, <1>8 DEF HeartbeatTimeout, Phase, GuardState, Call, Kinds, HoldersInv, ClientsInv,
                      ClientState
  <2>2. CASE s.at = "stop"
    <3> DEFINE to == [s EXCEPT !.hb = "done"]
    <3>1. guard' = [guard EXCEPT ![g] = to] /\ guard'[g] = to /\ UNCHANGED calls
      BY <1>3, <1>8, <2>2 DEF HeartbeatTimeout
    <3>2. /\ to.id = s.id /\ to.entity = s.entity /\ to.at = "stop" /\ to.beatIn = s.beatIn
          /\ to.hb = "done"
      BY <1>1, <2>2 DEF GuardState
    <3> HIDE DEF to
    <3>3. GuardHolding(g)'
      BY <1>1, <3>1, <3>2, NoClaim
    <3>4. QED
      BY <1>5, <2>1, <3>1, <3>2, <3>3
  <2>3. CASE s.at # "stop"
    <3> DEFINE to == [s EXCEPT !.hb = "renew"]
               cs == {[kind |-> "renew", entity |-> s.entity, id |-> s.id, tries |-> 0]}
    <3>1. /\ guard' = [guard EXCEPT ![g] = to] /\ guard'[g] = to
          /\ calls' = [calls EXCEPT ![g] = cs] /\ calls'[g] = cs
      BY <1>1, <1>3, <1>8, <2>1, <2>3 DEF HeartbeatTimeout, Send
    <3>2. /\ to.id = s.id /\ to.entity = s.entity /\ to.at = s.at /\ to.beatIn = s.beatIn
          /\ to.hb = "renew"
      BY <1>1 DEF GuardState
    <3>3. cs # {} /\ \A k \in cs : k.entity = s.entity /\ k.id = s.id /\ k.kind = "renew"
      OBVIOUS
    <3> HIDE DEF to, cs
    <3>4. GuardHolding(g)'
      BY <1>1, <1>2, <2>1, <3>1, <3>2, <3>3 DEF GuardHolding, Beats, HeldAs, LockedUnexpired
    <3>5. \A k \in cs : k.entity = to.entity /\ k.id = IF k.kind = "acquire" THEN NoId ELSE to.id
      BY <3>2, <3>3
    <3> HIDE DEF s
    <3>6. QED
      BY <1>4, <2>1, <3>1, <3>2, <3>4, <3>5
  <2>4. QED
    BY <2>2, <2>3
<1>9. CASE Joined(g)
  <2> DEFINE to == [s EXCEPT !.at = "release"]
             cs == {[kind |-> "release", entity |-> s.entity, id |-> s.id, tries |-> 0]}
  <2>1. /\ s.at = "stop" /\ s.hb \in {"off", "done"} /\ UNCHANGED strays
        /\ calls[g] = {}
    BY <1>1, <1>9 DEF Joined, Phase, GuardState, Call, Kinds, HoldersInv, ClientsInv, ClientState
  <2>2. /\ guard' = [guard EXCEPT ![g] = to] /\ guard'[g] = to
        /\ calls' = [calls EXCEPT ![g] = cs] /\ calls'[g] = cs
    BY <1>1, <1>3, <1>9, <2>1 DEF Joined, Send
  <2>3. /\ to.id = s.id /\ to.entity = s.entity /\ to.at = "release" /\ to.beatIn = s.beatIn
        /\ to.hb = s.hb
    BY <1>1 DEF GuardState
  <2>4. \A k \in cs : k.entity = s.entity /\ k.id = s.id /\ k.kind = "release"
    OBVIOUS
  <2> HIDE DEF to, cs
  <2>5. GuardHolding(g)'
    BY <1>1, <2>1, <2>2, <2>3, NoClaim
  <2>6. \A k \in cs : k.entity = to.entity /\ k.id = IF k.kind = "acquire" THEN NoId ELSE to.id
    BY <2>3, <2>4
  <2> HIDE DEF s
  <2>7. QED
    BY <1>4, <2>1, <2>2, <2>3, <2>5, <2>6
<1>10. CASE Destroy(g)
  <2> DEFINE to == [s EXCEPT !.at = "stop", !.hb = IF @ = "wait" THEN "test" ELSE @]
  <2>1. guard' = [guard EXCEPT ![g] = to] /\ guard'[g] = to /\ UNCHANGED <<calls, strays>>
    BY <1>3, <1>10 DEF Destroy
  <2>2. /\ to.id = s.id /\ to.entity = s.entity /\ to.at = "stop" /\ to.beatIn = s.beatIn
        /\ to.hb = IF s.hb = "wait" THEN "test" ELSE s.hb
    BY <1>1 DEF GuardState
  <2> HIDE DEF to
  <2>3. GuardHolding(g)'
    BY <1>1, <2>1, <2>2, NoClaim DEF GuardHolding
  <2>4. QED
    BY <1>5, <2>1, <2>2, <2>3
<1>11. CASE CrashGuard(g)
  <2> DEFINE to == NoGuard
             cs == {}
  <2>1. /\ guard' = [guard EXCEPT ![g] = to] /\ guard'[g] = to
        /\ calls' = [calls EXCEPT ![g] = cs]
        /\ strays' = strays \cup {AsStray(k) : k \in calls[g]}
    BY <1>3, <1>11 DEF CrashGuard
  <2>2. /\ to.id = NoId /\ to.at = "none" /\ to.hb = "off" /\ to.beatIn = 0
        /\ \A k \in cs : k.entity = to.entity /\ k.id = IF k.kind = "acquire" THEN NoId ELSE to.id
    BY DEF NoGuard
  <2>3. \A n \in strays' \ strays : n.id \in {NoId, guard[g].id}
    BY <1>1, <2>1 DEF AsStray, Req
  <2> HIDE DEF to, cs
  <2>4. GuardHolding(g)'
    BY <2>1, <2>2, NoClaim, TtlClamp
  <2>5. strays \subseteq strays' /\ \A d \in Client \ {g} : late'[d] = late[d]
    BY <1>2, <2>1
  <2>6. QED
    <3>1. GuardMove(g, to, cs)
      BY <1>2, <2>1, <2>2, <2>3, <2>4, <2>5 DEF GuardMove, Sends
    <3>2. QED
      BY <3>1, <2>4, GuardOnly
<1>12. QED
  BY <1>6, <1>7, <1>8, <1>9, <1>10, <1>11 DEF GuardStep

LEMMA TabStepHolds ==
  ASSUME HoldersInv, ClientsInv', NEW t \in Tab, TabStep(t)
  PROVE  HoldersInv'
<1> DEFINE s == tab[t]
<1>1. /\ t \in Client /\ s \in TabState /\ TabHolding(t)
      /\ \A k \in calls[t] : k.kind = "acquire" /\ k.id = NoId
  BY TabFacts DEF HoldersInv, IdsInv, CallsOwned
<1>2. UNCHANGED <<locks, nextId, guard>>
  BY DEF TabStep, EditOn, EditOff, Unmount, ClosePage, OpenPage, TimerFires, SelectEntity
<1>3. /\ tab \in [Tab -> TabState] /\ tab = [tab EXCEPT ![t] = s]
      /\ calls \in [Client -> SUBSET Call] /\ calls = [calls EXCEPT ![t] = calls[t]]
  BY DEF HoldersInv, ClientsInv, ClientState
\* The page has given its lock up, if it had one.
<1>4. ASSUME NEW to, NEW cs, tab' = [tab EXCEPT ![t] = to], to.id = NoId, to.handle = Nowhere,
             calls' = [calls EXCEPT ![t] = cs],
             \A k \in cs : k.kind = "acquire" /\ k.id = NoId,
             \A d \in Client \ {t} : late'[d] = late[d],
             strays \subseteq strays', \A n \in strays' \ strays : n.id \in {NoId, s.id}
      PROVE  HoldersInv'
  <2>1. tab'[t] = to
    BY <1>3, <1>4
  <2>2. TabHolding(t)'
    BY <1>4, <2>1 DEF TabHolding
  <2>3. QED
    <3>1. TabMove(t, to, cs)
      BY <1>2, <1>4, <2>2 DEF TabMove, Sends
    <3>2. QED
      BY <3>1, <2>2, TabOnly
<1>5. ASSUME NEW to, NEW path, tab' = [tab EXCEPT ![t] = to], to.id = NoId, to.handle = Nowhere,
             ReleaseAt(t, path), UNCHANGED <<calls, late>>
      PROVE  HoldersInv'
  <2>1. strays \subseteq strays' /\ \A n \in strays' \ strays : n.id \in {NoId, s.id}
    BY <1>5 DEF ReleaseAt, Req
  <2>2. calls' = [calls EXCEPT ![t] = calls[t]]
    BY <1>3, <1>5
  <2> HIDE DEF s
  <2>3. QED
    BY <1>1, <1>4, <1>5, <2>1, <2>2
<1>6. Released(s).id = NoId /\ Released(s).handle = Nowhere
  BY <1>1 DEF Released, TabState
<1>7. CASE EditOn(t)
  <2> DEFINE cs == calls[t] \cup
               {[kind |-> "acquire", entity |-> s.path, id |-> NoId, tries |-> 0]}
  <2>1. s.id = NoId /\ s.handle = Nowhere
    BY <1>1, <1>7 DEF EditOn, TabHolding
  <2>2. calls' = [calls EXCEPT ![t] = cs] /\ tab' = [tab EXCEPT ![t] = s]
    BY <1>3, <1>7 DEF EditOn, Send
  <2>3. \A d \in Client \ {t} : late'[d] = late[d]
    BY <1>7 DEF EditOn, HoldersInv, ClientsInv
  <2>4. \A k \in cs : k.kind = "acquire" /\ k.id = NoId
    BY <1>1
  <2>5. strays' = strays
    BY <1>7 DEF EditOn
  <2> HIDE DEF s, cs
  <2>6. QED
    BY <1>4, <2>1, <2>2, <2>3, <2>4, <2>5
<1>8. CASE EditOff(t)
  <2>1. ReleaseAt(t, s.path) /\ tab' = [tab EXCEPT ![t] = Released(s)] /\ UNCHANGED <<calls, late>>
    BY <1>8 DEF EditOff
  <2>2. QED
    BY <1>5, <1>6, <2>1
<1>9. CASE Unmount(t)
  <2> DEFINE to == [Released(s) EXCEPT !.at = "unmounted"]
  <2>1. ReleaseAt(t, s.path) /\ tab' = [tab EXCEPT ![t] = to] /\ UNCHANGED <<calls, late>>
    BY <1>9 DEF Unmount
  <2>2. to.id = NoId /\ to.handle = Nowhere
    BY <1>1 DEF Released, TabState
  <2> HIDE DEF to
  <2>3. QED
    BY <1>5, <2>1, <2>2
<1>10. ASSUME NEW e \in Entity, SelectEntity(t, e)
       PROVE  HoldersInv'
  <2> DEFINE to == [Released(s) EXCEPT !.path = e]
  <2>1. ReleaseAt(t, e) /\ tab' = [tab EXCEPT ![t] = to] /\ UNCHANGED <<calls, late>>
    BY <1>10 DEF SelectEntity
  <2>2. to.id = NoId /\ to.handle = Nowhere
    BY <1>1 DEF Released, TabState
  <2> HIDE DEF to
  <2>3. QED
    BY <1>5, <2>1, <2>2
<1>11. CASE ClosePage(t)
  <2> DEFINE to == NoTab
             cs == {}
  <2>1. /\ tab' = [tab EXCEPT ![t] = to] /\ calls' = [calls EXCEPT ![t] = cs] /\ late' = late
        /\ to.id = NoId /\ to.handle = Nowhere
        /\ \A k \in cs : k.kind = "acquire" /\ k.id = NoId
    BY <1>11 DEF ClosePage, NoTab
  <2>2. strays \subseteq strays' /\ \A n \in strays' \ strays : n.id \in {NoId, s.id}
    <3>1. CASE ReleaseAt(t, s.path)
      BY <3>1 DEF ReleaseAt, Req
    <3>2. CASE strays' = strays \cup {AsStray(k) : k \in calls[t]}
      BY <1>1, <3>2 DEF AsStray, Req
    <3>3. QED
      BY <1>11, <3>1, <3>2 DEF ClosePage
  <2>3. \A d \in Client \ {t} : late'[d] = late[d]
    BY <2>1
  <2> HIDE DEF s, to, cs
  <2>4. QED
    BY <1>4, <2>1, <2>2, <2>3
<1>12. ASSUME NEW e \in Entity, OpenPage(t, e)
       PROVE  HoldersInv'
  <2> DEFINE to == [NoTab EXCEPT !.at = "mounted", !.path = e]
  <2>1. tab' = [tab EXCEPT ![t] = to] /\ UNCHANGED <<calls, late, strays>>
    BY <1>12 DEF OpenPage
  <2>2. to.id = NoId /\ to.handle = Nowhere
    BY DEF NoTab
  <2>3. calls' = [calls EXCEPT ![t] = calls[t]]
    BY <1>3, <2>1
  <2> HIDE DEF s, to
  <2>4. QED
    BY <1>1, <1>4, <2>1, <2>2, <2>3
<1>13. ASSUME NEW e \in Entity, TimerFires(t, e)
       PROVE  HoldersInv'
  <2> DEFINE to == [s EXCEPT !.due = @ \ {e}]
  <2>1. /\ tab' = [tab EXCEPT ![t] = to] /\ tab'[t] = to /\ UNCHANGED <<calls, late>>
        /\ strays' = strays \cup (IF s.id = NoId THEN {} ELSE {Req("renew", e, s.id)})
    BY <1>3, <1>13 DEF TimerFires
  <2>2. to.id = s.id /\ to.handle = s.handle /\ to.due = s.due \ {e}
    BY <1>1 DEF TabState
  <2>3. strays \subseteq strays' /\ \A n \in strays' \ strays : n.id = s.id /\ n.kind = "renew"
    BY <2>1 DEF Req
  <2> DEFINE cs == calls[t]
  <2>4. calls' = [calls EXCEPT ![t] = cs] /\ \A k \in cs : k.kind = "acquire" /\ k.id = NoId
    BY <1>1, <1>3, <2>1
  <2> HIDE DEF to
  <2>5. TabHolding(t)'
    <3>1. to.handle = Nowhere <=> to.id = NoId
      BY <1>1, <2>2 DEF TabHolding
    <3>2. ASSUME to.handle # Nowhere, ~late'[t]
          PROVE  /\ locks[to.handle].left > 0 /\ locks[to.handle].id = to.id
                 /\ \/ locks[to.handle].left > 1 \/ to.handle \in to.due
                    \/ Req("renew", to.handle, to.id) \in strays'
      BY <1>1, <2>1, <2>2, <3>2 DEF TabHolding, HeldAs, LockedUnexpired
    <3>3. Req("renew", tab[t].handle, tab[t].id)' = Req("renew", to.handle, to.id)
      BY <2>1 DEF Req
    <3>4. QED
      BY <1>2, <2>1, <3>1, <3>2, <3>3 DEF TabHolding, HeldAs, LockedUnexpired
  <2>6. /\ to.id \in {tab[t].id, NoId}
        /\ \A d \in Client \ {t} : late'[d] = late[d]
        /\ \A n \in strays' \ strays : /\ n.id \in {NoId, tab[t].id}
                                       /\ n.kind = "release" => n.id = NoId \/ to.id = NoId
    BY <2>1, <2>2, <2>3
  <2> HIDE DEF cs
  <2>7. QED
    <3>1. TabMove(t, to, cs)
      BY <1>2, <2>1, <2>3, <2>4, <2>5, <2>6 DEF TabMove, Sends
    <3>2. QED
      BY <3>1, <2>5, TabOnly
<1>14. QED
  BY <1>7, <1>8, <1>9, <1>10, <1>11, <1>12, <1>13 DEF TabStep

(***************************************************************************)
(* Answers, and the lack of them.                                          *)
(***************************************************************************)

\* A guard waits for one answer only.
LEMMA GuardCall ==
  ASSUME HoldersInv, NEW g \in Guard, NEW k \in calls[g]
  PROVE  /\ k \in Call /\ calls[g] \ {k} = {}
         /\ k.entity = guard[g].entity
         /\ k.id = IF k.kind = "acquire" THEN NoId ELSE guard[g].id
         /\ k.kind = "renew" => guard[g].hb = "renew"
         /\ k.kind # "renew" => guard[g].at # "hold"
         /\ k.kind \in Kinds
  BY GuardFacts DEF Phase, Call, Kinds, HoldersInv, IdsInv, CallsOwned

\* A client that gets no answer, or is refused for good, is late.
LEMMA UnansweredHolds ==
  ASSUME HoldersInv, ClientsInv', NEW c \in Client, NEW k \in calls[c],
         Return(c, k, FALSE, NoId), late' = [late EXCEPT ![c] = TRUE],
         UNCHANGED <<locks, nextId>>,
         strays \subseteq strays', strays' \subseteq strays \cup {AsStray(k)}
  PROVE  HoldersInv'
<1>1. late'[c] /\ \A d \in Client \ {c} : late'[d] = late[d]
  BY DEF HoldersInv, ClientsInv
<1>2. /\ guard \in [Guard -> GuardState] /\ tab \in [Tab -> TabState]
      /\ calls \in [Client -> SUBSET Call]
  BY DEF HoldersInv, ClientsInv, ClientState
<1>3. \A n \in strays' \ strays : n.id = k.id /\ n.kind = k.kind
  BY DEF AsStray, Req
<1> DEFINE cs == calls[c] \ {k}
<1>4. calls' = [calls EXCEPT ![c] = cs]
  BY DEF Return
<1>5. CASE c \in Guard
  <2>1. /\ calls[c] \ {k} = {} /\ k.id = IF k.kind = "acquire" THEN NoId ELSE guard[c].id
        /\ k.kind = "renew" => guard[c].hb = "renew"
        /\ k.kind \in Kinds
    BY <1>5, GuardCall
  <2>2. cs = {}
    BY <2>1
  <2>3. GuardReturn(c, k, FALSE, NoId) /\ UNCHANGED <<locks, nextId, tab>>
    BY <1>5, TabFacts DEF Return
  <2>4. \A n \in strays' \ strays : n.id \in {NoId, guard[c].id}
    BY <1>3, <2>1
  <2> HIDE DEF cs
  <2>5. CASE k.kind = "renew"
    <3> DEFINE to == [guard[c] EXCEPT !.hb = "test", !.beatIn = BeatInterval]
    <3>1. guard' = [guard EXCEPT ![c] = to] /\ guard'[c] = to
      BY <1>2, <1>5, <2>3, <2>5 DEF GuardReturn
    <3>2. to.id = guard[c].id /\ to.beatIn = BeatInterval /\ to.hb = "test"
      BY <1>2, <1>5 DEF GuardState
    <3> HIDE DEF to
    <3>3. GuardHolding(c)'
      BY <1>1, <1>5, <3>1, <3>2, NoClaim, TtlClamp
    <3>4. /\ to.id \in {guard[c].id, NoId}
          /\ \A j \in cs : j.entity = to.entity /\ j.id = IF j.kind = "acquire" THEN NoId ELSE to.id
      BY <2>2, <3>2
    <3>5. \A n \in strays' \ strays : /\ n.id \in {NoId, guard[c].id}
                                      /\ n.kind = "release" => n.id = NoId \/ to.id = NoId
      BY <1>3, <2>4, <2>5
    <3>6. QED
      <4>1. GuardMove(c, to, cs)
        BY <1>1, <1>4, <1>5, <2>3, <3>1, <3>3, <3>4, <3>5 DEF GuardMove, Sends
      <4>2. QED
        BY <4>1, <3>3, <1>5, GuardOnly
  <2>6. CASE k.kind # "renew"
    <3> DEFINE to == NoGuard
    <3>1. guard' = [guard EXCEPT ![c] = to] /\ guard'[c] = to
      BY <1>2, <1>5, <2>3, <2>6 DEF GuardReturn
    <3>2. to.id = NoId /\ to.beatIn = 0 /\ to.hb = "off"
      BY DEF NoGuard
    <3> HIDE DEF to
    <3>3. GuardHolding(c)'
      BY <1>1, <1>5, <3>1, <3>2, NoClaim, TtlClamp
    <3>4. /\ to.id \in {guard[c].id, NoId}
          /\ \A j \in cs : j.entity = to.entity /\ j.id = IF j.kind = "acquire" THEN NoId ELSE to.id
      BY <2>2, <3>2
    <3>5. \A n \in strays' \ strays : /\ n.id \in {NoId, guard[c].id}
                                      /\ n.kind = "release" => n.id = NoId \/ to.id = NoId
      BY <2>4, <3>2
    <3>6. QED
      <4>1. GuardMove(c, to, cs)
        BY <1>1, <1>4, <1>5, <2>3, <3>1, <3>3, <3>4, <3>5 DEF GuardMove, Sends
      <4>2. QED
        BY <4>1, <3>3, <1>5, GuardOnly
  <2>7. QED
    BY <2>5, <2>6
<1>6. CASE c \in Tab
  <2> DEFINE to == tab[c]
  <2>1. tab' = [tab EXCEPT ![c] = to] /\ UNCHANGED guard /\ tab'[c] = to
    BY <1>2, <1>6, TabFacts DEF Return, TabReturn
  <2>2. /\ \A j \in cs : j.kind = "acquire" /\ j.id = NoId
        /\ \A n \in strays' \ strays : n.id = NoId /\ n.kind = "acquire"
    BY <1>3, <1>6 DEF HoldersInv, IdsInv, CallsOwned
  <2>3. TabHolding(c)'
    BY <1>1, <1>6, <2>1, TabFacts DEF TabHolding
  <2>4. /\ to.id \in {tab[c].id, NoId}
        /\ \A n \in strays' \ strays : /\ n.id \in {NoId, tab[c].id}
                                       /\ n.kind = "release" => n.id = NoId \/ to.id = NoId
    BY <2>2
  <2> HIDE DEF to, cs
  <2>5. QED
    <3>1. TabMove(c, to, cs)
      BY <1>1, <1>4, <1>6, <2>1, <2>2, <2>3, <2>4 DEF TabMove, Sends
    <3>2. QED
      BY <3>1, <2>3, <1>6, TabOnly
<1>7. QED
  BY <1>5, <1>6 DEF Client

\* A request that is tried again is still the client's.
LEMMA RetryHolds ==
  ASSUME HoldersInv, ClientsInv', NEW c \in Client, NEW k \in calls[c],
         calls' = [calls EXCEPT ![c] = (@ \ {k}) \cup {[k EXCEPT !.tries = @ + 1]}],
         UNCHANGED <<locks, nextId, guard, tab, strays, late>>
  PROVE  HoldersInv'
<1> DEFINE retry == [k EXCEPT !.tries = @ + 1]
           cs == (calls[c] \ {k}) \cup {retry}
<1>1. /\ guard \in [Guard -> GuardState] /\ tab \in [Tab -> TabState]
      /\ calls \in [Client -> SUBSET Call]
  BY DEF HoldersInv, ClientsInv, ClientState
<1>2. retry.kind = k.kind /\ retry.entity = k.entity /\ retry.id = k.id
  BY <1>1 DEF Call
<1>3. calls' = [calls EXCEPT ![c] = cs] /\ calls'[c] = cs /\ cs # {}
  BY <1>1
<1>4. /\ strays \subseteq strays' /\ \A n \in strays' \ strays : FALSE
      /\ \A d \in Client \ {c} : late'[d] = late[d]
  OBVIOUS
<1>5. CASE c \in Guard
  <2> DEFINE to == guard[c]
  <2>1. guard' = [guard EXCEPT ![c] = to]
    BY <1>1
  <2>2. \A j \in cs : j.entity = to.entity /\ j.id = IF j.kind = "acquire" THEN NoId ELSE to.id
    <3>1. /\ calls[c] \ {k} = {} /\ k.entity = to.entity
          /\ k.id = IF k.kind = "acquire" THEN NoId ELSE to.id
      BY <1>5, GuardCall
    <3> HIDE DEF retry, to
    <3>2. cs = {retry}
      BY <3>1
    <3>3. QED
      BY Zenon, <1>2, <3>1, <3>2
  <2>3. GuardHolding(c)'
    <3>1. LeaseKept(guard[c].entity, guard[c].id)
      BY DEF LeaseKept, HeldAs, LockedUnexpired
    <3>2. QED
      BY <1>3, <1>5, <3>1, GuardKept
  <2>4. /\ to.id \in {guard[c].id, NoId} /\ UNCHANGED <<locks, nextId, tab>>
        /\ \A n \in strays' \ strays : /\ n.id \in {NoId, guard[c].id}
                                       /\ n.kind = "release" => n.id = NoId \/ to.id = NoId
    BY <1>4
  <2> HIDE DEF to, cs
  <2>5. QED
    <3>1. GuardMove(c, to, cs)
      BY <1>3, <1>4, <1>5, <2>1, <2>2, <2>3, <2>4 DEF GuardMove, Sends
    <3>2. QED
      BY <3>1, <2>3, <1>5, GuardOnly
<1>6. CASE c \in Tab
  <2> DEFINE to == tab[c]
  <2>1. tab' = [tab EXCEPT ![c] = to]
    BY <1>1
  <2>2. \A j \in cs : j.kind = "acquire" /\ j.id = NoId
    BY <1>2, <1>6 DEF HoldersInv, IdsInv, CallsOwned
  <2>3. TabHolding(c)'
    <3>1. LeaseKept(tab[c].handle, tab[c].id)
      BY DEF LeaseKept, HeldAs, LockedUnexpired
    <3>2. QED
      BY <1>6, <3>1, TabKept
  <2>4. /\ to.id \in {tab[c].id, NoId} /\ UNCHANGED <<locks, nextId, guard>>
        /\ \A n \in strays' \ strays : /\ n.id \in {NoId, tab[c].id}
                                       /\ n.kind = "release" => n.id = NoId \/ to.id = NoId
    BY <1>4
  <2> HIDE DEF to, cs
  <2>5. QED
    <3>1. TabMove(c, to, cs)
      BY <1>3, <1>4, <1>6, <2>1, <2>2, <2>3, <2>4 DEF TabMove, Sends
    <3>2. QED
      BY <3>1, <2>3, <1>6, TabOnly
<1>7. QED
  BY <1>5, <1>6 DEF Client

\* Serving one client's request leaves the other clients' leases alone.
LEMMA OthersKept ==
  ASSUME HoldersInv, NEW c \in Client, NEW k \in calls[c], Serve(k),
         NEW d \in Client \ {c}, NEW e \in Entity
  PROVE  LeaseKept(e, IdOf(d))
<1>1. CASE IdOf(d) = NoId
  BY <1>1, HeldEntry DEF LeaseKept, HoldersInv, ClientsInv
<1>2. CASE IdOf(d) # NoId
  <2>1. k.kind = "release" => k.id # IdOf(d)
    <3>1. CASE c \in Guard
      BY <1>2, <3>1, GuardCall, GuardFacts DEF HoldersInv, IdsInv, IdsApart
    <3>2. CASE c \in Tab
      BY <3>2 DEF HoldersInv, IdsInv, CallsOwned
    <3>3. QED
      BY <3>1, <3>2 DEF Client
  <2>2. QED
    BY <2>1, ServedLease DEF HoldersInv, ClientsInv
<1>3. QED
  BY <1>1, <1>2

LEMMA ServedIds ==
  ASSUME NEW k, Serve(k)
  PROVE  nextId' = IF k.kind = "acquire" /\ Granted(k) THEN nextId + 1 ELSE nextId
  BY DEF Serve, Granted, Acquire, AcquireConflict, Renew, Release, lockVars

\* What the others see of an answer.
LEMMA AnswerOthers ==
  ASSUME HoldersInv, NEW c \in Client, NEW k \in calls[c], Answer(c, k)
  PROVE  /\ \A g \in Guard \ {c} : GuardHolding(g)'
         /\ \A t \in Tab \ {c} : TabHolding(t)'
         /\ \A d \in Client \ {c} : IdOf(d)' = IdOf(d) /\ calls'[d] = calls[d]
         /\ calls'[c] = calls[c] \ {k}
<1>1. /\ guard \in [Guard -> GuardState] /\ tab \in [Tab -> TabState]
      /\ calls \in [Client -> SUBSET Call]
  BY DEF HoldersInv, ClientsInv, ClientState
<1>2. calls'[c] = calls[c] \ {k} /\ \A d \in Client \ {c} : calls'[d] = calls[d]
  BY <1>1 DEF Answer, Return
<1>3. /\ \A g \in Guard \ {c} : guard'[g] = guard[g]
      /\ \A t \in Tab \ {c} : tab'[t] = tab[t]
  BY <1>1 DEF Answer, Return, GuardReturn, TabReturn
<1>4. ASSUME NEW g \in Guard \ {c}
      PROVE  GuardHolding(g)'
  <2>1. guard[g].entity \in Entity => LeaseKept(guard[g].entity, guard[g].id)
    <3>1. g \in Client \ {c} /\ IdOf(g) = guard[g].id /\ Serve(k)
      BY GuardFacts DEF Answer
    <3>2. guard[g].entity \in Entity => LeaseKept(guard[g].entity, IdOf(g))
      BY <3>1, OthersKept
    <3>3. QED
      BY <3>1, <3>2
  <2>2. QED
    BY <1>2, <1>3, <2>1, GuardFacts, GuardKept DEF Answer
<1>5. ASSUME NEW t \in Tab \ {c}
      PROVE  TabHolding(t)'
  <2>1. tab[t].handle \in Entity => LeaseKept(tab[t].handle, tab[t].id)
    <3>1. t \in Client \ {c} /\ IdOf(t) = tab[t].id /\ Serve(k)
      BY TabFacts DEF Answer
    <3>2. tab[t].handle \in Entity => LeaseKept(tab[t].handle, IdOf(t))
      BY <3>1, OthersKept
    <3>3. QED
      BY <3>1, <3>2
  <2>2. QED
    BY <1>3, <2>1, TabKept DEF Answer
<1>6. \A d \in Client \ {c} : IdOf(d)' = IdOf(d)
  BY <1>3 DEF IdOf, Client
<1>7. QED
  BY <1>2, <1>4, <1>5, <1>6

LEMMA GuardAnswered ==
  ASSUME HoldersInv, ClientsInv', NEW g \in Guard, NEW k \in calls[g], Answer(g, k)
  PROVE  HoldersInv'
<1>1. /\ k \in Call /\ calls'[g] = {} /\ k.entity = guard[g].entity
      /\ k.id = IF k.kind = "acquire" THEN NoId ELSE guard[g].id
      /\ k.kind = "renew" => guard[g].hb = "renew"
      /\ k.kind \in Kinds /\ g \in Client /\ g \notin Tab /\ IdOf(g) = guard[g].id
      /\ guard \in [Guard -> GuardState]
  BY GuardCall, GuardFacts, AnswerOthers DEF HoldersInv, ClientsInv, ClientState
<1>2. /\ GuardReturn(g, k, Granted(k), IF k.kind = "acquire" THEN nextId ELSE k.id)
      /\ Serve(k) /\ UNCHANGED <<tab, strays, late>>
  BY <1>1 DEF Answer, Return
<1>3. /\ GuardHolding(g)'
      /\ \/ guard'[g].id \in {guard[g].id, NoId} /\ nextId' = nextId
         \/ guard'[g].id = nextId /\ nextId' = nextId + 1
  <2>1. CASE k.kind = "acquire" /\ Granted(k)
    <3> DEFINE to(hb) == [guard[g] EXCEPT !.at = "hold", !.id = nextId, !.hb = hb,
                                          !.beatIn = BeatInterval]
    <3>1. PICK hb \in {"off", "test"} : guard'[g] = to(hb)
      BY <1>1, <1>2, <2>1 DEF GuardReturn
    <3>2. /\ to(hb).at = "hold" /\ to(hb).id = nextId /\ to(hb).hb = hb
          /\ to(hb).beatIn = BeatInterval /\ to(hb).entity = k.entity
      BY <1>1 DEF GuardState
    <3> HIDE DEF to
    <3>3. nextId' = nextId + 1 /\ locks'[k.entity] = [id |-> nextId, left |-> Ttl]
      BY <1>1, <1>2, <2>1, GrantedLease DEF HoldersInv, ClientsInv
    <3>4. GuardHolding(g)'
      BY <3>1, <3>2, <3>3, TtlClamp DEF GuardHolding, HeldAs, LockedUnexpired, Beats
    <3>5. QED
      BY <3>1, <3>2, <3>3, <3>4
  <2>2. CASE k.kind = "release" \/ (k.kind = "acquire" /\ ~Granted(k))
    <3>1. guard'[g] = NoGuard
      BY <1>1, <1>2, <2>2 DEF GuardReturn
    <3>2. NoGuard.id = NoId /\ NoGuard.at = "none" /\ NoGuard.hb = "off" /\ NoGuard.beatIn = 0
      BY DEF NoGuard
    <3>3. GuardHolding(g)'
      BY <3>1, <3>2, NoClaim, TtlClamp
    <3>4. QED
      BY <1>2, <2>2, <3>1, <3>2, <3>3, ServedIds
  <2>3. CASE k.kind = "renew"
    <3> DEFINE to == [guard[g] EXCEPT !.hb = "test", !.beatIn = BeatInterval]
    <3>1. guard'[g] = to
      BY <1>1, <1>2, <2>3 DEF GuardReturn
    <3>2. /\ to.at = guard[g].at /\ to.id = guard[g].id /\ to.hb = "test"
          /\ to.beatIn = BeatInterval /\ to.entity = guard[g].entity
      BY <1>1 DEF GuardState
    <3> HIDE DEF to
    <3>3. ASSUME guard[g].at = "hold", ~late[g]
          PROVE  /\ locks'[guard[g].entity].id = guard[g].id
                 /\ locks'[guard[g].entity].left = Ttl
      <4>1. HeldAs(k.entity, k.id) /\ k.entity \in Entity
        BY <1>1, <2>3, <3>3, GuardFacts DEF GuardHolding
      <4>2. LeaseKept(k.entity, k.id) /\ locks'[k.entity].left = Ttl
        BY <1>2, <2>3, <4>1, ServedLease DEF HoldersInv, ClientsInv
      <4>3. QED
        BY <1>1, <2>3, <4>1, <4>2 DEF LeaseKept
    <3>4. GuardHolding(g)'
      BY <1>2, <3>1, <3>2, <3>3, TtlClamp DEF GuardHolding, HeldAs, LockedUnexpired, Beats
    <3>5. QED
      BY <1>2, <2>3, <3>1, <3>2, <3>4, ServedIds
  <2>4. QED
    BY <1>1, <2>1, <2>2, <2>3 DEF Kinds
<1>4. IdsApart' /\ ReleasesForgotten'
  <2>1. IdOf(g)' = guard'[g].id
    BY DEF IdOf
  <2>2. \A s \in strays' \ strays : /\ s.id \in {NoId, IdOf(g)}
                                    /\ s.kind = "release" => s.id = NoId \/ IdOf(g)' = NoId
    BY <1>2
  <2>3. QED
    BY <1>1, <1>3, <2>1, <2>2, AnswerOthers, IdsStep
<1>5. CallsOwned'
  <2>1. \A h \in Guard \ {g} : guard'[h] = guard[h] /\ calls'[h] = calls[h]
    BY <1>1, <1>2, AnswerOthers DEF GuardReturn, Client
  <2>2. \A t \in Tab : calls'[t] = calls[t]
    BY <1>1, AnswerOthers DEF Client
  <2>3. QED
    BY <1>1, <2>1, <2>2 DEF HoldersInv, IdsInv, CallsOwned
<1>6. (\A h \in Guard : GuardHolding(h)') /\ (\A t \in Tab : TabHolding(t)')
  BY <1>1, <1>3, AnswerOthers
<1>7. QED
  BY <1>4, <1>5, <1>6 DEF HoldersInv, IdsInv

LEMMA TabAnswered ==
  ASSUME HoldersInv, ClientsInv', NEW t \in Tab, NEW k \in calls[t], Answer(t, k)
  PROVE  HoldersInv'
<1>1. /\ k \in Call /\ calls'[t] = calls[t] \ {k} /\ k.kind = "acquire" /\ k.id = NoId
      /\ t \in Client /\ t \notin Guard /\ IdOf(t) = tab[t].id
      /\ tab \in [Tab -> TabState] /\ k.entity \in Entity
  BY TabFacts, AnswerOthers DEF HoldersInv, ClientsInv, ClientState, IdsInv, CallsOwned, Call
<1>2. /\ TabReturn(t, k, Granted(k), nextId)
      /\ Serve(k) /\ UNCHANGED <<guard, strays, late>>
  BY <1>1 DEF Answer, Return
<1>3. /\ TabHolding(t)'
      /\ \/ tab'[t].id \in {tab[t].id, NoId} /\ nextId' = nextId
         \/ tab'[t].id = nextId /\ nextId' = nextId + 1
  <2>1. CASE Granted(k)
    <3>1. tab'[t] = [tab[t] EXCEPT !.id = nextId, !.handle = k.entity,
                                   !.leaked = @ \cup ({tab[t].handle} \ {Nowhere})]
      BY <1>1, <1>2, <2>1 DEF TabReturn
    <3>2. tab'[t].id = nextId /\ tab'[t].handle = k.entity
      BY <1>1, <3>1 DEF TabState
    <3>3. /\ nextId' = nextId + 1 /\ locks'[k.entity] = [id |-> nextId, left |-> Ttl]
          /\ nextId # NoId /\ k.entity # Nowhere
      BY <1>1, <1>2, <2>1, GrantedLease, ClientIds, LockClientsAssumption
         DEF HoldersInv, ClientsInv, NoId
    <3>4. TabHolding(t)'
      BY <3>2, <3>3, TtlClamp DEF TabHolding, HeldAs, LockedUnexpired
    <3>5. QED
      BY <3>2, <3>3, <3>4
  <2>2. CASE ~Granted(k)
    <3>1. tab' = tab /\ UNCHANGED <<locks, nextId>>
      BY <1>1, <1>2, <2>2 DEF TabReturn, Serve, Granted, Acquire, AcquireConflict, lockVars
    <3>2. LeaseKept(tab[t].handle, tab[t].id)
      BY <3>1 DEF LeaseKept, HeldAs, LockedUnexpired
    <3>3. TabHolding(t)'
      BY <1>2, <3>1, <3>2, TabKept
    <3>4. QED
      BY <3>1, <3>3
  <2>3. QED
    BY <2>1, <2>2
<1>4. IdsApart' /\ ReleasesForgotten'
  <2>1. IdOf(t)' = tab'[t].id
    BY <1>1 DEF IdOf
  <2>2. \A s \in strays' \ strays : /\ s.id \in {NoId, IdOf(t)}
                                    /\ s.kind = "release" => s.id = NoId \/ IdOf(t)' = NoId
    BY <1>2
  <2>3. QED
    BY <1>1, <1>3, <2>1, <2>2, AnswerOthers, IdsStep
<1>5. CallsOwned'
  <2>1. \A u \in Tab \ {t} : calls'[u] = calls[u]
    BY AnswerOthers DEF Client
  <2>2. \A g \in Guard : calls'[g] = calls[g]
    BY <1>1, AnswerOthers DEF Client
  <2>3. QED
    BY <1>1, <1>2, <2>1, <2>2 DEF HoldersInv, IdsInv, CallsOwned
<1>6. (\A g \in Guard : GuardHolding(g)') /\ (\A u \in Tab : TabHolding(u)')
  BY <1>1, <1>3, AnswerOthers
<1>7. QED
  BY <1>4, <1>5, <1>6 DEF HoldersInv, IdsInv

LEMMA NetworkStepHolds ==
  ASSUME HoldersInv, ClientsInv', NEW c \in Client, NetworkStep(c)
  PROVE  HoldersInv'
<1>1. PICK k \in calls[c] : Answer(c, k) \/ AnswerBusy(c, k) \/ LoseAnswer(c, k)
  BY DEF NetworkStep
<1>2. CASE Answer(c, k)
  BY <1>2, GuardAnswered, TabAnswered DEF Client
<1>3. CASE AnswerBusy(c, k)
  <2>1. UNCHANGED <<locks, nextId, strays>>
    BY <1>3 DEF AnswerBusy
  <2>2. CASE /\ calls' = [calls EXCEPT ![c] = (@ \ {k}) \cup {[k EXCEPT !.tries = @ + 1]}]
             /\ UNCHANGED <<guard, tab, late>>
    BY <2>1, <2>2, RetryHolds
  <2>3. CASE Return(c, k, FALSE, NoId) /\ late' = [late EXCEPT ![c] = TRUE]
    BY <2>1, <2>3, UnansweredHolds
  <2>4. QED
    BY <1>3, <2>2, <2>3 DEF AnswerBusy
<1>4. CASE LoseAnswer(c, k)
  <2>1. /\ UNCHANGED <<locks, nextId>> /\ strays' = strays \cup {AsStray(k)}
        /\ Return(c, k, FALSE, NoId) /\ late' = [late EXCEPT ![c] = TRUE]
    BY <1>4 DEF LoseAnswer
  <2>2. strays \subseteq strays' /\ strays' \subseteq strays \cup {AsStray(k)}
    BY <2>1
  <2>3. QED
    BY <2>1, <2>2, UnansweredHolds
<1>5. QED
  BY <1>1, <1>2, <1>3, <1>4

\* Fewer strays, and perhaps more ids handed out.
LEMMA IdsKept ==
  ASSUME HoldersInv, UNCHANGED <<guard, tab, calls>>, strays' \subseteq strays,
         nextId' = nextId \/ nextId' = nextId + 1
  PROVE  IdsInv'
<1>1. \A c \in Client : IdOf(c)' = IdOf(c)
  BY DEF IdOf
<1>2. IdsApart'
  BY <1>1, ClientIds DEF HoldersInv, IdsInv, IdsApart
<1>3. ReleasesForgotten'
  BY <1>1 DEF HoldersInv, IdsInv, ReleasesForgotten
<1>4. CallsOwned'
  BY DEF HoldersInv, IdsInv, CallsOwned
<1>5. QED
  BY <1>2, <1>3, <1>4 DEF IdsInv

LEMMA StrayStepHolds ==
  ASSUME HoldersInv, ClientsInv', NEW s \in strays, ServeStray(s) \/ DropStray(s)
  PROVE  HoldersInv'
<1>1. UNCHANGED <<guard, tab, calls>> /\ strays' = strays \ {s}
  BY DEF ServeStray, DropStray
<1>2. \A c \in Client : late[c] => late'[c]
  BY DEF ServeStray, DropStray
<1>3. nextId' = nextId \/ nextId' = nextId + 1
  BY ServedIds DEF ServeStray, DropStray
<1>4. ASSUME NEW c \in Client, NEW e \in Entity
      PROVE  /\ LeaseKept(e, IdOf(c))
             /\ ServeStray(s) /\ s = Req("renew", e, IdOf(c)) /\ HeldAs(e, IdOf(c)) =>
                  locks'[e].left = Ttl
  <2>1. CASE ServeStray(s) /\ IdOf(c) # NoId
    <3>1. s.kind = "release" => s.id # IdOf(c)
      BY <2>1 DEF HoldersInv, IdsInv, ReleasesForgotten
    <3>2. QED
      BY <2>1, <3>1, ServedLease DEF ServeStray, Req, HoldersInv, ClientsInv
  <2>2. CASE IdOf(c) = NoId
    BY <2>2, HeldEntry DEF LeaseKept, HoldersInv, ClientsInv
  <2>3. CASE ~ServeStray(s)
    BY <2>3 DEF DropStray, LeaseKept, HeldAs, LockedUnexpired
  <2>4. QED
    BY <2>1, <2>2, <2>3
<1>5. ASSUME NEW g \in Guard
      PROVE  GuardHolding(g)'
  <2>1. guard[g].entity \in Entity => LeaseKept(guard[g].entity, guard[g].id)
    <3>1. g \in Client /\ IdOf(g) = guard[g].id
      BY GuardFacts
    <3>2. guard[g].entity \in Entity => LeaseKept(guard[g].entity, IdOf(g))
      BY <1>4, <3>1
    <3>3. QED
      BY <3>1, <3>2
  <2>2. QED
    BY <1>1, <1>2, <2>1, GuardFacts, GuardKept
<1>6. ASSUME NEW t \in Tab
      PROVE  TabHolding(t)'
  <2> DEFINE e == tab[t].handle
             r == Req("renew", e, tab[t].id)
  <2>1. t \in Client /\ IdOf(t) = tab[t].id /\ (late[t] => late'[t])
    BY <1>2, TabFacts
  <2>2. e \in Entity => LeaseKept(e, IdOf(t))
    BY <1>4, <2>1
  <2>3. ASSUME r \in strays, r \notin strays', ~late'[t], HeldAs(e, tab[t].id)
        PROVE  locks'[e].left = Ttl
    <3>1. s = r
      BY <1>1, <2>3
    <3>2. CASE DropStray(s)
      <4>1. s.kind = "renew" /\ s.id = tab[t].id
        BY <3>1 DEF Req
      <4>2. QED
        BY <2>1, <2>3, <3>2, <4>1 DEF DropStray
    <3>3. CASE ServeStray(s)
      <4>1. e \in Entity
        BY <3>1 DEF HoldersInv, ClientsInv, Request, Req
      <4>2. QED
        BY <1>4, <2>1, <2>3, <3>1, <3>3, <4>1
    <3>4. QED
      BY <3>2, <3>3
  <2>4. e \in Entity => LeaseKept(e, tab[t].id)
    BY <2>1, <2>2
  <2>5. QED
    BY <1>1, <1>2, <2>1, <2>3, <2>4, TabKept
<1>7. QED
  BY <1>1, <1>3, <1>5, <1>6, IdsKept DEF HoldersInv

\* Time: who is not behind has a step of its lease left, and a heartbeat or
\* a timer that comes before the last one is over.
LEMMA ClientsTickHolds ==
  ASSUME HoldersInv, ClientsInv', ClientsTick
  PROVE  HoldersInv'
<1>1. UNCHANGED <<calls, strays, nextId>> /\ nextId \in Nat
  BY ClientIds DEF ClientsTick, Tick, lockVars
<1>2. /\ \A g \in Guard : guard'[g] = IF Beats(g) /\ guard[g].beatIn > 0
                                      THEN [guard[g] EXCEPT !.beatIn = @ - 1] ELSE guard[g]
      /\ \A t \in Tab : tab'[t] = [tab[t] EXCEPT !.due = Timers(t)]
      /\ \A c \in Client : late'[c] = (late[c] \/ Behind(c))
  BY DEF ClientsTick
<1>3. ASSUME NEW e \in Entity, NEW id, HeldAs(e, id)
      PROVE  locks'[e].id = id /\ locks'[e].left = locks[e].left - 1 /\ locks[e].left \in Nat
  <2>1. locks[e] \in LockEntry /\ locks[e].id = id /\ locks[e].left \in Nat /\ locks[e].left > 0
    BY <1>3, HeldEntry DEF HoldersInv, ClientsInv
  <2>2. locks'[e] = [locks[e] EXCEPT !.left = IF @ > 0 THEN @ - 1 ELSE 0]
    BY <2>1 DEF ClientsTick, Tick, LockedUnexpired
  <2>3. QED
    BY <2>1, <2>2 DEF LockEntry
<1>4. ASSUME NEW g \in Guard
      PROVE  /\ guard'[g].id = guard[g].id /\ guard'[g].entity = guard[g].entity
             /\ GuardHolding(g)'
  <2> DEFINE s == guard[g]
  <2>1. /\ s \in GuardState /\ g \in Client /\ GuardHolding(g) /\ s.beatIn \in Nat
        /\ s.at = "hold" => s.entity \in Entity
    BY GuardFacts, TtlClamp DEF GuardState
  <2>2. /\ guard'[g].id = s.id /\ guard'[g].entity = s.entity
        /\ guard'[g].at = s.at /\ guard'[g].hb = s.hb
        /\ guard'[g].beatIn = IF Beats(g) /\ s.beatIn > 0 THEN s.beatIn - 1 ELSE s.beatIn
    BY <1>2, <2>1 DEF GuardState
  <2>3. guard'[g].beatIn < Ttl
    BY <2>1, <2>2, TtlClamp DEF GuardHolding
  <2>4. ASSUME s.at = "hold", s.hb # "off", ~late'[g]
        PROVE  /\ locks'[s.entity].id = s.id
               /\ locks'[s.entity].left > 0 /\ guard'[g].beatIn < locks'[s.entity].left
    <3>1. ~late[g] /\ calls[g] = {} /\ ~(Beats(g) /\ s.beatIn = 0)
      BY <1>2, <2>1, <2>4 DEF Behind
    <3>2. Beats(g) /\ HeldAs(s.entity, s.id) /\ s.beatIn < locks[s.entity].left
      BY <2>1, <2>4, <3>1 DEF GuardHolding, Beats, GuardState
    <3>3. /\ locks'[s.entity].id = s.id /\ locks'[s.entity].left = locks[s.entity].left - 1
          /\ locks[s.entity].left \in Nat
      BY <1>3, <2>1, <2>4, <3>2
    <3>4. s.beatIn > 0 /\ guard'[g].beatIn = s.beatIn - 1
      BY <2>1, <2>2, <3>1, <3>2
    <3>5. QED
      BY <2>1, <3>2, <3>3, <3>4
  <2>5. QED
    BY <1>1, <2>1, <2>2, <2>3, <2>4 DEF GuardHolding, HeldAs, LockedUnexpired
<1>5. ASSUME NEW t \in Tab
      PROVE  tab'[t].id = tab[t].id /\ TabHolding(t)'
  <2> DEFINE s == tab[t]
  <2>1. /\ s \in TabState /\ t \in Client /\ t \notin Guard /\ TabHolding(t)
        /\ s.handle # Nowhere => s.handle \in Entity
    BY TabFacts
  <2>2. tab'[t].id = s.id /\ tab'[t].handle = s.handle /\ tab'[t].due = Timers(t)
    BY <1>2, <2>1 DEF TabState
  <2>3. ASSUME s.handle # Nowhere, ~late'[t]
        PROVE  /\ locks'[s.handle].id = s.id /\ locks'[s.handle].left > 0
               /\ s.handle \in tab'[t].due
    <3>1. ~late[t] /\ s.due = {} /\ \A r \in strays : ~(r.kind = "renew" /\ r.id = s.id)
      BY <1>2, <2>1, <2>3 DEF Behind
    <3>2. Req("renew", s.handle, s.id) \notin strays
      BY <3>1 DEF Req
    <3>3. HeldAs(s.handle, s.id) /\ locks[s.handle].left > 1
      BY <2>1, <2>3, <3>1, <3>2 DEF TabHolding
    <3>4. QED
      BY <1>3, <2>1, <2>2, <2>3, <3>3 DEF Timers
  <2>4. s.handle = Nowhere <=> s.id = NoId
    BY <2>1 DEF TabHolding
  <2>5. QED
    BY <2>2, <2>3, <2>4 DEF TabHolding, HeldAs, LockedUnexpired
<1>6. IdsInv'
  <2>1. \A c \in Client : IdOf(c)' = IdOf(c)
    BY <1>4, <1>5 DEF IdOf, Client
  <2>2. IdsApart' /\ ReleasesForgotten'
    BY <1>1, <2>1 DEF HoldersInv, IdsInv, IdsApart, ReleasesForgotten
  <2>3. CallsOwned'
    BY <1>1, <1>4 DEF HoldersInv, IdsInv, CallsOwned
  <2>4. QED
    BY <2>2, <2>3 DEF IdsInv
<1>7. QED
  BY <1>4, <1>5, <1>6 DEF HoldersInv

LEMMA HoldersInit == ClientsInit => HoldersInv
<1> SUFFICES ASSUME ClientsInit PROVE HoldersInv
  OBVIOUS
<1>1. ClientsInv
  BY ClientsInitInv
<1>2. \A c \in Client : IdOf(c) = NoId
  BY DEF ClientsInit, IdOf, Client, NoGuard, NoTab
<1>3. nextId = 1 /\ strays = {} /\ \A c \in Client : calls[c] = {}
  BY DEF ClientsInit, Init
<1>4. IdsInv
  BY <1>2, <1>3 DEF IdsInv, IdsApart, ReleasesForgotten, CallsOwned, Client, NoId
<1>5. \A g \in Guard : GuardHolding(g)
  BY TtlClamp DEF ClientsInit, GuardHolding, NoGuard
<1>6. \A t \in Tab : TabHolding(t)
  BY DEF ClientsInit, TabHolding, NoTab
<1>7. QED
  BY <1>1, <1>4, <1>5, <1>6 DEF HoldersInv

LEMMA HoldersStep == HoldersInv /\ [ClientsNext]_clientVars => HoldersInv'
<1> SUFFICES ASSUME HoldersInv, [ClientsNext]_clientVars PROVE HoldersInv'
  OBVIOUS
<1>1. ClientsInv'
  BY ClientsStep DEF HoldersInv
<1>2. CASE \E g \in Guard, e \in Entity : Construct(g, e)
  BY <1>1, <1>2, ConstructHolds
<1>3. CASE \E g \in Guard : GuardStep(g) \/ Destroy(g) \/ CrashGuard(g)
  BY <1>1, <1>3, GuardStepHolds
<1>4. CASE \E t \in Tab : TabStep(t)
  BY <1>1, <1>4, TabStepHolds
<1>5. CASE \E c \in Client : NetworkStep(c)
  BY <1>1, <1>5, NetworkStepHolds
<1>6. CASE \E s \in strays : ServeStray(s) \/ DropStray(s)
  BY <1>1, <1>6, StrayStepHolds
<1>7. CASE ClientsTick
  BY <1>1, <1>7, ClientsTickHolds
<1>8. CASE UNCHANGED clientVars
  <2>1. UNCHANGED <<locks, nextId, guard, tab, calls, strays, late>>
    BY <1>8 DEF clientVars
  <2>2. IdsInv'
    BY <2>1, IdsKept
  <2>3. \A g \in Guard : GuardHolding(g)'
    BY <2>1 DEF HoldersInv, GuardHolding, Beats, HeldAs, LockedUnexpired
  <2>4. \A t \in Tab : TabHolding(t)'
    BY <2>1 DEF HoldersInv, TabHolding, Req, HeldAs, LockedUnexpired
  <2>5. QED
    BY <1>1, <2>2, <2>3, <2>4 DEF HoldersInv
<1>9. QED
  BY <1>2, <1>3, <1>4, <1>5, <1>6, <1>7, <1>8 DEF ClientsNext

\* LockGuard's heartbeat and useLock's timer, at half the lease, keep the lock
\* of every client that is served in time, for any number of clients, retries
\* and requests still under way, also of clients that have crashed.
THEOREM ClientsKeepTheirLocks == ClientsSpec => []HoldersKeepTheirLock
<1>1. HoldersInv => HoldersKeepTheirLock
  BY DEF HoldersInv, GuardHolding, TabHolding, HoldersKeepTheirLock
<1>2. QED
  BY <1>1, HoldersInit, HoldersStep, PTL DEF ClientsSpec

=============================================================================
