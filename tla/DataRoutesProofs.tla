-------------------------- MODULE DataRoutesProofs --------------------------
(***************************************************************************)
(* Proofs about Topology and DataRoutes, for any configurations, catalog,  *)
(* bodies and ECU data, any number of workers and any number of faults:    *)
(* the forest that main builds, the status and the batch of a response,    *)
(* the types, and the refinement of DataStore.                             *)
(***************************************************************************)
EXTENDS DataRoutes, CatalogProofs

(***************************************************************************)
(* The forest.                                                             *)
(***************************************************************************)

TreeInv ==
  /\ config \in Seq(ConfigEntry)
  /\ order \in Seq(Path)
  /\ RegistryIsTree

\* A path that add_entity admits keeps the forest one: its parent stands
\* before it, and it stands nowhere yet.
LEMMA AddEntityTree ==
  ASSUME TreeInv, NEW path \in Path, NEW ctx, AddEntity(path, ctx)
  PROVE  order' \in Seq(Path) /\ RegistryIsTree'
<1>1. CASE CanAdd(path)
  <2>1. order' = Append(order, path) /\ Registered' = Registered \cup {path}
    BY <1>1 DEF AddEntity, Registered
  <2>2. /\ order' \in Seq(Path)
        /\ Len(order') = Len(order) + 1
        /\ order'[Len(order) + 1] = path
        /\ \A i \in DOMAIN order : order'[i] = order[i]
        /\ DOMAIN order = 1 .. Len(order) /\ DOMAIN order' = 1 .. Len(order) + 1
        /\ Len(order) \in Nat
    BY <2>1 DEF TreeInv
  <2>3. Len(path) \in 1 .. MaxDepth
    <3>1. path \in Seq(STRING) /\ MaxDepth \in Nat
      BY TopologyAssumption
    <3>2. Len(path) \in Nat /\ Len(path) # 0
      BY <1>1, <3>1, EmptySeq DEF CanAdd
    <3>3. QED
      BY <1>1, <3>1, <3>2 DEF CanAdd
  <2>4. Registered' = {order'[i] : i \in DOMAIN order'}
    BY <2>1, <2>2 DEF TreeInv, RegistryIsTree
  <2>5. path \notin {order[i] : i \in DOMAIN order}
    BY <1>1 DEF CanAdd, TreeInv, RegistryIsTree
  <2>6. \A i, j \in DOMAIN order' : order'[i] = order'[j] => i = j
    BY <2>2, <2>5 DEF TreeInv, RegistryIsTree
  <2>7. ASSUME NEW i \in DOMAIN order'
        PROVE  /\ Len(order'[i]) \in 1 .. MaxDepth
               /\ Len(order'[i]) > 1 => \E j \in 1 .. i - 1 : order'[j] = ParentOf(order'[i])
    <3>1. CASE i = Len(order) + 1
      <4>1. Len(path) > 1 => \E j \in DOMAIN order : order[j] = ParentOf(path)
        BY <1>1 DEF CanAdd, TreeInv, RegistryIsTree
      <4>2. QED
        BY <2>2, <2>3, <3>1, <4>1
    <3>2. CASE i \in DOMAIN order
      <4>1. 1 .. i - 1 \subseteq DOMAIN order
        BY <2>2, <3>2
      <4>2. QED
        BY <2>2, <3>2, <4>1 DEF TreeInv, RegistryIsTree
    <3>3. QED
      BY <2>2, <3>1, <3>2
  <2>8. QED
    BY <2>2, <2>4, <2>6, <2>7 DEF RegistryIsTree
<1>2. CASE ~CanAdd(path)
  BY <1>2 DEF AddEntity, TreeInv, RegistryIsTree, Registered
<1>3. QED
  BY <1>1, <1>2

\* The next entry keeps it.
LEMMA LoadEntityTree ==
  ASSUME TreeInv, LoadEntity
  PROVE  TreeInv'
<1> DEFINE e == Head(config)
<1>1. e \in ConfigEntry /\ config' \in Seq(ConfigEntry)
  BY HeadTailProperties DEF TreeInv, LoadEntity
<1>2. e.path \in Path
  BY <1>1 DEF ConfigEntry
<1>3. CASE UNCHANGED <<order, contexts>>
  BY <1>1, <1>3 DEF TreeInv, RegistryIsTree, Registered
<1>4. CASE \E ctx : AddEntity(e.path, ctx)
  BY <1>1, <1>2, <1>4, AddEntityTree DEF TreeInv
<1>5. ~e.typed => UNCHANGED <<order, contexts>>
  BY DEF LoadEntity
<1>6. AttachGrouping(e) => \E ctx : AddEntity(e.path, ctx)
  BY DEF AttachGrouping, AddEntityOrThrow
<1>7. AttachForgotten(e) \/ AttachBackend(e) \/ AttachThrowing(e) => \E ctx : AddEntity(e.path, ctx)
  BY DEF AttachForgotten, AttachBackend, AttachThrowing, AddEntityOrThrow
<1>8. AttachProxy(e) => \E ctx : AddEntity(e.path, ctx)
  BY DEF AttachProxy, AddEntityOrThrow
<1>9. AttachMalformed(e) => UNCHANGED <<order, contexts>>
  BY DEF AttachMalformed
<1>10. AttachBrokenProxy(e) => AddEntity(e.path, NoContext)
  BY DEF AttachBrokenProxy
<1>11. QED
  BY <1>3, <1>4, <1>5, <1>6, <1>7, <1>8, <1>9, <1>10 DEF LoadEntity

\* Whatever the configurations, the registry is a forest listed parents
\* first (entity_registry.cpp:31-54).
THEOREM RegistryAlwaysTree == TopologySpec => []RegistryIsTree
<1>1. TopologyInit => TreeInv
  BY TopologyAssumption DEF TopologyInit, TreeInv, RegistryIsTree, Registered
<1>2. TreeInv /\ [TopologyNext]_topologyVars => TreeInv'
  <2> SUFFICES ASSUME TreeInv, [TopologyNext]_topologyVars PROVE TreeInv'
    OBVIOUS
  <2>1. CASE LoadEntity
    BY <2>1, LoadEntityTree
  <2>2. CASE Listen \/ Exit \/ UNCHANGED topologyVars
    BY <2>2 DEF Listen, Exit, topologyVars, TreeInv, RegistryIsTree, Registered
  <2>3. QED
    BY <2>1, <2>2 DEF TopologyNext
<1>3. TreeInv => RegistryIsTree
  BY DEF TreeInv
<1>4. QED
  BY <1>1, <1>2, <1>3, PTL DEF TopologySpec

(***************************************************************************)
(* The contexts.                                                           *)
(***************************************************************************)

Returned == (1 .. created) \ forgotten

OwnInv ==
  /\ created \in Nat
  /\ forgotten \subseteq 1 .. created
  /\ phase = "exited" \/ destroyed = {}
  /\ ContextsAreOwned

\* What ContextsAreOwned says while the program loads.
LEMMA LoadingOwned ==
  ASSUME OwnInv, phase = "loading"
  PROVE  /\ created \in Nat /\ forgotten \subseteq 1 .. created
         /\ Owned = Returned /\ destroyed = {}
         /\ \A p, q \in Registered : contexts[p] = contexts[q] /\ p # q => contexts[p] = NoContext
  BY DEF OwnInv, ContextsAreOwned, Returned

\* While or once an entity is attached, that is all there is to show.
LEMMA AttachedOwned ==
  ASSUME created' \in Nat, forgotten' \subseteq 1 .. created', destroyed' = {},
         phase' \in {"loading", "failed", "crashed"},
         Owned' \subseteq Returned', Returned' \ {created'} \subseteq Owned',
         phase' = "loading" => Owned' = Returned',
         \A p, q \in Registered' : contexts'[p] = contexts'[q] /\ p # q => contexts'[p] = NoContext
  PROVE  OwnInv'
<1>1. phase' \notin {"exited", "serving"}
  OBVIOUS
<1>2. ContextsAreOwned'
  BY <1>1 DEF ContextsAreOwned, Returned
<1>3. QED
  BY <1>2 DEF OwnInv

\* Registering an entity without a context, or failing to, owns nothing new,
\* whether or not a context was forgotten.
LEMMA GroupingOwned ==
  ASSUME OwnInv, NEW path, AddEntity(path, NoContext), phase = "loading",
         phase' \in {"loading", "failed"}, UNCHANGED destroyed,
         \/ UNCHANGED <<created, forgotten>>
         \/ created' = created + 1 /\ forgotten' = forgotten \cup {created + 1}
  PROVE  OwnInv'
<1>1. /\ created \in Nat /\ forgotten \subseteq 1 .. created
      /\ Owned = Returned /\ destroyed = {}
      /\ \A p, q \in Registered : contexts[p] = contexts[q] /\ p # q => contexts[p] = NoContext
  BY LoadingOwned
<1>2. Owned' = Owned
  BY DEF AddEntity, CanAdd, Owned, Registered
<1>3. \A p, q \in Registered' : contexts'[p] = contexts'[q] /\ p # q => contexts'[p] = NoContext
  BY <1>1 DEF AddEntity, Registered
<1>4. created' \in Nat /\ forgotten' \subseteq 1 .. created' /\ Returned' = Returned
  <2>1. CASE UNCHANGED <<created, forgotten>>
    BY <1>1, <2>1 DEF Returned
  <2>2. CASE created' = created + 1 /\ forgotten' = forgotten \cup {created + 1}
    <3>1. created' \in Nat /\ 1 .. created' = (1 .. created) \cup {created + 1}
      BY <1>1, <2>2
    <3>2. created + 1 \notin 1 .. created
      BY <1>1
    <3>3. QED
      BY <1>1, <2>2, <3>1, <3>2 DEF Returned
  <2>3. QED
    BY <2>1, <2>2
<1>5. QED
  BY <1>1, <1>2, <1>3, <1>4, AttachedOwned

\* A new context has a number no other has, and an owner unless the entity
\* is refused: then the load has failed.
LEMMA BackendOwned ==
  ASSUME OwnInv, NEW path, AddEntity(path, created + 1), phase = "loading",
         phase' \in IF CanAdd(path) THEN {"loading", "crashed"} ELSE {"failed"},
         created' = created + 1, UNCHANGED <<forgotten, destroyed>>
  PROVE  OwnInv'
<1>1. /\ created \in Nat /\ forgotten \subseteq 1 .. created
      /\ Owned = Returned /\ destroyed = {}
      /\ \A p, q \in Registered : contexts[p] = contexts[q] /\ p # q => contexts[p] = NoContext
  BY LoadingOwned
<1>2. created' \in Nat /\ forgotten' \subseteq 1 .. created' /\ destroyed' = {}
  BY <1>1
<1>3. Returned' = Returned \cup {created + 1}
  BY <1>1 DEF Returned
<1>4. CASE CanAdd(path)
  <2>1. /\ path \notin Registered
        /\ contexts' = [p \in Registered \cup {path} |-> IF p = path THEN created + 1 ELSE contexts[p]]
    BY <1>4 DEF AddEntity, CanAdd
  <2>2. Owned' = Owned \cup {created + 1}
    BY <1>1, <2>1 DEF Owned, Registered, NoContext
  <2>3. \A p \in Registered : contexts[p] # created + 1
    <3>1. created + 1 \notin Owned /\ created + 1 # NoContext
      BY <1>1 DEF Returned, NoContext
    <3>2. QED
      BY <3>1 DEF Owned
  <2>4. \A p, q \in Registered' : contexts'[p] = contexts'[q] /\ p # q => contexts'[p] = NoContext
    BY <1>1, <2>1, <2>3 DEF Registered
  <2>5. Owned' = Returned'
    BY <1>1, <1>3, <2>2
  <2>6. QED
    BY <1>2, <1>4, <2>4, <2>5, AttachedOwned
<1>5. CASE ~CanAdd(path)
  <2>1. UNCHANGED contexts /\ phase' = "failed"
    BY <1>5 DEF AddEntity
  <2>2. Owned' = Owned
    BY <2>1 DEF Owned, Registered
  <2>3. \A p, q \in Registered' : contexts'[p] = contexts'[q] /\ p # q => contexts'[p] = NoContext
    BY <1>1, <2>1 DEF Registered
  <2>4. Owned' \subseteq Returned' /\ Returned' \ {created'} \subseteq Owned'
    BY <1>1, <1>3, <2>2
  <2>5. QED
    BY <1>2, <2>1, <2>3, <2>4, AttachedOwned
<1>6. QED
  BY <1>4, <1>5

LEMMA LoadEntityOwned ==
  ASSUME OwnInv, LoadEntity
  PROVE  OwnInv'
<1> DEFINE e == Head(config)
<1>1. phase = "loading" /\ UNCHANGED destroyed
  BY DEF LoadEntity
<1>2. ASSUME AttachBackend(e) \/ AttachThrowing(e) PROVE OwnInv'
  <2>1. /\ AddEntity(e.path, created + 1) /\ created' = created + 1 /\ UNCHANGED forgotten
        /\ phase' \in IF CanAdd(e.path) THEN {"loading", "crashed"} ELSE {"failed"}
    BY <1>1, <1>2 DEF AttachBackend, AttachThrowing, CreateContext, AddEntityOrThrow
  <2> HIDE DEF e
  <2>2. QED
    BY <1>1, <2>1, BackendOwned
<1>3. ASSUME AttachForgotten(e) PROVE OwnInv'
  <2>1. /\ AddEntity(e.path, NoContext) /\ phase' \in {"loading", "failed"}
        /\ created' = created + 1 /\ forgotten' = forgotten \cup {created + 1}
    BY <1>1, <1>3 DEF AttachForgotten, CreateContext, AddEntityOrThrow
  <2> HIDE DEF e
  <2>2. QED
    BY <1>1, <2>1, GroupingOwned
<1>4. ASSUME AttachGrouping(e) \/ AttachProxy(e) \/ AttachBrokenProxy(e) PROVE OwnInv'
  <2>1. AddEntity(e.path, NoContext) /\ phase' \in {"loading", "failed"} /\ UNCHANGED <<created, forgotten>>
    BY <1>1, <1>4 DEF AttachGrouping, AttachProxy, AttachBrokenProxy, AddEntityOrThrow
  <2> HIDE DEF e
  <2>2. QED
    BY <1>1, <2>1, GroupingOwned
<1>5. ASSUME AttachMalformed(e) \/ ~e.typed PROVE OwnInv'
  <2>1. UNCHANGED <<contexts, created, forgotten>> /\ phase' \in {"failed", "crashed"}
    BY <1>5 DEF LoadEntity, AttachMalformed
  <2>2. Owned' = Owned /\ Returned' = Returned /\ Registered' = Registered
    BY <2>1 DEF Owned, Registered, Returned
  <2> HIDE DEF e
  <2>3. QED
    BY <1>1, <2>1, <2>2, LoadingOwned, AttachedOwned
<1>6. QED
  BY <1>2, <1>3, <1>4, <1>5 DEF LoadEntity

\* Every context has exactly one owner, which destroys it when the program
\* exits, but for those that create() forgot over a catalog that throws, and
\* the one of the entity an aborted load chokes on
\* (config_loader.cpp:81-137; uds_doip_adapter.cpp:173-188;
\* entity_registry.cpp:22-29).
THEOREM ContextsAlwaysOwned == TopologySpec => []ContextsAreOwned
<1>1. TopologyInit => OwnInv
  BY DEF TopologyInit, OwnInv, ContextsAreOwned, Owned, Registered
<1>2. OwnInv /\ [TopologyNext]_topologyVars => OwnInv'
  <2> SUFFICES ASSUME OwnInv, [TopologyNext]_topologyVars PROVE OwnInv'
    OBVIOUS
  <2>1. CASE LoadEntity
    BY <2>1, LoadEntityOwned
  <2>2. CASE Listen
    BY <2>2 DEF Listen, OwnInv, ContextsAreOwned, Owned, Registered
  <2>3. CASE Exit
    BY <2>3 DEF Exit, OwnInv, ContextsAreOwned, Owned, Registered
  <2>4. CASE UNCHANGED topologyVars
    BY <2>4 DEF topologyVars, OwnInv, ContextsAreOwned, Owned, Registered
  <2>5. QED
    BY <2>1, <2>2, <2>3, <2>4 DEF TopologyNext
<1>3. OwnInv => ContextsAreOwned
  BY DEF OwnInv
<1>4. QED
  BY <1>1, <1>2, <1>3, PTL DEF TopologySpec

(***************************************************************************)
(* The handlers leave the topology alone.                                  *)
(***************************************************************************)

LEMMA ServeDataKeepsTopology ==
  ASSUME NEW w \in Worker, ServeData(w)
  PROVE  UNCHANGED topologyVars
<1>1. ASSUME NEW path, NEW ids, GetData(w, path, ids) PROVE UNCHANGED topologyVars
  BY <1>1 DEF GetData, Answers
<1>2. ASSUME NEW path, NEW id, NEW body, PutData(w, path, id, body) PROVE UNCHANGED topologyVars
  BY <1>2 DEF PutData, Answers
<1>3. ReadFromEcu(w) => UNCHANGED topologyVars
  BY DEF ReadFromEcu, Answers, Exchanged
<1>4. ReadFromMock(w) => UNCHANGED topologyVars
  BY DEF ReadFromMock, Answers
<1>5. Prepare(w) => UNCHANGED topologyVars
  BY DEF Prepare, Answers, Exchanged
<1>6. WriteToEcu(w) \/ WriteToMock(w) \/ Finish(w) => UNCHANGED topologyVars
  BY DEF WriteToEcu, WriteToMock, Finish, Answers, Exchanged
<1>7. QED
  BY <1>1, <1>2, <1>3, <1>4, <1>5, <1>6 DEF ServeData

\* With the data routes on top, the topology behaves as Topology says, so
\* that its theorems hold of the serving program.
THEOREM DataRoutesKeepTopology == DataSpec => TopologySpec
<1>1. DataInit => TopologyInit
  BY DEF DataInit
<1>2. [DataNext]_dataVars => [TopologyNext]_topologyVars
  <2> SUFFICES ASSUME [DataNext]_dataVars PROVE [TopologyNext]_topologyVars
    OBVIOUS
  <2>1. CASE Main
    BY <2>1 DEF Main
  <2>2. CASE \E w \in Worker : ServeData(w)
    BY <2>2, ServeDataKeepsTopology
  <2>3. CASE UNCHANGED dataVars
    BY <2>3 DEF dataVars, topologyVars
  <2>4. QED
    BY <2>1, <2>2, <2>3 DEF DataNext, DataStep
<1>3. QED
  BY <1>1, <1>2, PTL DEF DataSpec, TopologySpec

(***************************************************************************)
(* The status of a PUT.                                                    *)
(***************************************************************************)

\* A status and an outcome that do not contradict each other.
Truthful(status, took) ==
  /\ status = 204 => took
  /\ took => status \in {204, 502, 503}

\* What holds of each worker's operation.
OpInv(o, lagging) ==
  /\ "took" \in DOMAIN o =>
       o.at = "done" /\ (o.path \notin lagging => Truthful(o.status, o.took))
  /\ o.at \in {"prepare", "write"} => o.path \in Path

StatusInv ==
  /\ op = [w \in Worker |-> op[w]]
  /\ late = [p \in Path |-> late[p]]
  /\ \A w \in Worker : OpInv(op[w], behind)
  /\ \A p \in Path \ behind : late[p] = <<>>

\* No error is answered 204.
LEMMA ErrorStatus == ASSUME NEW result PROVE HttpStatus(result) # 204
  BY DEF HttpStatus

\* How an exchange may end.
InTime(x, path, req) ==
  \E r \in EcuReplies(ecu[path], req) :
    x = Ends(r.data, ~IsNegative(r.resp), Append(late[path], r.resp), <<>>, 0)

Faulty(x, path, req) ==
  \E r \in EcuReplies(ecu[path], req) : \E a \in Arrivals(late[path], <<r.resp>>) :
    x = Ends(r.data, ~IsNegative(r.resp), a[1], a[2], 1)

Unheard(x, path) ==
  \E a \in Arrivals(late[path], <<>>) : x = Ends(ecu[path], FALSE, a[1], a[2], 1)

LEMMA ExchangeEnds ==
  ASSUME NEW path, NEW req, NEW x \in Exchange(path, req)
  PROVE  /\ InTime(x, path, req) \/ Faulty(x, path, req) \/ Unheard(x, path)
         /\ x.fault = 0 \/ (x.fault = 1 /\ faults < MaxFaults)
<1> DEFINE old == late[path]
           replies == EcuReplies(ecu[path], req)
           inTime == {Ends(r.data, ~IsNegative(r.resp), Append(old, r.resp), <<>>, 0) : r \in replies}
           faulty(r) == {Ends(r.data, ~IsNegative(r.resp), a[1], a[2], 1) : a \in Arrivals(old, <<r.resp>>)}
           tooLate == UNION {faulty(r) : r \in replies}
           lost == {Ends(ecu[path], FALSE, a[1], a[2], 1) : a \in Arrivals(old, <<>>)}
<1>1. Exchange(path, req)
        = inTime \cup (IF faults < MaxFaults THEN tooLate \cup lost ELSE {})
  BY Zenon DEF Exchange
<1>2. x \in inTime \/ (faults < MaxFaults /\ x \in tooLate) \/ (faults < MaxFaults /\ x \in lost)
  <2> HIDE DEF inTime, tooLate, lost
  <2>1. QED
    BY <1>1
<1>3. ASSUME NEW data, NEW took, NEW now, NEW later, NEW fault, x = Ends(data, took, now, later, fault)
      PROVE  x.fault = fault
  BY <1>3 DEF Ends
<1>4. CASE x \in inTime
  <2>1. PICK r \in replies : x = Ends(r.data, ~IsNegative(r.resp), Append(old, r.resp), <<>>, 0)
    BY Zenon, <1>4
  <2>2. x.fault = 0
    BY Zenon, <1>3, <2>1
  <2>3. InTime(x, path, req)
    BY Zenon, <2>1 DEF InTime
  <2>4. QED
    BY <2>2, <2>3
<1>5. CASE faults < MaxFaults /\ x \in tooLate
  <2>1. PICK r \in replies : x \in faulty(r)
    <3> HIDE DEF faulty, replies
    <3>1. QED
      BY Zenon, <1>5
  <2>2. PICK a \in Arrivals(old, <<r.resp>>) : x = Ends(r.data, ~IsNegative(r.resp), a[1], a[2], 1)
    BY Zenon, <2>1
  <2>3. x.fault = 1
    BY Zenon, <1>3, <2>2
  <2>4. Faulty(x, path, req)
    BY Zenon, <2>2 DEF Faulty
  <2>5. QED
    BY <1>5, <2>3, <2>4
<1>6. CASE faults < MaxFaults /\ x \in lost
  <2>1. PICK a \in Arrivals(old, <<>>) : x = Ends(ecu[path], FALSE, a[1], a[2], 1)
    BY Zenon, <1>6
  <2>2. x.fault = 1
    BY Zenon, <1>3, <2>1
  <2>3. Unheard(x, path)
    BY Zenon, <2>1 DEF Unheard
  <2>4. QED
    BY <1>6, <2>2, <2>3
<1>7. QED
  BY <1>2, <1>4, <1>5, <1>6

\* The responses that replies bring.
Responses(path, req) == {r.resp : r \in EcuReplies(ecu[path], req)}

\* With no old answer, what comes in time is nothing, or a response-pending.
LEMMA NoneOld ==
  ASSUME NEW old, old = <<>>, NEW answer, NEW a \in Arrivals(old, answer), NEW data, NEW took, NEW fault,
         NEW x, x = Ends(data, took, a[1], a[2], fault)
  PROVE  x.ok => x.resp = Pending
<1>1. a[1] \in {<<>>, Append(<<>>, Pending)}
  BY DEF Arrivals
<1>2. Append(<<>>, Pending) = <<Pending>> /\ Head(<<Pending>>) = Pending
  OBVIOUS
<1>3. (x.ok => a[1] # <<>>) /\ (a[1] # <<>> => x.resp = Head(a[1]))
  BY DEF Ends
<1>4. QED
  BY <1>1, <1>2, <1>3

\* On a connection with nothing outstanding, an exchange that brings an answer
\* brings the one to its own request, and leaves none behind, unless the
\* answer is still pending.
LEMMA PunctualExchange ==
  ASSUME NEW path, late[path] = <<>>,
         NEW sid, NEW did, NEW bytes,
         NEW x \in Exchange(path, Request(sid, did, bytes)), x.ok, x.resp # Pending
  PROVE  /\ x.took <=> Matches(x.resp, sid, did)
         /\ x.resp \in Responses(path, Request(sid, did, bytes))
         /\ x.late = <<>>
<1> DEFINE req == Request(sid, did, bytes)
<1>1. PICK r \in EcuReplies(ecu[path], req) :
        x = Ends(r.data, ~IsNegative(r.resp), Append(late[path], r.resp), <<>>, 0)
  <2>1. x \in Exchange(path, req)
    OBVIOUS
  <2> HIDE DEF req
  <2>2. InTime(x, path, req) \/ Faulty(x, path, req) \/ Unheard(x, path)
    BY <2>1, ExchangeEnds
  <2>3. ASSUME NEW answer, NEW a \in Arrivals(late[path], answer), NEW data, NEW took,
               x = Ends(data, took, a[1], a[2], 1)
        PROVE  FALSE
    BY <2>3, NoneOld
  <2>4. ~Faulty(x, path, req) /\ ~Unheard(x, path)
    BY Zenon, <2>3 DEF Faulty, Unheard
  <2>5. InTime(x, path, req)
    BY <2>2, <2>4
  <2>6. QED
    BY Zenon, <2>5 DEF InTime
<1>2. ~IsNegative(r.resp) <=> Matches(r.resp, sid, did)
  <2>1. (\E nrc : r.resp = Negative(nrc)) \/ (\E b : r.resp = Positive(req, b))
    BY DEF EcuReplies
  <2>2. ASSUME NEW nrc, r.resp = Negative(nrc) PROVE IsNegative(r.resp)
    BY <2>2 DEF IsNegative, Negative
  <2>3. ASSUME NEW b, r.resp = Positive(req, b)
        PROVE  ~IsNegative(r.resp) /\ r.resp.sid = sid /\ r.resp.did = did
    BY <2>3 DEF IsNegative, Positive, Request
  <2>4. QED
    BY <2>1, <2>2, <2>3 DEF Matches
<1>3. (x.took <=> ~IsNegative(r.resp)) /\ x.resp = r.resp /\ x.late = <<>>
  <2>1. Append(late[path], r.resp) = <<r.resp>> /\ <<r.resp>> # <<>> /\ Head(<<r.resp>>) = r.resp
        /\ Tail(<<r.resp>>) \o <<>> = <<>>
    OBVIOUS
  <2>2. QED
    BY <1>1, <2>1 DEF Ends
<1>4. x.resp \in Responses(path, req)
  BY <1>3 DEF Responses
<1> HIDE DEF req
<1>5. QED
  BY <1>2, <1>3, <1>4 DEF req

\* An exchange changes what the ECU holds only as a reply does, and took says
\* whether one that is not a refusal was sent.
LEMMA ExchangeEffect ==
  ASSUME NEW path, NEW req, NEW x \in Exchange(path, req)
  PROVE  /\ x.took \in BOOLEAN
         /\ \/ ~x.took /\ x.data = ecu[path]
            \/ \E r \in EcuReplies(ecu[path], req) :
                 x.data = r.data /\ (x.took <=> ~IsNegative(r.resp))
<1>1. ASSUME NEW data, NEW took \in BOOLEAN, NEW now, NEW later, NEW fault,
             x = Ends(data, took, now, later, fault)
      PROVE  x.took = took /\ x.data = data
  BY <1>1 DEF Ends
<1>2. \A r : (~IsNegative(r.resp)) \in BOOLEAN
  OBVIOUS
<1>3. ASSUME NEW r \in EcuReplies(ecu[path], req), NEW now, NEW later, NEW fault,
             x = Ends(r.data, ~IsNegative(r.resp), now, later, fault)
      PROVE  x.took \in BOOLEAN /\ x.data = r.data /\ (x.took <=> ~IsNegative(r.resp))
  <2>1. x.took = ~IsNegative(r.resp) /\ x.data = r.data
    BY Zenon, <1>1, <1>2, <1>3
  <2>2. QED
    BY <2>1
<1>4. ASSUME NEW now, NEW later, x = Ends(ecu[path], FALSE, now, later, 1)
      PROVE  x.took \in BOOLEAN /\ ~x.took /\ x.data = ecu[path]
  BY <1>4 DEF Ends
<1>5. CASE InTime(x, path, req)
  <2>1. PICK r \in EcuReplies(ecu[path], req) :
          x = Ends(r.data, ~IsNegative(r.resp), Append(late[path], r.resp), <<>>, 0)
    BY Zenon, <1>5 DEF InTime
  <2>2. x.took \in BOOLEAN /\ x.data = r.data /\ (x.took <=> ~IsNegative(r.resp))
    BY Zenon, <1>3, <2>1
  <2>3. QED
    BY <2>2
<1>6. CASE Faulty(x, path, req)
  <2>0. PICK r \in EcuReplies(ecu[path], req) :
          \E a \in Arrivals(late[path], <<r.resp>>) :
            x = Ends(r.data, ~IsNegative(r.resp), a[1], a[2], 1)
    BY Zenon, <1>6 DEF Faulty
  <2>1. PICK a \in Arrivals(late[path], <<r.resp>>) :
          x = Ends(r.data, ~IsNegative(r.resp), a[1], a[2], 1)
    BY Zenon, <2>0
  <2>2. x.took \in BOOLEAN /\ x.data = r.data /\ (x.took <=> ~IsNegative(r.resp))
    BY Zenon, <1>3, <2>1
  <2>3. QED
    BY <2>2
<1>7. CASE Unheard(x, path)
  <2>1. PICK a \in Arrivals(late[path], <<>>) : x = Ends(ecu[path], FALSE, a[1], a[2], 1)
    BY Zenon, <1>7 DEF Unheard
  <2>2. x.took \in BOOLEAN /\ ~x.took /\ x.data = ecu[path]
    BY Zenon, <1>4, <2>1
  <2>3. QED
    BY <2>2
<1>8. QED
  BY <1>5, <1>6, <1>7, ExchangeEnds

\* A worker moves on with an operation for which OpInv holds.
LEMMA StatusStep ==
  ASSUME StatusInv, NEW w \in Worker, NEW o,
         op' = [op EXCEPT ![w] = o], OpInv(o, behind'), late' = [p \in Path |-> late'[p]], Remember
  PROVE  StatusInv'
<1>1. op' = [v \in Worker |-> op'[v]]
  BY DEF StatusInv
<1>2. behind \subseteq behind' /\ \A p \in Path \ behind' : late'[p] = <<>>
  BY DEF Remember
<1>3. ASSUME NEW v \in Worker PROVE OpInv(op'[v], behind')
  <2>1. CASE v = w
    <3>1. op'[v] = o
      BY <2>1 DEF StatusInv
    <3>2. QED
      BY <3>1 DEF OpInv
  <2>2. CASE v # w
    <3>1. op'[v] = op[v] /\ OpInv(op[v], behind)
      BY <2>2 DEF StatusInv
    <3>2. QED
      BY <1>2, <3>1 DEF OpInv
  <2>3. QED
    BY <2>1, <2>2
<1>4. QED
  BY <1>1, <1>2, <1>3 DEF StatusInv

\* What a read becomes has no outcome of a write.
LEMMA GotStep ==
  ASSUME NEW w \in Worker, NEW result, OpInv(op[w], behind), op[w].at = "read", NEW lagging
  PROVE  OpInv(Got(w, result), lagging)
<1>1. "took" \notin DOMAIN op[w]
  BY DEF OpInv
<1>2. DOMAIN Got(w, result) = DOMAIN op[w] /\ Got(w, result).at \notin {"prepare", "write"}
  BY DEF Got
<1>3. QED
  BY <1>1, <1>2 DEF OpInv, Got

LEMMA ReadStatus ==
  ASSUME StatusInv, NEW w \in Worker, op[w].at = "read", ReadFromEcu(w) \/ ReadFromMock(w), Remember
  PROVE  StatusInv'
<1>1. PICK result : op' = [op EXCEPT ![w] = Got(w, result)] /\ late' = [p \in Path |-> late'[p]]
  BY DEF ReadFromEcu, ReadFromMock, Answers, Exchanged, StatusInv
<1>2. OpInv(Got(w, result), behind')
  BY GotStep DEF StatusInv
<1>3. QED
  BY <1>1, <1>2, StatusStep

\* A worker that only answers, or prepares to write: no outcome yet.
LEMMA AnswerStatus ==
  ASSUME StatusInv, NEW w \in Worker, NEW o, Answers(w, o), OpInv(o, behind'), Remember
  PROVE  StatusInv'
<1>1. op' = [op EXCEPT ![w] = o] /\ late' = [p \in Path |-> late'[p]]
  BY DEF Answers, StatusInv
<1>2. QED
  BY <1>1, StatusStep

LEMMA RequestStatus ==
  ASSUME StatusInv, NEW w \in Worker, NEW path \in Path, Remember,
         \/ \E ids : GetData(w, path, ids)
         \/ \E id, body : PutData(w, path, id, body)
  PROVE  StatusInv'
<1>1. \A status : OpInv(Rejected(status), behind')
  BY DEF OpInv, Rejected
<1>2. CASE \E ids : GetData(w, path, ids)
  <2>1. PICK ids : GetData(w, path, ids)
    BY <1>2
  <2> DEFINE reading == [at |-> "read", path |-> path, asked |-> ids, got |-> <<>>]
  <2>2. (\E status : Answers(w, Rejected(status))) \/ Answers(w, reading)
    BY <2>1 DEF GetData
  <2>3. OpInv(reading, behind')
    BY DEF OpInv
  <2>4. QED
    BY <1>1, <2>2, <2>3, AnswerStatus
<1>3. CASE \E id, body : PutData(w, path, id, body)
  <2>1. PICK id, body : PutData(w, path, id, body)
    BY <1>3
  <2> DEFINE preparing(bytes) ==
        [at |-> "prepare", path |-> path, id |-> id, body |-> body, bytes |-> bytes]
  <2>2. (\E status : Answers(w, Rejected(status))) \/ (\E bytes : Answers(w, preparing(bytes)))
    BY <2>1 DEF PutData
  <2>3. \A bytes : OpInv(preparing(bytes), behind')
    BY DEF OpInv
  <2>4. QED
    BY <1>1, <2>2, <2>3, AnswerStatus
<1>4. QED
  BY <1>2, <1>3

\* The end of a PUT whose status tells the truth.
LEMMA PutDoneStatus ==
  ASSUME NEW w, NEW status, NEW took, NEW lagging,
         op[w].path \notin lagging => Truthful(status, took)
  PROVE  OpInv(PutDone(w, status, took), lagging)
  BY DEF OpInv, PutDone

LEMMA PrepareStatus ==
  ASSUME StatusInv, NEW w \in Worker, Prepare(w), Remember
  PROVE  StatusInv'
<1> DEFINE ready == [op[w] EXCEPT !.at = "write"]
<1>1. OpInv(ready, behind')
  <2>1. "took" \notin DOMAIN op[w] /\ op[w].path \in Path
    BY DEF StatusInv, OpInv, Prepare
  <2>2. DOMAIN ready = DOMAIN op[w] /\ ("path" \in DOMAIN op[w] => ready.path = op[w].path)
    OBVIOUS
  <2>3. QED
    BY <2>1, <2>2 DEF OpInv
<1>2. ASSUME NEW result PROVE OpInv(PutDone(w, HttpStatus(result), FALSE), behind')
  <2>1. Truthful(HttpStatus(result), FALSE)
    BY ErrorStatus DEF Truthful
  <2>2. QED
    BY <2>1, PutDoneStatus
<1>3. PICK o : /\ op' = [op EXCEPT ![w] = o] /\ late' = [p \in Path |-> late'[p]]
               /\ o = ready \/ \E result : o = PutDone(w, HttpStatus(result), FALSE)
  BY DEF Prepare, Answers, Exchanged, StatusInv
<1>4. QED
  BY <1>1, <1>2, <1>3, StatusStep

LEMMA WriteStatus ==
  ASSUME StatusInv, NEW w \in Worker, WriteToEcu(w), Remember
  PROVE  StatusInv'
<1> DEFINE path == op[w].path
           did == DidOf(path, op[w].id)
           io == AdapterItem(path, did) # Missing /\ AdapterItem(path, did).io_control
           req == Request(WriteSid(io), did, op[w].bytes)
           status(x) == IF ~x.ok THEN HttpStatus("TRANSPORT")
                        ELSE IF Matches(x.resp, AnswerSid(io), did) THEN 204
                        ELSE HttpStatus(NegativeOrInternal(x.resp))
<1>1. PICK x \in Exchange(path, req) :
        /\ op' = [op EXCEPT ![w] = PutDone(w, status(x), x.took)]
        /\ late' = [late EXCEPT ![path] = x.late]
  BY DEF WriteToEcu, Exchanged
<1>2. path \in Path
  BY DEF StatusInv, OpInv, WriteToEcu
<1>3. path \notin behind' => late[path] = <<>>
  BY <1>2 DEF StatusInv, Remember
<1>4. WriteSid(io) = AnswerSid(io)
  BY DEF WriteSid, AnswerSid
<1>5. path \notin behind' /\ x.ok /\ x.resp # Pending => (x.took <=> Matches(x.resp, AnswerSid(io), did))
  <2> HIDE DEF path, did, io
  <2>1. QED
    BY <1>1, <1>3, <1>4, PunctualExchange
<1>6. path \notin behind' => Truthful(status(x), x.took)
  <2>1. ~x.ok => status(x) = 502
    BY DEF HttpStatus
  <2>2. x.ok /\ Matches(x.resp, AnswerSid(io), did) => status(x) = 204 /\ x.resp # Pending
    BY DEF Matches, Pending, Negative, IsNegative
  <2>3. x.ok /\ ~Matches(x.resp, AnswerSid(io), did) => status(x) # 204
    BY ErrorStatus
  <2>4. x.ok /\ x.resp = Pending => status(x) = 503
    <3>1. IsNegative(Pending) /\ Pending.nrc = 120
      BY DEF Pending, Negative, IsNegative
    <3>2. HttpStatus(NegativeOrInternal(Pending)) = 503
      BY <3>1 DEF NegativeOrInternal, NrcToResult, HttpStatus
    <3>3. QED
      BY <3>1, <3>2 DEF Matches
  <2> HIDE DEF path, did, io, status
  <2>5. QED
    BY <1>5, <2>1, <2>2, <2>3, <2>4 DEF Truthful
<1>7. OpInv(PutDone(w, status(x), x.took), behind')
  BY <1>6, PutDoneStatus
<1>8. late' = [p \in Path |-> late'[p]]
  BY <1>1 DEF StatusInv
<1>9. QED
  BY <1>1, <1>7, <1>8, StatusStep

LEMMA RestStatus ==
  ASSUME StatusInv, NEW w \in Worker, WriteToMock(w) \/ Finish(w), Remember
  PROVE  StatusInv'
<1>1. OpInv(PutDone(w, 204, TRUE), behind') /\ OpInv(Idle, behind')
  BY DEF PutDone, OpInv, Truthful, Idle
<1>2. CASE WriteToMock(w)
  BY <1>1, <1>2, StatusStep DEF WriteToMock, StatusInv
<1>3. CASE Finish(w)
  BY <1>1, <1>3, AnswerStatus DEF Finish
<1>4. QED
  BY <1>2, <1>3

LEMMA StatusInvariant == DataSpec => []StatusInv
<1>1. DataInit => StatusInv
  BY DEF DataInit, StatusInv, OpInv, Idle
<1>2. StatusInv /\ [DataNext]_dataVars => StatusInv'
  <2> SUFFICES ASSUME StatusInv, [DataNext]_dataVars PROVE StatusInv'
    OBVIOUS
  <2>1. CASE Main /\ Remember
    BY <2>1 DEF Main, Remember, StatusInv, OpInv
  <2>2. CASE \E w \in Worker : ServeData(w) /\ Remember
    <3>1. PICK w \in Worker : ServeData(w) /\ Remember
      BY <2>2
    <3>2. QED
      BY <3>1, RequestStatus, ReadStatus, PrepareStatus, WriteStatus, RestStatus DEF ServeData
  <2>3. CASE UNCHANGED dataVars
    BY <2>3 DEF dataVars, StatusInv, OpInv
  <2>4. QED
    BY <2>1, <2>2, <2>3 DEF DataNext, DataStep
<1>3. QED
  BY <1>1, <1>2, PTL DEF DataSpec

\* Whatever the workers, the catalog and what the ECU refuses, whatever
\* requests and answers are lost, and however late the other connections:
\* while no answer of an entity has been late, a PUT to it answers 204 only if
\* its write was executed, and if it was, 204, 502 or 503
\* (routes_data.cpp:170-179, uds_doip_adapter.cpp:249-278).
THEOREM StatusAlwaysTellsTheTruth == DataSpec => []StatusTellsTheTruth
<1>1. StatusInv => StatusTellsTheTruth
  BY DEF StatusInv, OpInv, Truthful, StatusTellsTheTruth
<1>2. QED
  BY <1>1, StatusInvariant, PTL

(***************************************************************************)
(* The answers to a batch.                                                 *)
(***************************************************************************)

\* The results so far are those of the first ids asked for; the operation is
\* done when none is left.
BatchInv(o) ==
  /\ "at" \in DOMAIN o
  /\ o.at = "read" => "got" \in DOMAIN o
  /\ "asked" \in DOMAIN o => "got" \in DOMAIN o
  /\ "got" \in DOMAIN o =>
       /\ "asked" \in DOMAIN o
       /\ o.asked \in Seq(Id) /\ \E S : o.got \in Seq(S)
       /\ \A i \in 1 .. Len(o.got) : o.got[i].id = o.asked[i]
       /\ \/ o.at = "read" /\ Len(o.got) < Len(o.asked)
          \/ o.at = "done" /\ Len(o.got) = Len(o.asked)

BatchesInv ==
  /\ op = [w \in Worker |-> op[w]]
  /\ \A w \in Worker : BatchInv(op[w])

LEMMA BatchStep ==
  ASSUME BatchesInv, NEW w \in Worker, NEW o, op' = [op EXCEPT ![w] = o], BatchInv(o)
  PROVE  BatchesInv'
<1>1. op' = [v \in Worker |-> IF v = w THEN o ELSE op[v]]
  BY DEF BatchesInv
<1>2. \A v \in Worker : BatchInv(op[v])
  BY DEF BatchesInv
<1> HIDE DEF BatchInv
<1>3. QED
  BY <1>1, <1>2 DEF BatchesInv

\* One more result, for the id that is next, whatever its status.
LEMMA GotBatch ==
  ASSUME NEW w \in Worker, BatchInv(op[w]), op[w].at = "read",
         NEW result, result.id = op[w].asked[Len(op[w].got) + 1]
  PROVE  BatchInv(Got(w, result))
<1> DEFINE old == op[w].got
           asked == op[w].asked
           new == Append(old, result)
<1>1. /\ {"at", "asked", "got"} \subseteq DOMAIN op[w] /\ asked \in Seq(Id)
      /\ Len(old) < Len(asked) /\ \A i \in 1 .. Len(old) : old[i].id = asked[i]
  BY DEF BatchInv
<1>2. PICK S : old \in Seq(S)
  BY DEF BatchInv
<1> DEFINE T == S \cup {result}
<1>3. old \in Seq(T)
  <2>1. Len(old) \in Nat /\ old \in [1 .. Len(old) -> S]
    BY <1>2
  <2>2. old \in [1 .. Len(old) -> T]
    BY <2>1
  <2>3. QED
    BY <2>1, <2>2
<1>4. /\ new \in Seq(T) /\ Len(new) = Len(old) + 1 /\ Len(old) \in Nat
      /\ new[Len(old) + 1] = result
      /\ \A i \in 1 .. Len(old) : new[i] = old[i]
  BY <1>3
<1>5. \A i \in 1 .. Len(new) : new[i].id = asked[i]
  BY <1>1, <1>4
<1>6. Len(asked) \in Nat
  BY <1>1
<1>7. /\ DOMAIN Got(w, result) = DOMAIN op[w]
      /\ Got(w, result).got = new /\ Got(w, result).asked = asked
      /\ Got(w, result).at = IF Len(new) = Len(asked) THEN "done" ELSE "read"
  BY <1>1 DEF Got
<1>8. new \in Seq(T) /\ Len(new) = Len(old) + 1 /\ Len(old) < Len(asked)
      /\ Len(old) \in Nat /\ Len(asked) \in Nat
  BY <1>1, <1>4, <1>6
<1> HIDE DEF old, new, asked
<1>9. QED
  BY <1>1, <1>5, <1>7, <1>8 DEF BatchInv

LEMMA ReadBatch ==
  ASSUME BatchesInv, NEW w \in Worker, op[w].at = "read", ReadFromEcu(w) \/ ReadFromMock(w)
  PROVE  BatchesInv'
<1> DEFINE next == op[w].asked[Len(op[w].got) + 1]
<1>1. PICK result : op' = [op EXCEPT ![w] = Got(w, result)] /\ result.id = next
  <2>1. \A result : Failed(next, result).id = next
    BY DEF Failed
  <2>2. \A path, bytes : Decoded(path, next, bytes).id = next
    BY <2>1 DEF Decoded
  <2> DEFINE Next(result) == op' = [op EXCEPT ![w] = Got(w, result)] /\ result.id = next
  <2>3. ReadFromEcu(w) => \E result : Next(result)
    <3> DEFINE path == op[w].path
               did == DidOf(path, next)
               read(x) == IF ~x.ok THEN Failed(next, "TRANSPORT")
                          ELSE IF Matches(x.resp, "read", did) THEN Decoded(path, next, x.resp.bytes)
                          ELSE Failed(next, NegativeOrInternal(x.resp))
    <3>1. ReadFromEcu(w) => \/ Answers(w, Got(w, Failed(next, "BAD_REQUEST")))
                            \/ \E x : op' = [op EXCEPT ![w] = Got(w, read(x))]
      BY DEF ReadFromEcu
    <3>2. \A x : read(x).id = next
      BY <2>1, <2>2
    <3> HIDE DEF next, read
    <3>3. QED
      BY <2>1, <3>1, <3>2 DEF Answers
  <2>4. ReadFromMock(w) => \E result : Next(result)
    <3> DEFINE path == op[w].path
               did == DidOf(path, next)
               read == IF did \in DOMAIN ecu[path] THEN Decoded(path, next, ecu[path][did])
                       ELSE Failed(next, "NOT_FOUND")
    <3>1. ReadFromMock(w) => Answers(w, Got(w, read))
      BY DEF ReadFromMock
    <3>2. read.id = next
      BY <2>1, <2>2
    <3>3. QED
      BY <3>1, <3>2 DEF Answers
  <2>5. QED
    BY <2>3, <2>4
<1>2. BatchInv(Got(w, result))
  BY <1>1, GotBatch DEF BatchesInv
<1>3. QED
  BY <1>1, <1>2, BatchStep

LEMMA GetBatch ==
  ASSUME BatchesInv, NEW w \in Worker, NEW path, NEW ids \in Seq(Id), GetData(w, path, ids)
  PROVE  BatchesInv'
<1> DEFINE reading == [at |-> "read", path |-> path, asked |-> ids, got |-> <<>>]
<1>1. (\E status : Answers(w, Rejected(status))) \/ (ids # <<>> /\ Answers(w, reading))
  BY DEF GetData
<1>2. \A status : BatchInv(Rejected(status))
  BY DEF BatchInv, Rejected
<1>3. ids # <<>> => BatchInv(reading)
  <2> SUFFICES ASSUME ids # <<>> PROVE BatchInv(reading)
    OBVIOUS
  <2>1. Len(ids) \in Nat \ {0}
    BY EmptySeq
  <2>2. <<>> \in Seq(Id) /\ Len(<<>>) = 0
    BY EmptySeq
  <2>3. QED
    BY <2>1, <2>2 DEF BatchInv
<1>4. QED
  BY <1>1, <1>2, <1>3, BatchStep DEF Answers

\* The operations of a PUT have no results.
LEMMA PutBatch ==
  ASSUME BatchesInv, NEW w \in Worker,
         \/ \E path, id, body : PutData(w, path, id, body)
         \/ Prepare(w) \/ WriteToEcu(w) \/ WriteToMock(w) \/ Finish(w)
  PROVE  BatchesInv'
<1> DEFINE preparing(path, id, body, bytes) ==
             [at |-> "prepare", path |-> path, id |-> id, body |-> body, bytes |-> bytes]
           ready == [op[w] EXCEPT !.at = "write"]
<1>1. /\ \A status : BatchInv(Rejected(status))
      /\ \A path, id, body, bytes : BatchInv(preparing(path, id, body, bytes))
      /\ \A status, took : BatchInv(PutDone(w, status, took))
      /\ BatchInv(Idle)
  BY DEF BatchInv, Rejected, PutDone, Idle
<1>2. CASE \E path, id, body : PutData(w, path, id, body)
  <2>1. (\E status : op' = [op EXCEPT ![w] = Rejected(status)])
        \/ \E path, id, body, bytes : op' = [op EXCEPT ![w] = preparing(path, id, body, bytes)]
    BY <1>2 DEF PutData, Answers
  <2>2. QED
    BY <1>1, <2>1, BatchStep
<1>3. CASE Prepare(w)
  <2>1. BatchInv(ready)
    <3>1. "got" \notin DOMAIN op[w] /\ "asked" \notin DOMAIN op[w]
      BY <1>3 DEF Prepare, BatchesInv, BatchInv
    <3>2. DOMAIN ready = DOMAIN op[w] /\ "at" \in DOMAIN op[w] /\ ready.at = "write"
      BY DEF BatchesInv, BatchInv
    <3>3. QED
      BY <3>1, <3>2 DEF BatchInv
  <2>2. PICK o : /\ op' = [op EXCEPT ![w] = o]
                 /\ o = ready \/ \E result : o = PutDone(w, HttpStatus(result), FALSE)
    BY <1>3 DEF Prepare, Answers, Exchanged
  <2>3. BatchInv(o)
    BY <1>1, <2>1, <2>2
  <2> HIDE DEF ready
  <2>4. op' = [op EXCEPT ![w] = o]
    BY <2>2
  <2>5. QED
    BY <2>3, <2>4, BatchStep
<1>4. CASE WriteToEcu(w) \/ WriteToMock(w)
  <2>1. PICK status, took : op' = [op EXCEPT ![w] = PutDone(w, status, took)]
    <3> DEFINE Ended(status, took) == op' = [op EXCEPT ![w] = PutDone(w, status, took)]
    <3>2. WriteToEcu(w) => \E status, took : Ended(status, took)
      <4> DEFINE path == op[w].path
                 did == DidOf(path, op[w].id)
                 io == AdapterItem(path, did) # Missing /\ AdapterItem(path, did).io_control
                 status(x) == IF ~x.ok THEN HttpStatus("TRANSPORT")
                              ELSE IF Matches(x.resp, AnswerSid(io), did) THEN 204
                              ELSE HttpStatus(NegativeOrInternal(x.resp))
      <4>1. WriteToEcu(w) => \E x : Ended(status(x), x.took)
        BY DEF WriteToEcu
      <4> HIDE DEF Ended, status
      <4>2. QED
        BY <4>1
    <3>3. WriteToMock(w) => Ended(204, TRUE)
      BY DEF WriteToMock
    <3> HIDE DEF Ended
    <3>4. \E status, took : Ended(status, took)
      BY <1>4, <3>2, <3>3
    <3>5. QED
      BY <3>4 DEF Ended
  <2>2. BatchInv(PutDone(w, status, took))
    BY <1>1
  <2>3. QED
    BY <2>1, <2>2, BatchStep
<1>5. CASE Finish(w)
  BY <1>1, <1>5, BatchStep DEF Finish, Answers
<1>6. QED
  BY <1>2, <1>3, <1>4, <1>5

LEMMA BatchesInvariant == DataSpec => []BatchesInv
<1>1. DataInit => BatchesInv
  BY DEF DataInit, BatchesInv, BatchInv, Idle
<1>2. BatchesInv /\ [DataNext]_dataVars => BatchesInv'
  <2> SUFFICES ASSUME BatchesInv, [DataNext]_dataVars PROVE BatchesInv'
    OBVIOUS
  <2>1. CASE UNCHANGED op
    BY <2>1 DEF BatchesInv, BatchInv
  <2>2. CASE \E w \in Worker : ServeData(w)
    <3>1. PICK w \in Worker : ServeData(w)
      BY <2>2
    <3>2. \A id \in Id : <<id>> \in Seq(Id)
      OBVIOUS
    <3>3. CASE \E path \in Path, ids \in Seq(Id) : GetData(w, path, ids)
      BY <3>3, GetBatch
    <3>4. CASE op[w].at = "read" /\ (ReadFromEcu(w) \/ ReadFromMock(w))
      BY <3>4, ReadBatch
    <3>5. CASE \/ \E path, id, body : PutData(w, path, id, body)
               \/ Prepare(w) \/ WriteToEcu(w) \/ WriteToMock(w) \/ Finish(w)
      BY <3>5, PutBatch
    <3>6. QED
      BY <3>1, <3>2, <3>3, <3>4, <3>5, DataRoutesAssumption DEF ServeData
  <2>3. QED
    BY <2>1, <2>2 DEF DataNext, DataStep, Main, dataVars
<1>3. QED
  BY <1>1, <1>2, PTL DEF DataSpec

\* Every batch is answered in full and in order, whichever of its ids fail
\* (routes_data.cpp:68-81).
THEOREM BatchAlwaysAnswersEveryId == DataSpec => []BatchAnswersEveryId
<1>1. BatchesInv => BatchAnswersEveryId
  <2> SUFFICES ASSUME BatchesInv, NEW w \in Worker, op[w].at = "done", "asked" \in DOMAIN op[w]
      PROVE  [i \in DOMAIN op[w].got |-> op[w].got[i].id] = op[w].asked
    BY DEF BatchAnswersEveryId
  <2>1. /\ op[w].asked \in Seq(Id) /\ Len(op[w].got) = Len(op[w].asked)
        /\ \A i \in 1 .. Len(op[w].got) : op[w].got[i].id = op[w].asked[i]
    BY DEF BatchesInv, BatchInv
  <2>2. PICK S : op[w].got \in Seq(S)
    BY DEF BatchesInv, BatchInv
  <2>3. DOMAIN op[w].got = 1 .. Len(op[w].got) /\ DOMAIN op[w].asked = 1 .. Len(op[w].asked)
    BY <2>1, <2>2
  <2>4. op[w].asked = [i \in DOMAIN op[w].asked |-> op[w].asked[i]]
    BY <2>1
  <2>5. QED
    BY <2>1, <2>3, <2>4
<1>2. QED
  BY <1>1, BatchesInvariant, PTL

(***************************************************************************)
(* What the catalog finds.                                                 *)
(***************************************************************************)

LEMMA CataloguedSeq == Catalogued \in Seq(Range(Catalogued)) /\ Catalogued = Items(CatalogFile)
<1>1. CatalogFile \in Seq(Range(CatalogFile))
  BY DataRoutesAssumption
<1>2. Len(CatalogFile) \in Nat /\ DOMAIN CatalogFile = 1 .. Len(CatalogFile)
  BY <1>1
<1>3. Catalogued = [i \in 1 .. Len(CatalogFile) |-> ParseDataItem(CatalogFile[i])]
  BY <1>2 DEF Catalogued, Items
<1>4. Catalogued = [i \in 1 .. Len(CatalogFile) |-> Catalogued[i]]
      /\ \A i \in 1 .. Len(CatalogFile) : Catalogued[i] \in Range(Catalogued)
  BY <1>3 DEF Range
<1>5. QED
  BY <1>2, <1>4 DEF Catalogued

LEMMA CataloguedItems ==
  \A item \in Range(Catalogued) : Parsed(item) /\ item.id \in Id /\ item # Missing
<1> SUFFICES ASSUME NEW item \in Range(Catalogued)
             PROVE  Parsed(item) /\ item.id \in Id /\ item # Missing
  OBVIOUS
<1>1. PICK i \in DOMAIN CatalogFile : item = ParseDataItem(CatalogFile[i])
  BY DEF Range, Catalogued, Items
<1> DEFINE y == CatalogFile[i]
<1>2. YamlItem(y) /\ y.id \in Id /\ ParseDataItem(y) # Missing /\ WellFormed(y)
  BY DataRoutesAssumption DEF Range, Loads
<1> HIDE DEF y
<1>3. QED
  BY <1>1, <1>2, ParsedItem DEF y

\* A named item is one of the catalog's, under its own id.
LEMMA NamedItem ==
  ASSUME NEW id \in Id, Named[id] # Missing
  PROVE  Named[id] \in Range(Catalogued) /\ Named[id].id = id /\ Parsed(Named[id])
<1>1. Named[id] = FindById(Catalogued, id)
  BY DEF Named
<1>2. PICK i \in DOMAIN Catalogued : Named[id] = Catalogued[i] /\ Catalogued[i].id = id
  BY <1>1, CataloguedSeq, FoundById
<1>3. Named[id] \in Range(Catalogued)
  BY <1>2 DEF Range
<1>4. QED
  BY <1>2, <1>3, CataloguedItems

(***************************************************************************)
(* Bytes are bytes.                                                        *)
(***************************************************************************)

\* What a device holds.
Held(data) == data = [did \in DOMAIN data |-> data[did]] /\ \A did \in DOMAIN data : data[did] \in Texts

TypeInv ==
  /\ phase \in {"loading", "failed", "crashed", "serving", "exited"}
  /\ ecu = [p \in Path |-> ecu[p]] /\ \A p \in Path : Held(ecu[p])
  /\ op = [w \in Worker |-> op[w]]
  /\ \A w \in Worker :
       /\ op[w].at \in {"idle", "read", "prepare", "write", "done"}
       /\ op[w].at \in {"read", "prepare", "write"} => op[w].path \in Path
       /\ op[w].at \in {"prepare", "write"} => op[w].bytes \in Texts
  /\ faults \in 0 .. MaxFaults
  /\ behind \in SUBSET Path

LEMMA PutBytesAreBytes ==
  ASSUME NEW path, NEW id \in Id, NEW body \in Bodies[id], NEW bytes \in PutBytes(path, id, body)
  PROVE  bytes \in Texts
<1>1. Json(body)
  BY DataRoutesAssumption DEF Json
<1>2. CASE ItemOf(path, id) = Missing
  <2>1. body.is = "string" /\ bytes \in FromHex(body.value)
    BY <1>2 DEF PutBytes
  <2>2. QED
    BY <1>1, <2>1, HexAndBack DEF Json
<1>3. CASE ItemOf(path, id) # Missing
  <2>1. ItemOf(path, id) = Named[id] /\ Named[id] # Missing
    BY <1>3 DEF ItemOf
  <2>2. Parsed(Named[id])
    BY <2>1, NamedItem
  <2>3. bytes \in Encode(Named[id], body)
    BY <1>3, <2>1 DEF PutBytes
  <2>4. QED
    BY Zenon, <1>1, <2>2, <2>3, EncodeReturnsBytes
<1>4. QED
  BY <1>2, <1>3

\* An ECU that holds bytes, and is sent bytes, holds bytes.
LEMMA EcuHoldsBytes ==
  ASSUME NEW data, Held(data), NEW sid, NEW did, NEW bytes,
         sid \in {"session", "read"} \/ bytes \in Texts,
         NEW r \in EcuReplies(data, Request(sid, did, bytes))
  PROVE  Held(r.data)
<1> DEFINE req == Request(sid, did, bytes)
<1>1. req.sid = sid /\ req.did = did /\ req.bytes = bytes
  BY DEF Request
<1>2. \/ r.data = data
      \/ did \in DOMAIN data /\ bytes \in Texts /\ r.data = [data EXCEPT ![did] = bytes]
  <2>1. CASE \E nrc : r = [data |-> data, resp |-> Negative(nrc)]
    BY <2>1
  <2>2. CASE \E b : r = [data |-> data, resp |-> Positive(req, b)]
    BY <2>2
  <2>3. CASE /\ sid \notin {"session", "read"} /\ did \in DOMAIN data
             /\ r = [data |-> [data EXCEPT ![did] = bytes], resp |-> Positive(req, <<>>)]
    BY <2>3
  <2> HIDE DEF req
  <2>4. QED
    BY <1>1, <2>1, <2>2, <2>3 DEF EcuReplies, req
<1>3. QED
  BY <1>2 DEF Held

LEMMA ExchangeKeepsTypes ==
  ASSUME TypeInv, NEW path \in Path, NEW sid, NEW did, NEW bytes,
         sid \in {"session", "read"} \/ bytes \in Texts,
         NEW x \in Exchange(path, Request(sid, did, bytes)), Exchanged(path, x)
  PROVE  /\ ecu' = [p \in Path |-> ecu'[p]] /\ \A p \in Path : Held(ecu'[p])
         /\ faults' \in 0 .. MaxFaults /\ phase' = phase
<1> DEFINE req == Request(sid, did, bytes)
<1>1. /\ x.data = ecu[path] \/ \E r \in EcuReplies(ecu[path], req) : x.data = r.data
      /\ x.fault = 0 \/ (x.fault = 1 /\ faults < MaxFaults)
  <2>1. x \in Exchange(path, req)
    BY DEF req
  <2> HIDE DEF req
  <2>2. QED
    BY <2>1, ExchangeEnds, ExchangeEffect
<1>2. Held(x.data)
  BY <1>1, EcuHoldsBytes DEF TypeInv
<1>3. faults' \in 0 .. MaxFaults
  BY <1>1, DataRoutesAssumption DEF Exchanged, TypeInv
<1>4. QED
  BY <1>2, <1>3 DEF Exchanged, TypeInv, topologyVars

\* A worker that does no more than move on with a well-typed operation.
TypedOp(o) ==
  /\ o.at \in {"idle", "read", "prepare", "write", "done"}
  /\ o.at \in {"read", "prepare", "write"} => o.path \in Path
  /\ o.at \in {"prepare", "write"} => o.bytes \in Texts

LEMMA TypeStep ==
  ASSUME TypeInv, NEW w \in Worker, NEW o, op' = [op EXCEPT ![w] = o], TypedOp(o),
         phase' = phase, ecu' = [p \in Path |-> ecu'[p]], \A p \in Path : Held(ecu'[p]),
         faults' \in 0 .. MaxFaults, Remember
  PROVE  TypeInv'
<1>1. behind' \in SUBSET Path
  BY DEF Remember, TypeInv
<1>2. op' = [v \in Worker |-> op'[v]] /\ \A v \in Worker : op'[v] = IF v = w THEN o ELSE op[v]
  BY DEF TypeInv
<1>3. QED
  BY <1>1, <1>2 DEF TypeInv, TypedOp

LEMMA AnswerType ==
  ASSUME TypeInv, NEW w \in Worker, NEW o, Answers(w, o), TypedOp(o), Remember
  PROVE  TypeInv'
<1>1. /\ op' = [op EXCEPT ![w] = o] /\ phase' = phase
      /\ ecu' = [p \in Path |-> ecu'[p]] /\ (\A p \in Path : Held(ecu'[p]))
      /\ faults' \in 0 .. MaxFaults
  BY DEF Answers, TypeInv, topologyVars
<1>2. QED
  BY <1>1, TypeStep

LEMMA RequestType ==
  ASSUME TypeInv, NEW w \in Worker, NEW path \in Path, Remember,
         \/ \E ids : GetData(w, path, ids)
         \/ \E id \in Id : \E body \in Bodies[id] : PutData(w, path, id, body)
  PROVE  TypeInv'
<1>1. \A status : TypedOp(Rejected(status))
  BY DEF TypedOp, Rejected
<1>2. CASE \E ids : GetData(w, path, ids)
  <2>1. PICK ids : GetData(w, path, ids)
    BY <1>2
  <2> DEFINE reading == [at |-> "read", path |-> path, asked |-> ids, got |-> <<>>]
  <2>2. (\E status : Answers(w, Rejected(status))) \/ Answers(w, reading)
    BY <2>1 DEF GetData
  <2>3. TypedOp(reading)
    BY DEF TypedOp
  <2>4. QED
    BY <1>1, <2>2, <2>3, AnswerType
<1>3. CASE \E id \in Id : \E body \in Bodies[id] : PutData(w, path, id, body)
  <2>1. PICK id \in Id : \E body \in Bodies[id] : PutData(w, path, id, body)
    BY <1>3
  <2>2. PICK body \in Bodies[id] : PutData(w, path, id, body)
    BY <2>1
  <2> DEFINE preparing(bytes) ==
        [at |-> "prepare", path |-> path, id |-> id, body |-> body, bytes |-> bytes]
  <2>3. \/ \E status : Answers(w, Rejected(status))
        \/ \E bytes \in PutBytes(path, id, body) : Answers(w, preparing(bytes))
    BY <2>2 DEF PutData
  <2>4. \A bytes \in PutBytes(path, id, body) : TypedOp(preparing(bytes))
    BY PutBytesAreBytes DEF TypedOp
  <2>5. QED
    BY <1>1, <2>3, <2>4, AnswerType
<1>4. QED
  BY <1>2, <1>3

LEMMA ReadType ==
  ASSUME TypeInv, NEW w \in Worker, op[w].at = "read", ReadFromEcu(w) \/ ReadFromMock(w), Remember
  PROVE  TypeInv'
<1> DEFINE path == op[w].path
<1>1. \A result : TypedOp(Got(w, result))
  BY DEF TypedOp, Got, TypeInv
<1>2. (\E result : Answers(w, Got(w, result)))
      \/ \E result, did, x : /\ x \in Exchange(path, Request("read", did, <<>>)) /\ Exchanged(path, x)
                             /\ op' = [op EXCEPT ![w] = Got(w, result)]
  <2>1. CASE ReadFromMock(w)
    BY <2>1 DEF ReadFromMock
  <2>2. CASE ReadFromEcu(w)
    BY <2>2 DEF ReadFromEcu
  <2>3. QED
    BY <2>1, <2>2
<1>3. CASE \E result : Answers(w, Got(w, result))
  BY <1>1, <1>3, AnswerType
<1>4. CASE \E result, did, x : /\ x \in Exchange(path, Request("read", did, <<>>)) /\ Exchanged(path, x)
                               /\ op' = [op EXCEPT ![w] = Got(w, result)]
  <2>1. path \in Path
    BY DEF TypeInv
  <2> HIDE DEF path
  <2>2. QED
    BY <1>1, <1>4, <2>1, ExchangeKeepsTypes, TypeStep
<1>5. QED
  BY <1>2, <1>3, <1>4

LEMMA PrepareType ==
  ASSUME TypeInv, NEW w \in Worker, Prepare(w), Remember
  PROVE  TypeInv'
<1> DEFINE path == op[w].path
           ready == [op[w] EXCEPT !.at = "write"]
<1>1. TypedOp(ready) /\ \A status, took : TypedOp(PutDone(w, status, took))
  <2>1. op[w].at = "prepare" /\ op[w].path \in Path /\ op[w].bytes \in Texts
    BY DEF Prepare, TypeInv
  <2>2. ready.path = op[w].path /\ ready.bytes = op[w].bytes
    OBVIOUS
  <2>3. ready.at \in {"write", "prepare"}
    BY <2>1
  <2>4. QED
    BY <2>1, <2>2, <2>3 DEF TypedOp, PutDone
<1>2. PICK o : /\ TypedOp(o)
               /\ \/ Answers(w, o)
                  \/ \E x \in Exchange(path, Request("session", 0, <<>>)) :
                       Exchanged(path, x) /\ op' = [op EXCEPT ![w] = o]
  <2> HIDE DEF ready
  <2>1. QED
    BY <1>1 DEF Prepare, ready
<1>3. CASE Answers(w, o)
  BY <1>2, <1>3, AnswerType
<1>4. CASE \E x \in Exchange(path, Request("session", 0, <<>>)) :
             Exchanged(path, x) /\ op' = [op EXCEPT ![w] = o]
  <2>1. path \in Path
    BY DEF TypeInv, Prepare
  <2> HIDE DEF path
  <2>2. QED
    BY <1>2, <1>4, <2>1, ExchangeKeepsTypes, TypeStep
<1>5. QED
  BY <1>2, <1>3, <1>4

LEMMA WriteType ==
  ASSUME TypeInv, NEW w \in Worker, WriteToEcu(w) \/ WriteToMock(w), Remember
  PROVE  TypeInv'
<1> DEFINE path == op[w].path
           bytes == op[w].bytes
<1>1. path \in Path /\ bytes \in Texts
  BY DEF TypeInv, WriteToEcu, WriteToMock
<1>2. \A status, took : TypedOp(PutDone(w, status, took))
  BY DEF TypedOp, PutDone
<1>3. CASE WriteToEcu(w)
  <2> DEFINE did == DidOf(path, op[w].id)
             io == AdapterItem(path, did) # Missing /\ AdapterItem(path, did).io_control
             status(x) == IF ~x.ok THEN HttpStatus("TRANSPORT")
                          ELSE IF Matches(x.resp, AnswerSid(io), did) THEN 204
                          ELSE HttpStatus(NegativeOrInternal(x.resp))
  <2>1. PICK x \in Exchange(path, Request(WriteSid(io), did, bytes)) :
          /\ Exchanged(path, x)
          /\ op' = [op EXCEPT ![w] = PutDone(w, status(x), x.took)]
    BY <1>3 DEF WriteToEcu
  <2> HIDE DEF path, bytes, did, io, status
  <2>2. TypedOp(PutDone(w, status(x), x.took))
    BY <1>2
  <2>3. /\ ecu' = [p \in Path |-> ecu'[p]] /\ \A p \in Path : Held(ecu'[p])
        /\ faults' \in 0 .. MaxFaults /\ phase' = phase
    BY <1>1, <2>1, ExchangeKeepsTypes
  <2>4. QED
    BY <2>1, <2>2, <2>3, TypeStep
<1>4. CASE WriteToMock(w)
  <2> DEFINE did == DidOf(path, op[w].id)
             new == [d \in DOMAIN ecu[path] \cup {did} |-> IF d = did THEN bytes ELSE ecu[path][d]]
  <2>1. /\ ecu' = [ecu EXCEPT ![path] = IF did = Missing THEN ecu[path] ELSE new]
        /\ op' = [op EXCEPT ![w] = PutDone(w, 204, TRUE)]
        /\ phase' = phase /\ faults' = faults
    BY <1>4 DEF WriteToMock, topologyVars
  <2>2. Held(new)
    BY <1>1 DEF TypeInv, Held
  <2> HIDE DEF new, did, path, bytes
  <2>3. ecu' = [p \in Path |-> ecu'[p]] /\ (\A p \in Path : Held(ecu'[p])) /\ faults' \in 0 .. MaxFaults
    BY <1>1, <2>1, <2>2 DEF TypeInv
  <2>4. QED
    BY <1>2, <2>1, <2>3, TypeStep
<1>5. QED
  BY <1>3, <1>4

LEMMA TypeInvariant == DataSpec => []TypeInv
<1>1. DataInit => TypeInv
  <2> SUFFICES ASSUME DataInit PROVE TypeInv
    OBVIOUS
  <2>1. Held(EcuData)
    BY DataRoutesAssumption DEF Held
  <2>2. ecu = [p \in Path |-> EcuData] /\ phase = "loading" /\ faults = 0 /\ behind = {}
        /\ op = [w \in Worker |-> Idle]
    BY DEF DataInit, TopologyInit
  <2>3. ecu = [p \in Path |-> ecu[p]] /\ \A p \in Path : Held(ecu[p])
    BY <2>1, <2>2
  <2>4. op = [w \in Worker |-> op[w]] /\ \A w \in Worker : op[w].at = "idle"
    BY <2>2 DEF Idle
  <2>5. faults \in 0 .. MaxFaults
    BY <2>2, DataRoutesAssumption
  <2>6. QED
    BY <2>2, <2>3, <2>4, <2>5 DEF TypeInv
<1>2. TypeInv /\ [DataNext]_dataVars => TypeInv'
  <2> SUFFICES ASSUME TypeInv, [DataNext]_dataVars PROVE TypeInv'
    OBVIOUS
  <2>1. CASE Main /\ Remember
    <3>1. phase' \in {"loading", "failed", "crashed", "serving", "exited"}
      BY <2>1 DEF Main, TypeInv, TopologyNext, LoadEntity, Listen, Exit, AttachGrouping, AttachForgotten,
                  AttachBackend, AttachThrowing, AttachProxy, AttachBrokenProxy, AttachMalformed,
                  AddEntityOrThrow
    <3>2. behind' \in SUBSET Path
      BY <2>1 DEF Remember, TypeInv
    <3>3. QED
      BY <2>1, <3>1, <3>2 DEF Main, TypeInv
  <2>2. CASE \E w \in Worker : ServeData(w) /\ Remember
    <3>1. PICK w \in Worker : ServeData(w) /\ Remember
      BY <2>2
    <3>2. Finish(w) => TypeInv'
      <4>1. TypedOp(Idle)
        BY DEF TypedOp, Idle
      <4>2. QED
        BY <3>1, <4>1, AnswerType DEF Finish
    <3>3. QED
      BY <3>1, <3>2, RequestType, ReadType, PrepareType, WriteType DEF ServeData
  <2>3. CASE UNCHANGED dataVars
    BY <2>3 DEF dataVars, TypeInv
  <2>4. QED
    BY <2>1, <2>2, <2>3 DEF DataNext, DataStep
<1>3. QED
  BY <1>1, <1>2, PTL DEF DataSpec

\* What is sent to a device and what a device holds are bytes, whatever the
\* catalog, the bodies and the sizes: encode cuts what it writes to the digits
\* of the item (did_catalog.cpp:269-276,338-397; uds_doip_adapter.cpp:249-279).
THEOREM DataAlwaysTyped == DataSpec => []DataTypeOK
<1>1. TypeInv => DataTypeOK
  <2> SUFFICES ASSUME TypeInv PROVE DataTypeOK
    OBVIOUS
  <2>1. \A bytes \in Texts : IsBytes(bytes)
    BY DEF Texts, IsBytes
  <2>2. QED
    BY <2>1 DEF TypeInv, Held, DataTypeOK
<1>2. QED
  BY <1>1, TypeInvariant, PTL

(***************************************************************************)
(* The registers.                                                          *)
(***************************************************************************)

\* What rounding to whole steps and scaling back makes of a value is the
\* multiple of the scale that is nearest to it.
LEMMA RoundedNearest ==
  ASSUME NEW v \in Int, NEW scale \in Int, scale # 0
  PROVE  Rounded(v, scale) * scale = Nearest(v, scale)
<1> DEFINE m == Abs(scale)
           a == Abs(v)
           n == 2 * a + m
           w == 2 * m
           q == n \div w
           k == v \div m
           d == v % m
           below == m * k
           Closer(x, y) == \/ Abs(v - x) < Abs(v - y)
                           \/ Abs(v - x) = Abs(v - y) /\ Abs(x) > Abs(y)
<1>1. m \in Nat \ {0} /\ a \in Nat
  BY AbsNat
<1>2. q \in Int
  <2> HIDE DEF m, a
  <2>1. n \in Int /\ w \in Nat \ {0}
    BY <1>1
  <2>2. QED
    BY <2>1, Division
<1>3. Rounded(v, scale) * scale = IF v < 0 THEN -(q * m) ELSE q * m
  <2>1. Rounded(v, scale) = IF (v < 0) = (scale < 0) THEN q ELSE -q
    BY DEF Rounded
  <2>2. m = IF scale < 0 THEN -scale ELSE scale
    BY DEF Abs
  <2> HIDE DEF m, q
  <2>3. q * (-scale) = -(q * scale) /\ (-q) * scale = -(q * scale) /\ -(-(q * scale)) = q * scale
    BY <1>2
  <2>4. CASE scale < 0
    <3>1. Rounded(v, scale) = (IF v < 0 THEN q ELSE -q) /\ m = -scale
      BY <2>1, <2>2, <2>4
    <3>2. QED
      BY <2>3, <3>1
  <2>5. CASE ~(scale < 0)
    <3>1. Rounded(v, scale) = (IF v < 0 THEN -q ELSE q) /\ m = scale
      BY <2>1, <2>2, <2>5
    <3>2. QED
      BY <2>3, <3>1
  <2>6. QED
    BY <2>4, <2>5
<1>4. k \in Int /\ d \in 0 .. m - 1 /\ v = m * k + d /\ (v \in Nat => k \in Nat)
  <2> HIDE DEF m
  <2>1. QED
    BY <1>1, Division
<1>5. Nearest(v, scale) = IF Closer(below, below + m) THEN below ELSE below + m
  BY DEF Nearest
<1>6. a = IF v < 0 THEN -v ELSE v
  BY DEF Abs
<1> HIDE DEF m, a, k, d, n, w
<1>7. below \in Int /\ v - below = d /\ v - (below + m) = -(m - d)
  BY <1>1, <1>4
<1>8. Abs(v - below) = d /\ Abs(v - (below + m)) = m - d
  BY <1>1, <1>4, <1>7 DEF Abs
<1>9. CASE v >= 0
  <2>1. below >= 0
    BY <1>1, <1>4, <1>9
  <2>2. Abs(below) = below /\ Abs(below + m) = below + m
    BY <1>1, <1>7, <2>1 DEF Abs
  <2>3. Closer(below, below + m) <=> 2 * d < m
    BY <1>1, <1>4, <1>7, <1>8, <2>2
  <2>4. w \in Nat \ {0} /\ n \in Int /\ k + 1 \in Int
    BY <1>1, <1>4 DEF n, w
  <2>5. CASE 2 * d < m
    <3>1. n = w * k + (2 * d + m) /\ 2 * d + m \in 0 .. w - 1
      BY <1>1, <1>4, <1>6, <1>9, <2>5 DEF n, w
    <3>2. q = k
      BY <1>4, <2>4, <3>1, DivisionUnique
    <3>3. q * m = below
      BY <1>1, <1>4, <3>2
    <3> HIDE DEF q, below, Closer
    <3>4. QED
      BY <1>3, <1>5, <1>9, <2>3, <2>5, <3>3
  <2>6. CASE ~(2 * d < m)
    <3>1. n = w * (k + 1) + (2 * d - m) /\ 2 * d - m \in 0 .. w - 1
      BY <1>1, <1>4, <1>6, <1>9, <2>6 DEF n, w
    <3>2. q = k + 1
      BY <1>4, <2>4, <3>1, DivisionUnique
    <3>3. q * m = below + m
      BY <1>1, <1>4, <3>2
    <3> HIDE DEF q, below, Closer
    <3>4. QED
      BY <1>3, <1>5, <1>9, <2>3, <2>6, <3>3
  <2>7. QED
    BY <2>5, <2>6
<1>10. CASE v < 0
  <2>1. k <= -1
    <3>1. k >= 0 => m * k >= 0
      BY <1>1, <1>4
    <3>2. QED
      BY <1>1, <1>4, <1>10, <3>1
  <2>2. below <= -m
    BY <1>1, <1>4, <2>1
  <2>3. Abs(below) = -below /\ Abs(below + m) = -(below + m)
    BY <1>1, <1>7, <2>2 DEF Abs
  <2>4. Closer(below, below + m) <=> 2 * d <= m
    BY <1>1, <1>4, <1>7, <1>8, <2>3
  <2>5. w \in Nat \ {0} /\ n \in Int /\ -k \in Int /\ -k - 1 \in Int
    BY <1>1, <1>4 DEF n, w
  <2>6. CASE 2 * d <= m
    <3>1. n = w * (-k) + (m - 2 * d) /\ m - 2 * d \in 0 .. w - 1
      BY <1>1, <1>4, <1>6, <1>10, <2>6 DEF n, w
    <3>2. q = -k
      BY <2>5, <3>1, DivisionUnique
    <3>3. -(q * m) = below
      BY <1>1, <1>4, <3>2
    <3>4. QED
      BY <1>3, <1>5, <1>10, <2>4, <2>6, <3>3
  <2>7. CASE ~(2 * d <= m)
    <3>1. n = w * (-k - 1) + (3 * m - 2 * d) /\ 3 * m - 2 * d \in 0 .. w - 1
      BY <1>1, <1>4, <1>6, <1>10, <2>7 DEF n, w
    <3>2. q = -k - 1
      BY <2>5, <3>1, DivisionUnique
    <3>3. -(q * m) = below + m
      BY <1>1, <1>4, <3>2
    <3>4. QED
      BY <1>3, <1>5, <1>10, <2>4, <2>7, <3>3
  <2>8. QED
    BY <2>6, <2>7
<1>11. QED
  BY <1>9, <1>10

(***************************************************************************)
(* What an exchange brings.                                                *)
(***************************************************************************)

\* What an ECU's reply is to the request, and what the ECU then holds.
Replied(r, data, sid, did, bytes) ==
  \/ IsNegative(r.resp) /\ r.data = data
  \/ /\ ~IsNegative(r.resp) /\ r.resp.sid = sid /\ r.resp.did = did
     /\ sid \in {"session", "read"} => r.data = data
     /\ sid = "read" => r.resp.bytes = data[did]
     /\ sid \notin {"session", "read"} =>
          did \in DOMAIN data /\ r.data = [data EXCEPT ![did] = bytes]

LEMMA Reply ==
  ASSUME NEW data, NEW sid, NEW did, NEW bytes, NEW r \in EcuReplies(data, Request(sid, did, bytes))
  PROVE  Replied(r, data, sid, did, bytes)
<1> DEFINE req == Request(sid, did, bytes)
<1>1. req.sid = sid /\ req.did = did /\ req.bytes = bytes
  BY DEF Request
<1>2. ASSUME NEW nrc PROVE IsNegative(Negative(nrc))
  BY DEF IsNegative, Negative
<1>3. ASSUME NEW b
      PROVE  LET p == Positive(req, b)
             IN ~IsNegative(p) /\ p.sid = sid /\ p.did = did /\ p.bytes = b
  BY <1>1 DEF IsNegative, Positive
<1> HIDE DEF req
<1>4. CASE \E nrc : r = [data |-> data, resp |-> Negative(nrc)]
  BY <1>2, <1>4 DEF Replied
<1>5. CASE sid = "session" /\ r = [data |-> data, resp |-> Positive(req, <<>>)]
  BY <1>3, <1>5 DEF Replied
<1>6. CASE sid = "read" /\ r = [data |-> data, resp |-> Positive(req, data[did])]
  BY <1>3, <1>6 DEF Replied
<1>7. CASE /\ sid \notin {"session", "read"} /\ did \in DOMAIN data
           /\ r = [data |-> [data EXCEPT ![did] = bytes], resp |-> Positive(req, <<>>)]
  BY <1>3, <1>7 DEF Replied
<1>8. QED
  BY <1>1, <1>4, <1>5, <1>6, <1>7 DEF EcuReplies, req

\* It brings the answer to its request or one that was outstanding, and
\* leaves such answers behind.
LEMMA ExchangeAnswers ==
  ASSUME NEW path, NEW S, late[path] \in Seq(S), NEW req, NEW x \in Exchange(path, req),
         NEW T, T = S \cup Responses(path, req) \cup {Pending}
  PROVE  x.late \in Seq(T) /\ (x.ok => x.resp \in T)
<1>1. late[path] \in Seq(T)
  <2>1. Len(late[path]) \in Nat /\ late[path] \in [1 .. Len(late[path]) -> T]
    OBVIOUS
  <2>2. QED
    BY <2>1
<1>2. \A r \in EcuReplies(ecu[path], req) : r.resp \in T
  BY DEF Responses
<1>3. ASSUME NEW now \in Seq(T), now # <<>>
      PROVE  Head(now) \in T /\ Tail(now) \in Seq(T)
  BY <1>3
<1>4. ASSUME NEW now \in Seq(T), NEW later \in Seq(T), NEW data, NEW took, NEW fault,
             x = Ends(data, took, now, later, fault)
      PROVE  x.late \in Seq(T) /\ (x.ok => x.resp \in T)
  <2>1. (IF now = <<>> THEN <<>> ELSE Tail(now)) \in Seq(T)
    BY <1>3
  <2>2. x.late = (IF now = <<>> THEN <<>> ELSE Tail(now)) \o later
        /\ (x.ok => now # <<>> /\ x.resp = Head(now))
    BY <1>4 DEF Ends
  <2>3. QED
    BY <1>3, <2>1, <2>2
<1>5. ASSUME NEW answer \in Seq(T), NEW a \in Arrivals(late[path], answer)
      PROVE  a[1] \in Seq(T) /\ a[2] \in Seq(T)
  <2>1. Pending \in T
    OBVIOUS
  <2>2. /\ <<>> \in Seq(T) /\ Append(late[path], Pending) \in Seq(T)
        /\ late[path] \o answer \in Seq(T)
    BY <1>1, <2>1
  <2>3. QED
    BY <1>1, <2>2 DEF Arrivals
<1>6. <<>> \in Seq(T) /\ \A r \in EcuReplies(ecu[path], req) :
                            <<r.resp>> \in Seq(T) /\ Append(late[path], r.resp) \in Seq(T)
  BY <1>1, <1>2
<1>7. CASE InTime(x, path, req)
  <2>1. PICK r \in EcuReplies(ecu[path], req) :
          x = Ends(r.data, ~IsNegative(r.resp), Append(late[path], r.resp), <<>>, 0)
    BY Zenon, <1>7 DEF InTime
  <2>2. QED
    BY Zenon, <1>4, <1>6, <2>1
<1>8. CASE Faulty(x, path, req)
  <2>0. PICK r \in EcuReplies(ecu[path], req) :
          \E a \in Arrivals(late[path], <<r.resp>>) :
            x = Ends(r.data, ~IsNegative(r.resp), a[1], a[2], 1)
    BY Zenon, <1>8 DEF Faulty
  <2>1. PICK a \in Arrivals(late[path], <<r.resp>>) :
          x = Ends(r.data, ~IsNegative(r.resp), a[1], a[2], 1)
    BY Zenon, <2>0
  <2>2. a[1] \in Seq(T) /\ a[2] \in Seq(T)
    BY Zenon, <1>5, <1>6
  <2>3. QED
    BY Zenon, <1>4, <2>1, <2>2
<1>9. CASE Unheard(x, path)
  <2>1. PICK a \in Arrivals(late[path], <<>>) : x = Ends(ecu[path], FALSE, a[1], a[2], 1)
    BY Zenon, <1>9 DEF Unheard
  <2>2. a[1] \in Seq(T) /\ a[2] \in Seq(T)
    BY Zenon, <1>5, <1>6
  <2>3. QED
    BY Zenon, <1>4, <2>1, <2>2
<1>10. QED
  BY <1>7, <1>8, <1>9, ExchangeEnds

(***************************************************************************)
(* The items.                                                              *)
(***************************************************************************)

Entries == UNION {Range(c) : c \in Configs}
LoadPaths == {e.path : e \in {e \in Entries : e.catalog = "loads"}}

LEMMA EntriesTyped ==
  /\ Entries \subseteq ConfigEntry
  /\ \A c \in Configs : c \in Seq(Entries)
<1>1. ASSUME NEW c \in Configs PROVE Range(c) \subseteq ConfigEntry /\ c \in Seq(Entries)
  <2>1. c \in Seq(ConfigEntry)
    BY TopologyAssumption
  <2>2. Len(c) \in Nat /\ DOMAIN c = 1 .. Len(c) /\ \A k \in 1 .. Len(c) : c[k] \in ConfigEntry
    BY <2>1
  <2>3. \A k \in 1 .. Len(c) : c[k] \in Range(c)
    BY <2>2 DEF Range
  <2>4. Range(c) \subseteq Entries
    BY DEF Entries
  <2>5. c = [k \in 1 .. Len(c) |-> c[k]]
    BY <2>1
  <2>6. c \in Seq(Entries)
    BY <2>2, <2>3, <2>4, <2>5
  <2>7. Range(c) \subseteq ConfigEntry
    BY <2>2 DEF Range
  <2>8. QED
    BY <2>6, <2>7
<1>2. QED
  BY <1>1 DEF Entries

\* A named item is the catalog's item of that id, at a path that exists; in
\* a faithful catalog no other item of the path has its DID.
LEMMA NamedItemsAre ==
  ASSUME NEW i \in NamedItems
  PROVE  /\ i = <<i[1], i[2]>> /\ i[1] \in Path /\ i[2] \in Id
         /\ Named[i[2]] # Missing /\ Named[i[2]] \in Range(Catalogued)
         /\ Named[i[2]].id = i[2] /\ Parsed(Named[i[2]])
<1>1. /\ i = <<i[1], i[2]>> /\ i[1] \in LoadPaths
      /\ i[2] \in {item.id : item \in Range(Catalogued)}
  BY DEF NamedItems, LoadPaths, Entries
<1>2. i[1] \in Path
  BY <1>1, EntriesTyped DEF LoadPaths, ConfigEntry
<1>3. PICK k \in DOMAIN Catalogued : Catalogued[k].id = i[2]
  BY <1>1 DEF Range
<1>4. Catalogued[k] \in Range(Catalogued) /\ i[2] \in Id
  BY <1>3, CataloguedItems DEF Range
<1>5. Named[i[2]] = FindById(Catalogued, i[2])
  BY <1>4 DEF Named
<1>6. PICK j \in DOMAIN Catalogued : Named[i[2]] = Catalogued[j]
  BY <1>3, <1>5, CataloguedSeq, FoundById
<1>7. Named[i[2]] # Missing
  BY <1>6, CataloguedItems DEF Range
<1>8. QED
  BY <1>1, <1>2, <1>4, <1>7, NamedItem

LEMMA OwnDid ==
  ASSUME FaithfulCatalog, NEW i \in NamedItems, NEW j \in NamedItems,
         i[1] = j[1], Named[i[2]].did = Named[j[2]].did
  PROVE  i = j
  BY NamedItemsAre DEF FaithfulCatalog

\* An operation's item, if it has one, is a named one.
LEMMA ItemOfNamed ==
  ASSUME catalogs \subseteq LoadPaths, NEW path, NEW id \in Id, ItemOf(path, id) # Missing
  PROVE  /\ <<path, id>> \in NamedItems
         /\ ItemOf(path, id) = Named[id]
         /\ DidOf(path, id) = Named[id].did
<1>1. path \in catalogs /\ ItemOf(path, id) = Named[id]
  BY DEF ItemOf
<1>2. Named[id] \in Range(Catalogued) /\ Named[id].id = id
  BY <1>1, NamedItem
<1>3. <<path, id>> \in NamedItems
  BY <1>1, <1>2 DEF NamedItems, LoadPaths, Entries
<1>4. QED
  BY <1>1, <1>3 DEF DidOf

(***************************************************************************)
(* What the items hold, and what may still come.                           *)
(***************************************************************************)

\* What some bytes of an item read as.
Reads(i, bytes) ==
  LET values == Decode(Named[i[2]], bytes)
  IN IF values = {} THEN Missing ELSE CHOOSE v \in values : TRUE

\* An answer to a read is of a value that the item has had.
Known(p, r) ==
  ~IsNegative(r) /\ r.sid = "read" =>
    \A i \in NamedItems :
      i[1] = p /\ Named[i[2]].did = r.did /\ Decode(Named[i[2]], r.bytes) # {}
        => Reads(i, r.bytes) \in past[i]

\* What a PUT is about to write is what its body encodes to.
PutOp(o) ==
  /\ o.path \in Path /\ o.id \in Id /\ o.body \in Bodies[o.id]
  /\ o.bytes \in PutBytes(o.path, o.id, o.body)

StoreInv ==
  /\ config \in Seq(Entries) /\ catalogs \subseteq LoadPaths
  /\ \A p \in Path : DOMAIN EcuData \subseteq DOMAIN ecu[p]
  /\ value = [i \in NamedItems |-> Value(i)]
  /\ past = [i \in NamedItems |-> past[i]] /\ \A i \in NamedItems : value[i] \in past[i]
  /\ \A p \in Path : \E S : late[p] \in Seq(S) /\ \A r \in S : Known(p, r)
  /\ \A w \in Worker : op[w].at \in {"prepare", "write"} => PutOp(op[w])

\* Values are kept up to date, and none is forgotten.
LEMMA Remembered ==
  ASSUME StoreInv, Remember
  PROVE  /\ value' = [i \in NamedItems |-> Value(i)']
         /\ past' = [i \in NamedItems |-> past[i] \cup {value'[i]}]
         /\ \A i \in NamedItems : value'[i] \in past'[i] /\ past[i] \subseteq past'[i]
         /\ ecu' = ecu => value' = value /\ past' = past
<1>1. value' = [i \in NamedItems |-> Value(i)']
  <2>1. CASE ecu' = ecu
    <3>1. \A i \in NamedItems : Value(i)' = Value(i)
      BY <2>1 DEF Value
    <3>2. QED
      BY <2>1, <3>1 DEF Remember, StoreInv
  <2>2. CASE ecu' # ecu
    BY <2>2 DEF Remember
  <2>3. QED
    BY <2>1, <2>2
<1>2. past' = [i \in NamedItems |-> past[i] \cup {value'[i]}]
  BY DEF Remember
<1>3. ecu' = ecu => value' = value /\ past' = past
  <2>1. ecu' = ecu => value' = value
    BY DEF Remember
  <2>2. \A i \in NamedItems : value' = value => past[i] \cup {value'[i]} = past[i]
    BY DEF StoreInv
  <2>3. QED
    BY <1>2, <2>1, <2>2 DEF StoreInv
<1>4. QED
  BY <1>1, <1>2, <1>3

\* A write into one DID of one device, whatever else the device then has.
Wrote(p, did, bytes) ==
  \E data : /\ ecu' = [ecu EXCEPT ![p] = data]
            /\ data[did] = bytes
            /\ \A d \in DOMAIN ecu[p] : d # did => data[d] = ecu[p][d]

\* It changes no item of another DID.
LEMMA Stored ==
  ASSUME StoreInv, TypeInv, FaithfulCatalog, Remember,
         NEW p \in Path, NEW d, NEW bytes, Wrote(p, d, bytes)
  PROVE  \A i \in NamedItems :
           value'[i] = IF i[1] = p /\ Named[i[2]].did = d THEN Reads(i, bytes) ELSE value[i]
<1> PICK data : /\ ecu' = [ecu EXCEPT ![p] = data]
                /\ data[d] = bytes
                /\ \A e \in DOMAIN ecu[p] : e # d => data[e] = ecu[p][e]
  BY DEF Wrote
<1> SUFFICES ASSUME NEW i \in NamedItems
             PROVE  value'[i] = IF i[1] = p /\ Named[i[2]].did = d THEN Reads(i, bytes) ELSE value[i]
  OBVIOUS
<1> DEFINE did == Named[i[2]].did
<1>1. i[1] \in Path /\ did \in DOMAIN EcuData
  BY NamedItemsAre DEF FaithfulCatalog
<1>2. value'[i] = Reads(i, ecu'[i[1]][did])
  BY Remembered DEF Value, Reads
<1>3. value[i] = Reads(i, ecu[i[1]][did])
  BY DEF StoreInv, Value, Reads
<1>4. ecu'[i[1]] = IF i[1] = p THEN data ELSE ecu[i[1]]
  BY <1>1 DEF TypeInv
<1>5. did \in DOMAIN ecu[i[1]]
  BY <1>1 DEF StoreInv
<1> HIDE DEF did
<1>6. ecu'[i[1]][did] = IF i[1] = p /\ did = d THEN bytes ELSE ecu[i[1]][did]
  BY <1>4, <1>5
<1>7. QED
  BY <1>2, <1>3, <1>6 DEF did

\* Of a faithful catalog, an accepted value reads as itself.
LEMMA AcceptedReadsAs ==
  ASSUME FaithfulCatalog, NEW i \in NamedItems, NEW body \in Bodies[i[2]],
         NEW bytes \in Encode(Named[i[2]], body)
  PROVE  /\ Reads(i, bytes) = ReadsAs(i, body)
         /\ body \in Inputs(i)
<1> DEFINE item == Named[i[2]]
<1>1. Parsed(item) /\ Faithful(item) /\ i[2] \in Id
  BY NamedItemsAre DEF FaithfulCatalog
<1>2. Json(body)
  BY <1>1, DataRoutesAssumption DEF Json
<1>3. Decode(item, bytes) = {ReadBack(item, body)}
  BY Zenon, <1>1, <1>2, DecodeUndoesEncode
<1>4. Reads(i, bytes) = ReadBack(item, body)
  BY <1>3 DEF Reads
<1>5. item.type = "float" => body.is = "number"
  BY DEF Encode
<1>6. item.type # "float" => body.is = "string"
  BY DEF Encode
<1>7. ReadBack(item, body) = ReadsAs(i, body)
  <2>1. CASE item.type = "float"
    <3>1. body.value \in Int /\ item.encoding.scale \in Int /\ item.encoding.scale # 0
      BY <1>1, <1>2, <1>5, <2>1 DEF Json, Parsed, Faithful
    <3>2. Rounded(body.value, item.encoding.scale) * item.encoding.scale
            = Nearest(body.value, item.encoding.scale)
      BY <3>1, RoundedNearest
    <3>3. QED
      BY <2>1, <3>2 DEF ReadBack, ReadsAs
  <2>2. CASE item.type # "float"
    BY <2>2 DEF ReadBack, ReadsAs
  <2>3. QED
    BY <2>1, <2>2
<1>8. QED
  BY <1>4, <1>5, <1>6, <1>7 DEF Inputs

\* A worker moves on: what is outstanding stays known, and what was held is
\* still held under the same DIDs.
LEMMA StoreStep ==
  ASSUME StoreInv, StatusInv, TypeInv, Remember, UNCHANGED topologyVars,
         NEW w \in Worker, NEW o, op' = [op EXCEPT ![w] = o],
         o.at \in {"prepare", "write"} => PutOp(o),
         \A p \in Path : DOMAIN EcuData \subseteq DOMAIN ecu'[p],
         \A p \in Path : \E S : late'[p] \in Seq(S) /\ \A r \in S : Known(p, r)
  PROVE  StoreInv'
<1>1. config' = config /\ catalogs' = catalogs
  BY DEF topologyVars
<1>2. \A p, r : Known(p, r) => Known(p, r)'
  BY Remembered DEF Known
<1>3. \A p \in Path : \E S : late'[p] \in Seq(S) /\ \A r \in S : Known(p, r)'
  BY <1>2
<1>4. (\A v \in Worker : op[v].at \in {"prepare", "write"} => PutOp(op[v]))'
  <2> SUFFICES ASSUME NEW v \in Worker, op'[v].at \in {"prepare", "write"} PROVE PutOp(op[v])'
    OBVIOUS
  <2>1. op'[v] = IF v = w THEN o ELSE op[v]
    BY DEF TypeInv
  <2>2. PutOp(op'[v])
    BY <2>1 DEF StoreInv
  <2>3. QED
    BY <1>1, <2>2 DEF PutOp, PutBytes, ItemOf
<1>5. (value = [i \in NamedItems |-> Value(i)])'
  BY Remembered
<1>6. (past = [i \in NamedItems |-> past[i]] /\ \A i \in NamedItems : value[i] \in past[i])'
  BY Remembered
<1>7. QED
  BY <1>1, <1>3, <1>4, <1>5, <1>6 DEF StoreInv

LEMMA AnswerStore ==
  ASSUME StoreInv, StatusInv, TypeInv, Remember, NEW w \in Worker, NEW o, Answers(w, o),
         o.at \in {"prepare", "write"} => PutOp(o)
  PROVE  StoreInv'
<1>1. /\ op' = [op EXCEPT ![w] = o] /\ UNCHANGED topologyVars
      /\ ecu' = ecu /\ late' = late
  BY DEF Answers
<1>2. \A p \in Path : DOMAIN EcuData \subseteq DOMAIN ecu'[p]
  BY <1>1 DEF StoreInv
<1>3. \A p \in Path : \E S : late'[p] \in Seq(S) /\ \A r \in S : Known(p, r)
  BY <1>1 DEF StoreInv
<1>4. QED
  BY <1>1, <1>2, <1>3, StoreStep

\* What an exchange brings and what it leaves behind is known.
LEMMA ExchangeKnown ==
  ASSUME StoreInv, StatusInv, TypeInv, NEW path \in Path, NEW sid, NEW did, NEW bytes,
         NEW x \in Exchange(path, Request(sid, did, bytes)), Exchanged(path, x)
  PROVE  /\ x.ok => Known(path, x.resp)
         /\ \A p \in Path : \E S : late'[p] \in Seq(S) /\ \A r \in S : Known(p, r)
         /\ \A p \in Path : DOMAIN EcuData \subseteq DOMAIN ecu'[p]
<1> DEFINE req == Request(sid, did, bytes)
<1>1. ASSUME NEW r \in EcuReplies(ecu[path], req)
      PROVE  Known(path, r.resp) /\ DOMAIN r.data = DOMAIN ecu[path]
  <2>1. \/ IsNegative(r.resp) /\ r.data = ecu[path]
        \/ /\ r.resp.sid = sid /\ r.resp.did = did
           /\ sid = "read" => r.resp.bytes = ecu[path][did]
           /\ r.data = ecu[path] \/ r.data = [ecu[path] EXCEPT ![did] = bytes]
    <3>1. r \in EcuReplies(ecu[path], Request(sid, did, bytes))
      OBVIOUS
    <3>2. Replied(r, ecu[path], sid, did, bytes)
      BY <3>1, Reply
    <3>3. QED
      BY <3>2 DEF Replied
  <2>2. ASSUME ~IsNegative(r.resp), r.resp.sid = "read", NEW i \in NamedItems,
               i[1] = path, Named[i[2]].did = r.resp.did
        PROVE  Reads(i, r.resp.bytes) \in past[i]
    <3>1. Named[i[2]].did = did /\ r.resp.bytes = ecu[path][did]
      BY <2>1, <2>2
    <3>2. value[i] = Reads(i, ecu[i[1]][Named[i[2]].did])
      BY DEF StoreInv, Value, Reads
    <3>3. Reads(i, r.resp.bytes) = value[i]
      BY Zenon, <2>2, <3>1, <3>2
    <3>4. QED
      BY <3>3 DEF StoreInv
  <2>3. DOMAIN r.data = DOMAIN ecu[path]
    BY <2>1
  <2>4. QED
    BY <2>2, <2>3 DEF Known
<1>2. x \in Exchange(path, req)
  OBVIOUS
<1>3. PICK S : late[path] \in Seq(S) /\ \A r \in S : Known(path, r)
  BY DEF StoreInv
<1> DEFINE T == S \cup Responses(path, req) \cup {Pending}
<1>4. \A r \in T : Known(path, r)
  <2>1. Known(path, Pending)
    BY DEF Known, Pending, Negative, IsNegative
  <2>2. QED
    BY <1>1, <1>3, <2>1 DEF Responses
<1> HIDE DEF T, req
<1>5. x.late \in Seq(T) /\ (x.ok => x.resp \in T)
      /\ (x.data = ecu[path] \/ \E r \in EcuReplies(ecu[path], req) : x.data = r.data)
  <2>1. T = S \cup Responses(path, req) \cup {Pending}
    BY DEF T
  <2>2. QED
    BY <1>2, <1>3, <2>1, ExchangeAnswers, ExchangeEffect
<1>6. \A p \in Path : late'[p] = IF p = path THEN x.late ELSE late[p]
  BY DEF Exchanged, StatusInv
<1>7. \A p \in Path : ecu'[p] = IF p = path THEN x.data ELSE ecu[p]
  BY DEF Exchanged, TypeInv
<1>8. \A p \in Path : \E U : late'[p] \in Seq(U) /\ \A r \in U : Known(p, r)
  <2> TAKE p \in Path
  <2>1. CASE p = path
    BY <1>4, <1>5, <1>6, <2>1
  <2>2. CASE p # path
    BY <1>6, <2>2 DEF StoreInv
  <2>3. QED
    BY <2>1, <2>2
<1>9. DOMAIN x.data = DOMAIN ecu[path]
  BY <1>1, <1>5
<1>10. QED
  BY <1>4, <1>5, <1>7, <1>8, <1>9 DEF StoreInv

LEMMA ExchangeStore ==
  ASSUME StoreInv, StatusInv, TypeInv, Remember, NEW w \in Worker, NEW o, op' = [op EXCEPT ![w] = o],
         o.at \in {"prepare", "write"} => PutOp(o),
         NEW path \in Path, NEW sid, NEW did, NEW bytes,
         NEW x \in Exchange(path, Request(sid, did, bytes)), Exchanged(path, x)
  PROVE  StoreInv'
<1>1. UNCHANGED topologyVars
  BY DEF Exchanged
<1>2. QED
  BY <1>1, ExchangeKnown, StoreStep

LEMMA RequestStore ==
  ASSUME StoreInv, StatusInv, TypeInv, Remember, NEW w \in Worker, NEW path \in Path,
         \/ \E ids : GetData(w, path, ids)
         \/ \E id \in Id : \E body \in Bodies[id] : PutData(w, path, id, body)
  PROVE  StoreInv'
<1>1. CASE \E ids : GetData(w, path, ids)
  <2>1. PICK ids : GetData(w, path, ids)
    BY <1>1
  <2> DEFINE reading == [at |-> "read", path |-> path, asked |-> ids, got |-> <<>>]
  <2>2. PICK o : Answers(w, o) /\ (o = reading \/ \E status : o = Rejected(status))
    BY <2>1 DEF GetData
  <2>3. o.at \notin {"prepare", "write"}
    BY <2>2 DEF Rejected
  <2>4. QED
    BY <2>2, <2>3, AnswerStore
<1>2. CASE \E id \in Id : \E body \in Bodies[id] : PutData(w, path, id, body)
  <2>1. PICK id \in Id : \E body \in Bodies[id] : PutData(w, path, id, body)
    BY <1>2
  <2>2. PICK body \in Bodies[id] : PutData(w, path, id, body)
    BY <2>1
  <2> DEFINE preparing(bytes) ==
        [at |-> "prepare", path |-> path, id |-> id, body |-> body, bytes |-> bytes]
  <2>3. \/ \E status : Answers(w, Rejected(status))
        \/ \E bytes \in PutBytes(path, id, body) : Answers(w, preparing(bytes))
    BY <2>2 DEF PutData
  <2>4. \A bytes \in PutBytes(path, id, body) : PutOp(preparing(bytes))
    BY DEF PutOp
  <2>5. \A status : Rejected(status).at \notin {"prepare", "write"}
    BY DEF Rejected
  <2>6. QED
    BY <2>3, <2>4, <2>5, AnswerStore
<1>3. QED
  BY <1>1, <1>2

LEMMA ReadStore ==
  ASSUME StoreInv, StatusInv, TypeInv, Remember, NEW w \in Worker, op[w].at = "read",
         ReadFromEcu(w) \/ ReadFromMock(w)
  PROVE  StoreInv'
<1> DEFINE path == op[w].path
<1>1. \A result : Got(w, result).at \notin {"prepare", "write"}
  BY DEF Got
<1>2. (\E result : Answers(w, Got(w, result)))
      \/ \E result, did, x : /\ x \in Exchange(path, Request("read", did, <<>>)) /\ Exchanged(path, x)
                             /\ op' = [op EXCEPT ![w] = Got(w, result)]
  BY DEF ReadFromMock, ReadFromEcu
<1>3. CASE \E result : Answers(w, Got(w, result))
  BY <1>1, <1>3, AnswerStore
<1>4. CASE \E result, did, x : /\ x \in Exchange(path, Request("read", did, <<>>)) /\ Exchanged(path, x)
                               /\ op' = [op EXCEPT ![w] = Got(w, result)]
  <2>1. path \in Path
    BY DEF TypeInv
  <2> HIDE DEF path
  <2>2. QED
    BY <1>1, <1>4, <2>1, ExchangeStore
<1>5. QED
  BY <1>2, <1>3, <1>4

LEMMA PrepareStore ==
  ASSUME StoreInv, StatusInv, TypeInv, Remember, NEW w \in Worker, Prepare(w)
  PROVE  StoreInv'
<1> DEFINE path == op[w].path
           ready == [op[w] EXCEPT !.at = "write"]
<1>1. PutOp(ready) /\ \A status, took : PutDone(w, status, took).at \notin {"prepare", "write"}
  <2>1. PutOp(op[w])
    BY DEF Prepare, StoreInv
  <2>2. /\ ready.path = op[w].path /\ ready.id = op[w].id
        /\ ready.body = op[w].body /\ ready.bytes = op[w].bytes
    OBVIOUS
  <2> HIDE DEF ready
  <2>3. PutOp(ready)
    BY <2>1, <2>2 DEF PutOp
  <2>4. QED
    BY <2>3 DEF PutDone
<1>2. PICK o : /\ o.at \in {"prepare", "write"} => PutOp(o)
               /\ \/ Answers(w, o)
                  \/ \E x \in Exchange(path, Request("session", 0, <<>>)) :
                       Exchanged(path, x) /\ op' = [op EXCEPT ![w] = o]
  <2> HIDE DEF ready
  <2>1. QED
    BY <1>1 DEF Prepare, ready
<1>3. path \in Path
  BY DEF TypeInv, Prepare
<1> HIDE DEF path
<1>4. QED
  BY <1>2, <1>3, AnswerStore, ExchangeStore

LEMMA WriteStore ==
  ASSUME StoreInv, StatusInv, TypeInv, Remember, NEW w \in Worker, WriteToEcu(w) \/ WriteToMock(w)
  PROVE  StoreInv'
<1> DEFINE path == op[w].path
           did == DidOf(path, op[w].id)
<1>1. path \in Path
  BY DEF TypeInv, WriteToEcu, WriteToMock
<1>2. \A status, took : PutDone(w, status, took).at \notin {"prepare", "write"}
  BY DEF PutDone
<1>3. CASE WriteToEcu(w)
  <2> DEFINE io == AdapterItem(path, did) # Missing /\ AdapterItem(path, did).io_control
             status(x) == IF ~x.ok THEN HttpStatus("TRANSPORT")
                          ELSE IF Matches(x.resp, AnswerSid(io), did) THEN 204
                          ELSE HttpStatus(NegativeOrInternal(x.resp))
  <2>1. PICK x \in Exchange(path, Request(WriteSid(io), did, op[w].bytes)) :
          Exchanged(path, x) /\ op' = [op EXCEPT ![w] = PutDone(w, status(x), x.took)]
    BY <1>3 DEF WriteToEcu
  <2> HIDE DEF path, did, io, status
  <2>2. QED
    BY <1>1, <1>2, <2>1, ExchangeStore
<1>4. CASE WriteToMock(w)
  <2>1. /\ op' = [op EXCEPT ![w] = PutDone(w, 204, TRUE)] /\ late' = late /\ UNCHANGED topologyVars
    BY <1>4 DEF WriteToMock
  <2> DEFINE new == [d \in DOMAIN ecu[path] \cup {did} |-> IF d = did THEN op[w].bytes ELSE ecu[path][d]]
  <2>2. ecu' = [ecu EXCEPT ![path] = IF did = Missing THEN ecu[path] ELSE new]
    BY <1>4 DEF WriteToMock
  <2>3. DOMAIN ecu[path] \subseteq DOMAIN new
    OBVIOUS
  <2> HIDE DEF new, did, path
  <2>4. \A p \in Path : DOMAIN EcuData \subseteq DOMAIN ecu'[p]
    BY <1>1, <2>2, <2>3 DEF StoreInv, TypeInv
  <2>5. \A p \in Path : \E S : late'[p] \in Seq(S) /\ \A r \in S : Known(p, r)
    BY <2>1 DEF StoreInv
  <2>6. QED
    BY <1>2, <2>1, <2>4, <2>5, StoreStep
<1>5. QED
  BY <1>3, <1>4

\* Loading attaches only catalogs that some configuration names.
LEMMA MainStore ==
  ASSUME StoreInv, Main, Remember
  PROVE  StoreInv'
<1> DEFINE e == Head(config)
<1>1. config' \in Seq(Entries) /\ catalogs' \subseteq LoadPaths
  <2>1. CASE LoadEntity
    <3>1. e \in Entries /\ config' \in Seq(Entries)
      BY <2>1, HeadTailProperties DEF StoreInv, LoadEntity
    <3>2. catalogs' = catalogs \/ (e.catalog = "loads" /\ catalogs' = catalogs \cup {e.path})
      <4>1. catalogs' = catalogs \/ catalogs' = catalogs \cup (IF CanAdd(e.path) /\ e.catalog = "loads" THEN {e.path} ELSE {})
        BY <2>1 DEF LoadEntity, AttachGrouping, AttachForgotten, AttachBackend, AttachThrowing,
                    AttachProxy, AttachBrokenProxy, AttachMalformed
      <4>2. QED
        BY <4>1
    <3> HIDE DEF e
    <3>3. QED
      BY <3>1, <3>2 DEF StoreInv, LoadPaths
  <2>2. CASE Listen \/ Exit
    BY <2>2 DEF Listen, Exit, StoreInv
  <2>3. QED
    BY <2>1, <2>2 DEF Main, TopologyNext
<1>2. ecu' = ecu /\ late' = late /\ op' = op /\ \A w \in Worker : op[w].at = "idle"
  BY DEF Main, Idle
<1>3. value' = value /\ past' = past
  BY <1>2, Remembered
<1>4. \A i \in NamedItems : Value(i)' = Value(i)
  BY <1>2 DEF Value
<1>5. \A p, r : Known(p, r)' <=> Known(p, r)
  BY <1>3 DEF Known
<1>6. QED
  BY <1>1, <1>2, <1>3, <1>4, <1>5 DEF StoreInv

LEMMA StoreInvariant == DataSpec => []StoreInv
<1>1. DataInit => StoreInv
  <2> SUFFICES ASSUME DataInit PROVE StoreInv
    OBVIOUS
  <2>1. config \in Configs /\ catalogs = {}
    BY DEF DataInit, TopologyInit
  <2>2. config \in Seq(Entries) /\ catalogs \subseteq LoadPaths
    BY <2>1, EntriesTyped
  <2>3. \A p \in Path : ecu[p] = EcuData /\ late[p] = <<>>
    BY DEF DataInit
  <2>4. <<>> \in Seq({}) /\ \A p, r : r \in {} => Known(p, r)
    OBVIOUS
  <2>5. \A w \in Worker : op[w].at = "idle"
    BY DEF DataInit, Idle
  <2>6. value = [i \in NamedItems |-> Value(i)] /\ past = [i \in NamedItems |-> {value[i]}]
    BY DEF DataInit
  <2>7. past = [i \in NamedItems |-> past[i]] /\ \A i \in NamedItems : value[i] \in past[i]
    BY <2>6
  <2>8. \A p \in Path : \E S : late[p] \in Seq(S) /\ \A r \in S : Known(p, r)
    <3> TAKE p \in Path
    <3> WITNESS {}
    <3>1. QED
      BY <2>3, <2>4
  <2>9. \A p \in Path : DOMAIN EcuData \subseteq DOMAIN ecu[p]
    BY <2>3
  <2>10. QED
    BY <2>2, <2>5, <2>6, <2>7, <2>8, <2>9 DEF StoreInv
<1>2. StoreInv /\ StatusInv /\ TypeInv /\ [DataNext]_dataVars => StoreInv'
  <2> SUFFICES ASSUME StoreInv, StatusInv, TypeInv, [DataNext]_dataVars PROVE StoreInv'
    OBVIOUS
  <2>1. CASE Main /\ Remember
    BY <2>1, MainStore
  <2>2. CASE \E w \in Worker : ServeData(w) /\ Remember
    <3>1. PICK w \in Worker : ServeData(w) /\ Remember
      BY <2>2
    <3>2. Finish(w) => StoreInv'
      <4>1. Idle.at \notin {"prepare", "write"}
        BY DEF Idle
      <4>2. QED
        BY <3>1, <4>1, AnswerStore DEF Finish
    <3>3. QED
      BY <3>1, <3>2, RequestStore, ReadStore, PrepareStore, WriteStore DEF ServeData
  <2>3. CASE UNCHANGED dataVars
    <3>1. \A i \in NamedItems : Value(i)' = Value(i)
      BY <2>3 DEF dataVars, Value
    <3>2. \A p, r : Known(p, r)' <=> Known(p, r)
      BY <2>3 DEF dataVars, Known
    <3>3. \A o : PutOp(o)' <=> PutOp(o)
      BY <2>3 DEF dataVars, PutOp, PutBytes, ItemOf
    <3>4. QED
      BY <2>3, <3>1, <3>2, <3>3 DEF dataVars, StoreInv
  <2>4. QED
    BY <2>1, <2>2, <2>3 DEF DataNext, DataStep
<1>3. QED
  BY <1>1, <1>2, StatusInvariant, TypeInvariant, PTL DEF DataSpec

(***************************************************************************)
(* Every step is one of the registers'.                                    *)
(***************************************************************************)

Tellings == [w \in Worker |-> ToldBy(op[w])]

Tells(w, told) == Tellings' = [Tellings EXCEPT ![w] = told]

LEMMA ToldStep ==
  ASSUME TypeInv, catalogs' = catalogs, NEW w \in Worker, NEW o, op' = [op EXCEPT ![w] = o]
  PROVE  Tells(w, ToldBy(o))
<1>1. \A v \in Worker : op'[v] = IF v = w THEN o ELSE op[v]
  BY DEF TypeInv
<1>2. \A v \in Worker : ToldBy(op[v])' = ToldBy(op'[v])
  BY DEF ToldBy, ItemOf
<1>3. \A v \in Worker : Tellings'[v] = IF v = w THEN ToldBy(o) ELSE Tellings[v]
  BY <1>1, <1>2 DEF Tellings
<1>4. Tellings' = [v \in Worker |-> Tellings'[v]] /\ Tellings = [v \in Worker |-> Tellings[v]]
  BY DEF Tellings
<1>5. QED
  BY <1>3, <1>4 DEF Tells

\* Nobody is told anything but by a result or by the outcome of a write.
LEMMA Untold ==
  ASSUME NEW o, "took" \notin DOMAIN o, "got" \notin DOMAIN o
  PROVE  ToldBy(o) = Missing
  BY DEF ToldBy

LEMMA PutUntold ==
  ASSUME StatusInv, BatchesInv, NEW w \in Worker, op[w].at \in {"idle", "prepare", "write"}
  PROVE  Tellings[w] = Missing
<1>1. "took" \notin DOMAIN op[w]
  BY DEF StatusInv, OpInv
<1>2. "got" \notin DOMAIN op[w]
  BY DEF BatchesInv, BatchInv
<1>3. QED
  BY <1>1, <1>2, Untold DEF Tellings

\* An answer has been late on a path, or on none; whichever it is, no more
\* than one connection is less punctual than it was.
Lags(path) == behind' = behind \/ behind' = behind \cup {path}

LEMMA LagsIsOne ==
  ASSUME NEW path, Lags(path)
  PROVE  Store!Lags(path) \/ UNCHANGED (Path \ behind)
<1>1. CASE behind' = behind
  BY <1>1
<1>2. CASE behind' = behind \cup {path}
  BY <1>2 DEF Store!Lags
<1>3. QED
  BY <1>1, <1>2 DEF Lags

LEMMA ExchangeLags ==
  ASSUME StatusInv, TypeInv, Remember, NEW path \in Path, NEW x, Exchanged(path, x)
  PROVE  Lags(path)
<1>1. \A p \in Path : late'[p] = IF p = path THEN x.late ELSE late[p]
  BY DEF Exchanged, StatusInv
<1>2. \A p \in Path : p # path /\ late'[p] # <<>> => p \in behind
  BY <1>1 DEF StatusInv
<1>3. QED
  BY <1>2 DEF Remember, Lags

LEMMA NoneLags ==
  ASSUME StatusInv, TypeInv, Remember, late' = late
  PROVE  behind' = behind
<1>1. \A p \in Path : late'[p] # <<>> => p \in behind
  BY DEF StatusInv
<1>2. QED
  BY <1>1 DEF Remember

\* Errors, and operations that go on.
LEMMA ForgetStep ==
  ASSUME StoreInv, Remember, ecu' = ecu, NEW w \in Worker, Tells(w, Missing),
         behind' = behind \/ \E path \in Path : Lags(path)
  PROVE  Store!Next
<1>1. value' = value /\ past' = past
  BY Remembered
<1>2. (\E path \in Path : Store!Lags(path)) \/ UNCHANGED (Path \ behind)
  <2>1. CASE behind' = behind
    BY <2>1
  <2>2. CASE \E path \in Path : Lags(path)
    BY <2>2, LagsIsOne
  <2>3. QED
    BY <2>1, <2>2
<1>3. Store!Forget(w)
  BY <1>1, <1>2 DEF Store!Forget, Tells, Tellings
<1>4. QED
  BY <1>3 DEF Store!Next

LEMMA ReadStep ==
  ASSUME StoreInv, Remember, ecu' = ecu, NEW w \in Worker, NEW i \in NamedItems, NEW v \in past[i],
         Tells(w, Store!Told(i, v)), i[1] \notin behind => v = value[i], behind' = behind
  PROVE  Store!Next
<1>1. value' = value /\ past' = past
  BY Remembered
<1>2. Store!Read(w, i)
  BY <1>1 DEF Store!Read, Store!Tell, Store!Told, EntityOf, Tells, Tellings
<1>3. QED
  BY <1>2 DEF Store!Next

\* A write that was executed on one item, seen from the registers.
Holds(i, v) == value' = [value EXCEPT ![i] = v] /\ past' = [past EXCEPT ![i] = @ \cup {v}]

\* A write to a named item, executed or not, whatever its client is told.
LEMMA NamedWriteStep ==
  ASSUME TypeInv, Remember, NEW w \in Worker, NEW i \in NamedItems, NEW body \in Inputs(i),
         NEW status, NEW took \in BOOLEAN,
         took => Holds(i, ReadsAs(i, body)),
         ~took => value' = value /\ past' = past,
         status = 204 => Tells(w, Store!Told(i, ReadsAs(i, body))),
         status # 204 => Tells(w, Missing),
         Tellings[w] = Missing, i[1] \in Path, Lags(i[1]),
         status = 204 => behind' = behind,
         ~took /\ status = 204 => i[1] \in behind
  PROVE  Store!Next
<1>1. CASE took /\ status = 204
  <2>1. Store!Write(w, i, body)
    BY <1>1 DEF Store!Write, Store!Tell, Store!Told, Store!Hold, Tells, Tellings, Holds
  <2>2. QED
    BY <2>1 DEF Store!Next
<1>2. CASE took /\ status # 204
  <2>1. Tellings' = Tellings
    BY <1>2 DEF Tells, Tellings
  <2>2. Store!Lags(EntityOf(i)) \/ UNCHANGED (Path \ behind)
    BY LagsIsOne DEF EntityOf
  <2>3. Store!WriteUnseen(i, body)
    BY <1>2, <2>1, <2>2 DEF Store!WriteUnseen, Store!Hold, Tellings, Holds
  <2>4. QED
    BY <2>3 DEF Store!Next
<1>3. CASE ~took /\ status = 204
  <2>1. Store!WriteMisled(w, i, body)
    BY <1>3 DEF Store!WriteMisled, Store!Tell, Store!Told, EntityOf, Tells, Tellings
  <2>2. QED
    BY <2>1 DEF Store!Next
<1>4. CASE ~took /\ status # 204
  <2>1. Store!Lags(i[1]) \/ UNCHANGED (Path \ behind)
    BY LagsIsOne
  <2>2. Store!Forget(w)
    BY <1>4, <2>1 DEF Store!Forget, Tells, Tellings
  <2>3. QED
    BY <2>2 DEF Store!Next
<1>5. QED
  BY <1>1, <1>2, <1>3, <1>4

\* A write under a DID, of which no client is told.
LEMMA RawWriteStep ==
  ASSUME NEW w \in Worker, Tellings[w] = Missing, Tells(w, Missing), NEW path \in Path, Lags(path),
         \/ value' = value /\ past' = past
         \/ \E i \in NamedItems : i[1] = path /\ Holds(i, value'[i])
  PROVE  Store!Next
<1>1. Store!Lags(path) \/ UNCHANGED (Path \ behind)
  BY LagsIsOne
<1>2. CASE value' = value /\ past' = past
  <2>1. Store!Forget(w)
    BY <1>1, <1>2 DEF Store!Forget, Tells, Tellings
  <2>2. QED
    BY <2>1 DEF Store!Next
<1>3. CASE \E i \in NamedItems : i[1] = path /\ Holds(i, value'[i])
  <2>1. PICK i \in NamedItems : i[1] = path /\ Holds(i, value'[i])
    BY <1>3
  <2>2. Tellings' = Tellings
    BY DEF Tells, Tellings
  <2>3. Store!WriteRaw(i)
    BY <1>1, <2>1, <2>2 DEF Store!WriteRaw, Store!Hold, EntityOf, Tellings, Holds
  <2>4. QED
    BY <2>3 DEF Store!Next
<1>4. QED
  BY <1>2, <1>3

LEMMA AnswerTold ==
  ASSUME StoreInv, StatusInv, TypeInv, Remember,
         NEW w \in Worker, NEW o, Answers(w, o), ToldBy(o) = Missing
  PROVE  Store!Next
<1>1. op' = [op EXCEPT ![w] = o] /\ catalogs' = catalogs /\ ecu' = ecu /\ late' = late
  BY DEF Answers, topologyVars
<1>2. Tells(w, Missing)
  BY <1>1, ToldStep
<1>3. behind' = behind
  BY <1>1, NoneLags
<1>4. QED
  BY <1>1, <1>2, <1>3, ForgetStep

\* What a PUT is answered at once, or becomes.
LEMMA PutAnswers ==
  ASSUME NEW w, NEW path, NEW id, NEW body, PutData(w, path, id, body)
  PROVE  \/ \E status : Answers(w, Rejected(status))
         \/ \E bytes : Answers(w, [at |-> "prepare", path |-> path, id |-> id,
                                   body |-> body, bytes |-> bytes])
<1>1. CASE Preflight(path) # 200
  BY <1>1 DEF PutData
<1>2. CASE Preflight(path) = 200
  <2> DEFINE rejections == Rejections(path, id, body)
             preparing(bytes) ==
               [at |-> "prepare", path |-> path, id |-> id, body |-> body, bytes |-> bytes]
  <2> HIDE DEF rejections
  <2>1. \/ \E status \in rejections : Answers(w, Rejected(status))
        \/ IF PutBytes(path, id, body) = {} THEN Answers(w, Rejected(400))
           ELSE \E bytes \in PutBytes(path, id, body) : Answers(w, preparing(bytes))
    BY Zenon, <1>2 DEF PutData, rejections
  <2>2. QED
    BY Zenon, <2>1
<1>3. QED
  BY <1>1, <1>2

LEMMA RequestTold ==
  ASSUME StoreInv, StatusInv, TypeInv, Remember, NEW w \in Worker, NEW path \in Path,
         \/ \E ids : GetData(w, path, ids)
         \/ \E id \in Id : \E body \in Bodies[id] : PutData(w, path, id, body)
  PROVE  Store!Next
<1> DEFINE reading(ids) == [at |-> "read", path |-> path, asked |-> ids, got |-> <<>>]
           preparing(id, body, bytes) ==
             [at |-> "prepare", path |-> path, id |-> id, body |-> body, bytes |-> bytes]
<1>1. ASSUME NEW status, Answers(w, Rejected(status)) PROVE Store!Next
  <2>1. ToldBy(Rejected(status)) = Missing
    BY Untold DEF Rejected
  <2>2. QED
    BY <1>1, <2>1, AnswerTold
<1>2. ASSUME NEW ids, Answers(w, reading(ids)) PROVE Store!Next
  <2>1. ToldBy(reading(ids)) = Missing
    BY DEF ToldBy
  <2>2. QED
    BY <1>2, <2>1, AnswerTold
<1>3. ASSUME NEW id, NEW body, NEW bytes, Answers(w, preparing(id, body, bytes)) PROVE Store!Next
  <2>1. ToldBy(preparing(id, body, bytes)) = Missing
    BY Untold
  <2>2. QED
    BY <1>3, <2>1, AnswerTold
<1>4. ASSUME NEW ids, GetData(w, path, ids) PROVE Store!Next
  <2>1. Answers(w, reading(ids)) \/ \E status : Answers(w, Rejected(status))
    BY <1>4 DEF GetData
  <2>2. QED
    BY <1>1, <1>2, <2>1
<1>5. ASSUME NEW id \in Id, NEW body \in Bodies[id], PutData(w, path, id, body) PROVE Store!Next
  <2>1. \/ \E status : Answers(w, Rejected(status))
        \/ \E bytes : Answers(w, preparing(id, body, bytes))
    BY Zenon, <1>5, PutAnswers
  <2>2. QED
    BY <1>1, <1>3, <2>1
<1>6. QED
  BY <1>4, <1>5

\* What the end of a PUT tells: the value it asked for, if it was accepted.
LEMMA PutDoneTold ==
  ASSUME NEW w \in Worker, NEW status, NEW took, NEW i, i = <<op[w].path, op[w].id>>
  PROVE  LET Silent == status # 204 \/ ItemOf(op[w].path, op[w].id) = Missing
         IN /\ ~Silent => ToldBy(PutDone(w, status, took)) = Store!Told(i, ReadsAs(i, op[w].body))
            /\ Silent => ToldBy(PutDone(w, status, took)) = Missing
<1> DEFINE o == PutDone(w, status, took)
<1>1. /\ "took" \in DOMAIN o /\ o.status = status
      /\ o.path = op[w].path /\ o.id = op[w].id /\ o.body = op[w].body
  BY DEF PutDone
<1> HIDE DEF o
<1>2. /\ status = 204 /\ ItemOf(o.path, o.id) # Missing => ToldBy(o) = Store!Told(i, ReadsAs(i, o.body))
      /\ status # 204 \/ ItemOf(o.path, o.id) = Missing => ToldBy(o) = Missing
  BY <1>1 DEF ToldBy, Store!Told
<1>3. QED
  BY <1>1, <1>2 DEF o

\* What a result tells: the value, if it is one and the item is named.
LEMMA GotTold ==
  ASSUME NEW w \in Worker, BatchInv(op[w]), OpInv(op[w], behind), op[w].at = "read", NEW result
  PROVE  ToldBy(Got(w, result)) =
           IF result.status = 200 /\ ItemOf(op[w].path, result.id) # Missing
           THEN [i \in {<<op[w].path, result.id>>} |-> result.value]
           ELSE Missing
<1> DEFINE o == Got(w, result)
           got == Append(op[w].got, result)
<1>1. PICK S : op[w].got \in Seq(S)
  BY DEF BatchInv
<1>2. got # <<>> /\ Last(got) = result
  BY <1>1 DEF Last
<1> HIDE DEF got
<1>3. "took" \notin DOMAIN o /\ "got" \in DOMAIN o /\ o.got = got /\ o.path = op[w].path
  BY DEF Got, got, BatchInv, OpInv
<1> HIDE DEF o
<1>4. QED
  BY <1>2, <1>3 DEF ToldBy, o

\* Some bytes that a named item holds, or, after a late answer, has held.
Justified(path, id, bytes) ==
  \A i \in NamedItems :
    i[1] = path /\ i[2] = id /\ ItemOf(path, id) # Missing /\ Decode(Named[id], bytes) # {}
      => Reads(i, bytes) \in past[i] /\ (path \notin behind => Reads(i, bytes) = value[i])

\* A result for an item of the catalog, of bytes it holds or has held.
Results(w, id, bytes, result) ==
  /\ result = Decoded(op[w].path, id, bytes) \/ \E r : result = Failed(id, r)
  /\ op' = [op EXCEPT ![w] = Got(w, result)]
  /\ catalogs' = catalogs
  /\ ecu' = ecu
  /\ Lags(op[w].path)
  /\ result.status = 200 => behind' = behind
  /\ result.status = 200 => Justified(op[w].path, id, bytes)

LEMMA ResultTold ==
  ASSUME StoreInv, TypeInv, Remember, NEW w \in Worker, NEW id \in Id, op[w].path \in Path,
         BatchInv(op[w]), OpInv(op[w], behind), op[w].at = "read",
         NEW bytes, NEW result, Results(w, id, bytes, result)
  PROVE  Store!Next
<1> DEFINE path == op[w].path
<1>0. /\ result = Decoded(path, id, bytes) \/ \E r : result = Failed(id, r)
      /\ op' = [op EXCEPT ![w] = Got(w, result)]
      /\ catalogs' = catalogs
      /\ ecu' = ecu
      /\ Lags(path)
      /\ result.status = 200 => behind' = behind
      /\ result.status = 200 => Justified(path, id, bytes)
  BY Zenon DEF Results
<1>1. \A r : Failed(id, r).status # 200 /\ Failed(id, r).id = id
  BY DEF Failed, HttpStatus
<1>2. result.id = id
  BY <1>0, <1>1 DEF Decoded
<1>3. CASE result.status = 200 /\ ItemOf(path, id) # Missing
  <2> DEFINE i == <<path, id>>
  <2>1. catalogs \subseteq LoadPaths
    BY DEF StoreInv
  <2>2. i \in NamedItems /\ ItemOf(path, id) = Named[id]
    BY <1>3, <2>1, ItemOfNamed
  <2>3. i[1] = path /\ i[2] = id
    OBVIOUS
  <2>4. result = Decoded(path, id, bytes)
    BY <1>0, <1>1, <1>3
  <2> HIDE DEF path
  <2>5. Decode(Named[id], bytes) # {} /\ result.value = CHOOSE v \in Decode(Named[id], bytes) : TRUE
    BY <1>1, <1>3, <2>2, <2>4 DEF Decoded
  <2>6. result.value = Reads(i, bytes)
    BY <2>3, <2>5 DEF Reads
  <2>7. Tells(w, Store!Told(i, result.value))
    <3>1. ToldBy(Got(w, result)) = Store!Told(i, result.value)
      BY <1>2, <1>3, GotTold DEF path, Store!Told
    <3>2. QED
      BY <1>0, <3>1, ToldStep
  <2> HIDE DEF i
  <2>8. result.value \in past[i] /\ (i[1] \notin behind => result.value = value[i])
    <3>1. ItemOf(path, id) # Missing /\ result.status = 200 /\ Decode(Named[id], bytes) # {}
      BY <1>3, <2>5
    <3>2. Justified(path, id, bytes)
      BY <1>0, <1>3
    <3>3. QED
      BY Zenon, <2>2, <2>3, <2>6, <3>1, <3>2 DEF Justified
  <2>9. QED
    BY <1>0, <1>3, <2>2, <2>7, <2>8, ReadStep
<1>4. CASE ~(result.status = 200 /\ ItemOf(path, id) # Missing)
  <2>1. Tells(w, Missing)
    BY <1>0, <1>2, <1>4, ToldStep, GotTold
  <2>2. QED
    BY <1>0, <2>1, ForgetStep
<1>5. QED
  BY <1>3, <1>4


\* What an exchange does to the devices: nothing, unless it is a write that
\* took.
LEMMA ExchangeWrites ==
  ASSUME TypeInv, NEW path \in Path, NEW sid, NEW did, NEW bytes,
         NEW x \in Exchange(path, Request(sid, did, bytes)), Exchanged(path, x)
  PROVE  /\ x.took \in BOOLEAN
         /\ sid \in {"session", "read"} \/ ~x.took => ecu' = ecu
         /\ sid \notin {"session", "read"} /\ x.took => Wrote(path, did, bytes)
<1> DEFINE req == Request(sid, did, bytes)
<1>1. x \in Exchange(path, req) /\ \A r \in EcuReplies(ecu[path], req) : Replied(r, ecu[path], sid, did, bytes)
  BY Reply
<1> HIDE DEF req
<1>2. /\ x.took \in BOOLEAN
      /\ \/ ~x.took /\ x.data = ecu[path]
         \/ \E r \in EcuReplies(ecu[path], req) : x.data = r.data /\ (x.took <=> ~IsNegative(r.resp))
  BY <1>1, ExchangeEffect
<1>3. ecu' = [ecu EXCEPT ![path] = x.data] /\ ecu = [p \in Path |-> ecu[p]]
  BY DEF Exchanged, TypeInv
<1>4. sid \in {"session", "read"} \/ ~x.took => x.data = ecu[path]
  BY <1>1, <1>2 DEF Replied
<1>5. sid \notin {"session", "read"} /\ x.took =>
        did \in DOMAIN ecu[path] /\ x.data = [ecu[path] EXCEPT ![did] = bytes]
  BY <1>1, <1>2 DEF Replied
<1>6. x.data = ecu[path] => ecu' = ecu
  BY <1>3
<1>7. did \in DOMAIN ecu[path] /\ x.data = [ecu[path] EXCEPT ![did] = bytes] => Wrote(path, did, bytes)
  BY <1>3 DEF Wrote
<1>8. QED
  BY <1>2, <1>4, <1>5, <1>6, <1>7

\* An exchange that brings an answer that is no refusal leaves the connections
\* as they were; while no answer on this one has been late, it is its own.
LEMMA ExchangePunctual ==
  ASSUME StatusInv, TypeInv, Remember, NEW path \in Path, NEW sid, NEW did, NEW bytes,
         NEW x \in Exchange(path, Request(sid, did, bytes)), Exchanged(path, x),
         x.ok, ~IsNegative(x.resp)
  PROVE  behind' = behind /\ (path \notin behind => x.resp \in Responses(path, Request(sid, did, bytes)))
<1>1. late[path] = <<>> => x.resp \in Responses(path, Request(sid, did, bytes)) /\ x.late = <<>>
  <2>1. x.resp # Pending
    BY DEF Pending, Negative, IsNegative
  <2>2. QED
    BY <2>1, PunctualExchange
<1>2. \A p \in Path : late'[p] = IF p = path THEN x.late ELSE late[p]
  BY DEF Exchanged, StatusInv
<1>3. \A p \in Path \ behind : late[p] = <<>>
  BY DEF StatusInv
<1>4. \A p \in Path : late'[p] # <<>> => p \in behind
  BY <1>1, <1>2, <1>3
<1>5. behind' = behind
  BY <1>4 DEF Remember
<1>6. QED
  BY <1>1, <1>3, <1>5

\* The exchange of a read of an item, when its answer is accepted.
ReadOf(i, path, did, x) ==
  /\ i[1] = path /\ did = Named[i[2]].did
  /\ x \in Exchange(path, Request("read", did, <<>>)) /\ Exchanged(path, x)
  /\ x.ok /\ Matches(x.resp, "read", did)
  /\ Decode(Named[i[2]], x.resp.bytes) # {}

\* What a read brings of an item is a value the item has had, and the one it
\* has while no answer of its entity has been late.
LEMMA ReadBrings ==
  ASSUME StoreInv, StatusInv, TypeInv, Remember,
         NEW path \in Path, NEW i \in NamedItems, NEW did, NEW x, ReadOf(i, path, did, x)
  PROVE  /\ Reads(i, x.resp.bytes) \in past[i]
         /\ path \notin behind => Reads(i, x.resp.bytes) = value[i]
<1>0. /\ i[1] = path /\ did = Named[i[2]].did
      /\ x \in Exchange(path, Request("read", did, <<>>)) /\ Exchanged(path, x)
      /\ x.ok /\ Matches(x.resp, "read", did)
      /\ Decode(Named[i[2]], x.resp.bytes) # {}
  BY Zenon DEF ReadOf
<1>1. Known(path, x.resp)
  BY <1>0, ExchangeKnown
<1>2. Reads(i, x.resp.bytes) \in past[i]
  BY <1>0, <1>1 DEF Known, Matches
<1>3. ASSUME path \notin behind PROVE Reads(i, x.resp.bytes) = value[i]
  <2>1. PICK r \in EcuReplies(ecu[path], Request("read", did, <<>>)) : x.resp = r.resp
    BY <1>0, <1>3, ExchangePunctual DEF Responses, Matches
  <2>2. Replied(r, ecu[path], "read", did, <<>>)
    BY Reply
  <2>3. x.resp.bytes = ecu[path][did]
    BY <1>0, <2>1, <2>2 DEF Replied, Matches
  <2>4. value[i] = Reads(i, ecu[i[1]][Named[i[2]].did])
    BY DEF StoreInv, Value, Reads
  <2>5. QED
    BY Zenon, <1>0, <2>3, <2>4
<1>4. QED
  BY <1>2, <1>3

LEMMA ReadTold ==
  ASSUME StoreInv, StatusInv, TypeInv, BatchesInv, Remember, NEW w \in Worker, op[w].at = "read",
         ReadFromEcu(w) \/ ReadFromMock(w)
  PROVE  Store!Next
<1> DEFINE path == op[w].path
           id == op[w].asked[Len(op[w].got) + 1]
           did == DidOf(path, id)
<1>1. BatchInv(op[w]) /\ OpInv(op[w], behind) /\ path \in Path /\ catalogs \subseteq LoadPaths
  BY DEF BatchesInv, StatusInv, TypeInv, StoreInv
<1>2. id \in Id
  <2>1. op[w].asked \in Seq(Id) /\ Len(op[w].got) < Len(op[w].asked) /\ Len(op[w].got) \in Nat
    BY <1>1 DEF BatchInv
  <2>2. QED
    BY <2>1
<1>3. ASSUME NEW i \in NamedItems, i[1] = path, i[2] = id, ItemOf(path, id) # Missing
      PROVE  Named[i[2]].did = did
  BY <1>1, <1>2, <1>3, ItemOfNamed
<1>4. ASSUME NEW r, Answers(w, Got(w, Failed(id, r))) PROVE Store!Next
  <2>1. Failed(id, r).status # 200
    BY DEF Failed, HttpStatus
  <2>2. ToldBy(Got(w, Failed(id, r))) = Missing
    BY <1>1, <2>1, GotTold
  <2>3. QED
    BY <1>4, <2>2, AnswerTold
<1>5. CASE ReadFromEcu(w)
  <2>1. CASE Answers(w, Got(w, Failed(id, "BAD_REQUEST")))
    BY <1>4, <2>1
  <2>2. ASSUME NEW x \in Exchange(path, Request("read", did, <<>>)), Exchanged(path, x),
               NEW result, op' = [op EXCEPT ![w] = Got(w, result)],
               \/ /\ result = Decoded(path, id, x.resp.bytes)
                  /\ x.ok /\ Matches(x.resp, "read", did)
               \/ \E r : result = Failed(id, r)
        PROVE  Store!Next
    <3>1. ecu' = ecu /\ catalogs' = catalogs
      <4>1. catalogs' = catalogs
        BY <2>2 DEF Exchanged, topologyVars
      <4>2. path \in Path
        BY <1>1
      <4>3. x \in Exchange(path, Request("read", did, <<>>)) /\ Exchanged(path, x)
        BY <2>2
      <4> HIDE DEF path, did, id
      <4>4. "read" \in {"session", "read"}
        OBVIOUS
      <4>5. ecu' = ecu
        BY Zenon, <4>2, <4>3, <4>4, ExchangeWrites
      <4>6. QED
        BY <4>1, <4>5
    <3>2. \A r : Failed(id, r).status # 200
      BY DEF Failed, HttpStatus
    <3>3. result = Decoded(path, id, x.resp.bytes) \/ \E r : result = Failed(id, r)
      BY <2>2
    <3>4. result.status = 200 => x.ok /\ Matches(x.resp, "read", did)
      BY <2>2, <3>2
    <3> HIDE DEF id
    <3>5. Lags(path) /\ (result.status = 200 => behind' = behind)
      <4>1. x \in Exchange(path, Request("read", did, <<>>)) /\ Exchanged(path, x) /\ path \in Path
        BY <1>1, <2>2
      <4> HIDE DEF path, did
      <4>2. Lags(path)
        BY <4>1, ExchangeLags
      <4>3. x.ok /\ Matches(x.resp, "read", did) => behind' = behind
        BY <4>1, ExchangePunctual DEF Matches
      <4>4. QED
        BY <3>4, <4>2, <4>3
    <3>6. ASSUME NEW i \in NamedItems, i[1] = path, i[2] = id, ItemOf(path, id) # Missing,
                 Decode(Named[id], x.resp.bytes) # {}, result.status = 200
          PROVE  /\ Reads(i, x.resp.bytes) \in past[i]
                 /\ path \notin behind => Reads(i, x.resp.bytes) = value[i]
      <4>1. did = Named[i[2]].did
        BY <1>3, <3>6
      <4>2. x \in Exchange(path, Request("read", did, <<>>)) /\ path \in Path
        BY <1>1
      <4> HIDE DEF did, path
      <4>3. ReadOf(i, path, did, x)
        BY <2>2, <3>4, <3>6, <4>1, <4>2 DEF ReadOf
      <4>4. QED
        BY Zenon, <4>2, <4>3, ReadBrings
    <3>7. result.status = 200 => Justified(path, id, x.resp.bytes)
      BY <3>6 DEF Justified
    <3>8. Results(w, id, x.resp.bytes, result)
      BY <2>2, <3>1, <3>3, <3>5, <3>7 DEF Results
    <3>9. QED
      BY <1>1, <1>2, <3>8, ResultTold
  <2>3. \/ Answers(w, Got(w, Failed(id, "BAD_REQUEST")))
        \/ \E x \in Exchange(path, Request("read", did, <<>>)) : \E result :
             /\ Exchanged(path, x) /\ op' = [op EXCEPT ![w] = Got(w, result)]
             /\ \/ /\ result = Decoded(path, id, x.resp.bytes)
                   /\ x.ok /\ Matches(x.resp, "read", did)
                \/ \E r : result = Failed(id, r)
    BY <1>5 DEF ReadFromEcu
  <2>4. QED
    BY <2>1, <2>2, <2>3
<1>6. CASE ReadFromMock(w)
  <2>1. \/ Answers(w, Got(w, Failed(id, "NOT_FOUND")))
        \/ Answers(w, Got(w, Decoded(path, id, ecu[path][did])))
    BY <1>6 DEF ReadFromMock
  <2>2. ASSUME Answers(w, Got(w, Decoded(path, id, ecu[path][did]))) PROVE Store!Next
    <3> DEFINE bytes == ecu[path][did]
               result == Decoded(path, id, bytes)
    <3>1. op' = [op EXCEPT ![w] = Got(w, result)] /\ ecu' = ecu /\ late' = late /\ catalogs' = catalogs
      BY <2>2 DEF Answers, topologyVars
    <3>2. behind' = behind /\ Lags(path)
      BY <3>1, NoneLags DEF Lags
    <3>3. ASSUME NEW i \in NamedItems, i[1] = path, i[2] = id, ItemOf(path, id) # Missing
          PROVE  Reads(i, bytes) \in past[i] /\ Reads(i, bytes) = value[i]
      <4>1. did = Named[i[2]].did
        BY <1>3, <3>3
      <4>2. value[i] = Reads(i, ecu[i[1]][Named[i[2]].did]) /\ value[i] \in past[i]
        BY DEF StoreInv, Value, Reads
      <4> HIDE DEF did, path, id
      <4>3. QED
        BY Zenon, <3>3, <4>1, <4>2
    <3> HIDE DEF id, bytes
    <3>4. Justified(path, id, bytes)
      BY <3>3 DEF Justified
    <3>5. Results(w, id, bytes, result)
      BY <3>1, <3>2, <3>4 DEF Results
    <3> HIDE DEF result
    <3>6. QED
      BY <1>1, <1>2, <3>5, ResultTold
  <2>3. QED
    BY <1>4, <2>1, <2>2
<1>7. QED
  BY <1>5, <1>6

LEMMA PrepareTold ==
  ASSUME StoreInv, StatusInv, TypeInv, BatchesInv, Remember, NEW w \in Worker, Prepare(w)
  PROVE  Store!Next
<1> DEFINE path == op[w].path
           ready == [op[w] EXCEPT !.at = "write"]
           Untelling(o) == ToldBy(o) = Missing
<1>1. Untelling(ready)
  <2>1. op[w].at = "prepare" /\ "took" \notin DOMAIN op[w] /\ "got" \notin DOMAIN op[w]
    BY DEF Prepare, StatusInv, OpInv, BatchesInv, BatchInv
  <2>2. DOMAIN ready = DOMAIN op[w]
    OBVIOUS
  <2> HIDE DEF ready
  <2>3. QED
    BY <2>1, <2>2, Untold
<1>2. \A result : Untelling(PutDone(w, HttpStatus(result), FALSE))
  BY PutDoneTold, ErrorStatus
<1>3. PICK o : /\ Untelling(o)
               /\ \/ Answers(w, o)
                  \/ \E x \in Exchange(path, Request("session", 0, <<>>)) :
                       Exchanged(path, x) /\ op' = [op EXCEPT ![w] = o]
  <2> HIDE DEF ready, Untelling
  <2>1. QED
    BY <1>1, <1>2 DEF Prepare, ready
<1>4. path \in Path
  BY DEF TypeInv, Prepare
<1> HIDE DEF path
<1>5. CASE Answers(w, o)
  BY <1>3, <1>5, AnswerTold
<1>6. ASSUME NEW x \in Exchange(path, Request("session", 0, <<>>)), Exchanged(path, x),
             op' = [op EXCEPT ![w] = o]
      PROVE  Store!Next
  <2>1. ecu' = ecu /\ catalogs' = catalogs
    BY <1>4, <1>6, ExchangeWrites DEF Exchanged, topologyVars
  <2>2. Tells(w, Missing)
    BY <1>3, <1>6, <2>1, ToldStep
  <2>3. Lags(path)
    BY <1>4, <1>6, ExchangeLags
  <2>4. QED
    BY <1>4, <2>1, <2>2, <2>3, ForgetStep
<1>7. QED
  BY <1>3, <1>5, <1>6

\* When one item is all that changes, it is all that is remembered.
LEMMA OneHolds ==
  ASSUME StoreInv, Remember, NEW i \in NamedItems,
         \A j \in NamedItems : j # i => value'[j] = value[j]
  PROVE  Holds(i, value'[i])
<1>1. /\ value' = [j \in NamedItems |-> Value(j)'] /\ value = [j \in NamedItems |-> Value(j)]
      /\ past' = [j \in NamedItems |-> past[j] \cup {value'[j]}]
      /\ past = [j \in NamedItems |-> past[j]] /\ \A j \in NamedItems : value[j] \in past[j]
  BY Remembered DEF StoreInv
<1>2. value' = [value EXCEPT ![i] = value'[i]]
  <2>1. DOMAIN value' = NamedItems /\ value' = [j \in NamedItems |-> value'[j]]
    BY <1>1
  <2>2. \A j \in NamedItems : value'[j] = IF j = i THEN value'[i] ELSE value[j]
    OBVIOUS
  <2>3. DOMAIN value = NamedItems /\ value = [j \in NamedItems |-> value[j]]
    BY <1>1
  <2>4. QED
    BY <2>1, <2>2, <2>3
<1>3. past' = [past EXCEPT ![i] = @ \cup {value'[i]}]
  <2>1. \A j \in NamedItems : j # i => past[j] \cup {value'[j]} = past[j]
    BY <1>1
  <2>2. QED
    BY <1>1, <2>1
<1>4. QED
  BY <1>2, <1>3 DEF Holds

\* A write changes at most the item whose DID it names, to what the bytes
\* read as.
LEMMA WroteOne ==
  ASSUME StoreInv, TypeInv, FaithfulCatalog, Remember,
         NEW p \in Path, NEW did, NEW bytes, Wrote(p, did, bytes)
  PROVE  /\ \A i \in NamedItems :
              i[1] = p /\ Named[i[2]].did = did =>
                Holds(i, Reads(i, bytes))
         /\ (\A i \in NamedItems : ~(i[1] = p /\ Named[i[2]].did = did))
              => value' = value /\ past' = past
<1>1. \A i \in NamedItems :
        value'[i] = IF i[1] = p /\ Named[i[2]].did = did THEN Reads(i, bytes) ELSE value[i]
  BY Stored
<1>2. ASSUME NEW i \in NamedItems, i[1] = p, Named[i[2]].did = did
      PROVE  Holds(i, Reads(i, bytes))
  <2>1. ASSUME NEW j \in NamedItems, j # i PROVE value'[j] = value[j]
    BY <1>1, <1>2, <2>1, OwnDid
  <2>2. QED
    BY <1>1, <1>2, <2>1, OneHolds
<1>3. ASSUME \A i \in NamedItems : ~(i[1] = p /\ Named[i[2]].did = did)
      PROVE  value' = value /\ past' = past
  <2>1. \A i \in NamedItems : value'[i] = value[i]
    BY <1>1, <1>3
  <2>2. value' = [i \in NamedItems |-> value'[i]] /\ value = [i \in NamedItems |-> value[i]]
    BY Remembered DEF StoreInv
  <2>3. value' = value
    BY <2>1, <2>2
  <2>4. past' = [i \in NamedItems |-> past[i] \cup {value'[i]}]
    BY Remembered
  <2>5. \A i \in NamedItems : past[i] \cup {value'[i]} = past[i]
    BY <2>1 DEF StoreInv
  <2>6. past = [i \in NamedItems |-> past[i]]
    BY DEF StoreInv
  <2>7. QED
    BY <2>3, <2>4, <2>5, <2>6
<1>4. QED
  BY <1>2, <1>3

\* The end of a PUT: the device has executed the write or not, and what its
\* client is told of that is right unless an answer of it has been late.
PutEnds(w, did, status, took) ==
  /\ did = DidOf(op[w].path, op[w].id)
  /\ took \in BOOLEAN
  /\ op' = [op EXCEPT ![w] = PutDone(w, status, took)]
  /\ catalogs' = catalogs
  /\ ecu' = ecu \/ (took /\ Wrote(op[w].path, did, op[w].bytes))
  /\ took => did = Missing \/ Wrote(op[w].path, did, op[w].bytes)
  /\ Lags(op[w].path)
  /\ status = 204 => behind' = behind
  /\ ~took /\ status = 204 => op[w].path \in behind

LEMMA PutTold ==
  ASSUME StoreInv, StatusInv, TypeInv, BatchesInv, FaithfulCatalog, Remember,
         NEW w \in Worker, op[w].at \in {"prepare", "write"},
         NEW did, NEW status, NEW took, PutEnds(w, did, status, took)
  PROVE  Store!Next
<1> DEFINE path == op[w].path
           id == op[w].id
           i == <<path, id>>
           body == op[w].body
<1>0. /\ did = DidOf(path, id) /\ took \in BOOLEAN
      /\ op' = [op EXCEPT ![w] = PutDone(w, status, took)] /\ catalogs' = catalogs
      /\ ecu' = ecu \/ (took /\ Wrote(path, did, op[w].bytes))
      /\ took => did = Missing \/ Wrote(path, did, op[w].bytes)
      /\ Lags(path)
      /\ status = 204 => behind' = behind
      /\ ~took /\ status = 204 => path \in behind
  BY Zenon DEF PutEnds
<1>1. path \in Path /\ id \in Id /\ body \in Bodies[id] /\ op[w].bytes \in PutBytes(path, id, body)
  BY DEF StoreInv, PutOp
<1>2. Tellings[w] = Missing
  BY PutUntold
<1>3. ecu' = ecu => value' = value /\ past' = past
  BY <1>0, Remembered
<1>4. CASE ItemOf(path, id) # Missing
  <2>1. i \in NamedItems /\ ItemOf(path, id) = Named[id] /\ did = Named[id].did
    BY <1>0, <1>1, <1>4, ItemOfNamed DEF StoreInv
  <2>2. i[1] = path /\ i[2] = id
    OBVIOUS
  <2> HIDE DEF i
  <2>3. did # Missing
    BY <2>1, <2>2, NamedItemsAre DEF Parsed
  <2>4. op[w].bytes \in Encode(Named[i[2]], body)
    BY <1>1, <1>4, <2>1, <2>2 DEF PutBytes
  <2>5. Reads(i, op[w].bytes) = ReadsAs(i, body) /\ body \in Inputs(i)
    BY <1>1, <2>1, <2>2, <2>4, AcceptedReadsAs
  <2>6. took => Holds(i, ReadsAs(i, body))
    <3>1. took => Wrote(path, did, op[w].bytes)
      BY <1>0, <2>3
    <3> HIDE DEF path, id, body
    <3>2. QED
      BY <1>0, <1>1, <2>1, <2>2, <2>5, <3>1, WroteOne
  <2>7. ~took => value' = value /\ past' = past
    BY <1>0, <1>3
  <2>8. /\ status = 204 => ToldBy(PutDone(w, status, took)) = Store!Told(i, ReadsAs(i, body))
        /\ status # 204 => ToldBy(PutDone(w, status, took)) = Missing
    BY <1>4, PutDoneTold DEF i
  <2> HIDE DEF path, id, body
  <2>9. Tells(w, ToldBy(PutDone(w, status, took)))
    BY <1>0, ToldStep
  <2>10. /\ status = 204 => Tells(w, Store!Told(i, ReadsAs(i, body)))
         /\ status # 204 => Tells(w, Missing)
    BY <2>8, <2>9
  <2>11. QED
    BY <1>0, <1>1, <1>2, <2>1, <2>2, <2>5, <2>6, <2>7, <2>10, NamedWriteStep
<1>5. CASE ItemOf(path, id) = Missing
  <2>1. Tells(w, Missing)
    <3>1. ToldBy(PutDone(w, status, took)) = Missing
      BY <1>5, PutDoneTold
    <3>2. QED
      BY <1>0, <3>1, ToldStep
  <2>2. \/ value' = value /\ past' = past
        \/ \E j \in NamedItems : j[1] = path /\ Holds(j, value'[j])
    <3>1. CASE ecu' = ecu
      BY <1>3, <3>1
    <3>2. CASE Wrote(path, did, op[w].bytes)
      <4>1. \/ value' = value /\ past' = past
            \/ \E j \in NamedItems : j[1] = path /\ Holds(j, Reads(j, op[w].bytes))
        <5> HIDE DEF path
        <5>1. QED
          BY <1>0, <1>1, <3>2, WroteOne
      <4>2. \A v : \A j \in NamedItems : Holds(j, v) => value'[j] = v
        BY DEF Holds, StoreInv
      <4>3. QED
        BY <4>1, <4>2
    <3>3. QED
      BY <1>0, <3>1, <3>2
  <2>3. QED
    BY <1>0, <1>1, <1>2, <2>1, <2>2, RawWriteStep
<1>6. QED
  BY <1>4, <1>5

LEMMA WriteTold ==
  ASSUME StoreInv, StatusInv, TypeInv, BatchesInv, FaithfulCatalog, Remember, StatusInv',
         NEW w \in Worker, WriteToEcu(w) \/ WriteToMock(w)
  PROVE  Store!Next
<1> DEFINE path == op[w].path
           did == DidOf(path, op[w].id)
<1>1. op[w].at \in {"prepare", "write"} /\ path \in Path /\ catalogs' = catalogs
  BY DEF TypeInv, WriteToEcu, WriteToMock, Exchanged, topologyVars
<1>2. CASE WriteToEcu(w)
  <2> DEFINE io == AdapterItem(path, did) # Missing /\ AdapterItem(path, did).io_control
             status(x) == IF ~x.ok THEN HttpStatus("TRANSPORT")
                          ELSE IF Matches(x.resp, AnswerSid(io), did) THEN 204
                          ELSE HttpStatus(NegativeOrInternal(x.resp))
  <2>1. PICK x \in Exchange(path, Request(WriteSid(io), did, op[w].bytes)) :
          Exchanged(path, x) /\ op' = [op EXCEPT ![w] = PutDone(w, status(x), x.took)]
    BY <1>2 DEF WriteToEcu
  <2>2. PICK s : s = status(x)
    OBVIOUS
  <2>3. s = 204 => x.ok /\ ~IsNegative(x.resp)
    BY <2>2, ErrorStatus DEF Matches
  <2>4. WriteSid(io) \notin {"session", "read"}
    BY DEF WriteSid
  <2>5. op' = [op EXCEPT ![w] = PutDone(w, s, x.took)]
    BY <2>1, <2>2
  <2> HIDE DEF io, status, did, path
  <2>6. x.took \in BOOLEAN
        /\ (~x.took => ecu' = ecu) /\ (x.took => Wrote(path, did, op[w].bytes))
    BY <1>1, <2>1, <2>4, ExchangeWrites
  <2>7. Lags(path) /\ (s = 204 => behind' = behind)
    BY <1>1, <2>1, <2>3, ExchangePunctual, ExchangeLags
  <2>8. path \notin behind' => Truthful(s, x.took)
    <3>1. op'[w] = PutDone(w, s, x.took)
      BY <2>5 DEF StatusInv
    <3>2. OpInv(op'[w], behind')
      BY DEF StatusInv
    <3>3. QED
      BY <3>1, <3>2 DEF OpInv, PutDone, path
  <2>9. ~x.took /\ s = 204 => path \in behind
    BY <2>7, <2>8 DEF Truthful
  <2>10. did = DidOf(op[w].path, op[w].id) /\ path = op[w].path
    BY Zenon DEF did, path
  <2>11. PutEnds(w, did, s, x.took)
    BY <1>1, <2>5, <2>6, <2>7, <2>9, <2>10 DEF PutEnds
  <2>12. QED
    BY <1>1, <2>11, PutTold
<1>3. CASE WriteToMock(w)
  <2> DEFINE new == [d \in DOMAIN ecu[path] \cup {did} |-> IF d = did THEN op[w].bytes ELSE ecu[path][d]]
  <2>1. op' = [op EXCEPT ![w] = PutDone(w, 204, TRUE)] /\ late' = late
        /\ ecu' = [ecu EXCEPT ![path] = IF did = Missing THEN ecu[path] ELSE new]
    BY <1>3 DEF WriteToMock
  <2>2. behind' = behind /\ Lags(path)
    BY <2>1, NoneLags DEF Lags
  <2>3. new[did] = op[w].bytes /\ \A d \in DOMAIN ecu[path] : d # did => new[d] = ecu[path][d]
    OBVIOUS
  <2> HIDE DEF new, did, path
  <2>4. did = Missing => ecu' = ecu
    BY <2>1 DEF TypeInv
  <2>5. did # Missing => Wrote(path, did, op[w].bytes)
    BY <2>1, <2>3 DEF Wrote
  <2>6. did = DidOf(op[w].path, op[w].id) /\ path = op[w].path
    BY Zenon DEF did, path
  <2>7. PutEnds(w, did, 204, TRUE)
    BY <1>1, <2>1, <2>2, <2>4, <2>5, <2>6 DEF PutEnds
  <2>8. QED
    BY <1>1, <2>7, PutTold
<1>4. QED
  BY <1>2, <1>3

\* Of a faithful catalog, the data routes implement the registers of
\* DataStore: from any worker's point of view a read returns what the item
\* holds and an accepted write sets it, to the item's resolution, through
\* read_one_data_item and handle_put_data (routes_data.cpp), encode and decode
\* (did_catalog.cpp) and send_and_resolve (uds_doip_adapter.cpp), whatever
\* the ECU refuses and however the workers interleave; and once an answer of
\* an entity has come late, a read of it still returns some value that item
\* has had, and the other entities are none the worse.
THEOREM DataRoutesImplementDataStore ==
  ASSUME FaithfulCatalog
  PROVE  DataSpec => ImplementsDataStore
<1>1. DataInit => Store!Init
  <2> SUFFICES ASSUME DataInit PROVE Store!Init
    OBVIOUS
  <2>1. ToldBy(Idle) = Missing
    BY Untold DEF Idle
  <2>2. [w \in Worker |-> ToldBy(op[w])] = [w \in Worker |-> Missing]
    BY <2>1 DEF DataInit
  <2>3. DOMAIN value = NamedItems /\ past = [i \in NamedItems |-> {value[i]}] /\ behind = {}
    BY DEF DataInit
  <2>4. QED
    BY <2>2, <2>3 DEF Store!Init
<1>2. StatusInv /\ StatusInv' /\ TypeInv /\ BatchesInv /\ StoreInv /\ [DataNext]_dataVars
        => [Store!Next]_(Store!storeVars)
  <2> SUFFICES ASSUME StatusInv, StatusInv', TypeInv, BatchesInv, StoreInv, [DataNext]_dataVars
               PROVE  [Store!Next]_(Store!storeVars)
    OBVIOUS
  <2>1. ASSUME Main, Remember PROVE UNCHANGED Store!storeVars
    <3>1. op' = op /\ ecu' = ecu /\ late' = late /\ \A w \in Worker : op[w] = Idle
      BY <2>1 DEF Main
    <3>2. \A w \in Worker : ToldBy(op[w]) = Missing /\ ToldBy(op[w])' = Missing
      BY <3>1 DEF ToldBy, Idle
    <3>3. Tellings' = Tellings
      BY <3>2 DEF Tellings
    <3>4. value' = value /\ past' = past
      BY <2>1, <3>1, Remembered
    <3>5. behind' = behind
      BY <2>1, <3>1, NoneLags
    <3>6. QED
      BY <3>3, <3>4, <3>5 DEF Tellings, Store!storeVars
  <2>2. ASSUME NEW w \in Worker, ServeData(w), Remember PROVE Store!Next
    <3>1. Finish(w) => Store!Next
      <4>1. ToldBy(Idle) = Missing
        BY Untold DEF Idle
      <4>2. QED
        BY <2>2, <4>1, AnswerTold DEF Finish
    <3>2. QED
      BY <2>2, <3>1, RequestTold, ReadTold, PrepareTold, WriteTold DEF ServeData
  <2>3. CASE UNCHANGED dataVars
    <3>1. \A w \in Worker : ToldBy(op[w])' = ToldBy(op[w])
      BY <2>3 DEF dataVars, ToldBy, ItemOf
    <3>2. Tellings' = Tellings
      BY <3>1 DEF Tellings
    <3>3. QED
      BY <2>3, <3>2 DEF dataVars, Tellings, Store!storeVars
  <2>4. QED
    BY <2>1, <2>2, <2>3 DEF DataNext, DataStep
<1>3. QED
  BY <1>1, <1>2, StatusInvariant, TypeInvariant, BatchesInvariant, StoreInvariant, PTL
     DEF DataSpec, ImplementsDataStore, Store!Spec

=============================================================================
