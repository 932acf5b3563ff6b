----------------------------- MODULE DataRoutes -----------------------------
(***************************************************************************)
(* The data routes of a server that has loaded its topology:               *)
(*   - server/src/routes_data.cpp: GET and PUT of one data item, and GET   *)
(*     of several, over the workers of the HTTP server;                    *)
(*   - the read_data and write_data of the mock and the UDS/DoIP adapter,  *)
(*     with the codecs of uds_services.cpp and the map of nrc_map.cpp;     *)
(*   - the catalog between the two, which encodes and decodes.             *)
(*                                                                         *)
(* send_and_resolve holds the adapter's mutex, so an exchange is one step. *)
(* What DoipTransport models frame by frame is here one queue per          *)
(* connection: an answer that comes after its exchange has timed out is    *)
(* read by the next one.  The lock check and the session manager are       *)
(* LockRoutes' and SessionManager's: here, only their outcome.             *)
(***************************************************************************)
EXTENDS Topology, Catalog, TLC

CONSTANTS Worker,
          CatalogFile,   \* the file behind every did_catalog that loads
          BrokenFiles,   \* files behind those that fail with a CatalogError
          Id,            \* what a request may name: an item, a DID, neither
          HexDid,        \* the ids that read as a DID, and as which
          Bodies,        \* the JSON bodies a PUT of an id may have
          Batches,       \* the ids a batch may ask for
          EcuData,       \* what every ECU and every mock holds at first
          Nrcs,          \* the reasons an ECU may give for refusing
          MaxFaults      \* bound on lost and late answers, for model checking

ASSUME DataRoutesAssumption ==
  /\ Loads(CatalogFile)
  /\ \A f \in BrokenFiles : ~Loads(f)
  /\ CatalogFile \in Seq(Range(CatalogFile))
  /\ \A y \in Range(CatalogFile) : YamlItem(y) /\ y.id \in Id /\ ParseDataItem(y) # Missing
  /\ HexDid \in [DOMAIN HexDid -> 0 .. MaxDid] /\ DOMAIN HexDid \subseteq Id
  /\ \A id \in Id : \A body \in Bodies[id] :
       /\ body.is = "number" => body.value \in Int
       /\ body.is = "string" => body.value \in Texts
  /\ EcuData \in [DOMAIN EcuData -> Texts]
  /\ Batches \subseteq Seq(Id)
  /\ MaxFaults \in Nat

Catalogued == Items(CatalogFile)
Named == [id \in Id |-> FindById(Catalogued, id)]
Numbered == [did \in 0 .. MaxDid |-> FindByDid(Catalogued, did)]

VARIABLES op,            \* each worker's request, or its answer
          ecu,           \* what the device behind each path holds, by DID
          late,          \* the answers still to come on each path's connection
          faults,        \* how many there have been
          value,         \* history: the value of each named item
          past,          \* history: the values it has had
          behind         \* history: the paths on which an answer has come late

dataVars == <<phase, config, order, contexts, created, forgotten, destroyed, backends,
              catalogs, proxies, op, ecu, late, faults, value, past, behind>>

Idle == [at |-> "idle"]

\* The items of the entities that may have a catalog, by path and id, and the
\* value the bytes of each stand for; Missing when they are not of its type.
NamedItems ==
  {e.path : e \in {e \in UNION {Range(c) : c \in Configs} : e.catalog = "loads"}}
    \X {item.id : item \in Range(Catalogued)}

Value(i) ==
  LET item == Named[i[2]]
      values == Decode(item, ecu[i[1]][item.did])
  IN IF values = {} THEN Missing ELSE CHOOSE v \in values : TRUE

DataInit ==
  /\ TopologyInit
  /\ op = [w \in Worker |-> Idle]
  /\ ecu = [p \in Path |-> EcuData]
  /\ late = [p \in Path |-> <<>>]
  /\ faults = 0
  /\ value = [i \in NamedItems |-> Value(i)]
  /\ past = [i \in NamedItems |-> {value[i]}]
  /\ behind = {}

(***************************************************************************)
(* UDS.                                                                    *)
(***************************************************************************)

\* The SID of a positive response is that of its request plus 0x40; both
\* are named by the service here.
Request(sid, did, bytes) == [sid |-> sid, did |-> did, bytes |-> bytes]
Positive(req, bytes) == [sid |-> req.sid, did |-> req.did, bytes |-> bytes]
Negative(nrc) == [nrc |-> nrc]

\* is_negative_response: it does not look at the SID that was refused.
IsNegative(resp) == "nrc" \in DOMAIN resp

\* decode_read_data_by_identifier, decode_write_data_by_identifier,
\* decode_io_control and decode_diagnostic_session_control.
Matches(resp, sid, did) == ~IsNegative(resp) /\ resp.sid = sid /\ resp.did = did

\* nrc_to_sovd_result.
NrcToResult(nrc) ==
  CASE nrc \in {17, 18, 112, 126, 127} -> "UNSUPPORTED"
    [] nrc \in {19, 49}                -> "BAD_REQUEST"
    [] nrc \in {33, 54, 55, 120}       -> "BUSY"
    [] nrc \in {34, 36}                -> "CONFLICT"
    [] nrc \in {51, 53}                -> "FORBIDDEN"
    [] OTHER                           -> "INTERNAL"

\* http_status_for.
HttpStatus(result) ==
  CASE result = "NOT_FOUND"   -> 404
    [] result = "BAD_REQUEST" -> 400
    [] result = "UNSUPPORTED" -> 501
    [] result = "BUSY"        -> 503
    [] result = "TRANSPORT"   -> 502
    [] result = "FORBIDDEN"   -> 403
    [] result = "CONFLICT"    -> 409
    [] OTHER                  -> 500

NegativeOrInternal(resp) == IF IsNegative(resp) THEN NrcToResult(resp.nrc) ELSE "INTERNAL"

\* The ECU's possible answers to a request, and what it then holds.
EcuReplies(data, req) ==
  {[data |-> data, resp |-> Negative(nrc)] : nrc \in Nrcs} \cup
  (IF req.sid = "session" THEN {[data |-> data, resp |-> Positive(req, <<>>)]}
   ELSE IF req.did \notin DOMAIN data THEN {}
   ELSE IF req.sid = "read" THEN {[data |-> data, resp |-> Positive(req, data[req.did])]}
   ELSE {[data |-> [data EXCEPT ![req.did] = req.bytes], resp |-> Positive(req, <<>>)]})

NoResponse == Negative(0)

\* Stands for more response-pendings than an exchange waits out.
Pending == Negative(120)

\* When the answers come, to this request and those old ones still awaited:
\* in time for the exchange, later, or never.
Arrivals(old, answer) ==
  ({<<>>} \X {<<>>, old, answer, old \o answer})
    \cup ({old, Append(old, Pending)} \X {<<>>, answer})

\* The end of an exchange, which reads the oldest answer that has come: what
\* the ECU then holds, whether it executed the request, and what it has for
\* the caller and leaves in the connection.
Ends(data, took, now, later, fault) ==
  [data |-> data, took |-> took, fault |-> fault,
   ok |-> now # <<>>,
   resp |-> IF now = <<>> THEN NoResponse ELSE Head(now),
   late |-> (IF now = <<>> THEN <<>> ELSE Tail(now)) \o later]

\* send_and_resolve: without a fault the answer is in time.  With one it is
\* late or lost, whether or not the ECU executed the request, and so may be
\* the old ones; or the request itself is lost.
Exchange(path, req) ==
  LET old == late[path]
      replies == EcuReplies(ecu[path], req)
      InTime == {Ends(r.data, ~IsNegative(r.resp), Append(old, r.resp), <<>>, 0) : r \in replies}
      Faulty(r) == {Ends(r.data, ~IsNegative(r.resp), a[1], a[2], 1) : a \in Arrivals(old, <<r.resp>>)}
      Unheard == {Ends(ecu[path], FALSE, a[1], a[2], 1) : a \in Arrivals(old, <<>>)}
  IN InTime \cup (IF faults < MaxFaults THEN (UNION {Faulty(r) : r \in replies}) \cup Unheard ELSE {})

\* Mutation: all adapters use one connection.
ExchangedOnOneSocket(path, x) ==
  /\ ecu' = [ecu EXCEPT ![path] = x.data]
  /\ late' = [p \in Path |-> x.late]
  /\ faults' = faults + x.fault
  /\ UNCHANGED topologyVars

\* What an exchange leaves behind.
Exchanged(path, x) ==
  /\ ecu' = [ecu EXCEPT ![path] = x.data]
  /\ late' = [late EXCEPT ![path] = x.late]
  /\ faults' = faults + x.fault
  /\ UNCHANGED topologyVars

(***************************************************************************)
(* Finding the item and the adapter.                                       *)
(***************************************************************************)

Backend(path) == backends[contexts[path]]

\* find_catalog(path)->find_by_id(id), or Missing.
ItemOf(path, id) == IF path \in catalogs THEN Named[id] ELSE Missing

\* did_hex as the adapter reads it, or Missing.
DidOf(path, id) ==
  LET item == ItemOf(path, id)
  IN IF item # Missing THEN item.did
     ELSE IF id \in DOMAIN HexDid THEN HexDid[id] ELSE Missing

\* The adapter looks the DID up again, by number.
AdapterItem(path, did) ==
  IF path \in catalogs /\ did # Missing THEN Numbered[did] ELSE Missing

\* The answers a handler gives before it looks at the request's own content.
Preflight(path) ==
  IF path \notin Registered THEN 404
  ELSE IF path \in proxies THEN 307
  ELSE IF contexts[path] = NoContext THEN 501
  ELSE 200

Rejected(status) == [at |-> "done", status |-> status]

Answers(w, answer) ==
  /\ op' = [op EXCEPT ![w] = answer]
  /\ UNCHANGED <<topologyVars, ecu, late, faults>>

(***************************************************************************)
(* handle_get_data and handle_get_data_batch, over read_one_data_item.     *)
(***************************************************************************)

GetData(w, path, ids) ==
  /\ phase = "serving" /\ op[w] = Idle
  /\ Answers(w, IF Preflight(path) # 200 THEN Rejected(Preflight(path))
                ELSE IF ids = <<>> THEN Rejected(400)
                ELSE [at |-> "read", path |-> path, asked |-> ids, got |-> <<>>])

Failed(id, result) == [id |-> id, status |-> HttpStatus(result), value |-> Missing]

\* The end of read_one_data_item: a named item is decoded, any other is hex.
Decoded(path, id, bytes) ==
  LET item == ItemOf(path, id)
      values == IF item = Missing THEN {ToHex(bytes)} ELSE Decode(item, bytes)
  IN IF values = {} THEN Failed(id, "TRANSPORT")
     ELSE [id |-> id, status |-> 200, value |-> CHOOSE v \in values : TRUE]

\* Mutation: the first item that fails ends the batch.
GotUntilFailure(w, result) ==
  LET got == Append(op[w].got, result)
  IN [op[w] EXCEPT !.got = got,
                   !.at = IF Len(got) = Len(op[w].asked) \/ result.status # 200 THEN "done" ELSE @]

\* The next result; after the last of them the answer goes out.
Got(w, result) ==
  LET got == Append(op[w].got, result)
  IN [op[w] EXCEPT !.got = got,
                   !.at = IF Len(got) = Len(op[w].asked) THEN "done" ELSE @]

\* read_one_data_item with uds_doip_read_data.
ReadFromEcu(w) ==
  LET path == op[w].path
      id == op[w].asked[Len(op[w].got) + 1]
      did == DidOf(path, id)
  IN /\ Backend(path) = "uds_doip"
     /\ IF did = Missing
        THEN Answers(w, Got(w, Failed(id, "BAD_REQUEST")))
        ELSE \E x \in Exchange(path, Request("read", did, <<>>)) :
               /\ Exchanged(path, x)
               /\ op' = [op EXCEPT ![w] = Got(w,
                    IF ~x.ok THEN Failed(id, "TRANSPORT")
                    ELSE IF Matches(x.resp, "read", did) THEN Decoded(path, id, x.resp.bytes)
                    ELSE Failed(id, NegativeOrInternal(x.resp)))]

\* read_one_data_item with mock_read_data.
ReadFromMock(w) ==
  LET path == op[w].path
      id == op[w].asked[Len(op[w].got) + 1]
      did == DidOf(path, id)
  IN /\ Backend(path) = "mock"
     /\ Answers(w, Got(w, IF did \in DOMAIN ecu[path] THEN Decoded(path, id, ecu[path][did])
                          ELSE Failed(id, "NOT_FOUND")))

(***************************************************************************)
(* handle_put_data.                                                        *)
(***************************************************************************)

\* The rejections after Preflight, in the order of the code.
Rejections(path, id, body) ==
  LET item == ItemOf(path, id)
  IN {423} \cup
     (IF item # Missing /\ item.access = "read" THEN {400}
      ELSE (IF item # Missing /\ item.security > 0 THEN {403} ELSE {})
           \cup (IF body.is = "none" THEN {400} ELSE {}))

\* The bytes a PUT asks to be written; none of them when the value is bad.
PutBytes(path, id, body) ==
  LET item == ItemOf(path, id)
  IN IF item = Missing THEN IF body.is = "string" THEN FromHex(body.value) ELSE {}
     ELSE Encode(item, body)

PutData(w, path, id, body) ==
  /\ phase = "serving" /\ op[w] = Idle
  /\ IF Preflight(path) # 200 THEN Answers(w, Rejected(Preflight(path)))
     ELSE LET rejections == Rejections(path, id, body) IN
          \/ \E status \in rejections : Answers(w, Rejected(status))
          \/ /\ 400 \notin rejections
             /\ IF PutBytes(path, id, body) = {} THEN Answers(w, Rejected(400))
                ELSE \E bytes \in PutBytes(path, id, body) :
                       Answers(w, [at |-> "prepare", path |-> path, id |-> id,
                                   body |-> body, bytes |-> bytes])

\* The end of a PUT: took is whether its write was executed.
PutDone(w, status, took) ==
  [at |-> "done", path |-> op[w].path, id |-> op[w].id, body |-> op[w].body,
   status |-> status, took |-> took]

\* uds_doip_write_data up to the write: the session, if one is called for
\* and not open yet, and the security level.
Prepare(w) ==
  LET path == op[w].path
      did == DidOf(path, op[w].id)
      item == AdapterItem(path, did)
      Ready == [op[w] EXCEPT !.at = "write"]
  IN /\ op[w].at = "prepare" /\ Backend(path) = "uds_doip"
     /\ \/ /\ did = Missing
           /\ Answers(w, PutDone(w, HttpStatus("BAD_REQUEST"), FALSE))
        \/ /\ did # Missing
           /\ Answers(w, Ready)
        \/ /\ item # Missing /\ item.session # Missing
           /\ \E x \in Exchange(path, Request("session", 0, <<>>)) :
                /\ Exchanged(path, x)
                /\ op' = [op EXCEPT ![w] =
                     IF x.ok /\ Matches(x.resp, "session", 0) THEN Ready
                     ELSE PutDone(w, HttpStatus("TRANSPORT"), FALSE)]
        \/ /\ item # Missing /\ item.security > 0
           /\ Answers(w, PutDone(w, HttpStatus("FORBIDDEN"), FALSE))

\* Mutation: the answer to an IO control is taken for a write's.
AnswerSidOfWrite(io) == "write"

\* 0x2F or 0x2E, for the request and for its answer.
WriteSid(io) == IF io THEN "io" ELSE "write"
AnswerSid(io) == IF io THEN "io" ELSE "write"

\* The write itself.
WriteToEcu(w) ==
  LET path == op[w].path
      did == DidOf(path, op[w].id)
      item == AdapterItem(path, did)
      io == item # Missing /\ item.io_control
  IN /\ op[w].at = "write"
     /\ \E x \in Exchange(path, Request(WriteSid(io), did, op[w].bytes)) :
          /\ Exchanged(path, x)
          /\ op' = [op EXCEPT ![w] = PutDone(w,
               IF ~x.ok THEN HttpStatus("TRANSPORT")
               ELSE IF Matches(x.resp, AnswerSid(io), did) THEN 204
               ELSE HttpStatus(NegativeOrInternal(x.resp)), x.took)]

\* mock_write_data.  What it keeps under an id that is no DID is left out.
WriteToMock(w) ==
  LET path == op[w].path
      did == DidOf(path, op[w].id)
  IN /\ op[w].at = "prepare" /\ Backend(path) = "mock"
     /\ ecu' = [ecu EXCEPT ![path] = IF did = Missing THEN @
              ELSE [d \in DOMAIN @ \cup {did} |-> IF d = did THEN op[w].bytes ELSE @[d]]]
     /\ op' = [op EXCEPT ![w] = PutDone(w, 204, TRUE)]
     /\ UNCHANGED <<topologyVars, late, faults>>

(***************************************************************************)
(* The specification.                                                      *)
(***************************************************************************)

\* The worker's answer has gone out.
Finish(w) == op[w].at = "done" /\ Answers(w, Idle)

ServeData(w) ==
  \/ \E path \in Path, id \in Id : GetData(w, path, <<id>>)
  \/ \E path \in Path, ids \in Batches : GetData(w, path, ids)
  \/ \E path \in Path, id \in Id : \E body \in Bodies[id] : PutData(w, path, id, body)
  \/ op[w].at = "read" /\ (ReadFromEcu(w) \/ ReadFromMock(w))
  \/ Prepare(w)
  \/ WriteToEcu(w)
  \/ WriteToMock(w)
  \/ Finish(w)

\* main returns only when the server has stopped, with no request left.
Main ==
  /\ TopologyNext
  /\ \A w \in Worker : op[w] = Idle
  /\ UNCHANGED <<op, ecu, late, faults>>

DataStep == Main \/ \E w \in Worker : ServeData(w)

Remember ==
  /\ value' = IF ecu' = ecu THEN value ELSE [i \in NamedItems |-> Value(i)']
  /\ past' = [i \in NamedItems |-> past[i] \cup {value'[i]}]
  /\ behind' = behind \cup {path \in Path : late'[path] # <<>>}

DataNext == DataStep /\ Remember

DataSpec == DataInit /\ [][DataNext]_dataVars

(***************************************************************************)
(* Properties.                                                             *)
(***************************************************************************)

IsBytes(s) == \A i \in DOMAIN s : s[i] \in Bytes

\* Every byte sent to a device, or held by one, is a byte: what a PUT
\* encodes fits the digits its catalog item gives it.
DataTypeOK ==
  /\ phase \in {"loading", "failed", "crashed", "serving", "exited"}
  /\ \A path \in Path : \A did \in DOMAIN ecu[path] : IsBytes(ecu[path][did])
  /\ \A w \in Worker :
       /\ op[w].at \in {"idle", "read", "prepare", "write", "done"}
       /\ op[w].at \in {"prepare", "write"} => IsBytes(op[w].bytes)
  /\ faults \in 0 .. MaxFaults
  /\ behind \in SUBSET Path

\* As long as no answer of an entity has been late, the status of a PUT does
\* not contradict what the device did, be it a write or an IO control: 204
\* only if it executed it, and if it did, 204 or one of the two statuses that
\* leave it open, 502 for no answer and 503 for one still pending, whatever
\* was lost on the way and whatever other connections are late with.
StatusTellsTheTruth ==
  \A w \in Worker :
    op[w].at = "done" /\ "took" \in DOMAIN op[w] /\ op[w].path \notin behind
      => /\ op[w].status = 204 => op[w].took
         /\ op[w].took => op[w].status \in {204, 502, 503}

\* The answer to a batch has one result for every id that was asked for, in
\* that order, whichever of them failed (routes_data.cpp:68-71).
BatchAnswersEveryId ==
  \A w \in Worker :
    op[w].at = "done" /\ "asked" \in DOMAIN op[w]
      => [i \in DOMAIN op[w].got |-> op[w].got[i].id] = op[w].asked

(***************************************************************************)
(* The named items as the registers of DataStore.  A worker stands for the *)
(* client it answers.                                                      *)
(***************************************************************************)

Inputs(i) ==
  {body \in Bodies[i[2]] :
     body.is = IF Named[i[2]].type = "float" THEN "number" ELSE "string"}

\* The multiple of scale nearest to v, of two the one further from zero.
Nearest(v, scale) ==
  LET step == Abs(scale)
      below == step * (v \div step)
      Closer(m, n) == \/ Abs(v - m) < Abs(v - n)
                      \/ Abs(v - m) = Abs(v - n) /\ Abs(m) > Abs(n)
  IN IF Closer(below, below + step) THEN below ELSE below + step

\* What an accepted value reads as: itself, to the resolution of the item.
ReadsAs(i, body) ==
  LET item == Named[i[2]]
  IN IF item.type = "float" THEN Nearest(body.value, item.encoding.scale) ELSE body.value

\* What the client of an operation is told: the last value read for it, or
\* the value it asked for when the write was accepted.
ToldBy(o) ==
  LET Told(id, v) == IF ItemOf(o.path, id) = Missing THEN Missing
                     ELSE [i \in {<<o.path, id>>} |-> v]
  IN IF "took" \in DOMAIN o
     THEN IF o.status = 204 THEN Told(o.id, ReadsAs(<<o.path, o.id>>, o.body)) ELSE Missing
     ELSE IF "got" \in DOMAIN o /\ o.got # <<>> /\ Last(o.got).status = 200
          THEN Told(Last(o.got).id, Last(o.got).value) ELSE Missing

EntityOf(i) == i[1]

Store == INSTANCE DataStore
  WITH Client <- Worker, Item <- NamedItems, Nothing <- Missing,
       Entity <- Path,
       Input <- Inputs, Writable <- ReadsAs,
       store <- value,
       told <- [w \in Worker |-> ToldBy(op[w])],
       punctual <- Path \ behind

\* What the registers ask of the catalog, which load_from_file does not
\* check: faithful items, each with a DID of its own that the devices have.
FaithfulCatalog ==
  \A item, other \in Range(Catalogued) :
    /\ Faithful(item)
    /\ item.did \in DOMAIN EcuData
    /\ item.did = other.did => item.id = other.id

\* Every behaviour of the data routes is one of DataStore: reads and
\* accepted writes through catalog, adapter, UDS and connection are those of
\* registers, weakened only on a connection of which an answer has been late.
ImplementsDataStore == Store!Spec

=============================================================================
