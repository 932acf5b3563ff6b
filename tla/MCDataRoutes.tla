---------------------------- MODULE MCDataRoutes ----------------------------
(***************************************************************************)
(* Two workers over one entity with a backend at a time: an ECU or a mock, *)
(* with a catalog or without, beside a grouping and a proxy; two ECUs      *)
(* without; an ECU whose context is forgotten, beside a mock; and the      *)
(* configurations that do not load.                                        *)
(***************************************************************************)
EXTENDS DataRoutes

CONSTANTS w1, w2

Symmetry == Permutations({w1, w2})

Car == <<"car">>
Ecu == <<"car", "ecu">>
Far == <<"car", "far">>
Deep == <<"car", "ecu", "sub">>
Paths == {Car, Ecu, Far, Deep}

Entry(path, kind, catalog) == [path |-> path, typed |-> TRUE, kind |-> kind, catalog |-> catalog]
Grouping == Entry(Car, "none", "absent")

Startups ==
  { <<Grouping, Entry(Ecu, "uds_doip", "loads"), Entry(Far, "sovd_proxy", "absent")>>,
    <<Grouping, Entry(Ecu, "mock", "loads"), Entry(Far, "uds_doip misconfigured", "absent")>>,
    <<Grouping, Entry(Ecu, "mock", "fails"), Entry(Far, "unknown", "absent")>>,
    <<Grouping, Entry(Ecu, "uds_doip", "throws"), Entry(Far, "mock", "absent")>>,
    <<Entry(Car, "mock", "absent"), Entry(Ecu, "mock", "throws")>>,
    <<Entry(Ecu, "uds_doip", "loads"), Grouping>>,
    <<Entry(Car, "mock", "absent"), Entry(Ecu, "mock", "loads"), Entry(Deep, "mock", "absent")>>,
    <<Entry(Car, "mock", "absent"), Entry(Ecu, "uds_doip malformed", "absent")>>,
    <<Grouping, Entry(Ecu, "mock", "absent"), Entry(Ecu, "uds_doip", "absent")>>,
    <<Entry(Car, "mock", "absent"), [Grouping EXCEPT !.path = Far, !.typed = FALSE]>>,
    <<Entry(Car, "uds_doip", "absent"), Entry(Ecu, "sovd_proxy without base_url", "absent")>>,
    <<Entry(Car, "uds_doip", "absent"), Entry(Ecu, "uds_doip", "fails")>> }

\* Texts that are no hex digits.
Off == <<2>>
On == <<3>>
Fast == <<2, 3>>

\* Units: a tenth.  Three of them are one step of the float item, whose two
\* bytes of base four hold 0 to 15 steps, the low byte first.
Speed == [id |-> "speed", did |-> 1, type |-> "float", access |-> "read_write",
          io_control |-> FALSE, session |-> Missing, security |-> 0, length |-> 0,
          encoding |-> [bytes |-> 2, endian |-> "little", scale |-> 3], values |-> Missing]
Mode == [id |-> "mode", did |-> 2, type |-> "enum", access |-> "read_write",
         io_control |-> TRUE, session |-> "extended", security |-> 1, length |-> 0,
         encoding |-> Missing,
         values |-> <<[raw |-> 0, label |-> Off], [raw |-> 1, label |-> On]>>]
Vin == [id |-> "vin", did |-> 3, type |-> "string", access |-> "read",
        io_control |-> FALSE, session |-> Missing, security |-> 0, length |-> 2,
        encoding |-> Missing, values |-> Missing]

File == <<Speed, Mode, Vin>>
Broken == { <<[Speed EXCEPT !.encoding = Missing]>>,
            <<[Speed EXCEPT !.encoding.bytes = 4]>>,
            <<Vin, [Mode EXCEPT !.values = Missing]>>,
            <<[Vin EXCEPT !.access = "none"]>>,
            <<[Vin EXCEPT !.did = MaxDid + 1]>> }

Ids == {"speed", "mode", "vin", "0001", "0004", "bogus"}
Dids == "0001" :> 1 @@ "0004" :> 4

Number(v) == [is |-> "number", value |-> v]
Text(v) == [is |-> "string", value |-> v]
NoValue == [is |-> "none", value |-> Missing]

RequestBodies ==
  [id \in Ids |->
     CASE id = "speed" -> {Number(14), Number(46), Number(-2), NoValue}
       [] id = "mode"  -> {Text(On), Text(Fast), Number(1)}
       [] id = "0001"  -> {Text(<<1, 0>>), Text(<<0, 2>>), Text(<<1>>), Number(1)}
       [] id = "0004"  -> {}
       [] OTHER        -> {Text(<<0, 1>>)}]

BatchIds == {<<>>, <<"bogus", "speed">>, <<"mode", "0004">>}

FirstData == 1 :> <<1, 0>> @@ 2 :> <<0>> @@ 3 :> <<2, 3>>

ASSUME CatalogIsFaithful == FaithfulCatalog

\* conditionsNotCorrect: HTTP 409, which no other failure answers.
Refusals == {34}

=============================================================================
