------------------------------ MODULE Topology ------------------------------
(***************************************************************************)
(* What main does before it listens and after: load_topology_from_file of  *)
(* server/src/config_loader.cpp attaches the entities of a configuration   *)
(* one by one to the registry of core/src/entity_registry.cpp, each with   *)
(* an adapter's context, a proxy or neither; a configuration error ends    *)
(* the program; the registry's destructor destroys the contexts it owns.   *)
(*                                                                         *)
(* A path is the sequence of its segments, none empty.  Contexts are       *)
(* numbered in the order of their creation.                                *)
(***************************************************************************)
EXTENDS Naturals, Sequences

CONSTANTS Path,          \* the paths a configuration may name
          MaxDepth,      \* kMaxEntityPathDepth
          Configs        \* the configurations main may be started with

Kinds == {"none", "mock", "uds_doip", "uds_doip misconfigured", "uds_doip malformed",
          "sovd_proxy", "sovd_proxy without base_url", "unknown"}

\* typed: the entity's type is one of the three.  catalog: what becomes of
\* the file did_catalog names, if it names one: it "fails" with a CatalogError
\* or "throws" another exception of yaml-cpp's, of a label that is no scalar
\* or an item that is no map.
ConfigEntry == [path : Path, typed : BOOLEAN, kind : Kinds,
                catalog : {"absent", "loads", "fails", "throws"}]

ASSUME TopologyAssumption ==
  /\ Path \subseteq Seq(STRING)
  /\ MaxDepth \in Nat
  /\ \A c \in Configs : c \in Seq(ConfigEntry)

VARIABLES phase,         \* where main is
          config,        \* the entries that remain to be attached
          order,         \* order_: the registered paths, oldest first
          contexts,      \* each entity's adapter_ctx, or NoContext
          created,       \* how many contexts there have been
          forgotten,     \* those that a create() made and did not return
          destroyed,     \* the contexts that were destroyed
          backends,      \* the kind of each context's adapter
          catalogs,      \* catalogs_: the paths attach_catalog was called for
          proxies        \* proxies_: the paths attach_proxy was called for

topologyVars ==
  <<phase, config, order, contexts, created, forgotten, destroyed, backends, catalogs, proxies>>

NoContext == 0

Registered == DOMAIN contexts

TopologyInit ==
  /\ phase = "loading"
  /\ config \in Configs
  /\ order = <<>>
  /\ contexts = [p \in {} |-> NoContext]
  /\ created = 0
  /\ forgotten = {}
  /\ destroyed = {}
  /\ backends = <<>>
  /\ catalogs = {}
  /\ proxies = {}

\* parent_of.
ParentOf(path) == SubSeq(path, 1, Len(path) - 1)

\* Mutation: a parent may follow its children.
CanAddOrphan(path) ==
  /\ path # <<>> /\ path \notin Registered
  /\ Len(path) <= MaxDepth

\* The tests of add_entity.
CanAdd(path) ==
  /\ path # <<>> /\ path \notin Registered
  /\ Len(path) <= MaxDepth
  /\ Len(path) > 1 => ParentOf(path) \in Registered

\* add_entity.
AddEntity(path, ctx) ==
  IF CanAdd(path)
  THEN /\ order' = Append(order, path)
       /\ contexts' = [p \in Registered \cup {path} |-> IF p = path THEN ctx ELSE contexts[p]]
  ELSE UNCHANGED <<order, contexts>>

\* add_entity_or_throw.
AddEntityOrThrow(path, ctx) ==
  /\ AddEntity(path, ctx)
  /\ phase' = IF CanAdd(path) THEN phase ELSE "failed"

\* Mutation: uds_doip's create() is not asked whether it failed.
AttachGroupingOrNull(e) ==
  \/ /\ e.kind \in {"none", "unknown"}
     /\ AddEntityOrThrow(e.path, NoContext)
     /\ UNCHANGED <<created, forgotten, backends, catalogs, proxies>>
  \/ /\ e.kind = "uds_doip misconfigured"
     /\ AddEntityOrThrow(e.path, created + 1)
     /\ UNCHANGED <<created, forgotten, backends, catalogs, proxies>>

\* No adapter, an unknown one, or one whose create() returned nullptr.
AttachGrouping(e) ==
  /\ e.kind \in {"none", "unknown", "uds_doip misconfigured"}
  /\ AddEntityOrThrow(e.path, NoContext)
  /\ UNCHANGED <<created, forgotten, backends, catalogs, proxies>>

\* create() has made a context.
CreateContext(e) ==
  /\ created' = created + 1
  /\ backends' = Append(backends, e.kind)

\* uds_doip's create() makes its context before it loads the catalog, and
\* catches only CatalogError there: on any other exception it returns nullptr,
\* and the entity is a grouping like the others.
AttachForgotten(e) ==
  /\ e.kind = "uds_doip" /\ e.catalog = "throws"
  /\ CreateContext(e)
  /\ forgotten' = forgotten \cup {created + 1}
  /\ AddEntityOrThrow(e.path, NoContext)
  /\ UNCHANGED <<catalogs, proxies>>

\* create() comes first: a context that add_entity refuses is leaked.  A
\* catalog that fails is a warning.
AttachBackend(e) ==
  /\ e.kind \in {"mock", "uds_doip"} /\ e.catalog # "throws"
  /\ CreateContext(e)
  /\ AddEntityOrThrow(e.path, created + 1)
  /\ catalogs' = catalogs \cup (IF CanAdd(e.path) /\ e.catalog = "loads" THEN {e.path} ELSE {})
  /\ UNCHANGED <<forgotten, proxies>>

\* The mock loads no catalog, the router does, and catches only CatalogError
\* too: nobody catches the other exception.
AttachThrowing(e) ==
  /\ e.kind = "mock" /\ e.catalog = "throws"
  /\ CreateContext(e)
  /\ AddEntity(e.path, created + 1)
  /\ phase' = IF CanAdd(e.path) THEN "crashed" ELSE "failed"
  /\ UNCHANGED <<forgotten, catalogs, proxies>>

\* The entity is registered before its base_url is looked at.
AttachProxy(e) ==
  /\ e.kind = "sovd_proxy"
  /\ AddEntityOrThrow(e.path, NoContext)
  /\ proxies' = IF CanAdd(e.path) THEN proxies \cup {e.path} ELSE proxies
  /\ UNCHANGED <<created, forgotten, backends, catalogs>>

AttachBrokenProxy(e) ==
  /\ e.kind = "sovd_proxy without base_url"
  /\ AddEntity(e.path, NoContext)
  /\ phase' = "failed"
  /\ UNCHANGED <<created, forgotten, backends, catalogs, proxies>>

\* A number that is none: yaml-cpp's exception is no ConfigError, and nobody
\* catches it.
AttachMalformed(e) ==
  /\ e.kind = "uds_doip malformed"
  /\ phase' = "crashed"
  /\ UNCHANGED <<order, contexts, created, forgotten, backends, catalogs, proxies>>

\* The next entry of load_topology_from_string.
LoadEntity ==
  /\ phase = "loading" /\ config # <<>>
  /\ config' = Tail(config)
  /\ LET e == Head(config) IN
       IF ~e.typed
       THEN /\ phase' = "failed"
            /\ UNCHANGED <<order, contexts, created, forgotten, backends, catalogs, proxies>>
       ELSE \/ AttachGrouping(e)
            \/ AttachForgotten(e)
            \/ AttachBackend(e)
            \/ AttachThrowing(e)
            \/ AttachProxy(e)
            \/ AttachBrokenProxy(e)
            \/ AttachMalformed(e)
  /\ UNCHANGED destroyed

Listen ==
  /\ phase = "loading" /\ config = <<>>
  /\ phase' = "serving"
  /\ UNCHANGED <<config, order, contexts, created, forgotten, destroyed, backends, catalogs, proxies>>

Owned == {contexts[p] : p \in Registered} \ {NoContext}

\* main returns, after a configuration error or when listen does, and
\* ~EntityRegistry destroys what it owns.
Exit ==
  /\ phase \in {"failed", "serving"}
  /\ phase' = "exited"
  /\ destroyed' = destroyed \cup Owned
  /\ UNCHANGED <<config, order, contexts, created, forgotten, backends, catalogs, proxies>>

TopologyNext == LoadEntity \/ Listen \/ Exit

TopologySpec == TopologyInit /\ [][TopologyNext]_topologyVars

(***************************************************************************)
(* Properties.                                                             *)
(***************************************************************************)

\* The registry is a forest, whatever the configuration: order_ lists every
\* entity once, after its parent, and none deeper than the limit.
RegistryIsTree ==
  /\ Registered = {order[i] : i \in DOMAIN order}
  /\ \A i, j \in DOMAIN order : order[i] = order[j] => i = j
  /\ \A i \in DOMAIN order :
       /\ Len(order[i]) \in 1 .. MaxDepth
       /\ Len(order[i]) > 1 => \E j \in 1 .. i - 1 : order[j] = ParentOf(order[i])

\* Every adapter context is owned by one entity and destroyed once the
\* program exits.  There are two exceptions: those that a create() forgot,
\* which nothing owns however long the program then serves, and the one an
\* aborted load had created for the entity it choked on.  No entity has a
\* vtable without a context that create() returned.
ContextsAreOwned ==
  LET returned == (1 .. created) \ forgotten IN
  /\ Owned \subseteq returned
  /\ \A p, q \in Registered : contexts[p] = contexts[q] /\ p # q => contexts[p] = NoContext
  /\ phase \in {"loading", "serving"} => Owned = returned
  /\ returned \ {created} \subseteq Owned
  /\ destroyed = IF phase = "exited" THEN Owned ELSE {}

=============================================================================
