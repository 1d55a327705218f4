----------------------------- MODULE McpServer -----------------------------
(***************************************************************************)
(* The custom Kubernetes MCP server: how a tool call is admitted, which    *)
(* registry it is checked against and which Kubernetes client it uses      *)
(* (mcp/server.py, the guard of mcp/security.py).                          *)
(*                                                                         *)
(* Tool functions are synchronous and run on the threads of a pool; the    *)
(* registry cache, its load flag, the client cache and the Kubernetes      *)
(* library's default configuration belong to the process.  One action is   *)
(* one access to them, or one call of an outside service.  Tools and their *)
(* arguments are left out but for the cluster; time is left out but for    *)
(* the fact that a TTL or a token lifetime has passed.                     *)
(***************************************************************************)
EXTENDS FiniteSets

CONSTANTS
  None,       \* Python's None
  Local,      \* the context of K8S_MCP_KUBE_CONTEXT, or kubeconfig's current
  Clusters,   \* cluster names a call may ask for
  Calls,      \* tool calls
  Probes,     \* readiness probes (/readyz)
  Files,      \* contents clusters.json may have
  BucketSet,  \* is CLUSTER_CONFIG_BUCKET set?  Always, in a deployment
  LoadsFail   \* bound: is the file sometimes unreadable, or not as it should be?

\* What a registry entry amounts to: reached through a named context of the
\* image's kubeconfig, through a connection built from the entry's own fleet
\* fields, through neither (misconfigured), or not to be served here.
EntryKinds == {"context", "fleet", "incomplete", "refused"}

Registries == UNION {[S -> EntryKinds] : S \in SUBSET Clusters}
NoEntries  == [c \in {} |-> "refused"]

ASSUME NamesAssumption ==
  /\ None # Local
  /\ {None, Local} \cap Clusters = {}
  /\ Calls \cap Probes = {}

ASSUME BucketAssumption ==
  /\ BucketSet \in BOOLEAN
  /\ LoadsFail \in BOOLEAN
  /\ Files \subseteq Registries \ {NoEntries}

Workers == Calls \cup Probes

\* A client: where its configuration points, and the call that built it.
Clients == [target : Clusters \cup {Local}, builder : Calls]

ASSUME NoneAssumption == None \notin Clients

VARIABLES
  bucket,         \* clusters.json
  registryCache,  \* _CLUSTER_REGISTRY_CACHE
  ttlPassed,      \* is _CLUSTER_REGISTRY_LOADED_AT older than the TTL?
  loadFailed,     \* _CLUSTER_REGISTRY_LOAD_FAILED
  clientCache,    \* _K8S_CLIENT_CACHE
  defaultConfig,  \* the context the library's default Configuration holds
  expired,        \* builders of the clients whose token has expired
  pc, back,       \* where a worker is; where _get_cluster_registry returns to
  asked,          \* cluster_id
  registry,       \* the registry a worker holds
  context,        \* the context a call is about to load
  client,         \* the client a call holds
  loads,          \* history: how downloads have ended so far
  evicted         \* history: builders of clients evicted as expired

registryVars == <<registryCache, ttlPassed, loadFailed, loads>>
clientVars   == <<clientCache, defaultConfig, expired, evicted>>
localVars    == <<back, asked, registry, context, client>>
vars == <<bucket, registryVars, clientVars, pc, localVars>>

Init ==
  /\ bucket \in Files
  /\ registryCache = NoEntries
  /\ ttlPassed = TRUE
  /\ loadFailed = FALSE
  /\ clientCache = [c \in Clusters |-> None]
  /\ defaultConfig = None
  /\ expired = {}
  /\ pc = [w \in Workers |-> "new"]
  /\ back = [w \in Workers |-> "new"]
  /\ asked = [w \in Workers |-> None]
  /\ registry = [w \in Workers |-> NoEntries]
  /\ context = [w \in Workers |-> None]
  /\ client = [w \in Workers |-> None]
  /\ loads = {}
  /\ evicted = {}

-----------------------------------------------------------------------------
(* Moving on.                                                              *)

Goto(w, place) == pc' = [pc EXCEPT ![w] = place]

\* Call _get_cluster_registry and go on at "place".
Consult(w, place) ==
  /\ Goto(w, "check")
  /\ back' = [back EXCEPT ![w] = place]

\* guarded turns a result, a refusal or an exception into an answer; the
\* locals of the call are gone.
Answer(w) ==
  /\ Goto(w, "answered")
  /\ back' = [back EXCEPT ![w] = "new"]
  /\ asked' = [asked EXCEPT ![w] = None]
  /\ registry' = [registry EXCEPT ![w] = NoEntries]
  /\ context' = [context EXCEPT ![w] = None]
  /\ client' = [client EXCEPT ![w] = None]

KeepsLocals == UNCHANGED <<asked, registry, context, client>>

-----------------------------------------------------------------------------
(* _get_cluster_registry and _load_cluster_registry.                       *)

\* Defect: the old registry is dropped before the new one is there.
CheckRegistry_ClearsFirst(w) ==
  /\ pc[w] = "check"
  /\ IF registryCache = NoEntries \/ ttlPassed
       THEN registryCache' = NoEntries /\ Goto(w, "load")
       ELSE UNCHANGED registryCache /\ Goto(w, "return")
  /\ UNCHANGED <<bucket, ttlPassed, loadFailed, loads, clientVars, localVars>>

CheckRegistry(w) ==
  /\ pc[w] = "check"
  /\ Goto(w, IF registryCache = NoEntries \/ ttlPassed THEN "load" ELSE "return")
  /\ UNCHANGED <<bucket, registryVars, clientVars, localVars>>

\* Defect: a failed download leaves the flag as it was.
FlagAfter_Unset(ok) == FALSE

FlagAfter(ok) == ~ok

\* The download, and the flag that says how it went.
LoadRegistry(w) ==
  /\ pc[w] = "load"
  /\ \E ok \in IF BucketSet /\ LoadsFail THEN BOOLEAN ELSE {TRUE} :
       /\ registry' = [registry EXCEPT ![w] =
                         IF ok /\ BucketSet THEN bucket ELSE NoEntries]
       /\ loadFailed' = FlagAfter(ok)
       /\ loads' = loads \cup {IF ok THEN "ok" ELSE "failed"}
  /\ Goto(w, "assign")
  /\ UNCHANGED <<bucket, registryCache, ttlPassed, clientVars,
                 back, asked, context, client>>

\* The download has cleared the flag; then an entry that is no object raises out
\* of the readers of the registry, and nothing is assigned.
ParseFails(w) ==
  /\ pc[w] = "load" /\ BucketSet /\ LoadsFail
  /\ loadFailed' = FlagAfter(TRUE)
  /\ loads' = loads \cup {"ok"}
  /\ Answer(w)
  /\ UNCHANGED <<bucket, registryCache, ttlPassed, clientVars>>

AssignRegistry(w) ==
  /\ pc[w] = "assign"
  /\ registryCache' = registry[w]
  /\ ttlPassed' = FALSE
  /\ Goto(w, "return")
  /\ UNCHANGED <<bucket, loadFailed, loads, clientVars, localVars>>

\* The global is read once more, whoever assigned it last.
ReturnRegistry(w) ==
  /\ pc[w] = "return"
  /\ registry' = [registry EXCEPT ![w] = registryCache]
  /\ Goto(w, back[w])
  /\ UNCHANGED <<bucket, registryVars, clientVars, back, asked, context, client>>

GetClusterRegistry(w) == \/ CheckRegistry(w) \/ LoadRegistry(w) \/ ParseFails(w)
                         \/ AssignRegistry(w) \/ ReturnRegistry(w)

-----------------------------------------------------------------------------
(* resolve_cluster, after it has its registry: the flag is read only when  *)
(* the registry is empty.                                                  *)

Kind(w) == IF asked[w] \in DOMAIN registry[w] THEN registry[w][asked[w]] ELSE "refused"

Placeholder(w) == registry[w] = NoEntries /\ ~loadFailed

Resolves(w) == Placeholder(w) \/ Kind(w) # "refused"

-----------------------------------------------------------------------------
(* guarded.                                                                *)

\* The rate limiter refuses the call, or its cluster is looked up.
Admit(w) ==
  /\ pc[w] = "new"
  /\ w \in Calls
  /\ \/ Answer(w)
     \/ /\ \E c \in Clusters : asked' = [asked EXCEPT ![w] = c]
        /\ Consult(w, "guard")
        /\ UNCHANGED <<registry, context, client>>
  /\ UNCHANGED <<bucket, registryVars, clientVars>>

\* Arguments may be refused whatever the cluster is; a namespace is checked
\* against the cluster's own list, for which the cluster is resolved again.
Guard(w) ==
  /\ pc[w] = "guard"
  /\ \/ Answer(w)
     \/ Resolves(w) /\ Consult(w, "scope") /\ KeepsLocals
     \/ Resolves(w) /\ Goto(w, "clients") /\ UNCHANGED localVars
  /\ UNCHANGED <<bucket, registryVars, clientVars>>

Scope(w) ==
  /\ pc[w] = "scope"
  /\ \/ Answer(w)
     \/ Resolves(w) /\ Goto(w, "clients") /\ UNCHANGED localVars
  /\ UNCHANGED <<bucket, registryVars, clientVars>>

-----------------------------------------------------------------------------
(* get_k8s_clients and _build_k8s_clients.                                 *)

\* A cached client is used unless its TTL has passed.
LookUp(w) ==
  /\ pc[w] = "clients"
  /\ \/ /\ clientCache[asked[w]] # None
        /\ client' = [client EXCEPT ![w] = clientCache[asked[w]]]
        /\ Goto(w, "call")
        /\ UNCHANGED <<back, asked, registry, context>>
     \/ Consult(w, "build") /\ KeepsLocals
  /\ UNCHANGED <<bucket, registryVars, clientVars>>

\* The registry decides between a registered cluster, which is resolved once
\* more, a refusal, and the fallback for local development.
Build(w) ==
  /\ pc[w] = "build"
  /\ \/ registry[w] # NoEntries /\ Consult(w, "rebuild") /\ KeepsLocals
     \/ registry[w] = NoEntries /\ loadFailed /\ Answer(w)
     \/ /\ Placeholder(w)
        /\ context' = [context EXCEPT ![w] = Local]
        /\ Goto(w, "config")
        /\ UNCHANGED <<back, asked, registry, client>>
  /\ UNCHANGED <<bucket, registryVars, clientVars>>

Built(w, target) == [target |-> target, builder |-> w]

\* Defect: the client takes the default configuration instead of its own.
FleetClient_Default(w) == Built(w, defaultConfig)

\* The connection of a fleet entry has a Configuration of its own.
FleetClient(w) == Built(w, asked[w])

\* The placeholder has no connection fields and is refused here, as is an
\* incomplete entry; minting a token may raise.
Rebuild(w) ==
  /\ pc[w] = "rebuild"
  /\ \/ Kind(w) # "context" /\ Answer(w)
     \/ /\ Kind(w) = "fleet"
        /\ client' = [client EXCEPT ![w] = FleetClient(w)]
        /\ Goto(w, "store")
        /\ UNCHANGED <<back, asked, registry, context>>
     \/ /\ Kind(w) = "context"
        /\ context' = [context EXCEPT ![w] = asked[w]]
        /\ Goto(w, "config")
        /\ UNCHANGED <<back, asked, registry, client>>
  /\ UNCHANGED <<bucket, registryVars, clientVars>>

\* load_kube_config sets the default configuration of the process ...
LoadKubeConfig(w) ==
  /\ pc[w] = "config"
  /\ \/ Answer(w) /\ UNCHANGED defaultConfig
     \/ /\ defaultConfig' = context[w]
        /\ Goto(w, "connect")
        /\ UNCHANGED localVars
  /\ UNCHANGED <<bucket, registryVars, clientCache, expired, evicted>>

\* ... and ApiClient() copies whatever it is by then.
Connect(w) ==
  /\ pc[w] = "connect"
  /\ client' = [client EXCEPT ![w] = Built(w, defaultConfig)]
  /\ Goto(w, "store")
  /\ UNCHANGED <<bucket, registryVars, clientVars, back, asked, registry, context>>

Store(w) ==
  /\ pc[w] = "store"
  /\ clientCache' = [clientCache EXCEPT ![asked[w]] = client[w]]
  /\ Goto(w, "call")
  /\ UNCHANGED <<bucket, registryVars, defaultConfig, expired, evicted, localVars>>

GetK8sClients(w) == \/ LookUp(w) \/ Build(w) \/ Rebuild(w)
                    \/ LoadKubeConfig(w) \/ Connect(w) \/ Store(w)

-----------------------------------------------------------------------------
(* The Kubernetes request, and guarded's answer to an expired credential.  *)

CallCluster(w) ==
  /\ pc[w] = "call"
  /\ \/ Answer(w)
     \/ client[w].builder \in expired /\ Goto(w, "evict") /\ UNCHANGED localVars
  /\ UNCHANGED <<bucket, registryVars, clientVars>>

\* Defect: the error is answered and the client stays.
Evicted_Kept(w) == clientCache

Evicted(w) == [clientCache EXCEPT ![asked[w]] = None]

Evict(w) ==
  /\ pc[w] = "evict"
  /\ clientCache' = Evicted(w)
  /\ evicted' = evicted \cup {client[w].builder}
  /\ Answer(w)
  /\ UNCHANGED <<bucket, registryVars, defaultConfig, expired>>

-----------------------------------------------------------------------------
(* /readyz, which runs beside the calls.                                   *)

ProbeStarts(w) ==
  /\ pc[w] = "new"
  /\ w \in Probes
  /\ Consult(w, "probe")
  /\ KeepsLocals
  /\ UNCHANGED <<bucket, registryVars, clientVars>>

\* Without a registry, whatever the reason, the local context is loaded.
Probe(w) ==
  /\ pc[w] = "probe"
  /\ \/ registry[w] # NoEntries /\ UNCHANGED defaultConfig
     \/ registry[w] = NoEntries /\ defaultConfig' \in {defaultConfig, Local}
  /\ Answer(w)
  /\ UNCHANGED <<bucket, registryVars, clientCache, expired, evicted>>

-----------------------------------------------------------------------------
(* The world around the server.                                            *)

EditBucket ==
  /\ bucket' \in Files \ {bucket}
  /\ UNCHANGED <<registryVars, clientVars, pc, localVars>>

RegistryTtlPasses ==
  /\ registryCache # NoEntries
  /\ ~ttlPassed
  /\ ttlPassed' = TRUE
  /\ UNCHANGED <<bucket, registryCache, loadFailed, loads, clientVars, pc, localVars>>

\* A token outlives the building and storing of its client.
TokenExpires(w) ==
  /\ w \notin expired
  /\ \/ \E c \in Clusters : clientCache[c] # None /\ clientCache[c].builder = w
     \/ \E v \in Calls : pc[v] = "call" /\ client[v].builder = w
  /\ expired' = expired \cup {w}
  /\ UNCHANGED <<bucket, registryVars, clientCache, defaultConfig, evicted, pc, localVars>>

-----------------------------------------------------------------------------
Serve(w) == \/ Admit(w) \/ Guard(w) \/ Scope(w) \/ GetClusterRegistry(w)
            \/ GetK8sClients(w) \/ CallCluster(w) \/ Evict(w)
            \/ ProbeStarts(w) \/ Probe(w)

Next == \/ \E w \in Workers : Serve(w)
        \/ \E w \in Calls : TokenExpires(w)
        \/ EditBucket \/ RegistryTtlPasses

Spec == Init /\ [][Next]_vars

-----------------------------------------------------------------------------
(* Safety.                                                                 *)

Places == {"new", "check", "load", "assign", "return", "guard", "scope",
           "clients", "build", "rebuild", "config", "connect", "store", "call",
           "evict", "probe", "answered"}

\* Every variable has the values the server gives it.
TypeOK ==
  /\ bucket \in Files
  /\ registryCache \in Files \cup {NoEntries}
  /\ ttlPassed \in BOOLEAN
  /\ loadFailed \in BOOLEAN
  /\ clientCache \in [Clusters -> Clients \cup {None}]
  /\ defaultConfig \in Clusters \cup {Local, None}
  /\ expired \subseteq Calls
  /\ pc \in [Workers -> Places]
  /\ back \in [Workers -> {"new", "guard", "scope", "build", "rebuild", "probe"}]
  /\ asked \in [Workers -> Clusters \cup {None}]
  /\ registry \in [Workers -> Files \cup {NoEntries}]
  /\ context \in [Workers -> Clusters \cup {Local, None}]
  /\ client \in [Workers -> Clients \cup {None}]
  /\ loads \subseteq {"ok", "failed"}
  /\ evicted \subseteq Calls

ServedSomewhere(c) == \E f \in Files : c \in DOMAIN f /\ f[c] \in {"context", "fleet"}
FleetOnly(c)       == \A f \in Files : c \in DOMAIN f => f[c] # "context"

\* As long as no download has failed, no client of a deployed server leads to the
\* local context, none is built for a cluster that no registry serves, and a
\* cluster registered with fleet fields gets one that leads to itself, however
\* many threads reload the registry and build clients at the same time.
OnlyServedClusters ==
  BucketSet /\ "failed" \notin loads =>
    \A c \in Clusters : clientCache[c] # None =>
      /\ clientCache[c].target # Local
      /\ ServedSomewhere(c)
      /\ FleetOnly(c) => clientCache[c].target = c

\* As long as no download has succeeded, a deployed server builds no client and
\* sends no request: an outage is told from a missing bucket by the flag alone,
\* which every load of every thread writes.
TotalOutageRefuses ==
  BucketSet /\ "ok" \notin loads => \A c \in Clusters : clientCache[c] = None

\* A client that failed with an expired credential is never handed out again,
\* although calls build, store and evict clients of one cluster at once.
EvictionHeals ==
  \A c \in Clusters : clientCache[c] # None => clientCache[c].builder \notin evicted

-----------------------------------------------------------------------------
(* Statements of the code's own texts that the server does not keep.       *)

\* tests/test_multi_cluster_isolation.py: the client of a cluster is the one
\* built for its own context, "never the other cluster's context, under
\* genuine thread concurrency".
NeverMixed == \A w \in Calls : pc[w] = "call" => client[w].target = asked[w]
=============================================================================
