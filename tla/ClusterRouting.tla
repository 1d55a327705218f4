--------------------------- MODULE ClusterRouting ---------------------------
(***************************************************************************)
(* mcp_client and the nodes that use it: which cluster an investigation is *)
(* routed to, which registry it is routed by, and where its calls then go. *)
(*                                                                         *)
(* Investigations run on the threads of one container and share the        *)
(* registry cache.  Each consults it afresh four times or more: to route,  *)
(* to resolve the routed name, to plan each call and to send it.  One      *)
(* action is one access to the cache with the code up to the next one, one *)
(* download, or one call of an MCP server.                                 *)
(***************************************************************************)
EXTENDS Integers, Sequences

CONSTANTS
  None,        \* a missing value; the download of an unreadable file
  Default,     \* PROJECT_ID with CLUSTER_1_REGION
  Threads,
  Words,       \* cluster ids, aliases, and whatever a request may say instead
  Fold,        \* [Words -> Words], what lower() makes equal
  Projects, Environments, Namespaces,
  Files,       \* contents clusters.json may have
  Requests,    \* what requests may say of their cluster
  Sources,     \* enabled entries of SOURCE_CATALOG
  UrlSet,      \* is K8S_MCP_URL set?
  Replies      \* bodies of an MCP server: sequences of frames

\* An entry of clusters.json after the defaults; name may be blank (None).
RawEntry ==
  [name : {None} \cup Words, enabled : BOOLEAN, type : {"gke", "custom"},
   aliases : SUBSET Words, project : Projects, environment : Environments,
   namespaces : SUBSET Namespaces, url : BOOLEAN]

Request == [hint : {None} \cup Words, guess : {None} \cup Words,
            project : {None} \cup Projects,
            environment : {None} \cup Environments,
            namespace : {None} \cup Namespaces]

\* What a frame of the body comes to.  A tool error, a NotFound text and Model
\* Armor's block notice sit where the data would, and so does the "error" key
\* with which the custom server's guard answers a refusal or an exception.
Bodies == {"data", "guarded_error", "tool_error", "not_found", "notice"}
Frames == {"unreadable", "error", "empty"} \cup Bodies

ASSUME RoutingAssumption ==
  /\ None \notin Words \cup Projects \cup Environments \cup Namespaces
  /\ Default \notin Projects
  /\ Fold \in [Words -> Words]
  /\ \A f \in Files : f \in Seq(RawEntry)
  /\ None \notin Files
  /\ Requests \subseteq Request /\ None \notin Requests
  /\ UrlSet \in BOOLEAN
  /\ Sources \cap {None, "gke", "custom"} = {}
  /\ \A b \in Replies : b \in Seq(Frames)

VARIABLES
  bucket,         \* clusters.json, None while it cannot be read
  registryCache,  \* _REGISTRY_CACHE, position -> entry; a dict keeps its order
  ttlPassed,      \* is _REGISTRY_LOADED_AT older than the TTL?
  outage,         \* history: an empty registry has been assigned
  at,             \* where the code of a thread's investigation is
  reading,        \* where in _get_cluster_registry it is
  held,           \* the registry just downloaded
  request,
  cluster,        \* resolved_context["cluster_name"]
  source,         \* current_action["mcp_source"]
  tool,           \* current_action["tool"], by how call_tool treats it
  sent,           \* where the call went
  result          \* what call_tool returned

registryVars == <<bucket, registryCache, ttlPassed, outage>>
readVars     == <<reading, held>>
runVars      == <<at, request, cluster, source, tool, sent, result>>
vars == <<registryVars, readVars, runVars>>

-----------------------------------------------------------------------------
(* The registry.                                                           *)

NoEntries == [i \in {} |-> None]

\* A later entry of the same name replaces the value and keeps the place.
BuildRegistry(file) ==
  LET named == {i \in DOMAIN file : file[i].name # None}
      First(i) == \A j \in named : file[j].name = file[i].name => i <= j
      Last(i)  == \A j \in named : file[j].name = file[i].name => j <= i
  IN [i \in {k \in named : First(k)} |->
        file[CHOOSE j \in named : file[j].name = file[i].name /\ Last(j)]]

Downloaded == IF bucket = None THEN NoEntries ELSE BuildRegistry(bucket)

Registered(registry, name) == \E i \in DOMAIN registry : registry[i].name = name
Entry(registry, name) ==
  registry[CHOOSE i \in DOMAIN registry : registry[i].name = name]

\* By what call_tool makes of a NotFound: list_k8s_events with a name, which is
\* sent again without it; describe and get, which fail; get_k8s_logs, which
\* needs a pod's name as they do, and is not looked at; and the rest.
Tools == {"events_by_name", "broadened", "by_name", "logs", "other"}
Places == {"route", "resolve", "plan", "send"}
Positions == Places \cup {"idle", "sent", "answered"}

Init ==
  /\ bucket \in Files \cup {None}
  /\ registryCache = NoEntries /\ ttlPassed = TRUE /\ outage = FALSE
  /\ at = [t \in Threads |-> "idle"]
  /\ reading = [t \in Threads |-> "no"]
  /\ held = [t \in Threads |-> None]
  /\ request = [t \in Threads |-> None]
  /\ cluster = [t \in Threads |-> None]
  /\ source = [t \in Threads |-> None]
  /\ tool = [t \in Threads |-> None]
  /\ sent = [t \in Threads |-> None]
  /\ result = [t \in Threads |-> None]

Step(t, from, to) == reading[t] = from /\ reading' = [reading EXCEPT ![t] = to]

\* Defect: a registry once loaded is kept.
CheckRegistry_OnlyEmpty(t) ==
  /\ Step(t, "check", IF registryCache = NoEntries THEN "load" ELSE "use")
  /\ UNCHANGED <<registryVars, held, runVars>>

CheckRegistry(t) ==
  /\ Step(t, "check", IF registryCache = NoEntries \/ ttlPassed THEN "load" ELSE "use")
  /\ UNCHANGED <<registryVars, held, runVars>>

LoadRegistry(t) ==
  /\ Step(t, "load", "assign")
  /\ held' = [held EXCEPT ![t] = Downloaded]
  /\ UNCHANGED <<registryVars, runVars>>

\* The cache and its time; what is returned is the global, read once more.
AssignRegistry(t) ==
  /\ Step(t, "assign", "use")
  /\ registryCache' = held[t] /\ ttlPassed' = FALSE
  /\ outage' = (outage \/ held[t] = NoEntries)
  /\ held' = [held EXCEPT ![t] = None]
  /\ UNCHANGED <<bucket, runVars>>

GetClusterRegistry(t) == CheckRegistry(t) \/ LoadRegistry(t) \/ AssignRegistry(t)

-----------------------------------------------------------------------------
(* resolve_cluster_routing.                                                *)

Enabled(registry) == {i \in DOMAIN registry : registry[i].enabled}

SameWord(a, b) == Fold[a] = Fold[b]

HasAlias(entry, word) == \E a \in entry.aliases : SameWord(a, word)

\* Defect: the alias index holds disabled clusters as well.
AliasIndex_All(registry, word) ==
  LET owners == {i \in DOMAIN registry : HasAlias(registry[i], word)}
  IN {i \in owners : \A j \in owners : j <= i}

\* An alias claimed twice belongs to the later cluster.
AliasIndex(registry, word) ==
  LET owners == {i \in Enabled(registry) : HasAlias(registry[i], word)}
  IN {i \in owners : \A j \in owners : j <= i}

CaseInsensitive(registry, word) ==
  LET same == {i \in DOMAIN registry : SameWord(registry[i].name, word)}
  IN {i \in same : \A j \in same : i <= j}

\* Tiers 1 to 3 for a hint: a cluster it names that is disabled ends the search.
ByHint(registry, hint) ==
  LET exact == {i \in DOMAIN registry : registry[i].name = hint}
      named == IF exact # {} THEN exact ELSE CaseInsensitive(registry, hint)
  IN IF named # {} THEN named \cap Enabled(registry) ELSE AliasIndex(registry, hint)

Fits(entry, q) ==
  /\ q.project \in {None, entry.project}
  /\ q.environment \in {None, entry.environment}
  /\ q.namespace = None \/ q.namespace \in entry.namespaces

Selects(q) == q.project # None \/ q.environment # None \/ q.namespace # None

\* Tier 4: nothing, unless exactly one cluster fits.
BySelectors(registry, q) ==
  LET fits == {i \in Enabled(registry) : Selects(q) /\ Fits(registry[i], q)}
  IN {i \in fits : \A j \in fits : j = i}

Routed(registry, q) ==
  IF q.hint # None THEN ByHint(registry, q.hint)
  ELSE IF q.guess # None /\ AliasIndex(registry, q.guess) # {}
         THEN AliasIndex(registry, q.guess)
  ELSE BySelectors(registry, q)

-----------------------------------------------------------------------------
(* The nodes of one investigation.                                         *)

\* The thread goes on to a place that begins by consulting the registry.
Consults(t, place) ==
  /\ at' = [at EXCEPT ![t] = place]
  /\ reading' = [reading EXCEPT ![t] = "check"]

Rests(t, place) ==
  /\ at' = [at EXCEPT ![t] = place]
  /\ reading' = [reading EXCEPT ![t] = "no"]

Uses(t, place) == at[t] = place /\ reading[t] = "use"

\* input_normalizer has run: the hints are the caller's, the guess the model's.
Arrive(t, q) ==
  /\ at[t] = "idle"
  /\ Consults(t, "route")
  /\ request' = [request EXCEPT ![t] = q]
  /\ UNCHANGED <<registryVars, held, cluster, source, tool, sent, result>>

\* The run is over; the report is built without the registry.
End(t) ==
  /\ Rests(t, "idle")
  /\ request' = [request EXCEPT ![t] = None]
  /\ cluster' = [cluster EXCEPT ![t] = None]
  /\ source' = [source EXCEPT ![t] = None]
  /\ tool' = [tool EXCEPT ![t] = None]
  /\ sent' = [sent EXCEPT ![t] = None]
  /\ result' = [result EXCEPT ![t] = None]
  /\ UNCHANGED <<registryVars, held>>

Unresolved(t) ==
  /\ Uses(t, "route") /\ Routed(registryCache, request[t]) = {}
  /\ End(t)

\* The hints have done their part.
Resolved(t) ==
  /\ Uses(t, "route")
  /\ \E i \in Routed(registryCache, request[t]) :
       cluster' = [cluster EXCEPT ![t] = registryCache[i].name]
  /\ request' = [request EXCEPT ![t] = None]
  /\ Consults(t, "resolve")
  /\ UNCHANGED <<registryVars, held, source, tool, sent, result>>

\* resolve_cluster: the name must still be there, enabled or not.
ResolveCluster(t) ==
  /\ Uses(t, "resolve")
  /\ \/ /\ Registered(registryCache, cluster[t])
        /\ Consults(t, "plan")
        /\ UNCHANGED <<registryVars, held, request, cluster, source, tool,
                       sent, result>>
     \/ ~ Registered(registryCache, cluster[t]) /\ End(t)

\* The next round, or the report.
NextRound(t) ==
  \/ /\ Consults(t, "plan")
     /\ source' = [source EXCEPT ![t] = None]
     /\ tool' = [tool EXCEPT ![t] = None]
     /\ sent' = [sent EXCEPT ![t] = None]
     /\ result' = [result EXCEPT ![t] = None]
     /\ UNCHANGED <<registryVars, held, request, cluster>>
  \/ End(t)

\* Defect: a cluster that has been disabled is planned for.
Plannable_Registered(t) == Registered(registryCache, cluster[t])

Plannable(t) ==
  /\ Registered(registryCache, cluster[t])
  /\ Entry(registryCache, cluster[t]).enabled

\* mcp_router's safe-stop is a "done" action.
SafeStop(t) == Uses(t, "plan") /\ ~ Plannable(t) /\ NextRound(t)

PlanNothing(t) == Uses(t, "plan") /\ Plannable(t) /\ NextRound(t)

\* call_tool tells the tools of Google's server apart.
ToolsOf(s) == IF s = "gke" THEN Tools \ {"broadened"} ELSE {"other"}

PlanCall(t) ==
  /\ Uses(t, "plan") /\ Plannable(t)
  /\ source' = [source EXCEPT ![t] = Entry(registryCache, cluster[t]).type]
  /\ \E u \in ToolsOf(source'[t]) : tool' = [tool EXCEPT ![t] = u]
  /\ Consults(t, "send")
  /\ UNCHANGED <<registryVars, held, request, cluster, sent, result>>

\* _call_catalog_source does not look at the registry; a bad tool name, a
\* missing adapter and an adapter that raises are all failed calls.
CallCatalogSource(t, s) ==
  /\ Uses(t, "plan") /\ Plannable(t)
  /\ source' = [source EXCEPT ![t] = s]
  /\ \E ok \in BOOLEAN :
       result' = [result EXCEPT ![t] = [ok |-> ok, body |-> << >>]]
  /\ Rests(t, "answered")
  /\ UNCHANGED <<registryVars, held, request, cluster, tool, sent>>

-----------------------------------------------------------------------------
(* call_tool.  Its own check of the tool's name passes whatever mcp_router   *)
(* has planned from the lists of the two servers.                          *)

Fails(t, body) == result' = [result EXCEPT ![t] = [ok |-> FALSE, body |-> body]]

\* The entry is looked up again, and may be gone.
Known(t) == Registered(registryCache, cluster[t])

Project(t) == IF Known(t) THEN Entry(registryCache, cluster[t]).project ELSE Default

HasUrl(t) == IF Known(t) THEN Entry(registryCache, cluster[t]).url ELSE UrlSet

SendGke(t) ==
  /\ Uses(t, "send") /\ source[t] = "gke"
  /\ sent' = [sent EXCEPT ![t] = Project(t)]
  /\ Rests(t, "sent")
  /\ UNCHANGED <<registryVars, held, request, cluster, source, tool, result>>

SendCustom(t) ==
  /\ Uses(t, "send") /\ source[t] = "custom"
  /\ \/ HasUrl(t) /\ Rests(t, "sent") /\ UNCHANGED result
     \/ ~ HasUrl(t) /\ Rests(t, "answered") /\ Fails(t, << >>)
  /\ UNCHANGED <<registryVars, held, request, cluster, source, tool, sent>>

\* The token is fetched before call_tool's try: the run ends with an exception.
TokenFails(t) ==
  /\ Uses(t, "send") /\ tool[t] # "broadened"
  /\ source[t] = "gke" \/ HasUrl(t)
  /\ End(t)

Contents(body) == {i \in DOMAIN body : body[i] \in Bodies}

\* _parse_response: the first real content wins, then a protocol error.
ParseResponse(body) ==
  IF Contents(body) # {}
    THEN {body[i] : i \in {k \in Contents(body) : \A j \in Contents(body) : k <= j}}
  ELSE IF \E i \in DOMAIN body : body[i] = "error" THEN {"error"}
  ELSE {"empty"}

\* A scoped events lookup that finds nothing is sent again without its name.
Broadens(t, parsed) ==
  source[t] = "gke" /\ tool[t] = "events_by_name" /\ parsed = "not_found"

NotFoundFails(t) == source[t] = "gke" /\ tool[t] = "by_name"

\* Defect: an isError result is taken for data.
Usable_ToolError(t, parsed) ==
  \/ parsed \in {"data", "guarded_error", "tool_error"}
  \/ parsed = "not_found" /\ ~ NotFoundFails(t)

\* What is returned as ok.  An "error" key is not looked for, and a NotFound is
\* turned down for two tools only.
Usable(t, parsed) ==
  \/ parsed \in {"data", "guarded_error"}
  \/ parsed = "not_found" /\ ~ NotFoundFails(t)

\* Model Armor inspects what the custom server sends; it may block anything.
Blocks(t) == IF source[t] = "gke" THEN {FALSE} ELSE BOOLEAN

Received(t) == sent' = [sent EXCEPT ![t] = None]

Returns(t, body) ==
  \E parsed \in ParseResponse(body), blocked \in Blocks(t) :
    /\ ~ Broadens(t, parsed)
    /\ result' = [result EXCEPT ![t] =
                    [ok |-> Usable(t, parsed) /\ ~ blocked, body |-> body]]
    /\ Received(t) /\ Rests(t, "answered")
    /\ UNCHANGED <<registryVars, held, request, cluster, source, tool>>

\* call_tool calls itself, once, and so looks the entry up again.
RetriesBroadened(t, body) ==
  \E parsed \in ParseResponse(body) :
    /\ Broadens(t, parsed)
    /\ tool' = [tool EXCEPT ![t] = "broadened"]
    /\ Received(t) /\ Consults(t, "send")
    /\ UNCHANGED <<registryVars, held, request, cluster, source, result>>

\* A status other than 200, a timeout or any exception.
CallFails(t) ==
  /\ Fails(t, << >>)
  /\ Received(t) /\ Rests(t, "answered")
  /\ UNCHANGED <<registryVars, held, request, cluster, source, tool>>

\* A broadened call is itself inside the try of the call that it repeats.
RetryTokenFails(t) ==
  /\ Uses(t, "send") /\ tool[t] = "broadened"
  /\ CallFails(t)

\* Only the custom server has that guard.
RepliesTo(t) ==
  {body \in Replies :
     source[t] = "gke" => \A i \in DOMAIN body : body[i] # "guarded_error"}

Receive(t) ==
  /\ at[t] = "sent"
  /\ \/ \E body \in RepliesTo(t) : Returns(t, body) \/ RetriesBroadened(t, body)
     \/ CallFails(t)

Finish(t) == at[t] = "answered" /\ NextRound(t)

-----------------------------------------------------------------------------
(* The file is edited or cannot be read for a while; five minutes pass.    *)

EditBucket ==
  /\ bucket' \in Files \cup {None}
  /\ UNCHANGED <<registryCache, ttlPassed, outage, readVars, runVars>>

RegistryTtlPasses ==
  /\ ttlPassed' = TRUE
  /\ UNCHANGED <<bucket, registryCache, outage, readVars, runVars>>

Advance(t) ==
  \/ GetClusterRegistry(t)
  \/ Unresolved(t) \/ Resolved(t) \/ ResolveCluster(t)
  \/ SafeStop(t) \/ PlanNothing(t) \/ PlanCall(t)
  \/ \E s \in Sources : CallCatalogSource(t, s)
  \/ SendGke(t) \/ SendCustom(t) \/ TokenFails(t) \/ RetryTokenFails(t)
  \/ Receive(t) \/ Finish(t)

Next ==
  \/ \E t \in Threads : Advance(t) \/ \E q \in Requests : Arrive(t, q)
  \/ EditBucket \/ RegistryTtlPasses

\* An investigation once begun is carried on.
Spec == Init /\ [][Next]_vars /\ \A t \in Threads : WF_vars(Advance(t))

-----------------------------------------------------------------------------
(* Invariants.                                                             *)

Entries == {e \in RawEntry : e.name # None}
IsRegistry(r) == DOMAIN r \subseteq Nat /\ r \in [DOMAIN r -> Entries]

TypeOK ==
  /\ bucket \in Files \cup {None}
  /\ IsRegistry(registryCache)
  /\ ttlPassed \in BOOLEAN /\ outage \in BOOLEAN
  /\ at \in [Threads -> Positions]
  /\ reading \in [Threads -> {"no", "check", "load", "assign", "use"}]
  /\ \A t \in Threads : held[t] = None \/ IsRegistry(held[t])
  /\ request \in [Threads -> {None} \cup Requests]
  /\ cluster \in [Threads -> {None} \cup Words]
  /\ source \in [Threads -> {None, "gke", "custom"} \cup Sources]
  /\ tool \in [Threads -> {None} \cup Tools]
  /\ sent \in [Threads -> {None, Default} \cup Projects]
  /\ result \in [Threads -> {None} \cup [ok : BOOLEAN, body : Replies \cup {<< >>}]]

\* What some content of the file says of a cluster.
Stated(name) ==
  {e \in UNION {{BuildRegistry(f)[i] : i \in DOMAIN BuildRegistry(f)} : f \in Files} :
     e.name = name}

Kept(name) == \A f \in Files : Registered(BuildRegistry(f), name)

\* A call goes out only for a cluster that clusters.json listed as enabled and
\* of the source's type, and to a project it listed for that cluster - however
\* stale and mixed the registries were that routed, planned and sent it.  The
\* default project is a cluster's only if the file could not be read or has
\* ceased to list it.
DestinationKnown ==
  \A t \in Threads : at[t] = "sent" =>
    /\ \E e \in Stated(cluster[t]) : e.enabled /\ e.type = source[t]
    /\ source[t] = "gke" =>
         \/ \E e \in Stated(cluster[t]) : e.project = sent[t]
         \/ sent[t] = Default /\ (outage \/ ~ Kept(cluster[t]))

\* The result follows the first frame with any content.  A call is ok only if
\* that held what call_tool has no way to tell from an answer: data, the custom
\* server's guarded error, or a NotFound of a call that is not one of the two
\* lookups by name, nor a scoped events lookup before its broadened retry.  So
\* no error in data's place passes, nor Model Armor's notice; but a guarded error
\* does, and get_k8s_logs' NotFound for a pod name that was guessed.  And data of
\* Google's server is not lost.
ResultFollowsReply ==
  \A t \in Threads : result[t] # None /\ source[t] \notin Sources =>
    LET body  == result[t].body
        First(i) == i \in Contents(body) /\ \A j \in Contents(body) : i <= j
    IN /\ result[t].ok =>
            \E i \in DOMAIN body :
              /\ First(i) /\ body[i] \in {"data", "guarded_error", "not_found"}
              /\ body[i] = "not_found" /\ source[t] = "gke" =>
                   tool[t] \in {"broadened", "logs", "other"}
       /\ source[t] = "gke" /\ (\E i \in DOMAIN body : First(i) /\ body[i] = "data")
            => result[t].ok

-----------------------------------------------------------------------------
(* Action and liveness properties.                                         *)

Answers(entry, word) == SameWord(entry.name, word) \/ HasAlias(entry, word)

OnlyFit(registry, q, i) ==
  /\ Selects(q) /\ Fits(registry[i], q)
  /\ \A j \in Enabled(registry) : Fits(registry[j], q) => j = i

RightCluster(registry, q, c) ==
  \E i \in Enabled(registry) :
    /\ registry[i].name = c
    /\ IF q.hint # None
         THEN /\ Answers(registry[i], q.hint)
              /\ Registered(registry, q.hint) => c = q.hint
         ELSE \/ q.guess # None /\ HasAlias(registry[i], q.guess)
              \/ OnlyFit(registry, q, i)

RightlyRefused(registry, q) ==
  IF q.hint # None
    THEN \/ \E i \in DOMAIN registry \ Enabled(registry) :
                SameWord(registry[i].name, q.hint)
         \/ \A i \in Enabled(registry) : ~ Answers(registry[i], q.hint)
    ELSE /\ q.guess # None =>
              \A i \in Enabled(registry) : ~ HasAlias(registry[i], q.guess)
         /\ \A i \in Enabled(registry) : ~ OnlyFit(registry, q, i)

\* The tiers come to this: a hint is answered by an enabled cluster that bears
\* the name or the alias, and by the very id if there is one; without a hint a
\* guess counts only as an alias, and the other hints only if they leave one
\* cluster.  An investigation is stopped only when there is no such cluster or
\* the one that is named is disabled.
RoutesByRule ==
  [][\A t \in Threads : Uses(t, "route") /\ at'[t] # "route" =>
       IF at'[t] = "resolve"
         THEN RightCluster(registryCache, request[t], cluster'[t])
         ELSE RightlyRefused(registryCache, request[t])]_vars

\* Once clusters.json stays as it is, the registry comes to be what it says and
\* stays so, whichever reloads were under way - given that time passes and the
\* registry is consulted.
UpdatesArrive ==
  []<>ttlPassed /\ []<>(\E t \in Threads : reading[t] = "check") =>
    \A f \in Files :
      <>[](bucket = f) => <>[](registryCache = BuildRegistry(f))
=============================================================================
