-------------------------- MODULE McpServerProofs --------------------------
(***************************************************************************)
(* Proofs about McpServer, for any number of clusters, calls, probes and   *)
(* contents of the registry.                                               *)
(***************************************************************************)
EXTENDS McpServer, Naturals, TLAPS

USE DEF registryVars, clientVars, localVars, Goto, Consult, KeepsLocals, Workers

-----------------------------------------------------------------------------
(* Types, and what a worker holds at each place.                           *)

Reading == {"check", "load", "assign", "return"}
Holding == {"store", "call", "evict"}

\* A worker that serves a call, on its way through the registry included.
Serving(w) == \/ pc[w] \in Places \ (Reading \cup {"new", "probe", "answered"})
              \/ pc[w] \in Reading /\ back[w] # "probe"

Held(w) ==
  /\ pc[w] \in Reading => back[w] # "new"
  /\ Serving(w) => w \in Calls /\ asked[w] \in Clusters
  /\ pc[w] = "config" => context[w] # None
  /\ pc[w] = "connect" => defaultConfig # None
  /\ pc[w] \in Holding => client[w] # None

LocalsInv == \A w \in Workers : Held(w)

LEMMA EmptyRegistry ==
  /\ NoEntries \notin Files
  /\ DOMAIN NoEntries = {}
  BY BucketAssumption DEF NoEntries

LEMMA TypeInit == Init => TypeOK /\ LocalsInv
<1> SUFFICES ASSUME Init PROVE TypeOK /\ LocalsInv
  OBVIOUS
<1>1. TypeOK
  BY DEF Init, TypeOK, Places
<1>2. LocalsInv
  BY DEF Init, LocalsInv, Held, Serving, Places, Reading, Holding
<1>3. QED
  BY <1>1, <1>2

LEMMA TypeRegistry ==
  ASSUME TypeOK, LocalsInv, NEW w \in Workers, GetClusterRegistry(w)
  PROVE  TypeOK' /\ LocalsInv'
<1> USE DEF TypeOK, LocalsInv, Held, Serving, Places, Reading, Holding
<1>1. CASE CheckRegistry(w)
  BY <1>1 DEF CheckRegistry
<1>2. CASE LoadRegistry(w)
  BY <1>2 DEF LoadRegistry, FlagAfter
<1>6. CASE ParseFails(w)
  BY <1>6 DEF ParseFails, FlagAfter, Answer
<1>3. CASE AssignRegistry(w)
  BY <1>3 DEF AssignRegistry
<1>4. CASE ReturnRegistry(w)
  BY <1>4 DEF ReturnRegistry
<1>5. QED
  BY <1>1, <1>2, <1>3, <1>4, <1>6 DEF GetClusterRegistry

LEMMA TypeGuard ==
  ASSUME TypeOK, LocalsInv, NEW w \in Workers,
         Admit(w) \/ Guard(w) \/ Scope(w) \/ ProbeStarts(w) \/ Probe(w)
  PROVE  TypeOK' /\ LocalsInv'
<1> USE DEF TypeOK, LocalsInv, Held, Serving, Places, Reading, Holding, Answer
<1>1. CASE Admit(w)
  BY <1>1 DEF Admit
<1>2. CASE Guard(w)
  BY <1>2 DEF Guard
<1>3. CASE Scope(w)
  BY <1>3 DEF Scope
<1>4. CASE ProbeStarts(w)
  BY <1>4, NamesAssumption DEF ProbeStarts
<1>5. CASE Probe(w)
  BY <1>5, NamesAssumption DEF Probe
<1>6. QED
  BY <1>1, <1>2, <1>3, <1>4, <1>5

LEMMA TypeClients ==
  ASSUME TypeOK, LocalsInv, NEW w \in Workers,
         GetK8sClients(w) \/ CallCluster(w) \/ Evict(w)
  PROVE  TypeOK' /\ LocalsInv'
<1> USE DEF TypeOK, LocalsInv, Held, Serving, Places, Reading, Holding, Answer
<1>1. CASE LookUp(w)
  BY <1>1 DEF LookUp
<1>2. CASE Build(w)
  BY <1>2, NamesAssumption DEF Build
<1>3. CASE Rebuild(w)
  <2>1. w \in Calls /\ asked[w] \in Clusters /\ asked[w] # None
    BY <1>3, NamesAssumption DEF Rebuild
  <2>2. FleetClient(w) \in Clients
    BY <2>1 DEF FleetClient, Built, Clients
  <2>3. QED
    BY <1>3, <2>1, <2>2, NoneAssumption, NamesAssumption DEF Rebuild
<1>4. CASE LoadKubeConfig(w)
  BY <1>4 DEF LoadKubeConfig
<1>5. CASE Connect(w)
  <2>1. w \in Calls /\ defaultConfig \in Clusters \cup {Local}
    BY <1>5 DEF Connect
  <2>2. Built(w, defaultConfig) \in Clients
    BY <2>1 DEF Built, Clients
  <2>3. QED
    BY <1>5, <2>2, NoneAssumption DEF Connect
<1>6. CASE Store(w)
  BY <1>6 DEF Store
<1>7. CASE CallCluster(w)
  BY <1>7 DEF CallCluster
<1>8. CASE Evict(w)
  BY <1>8 DEF Evict, Evicted, Clients
<1>9. QED
  BY <1>1, <1>2, <1>3, <1>4, <1>5, <1>6, <1>7, <1>8 DEF GetK8sClients

LEMMA TypeWorld ==
  ASSUME TypeOK, LocalsInv,
         \/ \E w \in Calls : TokenExpires(w)
         \/ EditBucket \/ RegistryTtlPasses
         \/ UNCHANGED vars
  PROVE  TypeOK' /\ LocalsInv'
  BY DEF TypeOK, LocalsInv, Held, Serving, TokenExpires, EditBucket,
         RegistryTtlPasses, vars

LEMMA TypeStep ==
  ASSUME TypeOK, LocalsInv, [Next]_vars
  PROVE  TypeOK' /\ LocalsInv'
  BY TypeRegistry, TypeGuard, TypeClients, TypeWorld DEF Next, Serve

\* Every variable keeps the values the server gives it, and a worker has what
\* the place it is at needs: a cluster, a context, a client (mcp/server.py,
\* get_k8s_clients, and guarded of mcp/security.py).
THEOREM ServerTypes == Spec => [](TypeOK /\ LocalsInv)
  BY TypeInit, TypeStep, PTL DEF Spec

-----------------------------------------------------------------------------
(* Expired credentials.                                                    *)

Stored == {"call", "evict", "answered"}

\* A client is stored once, under one cluster; it expires after that and is
\* evicted after it has expired.
BuildersInv ==
  /\ evicted \subseteq expired
  /\ \A b \in expired : pc[b] \in Stored
  /\ \A c \in Clusters : clientCache[c] # None =>
       pc[clientCache[c].builder] \in Stored
  /\ \A w \in Workers : pc[w] = "store" => client[w].builder = w
  /\ \A w \in Workers : pc[w] \in {"call", "evict"} =>
       pc[client[w].builder] \in Stored
  /\ \A w \in Workers : pc[w] = "evict" => client[w].builder \in expired

OneSlot ==
  /\ \A c, d \in Clusters :
       /\ clientCache[c] # None /\ clientCache[d] # None
       /\ clientCache[c].builder = clientCache[d].builder
       => c = d
  /\ \A w \in Workers, c \in Clusters :
       /\ pc[w] \in {"call", "evict"}
       /\ clientCache[c] # None
       /\ clientCache[c].builder = client[w].builder
       => c = asked[w]

CredentialInv == BuildersInv /\ OneSlot /\ EvictionHeals

LEMMA CredentialInit == Init => CredentialInv
  BY DEF Init, CredentialInv, BuildersInv, OneSlot, EvictionHeals

LEMMA CredentialServe ==
  ASSUME TypeOK, LocalsInv, CredentialInv, NEW w \in Workers, Serve(w)
  PROVE  CredentialInv'
<1> USE DEF TypeOK, LocalsInv, Held, Holding, Clients, CredentialInv, BuildersInv,
            OneSlot, EvictionHeals, Stored, Answer
<1>1. CASE CheckRegistry(w)
  BY <1>1 DEF CheckRegistry
<1>2. CASE LoadRegistry(w)
  BY <1>2 DEF LoadRegistry
<1>p. CASE ParseFails(w)
  BY <1>p DEF ParseFails
<1>3. CASE AssignRegistry(w)
  BY <1>3 DEF AssignRegistry
<1>4. CASE ReturnRegistry(w)
  BY <1>4 DEF ReturnRegistry
<1>5. CASE Admit(w)
  BY <1>5 DEF Admit
<1>6. CASE Guard(w)
  BY <1>6 DEF Guard
<1>7. CASE Scope(w)
  BY <1>7 DEF Scope
<1>8. CASE ProbeStarts(w)
  BY <1>8 DEF ProbeStarts
<1>9. CASE Probe(w)
  BY <1>9 DEF Probe
<1>10. CASE LookUp(w)
  <2>1. UNCHANGED <<clientCache, expired, evicted, asked>>
    BY <1>10 DEF LookUp
  <2>2. asked[w] \in Clusters
    BY <1>10 DEF LookUp, Serving, Places, Reading
  <2>3. CASE /\ clientCache[asked[w]] # None
             /\ client' = [client EXCEPT ![w] = clientCache[asked[w]]]
             /\ pc' = [pc EXCEPT ![w] = "call"]
    <3>1. BuildersInv'
      BY <2>1, <2>2, <2>3
    <3>2. OneSlot'
      BY <2>1, <2>2, <2>3
    <3>3. QED
      BY <2>1, <3>1, <3>2
  <2>4. CASE pc' = [pc EXCEPT ![w] = "check"] /\ UNCHANGED client
    BY <1>10, <2>1, <2>4 DEF LookUp
  <2>5. QED
    BY <1>10, <2>3, <2>4 DEF LookUp
<1>11. CASE Build(w)
  BY <1>11 DEF Build
<1>12. CASE Rebuild(w)
  BY <1>12 DEF Rebuild, FleetClient, Built
<1>13. CASE LoadKubeConfig(w)
  BY <1>13 DEF LoadKubeConfig
<1>14. CASE Connect(w)
  BY <1>14 DEF Connect, Built
<1>15. CASE Store(w)
  BY <1>15 DEF Store
<1>16. CASE CallCluster(w)
  BY <1>16 DEF CallCluster
<1>17. CASE Evict(w)
  BY <1>17 DEF Evict, Evicted
<1>18. QED
  BY <1>1, <1>2, <1>3, <1>4, <1>5, <1>6, <1>7, <1>8, <1>9,
     <1>10, <1>11, <1>12, <1>13, <1>14, <1>15, <1>16, <1>17, <1>p
     DEF Serve, GetClusterRegistry, GetK8sClients

LEMMA CredentialStep ==
  ASSUME TypeOK, LocalsInv, CredentialInv, [Next]_vars
  PROVE  CredentialInv'
<1>1. CASE \E w \in Workers : Serve(w)
  BY <1>1, CredentialServe
<1>2. CASE \E w \in Calls : TokenExpires(w)
  BY <1>2 DEF TokenExpires, CredentialInv, BuildersInv, OneSlot, EvictionHeals,
              TypeOK, Clients
<1>3. CASE EditBucket \/ RegistryTtlPasses \/ UNCHANGED vars
  BY <1>3 DEF EditBucket, RegistryTtlPasses, vars, CredentialInv, BuildersInv,
              OneSlot, EvictionHeals
<1>4. QED
  BY <1>1, <1>2, <1>3 DEF Next

\* A client evicted for an expired credential is never in the cache again
\* (server.py, _evict_k8s_client and get_k8s_clients).
THEOREM ExpiredStaysOut == Spec => []EvictionHeals
<1>1. Init => TypeOK /\ LocalsInv /\ CredentialInv
  BY TypeInit, CredentialInit
<1>2. TypeOK /\ LocalsInv /\ CredentialInv /\ [Next]_vars
        => (TypeOK /\ LocalsInv /\ CredentialInv)'
  BY TypeStep, CredentialStep
<1>3. CredentialInv => EvictionHeals
  BY DEF CredentialInv
<1>4. QED
  BY <1>1, <1>2, <1>3, PTL DEF Spec

-----------------------------------------------------------------------------
(* An outage from the start.                                               *)

OutageInv ==
  BucketSet /\ "ok" \notin loads =>
    /\ registryCache = NoEntries
    /\ \A c \in Clusters : clientCache[c] = None
    /\ \A w \in Workers :
         /\ registry[w] = NoEntries
         /\ pc[w] \in Reading \cup {"new", "guard", "probe", "answered"}
         /\ pc[w] \in {"assign", "return", "guard", "probe"} => loadFailed
         /\ pc[w] \in Reading => back[w] \in {"guard", "probe"}

LEMMA OutageInit == Init => OutageInv
  BY DEF Init, OutageInv, Reading

LEMMA OutageServe ==
  ASSUME TypeOK, LocalsInv, OutageInv, NEW w \in Workers, Serve(w)
  PROVE  OutageInv'
<1> SUFFICES ASSUME BucketSet, "ok" \notin loads'
             PROVE  OutageInv'
  BY DEF OutageInv
<1> USE DEF OutageInv, Reading, TypeOK, Answer
<1>0. "ok" \notin loads /\ Kind(w) = "refused" /\ (pc[w] = "guard" => ~Resolves(w))
  <2>1. "ok" \notin loads
    BY DEF Serve, GetClusterRegistry, GetK8sClients, CheckRegistry, LoadRegistry, ParseFails,
           AssignRegistry, ReturnRegistry, Admit, Guard, Scope, ProbeStarts,
           Probe, LookUp, Build, Rebuild, LoadKubeConfig, Connect, Store,
           CallCluster, Evict
  <2>2. registry[w] = NoEntries
    BY <2>1
  <2>3. QED
    BY <2>1, <2>2, EmptyRegistry DEF Kind, Resolves, Placeholder
<1>1. CASE CheckRegistry(w)
  BY <1>1, <1>0 DEF CheckRegistry
<1>2. CASE LoadRegistry(w)
  BY <1>2, <1>0 DEF LoadRegistry, FlagAfter
<1>p. CASE ParseFails(w)
  BY <1>p, <1>0 DEF ParseFails
<1>3. CASE AssignRegistry(w)
  BY <1>3, <1>0 DEF AssignRegistry
<1>4. CASE ReturnRegistry(w)
  BY <1>4, <1>0 DEF ReturnRegistry
<1>5. CASE Admit(w)
  BY <1>5, <1>0 DEF Admit
<1>6. CASE Guard(w)
  BY <1>6, <1>0 DEF Guard
<1>7. CASE Scope(w)
  BY <1>7, <1>0 DEF Scope
<1>8. CASE ProbeStarts(w)
  BY <1>8, <1>0 DEF ProbeStarts
<1>9. CASE Probe(w)
  BY <1>9, <1>0 DEF Probe
<1>10. CASE LookUp(w)
  BY <1>10, <1>0 DEF LookUp
<1>11. CASE Build(w)
  BY <1>11, <1>0 DEF Build
<1>12. CASE Rebuild(w)
  BY <1>12, <1>0 DEF Rebuild
<1>13. CASE LoadKubeConfig(w)
  BY <1>13, <1>0 DEF LoadKubeConfig
<1>14. CASE Connect(w)
  BY <1>14, <1>0 DEF Connect
<1>15. CASE Store(w)
  BY <1>15, <1>0 DEF Store
<1>16. CASE CallCluster(w)
  BY <1>16, <1>0 DEF CallCluster
<1>17. CASE Evict(w)
  BY <1>17 DEF Evict, Evicted
<1>18. QED
  BY <1>1, <1>2, <1>3, <1>4, <1>5, <1>6, <1>7, <1>8, <1>9,
     <1>10, <1>11, <1>12, <1>13, <1>14, <1>15, <1>16, <1>17, <1>p
     DEF Serve, GetClusterRegistry, GetK8sClients

LEMMA OutageStep ==
  ASSUME TypeOK, LocalsInv, OutageInv, [Next]_vars
  PROVE  OutageInv'
<1>1. CASE \E w \in Workers : Serve(w)
  BY <1>1, OutageServe
<1>2. CASE \E w \in Calls : TokenExpires(w)
  BY <1>2 DEF TokenExpires, OutageInv
<1>3. CASE EditBucket \/ RegistryTtlPasses \/ UNCHANGED vars
  BY <1>3 DEF EditBucket, RegistryTtlPasses, vars, OutageInv
<1>4. QED
  BY <1>1, <1>2, <1>3 DEF Next

\* While no download has ever succeeded, a deployed server builds no client at all
\* (server.py, _CLUSTER_REGISTRY_LOAD_FAILED).
THEOREM OutageRefused == Spec => []TotalOutageRefuses
<1>1. Init => TypeOK /\ LocalsInv /\ OutageInv
  BY TypeInit, OutageInit
<1>2. TypeOK /\ LocalsInv /\ OutageInv /\ [Next]_vars
        => (TypeOK /\ LocalsInv /\ OutageInv)'
  BY TypeStep, OutageStep
<1>3. OutageInv => TotalOutageRefuses
  BY DEF OutageInv, TotalOutageRefuses
<1>4. QED
  BY <1>1, <1>2, <1>3, PTL DEF Spec

-----------------------------------------------------------------------------
(* No outage.                                                              *)

Sound(c, k) == /\ k.target # Local
               /\ ServedSomewhere(c)
               /\ FleetOnly(c) => k.target = c

\* What a worker has, while no download has failed: a registry with entries, and
\* a context or a client that its cluster may have.
SoundWorker(w) ==
  /\ pc[w] = "assign" => registry[w] # NoEntries
  /\ pc[w] = "return" => registryCache # NoEntries
  /\ pc[w] \in {"guard", "scope", "build", "rebuild", "probe"} => registry[w] # NoEntries
  /\ pc[w] \in {"config", "connect"} =>
       ServedSomewhere(asked[w]) /\ ~FleetOnly(asked[w]) /\ context[w] # Local
  /\ pc[w] = "store" => Sound(asked[w], client[w])

ServedInv ==
  BucketSet /\ "failed" \notin loads =>
    /\ defaultConfig # Local
    /\ \A w \in Workers : SoundWorker(w)
    /\ \A c \in Clusters : clientCache[c] # None => Sound(c, clientCache[c])

LEMMA ServedInit == Init => ServedInv
  BY NamesAssumption DEF Init, ServedInv, SoundWorker

\* The kind of the asked cluster in a registry that was loaded.
LEMMA KindServed ==
  ASSUME TypeOK, NEW w \in Workers, Kind(w) \in {"context", "fleet"}
  PROVE  /\ ServedSomewhere(asked[w])
         /\ Kind(w) = "context" => ~FleetOnly(asked[w])
<1>1. asked[w] \in DOMAIN registry[w] /\ registry[w] \in Files \cup {NoEntries}
  BY DEF Kind, TypeOK
<1>2. registry[w] \in Files
  BY <1>1, EmptyRegistry
<1>3. QED
  BY <1>1, <1>2 DEF Kind, ServedSomewhere, FleetOnly

LEMMA ServedServe ==
  ASSUME TypeOK, LocalsInv, ServedInv, NEW w \in Workers, Serve(w)
  PROVE  ServedInv'
<1> SUFFICES ASSUME BucketSet, "failed" \notin loads'
             PROVE  ServedInv'
  BY DEF ServedInv
<1> USE DEF ServedInv, SoundWorker, TypeOK, Answer
<1>0. "failed" \notin loads
  BY DEF Serve, GetClusterRegistry, GetK8sClients, CheckRegistry, LoadRegistry, ParseFails,
         AssignRegistry, ReturnRegistry, Admit, Guard, Scope, ProbeStarts,
         Probe, LookUp, Build, Rebuild, LoadKubeConfig, Connect, Store,
         CallCluster, Evict
<1>1. CASE CheckRegistry(w)
  BY <1>1, <1>0 DEF CheckRegistry
<1>2. CASE LoadRegistry(w)
  BY <1>2, <1>0, EmptyRegistry DEF LoadRegistry
<1>p. CASE ParseFails(w)
  BY <1>p, <1>0 DEF ParseFails
<1>3. CASE AssignRegistry(w)
  BY <1>3, <1>0 DEF AssignRegistry
<1>4. CASE ReturnRegistry(w)
  BY <1>4, <1>0 DEF ReturnRegistry
<1>5. CASE Admit(w)
  BY <1>5, <1>0 DEF Admit
<1>6. CASE Guard(w)
  BY <1>6, <1>0 DEF Guard
<1>7. CASE Scope(w)
  BY <1>7, <1>0 DEF Scope
<1>8. CASE ProbeStarts(w)
  BY <1>8, <1>0 DEF ProbeStarts
<1>9. CASE Probe(w)
  BY <1>9, <1>0 DEF Probe
<1>10. CASE LookUp(w)
  BY <1>10, <1>0 DEF LookUp
<1>11. CASE Build(w)
  BY <1>11, <1>0 DEF Build, Placeholder
<1>12. CASE Rebuild(w)
  <2>1. w \in Calls /\ asked[w] \in Clusters /\ asked[w] # Local
    BY <1>12, NamesAssumption DEF Rebuild, LocalsInv, Held, Serving, Places, Reading
  <2>2. Kind(w) = "fleet" => Sound(asked[w], FleetClient(w))
    BY <2>1, KindServed DEF FleetClient, Built, Sound
  <2>3. Kind(w) = "context" => ServedSomewhere(asked[w]) /\ ~FleetOnly(asked[w])
    BY KindServed
  <2>4. QED
    BY <1>12, <1>0, <2>1, <2>2, <2>3 DEF Rebuild
<1>13. CASE LoadKubeConfig(w)
  BY <1>13, <1>0 DEF LoadKubeConfig
<1>14. CASE Connect(w)
  <2>1. Sound(asked[w], Built(w, defaultConfig))
    BY <1>14, <1>0 DEF Connect, Built, Sound
  <2>2. QED
    BY <1>14, <1>0, <2>1 DEF Connect
<1>15. CASE Store(w)
  BY <1>15, <1>0 DEF Store
<1>16. CASE CallCluster(w)
  BY <1>16, <1>0 DEF CallCluster
<1>17. CASE Evict(w)
  BY <1>17, <1>0 DEF Evict, Evicted
<1>18. QED
  BY <1>1, <1>2, <1>3, <1>4, <1>5, <1>6, <1>7, <1>8, <1>9,
     <1>10, <1>11, <1>12, <1>13, <1>14, <1>15, <1>16, <1>17, <1>p
     DEF Serve, GetClusterRegistry, GetK8sClients

LEMMA ServedStep ==
  ASSUME TypeOK, LocalsInv, ServedInv, [Next]_vars
  PROVE  ServedInv'
<1>1. CASE \E w \in Workers : Serve(w)
  BY <1>1, ServedServe
<1>2. CASE \E w \in Calls : TokenExpires(w)
  BY <1>2 DEF TokenExpires, ServedInv, SoundWorker
<1>3. CASE EditBucket \/ RegistryTtlPasses \/ UNCHANGED vars
  BY <1>3 DEF EditBucket, RegistryTtlPasses, vars, ServedInv, SoundWorker
<1>4. QED
  BY <1>1, <1>2, <1>3 DEF Next

\* While no download has failed, a deployed server builds clients for served
\* clusters only, and those of fleet clusters lead to themselves (server.py,
\* resolve_cluster and _build_k8s_clients).
THEOREM ServedOnly == Spec => []OnlyServedClusters
<1>1. Init => TypeOK /\ LocalsInv /\ ServedInv
  BY TypeInit, ServedInit
<1>2. TypeOK /\ LocalsInv /\ ServedInv /\ [Next]_vars
        => (TypeOK /\ LocalsInv /\ ServedInv)'
  BY TypeStep, ServedStep
<1>3. ServedInv => OnlyServedClusters
  BY DEF ServedInv, OnlyServedClusters, Sound
<1>4. QED
  BY <1>1, <1>2, <1>3, PTL DEF Spec

-----------------------------------------------------------------------------
(* Whose context a client holds.                                           *)

\* At most one cluster is ever registered through a context of the kubeconfig.
OneContext == \A c, d \in Clusters : ~FleetOnly(c) /\ ~FleetOnly(d) => c = d

Unmixed(c, k) == FleetOnly(c) \/ OneContext => k.target = c

\* What is left of NeverMixed: while no download has failed, a call of a deployed
\* server holds its own cluster's client, unless its cluster is one of several
\* registered through contexts.
MixedAmongContexts ==
  BucketSet /\ "failed" \notin loads =>
    \A w \in Calls : pc[w] = "call" => Unmixed(asked[w], client[w])

\* The default configuration is a context cluster's, so that the one context
\* there is cannot be overwritten by another.
UnmixedWorker(w) ==
  /\ pc[w] = "config" => context[w] = asked[w]
  /\ pc[w] \in Holding => Unmixed(asked[w], client[w])

UnmixedInv ==
  BucketSet /\ "failed" \notin loads =>
    /\ defaultConfig # None => ~FleetOnly(defaultConfig)
    /\ \A w \in Workers : UnmixedWorker(w)
    /\ \A c \in Clusters : clientCache[c] # None => Unmixed(c, clientCache[c])

LEMMA UnmixedInit == Init => UnmixedInv
  BY DEF Init, UnmixedInv, UnmixedWorker, Holding

LEMMA UnmixedServe ==
  ASSUME TypeOK, LocalsInv, ServedInv, UnmixedInv, NEW w \in Workers, Serve(w)
  PROVE  UnmixedInv'
<1> SUFFICES ASSUME BucketSet, "failed" \notin loads'
             PROVE  UnmixedInv'
  BY DEF UnmixedInv
<1> USE DEF UnmixedInv, UnmixedWorker, Holding, TypeOK, Answer
<1>0. "failed" \notin loads
  BY DEF Serve, GetClusterRegistry, GetK8sClients, CheckRegistry, LoadRegistry, ParseFails,
         AssignRegistry, ReturnRegistry, Admit, Guard, Scope, ProbeStarts,
         Probe, LookUp, Build, Rebuild, LoadKubeConfig, Connect, Store,
         CallCluster, Evict
<1>1. CASE GetClusterRegistry(w)
  BY <1>1, <1>0
  DEF GetClusterRegistry, CheckRegistry, LoadRegistry, ParseFails,
      AssignRegistry, ReturnRegistry, LocalsInv, Held
<1>2. CASE Admit(w)
  BY <1>2, <1>0 DEF Admit
<1>3. CASE Guard(w) \/ Scope(w)
  BY <1>3, <1>0 DEF Guard, Scope
<1>4. CASE ProbeStarts(w)
  BY <1>4, <1>0 DEF ProbeStarts
<1>5. CASE Probe(w)
  <2>1. registry[w] # NoEntries
    BY <1>5, <1>0 DEF Probe, ServedInv, SoundWorker
  <2>2. QED
    BY <1>5, <1>0, <2>1 DEF Probe
<1>6. CASE LookUp(w)
  <2>1. asked[w] \in Clusters
    BY <1>6 DEF LookUp, LocalsInv, Held, Serving, Places, Reading
  <2>2. QED
    BY <1>6, <1>0, <2>1 DEF LookUp
<1>7. CASE Build(w)
  <2>1. registry[w] # NoEntries
    BY <1>7, <1>0 DEF Build, ServedInv, SoundWorker
  <2>2. QED
    BY <1>7, <1>0, <2>1 DEF Build, Placeholder
<1>8. CASE Rebuild(w)
  <2>1. Unmixed(asked[w], FleetClient(w))
    BY DEF Unmixed, FleetClient, Built
  <2>2. QED
    BY <1>8, <1>0, <2>1 DEF Rebuild
<1>9. CASE LoadKubeConfig(w)
  <2>1. pc[w] = "config" /\ context[w] = asked[w] /\ ~FleetOnly(asked[w])
    BY <1>9, <1>0 DEF LoadKubeConfig, ServedInv, SoundWorker
  <2>2. QED
    BY <1>9, <1>0, <2>1 DEF LoadKubeConfig
<1>10. CASE Connect(w)
  <2>1. /\ ~FleetOnly(asked[w]) /\ ~FleetOnly(defaultConfig)
        /\ asked[w] \in Clusters /\ defaultConfig \in Clusters
    BY <1>10, <1>0
    DEF Connect, ServedInv, SoundWorker, LocalsInv, Held, Serving, Places, Reading
  <2>2. Unmixed(asked[w], Built(w, defaultConfig))
    BY <2>1 DEF Unmixed, OneContext, Built
  <2>3. QED
    BY <1>10, <1>0, <2>2 DEF Connect
<1>11. CASE Store(w)
  BY <1>11, <1>0 DEF Store
<1>12. CASE CallCluster(w)
  BY <1>12, <1>0 DEF CallCluster
<1>13. CASE Evict(w)
  BY <1>13, <1>0 DEF Evict, Evicted
<1>14. QED
  BY <1>1, <1>2, <1>3, <1>4, <1>5, <1>6, <1>7, <1>8, <1>9, <1>10, <1>11, <1>12,
     <1>13
  DEF Serve, GetK8sClients

LEMMA UnmixedStep ==
  ASSUME TypeOK, LocalsInv, ServedInv, UnmixedInv, [Next]_vars
  PROVE  UnmixedInv'
<1>1. CASE \E w \in Workers : Serve(w)
  BY <1>1, UnmixedServe
<1>2. CASE \E w \in Calls : TokenExpires(w)
  BY <1>2 DEF TokenExpires, UnmixedInv, UnmixedWorker
<1>3. CASE EditBucket \/ RegistryTtlPasses \/ UNCHANGED vars
  BY <1>3 DEF EditBucket, RegistryTtlPasses, vars, UnmixedInv, UnmixedWorker
<1>4. QED
  BY <1>1, <1>2, <1>3 DEF Next

\* The finding on NeverMixed goes no further than this: a fleet cluster's calls
\* are never sent elsewhere, and nobody's are while one cluster at most is left
\* on the legacy path through a kubeconfig context (server.py, get_k8s_clients
\* and _build_k8s_clients).
THEOREM MixedOnlyAmongContexts == Spec => []MixedAmongContexts
<1>1. Init => TypeOK /\ LocalsInv /\ ServedInv /\ UnmixedInv
  BY TypeInit, ServedInit, UnmixedInit
<1>2. TypeOK /\ LocalsInv /\ ServedInv /\ UnmixedInv /\ [Next]_vars
        => (TypeOK /\ LocalsInv /\ ServedInv /\ UnmixedInv)'
  BY TypeStep, ServedStep, UnmixedStep
<1>3. UnmixedInv => MixedAmongContexts
  BY DEF UnmixedInv, UnmixedWorker, MixedAmongContexts, Workers, Holding
<1>4. QED
  BY <1>1, <1>2, <1>3, PTL DEF Spec
-----------------------------------------------------------------------------
(* How long a call can go on.                                              *)

\* Steps that a call at this place has before it, at most, when it is not on
\* its way through the registry.
StepsFrom(place) ==
  CASE place = "new"     -> 27
    [] place = "guard"   -> 22
    [] place = "scope"   -> 17
    [] place = "clients" -> 16
    [] place = "build"   -> 11
    [] place = "rebuild" -> 6
    [] place = "config"  -> 5
    [] place = "connect" -> 4
    [] place = "store"   -> 3
    [] place = "call"    -> 2
    [] place = "evict"   -> 1
    [] place = "probe"   -> 1
    [] OTHER             -> 0

StepsAt(place, next) ==
  CASE place = "check"  -> StepsFrom(next) + 4
    [] place = "load"   -> StepsFrom(next) + 3
    [] place = "assign" -> StepsFrom(next) + 2
    [] place = "return" -> StepsFrom(next) + 1
    [] OTHER            -> StepsFrom(place)

StepsToAnswer(w) == StepsAt(pc[w], back[w])

\* A worker stands still or comes closer to its answer.
Closer(w) ==
  \/ pc'[w] = pc[w] /\ back'[w] = back[w]
  \/ StepsToAnswer(w)' < StepsToAnswer(w)

AnswersProgress ==
  \A w \in Workers : StepsToAnswer(w) \in 0 .. 27 /\ Closer(w)

LEMMA StepsBounded ==
  ASSUME TypeOK, LocalsInv, NEW w \in Workers
  PROVE  StepsToAnswer(w) \in 0 .. 27
<1>1. /\ pc[w] \in Places
      /\ back[w] \in {"new", "guard", "scope", "build", "rebuild", "probe"}
  BY DEF TypeOK
<1>2. CASE pc[w] \in Reading
  <2>1. back[w] \in {"guard", "scope", "build", "rebuild", "probe"}
    BY <1>1, <1>2 DEF LocalsInv, Held
  <2>2. StepsFrom(back[w]) \in 0 .. 22
    BY <2>1 DEF StepsFrom
  <2>3. \E n \in 1 .. 4 : StepsToAnswer(w) = StepsFrom(back[w]) + n
    BY <1>2 DEF StepsToAnswer, StepsAt, Reading
  <2>4. QED
    BY <2>2, <2>3
<1>3. CASE pc[w] \notin Reading
  BY <1>3 DEF StepsToAnswer, StepsAt, StepsFrom, Reading
<1>4. QED
  BY <1>2, <1>3

LEMMA ServedCloser ==
  ASSUME TypeOK, NEW w \in Workers, Serve(w)
  PROVE  Closer(w)
<1> USE DEF Closer, StepsToAnswer
<1>t. /\ pc \in [Workers -> Places]
      /\ back \in [Workers -> {"new", "guard", "scope", "build", "rebuild", "probe"}]
  BY DEF TypeOK
<1>n. \A p : StepsFrom(p) \in Nat
  BY DEF StepsFrom
<1>1. CASE GetClusterRegistry(w)
  <2>1. CASE CheckRegistry(w)
    BY <1>t, <1>n, <2>1 DEF CheckRegistry, StepsAt
  <2>2. CASE LoadRegistry(w)
    BY <1>t, <1>n, <2>2 DEF LoadRegistry, StepsAt
  <2>6. CASE ParseFails(w)
    BY <1>t, <1>n, <2>6 DEF ParseFails, Answer, StepsAt, StepsFrom
  <2>3. CASE AssignRegistry(w)
    BY <1>t, <1>n, <2>3 DEF AssignRegistry, StepsAt
  <2>4. CASE ReturnRegistry(w)
    <3>1. /\ pc[w] = "return" /\ pc'[w] = back[w] /\ back'[w] = back[w]
          /\ back[w] \in {"new", "guard", "scope", "build", "rebuild", "probe"}
      BY <1>t, <2>4 DEF ReturnRegistry
    <3>2. StepsAt(back[w], back[w]) = StepsFrom(back[w])
      BY <3>1 DEF StepsAt
    <3>3. StepsAt("return", back[w]) = StepsFrom(back[w]) + 1
      BY DEF StepsAt
    <3>4. QED
      BY <1>n, <3>1, <3>2, <3>3
  <2>5. QED
    BY <1>1, <2>1, <2>2, <2>3, <2>4, <2>6 DEF GetClusterRegistry
<1> USE DEF Answer, StepsAt, StepsFrom
<1>2. CASE Admit(w)
  BY <1>t, <1>2 DEF Admit
<1>3. CASE Guard(w)
  BY <1>t, <1>3 DEF Guard
<1>4. CASE Scope(w)
  BY <1>t, <1>4 DEF Scope
<1>5. CASE LookUp(w)
  BY <1>t, <1>5 DEF LookUp
<1>6. CASE Build(w)
  BY <1>t, <1>6 DEF Build
<1>7. CASE Rebuild(w)
  BY <1>t, <1>7 DEF Rebuild
<1>8. CASE LoadKubeConfig(w) \/ Connect(w) \/ Store(w)
  BY <1>t, <1>8 DEF LoadKubeConfig, Connect, Store
<1>9. CASE CallCluster(w) \/ Evict(w)
  BY <1>t, <1>9 DEF CallCluster, Evict
<1>10. CASE ProbeStarts(w) \/ Probe(w)
  BY <1>t, <1>10 DEF ProbeStarts, Probe
<1>11. QED
  BY <1>1, <1>2, <1>3, <1>4, <1>5, <1>6, <1>7, <1>8, <1>9, <1>10
  DEF Serve, GetK8sClients

\* A worker's step leaves the others where they are.
LEMMA ServesOne ==
  ASSUME TypeOK, NEW w \in Workers, Serve(w), NEW v \in Workers, v # w
  PROVE  pc'[v] = pc[v] /\ back'[v] = back[v]
<1> USE DEF TypeOK, Answer
<1>1. CASE GetClusterRegistry(w)
  BY <1>1 DEF GetClusterRegistry, CheckRegistry, LoadRegistry, ParseFails,
     AssignRegistry, ReturnRegistry
<1>2. CASE Admit(w) \/ Guard(w) \/ Scope(w)
  BY <1>2 DEF Admit, Guard, Scope
<1>3. CASE GetK8sClients(w)
  BY <1>3 DEF GetK8sClients, LookUp, Build, Rebuild, LoadKubeConfig, Connect, Store
<1>4. CASE CallCluster(w) \/ Evict(w) \/ ProbeStarts(w) \/ Probe(w)
  BY <1>4 DEF CallCluster, Evict, ProbeStarts, Probe
<1>5. QED
  BY <1>1, <1>2, <1>3, <1>4 DEF Serve

CallsRunDown == [][AnswersProgress]_vars

\* A call or a probe is answered after at most 27 steps, four readings of the
\* registry among them: a reload, an outage, an edit, an eviction or another
\* call's client sends none of them back to where it was (mcp/server.py, guarded
\* of mcp/security.py).
THEOREM CallsAreAnswered == Spec => CallsRunDown
<1>1. TypeOK /\ LocalsInv /\ [Next]_vars => [AnswersProgress]_vars
  <2> SUFFICES ASSUME TypeOK, LocalsInv, [Next]_vars, NEW w \in Workers
               PROVE  Closer(w)
    BY StepsBounded DEF AnswersProgress
  <2>1. ASSUME NEW v \in Workers, Serve(v) PROVE Closer(w)
    BY <2>1, ServedCloser, ServesOne DEF Closer
  <2>2. CASE \/ \E v \in Calls : TokenExpires(v)
             \/ EditBucket \/ RegistryTtlPasses \/ UNCHANGED vars
    BY <2>2 DEF TokenExpires, EditBucket, RegistryTtlPasses, vars, Closer
  <2>3. QED
    BY <2>1, <2>2 DEF Next
<1>2. QED
  BY <1>1, ServerTypes, PTL DEF Spec, CallsRunDown
=============================================================================
