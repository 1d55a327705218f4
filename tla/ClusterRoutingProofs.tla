------------------------ MODULE ClusterRoutingProofs ------------------------
(***************************************************************************)
(* Proofs about ClusterRouting, for any number of threads, contents of     *)
(* clusters.json, requests and replies.                                    *)
(***************************************************************************)
EXTENDS ClusterRouting, WellFoundedInduction, TLAPS

USE DEF registryVars, readVars, runVars, Step, Consults, Rests, Uses

-----------------------------------------------------------------------------
(* First and last positions exist.                                         *)

LEMMA FirstExists ==
  ASSUME NEW S \in SUBSET Nat, S # {}
  PROVE  \E i \in S : \A j \in S : i <= j
<1>1. \E R : /\ IsWellFoundedOn(R, Nat)
             /\ \A x, y \in Nat : x < y => <<x, y>> \in R
  <2>1. \A x, y \in Nat : x < y => <<x, y>> \in OpToRel(<, Nat)
    BY DEF OpToRel
  <2>2. QED
    BY <2>1, NatLessThanWellFounded
<1>2. PICK R : /\ IsWellFoundedOn(R, Nat)
               /\ \A x, y \in Nat : x < y => <<x, y>> \in R
  BY <1>1
<1>3. PICK i \in S : \A j \in S : ~ (<<j, i>> \in R)
  <2>1. S \subseteq Nat
    OBVIOUS
  <2>2. IsWellFoundedOn(R, Nat)
    BY <1>2
  <2>3. QED
    BY <2>1, <2>2, WFMin, Zenon
<1>4. ASSUME NEW j \in S PROVE i <= j
  <2>1. i \in Nat /\ j \in Nat
    OBVIOUS
  <2>2. ~ (j < i)
    BY <1>2, <1>3, <2>1, Zenon
  <2>3. QED
    BY <2>1, <2>2
<1>5. QED
  BY <1>4

LEMMA LastExists ==
  ASSUME NEW n \in Nat, NEW S \in SUBSET (1 .. n), S # {}
  PROVE  \E i \in S : \A j \in S : j <= i
<1> DEFINE Mirror == {k \in 0 .. n : n - k \in S}
<1>1. Mirror \in SUBSET Nat
  OBVIOUS
<1>2. \A i \in S : n - i \in Mirror /\ n - (n - i) = i
  <2>1. \A i \in S : i \in 0 .. n /\ n - i \in 0 .. n /\ n - (n - i) = i
    OBVIOUS
  <2>2. QED
    BY <2>1
<1>3. PICK k \in Mirror : \A l \in Mirror : k <= l
  <2>1. Mirror # {}
    BY <1>2
  <2>2. QED
    BY <1>1, <2>1, FirstExists
<1>4. n - k \in S
  OBVIOUS
<1>5. ASSUME NEW j \in S PROVE j <= n - k
  <2>1. k <= n - j
    BY <1>2, <1>3, <1>5
  <2>2. QED
    BY <2>1
<1>6. QED
  BY <1>4, <1>5

-----------------------------------------------------------------------------
(* Registries.                                                             *)

\* A registry some content of the file justifies, or the empty one.
Sourced(r) == r = NoEntries \/ \E f \in Files : r = BuildRegistry(f)

LEMMA BuiltFromFile ==
  ASSUME NEW f \in Files
  PROVE  /\ DOMAIN BuildRegistry(f) \subseteq 1 .. Len(f)
         /\ BuildRegistry(f) \in [DOMAIN BuildRegistry(f) -> Entries]
<1> DEFINE named == {i \in DOMAIN f : f[i].name # None}
           First(i) == \A j \in named : f[j].name = f[i].name => i <= j
           Last(i)  == \A j \in named : f[j].name = f[i].name => j <= i
           Taken(i) == CHOOSE j \in named : f[j].name = f[i].name /\ Last(j)
<1>1. f \in Seq(RawEntry) /\ DOMAIN f = 1 .. Len(f) /\ Len(f) \in Nat
  BY RoutingAssumption
<1>2. BuildRegistry(f) = [i \in {k \in named : First(k)} |-> f[Taken(i)]]
  BY DEF BuildRegistry
<1>3. ASSUME NEW i \in named PROVE f[Taken(i)] \in Entries
  <2> DEFINE same == {j \in named : f[j].name = f[i].name}
  <2>1. same \in SUBSET (1 .. Len(f)) /\ same # {}
    BY <1>1, <1>3
  <2>2. PICK j \in same : \A k \in same : k <= j
    BY <1>1, <2>1, LastExists
  <2>3. Last(j)
    BY <2>2
  <2>4. Taken(i) \in named
    BY <2>2, <2>3
  <2>5. QED
    BY <1>1, <2>4 DEF Entries
<1> HIDE DEF Taken, First
<1>4. QED
  BY <1>1, <1>2, <1>3

LEMMA SourcedIsRegistry ==
  ASSUME NEW r, Sourced(r)
  PROVE  /\ IsRegistry(r)
         /\ \E n \in Nat : DOMAIN r \subseteq 1 .. n
<1>1. CASE r = NoEntries
  BY <1>1 DEF NoEntries, IsRegistry
<1>2. CASE \E f \in Files : r = BuildRegistry(f)
  <2>1. PICK f \in Files : r = BuildRegistry(f)
    BY <1>2
  <2>2. Len(f) \in Nat
    BY RoutingAssumption
  <2>3. QED
    BY <2>1, <2>2, BuiltFromFile DEF IsRegistry
<1>3. QED
  BY <1>1, <1>2 DEF Sourced

LEMMA EntryIsStated ==
  ASSUME NEW r, Sourced(r), NEW name, Registered(r, name)
  PROVE  Entry(r, name) \in Stated(name) /\ Entry(r, name) \in Entries
<1>1. PICK f \in Files : r = BuildRegistry(f)
  BY DEF Sourced, Registered, NoEntries
<1>2. PICK i \in DOMAIN r : Entry(r, name) = r[i] /\ r[i].name = name
  BY DEF Registered, Entry
<1>3. QED
  BY <1>1, <1>2, BuiltFromFile DEF Stated

LEMMA DownloadIsSourced ==
  ASSUME bucket \in Files \cup {None}
  PROVE  Sourced(Downloaded)
BY DEF Downloaded, Sourced

-----------------------------------------------------------------------------
(* Types.                                                                  *)

\* What is cached, and what is about to be.
ReadInv ==
  /\ Sourced(registryCache)
  /\ held = [t \in Threads |-> held[t]]
  /\ \A t \in Threads : reading[t] = "assign" => Sourced(held[t])

TypeInv == TypeOK /\ ReadInv

LEMMA TypeInit == Init => TypeInv
<1> SUFFICES ASSUME Init PROVE TypeInv
  OBVIOUS
<1>1. Sourced(NoEntries)
  BY DEF Sourced
<1>2. QED
  BY <1>1, SourcedIsRegistry DEF Init, TypeInv, TypeOK, ReadInv, Positions

LEMMA TypeRead ==
  ASSUME TypeInv, NEW t \in Threads, GetClusterRegistry(t)
  PROVE  TypeInv'
<1> USE DEF TypeInv, TypeOK, ReadInv
<1>1. CASE CheckRegistry(t)
  BY <1>1 DEF CheckRegistry
<1>2. CASE LoadRegistry(t)
  <2>1. Sourced(Downloaded) /\ IsRegistry(Downloaded)
    BY DownloadIsSourced, SourcedIsRegistry
  <2>2. QED
    BY <1>2, <2>1 DEF LoadRegistry
<1>3. CASE AssignRegistry(t)
  <2>1. Sourced(held[t]) /\ IsRegistry(held[t])
    BY <1>3, SourcedIsRegistry DEF AssignRegistry
  <2>2. QED
    BY <1>3, <2>1 DEF AssignRegistry
<1>4. QED
  BY <1>1, <1>2, <1>3 DEF GetClusterRegistry

LEMMA TypeEnd ==
  ASSUME TypeInv, NEW t \in Threads, End(t)
  PROVE  TypeInv'
BY DEF TypeInv, TypeOK, ReadInv, End, Positions

LEMMA TypeNextRound ==
  ASSUME TypeInv, NEW t \in Threads, NextRound(t)
  PROVE  TypeInv'
<1>1. CASE End(t)
  BY <1>1, TypeEnd
<1>2. CASE ~ End(t)
  BY <1>2 DEF TypeInv, TypeOK, ReadInv, NextRound, Positions, Places
<1>3. QED
  BY <1>1, <1>2

LEMMA RoutedIsPosition ==
  ASSUME NEW r, NEW q, NEW i \in Routed(r, q)
  PROVE  i \in Enabled(r)
BY DEF Routed, ByHint, AliasIndex, BySelectors

LEMMA TypeRoute ==
  ASSUME TypeInv, NEW t \in Threads,
         Unresolved(t) \/ Resolved(t) \/ ResolveCluster(t)
  PROVE  TypeInv'
<1>1. CASE Unresolved(t)
  BY <1>1, TypeEnd DEF Unresolved
<1>2. CASE Resolved(t)
  <2>1. PICK i \in Routed(registryCache, request[t]) :
          cluster' = [cluster EXCEPT ![t] = registryCache[i].name]
    BY <1>2 DEF Resolved
  <2>2. registryCache[i].name \in Words
    BY <2>1, RoutedIsPosition DEF TypeInv, TypeOK, IsRegistry, Enabled, Entries, RawEntry
  <2>3. QED
    BY <1>2, <2>1, <2>2 DEF TypeInv, TypeOK, ReadInv, Resolved, Positions, Places
<1>3. CASE ResolveCluster(t)
  <2>1. CASE End(t)
    BY <2>1, TypeEnd
  <2>2. CASE ~ End(t)
    BY <1>3, <2>2 DEF TypeInv, TypeOK, ReadInv, ResolveCluster, Positions, Places
  <2>3. QED
    BY <2>1, <2>2
<1>4. QED
  BY <1>1, <1>2, <1>3

LEMMA TypePlan ==
  ASSUME TypeInv, NEW t \in Threads,
         SafeStop(t) \/ PlanNothing(t) \/ PlanCall(t)
           \/ \E s \in Sources : CallCatalogSource(t, s)
  PROVE  TypeInv'
<1>1. CASE SafeStop(t) \/ PlanNothing(t)
  BY <1>1, TypeNextRound DEF SafeStop, PlanNothing
<1>2. CASE PlanCall(t)
  <2>1. Entry(registryCache, cluster[t]).type \in {"gke", "custom"}
    BY <1>2, EntryIsStated
    DEF PlanCall, Plannable, TypeInv, ReadInv, Entries, RawEntry
  <2>2. PICK u \in Tools : tool' = [tool EXCEPT ![t] = u]
    BY <1>2 DEF PlanCall, ToolsOf, Tools
  <2>3. QED
    BY <1>2, <2>1, <2>2 DEF TypeInv, TypeOK, ReadInv, PlanCall, Positions, Places
<1>3. CASE \E s \in Sources : CallCatalogSource(t, s)
  BY <1>3 DEF TypeInv, TypeOK, ReadInv, CallCatalogSource, Positions
<1>4. QED
  BY <1>1, <1>2, <1>3

LEMMA TypeCall ==
  ASSUME TypeInv, NEW t \in Threads,
         SendGke(t) \/ SendCustom(t) \/ TokenFails(t) \/ RetryTokenFails(t)
           \/ Receive(t) \/ Finish(t)
  PROVE  TypeInv'
<1>1. CASE SendGke(t)
  <2>1. Project(t) \in {Default} \cup Projects
    BY EntryIsStated DEF Project, Known, TypeInv, ReadInv, Entries, RawEntry
  <2>2. QED
    BY <1>1, <2>1 DEF TypeInv, TypeOK, ReadInv, SendGke, Positions
<1>2. CASE SendCustom(t)
  <2>1. CASE Rests(t, "sent") /\ UNCHANGED result
    BY <1>2, <2>1 DEF TypeInv, TypeOK, ReadInv, SendCustom, Positions
  <2>2. CASE Rests(t, "answered") /\ Fails(t, << >>)
    BY <1>2, <2>2 DEF TypeInv, TypeOK, ReadInv, SendCustom, Fails, Positions
  <2>3. QED
    BY <1>2, <2>1, <2>2 DEF SendCustom
<1>3. CASE TokenFails(t)
  BY <1>3, TypeEnd DEF TokenFails
<1>4. CASE Receive(t)
  <2>1. CASE \E body \in RepliesTo(t) : Returns(t, body)
    <3>1. PICK body \in Replies : Returns(t, body)
      BY <2>1 DEF RepliesTo
    <3>2. PICK parsed \in ParseResponse(body), blocked \in Blocks(t) :
            result' = [result EXCEPT ![t] =
                         [ok |-> Usable(t, parsed) /\ ~ blocked, body |-> body]]
      BY <3>1 DEF Returns
    <3>3. (Usable(t, parsed) /\ ~ blocked) \in BOOLEAN
      OBVIOUS
    <3>4. QED
      BY <3>1, <3>2, <3>3 DEF TypeInv, TypeOK, ReadInv, Returns, Received, Positions
  <2>2. CASE \E body \in RepliesTo(t) : RetriesBroadened(t, body)
    BY <2>2 DEF TypeInv, TypeOK, ReadInv, RetriesBroadened, Received, Tools,
                Positions, Places
  <2>3. CASE CallFails(t)
    BY <2>3 DEF TypeInv, TypeOK, ReadInv, CallFails, Fails, Received, Positions
  <2>4. QED
    BY <1>4, <2>1, <2>2, <2>3 DEF Receive
<1>5. CASE Finish(t)
  BY <1>5, TypeNextRound DEF Finish
<1>6. CASE RetryTokenFails(t)
  BY <1>6 DEF TypeInv, TypeOK, ReadInv, RetryTokenFails, CallFails, Fails,
              Received, Positions
<1>7. QED
  BY <1>1, <1>2, <1>3, <1>4, <1>5, <1>6

LEMMA TypeStep == TypeInv /\ [Next]_vars => TypeInv'
<1> SUFFICES ASSUME TypeInv, [Next]_vars PROVE TypeInv'
  OBVIOUS
<1>1. ASSUME NEW t \in Threads, Advance(t) PROVE TypeInv'
  BY <1>1, TypeRead, TypeRoute, TypePlan, TypeCall DEF Advance
<1>2. ASSUME NEW t \in Threads, NEW q \in Requests, Arrive(t, q) PROVE TypeInv'
  BY <1>2 DEF Arrive, TypeInv, TypeOK, ReadInv, Positions, Places
<1>3. CASE EditBucket
  BY <1>3 DEF EditBucket, TypeInv, TypeOK, ReadInv
<1>4. CASE RegistryTtlPasses
  BY <1>4 DEF RegistryTtlPasses, TypeInv, TypeOK, ReadInv
<1>5. CASE UNCHANGED vars
  BY <1>5 DEF vars, TypeInv, TypeOK, ReadInv
<1>6. QED
  BY <1>1, <1>2, <1>3, <1>4, <1>5 DEF Next

\* Every variable keeps its type, for any content of the file and any reply.
THEOREM RoutingTypes == Spec => []TypeOK
<1>1. TypeInv => TypeOK
  BY DEF TypeInv
<1>2. QED
  BY <1>1, TypeInit, TypeStep, PTL DEF Spec

-----------------------------------------------------------------------------
(* The tiers.                                                              *)

LEMMA NoAlias ==
  ASSUME NEW r, Sourced(r), NEW w, AliasIndex(r, w) = {}
  PROVE  \A i \in Enabled(r) : ~ HasAlias(r[i], w)
<1> DEFINE owners == {i \in Enabled(r) : HasAlias(r[i], w)}
<1>1. PICK n \in Nat : owners \in SUBSET (1 .. n)
  BY SourcedIsRegistry DEF Enabled
<1>2. ~ \E i \in owners : \A j \in owners : j <= i
  BY DEF AliasIndex
<1>3. owners = {}
  BY <1>1, <1>2, LastExists
<1>4. QED
  BY <1>3

LEMMA NoName ==
  ASSUME NEW r, Sourced(r), NEW w, CaseInsensitive(r, w) = {}
  PROVE  \A i \in DOMAIN r : ~ SameWord(r[i].name, w)
<1> DEFINE same == {i \in DOMAIN r : SameWord(r[i].name, w)}
<1>1. same \in SUBSET Nat
  BY SourcedIsRegistry DEF IsRegistry
<1>2. ~ \E i \in same : \A j \in same : i <= j
  BY DEF CaseInsensitive
<1>3. same = {}
  BY <1>1, <1>2, FirstExists
<1>4. QED
  BY <1>3

LEMMA RoutedIsRight ==
  ASSUME NEW r, NEW q, NEW i \in Routed(r, q)
  PROVE  RightCluster(r, q, r[i].name)
<1>1. i \in Enabled(r) /\ Enabled(r) \subseteq DOMAIN r
  BY RoutedIsPosition DEF Enabled
<1>2. CASE q.hint # None
  <2> DEFINE exact == {j \in DOMAIN r : r[j].name = q.hint}
  <2>1. i \in ByHint(r, q.hint)
    BY <1>2 DEF Routed
  <2>2. CASE exact # {}
    BY <1>1, <1>2, <2>1, <2>2 DEF ByHint, RightCluster, Answers, SameWord
  <2>3. CASE exact = {}
    <3>1. ~ Registered(r, q.hint)
      BY <2>3 DEF Registered
    <3>2. SameWord(r[i].name, q.hint) \/ HasAlias(r[i], q.hint)
      BY <2>1, <2>3 DEF ByHint, CaseInsensitive, AliasIndex
    <3>3. QED
      BY <1>1, <1>2, <3>1, <3>2 DEF RightCluster, Answers
  <2>4. QED
    BY <2>2, <2>3
<1>3. CASE q.hint = None
  <2>1. CASE q.guess # None /\ AliasIndex(r, q.guess) # {}
    BY <1>1, <1>3, <2>1 DEF Routed, AliasIndex, RightCluster
  <2>2. CASE ~ (q.guess # None /\ AliasIndex(r, q.guess) # {})
    <3>1. i \in BySelectors(r, q)
      BY <1>3, <2>2 DEF Routed
    <3>2. OnlyFit(r, q, i)
      BY <3>1 DEF BySelectors, OnlyFit
    <3>3. QED
      BY <1>1, <1>3, <3>2 DEF RightCluster
  <2>3. QED
    BY <2>1, <2>2
<1>4. QED
  BY <1>2, <1>3

LEMMA NoneIsRefused ==
  ASSUME NEW r, Sourced(r), NEW q, Routed(r, q) = {}
  PROVE  RightlyRefused(r, q)
<1>1. CASE q.hint # None
  <2> DEFINE exact == {j \in DOMAIN r : r[j].name = q.hint}
             named == IF exact # {} THEN exact ELSE CaseInsensitive(r, q.hint)
  <2>1. ByHint(r, q.hint) = {}
    BY <1>1 DEF Routed
  <2>2. \A j \in named : j \in DOMAIN r /\ SameWord(r[j].name, q.hint)
    BY DEF CaseInsensitive, SameWord
  <2>3. CASE named # {}
    <3>1. named \cap Enabled(r) = {}
      BY <2>1, <2>3 DEF ByHint
    <3>2. QED
      BY <1>1, <2>2, <2>3, <3>1 DEF RightlyRefused
  <2>4. CASE named = {}
    <3>1. AliasIndex(r, q.hint) = {} /\ CaseInsensitive(r, q.hint) = {}
      BY <2>1, <2>4 DEF ByHint
    <3>2. QED
      BY <1>1, <3>1, NoAlias, NoName DEF RightlyRefused, Answers, Enabled
  <2>5. QED
    BY <2>3, <2>4
<1>2. CASE q.hint = None
  <2>1. q.guess # None => AliasIndex(r, q.guess) = {}
    BY <1>2 DEF Routed
  <2>2. BySelectors(r, q) = {}
    BY <1>2, <2>1 DEF Routed
  <2>3. \A i \in Enabled(r) : ~ OnlyFit(r, q, i)
    BY <2>2 DEF BySelectors, OnlyFit
  <2>4. QED
    BY <1>2, <2>1, <2>3, NoAlias DEF RightlyRefused
<1>3. QED
  BY <1>1, <1>2

\* While a thread holds the registry it routes by, only routing moves it on.
LEMMA RoutingMoves ==
  ASSUME TypeInv, [Next]_vars, NEW t \in Threads, Uses(t, "route"),
         at'[t] # "route"
  PROVE  Unresolved(t) \/ Resolved(t)
<1>1. ASSUME NEW u \in Threads, u # t, Advance(u) PROVE at'[t] = at[t]
  BY <1>1 DEF TypeInv, TypeOK, Advance, GetClusterRegistry, CheckRegistry,
     LoadRegistry, AssignRegistry, Unresolved, Resolved, ResolveCluster, End,
     NextRound, SafeStop, PlanNothing, PlanCall, CallCatalogSource, SendGke,
     SendCustom, TokenFails, RetryTokenFails, Receive, Returns,
     RetriesBroadened, CallFails, Finish
<1>2. ASSUME Advance(t) PROVE Unresolved(t) \/ Resolved(t)
  BY <1>2 DEF Advance, GetClusterRegistry, CheckRegistry, LoadRegistry,
     AssignRegistry, ResolveCluster, SafeStop, PlanNothing, PlanCall,
     CallCatalogSource, SendGke, SendCustom, TokenFails, RetryTokenFails,
     Receive, Finish
<1>3. ASSUME NEW u \in Threads, NEW q \in Requests, Arrive(u, q)
      PROVE  at'[t] = at[t]
  BY <1>3 DEF Arrive, TypeInv, TypeOK
<1>4. CASE EditBucket \/ RegistryTtlPasses \/ UNCHANGED vars
  BY <1>4 DEF EditBucket, RegistryTtlPasses, vars
<1>5. QED
  BY <1>1, <1>2, <1>3, <1>4 DEF Next

\* The four tiers, with their order, their case folding and their two indexes,
\* come to RightCluster and RightlyRefused, for any registry and request.
THEOREM RoutingByRule == Spec => RoutesByRule
<1> DEFINE RouteStep ==
      \A t \in Threads : Uses(t, "route") /\ at'[t] # "route" =>
        IF at'[t] = "resolve"
          THEN RightCluster(registryCache, request[t], cluster'[t])
          ELSE RightlyRefused(registryCache, request[t])
<1>1. TypeInv /\ [Next]_vars => RouteStep
  <2> SUFFICES ASSUME TypeInv, [Next]_vars, NEW t \in Threads,
                      Uses(t, "route"), at'[t] # "route"
               PROVE  IF at'[t] = "resolve"
                        THEN RightCluster(registryCache, request[t], cluster'[t])
                        ELSE RightlyRefused(registryCache, request[t])
    OBVIOUS
  <2>1. CASE Unresolved(t)
    <3>1. at'[t] = "idle"
      BY <2>1 DEF Unresolved, End, TypeInv, TypeOK
    <3>2. RightlyRefused(registryCache, request[t])
      BY <2>1, NoneIsRefused DEF Unresolved, TypeInv, ReadInv
    <3>3. QED
      BY <3>1, <3>2
  <2>2. CASE Resolved(t)
    <3>1. PICK i \in Routed(registryCache, request[t]) :
            cluster' = [cluster EXCEPT ![t] = registryCache[i].name]
      BY <2>2 DEF Resolved
    <3>2. cluster'[t] = registryCache[i].name /\ at'[t] = "resolve"
      BY <2>2, <3>1 DEF Resolved, TypeInv, TypeOK
    <3>3. QED
      BY <3>1, <3>2, RoutedIsRight
  <2>3. QED
    BY <2>1, <2>2, RoutingMoves
<1>2. QED
  BY <1>1, TypeInit, TypeStep, PTL DEF Spec, RoutesByRule

-----------------------------------------------------------------------------
(* Destinations.                                                           *)

\* A planned call is for a listed cluster until it has been sent, and a reader
\* that finds no registry at all has seen an outage.
DestinationInv ==
  /\ \A t \in Threads : at[t] \in {"send", "sent"} =>
       \E e \in Stated(cluster[t]) : e.enabled /\ e.type = source[t]
  /\ \A t \in Threads : reading[t] = "use" /\ registryCache = NoEntries => outage
  /\ DestinationKnown

LEMMA DestinationInit == Init => DestinationInv
BY DEF Init, DestinationInv, DestinationKnown

LEMMA DestinationRead ==
  ASSUME TypeInv, DestinationInv, NEW t \in Threads, GetClusterRegistry(t)
  PROVE  DestinationInv'
<1> USE DEF TypeInv, TypeOK, ReadInv, DestinationInv, DestinationKnown
<1>0. ASSUME NEW name PROVE Stated(name)' = Stated(name) /\ Kept(name)' = Kept(name)
  BY DEF Stated, Kept, BuildRegistry, Registered
<1>1. CASE CheckRegistry(t)
  BY <1>0, <1>1 DEF CheckRegistry
<1>2. CASE LoadRegistry(t)
  BY <1>0, <1>2 DEF LoadRegistry
<1>3. CASE AssignRegistry(t)
  BY <1>0, <1>3 DEF AssignRegistry
<1>4. QED
  BY <1>1, <1>2, <1>3 DEF GetClusterRegistry

\* A step of t that leaves the registry alone and sends nothing.
Quiet(t) ==
  /\ \A u \in Threads \ {t} :
       /\ at'[u] = at[u] /\ reading'[u] = reading[u]
       /\ cluster'[u] = cluster[u] /\ source'[u] = source[u] /\ sent'[u] = sent[u]
  /\ at'[t] # "sent" /\ reading'[t] # "use"
  /\ UNCHANGED registryVars

LEMMA DestinationQuiet ==
  ASSUME DestinationInv, NEW t \in Threads, Quiet(t),
         at'[t] = "send" =>
           \E e \in Stated(cluster'[t]) : e.enabled /\ e.type = source'[t]
  PROVE  DestinationInv'
BY DEF DestinationInv, DestinationKnown, Quiet

LEMMA DestinationSend ==
  ASSUME TypeInv, DestinationInv, NEW t \in Threads, SendGke(t) \/ SendCustom(t)
  PROVE  DestinationInv'
<1> USE DEF TypeInv, TypeOK, ReadInv, DestinationInv, DestinationKnown
<1>1. CASE SendGke(t)
  <2>1. \/ \E e \in Stated(cluster[t]) : e.project = Project(t)
        \/ Project(t) = Default /\ (outage \/ ~ Kept(cluster[t]))
    <3>1. CASE Known(t)
      BY <3>1, EntryIsStated DEF Known, Project
    <3>2. CASE ~ Known(t) /\ registryCache = NoEntries
      BY <1>1, <3>2 DEF SendGke, Project
    <3>3. CASE ~ Known(t) /\ registryCache # NoEntries
      BY <3>3 DEF Sourced, Kept, Known, Project
    <3>4. QED
      BY <3>1, <3>2, <3>3
  <2>2. QED
    BY <1>1, <2>1 DEF SendGke
<1>2. CASE SendCustom(t)
  <2>1. CASE Rests(t, "sent")
    BY <1>2, <2>1 DEF SendCustom
  <2>2. CASE Rests(t, "answered")
    BY <1>2, <2>2 DEF SendCustom
  <2>3. QED
    BY <1>2, <2>1, <2>2 DEF SendCustom
<1>3. QED
  BY <1>1, <1>2

LEMMA DestinationStep == TypeInv /\ DestinationInv /\ [Next]_vars => DestinationInv'
<1> SUFFICES ASSUME TypeInv, DestinationInv, [Next]_vars PROVE DestinationInv'
  OBVIOUS
<1> USE DEF TypeInv, TypeOK, Positions, Places
<1>1. ASSUME NEW t \in Threads, End(t) PROVE DestinationInv'
  <2>1. Quiet(t) /\ at'[t] # "send"
    BY <1>1 DEF End, Quiet
  <2>2. QED
    BY <2>1, DestinationQuiet
<1>2. ASSUME NEW t \in Threads, NextRound(t) PROVE DestinationInv'
  <2>1. CASE End(t)
    BY <1>1, <2>1
  <2>2. CASE ~ End(t)
    <3>1. Quiet(t) /\ at'[t] # "send"
      BY <1>2, <2>2 DEF NextRound, Quiet
    <3>2. QED
      BY <3>1, DestinationQuiet
  <2>3. QED
    BY <2>1, <2>2
<1>3. ASSUME NEW t \in Threads, Unresolved(t) \/ Resolved(t) \/ ResolveCluster(t)
      PROVE  DestinationInv'
  <2>1. CASE End(t)
    BY <1>1, <2>1
  <2>2. CASE ~ End(t)
    <3>1. Quiet(t) /\ at'[t] # "send"
      BY <1>3, <2>2 DEF Unresolved, Resolved, ResolveCluster, Quiet
    <3>2. QED
      BY <3>1, DestinationQuiet
  <2>3. QED
    BY <2>1, <2>2
<1>4. ASSUME NEW t \in Threads, PlanCall(t) PROVE DestinationInv'
  <2> DEFINE e == Entry(registryCache, cluster[t])
  <2>1. e \in Stated(cluster[t]) /\ e.enabled
    BY <1>4, EntryIsStated DEF PlanCall, Plannable, ReadInv
  <2>2. source'[t] = e.type /\ cluster'[t] = cluster[t]
    BY <1>4 DEF PlanCall
  <2>3. Quiet(t)
    BY <1>4 DEF PlanCall, Quiet
  <2> HIDE DEF e
  <2>4. QED
    BY <2>1, <2>2, <2>3, DestinationQuiet
<1>5. ASSUME NEW t \in Threads, NEW s \in Sources, CallCatalogSource(t, s)
      PROVE  DestinationInv'
  <2>1. Quiet(t) /\ at'[t] # "send"
    BY <1>5 DEF CallCatalogSource, Quiet
  <2>2. QED
    BY <2>1, DestinationQuiet
<1>6. ASSUME NEW t \in Threads, Receive(t) PROVE DestinationInv'
  <2>1. /\ Quiet(t) /\ at'[t] # "sent" /\ at[t] = "sent"
        /\ cluster'[t] = cluster[t] /\ source'[t] = source[t]
    BY <1>6 DEF Receive, Returns, RetriesBroadened, CallFails, Received, Quiet
  <2>2. QED
    BY <2>1, DestinationQuiet DEF DestinationInv
<1>7. ASSUME NEW t \in Threads, RetryTokenFails(t) PROVE DestinationInv'
  <2>1. Quiet(t) /\ at'[t] # "send"
    BY <1>7 DEF RetryTokenFails, CallFails, Received, Quiet
  <2>2. QED
    BY <2>1, DestinationQuiet
<1>8. ASSUME NEW t \in Threads, Advance(t) PROVE DestinationInv'
  BY <1>1, <1>2, <1>3, <1>4, <1>5, <1>6, <1>7, <1>8, DestinationRead,
     DestinationSend
  DEF Advance, SafeStop, PlanNothing, TokenFails, Finish
<1>9. ASSUME NEW t \in Threads, NEW q \in Requests, Arrive(t, q)
      PROVE  DestinationInv'
  <2>1. Quiet(t) /\ at'[t] # "send"
    BY <1>9 DEF Arrive, Quiet
  <2>2. QED
    BY <2>1, DestinationQuiet
<1>10. CASE EditBucket \/ RegistryTtlPasses \/ UNCHANGED vars
  BY <1>10 DEF EditBucket, RegistryTtlPasses, vars, DestinationInv, DestinationKnown
<1>11. QED
  BY <1>8, <1>9, <1>10 DEF Next

\* A call goes out only for a cluster the file listed as enabled and of that
\* source, for any number of threads whose reloads, routes, plans and calls
\* interleave with edits and outages.  A GKE call goes to a project the file gave
\* the cluster - or to the default project, which is the cluster's only by luck;
\* that takes an empty registry some thread has assigned, or a content of the
\* file that does not list the cluster.
THEOREM DestinationSound == Spec => []DestinationKnown
<1>1. DestinationInv => DestinationKnown
  BY DEF DestinationInv
<1>2. QED
  BY <1>1, TypeInit, TypeStep, DestinationInit, DestinationStep, PTL DEF Spec

DestinationListed ==
  ~ outage =>
    \A t \in Threads :
      at[t] = "sent" /\ source[t] = "gke" /\ Kept(cluster[t]) =>
        \E e \in Stated(cluster[t]) : e.project = sent[t]

\* Without those two the default project is never a destination: as long as no
\* empty registry has been assigned, every GKE call for a cluster that no content
\* of the file leaves out goes to a project listed for it, however the file's
\* contents, the reloads and the calls interleave.
THEOREM DestinationWhileListed == Spec => []DestinationListed
<1>1. RoutingAssumption /\ DestinationKnown => DestinationListed
  BY DEF DestinationKnown, DestinationListed
<1>2. QED
  BY <1>1, DestinationSound, RoutingAssumption, PTL

-----------------------------------------------------------------------------
(* Results.                                                                *)

\* A result is there only once the call has been answered, and a call under
\* way has a tool.
ResultInv ==
  /\ \A t \in Threads : result[t] # None => at[t] = "answered"
  /\ \A t \in Threads : at[t] \in {"send", "sent"} => tool[t] \in Tools
  /\ ResultFollowsReply

\* The only positions of a body with the first content are the same one.
LEMMA ParsedIsFirst ==
  ASSUME NEW body \in Replies, NEW parsed \in ParseResponse(body)
  PROVE  /\ parsed \in Bodies =>
              \E i \in Contents(body) :
                body[i] = parsed /\ \A j \in Contents(body) : i <= j
         /\ \A i \in Contents(body) :
              (\A j \in Contents(body) : i <= j) => body[i] = parsed
<1>1. body \in Seq(Frames) /\ Contents(body) \subseteq Nat
  BY RoutingAssumption DEF Contents
<1>2. CASE Contents(body) # {}
  <2>1. PICK i \in Contents(body) :
          body[i] = parsed /\ \A j \in Contents(body) : i <= j
    BY <1>2 DEF ParseResponse
  <2>2. \A k \in Contents(body) :
          (\A j \in Contents(body) : k <= j) => k = i
    BY <1>1, <2>1
  <2>3. QED
    BY <2>1, <2>2
<1>3. CASE Contents(body) = {}
  BY <1>3 DEF ParseResponse, Bodies
<1>4. QED
  BY <1>2, <1>3

\* A step of t that keeps what the other threads have, and has no result.
LEMMA ResultQuiet ==
  ASSUME ResultInv, NEW t \in Threads,
         \A u \in Threads \ {t} :
           /\ at'[u] = at[u] /\ result'[u] = result[u]
           /\ source'[u] = source[u] /\ tool'[u] = tool[u],
         result'[t] = None,
         at'[t] \in {"send", "sent"} => tool'[t] \in Tools
  PROVE  ResultInv'
BY DEF ResultInv, ResultFollowsReply, Contents

\* A step that changes only what ResultInv does not look at.
LEMMA ResultKept ==
  ASSUME ResultInv, UNCHANGED <<at, source, tool, result>>
  PROVE  ResultInv'
<1>1. ResultFollowsReply'
  BY DEF ResultInv, ResultFollowsReply, Contents
<1>2. QED
  BY <1>1 DEF ResultInv

LEMMA ResultReturned ==
  ASSUME TypeInv, ResultInv, NEW t \in Threads, at[t] = "sent",
         NEW body \in Replies, Returns(t, body)
  PROVE  ResultInv'
<1>1. PICK parsed \in ParseResponse(body), blocked \in Blocks(t) :
        /\ ~ Broadens(t, parsed)
        /\ result' = [result EXCEPT ![t] =
                        [ok |-> Usable(t, parsed) /\ ~ blocked, body |-> body]]
        /\ Received(t) /\ Rests(t, "answered")
        /\ UNCHANGED <<registryVars, held, request, cluster, source, tool>>
  BY DEF Returns
<1>2. /\ at' = [at EXCEPT ![t] = "answered"] /\ source' = source /\ tool' = tool
      /\ result'[t].ok = (Usable(t, parsed) /\ ~ blocked)
      /\ result'[t].body = body
      /\ \A u \in Threads \ {t} : result'[u] = result[u]
  BY <1>1 DEF TypeInv, TypeOK
<1> DEFINE First(i) == i \in Contents(body) /\ \A j \in Contents(body) : i <= j
<1>3. /\ parsed \in Bodies => \E i \in DOMAIN body : First(i) /\ body[i] = parsed
      /\ \A i \in DOMAIN body : First(i) => body[i] = parsed
  BY ParsedIsFirst DEF Contents
<1> HIDE DEF First
<1>4. (Usable(t, parsed) /\ ~ blocked) =>
        \E i \in DOMAIN body :
          /\ First(i) /\ body[i] \in {"data", "guarded_error", "not_found"}
          /\ body[i] = "not_found" /\ source[t] = "gke" =>
               tool[t] \in {"broadened", "logs", "other"}
  <2>1. tool[t] \in Tools
    BY DEF ResultInv
  <2>2. QED
    BY <1>1, <1>3, <2>1 DEF Usable, NotFoundFails, Broadens, Bodies, Tools
<1>5. source[t] = "gke" /\ (\E i \in DOMAIN body : First(i) /\ body[i] = "data")
        => Usable(t, parsed) /\ ~ blocked
  BY <1>1, <1>3 DEF Usable, Blocks
<1> USE DEF First
<1>6. \A u \in Threads : result'[u] # None => at'[u] = "answered"
  BY <1>2 DEF ResultInv, TypeInv, TypeOK
<1>7. \A u \in Threads : at'[u] \in {"send", "sent"} => tool'[u] \in Tools
  BY <1>2 DEF ResultInv, TypeInv, TypeOK
<1>8. ResultFollowsReply'
  <2> DEFINE Follows(u) ==
        result[u] # None /\ source[u] \notin Sources =>
          LET b == result[u].body
              Lead(i) == i \in Contents(b) /\ \A j \in Contents(b) : i <= j
          IN /\ result[u].ok =>
                  \E i \in DOMAIN b :
                    /\ Lead(i) /\ b[i] \in {"data", "guarded_error", "not_found"}
                    /\ b[i] = "not_found" /\ source[u] = "gke" =>
                         tool[u] \in {"broadened", "logs", "other"}
             /\ source[u] = "gke" /\ (\E i \in DOMAIN b : Lead(i) /\ b[i] = "data")
                  => result[u].ok
  <2>1. Follows(t)'
    BY <1>2, <1>4, <1>5 DEF Contents
  <2>2. ASSUME NEW u \in Threads \ {t} PROVE Follows(u)'
    <3>1. Follows(u)
      BY DEF ResultInv, ResultFollowsReply
    <3>2. /\ result'[u] = result[u] /\ source'[u] = source[u] /\ tool'[u] = tool[u]
      BY <1>2
    <3>3. QED
      BY <3>1, <3>2 DEF Contents
  <2>3. QED
    BY <2>1, <2>2 DEF ResultFollowsReply
<1>9. QED
  BY <1>6, <1>7, <1>8 DEF ResultInv

\* A call without a reply has failed, and has no data to lose.
LEMMA ResultFailed ==
  ASSUME TypeInv, ResultInv, NEW t \in Threads, Fails(t, << >>),
         at' = [at EXCEPT ![t] = "answered"], source' = source, tool' = tool
  PROVE  ResultInv'
<1>1. /\ result'[t].ok = FALSE /\ DOMAIN result'[t].body = {}
      /\ \A u \in Threads \ {t} : result'[u] = result[u]
  BY DEF Fails, TypeInv, TypeOK
<1>2. ResultFollowsReply'
  BY <1>1 DEF ResultInv, ResultFollowsReply, Contents
<1>3. QED
  BY <1>1, <1>2 DEF ResultInv, TypeInv, TypeOK

LEMMA ResultStep == TypeInv /\ ResultInv /\ [Next]_vars => ResultInv'
<1> SUFFICES ASSUME TypeInv, ResultInv, [Next]_vars PROVE ResultInv'
  OBVIOUS
<1> USE DEF TypeInv, TypeOK, Positions, Places
<1>1. ASSUME NEW t \in Threads, End(t) PROVE ResultInv'
  BY <1>1, ResultQuiet DEF End
<1>2. ASSUME NEW t \in Threads, NextRound(t) PROVE ResultInv'
  <2>1. CASE End(t)
    BY <1>1, <2>1
  <2>2. CASE ~ End(t)
    BY <1>2, <2>2, ResultQuiet DEF NextRound
  <2>3. QED
    BY <2>1, <2>2
<1>3. ASSUME NEW t \in Threads, GetClusterRegistry(t) PROVE ResultInv'
  BY <1>3, ResultKept DEF GetClusterRegistry, CheckRegistry, LoadRegistry,
                          AssignRegistry
<1>4. ASSUME NEW t \in Threads, Unresolved(t) \/ Resolved(t) \/ ResolveCluster(t)
      PROVE  ResultInv'
  <2>1. CASE End(t)
    BY <1>1, <2>1
  <2>2. CASE Resolved(t)
    <3>1. result'[t] = None
      BY <2>2 DEF Resolved, ResultInv
    <3>2. QED
      BY <2>2, <3>1, ResultQuiet DEF Resolved
  <2>3. CASE ResolveCluster(t) /\ ~ End(t)
    <3>1. result'[t] = None
      BY <2>3 DEF ResolveCluster, ResultInv
    <3>2. QED
      BY <2>3, <3>1, ResultQuiet DEF ResolveCluster
  <2>4. QED
    BY <1>4, <2>1, <2>2, <2>3 DEF Unresolved
<1>5. ASSUME NEW t \in Threads, PlanCall(t) PROVE ResultInv'
  <2>1. result'[t] = None /\ tool'[t] \in Tools
    BY <1>5 DEF PlanCall, ResultInv, ToolsOf, Tools
  <2>2. QED
    BY <1>5, <2>1, ResultQuiet DEF PlanCall
<1>6. ASSUME NEW t \in Threads, NEW s \in Sources, CallCatalogSource(t, s)
      PROVE  ResultInv'
  <2>1. /\ at'[t] = "answered" /\ source'[t] \in Sources
        /\ \A u \in Threads \ {t} :
             /\ at'[u] = at[u] /\ result'[u] = result[u]
             /\ source'[u] = source[u] /\ tool'[u] = tool[u]
    BY <1>6 DEF CallCatalogSource
  <2>2. ResultFollowsReply'
    BY <2>1 DEF ResultInv, ResultFollowsReply, Contents
  <2>3. QED
    BY <2>1, <2>2 DEF ResultInv
<1>7. ASSUME NEW t \in Threads, SendGke(t) \/ SendCustom(t) PROVE ResultInv'
  <2>1. tool[t] \in Tools /\ result[t] = None
    BY <1>7 DEF ResultInv, SendGke, SendCustom
  <2>2. CASE UNCHANGED result /\ at' = [at EXCEPT ![t] = "sent"]
    BY <1>7, <2>1, <2>2, ResultQuiet DEF SendGke, SendCustom
  <2>3. CASE Fails(t, << >>) /\ at' = [at EXCEPT ![t] = "answered"]
    BY <1>7, <2>3, ResultFailed DEF SendGke, SendCustom
  <2>4. QED
    BY <1>7, <2>2, <2>3 DEF SendGke, SendCustom
<1>8. ASSUME NEW t \in Threads, Receive(t) PROVE ResultInv'
  <2>1. CASE \E body \in RepliesTo(t) : Returns(t, body)
    BY <1>8, <2>1, ResultReturned DEF Receive, RepliesTo
  <2>2. CASE \E body \in RepliesTo(t) : RetriesBroadened(t, body)
    <3>1. result'[t] = None /\ tool'[t] \in Tools
      BY <1>8, <2>2 DEF Receive, RetriesBroadened, ResultInv, Tools
    <3>2. QED
      BY <2>2, <3>1, ResultQuiet DEF RetriesBroadened, Received
  <2>3. CASE CallFails(t)
    BY <2>3, ResultFailed DEF CallFails
  <2>4. QED
    BY <1>8, <2>1, <2>2, <2>3 DEF Receive
<1>9. ASSUME NEW t \in Threads, RetryTokenFails(t) PROVE ResultInv'
  BY <1>9, ResultFailed DEF RetryTokenFails, CallFails
<1>10. ASSUME NEW t \in Threads, Advance(t) PROVE ResultInv'
  BY <1>1, <1>2, <1>3, <1>4, <1>5, <1>6, <1>7, <1>8, <1>9, <1>10
  DEF Advance, SafeStop, PlanNothing, TokenFails, Finish
<1>11. ASSUME NEW t \in Threads, NEW q \in Requests, Arrive(t, q)
       PROVE  ResultInv'
  <2>1. result'[t] = None
    BY <1>11 DEF Arrive, ResultInv
  <2>2. QED
    BY <1>11, <2>1, ResultQuiet DEF Arrive
<1>12. CASE EditBucket \/ RegistryTtlPasses \/ UNCHANGED vars
  BY <1>12, ResultKept DEF EditBucket, RegistryTtlPasses, vars
<1>13. QED
  BY <1>10, <1>11, <1>12 DEF Next

\* Whether a call is ok follows the first content of its reply, as
\* ResultFollowsReply says - guarded errors and the NotFound of get_k8s_logs among
\* what passes - and Google's data is not lost, for replies of any number of
\* frames in any order.
THEOREM ResultsSound == Spec => []ResultFollowsReply
<1>1. Init => ResultInv
  BY DEF Init, ResultInv, ResultFollowsReply
<1>2. ResultInv => ResultFollowsReply
  BY DEF ResultInv
<1>3. QED
  BY <1>1, <1>2, TypeInit, TypeStep, ResultStep, PTL DEF Spec
-----------------------------------------------------------------------------
(* What edits of the file come to.                                         *)

\* Threads about to replace the cache by what the file does not say any more.
Behind == {t \in Threads : reading[t] = "assign" /\ held[t] # Downloaded}

UpToDate == registryCache = Downloaded /\ Behind = {}

\* While the file stays as it is, no thread falls behind it; the cache changes
\* only to what the file says or to what a thread that was behind still holds;
\* and once it is up to date it stays so.
CatchesUp ==
  bucket' = bucket =>
    /\ Behind' \subseteq Behind
    /\ \/ registryCache' \in {registryCache, Downloaded}
       \/ \E t \in Behind : registryCache' = held[t] /\ t \notin Behind'
    /\ UpToDate => UpToDate'

\* Only _get_cluster_registry touches the cache and what a thread has downloaded.
LEMMA ReadsOnlyThere ==
  ASSUME TypeInv, NEW t \in Threads,
         \/ Advance(t) /\ ~ GetClusterRegistry(t)
         \/ \E q \in Requests : Arrive(t, q)
  PROVE  /\ registryCache' = registryCache /\ held' = held
         /\ \A u \in Threads : reading'[u] = "assign" => reading[u] = "assign"
<1> USE DEF TypeInv, TypeOK
<1>1. ASSUME End(t) \/ NextRound(t)
      PROVE  /\ registryCache' = registryCache /\ held' = held
             /\ \A u \in Threads : reading'[u] = "assign" => reading[u] = "assign"
  BY <1>1 DEF End, NextRound
<1>2. CASE Unresolved(t) \/ ResolveCluster(t) \/ SafeStop(t) \/ PlanNothing(t)
           \/ TokenFails(t) \/ Finish(t)
  BY <1>1, <1>2 DEF Unresolved, ResolveCluster, SafeStop, PlanNothing, TokenFails,
     Finish
<1>3. CASE Resolved(t) \/ PlanCall(t) \/ \E s \in Sources : CallCatalogSource(t, s)
  BY <1>3 DEF Resolved, PlanCall, CallCatalogSource
<1>4. CASE SendGke(t) \/ SendCustom(t)
  BY <1>4 DEF SendGke, SendCustom
<1>5. CASE RetryTokenFails(t) \/ Receive(t)
  BY <1>5 DEF RetryTokenFails, Receive, Returns, RetriesBroadened, CallFails
<1>6. CASE \E q \in Requests : Arrive(t, q)
  BY <1>6 DEF Arrive
<1>7. QED
  BY <1>2, <1>3, <1>4, <1>5, <1>6 DEF Advance

LEMMA CatchesUpStep == TypeInv /\ [Next]_vars => CatchesUp
<1> SUFFICES ASSUME TypeInv, [Next]_vars, bucket' = bucket
             PROVE  /\ Behind' \subseteq Behind
                    /\ \/ registryCache' \in {registryCache, Downloaded}
                       \/ \E t \in Behind : registryCache' = held[t] /\ t \notin Behind'
                    /\ UpToDate => UpToDate'
  BY DEF CatchesUp
<1>d. Downloaded' = Downloaded
  BY DEF Downloaded
<1>0. ASSUME registryCache' = registryCache,
             \A u \in Threads : reading'[u] = "assign" =>
               (reading[u] = "assign" /\ held'[u] = held[u]) \/ held'[u] = Downloaded
      PROVE  /\ Behind' \subseteq Behind
             /\ registryCache' \in {registryCache, Downloaded}
             /\ UpToDate => UpToDate'
  <2>1. Behind' \subseteq Behind
    BY <1>0, <1>d DEF Behind
  <2>2. QED
    BY <1>0, <1>d, <2>1 DEF UpToDate
<1>1. ASSUME NEW t \in Threads, CheckRegistry(t) \/ LoadRegistry(t)
      PROVE  /\ registryCache' = registryCache
             /\ \A u \in Threads : reading'[u] = "assign" =>
                  (reading[u] = "assign" /\ held'[u] = held[u]) \/ held'[u] = Downloaded
  BY <1>1 DEF CheckRegistry, LoadRegistry, TypeInv, TypeOK, ReadInv
<1>2. ASSUME NEW t \in Threads, AssignRegistry(t)
      PROVE  /\ Behind' \subseteq Behind
             /\ \/ registryCache' \in {registryCache, Downloaded}
                \/ \E u \in Behind : registryCache' = held[u] /\ u \notin Behind'
             /\ UpToDate => UpToDate'
  <2>1. /\ reading[t] = "assign" /\ reading'[t] = "use" /\ registryCache' = held[t]
        /\ \A u \in Threads \ {t} : reading'[u] = reading[u] /\ held'[u] = held[u]
    BY <1>2 DEF AssignRegistry, TypeInv, TypeOK, ReadInv
  <2>2. Behind' \subseteq Behind \ {t}
    BY <2>1, <1>d DEF Behind
  <2>3. t \in Behind \/ held[t] = Downloaded
    BY <2>1 DEF Behind
  <2>4. QED
    BY <2>1, <2>2, <2>3, <1>d DEF UpToDate
<1>3. CASE EditBucket \/ RegistryTtlPasses \/ UNCHANGED vars
  BY <1>0, <1>3 DEF EditBucket, RegistryTtlPasses, vars
<1>4. QED
  BY <1>0, <1>1, <1>2, <1>3, ReadsOnlyThere DEF Next, GetClusterRegistry

UpdatesKept == [][CatchesUp]_vars

\* An edit is caught up with, once, and not undone: the loads that were under way
\* when the file changed bring back what they downloaded, and after them nothing
\* replaces what the file says by anything else.  With the reloads that time and
\* requests bring about, this is UpdatesArrive.
THEOREM EditsStick == Spec => UpdatesKept
<1>1. TypeInv /\ [Next]_vars => [CatchesUp]_vars
  BY CatchesUpStep
<1>2. QED
  BY <1>1, TypeInit, TypeStep, PTL DEF Spec, UpdatesKept
=============================================================================
