-------------------------- MODULE MCClusterRouting --------------------------
(***************************************************************************)
(* A small instance of ClusterRouting: a GKE cluster and an on-prem one, a *)
(* file that is edited, and requests for every tier.                       *)
(***************************************************************************)
EXTENDS ClusterRouting, TLC

CONSTANTS alpha, ALPHA, beta, front, ghost, p1, p2, prod, apps, infra

SmallFold == (alpha :> alpha) @@ (ALPHA :> alpha) @@ (beta :> beta)
             @@ (front :> front) @@ (ghost :> ghost)

Cluster(n, e, t, a, p, ns) ==
  [name |-> n, enabled |-> e, type |-> t, aliases |-> a, project |-> p,
   environment |-> prod, namespaces |-> ns, url |-> TRUE]

\* As shipped; then after an edit that swaps the types, moves alpha, disables
\* beta and lists a nameless entry and beta twice.
Shipped == << Cluster(alpha, TRUE, "gke", {front}, p1, {apps}),
              Cluster(beta, TRUE, "custom", {front}, p2, {apps, infra}) >>
Edited  == << Cluster(beta, TRUE, "gke", {}, p2, {}),
              Cluster(None, TRUE, "gke", {ghost}, p1, {infra}),
              [Cluster(alpha, TRUE, "custom", {front}, p2, {apps}) EXCEPT !.url = FALSE],
              Cluster(beta, FALSE, "gke", {ghost}, p2, {infra}) >>

SmallFiles == {Shipped, Edited}

Ask(h, g, n) == [hint |-> h, guess |-> g, project |-> None, environment |-> None,
                 namespace |-> n]

SmallRequests ==
  {Ask(ALPHA, front, None), Ask(beta, None, apps), Ask(ghost, None, apps),
   Ask(None, front, None), Ask(None, alpha, infra), Ask(None, None, apps)}

SmallReplies == {<<"unreadable", "error", "data">>, <<"empty", "error">>,
                 <<"tool_error", "data">>, <<"guarded_error">>, <<"not_found">>}
=============================================================================
