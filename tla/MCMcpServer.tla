---------------------------- MODULE MCMcpServer ----------------------------
(***************************************************************************)
(* Small instances of McpServer: clusters reached through a context of the *)
(* kubeconfig and one reached through fleet fields, and a registry edited  *)
(* while calls are served.                                                 *)
(***************************************************************************)
EXTENDS McpServer, TLC

CONSTANTS alpha, beta, fleet

Shipped == (alpha :> "context") @@ (fleet :> "fleet")
Broken  == (alpha :> "refused") @@ (fleet :> "incomplete")
TwoContexts == (alpha :> "context") @@ (beta :> "context")

EditedFile  == {Shipped, Broken}
FixedFile   == {TwoContexts}

CallSymmetry == Permutations(Calls)
=============================================================================
