---------------------------- MODULE MCLlmAdapter ----------------------------
(***************************************************************************)
(* A small instance of LlmAdapter: a query and a stream on one adapter.    *)
(***************************************************************************)
EXTENDS LlmAdapter

CONSTANTS q, s
=============================================================================
