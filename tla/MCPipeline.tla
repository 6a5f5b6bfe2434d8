----------------------------- MODULE MCPipeline -----------------------------
(* Pipeline with small sets, for TLC.                                      *)
EXTENDS Pipeline, TLC

CONSTANTS alice, bob, eve

\* Two clients of a generous category and one of a strict one.
ThreeKeys == alice :> 2 @@ bob :> 2 @@ eve :> 1
=============================================================================
