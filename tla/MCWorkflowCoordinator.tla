----------------------- MODULE MCWorkflowCoordinator -----------------------
(***************************************************************************)
(* Definitions for TLC: those the host and Direct start, and one that      *)
(* allows a retry, which StartAsync accepts and no catalog uses.           *)
(***************************************************************************)
EXTENDS CoordinatorProperties

Retrying == [FusionFlow("Standard") EXCEPT !.kind = "retrying", !.retries["codex"] = 1]

MainFlows == {ThinFlow("Critical"), DirectFlow("Standard"), Retrying}
ShortFlows == {ThinFlow("Fast"), FusionFlow("Fast"), DirectFlow("Standard")}
=============================================================================
