----------------------------- MODULE MCFusionTask -----------------------------
(***************************************************************************)
(* An instance of FusionTask for TLC: a task that is frozen twice beside   *)
(* one that only discusses.                                                *)
(***************************************************************************)
EXTENDS FusionProperties, TLC

CONSTANTS t1, t2

Versions == t1 :> 2 @@ t2 :> 0
Waits    == t1 :> 2 @@ t2 :> 1

Interchangeable ==
    Permutations(Sessions) \cup Permutations(Profiles) \cup Permutations(Stamps)
=============================================================================
