----------------------------- MODULE MCRunHost -----------------------------
(***************************************************************************)
(* The definitions the host starts, small and with an Owner decision.      *)
(***************************************************************************)
EXTENDS RunHostProperties

CriticalFlows == {FusionFlow("Critical")}
FastFlows == {FusionFlow("Fast")}
=============================================================================
