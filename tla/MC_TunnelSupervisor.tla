-------------------------- MODULE MC_TunnelSupervisor --------------------------
(***************************************************************************)
(* The negotiated endpoint, one queued candidate and one address outside   *)
(* both lists (a late nomination, or where the peer roamed to).            *)
(***************************************************************************)
EXTENDS TunnelSupervisor

CONSTANTS e1, e2, e3

MCEndpoints == {e1, e2, e3}
MCCandidateQueue == <<e2>>
================================================================================
