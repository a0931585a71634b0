---------------------------- MODULE MC_SessionFile ----------------------------
(***************************************************************************)
(* Two clients pair to the same session path at the same time.             *)
(***************************************************************************)
EXTENDS SessionFile
================================================================================
