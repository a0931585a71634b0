----------------------------- MODULE MC_EchoPinger -----------------------------
(***************************************************************************)
(* Three milestones of which the ceiling admits two; a path below the      *)
(* first, between the two and above both, or down.                         *)
(***************************************************************************)
EXTENDS EchoPinger

MCMilestones == <<1360, 1400, 1440>>
MCManualMTUs == {0, 1400}
MCPathMTUs == {0, 1300, 1380, 1500}
================================================================================
