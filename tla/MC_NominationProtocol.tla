------------------------- MODULE MC_NominationProtocol -------------------------
(***************************************************************************)
(* Two tuples race, with the countdown of the code and one stray DATA      *)
(* value.                                                                  *)
(***************************************************************************)
EXTENDS NominationProtocol

MCWaitSeq == <<2000, 1000, 500, 250, 125>>
MCStrayWaits == {777}
===============================================================================
