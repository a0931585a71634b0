-------------------------- MODULE MC_ClientLifecycle --------------------------
(***************************************************************************)
(* Polls of up to four tries of which two failures in a row are too many,  *)
(* and the backoff of the code.                                            *)
(***************************************************************************)
EXTENDS ClientLifecycle
===============================================================================
