---------------------------- MODULE SessionRegister ----------------------------
(***************************************************************************)
(* What saveSession promises of the session file: a register that holds a  *)
(* complete session or nothing, is replaced at once, and after a power     *)
(* failure holds what it held at some earlier moment since it was last     *)
(* persisted.                                                              *)
(***************************************************************************)
CONSTANTS Sessions, NoSession

VARIABLES
    current,    \* what loadSession reads
    persistent  \* what it would read after a power failure

vars == <<current, persistent>>

Init ==
    /\ current \in Sessions \cup {NoSession}
    /\ persistent = current

Replace ==
    /\ current' \in Sessions
    /\ UNCHANGED persistent

Persist ==
    /\ persistent' = current
    /\ UNCHANGED current

PowerFailure ==
    /\ current' = persistent
    /\ UNCHANGED persistent

Next == Replace \/ Persist \/ PowerFailure

Spec == Init /\ [][Next]_vars
================================================================================
