--------------------------- MODULE NominationChoice ---------------------------
(***************************************************************************)
(* What master-driven nomination promises to the rest of the client.       *)
(*                                                                         *)
(* The console proposes remote UDP tuples by driving each of them through  *)
(* its wait countdown.  Once the client has the CONNECT_RESPONSE it opens  *)
(* the choice, and from then on one proposed tuple may be chosen, for      *)
(* good.  Nothing here says how a proposal is recognised: that is what     *)
(* NominationTracker adds.                                                 *)
(***************************************************************************)
CONSTANTS Addrs, None

VARIABLES proposed,   \* tuples the console has fully proposed
          open,       \* the client accepts a choice
          chosen      \* the chosen tuple, or None

vars == <<proposed, open, chosen>>

Init ==
    /\ proposed = {}
    /\ open = FALSE
    /\ chosen = None

Propose(a) ==
    /\ a \notin proposed
    /\ proposed' = proposed \cup {a}
    /\ UNCHANGED <<open, chosen>>

Open ==
    /\ ~open
    /\ open' = TRUE
    /\ chosen' \in proposed \cup {None}
    /\ UNCHANGED proposed

Choose(a) ==
    /\ open
    /\ chosen = None
    /\ a \in proposed
    /\ chosen' = a
    /\ UNCHANGED <<proposed, open>>

Next ==
    \/ Open
    \/ \E a \in Addrs : Propose(a) \/ Choose(a)

Spec == Init /\ [][Next]_vars
===============================================================================
