----------------------------- MODULE EndpointOrder -----------------------------
(***************************************************************************)
(* The orders in which the client tries endpoints (main.go, tunnel.go), as *)
(* pure operators on sequences of addresses.  NoAddr is the empty string.  *)
(***************************************************************************)
EXTENDS Naturals, Sequences, SequencesExt

CONSTANT NoAddr

(* The elements of s at the indexes I, in the order of s *)
Picked(s, I) ==
    LET Kth(k) == CHOOSE i \in I : Cardinality({j \in I : j <= i}) = k
    IN  [k \in 1..Cardinality(I) |-> s[Kth(k)]]

(* The appendEndpoint/appendCandidate closures, over a list: what is left  *)
(* after "" and everything seen before are skipped.                        *)
Distinct(seen, addrs) ==
    Picked(addrs, {i \in DOMAIN addrs : /\ addrs[i] \notin seen \cup {NoAddr}
                                        /\ \A j \in 1..(i - 1) : addrs[j] # addrs[i]})

(* buildEndpointRecoveryOrder(current, known) *)
OrderWithoutCurrent(current, known) == Distinct({current}, known)
buildEndpointRecoveryOrder(current, known) == Distinct({}, <<current>> \o known)

(* nextEndpointCandidate(queue, start, current): the candidate, or NoAddr  *)
(* for ok = false, and the index to go on from.  start counts from 0.      *)
nextEndpointCandidate(queue, start, current) ==
    LET usable == {i \in (start + 1)..Len(queue) : queue[i] \notin {NoAddr, current}}
    IN  IF usable = {}
        THEN [candidate |-> NoAddr, next |-> Len(queue)]
        ELSE LET i == CHOOSE i \in usable : \A j \in usable : i <= j
             IN  [candidate |-> queue[i], next |-> i]
================================================================================
