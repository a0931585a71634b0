---------------------------- MODULE MC_Negotiation ----------------------------
(***************************************************************************)
(* A direct tuple on each socket and a relay; the IPv4 one, an address in  *)
(* the console's own network, does not reach the client.  The console may  *)
(* list its public IPv6 address twice, as interface and as reflexive       *)
(* candidate, or nothing but the address that does not reach anybody.      *)
(* The countdown has a single wait (NominationProtocol has the full one).  *)
(***************************************************************************)
EXTENDS Negotiation

CONSTANTS direct4, direct6, relay

MCFamilyOf == [a \in Addrs |-> IF a = direct6 THEN "v6" ELSE "v4"]
MCWaitSeq == <<125>>

Cand(a, t) == [addr |-> a, type |-> t]
MCAdvertisements ==
    {<<Cand(relay, "turn"), Cand(direct6, "iface"), Cand(direct6, "reflex")>>,
     <<Cand(direct4, "iface")>>}
================================================================================
