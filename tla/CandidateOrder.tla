---------------------------- MODULE CandidateOrder ----------------------------
(***************************************************************************)
(* How the peer's advertised candidates are filtered, ranked and queued    *)
(* (nomination.go, main.go), as operators on sequences of candidates.      *)
(*                                                                         *)
(* A candidate is a record of its address and its type.  Of an address     *)
(* only the family and the routability matter; one that does not parse as  *)
(* IP:port has no family.                                                  *)
(***************************************************************************)
EXTENDS EndpointOrder, Integers

CONSTANTS
    FamilyOf,     \* FamilyOf[a]: "v4", "v6" or NoAddr
    Public        \* the publicly routable addresses

Addresses(cands) == [i \in DOMAIN cands |-> cands[i].addr]

(* candidatesOfType *)
AllTypes(cands, type) == cands
candidatesOfType(cands, type) == Picked(cands, {i \in DOMAIN cands : cands[i].type = type})

(* rankCandidates: a stable sort by score *)
TypeScore == [iface |-> 0, reflex |-> 10, turn |-> 20]
Score(c) ==
    (IF c.type \in DOMAIN TypeScore THEN TypeScore[c.type] ELSE 100)
        - (IF FamilyOf[c.addr] = "v6" THEN 2 ELSE 0)

rankCandidates(cands) ==
    LET Before(i, j) == \/ Score(cands[i]) < Score(cands[j])
                        \/ Score(cands[i]) = Score(cands[j]) /\ i < j
        Position(j) == Cardinality({i \in DOMAIN cands : Before(i, j)}) + 1
    IN  [p \in DOMAIN cands |-> cands[CHOOSE j \in DOMAIN cands : Position(j) = p]]

(* compatibleCandidates: the open sockets and the families of the local    *)
(* candidates decide, each on its own.                                     *)
compatibleCandidates(open, local, cands) ==
    rankCandidates(Picked(cands, {i \in DOMAIN cands : FamilyOf[cands[i].addr] \in open \cap local}))

(* rankByRemote, counted from 1: an address listed twice has the rank of   *)
(* its last entry.  0 for an address that was not probed.                  *)
RankByRemote(targets, addr) == SelectLastInSeq(targets, LAMBDA c : c.addr = addr)

(* guessCandidate *)
guessCandidate(ordered) ==
    LET public == SelectInSeq(ordered, LAMBDA c : c.addr \in Public)
    IN  CASE public # 0     -> ordered[public].addr
          [] ordered = <<>> -> NoAddr
          [] OTHER          -> ordered[1].addr

(* buildCandidateRetryQueue: what was observed, then what is public *)
QueueOfObserved(endpoint, observed, advertised) == Distinct({endpoint}, observed)
buildCandidateRetryQueue(endpoint, observed, advertised) ==
    LET addrs == Addresses(advertised)
    IN  Distinct({endpoint}, observed
                     \o Picked(addrs, {i \in DOMAIN addrs : addrs[i] \in Public})
                     \o Picked(addrs, {i \in DOMAIN addrs : addrs[i] \notin Public}))
================================================================================
