-------------------------- MODULE Negotiation_proofs --------------------------
(***************************************************************************)
(* For any sockets, addresses, countdown, advertisements and bounds: no    *)
(* two readers ever share a socket, none exits before it is told to, and   *)
(* the attempt ends up with the right endpoint and retry queue.            *)
(*                                                                         *)
(* The argument has two layers.  SocketInv ties the readers, their         *)
(* deadlines and the prober to the phase of the attempt; it stands alone.  *)
(* ChoiceInv, on top of it, follows what was heard and probed to the       *)
(* endpoint and the queue.                                                 *)
(***************************************************************************)
EXTENDS Negotiation, EndpointOrder_proofs

(* The phases in which readers of kind k run, in which they are being      *)
(* stopped, and the ones before they are started                           *)
RunsIn(k) ==
    CASE k = "listener" -> {"connect", "activate", "await", "logs", "stopProbes"}
      [] k = "probe"    -> {"probing"}
      [] k = "bind"     -> {"tunnel"}

StopsIn(k) ==
    CASE k = "listener" -> {"probe", "chosen", "return"}
      [] k = "probe"    -> {"probed"}
      [] k = "bind"     -> {"return"}

Before(k) ==
    CASE k = "listener" -> {"gather"} \cup (IF turn THEN {"connect"} ELSE {})
      [] k = "probe"    -> {"gather", "connect", "activate", "await", "logs", "probe"}
      [] k = "bind"     -> {"gather", "connect", "activate", "await", "logs", "probe", "probing",
                            "probed", "stopProbes", "chosen", "negotiated", "open"}

SocketTypes ==
    /\ turn \in BOOLEAN
    /\ pc \in {"gather", "connect", "activate", "await", "logs", "probe", "probing",
               "probed", "stopProbes", "chosen", "negotiated", "open", "tunnel",
               "return", "closed"}
    /\ call \in [kind : Kinds, step : {"close", "deadline", "wait"}] \cup {NoCall}
    /\ undiscovered \subseteq Sockets
    /\ discovering \in Sockets \cup {None}
    /\ prober \in {"off", "on", "done"}
    /\ deadline \in [Sockets -> {"none", "future", "past"}]
    /\ told \in [Kinds -> BOOLEAN]
    /\ reader \in [Kinds -> [Sockets -> {"off", "check", "read", "send", "done"}]]

(* A reader lives only in a phase of its kind, or while it is stopped. *)
LiveInPhase ==
    \A k \in Kinds, s \in Sockets :
        Live(k, s) => \/ pc \in RunsIn(k)
                      \/ pc \in StopsIn(k) /\ call.kind = k

(* A Stop is called in its phase, and its first step tells the readers. *)
CallInPhase ==
    call # NoCall => /\ pc \in StopsIn(call.kind)
                     /\ told[call.kind] <=> call.step # "close"

(* Readers that were told are being waited for, or are gone. *)
ToldAreStopped ==
    \A k \in Kinds : told[k] => call.kind = k \/ \A s \in Sockets : ~Live(k, s)

NotStartedBefore ==
    \A k \in Kinds : pc \in Before(k) => ~told[k] /\ \A s \in Sockets : reader[k][s] = "off"

(* A deadline is set only for discovery, for readers that were told to     *)
(* stop, or when nobody reads.                                             *)
DeadlineOwned ==
    \A s \in Sockets :
        deadline[s] # "none" => \/ discovering = s
                                \/ call.step = "wait"
                                \/ pc \in {"open", "return", "closed"} /\ call = NoCall

DiscoversFirst == discovering # None => pc = "gather"

ProberInPhase ==
    ProberRuns => pc \in {"activate", "await", "logs", "probe", "probing", "probed", "stopProbes"}

SocketInv ==
    /\ SocketTypes
    /\ LiveInPhase
    /\ CallInPhase
    /\ ToldAreStopped
    /\ NotStartedBefore
    /\ DeadlineOwned
    /\ DiscoversFirst
    /\ ProberInPhase
    /\ ReadersStopOnlyWhenTold

--------------------------------------------------------------------------------
(* The choice *)

TrackerOK ==
    /\ nextWait \in [Addrs -> 0..WaitCount]
    /\ active \in BOOLEAN
    /\ selected \in Addrs \cup {None}
    /\ closes \in 0..1
    /\ closes = 1 <=> selected # None
    /\ selected # None => active

(* The candidates come from the advertisement; before CONNECT_RESPONSE     *)
(* there are none.                                                         *)
CandidatesOK ==
    /\ peerCandidates \in Seq(Candidates) /\ compatible \in Seq(Candidates)
    /\ ToSet(compatible) \subseteq ToSet(peerCandidates)
    /\ pc \in {"gather", "connect"} => peerCandidates = <<>> /\ compatible = <<>>

(* Until it is read the log has only tuples that were heard, and all of    *)
(* them while it has not overflowed; an empty one then means that none was *)
(* heard.                                                                  *)
LogsOK ==
    /\ logs \in Seq(Addrs) /\ Len(logs) <= MaxLogs
    /\ heard \subseteq Addrs /\ overflowed \in BOOLEAN
    /\ pc = "gather" => logs = <<>> /\ heard = {}
    /\ LogIsUnread => /\ ToSet(logs) \subseteq heard
                      /\ ~overflowed => ToSet(logs) = heard
    /\ pc \in {"probe", "probing", "probed"} => overflowed \/ heard = {}

(* What the probe has taken so far, and its best rank *)
ProbeOK ==
    /\ sending \in [Sockets -> Addrs \cup {None}]
    /\ \A s \in Sockets : reader["probe"][s] = "send" => sending[s] \in Addrs
    /\ responses \in Seq(Addrs)
    /\ bestRank \in 0..Len(compatible)
    /\ answered \subseteq Addrs
    /\ pc \notin {"probing", "probed"} => bestRank = 0 /\ answered = {}
    /\ \A a \in answered : RankByRemote(compatible, a) # 0
    /\ pc = "probing" =>
          /\ answered = {} <=> bestRank = 0
          /\ bestRank # 0 => compatible[bestRank].addr \in answered
          /\ \A a \in answered : bestRank <= RankByRemote(compatible, a)
          /\ bestRank # 0 => RankByRemote(compatible, compatible[bestRank].addr) = bestRank

(* Where the endpoint may come from in each phase *)
EndpointOK ==
    /\ override \in Addrs \cup {None}
    /\ local \subseteq Sockets
    /\ ctxDone \in BOOLEAN
    /\ endpoint \in Addrs \cup {None}
    /\ endpoint \in {None, override, selected} \cup heard \cup ToSet(Addresses(compatible))
    /\ pc \in {"gather", "connect", "activate", "await", "probe", "probing"} => endpoint = None
    /\ pc = "logs" => endpoint \in {None, selected}
    /\ pc \in {"activate", "await", "logs"} => override = None
    /\ pc \in {"chosen", "negotiated", "open", "tunnel"} => endpoint # None

(* The queue before buildCandidateRetryQueue: the tuples heard *)
QueueOK ==
    /\ queue \in Seq(Addrs)
    /\ pc \in {"gather", "connect", "activate", "await", "logs", "probe", "probing", "probed"}
          => queue = <<>>
    /\ pc \in {"stopProbes", "chosen"} /\ endpoint # None =>
          /\ ToSet(queue) \subseteq heard
          /\ override = None /\ ~overflowed => ToSet(queue) = heard

(* In TURN-only mode nothing but relays gets as far as the tunnel. *)
TurnOK ==
    turn =>
        /\ override = None
        /\ \A c \in ToSet(peerCandidates) : c.type = "turn"
        /\ heard \subseteq Relays
        /\ pc \notin {"tunnel", "return", "closed"} =>
              /\ \A a \in Addrs : nextWait[a] # 0 => a \in Relays
              /\ selected \in Relays \cup {None}

ChoiceInv ==
    /\ TrackerOK
    /\ CandidatesOK
    /\ LogsOK
    /\ ProbeOK
    /\ EndpointOK
    /\ QueueOK
    /\ TurnOK
    /\ TurnOnlyEndpoint
    /\ BestAnswerWins
    /\ RetryQueueComplete

--------------------------------------------------------------------------------
(* The operators on candidates *)

(* Scores are numbers. *)
LEMMA ScoreIsInt ==
  ASSUME NEW c \in Candidates
  PROVE  Score(c) \in Int
  <1>1. /\ TypeScore["iface"] = 0 /\ TypeScore["reflex"] = 10 /\ TypeScore["turn"] = 20
        /\ DOMAIN TypeScore = {"iface", "reflex", "turn"}
    BY DEF TypeScore
  <1>2. c.type \in DOMAIN TypeScore => TypeScore[c.type] \in Int
    BY <1>1
  <1> QED
    BY <1>2 DEF Score

(* rankCandidates puts the candidates into the order of their scores and   *)
(* loses none.                                                             *)
LEMMA RankedCandidates ==
  ASSUME NEW cands \in Seq(Candidates)
  PROVE  /\ rankCandidates(cands) \in Seq(Candidates)
         /\ ToSet(rankCandidates(cands)) = ToSet(cands)
         /\ \A p, q \in DOMAIN cands : p < q =>
               Score(rankCandidates(cands)[p]) <= Score(rankCandidates(cands)[q])
  <1> DEFINE D == DOMAIN cands
             Bef(i, j) == \/ Score(cands[i]) < Score(cands[j])
                          \/ Score(cands[i]) = Score(cands[j]) /\ i < j
             before(j) == {i \in D : Bef(i, j)}
             f == [j \in D |-> Cardinality(before(j)) + 1]
             at(p) == CHOOSE j \in D : Cardinality(before(j)) + 1 = p
  <1>1. D = 1..Len(cands) /\ Len(cands) \in Nat /\ \A i \in D : cands[i] \in Candidates
    OBVIOUS
  <1>2. \A i \in D : Score(cands[i]) \in Int
    BY <1>1, ScoreIsInt
  <1>3. IsFiniteSet(D) /\ Cardinality(D) = Len(cands)
    <2>1. IsFiniteSet(1..Len(cands)) /\ Cardinality(1..Len(cands)) = Len(cands)
      BY <1>1, FS_Interval
    <2> QED
      BY <1>1, <2>1
  <1>4. ASSUME NEW j \in D
        PROVE  /\ before(j) \in SUBSET D /\ IsFiniteSet(before(j))
               /\ Cardinality(before(j)) \in Nat
               /\ Cardinality(before(j)) < Len(cands)
    <2>1. before(j) \in SUBSET D /\ j \notin before(j)
      BY <1>1, <1>2
    <2> HIDE DEF before
    <2>2. IsFiniteSet(before(j)) /\ Cardinality(before(j)) <= Cardinality(D) /\ Cardinality(before(j)) # Cardinality(D)
      BY <1>3, <2>1, FS_Subset
    <2>3. Cardinality(before(j)) \in Nat
      BY <2>2, FS_CardinalityType
    <2> QED
      BY <1>1, <1>3, <2>1, <2>2, <2>3
  <1>5. ASSUME NEW i \in D, NEW j \in D, Bef(i, j)
        PROVE  f[i] < f[j]
    <2>1. before(i) \in SUBSET before(j) /\ i \in before(j) /\ i \notin before(i)
      BY <1>1, <1>2, <1>5
    <2> HIDE DEF before, Bef
    <2>2. Cardinality(before(i)) <= Cardinality(before(j)) /\ Cardinality(before(i)) # Cardinality(before(j))
      BY <1>4, <2>1, FS_Subset
    <2> QED
      BY <1>4, <2>2
  <1>6. ASSUME NEW i \in D, NEW j \in D, i # j
        PROVE  Bef(i, j) \/ Bef(j, i)
    BY <1>1, <1>2, <1>6
  <1> HIDE DEF Bef, before
  <1>7. f \in [D -> 1..Cardinality(D)]
    BY <1>1, <1>3, <1>4
  <1>8. \A i, j \in D : f[i] = f[j] => i = j
    <2> SUFFICES ASSUME NEW i \in D, NEW j \in D, f[i] = f[j], i # j
                 PROVE  FALSE
      OBVIOUS
    <2>1. f[i] < f[j] \/ f[j] < f[i]
      BY <1>5, <1>6
    <2>2. f[i] \in Nat /\ f[j] \in Nat
      BY <1>4
    <2> HIDE DEF f
    <2> QED
      BY <2>1, <2>2
  <1>9. ASSUME NEW p \in D
        PROVE  \E j \in D : f[j] = p
    <2>1. p \in 1..Cardinality(D)
      BY <1>1, <1>3
    <2> HIDE DEF f, D
    <2> QED
      BY <1>3, <1>7, <1>8, <2>1, NumberingIsOnto, ZenonT(30)
  <1>10. \A p \in D : at(p) \in D /\ f[at(p)] = p
    <2>1. \A j \in D : f[j] = Cardinality(before(j)) + 1
      OBVIOUS
    <2> HIDE DEF f, D
    <2> QED
      BY <1>9, <2>1
  <1>11. rankCandidates(cands) = [p \in D |-> cands[at(p)]]
    BY DEF rankCandidates, before, Bef
  <1> HIDE DEF at, f
  <1>12. \A j \in D : at(f[j]) = j /\ f[j] \in D
    BY <1>1, <1>3, <1>7, <1>8, <1>10
  <1>13. rankCandidates(cands) \in Seq(Candidates) /\ DOMAIN rankCandidates(cands) = D
    BY <1>1, <1>10, <1>11
  <1>14. ToSet(rankCandidates(cands)) = ToSet(cands)
    BY <1>10, <1>11, <1>12, <1>13 DEF ToSet
  <1>15. ASSUME NEW p \in D, NEW q \in D, p < q
         PROVE  Score(rankCandidates(cands)[p]) <= Score(rankCandidates(cands)[q])
    <2>1. at(p) \in D /\ at(q) \in D /\ f[at(p)] = p /\ f[at(q)] = q
      BY <1>10
    <2>2. ~Bef(at(q), at(p))
      <3>1. ~(q < p)
        BY <1>1, <1>15
      <3> QED
        BY <1>5, <2>1, <3>1
    <2>3. Score(cands[at(p)]) <= Score(cands[at(q)])
      BY <1>2, <2>1, <2>2 DEF Bef
    <2> QED
      BY <1>11, <2>3
  <1> QED
    BY <1>13, <1>14, <1>15

(* Filtering by type and by family drops candidates and adds none. *)
LEMMA FilteredCandidates ==
  ASSUME NEW cands \in Seq(Candidates), NEW open, NEW families, NEW type
  PROVE  /\ candidatesOfType(cands, type) \in Seq(Candidates)
         /\ ToSet(candidatesOfType(cands, type)) \subseteq ToSet(cands)
         /\ \A c \in ToSet(candidatesOfType(cands, type)) : c.type = type
         /\ compatibleCandidates(open, families, cands) \in Seq(Candidates)
         /\ ToSet(compatibleCandidates(open, families, cands)) \subseteq ToSet(cands)
  <1> DEFINE I == {i \in DOMAIN cands : cands[i].type = type}
             J == {i \in DOMAIN cands : FamilyOf[cands[i].addr] \in open \cap families}
  <1>1. I \in SUBSET DOMAIN cands /\ J \in SUBSET DOMAIN cands
    OBVIOUS
  <1>2. candidatesOfType(cands, type) = Picked(cands, I)
    BY DEF candidatesOfType
  <1>3. compatibleCandidates(open, families, cands) = rankCandidates(Picked(cands, J))
    BY DEF compatibleCandidates
  <1>4. \A c \in {cands[i] : i \in I} : c.type = type
    OBVIOUS
  <1> HIDE DEF I, J
  <1>5. /\ Picked(cands, I) \in Seq(Candidates) /\ ToSet(Picked(cands, I)) = {cands[i] : i \in I}
        /\ Picked(cands, J) \in Seq(Candidates) /\ ToSet(Picked(cands, J)) = {cands[i] : i \in J}
    BY <1>1, PickedElements
  <1>6. {cands[i] : i \in I} \subseteq ToSet(cands) /\ {cands[i] : i \in J} \subseteq ToSet(cands)
    BY <1>1 DEF ToSet
  <1>7. /\ rankCandidates(Picked(cands, J)) \in Seq(Candidates)
        /\ ToSet(rankCandidates(Picked(cands, J))) = ToSet(Picked(cands, J))
    BY <1>5, RankedCandidates
  <1> QED
    BY <1>2, <1>3, <1>4, <1>5, <1>6, <1>7

(* The addresses of candidates *)
LEMMA AddressesOf ==
  ASSUME NEW cands \in Seq(Candidates)
  PROVE  /\ Addresses(cands) \in Seq(Addrs)
         /\ Len(Addresses(cands)) = Len(cands)
         /\ \A i \in DOMAIN cands : Addresses(cands)[i] = cands[i].addr
         /\ ToSet(Addresses(cands)) = {c.addr : c \in ToSet(cands)}
  <1>1. \A i \in DOMAIN cands : cands[i].addr \in Addrs
    <2>1. \A i \in DOMAIN cands : cands[i] \in Candidates
      OBVIOUS
    <2> QED
      BY <2>1 DEF Candidates
  <1>2. DOMAIN cands = 1..Len(cands) /\ Len(cands) \in Nat
    OBVIOUS
  <1>3. /\ Addresses(cands) \in Seq(Addrs) /\ Len(Addresses(cands)) = Len(cands)
        /\ DOMAIN Addresses(cands) = DOMAIN cands
        /\ \A i \in DOMAIN cands : Addresses(cands)[i] = cands[i].addr
    BY <1>1, <1>2 DEF Addresses
  <1> QED
    BY <1>3 DEF ToSet

(* rankByRemote: the index of the last entry with this address, 0 for an   *)
(* address that was not probed.                                            *)
LEMMA RankOfRemote ==
  ASSUME NEW cands \in Seq(Candidates), NEW a
  PROVE  /\ RankByRemote(cands, a) \in 0..Len(cands)
         /\ RankByRemote(cands, a) # 0 => cands[RankByRemote(cands, a)].addr = a
         /\ RankByRemote(cands, a) # 0 <=> a \in ToSet(Addresses(cands))
  <1> DEFINE I == {i \in 1..Len(cands) : cands[i].addr = a}
  <1>1. RankByRemote(cands, a) = IF I # {} THEN Max(I) ELSE 0
    BY DEF RankByRemote, SelectLastInSeq
  <1>2. DOMAIN cands = 1..Len(cands) /\ Len(cands) \in Nat
    OBVIOUS
  <1>3. a \in ToSet(Addresses(cands)) <=> I # {}
    BY <1>2 DEF Addresses, ToSet
  <1>4. I # {} => Max(I) \in I
    <2> SUFFICES ASSUME I # {}
                 PROVE  Max(I) \in I
      OBVIOUS
    <2>1. I \in SUBSET DOMAIN cands
      BY <1>2
    <2> HIDE DEF I
    <2>2. \E i \in I : \A j \in I : i >= j
      BY <2>1, LastIndex
    <2> QED
      BY <2>2 DEF Max
  <1> QED
    BY <1>1, <1>2, <1>3, <1>4

(* guessCandidate takes one of the targets, if there is one. *)
LEMMA GuessIsTarget ==
  ASSUME NEW cands \in Seq(Candidates)
  PROVE  guessCandidate(cands) \in ToSet(Addresses(cands)) \cup {NoAddr}
  <1> DEFINE I == {i \in 1..Len(cands) : cands[i].addr \in Public}
             first == IF I # {} THEN Min(I) ELSE 0
  <1>1. DOMAIN cands = 1..Len(cands) /\ Len(cands) \in Nat
    OBVIOUS
  <1>2. first # 0 => first \in DOMAIN cands
    <2> SUFFICES ASSUME I # {}
                 PROVE  Min(I) \in I
      OBVIOUS
    <2>1. I \in SUBSET DOMAIN cands
      BY <1>1
    <2> HIDE DEF I
    <2>2. \E i \in I : \A j \in I : i <= j
      BY <2>1, FirstIndex
    <2> QED
      BY <2>2 DEF Min
  <1>3. guessCandidate(cands) = CASE first # 0 -> cands[first].addr
                                  [] cands = <<>> -> NoAddr
                                  [] OTHER -> cands[1].addr
    BY DEF guessCandidate, SelectInSeq
  <1> HIDE DEF first
  <1>4. cands # <<>> => 1 \in DOMAIN cands
    OBVIOUS
  <1>5. \A i \in DOMAIN cands : cands[i].addr \in ToSet(Addresses(cands))
    BY DEF Addresses, ToSet
  <1> QED
    BY <1>2, <1>3, <1>4, <1>5

(* buildCandidateRetryQueue lists what was observed, then the rest of what *)
(* was advertised, each once, and not the endpoint itself.                 *)
LEMMA RetryQueueOf ==
  ASSUME NoAddr \notin Addrs, NEW observed \in Seq(Addrs), NEW cands \in Seq(Candidates), NEW e,
         NEW r, r = buildCandidateRetryQueue(e, observed, cands)
  PROVE  /\ r \in Seq(Addrs)
         /\ ToSet(r) = (ToSet(observed) \cup ToSet(Addresses(cands))) \ {e}
         /\ \A i, j \in DOMAIN r : i < j =>
               r[i] # r[j] /\ (r[j] \in ToSet(observed) => r[i] \in ToSet(observed))
  <1> DEFINE addrs == Addresses(cands)
             I == {i \in DOMAIN addrs : addrs[i] \in Public}
             J == {i \in DOMAIN addrs : addrs[i] \notin Public}
             public == Picked(addrs, I)
             private == Picked(addrs, J)
             all == observed \o public \o private
             q == Distinct({e}, all)
  <1>1. r = q
    BY DEF buildCandidateRetryQueue
  <1>2. addrs \in Seq(Addrs)
    BY AddressesOf
  <1>3. I \in SUBSET DOMAIN addrs /\ J \in SUBSET DOMAIN addrs /\ I \cup J = DOMAIN addrs
    OBVIOUS
  <1> HIDE DEF I, J, addrs
  <1>4. /\ public \in Seq(Addrs) /\ ToSet(public) = {addrs[i] : i \in I}
        /\ private \in Seq(Addrs) /\ ToSet(private) = {addrs[i] : i \in J}
    BY <1>2, <1>3, PickedElements
  <1>5. ToSet(public) \cup ToSet(private) = ToSet(addrs)
    BY <1>3, <1>4 DEF ToSet
  <1> HIDE DEF public, private
  <1>6. /\ observed \o public \in Seq(Addrs)
        /\ ToSet(observed \o public) = ToSet(observed) \cup ToSet(public)
    BY <1>4, ConcatElements
  <1>7. all \in Seq(Addrs) /\ ToSet(all) = ToSet(observed \o public) \cup ToSet(private)
    <2>1. PICK front \in Seq(Addrs) : front = observed \o public
      BY <1>6
    <2>2. private \in Seq(Addrs)
      BY <1>4
    <2>3. front \o private \in Seq(Addrs) /\ ToSet(front \o private) = ToSet(front) \cup ToSet(private)
      BY <2>2, ConcatElements, ZenonT(30)
    <2> QED
      BY <2>1, <2>3
  <1>8. \A i \in 1..Len(observed) : all[i] = observed[i] /\ i \in DOMAIN all
    BY <1>4
  <1> HIDE DEF all
  <1>9. /\ q \in Seq(Addrs)
        /\ ToSet(q) = ToSet(all) \ ({e} \cup {NoAddr})
        /\ \E at \in [DOMAIN q -> DOMAIN all] :
              /\ \A k \in DOMAIN q :
                    /\ q[k] = all[at[k]]
                    /\ \A j \in 1..(at[k] - 1) : all[j] # q[k]
              /\ \A j, k \in DOMAIN q : j < k => at[j] < at[k] /\ q[j] # q[k]
    BY <1>7, DistinctElements
  <1> HIDE DEF q
  <1>10. ToSet(q) = (ToSet(observed) \cup ToSet(addrs)) \ {e}
    <2>1. NoAddr \notin ToSet(all)
      BY <1>7 DEF ToSet
    <2> QED
      BY <1>5, <1>6, <1>7, <1>9, <2>1
  <1>11. ASSUME NEW i \in DOMAIN q, NEW j \in DOMAIN q, i < j, q[j] \in ToSet(observed)
         PROVE  q[i] \in ToSet(observed)
    <2>1. PICK at \in [DOMAIN q -> DOMAIN all] :
              /\ \A k \in DOMAIN q :
                    /\ q[k] = all[at[k]]
                    /\ \A m \in 1..(at[k] - 1) : all[m] # q[k]
              /\ \A l, k \in DOMAIN q : l < k => at[l] < at[k] /\ q[l] # q[k]
      BY <1>9
    <2>2. PICK m \in 1..Len(observed) : observed[m] = q[j]
      BY <1>11 DEF ToSet
    <2>3. at[i] \in 1..Len(all) /\ at[j] \in 1..Len(all) /\ Len(all) \in Nat
      BY <1>7, <2>1
    <2>4. at[i] < at[j]
      BY <1>11, <2>1
    <2>5. at[j] <= m
      BY <1>8, <2>1, <2>2, <2>3
    <2>6. at[i] \in 1..Len(observed)
      BY <2>2, <2>3, <2>4, <2>5
    <2>7. q[i] = observed[at[i]]
      BY <1>8, <2>1, <2>6
    <2> QED
      BY <2>6, <2>7 DEF ToSet
  <1> QED
    BY <1>1, <1>9, <1>10, <1>11 DEF addrs

USE SocketAssumption, NoneAssumption

--------------------------------------------------------------------------------
(* The sockets *)

(* The vocabulary of the phases *)
LEMMA PhaseFacts ==
  /\ RunsIn("listener") = {"connect", "activate", "await", "logs", "stopProbes"}
  /\ RunsIn("probe") = {"probing"} /\ RunsIn("bind") = {"tunnel"}
  /\ StopsIn("listener") = {"probe", "chosen", "return"}
  /\ StopsIn("probe") = {"probed"} /\ StopsIn("bind") = {"return"}
  /\ Before("listener") = {"gather"} \cup (IF turn THEN {"connect"} ELSE {})
  /\ Before("probe") = {"gather", "connect", "activate", "await", "logs", "probe"}
  /\ Before("bind") = {"gather", "connect", "activate", "await", "logs", "probe", "probing",
                       "probed", "stopProbes", "chosen", "negotiated", "open"}
  BY DEF RunsIn, StopsIn, Before

(* No reader lives outside the phases of its kind; in particular two of    *)
(* different kinds are never alive in the same state.                      *)
LEMMA LiveFacts ==
  ASSUME SocketInv
  PROVE  /\ \A j, k \in Kinds, s, t \in Sockets : Live(j, s) /\ Live(k, t) => j = k
         /\ \A k \in Kinds, s \in Sockets :
               Live(k, s) => /\ pc \notin {"gather", "negotiated", "open", "closed"}
                             /\ call = NoCall => pc \in RunsIn(k)
                             /\ call # NoCall => call.kind = k
                             /\ discovering = None
         /\ call = NoCall => \A k \in Kinds : call.kind # k
  <1> USE DEF SocketInv
  <1>1. call = NoCall => \A k \in Kinds : call.kind # k
    BY DEF NoCall, Kinds
  <1>2. call # NoCall => call.kind \in Kinds
    BY DEF SocketTypes
  <1>3. ASSUME NEW k \in Kinds, NEW s \in Sockets, Live(k, s)
        PROVE  /\ pc \notin {"gather", "negotiated", "open", "closed"}
               /\ call = NoCall => pc \in RunsIn(k)
               /\ call # NoCall => call.kind = k
               /\ discovering = None
    <2>1. pc \in RunsIn(k) \/ (pc \in StopsIn(k) /\ call.kind = k)
      BY <1>3 DEF LiveInPhase
    <2>2. call # NoCall => pc \in StopsIn(call.kind)
      BY DEF CallInPhase
    <2>3. k = "listener" \/ k = "probe" \/ k = "bind"
      BY DEF Kinds
    <2>4. call # NoCall => call.kind = "listener" \/ call.kind = "probe" \/ call.kind = "bind"
      BY <1>2 DEF Kinds
    <2>5. pc \notin {"gather", "negotiated", "open", "closed"}
      BY <2>1, <2>3, PhaseFacts
    <2>6. call # NoCall => call.kind = k
      BY <2>1, <2>2, <2>3, <2>4, PhaseFacts
    <2> QED
      BY <1>1, <2>1, <2>5, <2>6 DEF DiscoversFirst
  <1>4. ASSUME NEW j \in Kinds, NEW k \in Kinds, NEW s \in Sockets, NEW t \in Sockets,
               Live(j, s), Live(k, t)
        PROVE  j = k
    <2>1. CASE call # NoCall
      BY <1>3, <1>4, <2>1
    <2>2. CASE call = NoCall
      <3>1. pc \in RunsIn(j) /\ pc \in RunsIn(k)
        BY <1>3, <1>4, <2>2
      <3> QED
        BY <3>1, PhaseFacts DEF Kinds
    <2> QED
      BY <2>1, <2>2
  <1> QED
    BY <1>1, <1>3, <1>4

(* A reader that is alive moves on, and exits only when told. *)
LEMMA ReaderMoves ==
  ASSUME SocketInv, NEW k \in Kinds, NEW s \in Sockets, Live(k, s),
         NEW v \in {"check", "read", "send", "done"}, v = "done" => told[k],
         reader' = [reader EXCEPT ![k][s] = v],
         UNCHANGED <<turn, pc, call, undiscovered, discovering, prober, deadline, told>>
  PROVE  SocketInv'
  <1> USE DEF SocketInv
  <1>0. /\ reader' \in [Kinds -> [Sockets -> {"off", "check", "read", "send", "done"}]]
        /\ reader'[k][s] = v
        /\ \A j \in Kinds, t \in Sockets :
              reader'[j][t] = reader[j][t] \/ (j = k /\ t = s)
    <2>1. reader \in [Kinds -> [Sockets -> {"off", "check", "read", "send", "done"}]]
      BY DEF SocketTypes
    <2>2. reader[k] \in [Sockets -> {"off", "check", "read", "send", "done"}]
      BY <2>1
    <2>3. PICK row : row = [reader[k] EXCEPT ![s] = v]
      OBVIOUS
    <2>4. /\ row \in [Sockets -> {"off", "check", "read", "send", "done"}]
          /\ row[s] = v /\ \A t \in Sockets : t # s => row[t] = reader[k][t]
      BY <2>2, <2>3
    <2>5. reader' = [reader EXCEPT ![k] = row]
      BY <2>3
    <2>6. reader' \in [Kinds -> [Sockets -> {"off", "check", "read", "send", "done"}]]
      BY <2>1, <2>4, <2>5
    <2>7. \A j \in Kinds : reader'[j] = IF j = k THEN row ELSE reader[j]
      BY <2>1, <2>5
    <2> QED
      BY <2>4, <2>6, <2>7
  <1>1. SocketTypes'
    BY <1>0 DEF SocketTypes
  <1>2. \A j \in Kinds, t \in Sockets : Live(j, t)' => Live(j, t)
    BY <1>0 DEF Live
  <1>3. LiveInPhase'
    BY <1>2 DEF LiveInPhase, RunsIn, StopsIn
  <1>4. CallInPhase'
    BY DEF CallInPhase, StopsIn
  <1>5. ToldAreStopped'
    BY <1>2 DEF ToldAreStopped
  <1>6. NotStartedBefore'
    <2>1. pc \notin Before(k)
      BY DEF NotStartedBefore, Live
    <2>2. \A j \in Kinds : Before(j)' = Before(j)
      BY DEF Before
    <2> QED
      BY <1>0, <2>1, <2>2 DEF NotStartedBefore
  <1>7. DeadlineOwned' /\ DiscoversFirst' /\ ProberInPhase'
    BY DEF DeadlineOwned, DiscoversFirst, ProberInPhase, ProberRuns
  <1>8. ReadersStopOnlyWhenTold'
    BY <1>0 DEF ReadersStopOnlyWhenTold
  <1> QED
    BY <1>1, <1>3, <1>4, <1>5, <1>6, <1>7, <1>8

(* The types of the phase *)
Phases == {"gather", "connect", "activate", "await", "logs", "probe", "probing",
           "probed", "stopProbes", "chosen", "negotiated", "open", "tunnel",
           "return", "closed"}

(* The attempt goes from one phase to the next, and touches no reader. *)
LEMMA PhaseMoves ==
  ASSUME SocketInv, call = NoCall, call' = NoCall, discovering = None,
         pc' \in Phases, prober' \in {"off", "on", "done"},
         UNCHANGED <<turn, undiscovered, discovering, told, reader>>,
         deadline' \in [Sockets -> {"none", "future", "past"}],
         \A s \in Sockets : deadline'[s] # "none" => pc' \in {"open", "return", "closed"},
         \A k \in Kinds : (\E s \in Sockets : Live(k, s)) => pc' \in RunsIn(k),
         \A k \in Kinds : pc' \in Before(k) => pc \in Before(k),
         prober' = "on" => pc' \in {"activate", "await", "logs", "probe", "probing", "probed", "stopProbes"}
  PROVE  SocketInv'
  <1> USE DEF SocketInv
  <1>1. SocketTypes'
    BY DEF SocketTypes, Phases
  <1>2. \A k \in Kinds, s \in Sockets : Live(k, s)' <=> Live(k, s)
    BY DEF Live
  <1>3. \A k \in Kinds : RunsIn(k)' = RunsIn(k) /\ StopsIn(k)' = StopsIn(k) /\ Before(k)' = Before(k)
    BY DEF RunsIn, StopsIn, Before
  <1>4. LiveInPhase' /\ CallInPhase'
    BY <1>2, <1>3 DEF LiveInPhase, CallInPhase
  <1>5. ToldAreStopped'
    BY <1>2 DEF ToldAreStopped
  <1>6. NotStartedBefore'
    BY <1>3 DEF NotStartedBefore
  <1>7. DeadlineOwned' /\ DiscoversFirst' /\ ProberInPhase' /\ ReadersStopOnlyWhenTold'
    BY DEF DeadlineOwned, DiscoversFirst, ProberInPhase, ProberRuns, ReadersStopOnlyWhenTold
  <1> QED
    BY <1>1, <1>4, <1>5, <1>6, <1>7

(* Readers start where nobody reads and no deadline is left. *)
LEMMA ReadersStart ==
  ASSUME SocketInv, call = NoCall, call' = NoCall, discovering = None,
         NEW k \in Kinds, Start(k), pc \in Before(k), pc' \in RunsIn(k), pc' \in Phases,
         \A j \in Kinds, s \in Sockets : ~Live(j, s),
         \A j \in Kinds : pc' \in Before(j) => pc \in Before(j) /\ j # k,
         prober' \in {"off", "on", "done"},
         prober' = "on" => pc' \in {"activate", "await", "logs", "probe", "probing", "probed", "stopProbes"},
         UNCHANGED <<turn, undiscovered, discovering, told>>,
         deadline' = [s \in Sockets |-> "none"]
  PROVE  SocketInv'
  <1> USE DEF SocketInv
  <1>1. /\ reader' \in [Kinds -> [Sockets -> {"off", "check", "read", "send", "done"}]]
        /\ \A s \in Sockets : reader'[k][s] \in {"check", "read"}
        /\ \A j \in Kinds : j # k => reader'[j] = reader[j]
    <2>1. PICK row : row = [s \in Sockets |-> IF k = "bind" THEN "read" ELSE "check"]
      OBVIOUS
    <2>2. reader' = [reader EXCEPT ![k] = row]
      BY <2>1 DEF Start
    <2> QED
      BY <2>1, <2>2 DEF SocketTypes
  <1>2. SocketTypes'
    BY <1>1 DEF SocketTypes, Phases
  <1>3. \A j \in Kinds, s \in Sockets : Live(j, s)' => j = k
    BY <1>1 DEF Live
  <1>4. \A j \in Kinds : RunsIn(j)' = RunsIn(j) /\ StopsIn(j)' = StopsIn(j) /\ Before(j)' = Before(j)
    BY DEF RunsIn, StopsIn, Before
  <1>5. LiveInPhase' /\ CallInPhase'
    BY <1>3, <1>4 DEF LiveInPhase, CallInPhase
  <1>6. ~told[k]
    BY DEF NotStartedBefore
  <1>7. ToldAreStopped'
    BY <1>3, <1>6 DEF ToldAreStopped
  <1>8. NotStartedBefore'
    BY <1>1, <1>4 DEF NotStartedBefore
  <1>9. DeadlineOwned' /\ DiscoversFirst' /\ ProberInPhase'
    BY DEF DeadlineOwned, DiscoversFirst, ProberInPhase, ProberRuns
  <1>10. ReadersStopOnlyWhenTold'
    BY <1>1 DEF ReadersStopOnlyWhenTold
  <1> QED
    BY <1>2, <1>5, <1>7, <1>8, <1>9, <1>10

(* A Stop is called for the readers that are alive, or finds nobody. *)
LEMMA StopIsCalled ==
  ASSUME SocketInv, call = NoCall, discovering = None,
         NEW k \in Kinds, Stop(k), pc' \in StopsIn(k), pc' \in Phases,
         \A j \in Kinds, s \in Sockets : Live(j, s) => j = k,
         \A j \in Kinds : pc' \in Before(j) => pc \in Before(j),
         ~ProberRuns \/ pc' \in {"probe", "probed"},
         UNCHANGED <<turn, undiscovered, discovering, prober, told, reader, deadline>>,
         \A s \in Sockets : deadline[s] = "none"
  PROVE  SocketInv'
  <1> USE DEF SocketInv
  <1>1. call' \in [kind : Kinds, step : {"close", "deadline", "wait"}] \cup {NoCall}
    BY DEF Stop
  <1>2. SocketTypes'
    BY <1>1 DEF SocketTypes, Phases
  <1>3. \A j \in Kinds, s \in Sockets : Live(j, s)' <=> Live(j, s)
    BY DEF Live
  <1>4. \A j \in Kinds : RunsIn(j)' = RunsIn(j) /\ StopsIn(j)' = StopsIn(j) /\ Before(j)' = Before(j)
    BY DEF RunsIn, StopsIn, Before
  <1>5. \A j \in Kinds, s \in Sockets : Live(j, s) => call' = [kind |-> k, step |-> "close"]
    <2> SUFFICES ASSUME NEW j \in Kinds, NEW s \in Sockets, Live(j, s)
                 PROVE  call' = [kind |-> k, step |-> "close"]
      OBVIOUS
    <2>1. j = k
      OBVIOUS
    <2>2. Started(k)
      BY <2>1 DEF Started, Live
    <2>3. ~told[k]
      BY <2>1, LiveFacts DEF ToldAreStopped
    <2> QED
      BY <2>2, <2>3 DEF Stop
  <1>6. LiveInPhase'
    BY <1>3, <1>4, <1>5 DEF LiveInPhase
  <1>7. CallInPhase'
    <2>1. CASE call' = NoCall
      BY <2>1 DEF CallInPhase
    <2>2. CASE call' # NoCall
      <3>1. call' = [kind |-> k, step |-> "close"] /\ ~told[k]
        BY <2>2 DEF Stop
      <3> QED
        BY <1>4, <3>1 DEF CallInPhase
    <2> QED
      BY <2>1, <2>2
  <1>8. ToldAreStopped'
    <2> SUFFICES ASSUME NEW j \in Kinds, told[j], NEW s \in Sockets
                 PROVE  ~Live(j, s)'
      BY DEF ToldAreStopped
    <2>1. ~Live(j, s)
      BY LiveFacts DEF ToldAreStopped
    <2> QED
      BY <1>3, <2>1
  <1>9. NotStartedBefore'
    BY <1>4 DEF NotStartedBefore
  <1>10. DeadlineOwned' /\ DiscoversFirst' /\ ReadersStopOnlyWhenTold'
    BY DEF DeadlineOwned, DiscoversFirst, ReadersStopOnlyWhenTold
  <1>11. ProberInPhase'
    BY DEF ProberInPhase, ProberRuns
  <1> QED
    BY <1>2, <1>6, <1>7, <1>8, <1>9, <1>10, <1>11

(* Outside of the clean-up, a deadline is left only to a Stop. *)
LEMMA NoDeadlineLeft ==
  ASSUME SocketInv, call = NoCall, discovering = None, pc \notin {"open", "return", "closed"}
  PROVE  \A s \in Sockets : deadline[s] = "none"
  BY DEF SocketInv, DeadlineOwned, NoCall

(* The steps of a Stop: its readers are told, then woken, then waited for. *)
LEMMA StopStepsKeep ==
  ASSUME SocketInv, StopSteps
  PROVE  SocketInv'
  <1> USE DEF SocketInv
  <1>0. call # NoCall => call.kind \in Kinds /\ call.step \in {"close", "deadline", "wait"}
    BY DEF SocketTypes
  <1>1. call # NoCall /\ call.kind \in Kinds
    BY <1>0 DEF StopSteps, StopCloses, StopExpires, StopReturns, NoCall
  <1>2. discovering = None
    BY <1>1, PhaseFacts DEF CallInPhase, DiscoversFirst, Kinds
  <1>3. UNCHANGED <<turn, pc, undiscovered, discovering, prober, reader>>
    BY DEF StopSteps, StopCloses, StopExpires, StopReturns, flagVars, gatherVars
  <1>4. \A k \in Kinds, s \in Sockets : Live(k, s)' <=> Live(k, s)
    BY <1>3 DEF Live
  <1>5. \A k \in Kinds : RunsIn(k)' = RunsIn(k) /\ StopsIn(k)' = StopsIn(k) /\ Before(k)' = Before(k)
    BY <1>3 DEF RunsIn, StopsIn, Before
  <1>6. pc \in StopsIn(call.kind) /\ (told[call.kind] <=> call.step # "close")
    BY <1>1 DEF CallInPhase
  <1>7. pc \notin Before(call.kind) \/ \A s \in Sockets : ~Live(call.kind, s)
    BY <1>1 DEF NotStartedBefore, Live
  <1>8. DiscoversFirst' /\ ProberInPhase'
    BY <1>3 DEF DiscoversFirst, ProberInPhase, ProberRuns
  <1>9. pc \notin Before(call.kind)
    <2>1. call.kind = "listener" \/ call.kind = "probe" \/ call.kind = "bind"
      BY <1>1 DEF Kinds
    <2> QED
      BY <1>6, <2>1, PhaseFacts
  <1>10. CASE StopCloses
    <2>1. /\ call.step = "close" /\ told' = [told EXCEPT ![call.kind] = TRUE]
          /\ call' = [call EXCEPT !.step = "deadline"] /\ UNCHANGED deadline
      BY <1>10 DEF StopCloses
    <2>2. call' \in [kind : Kinds, step : {"close", "deadline", "wait"}]
      BY <1>1, <2>1 DEF SocketTypes
    <2>3. call'.kind = call.kind /\ call'.step = "deadline" /\ call' # NoCall
      BY <1>1, <2>1 DEF SocketTypes, NoCall
    <2>4. /\ told' \in [Kinds -> BOOLEAN] /\ told'[call.kind]
          /\ \A k \in Kinds : k # call.kind => told'[k] = told[k]
      BY <1>1, <2>1 DEF SocketTypes
    <2>5. SocketTypes'
      BY <1>3, <2>1, <2>2, <2>4 DEF SocketTypes
    <2>6. LiveInPhase' /\ CallInPhase'
      BY <1>3, <1>4, <1>5, <1>6, <2>3, <2>4 DEF LiveInPhase, CallInPhase
    <2>7. ToldAreStopped'
      BY <1>4, <2>3, <2>4 DEF ToldAreStopped
    <2>8. NotStartedBefore'
      BY <1>3, <1>5, <1>9, <2>4 DEF NotStartedBefore
    <2>9. DeadlineOwned'
      BY <1>1, <1>2, <1>3, <2>1 DEF DeadlineOwned
    <2>10. ReadersStopOnlyWhenTold'
      BY <1>3, <2>4 DEF ReadersStopOnlyWhenTold
    <2> QED
      BY <1>8, <2>5, <2>6, <2>7, <2>8, <2>9, <2>10
  <1>11. CASE StopExpires
    <2>1. /\ call.step = "deadline" /\ UNCHANGED told
          /\ call' = [call EXCEPT !.step = "wait"] /\ deadline' = [s \in Sockets |-> "past"]
      BY <1>11 DEF StopExpires, DeadlinePast
    <2>2. call' \in [kind : Kinds, step : {"close", "deadline", "wait"}]
      BY <1>1, <2>1 DEF SocketTypes
    <2>3. call'.kind = call.kind /\ call'.step = "wait" /\ call' # NoCall
      BY <1>1, <2>1 DEF SocketTypes, NoCall
    <2>4. SocketTypes'
      BY <1>3, <2>1, <2>2 DEF SocketTypes
    <2>5. LiveInPhase' /\ CallInPhase'
      BY <1>3, <1>4, <1>5, <1>6, <2>1, <2>3 DEF LiveInPhase, CallInPhase
    <2>6. ToldAreStopped'
      BY <1>4, <2>1, <2>3 DEF ToldAreStopped
    <2>7. NotStartedBefore'
      BY <1>3, <1>5, <2>1 DEF NotStartedBefore
    <2>8. DeadlineOwned' /\ ReadersStopOnlyWhenTold'
      BY <1>3, <2>1, <2>3 DEF DeadlineOwned, ReadersStopOnlyWhenTold
    <2> QED
      BY <1>8, <2>4, <2>5, <2>6, <2>7, <2>8
  <1>12. CASE StopReturns
    <2>1. /\ call.step = "wait" /\ UNCHANGED told /\ AllExited(call.kind) /\ call' = NoCall
          /\ deadline' = IF call.kind = "bind" THEN deadline ELSE [s \in Sockets |-> "none"]
      BY <1>12 DEF StopReturns
    <2>2. \A s \in Sockets : ~Live(call.kind, s)
      BY <2>1 DEF AllExited, Live
    <2>3. deadline' \in [Sockets -> {"none", "future", "past"}]
      BY <2>1 DEF SocketTypes
    <2>4. SocketTypes'
      BY <1>3, <2>1, <2>3 DEF SocketTypes
    <2>5. \A k \in Kinds, s \in Sockets : ~Live(k, s)
      BY <1>1, <2>2, LiveFacts
    <2>6. LiveInPhase' /\ CallInPhase' /\ ToldAreStopped'
      BY <1>4, <2>1, <2>5 DEF LiveInPhase, CallInPhase, ToldAreStopped
    <2>7. NotStartedBefore'
      BY <1>3, <1>5, <2>1 DEF NotStartedBefore
    <2>8. DeadlineOwned'
      <3>1. CASE call.kind = "bind"
        <4>1. pc = "return"
          BY <1>6, <3>1, PhaseFacts
        <4> QED
          BY <1>3, <2>1, <4>1 DEF DeadlineOwned
      <3>2. CASE call.kind # "bind"
        BY <2>1, <3>2 DEF DeadlineOwned
      <3> QED
        BY <3>1, <3>2
    <2>9. ReadersStopOnlyWhenTold'
      BY <1>3, <2>1 DEF ReadersStopOnlyWhenTold
    <2> QED
      BY <1>8, <2>4, <2>6, <2>7, <2>8, <2>9
  <1> QED
    BY <1>10, <1>11, <1>12 DEF StopSteps

(* Discovery sets and clears its deadline before anybody reads. *)
LEMMA DiscoveryKeeps ==
  ASSUME SocketInv,
         DiscoveryReturns \/ \E s \in Sockets : DiscoveryStarts(s) \/ DeadlinePasses(s)
  PROVE  SocketInv'
  <1> USE DEF SocketInv
  <1>1. /\ UNCHANGED <<turn, pc, call, prober, told, reader>>
        /\ undiscovered' \subseteq undiscovered
    BY DEF DiscoveryReturns, DiscoveryStarts, DeadlinePasses, attemptVars, flagVars, gatherVars
  <1>2. /\ deadline' \in [Sockets -> {"none", "future", "past"}]
        /\ discovering' \in Sockets \cup {None}
        /\ discovering' # None => pc = "gather"
        /\ \A s \in Sockets : deadline'[s] # "none" =>
              discovering' = s \/ (deadline[s] # "none" /\ discovering # s)
    <2>1. CASE DiscoveryReturns
      <3>1. /\ discovering \in Sockets /\ discovering' = None
            /\ deadline' = [deadline EXCEPT ![discovering] = "none"]
        BY <2>1 DEF DiscoveryReturns, ClearDeadline, SocketTypes
      <3> QED
        BY <3>1 DEF SocketTypes
    <2>2. CASE \E s \in Sockets : DiscoveryStarts(s)
      <3>0. PICK s \in Sockets : DiscoveryStarts(s)
        BY <2>2
      <3>1. /\ pc = "gather" /\ discovering = None
            /\ \/ discovering' = s /\ deadline' = [deadline EXCEPT ![s] = "future"]
               \/ discovering' = discovering /\ deadline' = deadline
        BY <3>0 DEF DiscoveryStarts, At
      <3> QED
        BY <3>1 DEF SocketTypes, DiscoversFirst
    <2>3. CASE \E s \in Sockets : DeadlinePasses(s)
      <3>0. PICK s \in Sockets : DeadlinePasses(s)
        BY <2>3
      <3>1. /\ UNCHANGED discovering /\ deadline[s] = "future"
            /\ deadline' = [deadline EXCEPT ![s] = "past"]
        BY <3>0 DEF DeadlinePasses, attemptVars, gatherVars
      <3> QED
        BY <3>1 DEF SocketTypes, DiscoversFirst
    <2> QED
      BY <2>1, <2>2, <2>3
  <1>3. SocketTypes'
    BY <1>1, <1>2 DEF SocketTypes
  <1>4. LiveInPhase' /\ CallInPhase' /\ ToldAreStopped' /\ NotStartedBefore'
    BY <1>1 DEF LiveInPhase, CallInPhase, ToldAreStopped, NotStartedBefore, Live, RunsIn, StopsIn, Before
  <1>5. DeadlineOwned' /\ DiscoversFirst'
    BY <1>1, <1>2 DEF DeadlineOwned, DiscoversFirst
  <1>6. ProberInPhase' /\ ReadersStopOnlyWhenTold'
    BY <1>1 DEF ProberInPhase, ProberRuns, ReadersStopOnlyWhenTold
  <1> QED
    BY <1>3, <1>4, <1>5, <1>6

(* Every step of a reader moves one that is alive. *)
LEMMA ReadersKeep ==
  ASSUME SocketInv,
         \/ \E s \in Sockets : ReaderGoesOn(s)
         \/ \E a \in Addrs, w \in Waits : ListenerHears(a, w)
         \/ \E a \in Addrs : ProbeHears(a)
  PROVE  SocketInv'
  <1> USE DEF attemptVars, flagVars, gatherVars
  <1>0. "probe" \in Kinds /\ "listener" \in Kinds
    BY DEF Kinds
  <1>1. ASSUME NEW k \in Kinds, NEW s \in Sockets, ReaderChecks(k, s)
        PROVE  SocketInv'
    <2>1. CASE told[k]
      BY <1>1, <2>1, ReaderMoves DEF ReaderChecks, Live
    <2>2. CASE ~told[k]
      BY <1>1, <2>2, ReaderMoves DEF ReaderChecks, Live
    <2> QED
      BY <2>1, <2>2
  <1>2. ASSUME NEW k \in Kinds, NEW s \in Sockets, ReaderFails(k, s)
        PROVE  SocketInv'
    <2>1. Live(k, s) /\ deadline[s] = "past"
      BY <1>2 DEF ReaderFails, Live
    <2>2. told[k]
      <3>1. /\ pc \notin {"gather", "negotiated", "open", "closed"}
            /\ call = NoCall => pc \in RunsIn(k)
            /\ call # NoCall => call.kind = k
            /\ discovering = None
        BY <2>1, LiveFacts
      <3>2. pc \in RunsIn(k) => pc # "return"
        BY PhaseFacts DEF Kinds
      <3>3. call.step = "wait"
        BY <2>1, <3>1, <3>2 DEF SocketInv, DeadlineOwned
      <3>4. call # NoCall
        BY <3>3 DEF NoCall
      <3> QED
        BY <3>1, <3>3, <3>4 DEF SocketInv, CallInPhase
    <2> QED
      BY <1>2, <2>1, <2>2, ReaderMoves DEF ReaderFails
  <1>3. ASSUME NEW s \in Sockets, ReaderSends(s)
        PROVE  SocketInv'
    BY <1>0, <1>3, ReaderMoves DEF ReaderSends, Reads, Live
  <1>4. ASSUME NEW s \in Sockets, ReaderGivesUp(s)
        PROVE  SocketInv'
    BY <1>0, <1>4, ReaderMoves DEF ReaderGivesUp, ToldToStop, Live
  <1>5. ASSUME NEW a \in Addrs, NEW w \in Waits, ListenerHears(a, w)
        PROVE  SocketInv'
    BY <1>0, <1>5, ReaderMoves DEF ListenerHears, Delivered, Reads, Live
  <1>6. ASSUME NEW a \in Addrs, ProbeHears(a)
        PROVE  SocketInv'
    BY <1>0, <1>6, ReaderMoves DEF ProbeHears, Delivered, Live
  <1> QED
    BY <1>1, <1>2, <1>3, <1>4, <1>5, <1>6 DEF ReaderGoesOn

(* A step that leaves sockets and phase alone *)
LEMMA SocketStutter ==
  ASSUME SocketInv, UNCHANGED <<turn, pc, call, undiscovered, discovering, socketVars>>,
         prober' \in {prober, "done"}
  PROVE  SocketInv'
  <1> USE DEF SocketInv, socketVars
  <1>1. SocketTypes'
    BY DEF SocketTypes
  <1>2. LiveInPhase' /\ CallInPhase'
    BY DEF LiveInPhase, CallInPhase, Live, RunsIn, StopsIn
  <1>3. ToldAreStopped' /\ NotStartedBefore'
    BY DEF ToldAreStopped, NotStartedBefore, Live, Before
  <1>4. DeadlineOwned' /\ DiscoversFirst' /\ ReadersStopOnlyWhenTold'
    BY DEF DeadlineOwned, DiscoversFirst, ReadersStopOnlyWhenTold
  <1>5. ProberInPhase'
    BY DEF ProberInPhase, ProberRuns
  <1> QED
    BY <1>1, <1>2, <1>3, <1>4, <1>5

(* The phases in which the attempt only goes on *)
LEMMA PhasesKeep ==
  ASSUME SocketInv,
         Activate \/ Await \/ ReadLogs \/ Probed \/ Chosen \/ Returned
  PROVE  SocketInv'
  <1> USE DEF At
  <1>1. /\ call = NoCall /\ call' = NoCall
        /\ UNCHANGED <<turn, undiscovered, discovering, prober, told, reader, deadline>>
        /\ \/ pc = "activate" /\ pc' = "await"
           \/ pc = "await" /\ pc' \in {"logs", "stopProbes"}
           \/ pc = "logs" /\ pc' = "stopProbes"
           \/ pc = "probed" /\ pc' = "stopProbes"
           \/ pc = "chosen" /\ pc' = "negotiated"
           \/ pc = "return" /\ pc' = "closed"
    BY DEF Activate, Await, ReadLogs, Probed, Chosen, Returned, flagVars, gatherVars, socketVars
  <1>2. discovering = None /\ pc' \in Phases
    BY <1>1 DEF SocketInv, DiscoversFirst, Phases
  <1>3. /\ deadline' \in [Sockets -> {"none", "future", "past"}]
        /\ prober' \in {"off", "on", "done"}
    BY <1>1 DEF SocketInv, SocketTypes
  <1>4. \A s \in Sockets : deadline'[s] # "none" => pc' \in {"open", "return", "closed"}
    BY <1>1, <1>2, NoDeadlineLeft
  <1>5. \A k \in Kinds : (\E s \in Sockets : Live(k, s)) => pc' \in RunsIn(k)
    <2>1. \A k \in Kinds, s \in Sockets : Live(k, s) => pc \in RunsIn(k)
      BY <1>1, LiveFacts
    <2>2. \A k \in Kinds : pc \in RunsIn(k) => pc' \in RunsIn(k)
      BY <1>1, PhaseFacts DEF Kinds
    <2> QED
      BY <2>1, <2>2
  <1>6. \A k \in Kinds : pc' \in Before(k) => pc \in Before(k)
    BY <1>1, PhaseFacts DEF Kinds
  <1>7. prober' = "on" => pc' \in {"activate", "await", "logs", "probe", "probing", "probed", "stopProbes"}
    BY <1>1 DEF SocketInv, ProberInPhase, ProberRuns
  <1> QED
    BY <1>1, <1>2, <1>3, <1>4, <1>5, <1>6, <1>7, PhaseMoves

(* Every call of Stop is made where only its own readers are alive. *)
LEMMA StopCallsKeep ==
  ASSUME SocketInv, call = NoCall, discovering = None,
         UNCHANGED <<turn, undiscovered, discovering, prober, told, reader, deadline>>,
         \/ /\ pc \in {"gather", "connect", "stopProbes", "negotiated"} /\ pc' = "return"
            /\ Stop("listener") /\ ~ProberRuns
         \/ pc = "logs" /\ pc' = "probe" /\ Stop("listener")
         \/ pc = "stopProbes" /\ pc' = "chosen" /\ Stop("listener") /\ ~ProberRuns
         \/ pc = "probing" /\ pc' = "probed" /\ Stop("probe")
         \/ pc = "tunnel" /\ pc' = "return" /\ Stop("bind")
  PROVE  SocketInv'
  <1>0. PICK k \in Kinds :
          /\ Stop(k) /\ pc' \in StopsIn(k)
          /\ pc \in RunsIn(k) \cup {"gather", "negotiated"}
    BY PhaseFacts DEF Kinds
  <1>1. pc \notin {"open", "return", "closed"} /\ pc' \in Phases
    BY DEF Phases
  <1>2. \A s \in Sockets : deadline[s] = "none"
    BY <1>1, NoDeadlineLeft
  <1>3. \A j \in Kinds, s \in Sockets : Live(j, s) => j = k
    <2> SUFFICES ASSUME NEW j \in Kinds, NEW s \in Sockets, Live(j, s)
                 PROVE  j = k
      OBVIOUS
    <2>1. pc \in RunsIn(j) /\ pc \notin {"gather", "negotiated"}
      BY LiveFacts
    <2> QED
      BY <1>0, <2>1, PhaseFacts DEF Kinds
  <1>4. \A j \in Kinds : pc' \in Before(j) => pc \in Before(j)
    BY PhaseFacts DEF Kinds
  <1>5. ~ProberRuns \/ pc' \in {"probe", "probed"}
    BY DEF SocketInv, ProberInPhase
  <1> QED
    BY <1>0, <1>1, <1>2, <1>3, <1>4, <1>5, StopIsCalled

(* Local candidates are gathered, or not. *)
LEMMA GatheredKeeps ==
  ASSUME SocketInv, Gathered
  PROVE  SocketInv'
  <1>1. /\ pc = "gather" /\ call = NoCall /\ discovering = None
        /\ UNCHANGED <<turn, undiscovered, discovering, prober, told, deadline>>
    BY DEF Gathered, At, flagVars
  <1>2. \A s \in Sockets : deadline[s] = "none"
    BY <1>1, NoDeadlineLeft
  <1>3. prober \in {"off", "on", "done"} /\ ~ProberRuns
    BY <1>1 DEF SocketInv, SocketTypes, ProberInPhase
  <1>4. \A k \in Kinds, s \in Sockets : ~Live(k, s)
    BY <1>1, LiveFacts
  <1>5. CASE pc' = "return"
    <2>1. Stop("listener") /\ UNCHANGED reader
      BY <1>5 DEF Gathered, Return
    <2> QED
      BY <1>1, <1>3, <1>5, <2>1, StopCallsKeep
  <1>6. CASE pc' # "return"
    <2>1. /\ pc' = "connect" /\ call' = NoCall
          /\ IF turn THEN UNCHANGED reader ELSE Start("listener")
      BY <1>1, <1>6 DEF Gathered, Return
    <2>2. pc' \in Phases /\ "listener" \in Kinds
      BY <2>1 DEF Phases, Kinds
    <2>3. CASE turn
      <3>1. UNCHANGED reader
        BY <2>1, <2>3
      <3>2. \A k \in Kinds : pc' \in Before(k) => pc \in Before(k)
        BY <1>1, <2>1, <2>3, PhaseFacts DEF Kinds
      <3>3. deadline' \in [Sockets -> {"none", "future", "past"}]
        BY <1>1 DEF SocketInv, SocketTypes
      <3> QED
        BY <1>1, <1>2, <1>3, <1>4, <2>1, <2>2, <3>1, <3>2, <3>3, PhaseMoves DEF ProberRuns
    <2>4. CASE ~turn
      <3>1. Start("listener")
        BY <2>1, <2>4
      <3>2. \A k \in Kinds : pc' \in Before(k) => pc \in Before(k) /\ k # "listener"
        BY <1>1, <2>1, <2>4, PhaseFacts DEF Kinds
      <3>3. pc \in Before("listener") /\ pc' \in RunsIn("listener")
        BY <1>1, <2>1, PhaseFacts
      <3>4. deadline' = [s \in Sockets |-> "none"]
        BY <1>1, <1>2 DEF SocketInv, SocketTypes
      <3> QED
        BY <1>1, <1>3, <1>4, <2>1, <2>2, <3>1, <3>2, <3>3, <3>4, ReadersStart DEF ProberRuns
    <2> QED
      BY <2>3, <2>4
  <1> QED
    BY <1>5, <1>6

(* CONNECT_RESPONSE came: in TURN-only mode the listener starts now. *)
LEMMA ConnectedKeeps ==
  ASSUME SocketInv, Connected
  PROVE  SocketInv'
  <1>1. /\ pc = "connect" /\ call = NoCall /\ call' = NoCall
        /\ pc' \in {"activate", "stopProbes"} /\ prober' \in {"off", "on"}
        /\ UNCHANGED <<turn, undiscovered, discovering, told, deadline>>
        /\ IF turn THEN Start("listener") ELSE UNCHANGED reader
    BY DEF Connected, At, flagVars, gatherVars
  <1>2. discovering = None /\ pc' \in Phases /\ "listener" \in Kinds
    BY <1>1 DEF SocketInv, DiscoversFirst, Phases, Kinds
  <1>3. \A s \in Sockets : deadline[s] = "none"
    BY <1>1, <1>2, NoDeadlineLeft
  <1>4. deadline' = [s \in Sockets |-> "none"]
    BY <1>1, <1>3 DEF SocketInv, SocketTypes
  <1>5. CASE turn
    <2>1. \A k \in Kinds, s \in Sockets : ~Live(k, s)
      <3> SUFFICES ASSUME NEW k \in Kinds, NEW s \in Sockets, Live(k, s)
                   PROVE  FALSE
        OBVIOUS
      <3>1. pc \in RunsIn(k)
        BY <1>1, LiveFacts
      <3>2. k = "listener" /\ pc \in Before(k)
        BY <1>1, <1>5, <3>1, PhaseFacts DEF Kinds
      <3> QED
        BY <3>2 DEF SocketInv, NotStartedBefore, Live
    <2>2. pc \in Before("listener") /\ pc' \in RunsIn("listener")
      BY <1>1, <1>5, PhaseFacts
    <2>3. \A k \in Kinds : pc' \in Before(k) => pc \in Before(k) /\ k # "listener"
      BY <1>1, PhaseFacts DEF Kinds
    <2> QED
      BY <1>1, <1>2, <1>4, <1>5, <2>1, <2>2, <2>3, ReadersStart
  <1>6. CASE ~turn
    <2>1. \A k \in Kinds : (\E s \in Sockets : Live(k, s)) => pc' \in RunsIn(k)
      <3>1. \A k \in Kinds, s \in Sockets : Live(k, s) => pc \in RunsIn(k)
        BY <1>1, LiveFacts
      <3>2. \A k \in Kinds : pc \in RunsIn(k) => pc' \in RunsIn(k)
        BY <1>1, PhaseFacts DEF Kinds
      <3> QED
        BY <3>1, <3>2
    <2>2. \A k \in Kinds : pc' \in Before(k) => pc \in Before(k)
      BY <1>1, PhaseFacts DEF Kinds
    <2> QED
      BY <1>1, <1>2, <1>4, <1>6, <2>1, <2>2, PhaseMoves
  <1> QED
    BY <1>5, <1>6

(* The probe starts its readers, or has no target. *)
LEMMA ProbeStartsKeeps ==
  ASSUME SocketInv, ProbeStarts
  PROVE  SocketInv'
  <1>1. /\ pc = "probe" /\ call = NoCall /\ call' = NoCall
        /\ UNCHANGED <<turn, undiscovered, discovering, prober, told, deadline>>
        /\ \/ pc' = "probed" /\ UNCHANGED reader
           \/ pc' = "probing" /\ Start("probe")
    BY DEF ProbeStarts, At, flagVars, gatherVars
  <1>2. discovering = None /\ pc' \in Phases /\ "probe" \in Kinds /\ prober' \in {"off", "on", "done"}
    BY <1>1 DEF SocketInv, DiscoversFirst, Phases, Kinds, SocketTypes
  <1>3. \A s \in Sockets : deadline[s] = "none"
    BY <1>1, <1>2, NoDeadlineLeft
  <1>4. deadline' = [s \in Sockets |-> "none"]
    BY <1>1, <1>3 DEF SocketInv, SocketTypes
  <1>5. \A k \in Kinds, s \in Sockets : ~Live(k, s)
    BY <1>1, LiveFacts, PhaseFacts DEF Kinds
  <1>6. \A k \in Kinds : pc' \in Before(k) => pc \in Before(k) /\ k # "probe"
    BY <1>1, PhaseFacts DEF Kinds
  <1>7. CASE pc' = "probed"
    BY <1>1, <1>2, <1>4, <1>5, <1>6, <1>7, PhaseMoves
  <1>8. CASE pc' = "probing" /\ Start("probe")
    <2>1. pc \in Before("probe") /\ pc' \in RunsIn("probe")
      BY <1>1, <1>8, PhaseFacts
    <2> QED
      BY <1>1, <1>2, <1>4, <1>5, <1>6, <1>8, <2>1, ReadersStart
  <1> QED
    BY <1>1, <1>7, <1>8

(* WireGuard's receive routines start with no deadline left. *)
LEMMA BindOpensKeeps ==
  ASSUME SocketInv, BindOpens
  PROVE  SocketInv'
  <1>1. /\ pc = "open" /\ call = NoCall /\ call' = NoCall /\ pc' = "tunnel"
        /\ UNCHANGED <<turn, undiscovered, discovering, prober, told>>
        /\ deadline' = [s \in Sockets |-> "none"] /\ Start("bind")
    BY DEF BindOpens, At, flagVars, gatherVars
  <1>2. /\ discovering = None /\ pc' \in Phases /\ "bind" \in Kinds
        /\ prober' \in {"off", "on", "done"} /\ prober' # "on"
    BY <1>1 DEF SocketInv, DiscoversFirst, Phases, Kinds, SocketTypes, ProberInPhase, ProberRuns
  <1>3. \A k \in Kinds, s \in Sockets : ~Live(k, s)
    BY <1>1, LiveFacts
  <1>4. \A k \in Kinds : pc' \in Before(k) => pc \in Before(k) /\ k # "bind"
    BY <1>1, PhaseFacts DEF Kinds
  <1>5. pc \in Before("bind") /\ pc' \in RunsIn("bind")
    BY <1>1, PhaseFacts
  <1> QED
    BY <1>1, <1>2, <1>3, <1>4, <1>5, ReadersStart

(* The negotiated attempt returns, or goes on to the tunnel. *)
LEMMA NegotiatedKeeps ==
  ASSUME SocketInv, Negotiated
  PROVE  SocketInv'
  <1>1. /\ pc = "negotiated" /\ call = NoCall
        /\ UNCHANGED <<turn, undiscovered, discovering, prober, told, reader>>
        /\ \/ pc' = "return" /\ Stop("listener") /\ UNCHANGED deadline
           \/ pc' = "open" /\ call' = NoCall /\ deadline' = [s \in Sockets |-> "past"]
    BY DEF Negotiated, Return, DeadlinePast, At, flagVars, gatherVars
  <1>2. /\ discovering = None /\ ~ProberRuns /\ prober' \in {"off", "on", "done"}
    BY <1>1 DEF SocketInv, DiscoversFirst, SocketTypes, ProberInPhase
  <1>3. CASE pc' = "return" /\ Stop("listener") /\ UNCHANGED deadline
    BY <1>1, <1>2, <1>3, StopCallsKeep
  <1>4. CASE pc' = "open" /\ call' = NoCall /\ deadline' = [s \in Sockets |-> "past"]
    <2>1. pc' \in Phases /\ deadline' \in [Sockets -> {"none", "future", "past"}]
      BY <1>4 DEF Phases
    <2>2. \A k \in Kinds, s \in Sockets : ~Live(k, s)
      BY <1>1, LiveFacts
    <2>3. \A k \in Kinds : pc' \in Before(k) => pc \in Before(k)
      BY <1>1, <1>4, PhaseFacts DEF Kinds
    <2> QED
      BY <1>1, <1>2, <1>4, <2>1, <2>2, <2>3, PhaseMoves DEF ProberRuns
  <1> QED
    BY <1>1, <1>3, <1>4

(* The steps of the attempt that call a Stop *)
LEMMA StoppingStepsKeep ==
  ASSUME SocketInv,
         NotConnected \/ NothingHeard \/ ProbeTakes \/ GraceEnds \/ ProbeTimesOut
           \/ ProbesStopped \/ TunnelEnds
  PROVE  SocketInv'
  <1>1. /\ call = NoCall /\ pc # "gather"
        /\ UNCHANGED <<turn, undiscovered, discovering, prober, told, reader, deadline>>
        /\ \/ pc = "connect" /\ pc' = "return" /\ Stop("listener")
           \/ pc = "logs" /\ pc' = "probe" /\ Stop("listener")
           \/ pc = "stopProbes" /\ pc' \in {"return", "chosen"} /\ Stop("listener") /\ ~ProberRuns
           \/ pc = "probing" /\ pc' = "probed" /\ Stop("probe")
           \/ pc = "probing" /\ pc' = pc /\ call' = call
           \/ pc = "tunnel" /\ pc' = "return" /\ Stop("bind")
    <2> USE DEF At, flagVars, gatherVars, socketVars
    <2>1. CASE NotConnected \/ NothingHeard
      BY <2>1 DEF NotConnected, NothingHeard, Return
    <2>2. CASE ProbeTakes
      BY <2>2 DEF ProbeTakes, ProbeReturns
    <2>3. CASE GraceEnds \/ ProbeTimesOut
      BY <2>3 DEF GraceEnds, ProbeTimesOut, ProbeReturns
    <2>4. CASE ProbesStopped
      BY <2>4 DEF ProbesStopped, Return
    <2>5. CASE TunnelEnds
      BY <2>5 DEF TunnelEnds
    <2> QED
      BY <2>1, <2>2, <2>3, <2>4, <2>5
  <1>2. discovering = None
    BY <1>1 DEF SocketInv, DiscoversFirst
  <1>3. pc = "connect" => ~ProberRuns
    BY DEF SocketInv, ProberInPhase
  <1>4. CASE pc' = pc
    BY <1>1, <1>4, SocketStutter DEF socketVars
  <1>5. CASE pc' # pc
    BY <1>1, <1>2, <1>3, <1>5, StopCallsKeep
  <1> QED
    BY <1>4, <1>5

(* At the start nobody reads. *)
LEMMA SocketInit == Init => SocketInv
  <1> SUFFICES ASSUME Init
               PROVE  SocketInv
    OBVIOUS
  <1>1. SocketTypes
    BY DEF Init, SocketTypes
  <1>2. \A k \in Kinds, s \in Sockets : ~Live(k, s) /\ reader[k][s] = "off" /\ ~told[k]
    BY DEF Init, Live
  <1>3. LiveInPhase /\ CallInPhase /\ ToldAreStopped /\ ReadersStopOnlyWhenTold
    BY <1>2 DEF Init, LiveInPhase, CallInPhase, ToldAreStopped, ReadersStopOnlyWhenTold
  <1>4. NotStartedBefore
    BY <1>2 DEF Init, NotStartedBefore
  <1>5. DeadlineOwned /\ DiscoversFirst /\ ProberInPhase
    BY DEF Init, DeadlineOwned, DiscoversFirst, ProberInPhase, ProberRuns
  <1> QED
    BY <1>1, <1>3, <1>4, <1>5 DEF SocketInv

(* Every step keeps the sockets in order. *)
LEMMA SocketStep == SocketInv /\ [Next]_vars => SocketInv'
  <1> SUFFICES ASSUME SocketInv, [Next]_vars
               PROVE  SocketInv'
    OBVIOUS
  <1>1. CASE Attempt
    <2>1. CASE StopSteps
      BY <2>1, StopStepsKeep
    <2>2. CASE DiscoveryReturns \/ \E s \in Sockets : DiscoveryStarts(s)
      BY <2>2, DiscoveryKeeps
    <2>3. CASE Gathered
      BY <2>3, GatheredKeeps
    <2>4. CASE Connected
      BY <2>4, ConnectedKeeps
    <2>5. CASE Activate \/ Await \/ ReadLogs \/ Probed \/ Chosen \/ Returned
      BY <2>5, PhasesKeep
    <2>6. CASE ProbeStarts
      BY <2>6, ProbeStartsKeeps
    <2>7. CASE NotConnected \/ NothingHeard \/ ProbeTakes \/ GraceEnds \/ ProbesStopped
      BY <2>7, StoppingStepsKeep
    <2>8. CASE Negotiated
      BY <2>8, NegotiatedKeeps
    <2>9. CASE BindOpens
      BY <2>9, BindOpensKeeps
    <2> QED
      BY <1>1, <2>1, <2>2, <2>3, <2>4, <2>5, <2>6, <2>7, <2>8, <2>9 DEF Attempt
  <1>2. CASE ProbeTimesOut \/ TunnelEnds
    BY <1>2, StoppingStepsKeep
  <1>3. CASE \/ \E s \in Sockets : ReaderGoesOn(s)
             \/ \E a \in Addrs, w \in Waits : ListenerHears(a, w)
             \/ \E a \in Addrs : ProbeHears(a)
    BY <1>3, ReadersKeep
  <1>4. CASE \E s \in Sockets : DeadlinePasses(s)
    BY <1>4, DiscoveryKeeps
  <1>5. CASE ProberExits \/ Interrupt
    BY <1>5, SocketStutter DEF ProberExits, Interrupt, attemptVars, flagVars, gatherVars
  <1>6. CASE \E a \in Addrs, w \in Waits : BindHears(a, w)
    BY <1>6, SocketStutter DEF BindHears, attemptVars, flagVars, gatherVars
  <1>7. CASE Finished \/ UNCHANGED vars
    <2>1. UNCHANGED vars
      BY <1>7 DEF Finished
    <2> QED
      BY <2>1, SocketStutter DEF vars, attemptVars, flagVars, gatherVars
  <1> QED
    BY <1>1, <1>2, <1>3, <1>4, <1>5, <1>6, <1>7 DEF Next

(* Readers, deadlines and the prober keep to the phases of the attempt. *)
THEOREM SocketInvariance == Spec => []SocketInv
  BY SocketInit, SocketStep, PTL DEF Spec

(* No two of discovery, listener, probe and bind ever read the same        *)
(* socket, and neither reader nor prober is left when the sockets close.   *)
THEOREM Exclusive == Spec => []ExclusiveReader
  <1>1. SocketInv => ExclusiveReader
    <2> SUFFICES ASSUME SocketInv
                 PROVE  ExclusiveReader
      OBVIOUS
    <2>1. \A s \in Sockets, j, k \in Kinds : Live(j, s) /\ Live(k, s) => j = k
      BY LiveFacts
    <2>2. \A s \in Sockets, k \in Kinds : Live(k, s) => discovering # s /\ pc # "closed"
      BY LiveFacts
    <2>3. ProberRuns => pc \notin {"open", "tunnel", "closed"}
      BY DEF SocketInv, ProberInPhase
    <2> QED
      BY <2>1, <2>2, <2>3 DEF ExclusiveReader
  <1> QED
    BY <1>1, SocketInvariance, PTL

(* A reader exits only after its Stop has closed the done channel: no      *)
(* deadline of an earlier user of the socket ends it.                      *)
THEOREM StopOnlyWhenTold == Spec => []ReadersStopOnlyWhenTold
  <1>1. SocketInv => ReadersStopOnlyWhenTold
    BY DEF SocketInv
  <1> QED
    BY <1>1, SocketInvariance, PTL

--------------------------------------------------------------------------------
(* The choice *)

(* The variables ChoiceInv is about, but for the phase *)
choiceState == <<trackerVars, turn, override, peerCandidates, compatible, endpoint, queue,
                 logVars, probeVars>>

(* The steps between phases at which nothing is chosen *)
LEMMA ChoiceStays ==
  ASSUME ChoiceInv, UNCHANGED choiceState,
         local' \subseteq Sockets, ctxDone' \in BOOLEAN,
         \A s \in Sockets : reader'["probe"][s] = "send" => reader["probe"][s] = "send",
         \/ pc' = pc
         \/ pc = "gather" /\ pc' = "connect"
         \/ pc = "logs" /\ pc' = "probe" /\ logs = <<>> /\ endpoint = None
         \/ pc = "probe" /\ pc' \in {"probing", "probed"}
         \/ pc = "stopProbes" /\ pc' = "chosen" /\ endpoint # None
         \/ pc = "negotiated" /\ pc' = "open"
         \/ pc = "open" /\ pc' = "tunnel"
         \/ pc \notin {"probing", "probed"} /\ pc' = "return"
         \/ pc = "return" /\ pc' = "closed"
  PROVE  ChoiceInv'
  <1> USE DEF choiceState, trackerVars, logVars, probeVars
  <1>1. TrackerOK'
    BY DEF ChoiceInv, TrackerOK
  <1>2. CandidatesOK'
    BY DEF ChoiceInv, CandidatesOK
  <1>3. LogsOK'
    <2>1. ToSet(<<>>) = {}
      BY DEF ToSet
    <2> QED
      BY <2>1 DEF ChoiceInv, LogsOK, LogIsUnread
  <1>4. ProbeOK'
    BY DEF ChoiceInv, ProbeOK
  <1>5. EndpointOK'
    BY DEF ChoiceInv, EndpointOK
  <1>6. QueueOK'
    BY DEF ChoiceInv, QueueOK
  <1>7. TurnOK' /\ TurnOnlyEndpoint'
    BY DEF ChoiceInv, TurnOK, TurnOnlyEndpoint, Relays
  <1>8. BestAnswerWins'
    BY DEF ChoiceInv, BestAnswerWins, ProbeOK
  <1>9. RetryQueueComplete'
    BY DEF ChoiceInv, RetryQueueComplete
  <1> QED
    BY <1>1, <1>2, <1>3, <1>4, <1>5, <1>6, <1>7, <1>8, <1>9 DEF ChoiceInv

(* In TURN-only mode the candidates' addresses are the relays. *)
LEMMA RelaysAre ==
  ASSUME CandidatesOK, TurnOK
  PROVE  /\ ToSet(Addresses(compatible)) \subseteq Addrs
         /\ turn => /\ ToSet(Addresses(peerCandidates)) = Relays
                    /\ ToSet(Addresses(compatible)) \subseteq Relays
  <1>1. /\ peerCandidates \in Seq(Candidates) /\ compatible \in Seq(Candidates)
        /\ ToSet(compatible) \subseteq ToSet(peerCandidates)
    BY DEF CandidatesOK
  <1>2. /\ ToSet(Addresses(peerCandidates)) = {c.addr : c \in ToSet(peerCandidates)}
        /\ ToSet(Addresses(compatible)) = {c.addr : c \in ToSet(compatible)}
        /\ Addresses(compatible) \in Seq(Addrs)
    BY <1>1, AddressesOf
  <1>3. ToSet(Addresses(compatible)) \subseteq Addrs
    BY <1>2 DEF ToSet
  <1>4. turn => \A c \in ToSet(peerCandidates) : c.type = "turn"
    BY DEF TurnOK
  <1> QED
    BY <1>1, <1>2, <1>3, <1>4 DEF Relays

(* observe counts one step of one countdown, and selects at most once. *)
LEMMA ObserveCounts ==
  ASSUME TrackerOK, NEW a \in Addrs, NEW w, observe(a, w)
  PROVE  /\ TrackerOK'
         /\ selected' = selected \/ (selected = None /\ selected' = a)
         /\ \A b \in Addrs : nextWait'[b] = nextWait[b] \/ b = a
  <1> USE DEF TrackerOK
  <1>0. WaitCount \in Nat
    BY WaitSeqAssumption DEF WaitCount
  <1>1. CASE UNCHANGED trackerVars
    BY <1>1 DEF trackerVars
  <1>2. CASE ~Settled(a) /\ UNCHANGED <<nextWait, active, selected, closes>>
    BY <1>2
  <1>3. CASE /\ ~Settled(a)
             /\ nextWait' = [nextWait EXCEPT ![a] = @ + 1]
             /\ UNCHANGED active
             /\ IF nextWait[a] + 1 = WaitCount /\ active
                THEN Select(a) ELSE UNCHANGED <<selected, closes>>
    <2>1. PICK n : n = nextWait[a] + 1
      OBVIOUS
    <2>2. nextWait' = [nextWait EXCEPT ![a] = n] /\ n \in 0..WaitCount
      BY <1>0, <1>3, <2>1 DEF Settled
    <2>3. /\ nextWait' \in [Addrs -> 0..WaitCount]
          /\ \A b \in Addrs : nextWait'[b] = nextWait[b] \/ b = a
      BY <2>2
    <2>4. selected = None /\ closes = 0
      BY <1>3 DEF Settled
    <2>5. CASE active /\ Select(a)
      BY <1>3, <2>3, <2>4, <2>5 DEF Select
    <2>6. CASE UNCHANGED <<selected, closes>>
      BY <1>3, <2>3, <2>6
    <2> QED
      BY <1>3, <2>5, <2>6
  <1> QED
    BY <1>1, <1>2, <1>3 DEF observe, KeepProgress

(* activate selects a tuple that has counted, if anything. *)
LEMMA ActivateSelects ==
  ASSUME TrackerOK, activate
  PROVE  /\ TrackerOK'
         /\ nextWait' = nextWait
         /\ \/ selected' = selected
            \/ selected = None /\ selected' \in Addrs /\ nextWait[selected'] # 0
  <1> USE DEF TrackerOK
  <1>0. WaitCount \in Nat /\ WaitCount > 0
    BY WaitSeqAssumption DEF WaitCount
  <1>1. CASE active /\ UNCHANGED trackerVars
    BY <1>1 DEF trackerVars
  <1>2. CASE ~active /\ active' = TRUE /\ UNCHANGED nextWait /\ ScanPairs
    <2>1. selected = None /\ closes = 0
      BY <1>2
    <2>2. CASE UNCHANGED <<selected, closes>>
      BY <1>2, <2>1, <2>2
    <2>3. CASE \E a \in Addrs : Complete(a) /\ Select(a)
      <3>1. PICK a \in Addrs : nextWait[a] = WaitCount /\ selected' = a /\ closes' = closes + 1
        BY <2>3 DEF Complete, Select
      <3> QED
        BY <1>0, <1>2, <2>1, <3>1
    <2> QED
      BY <1>2, <2>2, <2>3 DEF ScanPairs
  <1> QED
    BY <1>1, <1>2 DEF activate

(* The steps that only move the tracker and the log *)
LEMMA TrackerMoves ==
  ASSUME ChoiceInv, TrackerOK',
         UNCHANGED <<turn, override, local, peerCandidates, compatible, endpoint, queue,
                     probeVars, ctxDone>>,
         \A s \in Sockets : reader'["probe"][s] = "send" => reader["probe"][s] = "send",
         pc' = pc \/ (pc = "activate" /\ pc' = "await"),
         selected' = selected \/ selected = None,
         LogsOK',
         UNCHANGED <<heard, overflowed>> \/ (LogIsUnread /\ heard \subseteq heard'),
         turn => heard' \subseteq Relays,
         turn /\ pc' \notin {"tunnel", "return", "closed"} =>
            /\ \A a \in Addrs : nextWait'[a] # 0 => a \in Relays
            /\ selected' \in Relays \cup {None}
  PROVE  ChoiceInv'
  <1> USE DEF probeVars
  <1>1. CandidatesOK'
    BY DEF ChoiceInv, CandidatesOK
  <1>3. ProbeOK'
    BY DEF ChoiceInv, ProbeOK
  <1>4. EndpointOK'
    <2>1. /\ override' \in Addrs \cup {None} /\ local' \subseteq Sockets /\ ctxDone' \in BOOLEAN
          /\ endpoint' \in Addrs \cup {None}
      BY DEF ChoiceInv, EndpointOK
    <2>2. endpoint' \in {None, override', selected'} \cup heard' \cup ToSet(Addresses(compatible'))
      BY DEF ChoiceInv, EndpointOK
    <2> QED
      BY <2>1, <2>2 DEF ChoiceInv, EndpointOK
  <1>5. QueueOK'
    BY DEF ChoiceInv, QueueOK, LogIsUnread
  <1>6. TurnOK' /\ TurnOnlyEndpoint'
    <2>1. Relays' = Relays
      BY DEF Relays
    <2> QED
      BY <2>1 DEF ChoiceInv, TurnOK, TurnOnlyEndpoint
  <1>7. BestAnswerWins'
    BY DEF ChoiceInv, BestAnswerWins
  <1>8. RetryQueueComplete'
    <2> SUFFICES ASSUME pc \in {"negotiated", "open", "tunnel"}
                 PROVE  RetryQueueComplete'
      BY DEF RetryQueueComplete
    <2>1. UNCHANGED <<heard, overflowed>> /\ endpoint # None
      BY DEF LogIsUnread, ChoiceInv, EndpointOK
    <2>2. selected' = selected \/ endpoint # selected
      BY <2>1
    <2> QED
      BY <2>1, <2>2 DEF ChoiceInv, RetryQueueComplete
  <1> QED
    BY <1>1, <1>3, <1>4, <1>5, <1>6, <1>7, <1>8 DEF ChoiceInv

(* The log forgets its oldest entry when it is full. *)
LEMMA LogAppended ==
  ASSUME NEW log \in Seq(Addrs), Len(log) <= MaxLogs, NEW a \in Addrs
  PROVE  /\ appendLog(log, a) \in Seq(Addrs) /\ Len(appendLog(log, a)) <= MaxLogs
         /\ ToSet(appendLog(log, a)) \subseteq ToSet(log) \cup {a}
         /\ Len(log) # MaxLogs => ToSet(appendLog(log, a)) = ToSet(log) \cup {a}
  <1>1. PICK kept : kept = IF Len(log) >= MaxLogs THEN Tail(log) ELSE log
    OBVIOUS
  <1>2. kept \in Seq(Addrs) /\ Len(kept) + 1 <= MaxLogs
    BY <1>1
  <1>3. \A i \in 1..Len(kept) : \E j \in 1..Len(log) : kept[i] = log[j]
    <2>1. CASE kept = log
      BY <2>1
    <2>2. CASE Len(log) >= MaxLogs /\ kept = Tail(log)
      <3>1. \A i \in 1..Len(kept) : kept[i] = log[i + 1] /\ i + 1 \in 1..Len(log)
        BY <2>2
      <3> QED
        BY <3>1
    <2> QED
      BY <1>1, <2>1, <2>2
  <1>4. appendLog(log, a) = Append(kept, a)
    BY <1>1 DEF appendLog
  <1>5. \A i \in 1..Len(Append(kept, a)) :
           Append(kept, a)[i] = a \/ \E j \in 1..Len(log) : Append(kept, a)[i] = log[j]
    BY <1>2, <1>3
  <1>6. Append(kept, a) \in Seq(Addrs) /\ Len(Append(kept, a)) <= MaxLogs
    BY <1>2
  <1>7. ToSet(Append(kept, a)) \subseteq ToSet(log) \cup {a}
    BY <1>5, <1>6 DEF ToSet
  <1>8. ASSUME Len(log) # MaxLogs
        PROVE  ToSet(log) \cup {a} \subseteq ToSet(Append(kept, a))
    <2>1. kept = log
      BY <1>1, <1>8
    <2>2. \A i \in 1..Len(log) : Append(log, a)[i] = log[i] /\ i \in 1..Len(Append(log, a))
      OBVIOUS
    <2>3. Append(log, a)[Len(log) + 1] = a /\ Len(log) + 1 \in 1..Len(Append(log, a))
      OBVIOUS
    <2>4. ToSet(log) = {log[i] : i \in 1..Len(log)}
      BY DEF ToSet
    <2>5. \A i \in 1..Len(Append(log, a)) : Append(log, a)[i] \in ToSet(Append(log, a))
      BY DEF ToSet
    <2>6. \A i \in 1..Len(log) : log[i] \in ToSet(Append(log, a))
      BY <2>2, <2>5
    <2> QED
      BY <2>1, <2>3, <2>4, <2>5, <2>6
  <1> QED
    BY <1>4, <1>6, <1>7, <1>8

(* A request reaches the listener: in TURN-only mode it counts only if it  *)
(* comes from a relay.                                                     *)
LEMMA ListenerHearsKeeps ==
  ASSUME SocketInv, ChoiceInv, NEW a \in Addrs, NEW w, ListenerHears(a, w)
  PROVE  ChoiceInv'
  <1>1. /\ UNCHANGED <<turn, override, local, peerCandidates, compatible, endpoint, queue, pc,
                       probeVars, ctxDone>>
        /\ Reads("listener", FamilyOf[a])
    BY DEF ListenerHears, attemptVars, flagVars, gatherVars, choiceVars, candVars
  <1>2. reader'["probe"] = reader["probe"]
    <2>1. reader \in [Kinds -> [Sockets -> {"off", "check", "read", "send", "done"}]]
      BY DEF SocketInv, SocketTypes
    <2> QED
      BY <1>1, <2>1 DEF Reads, Kinds
  <1>3. TrackerOK /\ CandidatesOK /\ LogsOK /\ TurnOK /\ logs \in Seq(Addrs) /\ Len(logs) <= MaxLogs
    BY DEF ChoiceInv, LogsOK
  <1>4. CASE allows(a)
    <2>1. /\ logs' = appendLog(logs, a) /\ Remembered(a)
          /\ observe(a, w) /\ pc # "gather"
      BY <1>4 DEF ListenerHears, Delivered
    <2>2. turn => a \in Relays
      BY <1>3, <1>4, RelaysAre DEF allows
    <2>3. /\ TrackerOK'
          /\ selected' = selected \/ (selected = None /\ selected' = a)
          /\ \A b \in Addrs : nextWait'[b] = nextWait[b] \/ b = a
      BY <1>3, <2>1, ObserveCounts
    <2>4. /\ appendLog(logs, a) \in Seq(Addrs) /\ Len(appendLog(logs, a)) <= MaxLogs
          /\ ToSet(appendLog(logs, a)) \subseteq ToSet(logs) \cup {a}
          /\ Len(logs) # MaxLogs => ToSet(appendLog(logs, a)) = ToSet(logs) \cup {a}
      BY <1>3, LogAppended
    <2>5. /\ LogsOK'
          /\ UNCHANGED <<heard, overflowed>> \/ (LogIsUnread /\ heard \subseteq heard')
          /\ heard' \subseteq heard \cup {a}
      <3>1. CASE LogIsUnread
        <4>1. heard' = heard \cup {a}
          BY <2>1, <3>1 DEF Remembered
        <4>2. /\ overflowed' \in BOOLEAN
              /\ ~overflowed' => ~overflowed /\ Len(logs) # MaxLogs
          BY <2>1, <3>1, Zenon DEF Remembered
        <4>3. ToSet(logs') \subseteq heard' /\ (~overflowed' => ToSet(logs') = heard')
          BY <1>3, <2>1, <2>4, <3>1, <4>1, <4>2 DEF LogsOK
        <4>4. pc \notin {"gather", "probe", "probing", "probed"}
          BY <3>1 DEF LogIsUnread
        <4> QED
          BY <1>1, <1>3, <2>1, <2>4, <3>1, <4>1, <4>2, <4>3, <4>4 DEF LogsOK
      <3>2. CASE ~LogIsUnread
        <4>1. UNCHANGED <<heard, overflowed>>
          BY <2>1, <3>2 DEF Remembered
        <4>2. ~LogIsUnread'
          BY <1>1, <3>2 DEF LogIsUnread
        <4> QED
          BY <1>1, <1>3, <2>1, <2>4, <4>1, <4>2 DEF LogsOK
      <3> QED
        BY <3>1, <3>2
    <2>6. turn => heard' \subseteq Relays
      BY <1>3, <2>2, <2>5 DEF TurnOK
    <2>7. turn /\ pc' \notin {"tunnel", "return", "closed"} =>
             /\ \A b \in Addrs : nextWait'[b] # 0 => b \in Relays
             /\ selected' \in Relays \cup {None}
      BY <1>1, <1>3, <2>2, <2>3 DEF TurnOK
    <2> QED
      BY <1>1, <1>2, <2>3, <2>5, <2>6, <2>7, TrackerMoves
  <1>5. CASE ~allows(a)
    <2>1. UNCHANGED <<logVars, trackerVars>>
      BY <1>5 DEF ListenerHears
    <2> QED
      BY <1>1, <1>2, <2>1, ChoiceStays DEF choiceState, ChoiceInv, EndpointOK
  <1> QED
    BY <1>4, <1>5

(* A request that reaches WireGuard's bind: the choice was made before. *)
LEMMA BindHearsKeeps ==
  ASSUME SocketInv, ChoiceInv, NEW a \in Addrs, NEW w, BindHears(a, w)
  PROVE  ChoiceInv'
  <1>1. /\ UNCHANGED <<turn, override, local, peerCandidates, compatible, endpoint, queue, pc,
                       logVars, reader, probeVars, ctxDone>>
        /\ observe(a, w)
    BY DEF BindHears, attemptVars, flagVars, gatherVars, choiceVars, candVars, socketVars
  <1>2. FamilyOf[a] \in Sockets /\ Live("bind", FamilyOf[a]) /\ "bind" \in Kinds
    BY DEF BindHears, Delivered, Live, Kinds
  <1>3. pc \in {"tunnel", "return"}
    <2>1. pc \in RunsIn("bind") \/ pc \in StopsIn("bind")
      BY <1>2 DEF SocketInv, LiveInPhase
    <2> QED
      BY <2>1, PhaseFacts
  <1>4. TrackerOK /\ TurnOK
    BY DEF ChoiceInv
  <1>5. /\ TrackerOK'
        /\ selected' = selected \/ (selected = None /\ selected' = a)
    BY <1>1, <1>4, ObserveCounts
  <1>6. /\ turn => heard' \subseteq Relays
        /\ LogsOK' /\ UNCHANGED <<heard, overflowed>>
    BY <1>1, <1>4 DEF TurnOK, ChoiceInv, LogsOK, LogIsUnread, logVars
  <1> QED
    BY <1>1, <1>3, <1>5, <1>6, TrackerMoves

(* activate selects a tuple that counted down: in TURN-only mode, a relay. *)
LEMMA ActivateKeeps ==
  ASSUME ChoiceInv, Activate
  PROVE  ChoiceInv'
  <1>1. /\ UNCHANGED <<turn, override, local, peerCandidates, compatible, endpoint, queue,
                       logVars, reader, probeVars, ctxDone>>
        /\ pc = "activate" /\ pc' = "await" /\ activate
    BY DEF Activate, At, flagVars, gatherVars, choiceVars, candVars, socketVars
  <1>2. TrackerOK /\ TurnOK
    BY DEF ChoiceInv
  <1>3. /\ TrackerOK' /\ nextWait' = nextWait
        /\ \/ selected' = selected
           \/ selected = None /\ selected' \in Addrs /\ nextWait[selected'] # 0
    BY <1>1, <1>2, ActivateSelects
  <1>4. /\ turn => heard' \subseteq Relays
        /\ turn => /\ \A a \in Addrs : nextWait'[a] # 0 => a \in Relays
                   /\ selected' \in Relays \cup {None}
    BY <1>1, <1>2, <1>3 DEF TurnOK, logVars
  <1>5. LogsOK' /\ UNCHANGED <<heard, overflowed>>
    BY <1>1 DEF ChoiceInv, LogsOK, LogIsUnread, logVars
  <1> QED
    BY <1>1, <1>3, <1>4, <1>5, TrackerMoves

(* The probe's readers hold an address while they send it. *)
LEMMA ProbeReadersKeep ==
  ASSUME SocketInv, ChoiceInv,
         \/ \E a \in Addrs : ProbeHears(a)
         \/ \E s \in Sockets : ReaderSends(s) \/ ReaderGivesUp(s)
  PROVE  ChoiceInv'
  <1>1. UNCHANGED <<trackerVars, turn, override, local, pc, peerCandidates, compatible, endpoint,
                    queue, logVars, bestRank, answered, ctxDone>>
    BY DEF ProbeHears, ReaderSends, ReaderGivesUp, attemptVars, flagVars, gatherVars, choiceVars,
           candVars
  <1>2. PICK s \in Sockets, v \in {"check", "send", "done"}, b \in Addrs \cup {None} :
           /\ reader' = [reader EXCEPT !["probe"][s] = v]
           /\ sending' = [sending EXCEPT ![s] = b]
           /\ v = "send" => b \in Addrs
    <2>1. CASE \E a \in Addrs : ProbeHears(a)
      <3>1. PICK a \in Addrs : ProbeHears(a)
        BY <2>1
      <3>2. /\ FamilyOf[a] \in Sockets
            /\ reader' = [reader EXCEPT !["probe"][FamilyOf[a]] = "send"]
            /\ sending' = [sending EXCEPT ![FamilyOf[a]] = a]
        BY <3>1 DEF ProbeHears, Delivered
      <3> QED
        BY <3>2
    <2>2. CASE \E s \in Sockets : ReaderSends(s)
      BY <2>2 DEF ReaderSends, Reads
    <2>3. CASE \E s \in Sockets : ReaderGivesUp(s)
      BY <2>3 DEF ReaderGivesUp
    <2> QED
      BY <2>1, <2>2, <2>3
  <1>3. responses' \in Seq(Addrs)
    <2>1. responses \in Seq(Addrs) /\ \A t \in Sockets : reader["probe"][t] = "send" => sending[t] \in Addrs
      BY DEF ChoiceInv, ProbeOK
    <2>2. \/ responses' = responses
          \/ \E t \in Sockets : reader["probe"][t] = "send" /\ responses' = Append(responses, sending[t])
      BY DEF ProbeHears, ReaderSends, ReaderGivesUp
    <2> QED
      BY <2>1, <2>2
  <1>4. /\ sending' \in [Sockets -> Addrs \cup {None}]
        /\ \A t \in Sockets : reader'["probe"][t] = "send" => sending'[t] \in Addrs
    <2>1. /\ sending \in [Sockets -> Addrs \cup {None}]
          /\ \A t \in Sockets : reader["probe"][t] = "send" => sending[t] \in Addrs
      BY DEF ChoiceInv, ProbeOK
    <2>2. reader \in [Kinds -> [Sockets -> {"off", "check", "read", "send", "done"}]] /\ "probe" \in Kinds
      BY DEF SocketInv, SocketTypes, Kinds
    <2>3. PICK row : row = [reader["probe"] EXCEPT ![s] = v]
      OBVIOUS
    <2>4. reader'["probe"] = row
      BY <1>2, <2>2, <2>3
    <2>5. row[s] = v /\ \A t \in Sockets : t # s => row[t] = reader["probe"][t]
      BY <2>2, <2>3
    <2> QED
      BY <1>2, <2>1, <2>4, <2>5
  <1>5. ProbeOK'
    BY <1>1, <1>3, <1>4 DEF ChoiceInv, ProbeOK
  <1>6. TrackerOK' /\ CandidatesOK' /\ LogsOK'
    BY <1>1 DEF ChoiceInv, TrackerOK, CandidatesOK, LogsOK, LogIsUnread, trackerVars, logVars
  <1>7. EndpointOK' /\ QueueOK'
    BY <1>1 DEF ChoiceInv, EndpointOK, QueueOK, trackerVars, logVars
  <1>8. TurnOK' /\ TurnOnlyEndpoint'
    BY <1>1 DEF ChoiceInv, TurnOK, TurnOnlyEndpoint, Relays, trackerVars, logVars
  <1>9. BestAnswerWins' /\ RetryQueueComplete'
    BY <1>1 DEF ChoiceInv, BestAnswerWins, RetryQueueComplete, trackerVars, logVars
  <1> QED
    BY <1>5, <1>6, <1>7, <1>8, <1>9 DEF ChoiceInv

(* The steps at which nothing is chosen *)
LEMMA IdleStepsKeep ==
  ASSUME SocketInv, ChoiceInv,
         \/ StopSteps \/ DiscoveryReturns \/ \E s \in Sockets : DiscoveryStarts(s)
         \/ \E s \in Sockets : DeadlinePasses(s)
         \/ \E k \in Kinds, s \in Sockets : ReaderChecks(k, s) \/ ReaderFails(k, s)
         \/ ProberExits \/ Interrupt \/ UNCHANGED vars
         \/ Gathered \/ NotConnected \/ NothingHeard \/ ProbeStarts \/ ProbesStopped
         \/ Negotiated \/ BindOpens \/ TunnelEnds \/ Returned
  PROVE  ChoiceInv'
  <1>0. /\ local \subseteq Sockets /\ ctxDone \in BOOLEAN
        /\ reader \in [Kinds -> [Sockets -> {"off", "check", "read", "send", "done"}]]
    BY DEF SocketInv, SocketTypes, ChoiceInv, EndpointOK
  <1> USE DEF choiceState, choiceVars, candVars, flagVars, gatherVars, attemptVars, socketVars
  <1>1. CASE StopSteps
    BY <1>0, <1>1, ChoiceStays DEF StopSteps, StopCloses, StopExpires, StopReturns
  <1>2. CASE DiscoveryReturns \/ \E s \in Sockets : DiscoveryStarts(s)
    BY <1>0, <1>2, ChoiceStays DEF DiscoveryReturns, DiscoveryStarts
  <1>3. CASE ProberExits \/ Interrupt \/ \E s \in Sockets : DeadlinePasses(s)
    BY <1>0, <1>3, ChoiceStays DEF ProberExits, Interrupt, DeadlinePasses
  <1>4. CASE \E k \in Kinds, s \in Sockets : ReaderChecks(k, s) \/ ReaderFails(k, s)
    <2>1. PICK k \in Kinds, s \in Sockets, v \in {"done", "read"} :
             reader' = [reader EXCEPT ![k][s] = v]
      BY <1>4 DEF ReaderChecks, ReaderFails
    <2>2. PICK row : row = [reader[k] EXCEPT ![s] = v]
      OBVIOUS
    <2>3. row[s] = v /\ \A t \in Sockets : t # s => row[t] = reader[k][t]
      BY <1>0, <2>2
    <2>4. \A j \in Kinds : reader'[j] = IF j = k THEN row ELSE reader[j]
      BY <1>0, <2>1, <2>2
    <2>5. \A t \in Sockets : reader'["probe"][t] = "send" => reader["probe"][t] = "send"
      BY <2>3, <2>4 DEF Kinds
    <2>6. UNCHANGED <<choiceState, pc, local, ctxDone>>
      BY <1>4 DEF ReaderChecks, ReaderFails
    <2> QED
      BY <1>0, <2>5, <2>6, ChoiceStays
  <1>5. CASE UNCHANGED vars
    <2>1. UNCHANGED <<choiceState, pc, local, ctxDone, reader>>
      BY <1>5 DEF vars
    <2> QED
      BY <1>0, <2>1, ChoiceStays
  <1>6. CASE Gathered
    <2>1. /\ UNCHANGED <<choiceState, ctxDone>> /\ local' \subseteq Sockets
          /\ pc = "gather" /\ pc' \in {"connect", "return"}
          /\ UNCHANGED reader \/ Start("listener")
      BY <1>0, <1>6 DEF Gathered, Return, At
    <2>2. reader'["probe"] = reader["probe"]
      BY <1>0, <2>1 DEF Start, Kinds
    <2> QED
      BY <1>0, <2>1, <2>2, ChoiceStays
  <1>7. CASE NotConnected \/ NothingHeard
    BY <1>0, <1>7, ChoiceStays DEF NotConnected, NothingHeard, Return, At
  <1>8. CASE ProbeStarts
    <2>1. /\ UNCHANGED <<choiceState, ctxDone, local>>
          /\ pc = "probe" /\ pc' \in {"probing", "probed"}
          /\ UNCHANGED reader \/ Start("probe")
      BY <1>8 DEF ProbeStarts, At
    <2>2. \A t \in Sockets : reader'["probe"][t] = "send" => reader["probe"][t] = "send"
      BY <1>0, <2>1 DEF Start, Kinds
    <2> QED
      BY <1>0, <2>1, <2>2, ChoiceStays
  <1>9. CASE ProbesStopped \/ Negotiated
    BY <1>0, <1>9, ChoiceStays DEF ProbesStopped, Negotiated, Return, At
  <1>10. CASE BindOpens
    <2>1. /\ UNCHANGED <<choiceState, ctxDone, local>>
          /\ pc = "open" /\ pc' = "tunnel" /\ Start("bind")
      BY <1>10 DEF BindOpens, At
    <2>2. reader'["probe"] = reader["probe"]
      BY <1>0, <2>1 DEF Start, Kinds
    <2> QED
      BY <1>0, <2>1, <2>2, ChoiceStays
  <1>11. CASE TunnelEnds \/ Returned
    BY <1>0, <1>11, ChoiceStays DEF TunnelEnds, Returned, At
  <1> QED
    BY <1>1, <1>2, <1>3, <1>4, <1>5, <1>6, <1>7, <1>8, <1>9, <1>10, <1>11

(* CONNECT_RESPONSE: nothing was heard, and nothing chosen, before the     *)
(* relays are known.                                                       *)
LEMMA ConnectedChooses ==
  ASSUME SocketInv, ChoiceInv, Connected
  PROVE  ChoiceInv'
  <1>1. /\ UNCHANGED <<trackerVars, turn, override, local, queue, logVars, probeVars, ctxDone>>
        /\ pc = "connect" /\ endpoint' = override
        /\ pc' = IF override = None THEN "activate" ELSE "stopProbes"
        /\ Start("listener") \/ UNCHANGED reader
        /\ compatible' = compatibleCandidates(Sockets, local, peerCandidates')
    BY DEF Connected, At, flagVars, gatherVars
  <1>2. PICK cands \in Seq(Candidates) : peerCandidates' = PeerCandidates(cands)
    BY DEF Connected
  <1>3. /\ peerCandidates' \in Seq(Candidates)
        /\ turn => \A c \in ToSet(peerCandidates') : c.type = "turn"
    <2>1. PICK relays \in Seq(Candidates) : relays = candidatesOfType(cands, "turn")
      BY FilteredCandidates
    <2>2. \A c \in ToSet(relays) : c.type = "turn"
      BY <2>1, FilteredCandidates
    <2>3. /\ compatibleCandidates(Sockets, local, relays) \in Seq(Candidates)
          /\ ToSet(compatibleCandidates(Sockets, local, relays)) \subseteq ToSet(relays)
      BY FilteredCandidates
    <2>4. peerCandidates' = IF turn THEN compatibleCandidates(Sockets, local, relays) ELSE cands
      BY <1>2, <2>1 DEF PeerCandidates
    <2> QED
      BY <2>2, <2>3, <2>4
  <1>4. /\ compatible' \in Seq(Candidates)
        /\ ToSet(compatible') \subseteq ToSet(peerCandidates')
    BY <1>1, <1>3, FilteredCandidates
  <1>5. /\ peerCandidates = <<>> /\ endpoint = None /\ queue = <<>> /\ bestRank = 0 /\ answered = {}
    BY <1>1 DEF ChoiceInv, CandidatesOK, EndpointOK, QueueOK, ProbeOK
  <1>6. ToSet(<<>>) = {}
    BY DEF ToSet
  <1>7. TrackerOK' /\ LogsOK'
    BY <1>1 DEF ChoiceInv, TrackerOK, LogsOK, LogIsUnread, trackerVars, logVars
  <1>8. CandidatesOK'
    BY <1>1, <1>3, <1>4 DEF CandidatesOK
  <1>9. ProbeOK'
    <2>1. reader'["probe"] = reader["probe"]
      BY <1>1 DEF Start, Kinds, SocketInv, SocketTypes
    <2>2. Len(compatible') \in Nat
      BY <1>4
    <2> QED
      BY <1>1, <1>5, <2>1, <2>2 DEF ChoiceInv, ProbeOK, probeVars
  <1>10. EndpointOK' /\ QueueOK'
    BY <1>1, <1>5, <1>6 DEF ChoiceInv, EndpointOK, QueueOK, logVars
  <1>11. TurnOK' /\ TurnOnlyEndpoint'
    <2>1. Relays = {}
      BY <1>5, <1>6 DEF Relays
    <2> QED
      BY <1>1, <1>3, <1>5, <1>6, <2>1 DEF ChoiceInv, TurnOK, TurnOnlyEndpoint, trackerVars, logVars
  <1>12. BestAnswerWins' /\ RetryQueueComplete'
    BY <1>1 DEF BestAnswerWins, RetryQueueComplete
  <1> QED
    BY <1>7, <1>8, <1>9, <1>10, <1>11, <1>12 DEF ChoiceInv

(* The steps after which the endpoint, or the queue of what was heard, is  *)
(* another: they leave the tracker, the candidates and the log alone.      *)
LEMMA EndpointMoves ==
  ASSUME ChoiceInv,
         UNCHANGED <<trackerVars, turn, override, local, peerCandidates, compatible, logVars,
                     sending, reader, ctxDone>>,
         pc \notin {"gather", "connect"}, pc' \notin {"gather", "connect"},
         pc' \in {"probing", "probed"} => pc = "probing",
         pc' \notin {"probe", "tunnel", "return", "closed"}, LogIsUnread' => LogIsUnread,
         pc \notin {"tunnel", "return", "closed"},
         ProbeOK', EndpointOK', QueueOK', BestAnswerWins', RetryQueueComplete',
         turn => ({endpoint'} \cup ToSet(queue')) \ {None} \subseteq Relays
  PROVE  ChoiceInv'
  <1>1. TrackerOK'
    BY DEF ChoiceInv, TrackerOK, trackerVars
  <1>2. CandidatesOK' /\ LogsOK'
    BY DEF ChoiceInv, CandidatesOK, LogsOK, logVars
  <1>3. TurnOK' /\ TurnOnlyEndpoint'
    <2>1. Relays' = Relays
      BY DEF Relays
    <2> QED
      BY <2>1 DEF ChoiceInv, TurnOK, TurnOnlyEndpoint, trackerVars, logVars
  <1> QED
    BY <1>1, <1>2, <1>3 DEF ChoiceInv

(* The selection is the endpoint; without one, the log is read. *)
LEMMA AwaitChooses ==
  ASSUME ChoiceInv, Await
  PROVE  ChoiceInv'
  <1>1. /\ UNCHANGED <<trackerVars, turn, override, local, peerCandidates, compatible, logVars,
                       sending, reader, ctxDone, queue, responses, bestRank, answered>>
        /\ pc = "await"
        /\ \/ pc' = "logs" /\ endpoint' \in {endpoint, selected}
           \/ pc' = "stopProbes" /\ endpoint' = endpoint
    BY DEF Await, At, flagVars, gatherVars, candVars, socketVars, probeVars
  <1>2. endpoint = None /\ override = None /\ queue = <<>> /\ selected \in Addrs \cup {None}
    BY <1>1 DEF ChoiceInv, EndpointOK, QueueOK, TrackerOK
  <1>3. ToSet(<<>>) = {}
    BY DEF ToSet
  <1>4. ProbeOK'
    BY <1>1 DEF ChoiceInv, ProbeOK
  <1>5. EndpointOK' /\ QueueOK'
    BY <1>1, <1>2 DEF ChoiceInv, EndpointOK, QueueOK, trackerVars, logVars
  <1>6. BestAnswerWins' /\ RetryQueueComplete'
    BY <1>1 DEF BestAnswerWins, RetryQueueComplete
  <1>7. turn => ({endpoint'} \cup ToSet(queue')) \ {None} \subseteq Relays
    BY <1>1, <1>2, <1>3 DEF ChoiceInv, TurnOK
  <1> QED
    BY <1>1, <1>4, <1>5, <1>6, <1>7, EndpointMoves DEF LogIsUnread

(* Without a selection, the first tuple heard is the endpoint. *)
LEMMA ReadLogsChooses ==
  ASSUME ChoiceInv, ReadLogs
  PROVE  ChoiceInv'
  <1>1. /\ UNCHANGED <<trackerVars, turn, override, local, peerCandidates, compatible, logVars,
                       sending, reader, ctxDone, responses, bestRank, answered>>
        /\ pc = "logs" /\ pc' = "stopProbes"
        /\ endpoint # None \/ logs # <<>>
        /\ endpoint' = IF endpoint # None THEN endpoint ELSE Head(logs)
        /\ queue' = Distinct({}, logs)
    BY DEF ReadLogs, Observed, At, flagVars, gatherVars, candVars, socketVars, probeVars
  <1>2. logs \in Seq(Addrs) /\ (logs # <<>> => Head(logs) \in ToSet(logs) /\ Head(logs) \in Addrs)
    BY DEF ChoiceInv, LogsOK, ToSet
  <1>h. ToSet(logs) \subseteq heard /\ (~overflowed => ToSet(logs) = heard)
    BY <1>1 DEF ChoiceInv, LogsOK, LogIsUnread
  <1>3. Distinct({}, logs) \in Seq(Addrs) /\ ToSet(Distinct({}, logs)) = ToSet(logs)
    <2>1. /\ Distinct({}, logs) \in Seq(Addrs)
          /\ ToSet(Distinct({}, logs)) = ToSet(logs) \ ({} \cup {NoAddr})
      BY <1>2, DistinctElements
    <2>2. NoAddr \notin ToSet(logs)
      BY <1>2 DEF ToSet
    <2> QED
      BY <2>1, <2>2
  <1>4. ProbeOK'
    BY <1>1 DEF ChoiceInv, ProbeOK
  <1>5. EndpointOK'
    <2>1. endpoint' \in Addrs
      BY <1>1, <1>2 DEF ChoiceInv, EndpointOK
    <2>2. endpoint' \in {None, override, selected} \cup heard \cup ToSet(Addresses(compatible))
      BY <1>1, <1>2, <1>h DEF ChoiceInv, EndpointOK
    <2> QED
      BY <1>1, <2>1, <2>2 DEF ChoiceInv, EndpointOK, trackerVars, logVars
  <1>6. QueueOK'
    BY <1>1, <1>3, <1>h DEF QueueOK, logVars
  <1>7. BestAnswerWins' /\ RetryQueueComplete'
    BY <1>1 DEF BestAnswerWins, RetryQueueComplete
  <1>8. turn => ({endpoint'} \cup ToSet(queue')) \ {None} \subseteq Relays
    BY <1>1, <1>2, <1>3, <1>h DEF ChoiceInv, TurnOK, TurnOnlyEndpoint
  <1> QED
    BY <1>1, <1>4, <1>5, <1>6, <1>7, <1>8, EndpointMoves DEF LogIsUnread

(* The probe returns one of its targets, or nothing. *)
LEMMA ProbeResult ==
  ASSUME ChoiceInv, pc = "probing", pc' = "probed",
         UNCHANGED <<trackerVars, turn, override, local, peerCandidates, compatible, logVars,
                     sending, reader, ctxDone, queue, bestRank>>,
         endpoint' \in ToSet(Addresses(compatible)) \cup {None},
         responses' \in Seq(Addrs), answered' \subseteq Addrs,
         \A a \in answered' : RankByRemote(compatible, a) # 0,
         answered' # {} => /\ endpoint' \in answered'
                           /\ \A a \in answered' :
                                 RankByRemote(compatible, endpoint') <= RankByRemote(compatible, a)
  PROVE  ChoiceInv'
  <1>1. CandidatesOK /\ TurnOK
    BY DEF ChoiceInv
  <1>2. /\ ToSet(Addresses(compatible)) \subseteq Addrs
        /\ turn => ToSet(Addresses(compatible)) \subseteq Relays
    BY <1>1, RelaysAre
  <1>3. ProbeOK'
    BY DEF ChoiceInv, ProbeOK
  <1>4. EndpointOK' /\ QueueOK'
    BY <1>2 DEF ChoiceInv, EndpointOK, QueueOK, trackerVars, logVars
  <1>5. BestAnswerWins' /\ RetryQueueComplete'
    BY DEF BestAnswerWins, RetryQueueComplete
  <1>6. turn => ({endpoint'} \cup ToSet(queue')) \ {None} \subseteq Relays
    <2>1. queue' = <<>> /\ ToSet(<<>>) = {}
      BY DEF ChoiceInv, QueueOK, ToSet
    <2> QED
      BY <1>2, <2>1
  <1> QED
    BY <1>3, <1>4, <1>5, <1>6, EndpointMoves DEF LogIsUnread

(* An answer is taken: the first target of all ends the probe, another one *)
(* may improve the best rank.                                              *)
LEMMA ProbeTakesChooses ==
  ASSUME ChoiceInv, ProbeTakes
  PROVE  ChoiceInv'
  <1> DEFINE addr == Head(responses)
             rank == RankByRemote(compatible, addr)
  <1>1. /\ addr = Head(responses) /\ rank = RankByRemote(compatible, addr)
        /\ answered' = IF rank = 0 THEN answered ELSE answered \cup {addr}
        /\ bestRank' = IF rank \in {0, 1} THEN bestRank ELSE BetterRank(bestRank, rank)
        /\ IF rank = 1 THEN ProbeReturns(addr) ELSE UNCHANGED <<endpoint, pc, call>>
    BY DEF ProbeTakes
  <1> HIDE DEF rank, addr
  <1>2. /\ UNCHANGED <<trackerVars, turn, override, local, peerCandidates, compatible, logVars,
                       sending, reader, ctxDone, queue>>
        /\ pc = "probing" /\ responses # <<>> /\ responses' = Tail(responses)
    BY DEF ProbeTakes, At, flagVars, gatherVars, candVars, socketVars
  <1>3. /\ responses \in Seq(Addrs) /\ compatible \in Seq(Candidates)
        /\ bestRank \in 0..Len(compatible) /\ answered \subseteq Addrs
        /\ \A a \in answered : RankByRemote(compatible, a) # 0
        /\ answered = {} <=> bestRank = 0
        /\ bestRank # 0 => compatible[bestRank].addr \in answered
        /\ \A a \in answered : bestRank <= RankByRemote(compatible, a)
        /\ bestRank # 0 => RankByRemote(compatible, compatible[bestRank].addr) = bestRank
    BY <1>2 DEF ChoiceInv, ProbeOK, CandidatesOK
  <1>4. addr \in Addrs /\ responses' \in Seq(Addrs) /\ Len(compatible) \in Nat
    BY <1>1, <1>2, <1>3
  <1>5. \A a : /\ RankByRemote(compatible, a) \in 0..Len(compatible)
               /\ RankByRemote(compatible, a) # 0 => compatible[RankByRemote(compatible, a)].addr = a
               /\ RankByRemote(compatible, a) # 0 <=> a \in ToSet(Addresses(compatible))
    BY <1>3, RankOfRemote
  <1>6. answered' \subseteq Addrs /\ \A a \in answered' : RankByRemote(compatible, a) # 0
    BY <1>1, <1>3, <1>4
  <1>7. CASE rank = 1
    <2>1. pc' = "probed" /\ endpoint' = addr /\ bestRank' = bestRank /\ answered' = answered \cup {addr}
      BY <1>1, <1>7 DEF ProbeReturns
    <2>2. addr \in ToSet(Addresses(compatible))
      BY <1>1, <1>5, <1>7
    <2>3. \A a \in answered' : RankByRemote(compatible, addr) <= RankByRemote(compatible, a)
      <3> SUFFICES ASSUME NEW a \in answered'
                   PROVE  1 <= RankByRemote(compatible, a)
        BY <1>1, <1>7
      <3>1. RankByRemote(compatible, a) \in 0..Len(compatible) /\ RankByRemote(compatible, a) # 0
        BY <1>5, <1>6
      <3> QED
        BY <1>4, <3>1
    <2> QED
      BY <1>2, <1>4, <1>6, <2>1, <2>2, <2>3, ProbeResult
  <1>8. CASE rank # 1
    <2>1. UNCHANGED <<endpoint, pc>>
      BY <1>1, <1>8
    <2>2. ProbeOK'
      <3>1. CASE rank = 0
        <4>1. UNCHANGED <<answered, bestRank>>
          BY <1>1, <3>1
        <4> QED
          BY <1>2, <1>4, <2>1, <4>1 DEF ChoiceInv, ProbeOK
      <3>2. CASE rank # 0
        <4>1. /\ answered' = answered \cup {addr}
              /\ bestRank' = IF bestRank = 0 \/ rank < bestRank THEN rank ELSE bestRank
              /\ rank \in 1..Len(compatible) /\ compatible[rank].addr = addr
          BY <1>1, <1>4, <1>5, <1>8, <3>2 DEF BetterRank
        <4>2. bestRank' \in 1..Len(compatible) /\ bestRank' <= rank
          BY <1>3, <1>4, <4>1
        <4>3. \A a \in answered' : bestRank' <= RankByRemote(compatible, a)
          <5> SUFFICES ASSUME NEW a \in answered'
                       PROVE  bestRank' <= RankByRemote(compatible, a)
            OBVIOUS
          <5>1. CASE a = addr
            BY <1>1, <4>2, <5>1
          <5>2. CASE a \in answered
            <6>1. /\ bestRank # 0 /\ bestRank <= RankByRemote(compatible, a)
                  /\ RankByRemote(compatible, a) \in 0..Len(compatible)
              BY <1>3, <1>5, <5>2
            <6>2. bestRank' <= bestRank
              BY <1>3, <1>4, <4>1, <6>1
            <6> QED
              BY <1>3, <1>4, <4>2, <6>1, <6>2
          <5> QED
            BY <4>1, <5>1, <5>2
        <4>4. /\ compatible[bestRank'].addr \in answered'
              /\ RankByRemote(compatible, compatible[bestRank'].addr) = bestRank'
          BY <1>1, <1>3, <4>1
        <4>5. bestRank' # 0 /\ bestRank' \in 0..Len(compatible) /\ answered' # {}
          BY <1>4, <4>1, <4>2
        <4>6. /\ sending' \in [Sockets -> Addrs \cup {None}]
              /\ \A s \in Sockets : reader'["probe"][s] = "send" => sending'[s] \in Addrs
          BY <1>2 DEF ChoiceInv, ProbeOK
        <4> QED
          BY <1>2, <1>4, <1>6, <2>1, <4>3, <4>4, <4>5, <4>6 DEF ProbeOK
      <3> QED
        BY <3>1, <3>2
    <2>3. EndpointOK' /\ QueueOK'
      BY <1>2, <2>1 DEF ChoiceInv, EndpointOK, QueueOK, trackerVars, logVars
    <2>4. BestAnswerWins' /\ RetryQueueComplete'
      BY <1>2, <2>1 DEF BestAnswerWins, RetryQueueComplete
    <2>5. turn => ({endpoint'} \cup ToSet(queue')) \ {None} \subseteq Relays
      BY <1>2, <2>1 DEF ChoiceInv, TurnOnlyEndpoint
    <2> QED
      BY <1>2, <2>1, <2>2, <2>3, <2>4, <2>5, EndpointMoves DEF LogIsUnread
  <1> QED
    BY <1>7, <1>8

(* A timer ends the probe: with its best answer, or with a guess. *)
LEMMA ProbeTimersChoose ==
  ASSUME ChoiceInv, GraceEnds \/ ProbeTimesOut
  PROVE  ChoiceInv'
  <1>1. /\ UNCHANGED <<trackerVars, turn, override, local, peerCandidates, compatible, logVars,
                       sending, reader, ctxDone, queue, responses, bestRank, answered>>
        /\ pc = "probing" /\ pc' = "probed"
        /\ endpoint' = IF bestRank # 0 THEN compatible[bestRank].addr ELSE guessCandidate(compatible)
    BY DEF GraceEnds, ProbeTimesOut, ProbeReturns, At, flagVars, gatherVars, candVars, socketVars,
           probeVars
  <1>2. /\ responses \in Seq(Addrs) /\ compatible \in Seq(Candidates) /\ answered \subseteq Addrs
        /\ bestRank \in 0..Len(compatible)
        /\ \A a \in answered : RankByRemote(compatible, a) # 0
        /\ answered = {} <=> bestRank = 0
        /\ bestRank # 0 => compatible[bestRank].addr \in answered
        /\ \A a \in answered : bestRank <= RankByRemote(compatible, a)
        /\ bestRank # 0 => RankByRemote(compatible, compatible[bestRank].addr) = bestRank
    BY <1>1 DEF ChoiceInv, ProbeOK, CandidatesOK
  <1>3. guessCandidate(compatible) \in ToSet(Addresses(compatible)) \cup {None}
    BY <1>2, GuessIsTarget
  <1>4. \A a \in answered : a \in ToSet(Addresses(compatible))
    BY <1>2, RankOfRemote
  <1>5. endpoint' \in ToSet(Addresses(compatible)) \cup {None}
    BY <1>1, <1>2, <1>3, <1>4
  <1>6. answered' # {} => /\ endpoint' \in answered'
                          /\ \A a \in answered' :
                                RankByRemote(compatible, endpoint') <= RankByRemote(compatible, a)
    BY <1>1, <1>2
  <1> QED
    BY <1>1, <1>2, <1>5, <1>6, ProbeResult

(* After the probe; an interrupted one has no result. *)
LEMMA ProbedChooses ==
  ASSUME ChoiceInv, Probed
  PROVE  ChoiceInv'
  <1>1. /\ UNCHANGED <<trackerVars, turn, override, local, peerCandidates, compatible, logVars,
                       sending, reader, ctxDone, queue>>
        /\ pc = "probed" /\ pc' = "stopProbes" /\ endpoint' \in {endpoint, None}
        /\ responses' = <<>> /\ bestRank' = 0 /\ answered' = {}
    BY DEF Probed, At, flagVars, gatherVars, candVars, socketVars
  <1>2. /\ overflowed \/ heard = {}
        /\ queue = <<>> /\ ToSet(<<>>) = {} /\ compatible \in Seq(Candidates)
    BY <1>1 DEF ChoiceInv, LogsOK, QueueOK, CandidatesOK, ToSet
  <1>3. ProbeOK'
    <2>1. Len(compatible') \in Nat /\ responses' \in Seq(Addrs)
      BY <1>1, <1>2
    <2> QED
      BY <1>1, <2>1 DEF ChoiceInv, ProbeOK
  <1>4. EndpointOK' /\ QueueOK'
    BY <1>1, <1>2 DEF ChoiceInv, EndpointOK, QueueOK, trackerVars, logVars
  <1>5. BestAnswerWins' /\ RetryQueueComplete'
    BY <1>1 DEF BestAnswerWins, RetryQueueComplete
  <1>6. turn => ({endpoint'} \cup ToSet(queue')) \ {None} \subseteq Relays
    BY <1>1 DEF ChoiceInv, TurnOnlyEndpoint
  <1> QED
    BY <1>1, <1>3, <1>4, <1>5, <1>6, EndpointMoves DEF LogIsUnread

(* The retry queue is built from what was heard and what is compatible. *)
LEMMA ChosenQueues ==
  ASSUME ChoiceInv, Chosen
  PROVE  ChoiceInv'
  <1>1. /\ UNCHANGED <<trackerVars, turn, override, local, peerCandidates, compatible, logVars,
                       sending, reader, ctxDone, endpoint, responses, bestRank, answered>>
        /\ pc = "chosen" /\ pc' = "negotiated"
        /\ queue' = buildCandidateRetryQueue(endpoint, queue, compatible)
    BY DEF Chosen, At, flagVars, gatherVars, candVars, socketVars, probeVars
  <1>2. /\ endpoint # None /\ queue \in Seq(Addrs) /\ ToSet(queue) \subseteq heard
        /\ override = None /\ ~overflowed => ToSet(queue) = heard
        /\ compatible \in Seq(Candidates) /\ CandidatesOK /\ TurnOK
    BY <1>1 DEF ChoiceInv, EndpointOK, QueueOK, CandidatesOK
  <1>3. /\ queue' \in Seq(Addrs)
        /\ ToSet(queue') = (ToSet(queue) \cup ToSet(Addresses(compatible))) \ {endpoint}
        /\ \A i, j \in DOMAIN queue' : i < j =>
              queue'[i] # queue'[j] /\ (queue'[j] \in ToSet(queue) => queue'[i] \in ToSet(queue))
    <2>1. NoAddr \notin Addrs
      OBVIOUS
    <2> QED
      BY <1>1, <1>2, <2>1, RetryQueueOf
  <1>4. ProbeOK'
    BY <1>1 DEF ChoiceInv, ProbeOK
  <1>5. EndpointOK' /\ QueueOK'
    BY <1>1, <1>3 DEF ChoiceInv, EndpointOK, QueueOK, trackerVars, logVars
  <1>6. BestAnswerWins'
    BY <1>1 DEF BestAnswerWins
  <1>7. RetryQueueComplete'
    <2>1. endpoint \in ToSet(Addresses(compatible)) \cup heard \cup {override, selected}
      BY <1>2 DEF ChoiceInv, EndpointOK
    <2> QED
      BY <1>1, <1>2, <1>3, <2>1 DEF RetryQueueComplete, trackerVars, logVars
  <1>8. turn => ({endpoint'} \cup ToSet(queue')) \ {None} \subseteq Relays
    <2>1. turn => ToSet(Addresses(compatible)) \subseteq Relays /\ ToSet(queue) \subseteq Relays
      BY <1>2, RelaysAre DEF TurnOK
    <2> QED
      BY <1>1, <1>3, <2>1 DEF ChoiceInv, TurnOnlyEndpoint
  <1> QED
    BY <1>1, <1>4, <1>5, <1>6, <1>7, <1>8, EndpointMoves DEF LogIsUnread

(* At the start nothing is heard or chosen. *)
LEMMA ChoiceInit == Init => ChoiceInv
  <1> SUFFICES ASSUME Init
               PROVE  ChoiceInv
    OBVIOUS
  <1>1. WaitCount \in Nat
    BY WaitSeqAssumption DEF WaitCount
  <1>2. ToSet(<<>>) = {} /\ Len(<<>>) = 0
    BY DEF ToSet
  <1>3. TrackerOK
    <2>1. nextWait = [a \in Addrs |-> 0] /\ active = FALSE /\ selected = None /\ closes = 0
      BY DEF Init, newNominationTracker
    <2>2. nextWait \in [Addrs -> 0..WaitCount]
      BY <1>1, <2>1
    <2>3. active \in BOOLEAN /\ (selected # None => active)
      BY <2>1
    <2>4. closes \in 0..1 /\ (closes = 1 <=> selected # None)
      BY <2>1
    <2> QED
      BY <2>1, <2>2, <2>3, <2>4 DEF TrackerOK
  <1>4. CandidatesOK /\ LogsOK
    <2>1. overflowed \in BOOLEAN
      BY DEF Init
    <2> QED
      BY <1>2, <2>1 DEF Init, CandidatesOK, LogsOK, LogIsUnread
  <1>5. ProbeOK
    BY <1>2 DEF Init, ProbeOK, Kinds
  <1>6. EndpointOK /\ QueueOK
    <2>1. /\ override \in Addrs \cup {None} /\ local = {} /\ endpoint = None /\ queue = <<>>
          /\ pc = "gather"
      BY DEF Init
    <2>2. ctxDone \in BOOLEAN
      BY DEF Init
    <2> QED
      BY <2>1, <2>2 DEF EndpointOK, QueueOK
  <1>7. TurnOK /\ TurnOnlyEndpoint
    BY <1>2 DEF Init, newNominationTracker, TurnOK, TurnOnlyEndpoint
  <1>8. BestAnswerWins /\ RetryQueueComplete
    BY DEF Init, BestAnswerWins, RetryQueueComplete
  <1> QED
    BY <1>3, <1>4, <1>5, <1>6, <1>7, <1>8 DEF ChoiceInv

(* Every step keeps to what was heard, probed and advertised. *)
LEMMA ChoiceStep == SocketInv /\ ChoiceInv /\ [Next]_vars => ChoiceInv'
  <1> SUFFICES ASSUME SocketInv, ChoiceInv, [Next]_vars
               PROVE  ChoiceInv'
    OBVIOUS
  <1>1. CASE Attempt
    <2>1. CASE \/ StopSteps \/ DiscoveryReturns \/ \E s \in Sockets : DiscoveryStarts(s)
               \/ Gathered \/ NotConnected \/ NothingHeard \/ ProbeStarts \/ ProbesStopped
               \/ Negotiated \/ BindOpens \/ Returned
      BY <2>1, IdleStepsKeep
    <2>2. CASE Connected
      BY <2>2, ConnectedChooses
    <2>3. CASE Activate
      BY <2>3, ActivateKeeps
    <2>4. CASE Await
      BY <2>4, AwaitChooses
    <2>5. CASE ReadLogs
      BY <2>5, ReadLogsChooses
    <2>6. CASE ProbeTakes
      BY <2>6, ProbeTakesChooses
    <2>7. CASE GraceEnds
      BY <2>7, ProbeTimersChoose
    <2>8. CASE Probed
      BY <2>8, ProbedChooses
    <2>9. CASE Chosen
      BY <2>9, ChosenQueues
    <2> QED
      BY <1>1, <2>1, <2>2, <2>3, <2>4, <2>5, <2>6, <2>7, <2>8, <2>9 DEF Attempt
  <1>2. CASE ProbeTimesOut
    BY <1>2, ProbeTimersChoose
  <1>3. CASE \E s \in Sockets : ReaderGoesOn(s)
    BY <1>3, IdleStepsKeep, ProbeReadersKeep DEF ReaderGoesOn
  <1>4. CASE TunnelEnds \/ ProberExits \/ Interrupt \/ \E s \in Sockets : DeadlinePasses(s)
    BY <1>4, IdleStepsKeep
  <1>5. CASE \E a \in Addrs, w \in Waits : ListenerHears(a, w)
    BY <1>5, ListenerHearsKeeps
  <1>6. CASE \E a \in Addrs : ProbeHears(a)
    BY <1>6, ProbeReadersKeep
  <1>7. CASE \E a \in Addrs, w \in Waits : BindHears(a, w)
    BY <1>7, BindHearsKeeps
  <1>8. CASE Finished \/ UNCHANGED vars
    <2>1. UNCHANGED vars
      BY <1>8 DEF Finished
    <2> QED
      BY <2>1, IdleStepsKeep
  <1> QED
    BY <1>1, <1>2, <1>3, <1>4, <1>5, <1>6, <1>7, <1>8 DEF Next

(* Endpoint and queue come from what was heard, probed and advertised. *)
THEOREM ChoiceInvariance == Spec => []ChoiceInv
  BY SocketInvariance, ChoiceInit, ChoiceStep, PTL DEF Spec

(* Type correctness of the connection attempt *)
THEOREM TypeCorrect == Spec => []TypeOK
  <1>1. SocketInv /\ ChoiceInv => TypeOK
    <2> SUFFICES ASSUME SocketInv, ChoiceInv
                 PROVE  TypeOK
      OBVIOUS
    <2>1. SocketTypes
      BY DEF SocketInv
    <2>2. TrackerOK /\ CandidatesOK /\ LogsOK /\ ProbeOK /\ EndpointOK /\ QueueOK
      BY DEF ChoiceInv
    <2> QED
      BY <2>1, <2>2 DEF SocketTypes, TrackerOK, CandidatesOK, LogsOK, ProbeOK, EndpointOK,
                        QueueOK, TypeOK
  <1> QED
    BY <1>1, SocketInvariance, ChoiceInvariance, PTL

(* With --turn the endpoint and every tuple of the retry queue are relays, *)
(* whichever way negotiateEndpoint found them.                             *)
THEOREM TurnOnly == Spec => []TurnOnlyEndpoint
  <1>1. ChoiceInv => TurnOnlyEndpoint
    BY DEF ChoiceInv
  <1> QED
    BY <1>1, ChoiceInvariance, PTL

(* probeCandidates returns the best-ranked of the answers it took, in      *)
(* whatever order they and its timers came.                                *)
THEOREM BestAnswer == Spec => []BestAnswerWins
  <1>1. ChoiceInv => BestAnswerWins
    BY DEF ChoiceInv
  <1> QED
    BY <1>1, ChoiceInvariance, PTL

(* The tunnel gets every compatible candidate once, and besides only       *)
(* tuples heard: all of these, and first, unless an endpoint was given or  *)
(* the log overflowed.                                                     *)
THEOREM QueueComplete == Spec => []RetryQueueComplete
  <1>1. ChoiceInv => RetryQueueComplete
    BY DEF ChoiceInv
  <1> QED
    BY <1>1, ChoiceInvariance, PTL
================================================================================
