-------------------------- MODULE ProxyTraffic_proofs --------------------------
(***************************************************************************)
(* For any number of DNS servers and rounds, any MTUs and any size of the  *)
(* queue and the event channel: the pinger never meets a closed channel,   *)
(* wireguard-go learns every MTU, and a lookup decides by what its lanes   *)
(* have got.                                                               *)
(***************************************************************************)
EXTENDS ProxyTraffic, TLAPS

(* The types of the variables that the two arguments need *)
Types ==
    /\ closing \in 0..5
    /\ sender \in [Senders -> {"idle", "notify", "deliver"}]
    /\ setMTU \in {"idle", "stored", "set"}
    /\ events \in Seq({"up", "mtu"})
    /\ pinger \in {"run", "done"}

(* The device closes only after the join, *)
ClosesAfterJoin ==
    /\ closing > 0 => main \in {"devClose", "returned"}
    /\ main \in {"devClose", "returned"} => pinger = "done"

(* and a pinger that has returned holds no packet and sets no MTU. *)
PingerGone == pinger = "done" => sender["pinger"] = "idle" /\ setMTU = "idle"

(* Only the first event can be EventUp: a full channel has an MTU event. *)
UpFirst == \A i \in DOMAIN events : i > 1 => events[i] = "mtu"

JoinInv == Types /\ ClosesAfterJoin /\ PingerGone /\ WorkersNeverPanic
MTUInv == Types /\ UpFirst /\ WireGuardLearnsMTU

(* A lane that asks has got no answer so far: in its round, the servers    *)
(* before the one it asks have failed once more than the others.           *)
AskingLane(f) ==
    /\ lane[f].server \in 1..setup.servers
    /\ lane[f].err = "none" /\ ~lane[f].garbled /\ lane[f].found = {}
    /\ \A s \in 1..setup.servers :
           failures[f][s] = IF s < lane[f].server THEN lane[f].round ELSE lane[f].round - 1

(* One that is done was denied the name, has an answer, which cannot be    *)
(* read if it has no address, or saw every server fail in every round.     *)
DoneLane(f) ==
    \/ lane[f].err = "notFound"
    \/ lane[f].err = "none" /\ (lane[f].garbled \/ lane[f].found # {})
    \/ lane[f].err = "failed" /\ \A s \in 1..setup.servers : failures[f][s] = Rounds

LookupTypes ==
    /\ setup \in Setups
    /\ handler \in {"none", "accepted", "lookup", "resolve", "dial", "connect", "relay"}
    /\ lane \in [Families -> Lane]
    /\ lastErr \in {"none", "notFound", "failed"}
    /\ addrs \subseteq Families
    /\ failures \in [Families -> [1..setup.servers -> Nat]]

(* The lanes of a lookup are those of the tunnel's families, ... *)
LanesOK ==
    \A f \in Families :
        /\ lane[f].pc \in {"ask", "wait"} => AskingLane(f)
        /\ lane[f].pc \in {"done", "taken"} => DoneLane(f)
        /\ lane[f].pc # "off" <=> handler \in {"lookup", "resolve"} /\ f \in setup.families
        /\ handler = "resolve" /\ f \in setup.families => lane[f].pc = "taken"

(* ... and what the lookup has so far is what it took from them. *)
TakenOK ==
    /\ \A f \in Families : lane[f].pc = "taken" =>
           lane[f].found \subseteq addrs /\ (addrs = {} => lastErr # "none")
    /\ lastErr = "notFound" =>
           \E f \in setup.families : lane[f].pc = "taken" /\ lane[f].err = "notFound"
    /\ handler = "lookup" => setup.families # {}
    /\ handler = "resolve" => setup.families # {}
    /\ handler \notin {"lookup", "resolve"} =>
           /\ addrs = {} /\ lastErr = "none"
           /\ failures = [f \in Families |-> NoFailures]

LookupInv == LookupTypes /\ LanesOK /\ TakenOK

USE NetTunAssumption, SetupsAssumption

(* Both invariants hold when the tunnel is up: nothing is closed, and      *)
(* wireguard-go starts with the device's MTU.                              *)
LEMMA Initially == Init => JoinInv /\ MTUInv
  BY DEF Init, CreateNetTUN, JoinInv, MTUInv, Types, ClosesAfterJoin, PingerGone,
         WorkersNeverPanic, UpFirst, WireGuardLearnsMTU

(* What only a request does leaves the invariants' variables alone, but    *)
(* for the packet a goroutine other than the pinger may send.              *)
LEMMA RequestSteps ==
  ASSUME Types, Client \/ Handler \/ \E f \in Families : Lookup(f)
  PROVE  /\ UNCHANGED <<closing, mtuVars, panicked, mainVars>>
         /\ sender' \in [Senders -> {"idle", "notify", "deliver"}]
         /\ sender'["pinger"] = sender["pinger"]
  <1> USE DEF packetVars, mtuVars, netTunVars, mainVars, requestVars, Types, Enqueue
  <1>1. CASE Client
    BY <1>1 DEF Client, Accept, Request, Rejected, Relays, RelayEnds
  <1>2. CASE Handler
    BY <1>2 DEF Handler, HandlerStep, LookupTakes, LookupReturns, Resolve, Dials,
                Connects, DialFails
  <1>3. ASSUME NEW f \in Families, Lookup(f)
        PROVE  /\ UNCHANGED <<closing, mtuVars, panicked, mainVars>>
               /\ sender' \in [Senders -> {"idle", "notify", "deliver"}]
               /\ sender'["pinger"] = sender["pinger"]
    BY <1>3 DEF Lookup, LaneStep, LaneAsks, LaneFails, LaneAnswered, Families
  <1> QED
    BY <1>1, <1>2, <1>3

(* A step of the tunnel keeps the order of its shutdown: what the pinger   *)
(* may do ends with the join, and closing begins after it.                 *)
LEMMA JoinStep == JoinInv /\ [Next]_vars => JoinInv'
  <1> SUFFICES ASSUME JoinInv, [Next]_vars
               PROVE  JoinInv'
    OBVIOUS
  <1> USE DEF JoinInv, Types, ClosesAfterJoin, PingerGone, WorkersNeverPanic,
              packetVars, mtuVars, netTunVars, mainVars, requestVars,
              NICRemoved, NotifyRemoved, EndpointClosed, EventsClosed, Closed
  <1>1. CASE Client \/ Handler \/ \E f \in Families : Lookup(f)
    BY <1>1, RequestSteps
  <1>2. ASSUME NEW p \in Senders, Sender(p)
        PROVE  JoinInv'
    <2> UNCHANGED <<mainVars, requestVars>>
      BY <1>2 DEF Sender
    <2>1. CASE WriteNotify(p)
      BY <2>1 DEF WriteNotify
    <2>2. CASE Deliver(p)
      BY <2>2 DEF Deliver
    <2>3. CASE DeliverPanics(p)
      <3>1. p # "pinger"
        BY <2>3 DEF DeliverPanics
      <3> QED
        BY <2>3, <3>1 DEF DeliverPanics
    <2> QED
      BY <1>2, <2>1, <2>2, <2>3 DEF Sender, SenderSteps
  <1>3. CASE Setting
    BY <1>3 DEF Setting, SetterSteps, SetNICMTU, SendEvent, Room, Running
  <1>4. CASE TUNReader
    BY <1>4 DEF TUNReader, Read
  <1>5. CASE EventReader
    BY <1>5 DEF EventReader, EventSteps, TakeEvent, MTU, EventsEnd
  <1>6. CASE Pinger
    BY <1>6 DEF Pinger, PingerSends, PingerSetsMTU, PingerReturns, Enqueue, SetMTU
  <1>7. CASE Main
    BY <1>7 DEF Main, MainStep, Leave, ServeReturns, ProxyClosed, WorkersDone, Joined,
                DevCloses, Close, Returned
  <1>8. CASE Finished \/ UNCHANGED vars
    BY <1>8 DEF Finished, vars
  <1> QED
    BY <1>1, <1>2, <1>3, <1>4, <1>5, <1>6, <1>7, <1>8 DEF Next

(* WorkersNeverPanic: no packet and no MTU event of the pinger meets a     *)
(* channel that netTun.Close has closed, as runTunnel joins it before.     *)
THEOREM WorkersSafe == Spec => []WorkersNeverPanic
  <1>1. Init => JoinInv
    BY Initially
  <1>2. JoinInv => WorkersNeverPanic
    BY DEF JoinInv
  <1> QED
    BY <1>1, <1>2, JoinStep, PTL DEF Spec

--------------------------------------------------------------------------------
(* A step keeps an MTU event on its way to wireguard-go as long as its MTU *)
(* is not the device's: one that a full channel drops has one before it.   *)
LEMMA MTUStep == JoinInv /\ MTUInv /\ [Next]_vars => MTUInv'
  <1> SUFFICES ASSUME JoinInv, MTUInv, [Next]_vars
               PROVE  UpFirst' /\ WireGuardLearnsMTU'
    BY JoinStep DEF MTUInv, JoinInv
  <1> USE DEF MTUInv, Types, UpFirst, WireGuardLearnsMTU,
              packetVars, mtuVars, netTunVars, mainVars, requestVars
  <1>a. CASE UNCHANGED <<closing, mtuVars>>
    BY <1>a DEF NICRemoved
  <1>1. CASE Client \/ Handler \/ \E f \in Families : Lookup(f)
    BY <1>1, <1>a, RequestSteps
  <1>2. ASSUME NEW p \in Senders, Sender(p)
        PROVE  UNCHANGED <<closing, mtuVars>>
    BY <1>2 DEF Sender, SenderSteps, WriteNotify, Deliver, DeliverPanics
  <1>3. CASE Running /\ SetNICMTU
    BY <1>3 DEF SetNICMTU, NICRemoved
  <1>4. CASE Running /\ SendEvent
    <2>1. CASE events' = Append(events, "mtu")
      <3>1. /\ Len(events') = Len(events) + 1
            /\ events'[Len(events) + 1] = "mtu"
            /\ \A i \in 1..Len(events) : events'[i] = events[i]
        BY <2>1
      <3>2. DOMAIN events' = 1..(Len(events) + 1) /\ DOMAIN events = 1..Len(events)
        BY <3>1, <2>1
      <3> QED
        BY <3>1, <3>2, <2>1
    <2>2. CASE events' = events /\ ~Room
      <3>1. 2 \in DOMAIN events
        BY <2>2 DEF Room
      <3> QED
        BY <2>2, <3>1
    <2>3. CASE events' = events /\ EventsClosed
      BY <1>4, <2>3 DEF SendEvent, EventsClosed, NICRemoved
    <2> QED
      BY <1>4, <2>1, <2>2, <2>3 DEF SendEvent
  <1>5. CASE TUNReader
    BY <1>5, <1>a DEF TUNReader, Read
  <1>6. CASE Running /\ TakeEvent
    <2>1. /\ Len(events') = Len(events) - 1
          /\ \A i \in 1..(Len(events) - 1) : events'[i] = events[i + 1]
      BY <1>6 DEF TakeEvent
    <2>2. /\ DOMAIN events' = 1..(Len(events) - 1)
          /\ DOMAIN events = 1..Len(events)
      BY <1>6, <2>1 DEF TakeEvent
    <2>3. UpFirst'
      BY <2>1, <2>2, SMTT(30)
    <2>4. WireGuardLearnsMTU'
      <3>1. UNCHANGED <<mtu, setMTU, wgMTU, closing>> /\ eventReader = "range"
        BY <1>6 DEF TakeEvent
      <3>2. CASE Head(events) = "mtu"
        BY <1>6, <3>2 DEF TakeEvent
      <3>3. ASSUME Head(events) # "mtu", NEW i \in DOMAIN events, events[i] = "mtu"
            PROVE  i - 1 \in DOMAIN events' /\ events'[i - 1] = "mtu"
        BY <2>1, <2>2, <3>3
      <3> QED
        BY <3>1, <3>2, <3>3 DEF NICRemoved
    <2> QED
      BY <2>3, <2>4
  <1>7. CASE Running /\ MTU
    BY <1>7 DEF MTU
  <1>8. CASE Running /\ EventsEnd
    BY <1>8 DEF EventsEnd, NICRemoved
  <1>9. CASE Pinger
    BY <1>9 DEF Pinger, PingerSends, PingerSetsMTU, PingerReturns, Enqueue, SetMTU, NICRemoved
  <1>10. CASE Main
    BY <1>10 DEF Main, MainStep, Leave, ServeReturns, ProxyClosed, WorkersDone,
                 DevCloses, Close, Returned, NICRemoved
  <1>11. CASE Finished \/ UNCHANGED vars
    BY <1>11, <1>a DEF Finished, vars
  <1> QED
    BY <1>1, <1>2, <1>a, <1>3, <1>4, <1>5, <1>6, <1>7, <1>8, <1>9, <1>10, <1>11
       DEF Next, Setting, SetterSteps, EventReader, EventSteps

(* WireGuardLearnsMTU: whatever the sizes and the MTUs, an MTU that SetMTU *)
(* stored is wireguard-go's, or an event that makes it so is on its way.   *)
THEOREM MTULearned == Spec => []WireGuardLearnsMTU
  <1>1. Init => JoinInv /\ MTUInv
    BY Initially
  <1>2. MTUInv => WireGuardLearnsMTU
    BY DEF MTUInv
  <1> QED
    BY <1>1, <1>2, JoinStep, MTUStep, PTL DEF Spec

--------------------------------------------------------------------------------
(* A lookup *)

(* The families and the number of servers of a tunnel *)
LEMMA SetupFacts ==
  ASSUME LookupTypes
  PROVE  setup.families \subseteq Families /\ setup.servers \in Nat
  BY DEF LookupTypes

(* NextServer goes on to the next server, to the next round, or gives up   *)
(* after the last server of the last round.                                *)
LEMMA NextServerIs ==
  ASSUME NEW l \in Lane, NEW n \in Nat, l.server \in 1..n, NEW m, m = NextServer(l, n)
  PROVE  /\ m \in Lane /\ m.proto = "udp"
         /\ \/ /\ m.pc = "ask" /\ m.err = l.err /\ m.garbled = l.garbled /\ m.found = l.found
               /\ \/ l.server < n /\ m.server = l.server + 1 /\ m.round = l.round
                  \/ l.server = n /\ m.server = 1 /\ m.round = l.round + 1
            \/ /\ l.server = n /\ l.round = Rounds
               /\ m.pc = "done" /\ m.err = "failed"
  <1> USE RoundsAssumption
  <1>1. /\ l.round \in 1..Rounds /\ l.server \in Nat /\ n \in Nat /\ Rounds \in Nat
        /\ l.err \in {"none", "notFound", "failed"} /\ l.garbled \in BOOLEAN /\ l.found \in SUBSET Families
    BY DEF Lane
  <1>2. CASE l.server < n
    <2>1. m = [l EXCEPT !.pc = "ask", !.server = l.server + 1, !.proto = "udp"]
      BY <1>2 DEF NextServer
    <2>2. PICK k \in Nat : k = l.server + 1
      BY <1>1
    <2>3. m = [l EXCEPT !.pc = "ask", !.server = k, !.proto = "udp"]
      BY <2>1, <2>2
    <2>4. m \in Lane /\ m.pc = "ask" /\ m.server = k /\ m.round = l.round /\ m.err = l.err
          /\ m.proto = "udp" /\ m.garbled = l.garbled /\ m.found = l.found
      BY <2>3 DEF Lane
    <2> QED
      BY <1>2, <2>2, <2>4
  <1>3. CASE l.server = n /\ l.round < Rounds
    <2>1. m = [l EXCEPT !.pc = "ask", !.round = l.round + 1, !.server = 1, !.proto = "udp"]
      BY <1>1, <1>3 DEF NextServer
    <2>2. PICK k \in 1..Rounds : k = l.round + 1
      BY <1>1, <1>3
    <2>3. m = [l EXCEPT !.pc = "ask", !.round = k, !.server = 1, !.proto = "udp"]
      BY <2>1, <2>2
    <2>4. m = [pc |-> "ask", round |-> k, server |-> 1, proto |-> "udp", err |-> l.err,
               garbled |-> l.garbled, found |-> l.found]
      BY <2>3 DEF Lane
    <2>5. m \in Lane
      BY <1>1, <2>4 DEF Lane
    <2> QED
      BY <1>3, <2>2, <2>4, <2>5
  <1>4. CASE l.server = n /\ l.round = Rounds
    <2>1. m = Failed("failed")
      BY <1>1, <1>4 DEF NextServer
    <2>2. m = [pc |-> "done", round |-> 1, server |-> 1, proto |-> "udp", err |-> "failed",
               garbled |-> FALSE, found |-> {}]
      BY <2>1 DEF Failed, NoLane
    <2>3. FALSE \in BOOLEAN /\ 1 \in 1..Rounds /\ {} \in SUBSET Families
      BY <1>1
    <2>4. m \in Lane /\ m.pc = "done" /\ m.err = "failed" /\ m.proto = "udp"
      BY <2>2, <2>3 DEF Lane
    <2> QED
      BY <1>4, <2>4
  <1> QED
    BY <1>1, <1>2, <1>3, <1>4

(* A step of one lane that was asking *)
LEMMA LaneMoves ==
  ASSUME LookupInv, NEW f \in Families, lane[f].pc \in {"ask", "wait"},
         NEW l \in Lane, lane' = [lane EXCEPT ![f] = l],
         NEW row \in [1..setup.servers -> Nat], failures' = [failures EXCEPT ![f] = row],
         UNCHANGED <<setup, handler, lastErr, addrs>>,
         l.pc \in {"ask", "wait", "done"},
         l.pc \in {"ask", "wait"} =>
            /\ l.server \in 1..setup.servers
            /\ l.err = "none" /\ ~l.garbled /\ l.found = {}
            /\ \A s \in 1..setup.servers :
                  row[s] = IF s < l.server THEN l.round ELSE l.round - 1,
         l.pc = "done" =>
            \/ l.err = "notFound"
            \/ l.err = "none" /\ (l.garbled \/ l.found # {})
            \/ l.err = "failed" /\ \A s \in 1..setup.servers : row[s] = Rounds
  PROVE  LookupInv'
  <1>1. LookupTypes /\ LanesOK /\ TakenOK
    BY DEF LookupInv
  <1>2. lane \in [Families -> Lane] /\ failures \in [Families -> [1..setup.servers -> Nat]]
    BY <1>1 DEF LookupTypes
  <1>3. /\ lane' \in [Families -> Lane] /\ lane'[f] = l
        /\ \A g \in Families : g # f => lane'[g] = lane[g]
    BY <1>2
  <1>4. /\ failures' \in [Families -> [1..setup.servers -> Nat]] /\ failures'[f] = row
        /\ \A g \in Families : g # f => failures'[g] = failures[g]
    BY <1>2
  <1>5. LookupTypes'
    BY <1>1, <1>3, <1>4 DEF LookupTypes
  <1>6. handler = "lookup" /\ f \in setup.families
    BY <1>1 DEF LanesOK, LookupTypes
  <1>7. LanesOK'
    <2> SUFFICES ASSUME NEW g \in Families
                 PROVE  /\ lane'[g].pc \in {"ask", "wait"} => AskingLane(g)'
                        /\ lane'[g].pc \in {"done", "taken"} => DoneLane(g)'
                        /\ lane'[g].pc # "off" <=> handler \in {"lookup", "resolve"} /\ g \in setup.families
                        /\ handler = "resolve" /\ g \in setup.families => lane'[g].pc = "taken"
      BY DEF LanesOK
    <2>1. CASE g = f
      BY <1>3, <1>4, <1>6, <2>1 DEF AskingLane, DoneLane
    <2>2. CASE g # f
      BY <1>1, <1>3, <1>4, <1>6, <2>2 DEF LanesOK, AskingLane, DoneLane
    <2> QED
      BY <2>1, <2>2
  <1>8. TakenOK'
    <2>1. \A g \in Families : lane'[g].pc = "taken" => g # f
      BY <1>3
    <2>2. \A g \in Families : lane'[g].pc = "taken" =>
             lane'[g].found \subseteq addrs' /\ (addrs' = {} => lastErr' # "none")
      BY <1>1, <1>3, <2>1 DEF TakenOK
    <2>3. lastErr' = "notFound" =>
             \E g \in setup.families : lane'[g].pc = "taken" /\ lane'[g].err = "notFound"
      BY <1>1, <1>3, SetupFacts DEF TakenOK
    <2> QED
      BY <1>1, <1>6, <2>2, <2>3 DEF TakenOK
  <1> QED
    BY <1>5, <1>7, <1>8 DEF LookupInv

(* A server fails: its failure is counted, and the lane goes on. *)
LEMMA ServerFails ==
  ASSUME LookupInv, NEW f \in Families, lane[f].pc \in {"ask", "wait"},
         lane' = [lane EXCEPT ![f] = NextServer(lane[f], setup.servers)],
         failures' = [failures EXCEPT ![f][lane[f].server] = @ + 1],
         UNCHANGED <<setup, handler, lastErr, addrs>>
  PROVE  LookupInv'
  <1>1. /\ lane[f] \in Lane /\ setup.servers \in Nat /\ AskingLane(f)
        /\ failures[f] \in [1..setup.servers -> Nat] /\ failures \in [Families -> [1..setup.servers -> Nat]]
    BY SetupFacts DEF LookupInv, LookupTypes, LanesOK
  <1>2. /\ lane[f].server \in 1..setup.servers /\ lane[f].round \in 1..Rounds
        /\ lane[f].err = "none" /\ ~lane[f].garbled /\ lane[f].found = {}
        /\ \A s \in 1..setup.servers :
              failures[f][s] = IF s < lane[f].server THEN lane[f].round ELSE lane[f].round - 1
    BY <1>1 DEF AskingLane, Lane
  <1>3. PICK m : m = NextServer(lane[f], setup.servers)
    OBVIOUS
  <1>4. /\ m \in Lane /\ m.proto = "udp"
        /\ \/ /\ m.pc = "ask" /\ m.err = lane[f].err /\ m.garbled = lane[f].garbled
              /\ m.found = lane[f].found
              /\ \/ /\ lane[f].server < setup.servers /\ m.server = lane[f].server + 1
                    /\ m.round = lane[f].round
                 \/ lane[f].server = setup.servers /\ m.server = 1 /\ m.round = lane[f].round + 1
           \/ /\ lane[f].server = setup.servers /\ lane[f].round = Rounds
              /\ m.pc = "done" /\ m.err = "failed"
    BY <1>1, <1>2, <1>3, NextServerIs
  <1>5. PICK row : row = [failures[f] EXCEPT ![lane[f].server] = lane[f].round]
    OBVIOUS
  <1>6. failures[f][lane[f].server] + 1 = lane[f].round /\ lane[f].round \in Nat
    BY <1>2, RoundsAssumption
  <1>7. failures' = [failures EXCEPT ![f] = row]
    <2>1. failures' = [failures EXCEPT ![f] = [failures[f] EXCEPT ![lane[f].server] =
                                                  failures[f][lane[f].server] + 1]]
      BY <1>1
    <2> QED
      BY <1>5, <1>6, <2>1
  <1>8. /\ row \in [1..setup.servers -> Nat]
        /\ \A s \in 1..setup.servers :
              row[s] = IF s <= lane[f].server THEN lane[f].round ELSE lane[f].round - 1
    BY <1>1, <1>2, <1>5, <1>6
  <1>9. m.pc = "ask" =>
            /\ m.server \in 1..setup.servers
            /\ m.err = "none" /\ ~m.garbled /\ m.found = {}
            /\ \A s \in 1..setup.servers : row[s] = IF s < m.server THEN m.round ELSE m.round - 1
    BY <1>1, <1>2, <1>4, <1>6, <1>8
  <1>10. m.pc = "done" => m.err = "failed" /\ \A s \in 1..setup.servers : row[s] = Rounds
    BY <1>1, <1>2, <1>4, <1>8
  <1>11. m.pc \in {"ask", "wait", "done"} /\ m.pc # "wait" /\ lane' = [lane EXCEPT ![f] = m]
    BY <1>3, <1>4
  <1>12. m.pc \in {"ask", "wait"} =>
            /\ m.server \in 1..setup.servers
            /\ m.err = "none" /\ ~m.garbled /\ m.found = {}
            /\ \A s \in 1..setup.servers : row[s] = IF s < m.server THEN m.round ELSE m.round - 1
    BY <1>9, <1>11
  <1>13. m \in Lane /\ row \in [1..setup.servers -> Nat]
    BY <1>4, <1>8
  <1> QED
    BY <1>7, <1>10, <1>11, <1>12, <1>13, LaneMoves

(* What may become of lane l with a response: the next server, no such     *)
(* name, an answer, or the same question over TCP                          *)
AfterResponse(m, l, n) ==
    \/ m = NextServer(l, n)
    \/ m \in Lane /\ m.pc = "done" /\ m.err = "notFound"
    \/ m \in Lane /\ m.pc = "done" /\ m.err = "none" /\ (m.garbled \/ m.found # {})
    \/ m = [l EXCEPT !.pc = "ask", !.proto = "tcp"]

(* tryOneName knows no other outcome; in particular an answer that could   *)
(* be read has addresses.                                                  *)
LEMMA ResponseIs ==
  ASSUME NEW r \in Responses, NEW f \in Families, NEW found \in Parsed(r, f),
         NEW l, NEW n
  PROVE  AfterResponse(tryOneName(l, r, found, n), l, n)
  <1> DEFINE m == tryOneName(l, r, found, n)
  <1> SUFFICES \/ m = NextServer(l, n)
               \/ m \in Lane /\ m.pc = "done" /\ m.err = "notFound"
               \/ m \in Lane /\ m.pc = "done" /\ m.err = "none" /\ (m.garbled \/ m.found # {})
               \/ m = [l EXCEPT !.pc = "ask", !.proto = "tcp"]
    BY DEF AfterResponse
  <1>1. 1 \in 1..Rounds /\ {} \in SUBSET Families /\ 1 \in Nat
    BY RoundsAssumption
  <1>2. CASE r = "truncated"
    <2>1. m = Truncated(l, n)
      BY <1>2 DEF tryOneName, Verdict, checkHeader, skipToAnswer
    <2> QED
      BY <2>1 DEF Truncated
  <1>3. CASE r \in {"nameError", "empty"}
    <2>1. m = [pc |-> "done", round |-> 1, server |-> 1, proto |-> "udp", err |-> "notFound",
               garbled |-> FALSE, found |-> {}]
      BY <1>3 DEF tryOneName, Verdict, checkHeader, skipToAnswer, Failed, NoLane
    <2>2. FALSE \in BOOLEAN
      OBVIOUS
    <2> QED
      BY <1>1, <2>1, <2>2 DEF Lane
  <1>4. CASE r \in {"malformed", "lame", "serverFailure", "refused", "broken"}
    BY <1>4 DEF tryOneName, Verdict, checkHeader, skipToAnswer
  <1>5. CASE r = "garbled"
    <2>1. m = [pc |-> "done", round |-> 1, server |-> 1, proto |-> "udp", err |-> "none",
               garbled |-> TRUE, found |-> found]
      BY <1>5 DEF tryOneName, Verdict, checkHeader, skipToAnswer, NoLane
    <2>2. found \in SUBSET Families /\ TRUE \in BOOLEAN
      BY <1>5 DEF Parsed
    <2>3. m \in Lane
      BY <1>1, <2>1, <2>2 DEF Lane
    <2> QED
      BY <2>1, <2>3
  <1>6. CASE r = "answer"
    <2>1. m = [pc |-> "done", round |-> 1, server |-> 1, proto |-> "udp", err |-> "none",
               garbled |-> FALSE, found |-> found]
      BY <1>6 DEF tryOneName, Verdict, checkHeader, skipToAnswer, NoLane
    <2>2. found \in SUBSET Families /\ found # {} /\ FALSE \in BOOLEAN
      BY <1>6 DEF Parsed, Families
    <2>3. m \in Lane
      BY <1>1, <2>1, <2>2 DEF Lane
    <2> QED
      BY <2>1, <2>2, <2>3
  <1> QED
    BY <1>2, <1>3, <1>4, <1>5, <1>6 DEF Responses

(* A lane's own steps *)
LEMMA LaneKeeps ==
  ASSUME LookupInv, NEW f \in Families, LaneStep(f)
  PROVE  LookupInv'
  <1>1. UNCHANGED <<setup, handler, lastErr, addrs>> /\ lane[f].pc \in {"ask", "wait"}
    BY DEF LaneStep, LaneAsks, LaneFails, LaneAnswered, mainVars
  <1>2. /\ lane \in [Families -> Lane] /\ lane[f] \in Lane /\ setup.servers \in Nat
        /\ failures \in [Families -> [1..setup.servers -> Nat]]
        /\ failures[f] \in [1..setup.servers -> Nat] /\ AskingLane(f)
    BY <1>1, SetupFacts DEF LookupInv, LookupTypes, LanesOK
  <1>3. ASSUME NEW p \in {"ask", "wait"}, NEW q \in {"udp", "tcp"},
               lane' = [lane EXCEPT ![f] = [lane[f] EXCEPT !.pc = p, !.proto = q]],
               UNCHANGED failures
        PROVE  LookupInv'
    <2>1. PICK l : l = [lane[f] EXCEPT !.pc = p, !.proto = q]
      OBVIOUS
    <2>2. /\ l \in Lane /\ l.pc = p /\ l.server = lane[f].server /\ l.round = lane[f].round
          /\ l.err = lane[f].err /\ l.garbled = lane[f].garbled /\ l.found = lane[f].found
      BY <1>2, <2>1 DEF Lane
    <2>3. failures' = [failures EXCEPT ![f] = failures[f]] /\ lane' = [lane EXCEPT ![f] = l]
      BY <1>2, <1>3, <2>1
    <2>4. /\ l.server \in 1..setup.servers /\ l.err = "none" /\ ~l.garbled /\ l.found = {}
          /\ \A s \in 1..setup.servers :
                failures[f][s] = IF s < l.server THEN l.round ELSE l.round - 1
      BY <1>2, <2>2 DEF AskingLane
    <2> QED
      BY <1>1, <1>2, <2>2, <2>3, <2>4, LaneMoves
  <1>4. CASE LaneAsks(f)
    <2>1. lane' = [lane EXCEPT ![f] = [lane[f] EXCEPT !.pc = "wait"]] /\ UNCHANGED failures
      BY <1>2, <1>4 DEF LaneAsks
    <2>2. lane[f].proto \in {"udp", "tcp"}
          /\ [lane[f] EXCEPT !.pc = "wait"] = [lane[f] EXCEPT !.pc = "wait", !.proto = lane[f].proto]
      BY <1>2 DEF Lane
    <2>3. PICK q \in {"udp", "tcp"} : q = lane[f].proto
      BY <2>2
    <2>4. lane' = [lane EXCEPT ![f] = [lane[f] EXCEPT !.pc = "wait", !.proto = q]]
      BY <2>1, <2>2, <2>3
    <2> QED
      BY <1>3, <2>1, <2>4
  <1>5. CASE LaneFails(f)
    BY <1>1, <1>5, ServerFails DEF LaneFails
  <1>6. ASSUME NEW r \in Responses, LaneAnswered(f, r)
        PROVE  LookupInv'
    <2>1. PICK found \in Parsed(r, f) :
             lane' = [lane EXCEPT ![f] = tryOneName(lane[f], r, found, setup.servers)]
      BY <1>6 DEF LaneAnswered
    <2>2. PICK m : m = tryOneName(lane[f], r, found, setup.servers)
      OBVIOUS
    <2>3. lane' = [lane EXCEPT ![f] = m] /\ lane'[f] = m
      BY <1>2, <2>1, <2>2
    <2>4. PICK next : next = NextServer(lane[f], setup.servers)
      OBVIOUS
    <2>5. /\ next \in Lane /\ next.proto = "udp"
          /\ (next.pc = "ask" /\ next.err = "none") \/ (next.pc = "done" /\ next.err = "failed")
      <3>1. lane[f].server \in 1..setup.servers /\ lane[f].err = "none"
        BY <1>2 DEF AskingLane
      <3> QED
        BY <1>2, <2>4, <3>1, NextServerIs
    <2>6. failures' = IF m = next
                      THEN [failures EXCEPT ![f][lane[f].server] = @ + 1]
                      ELSE IF m.pc = "done" THEN [failures EXCEPT ![f] = NoFailures]
                                            ELSE failures
      BY <1>6, <2>3, <2>4 DEF LaneAnswered
    <2>7. \/ m = next
          \/ m \in Lane /\ m.pc = "done" /\ m.err = "notFound"
          \/ m \in Lane /\ m.pc = "done" /\ m.err = "none" /\ (m.garbled \/ m.found # {})
          \/ m = [lane[f] EXCEPT !.pc = "ask", !.proto = "tcp"]
      <3>1. AfterResponse(m, lane[f], setup.servers)
        BY <2>2, ResponseIs
      <3> QED
        BY <2>4, <3>1 DEF AfterResponse
    <2>8. CASE m = next
      BY <1>1, <2>3, <2>4, <2>6, <2>8, ServerFails
    <2>9. CASE /\ m \in Lane /\ m.pc = "done" /\ m # next
               /\ m.err = "notFound" \/ (m.err = "none" /\ (m.garbled \/ m.found # {}))
      <3>1. PICK row : row = NoFailures
        OBVIOUS
      <3>2. row \in [1..setup.servers -> Nat]
        BY <3>1 DEF NoFailures
      <3>3. failures' = [failures EXCEPT ![f] = row]
        BY <2>6, <2>9, <3>1
      <3> QED
        BY <1>1, <2>3, <2>9, <3>2, <3>3, LaneMoves
    <2>10. CASE m = [lane[f] EXCEPT !.pc = "ask", !.proto = "tcp"]
      <3>1. m.proto = "tcp" /\ m.pc = "ask"
        BY <1>2, <2>10 DEF Lane
      <3>2. UNCHANGED failures
        BY <2>5, <2>6, <3>1
      <3> QED
        BY <1>3, <2>3, <2>10, <3>2
    <2> QED
      BY <2>5, <2>7, <2>8, <2>9, <2>10
  <1> QED
    BY <1>4, <1>5, <1>6 DEF LaneStep

(* The lookup takes the answer of a lane that is done: its addresses, or   *)
(* an error unless it has one.                                             *)
LEMMA TakeKeeps ==
  ASSUME LookupInv, NEW f \in Families, LookupTakes(f)
  PROVE  LookupInv'
  <1>1. LookupTypes /\ LanesOK /\ TakenOK
    BY DEF LookupInv
  <1>2. lane \in [Families -> Lane] /\ lane[f] \in Lane /\ lane[f].pc = "done"
    BY <1>1 DEF LookupTypes, LookupTakes
  <1>3. UNCHANGED <<setup, handler, failures>> /\ handler = "lookup"
    BY DEF LookupTakes, mainVars
  <1>4. PICK l : l = [lane[f] EXCEPT !.pc = "taken"]
    OBVIOUS
  <1>5. /\ l \in Lane /\ l.pc = "taken" /\ l.err = lane[f].err
        /\ l.garbled = lane[f].garbled /\ l.found = lane[f].found
    BY <1>2, <1>4 DEF Lane
  <1>6. lane' = [lane EXCEPT ![f] = l]
    BY <1>2, <1>4 DEF LookupTakes
  <1>7. /\ lane' \in [Families -> Lane] /\ lane'[f] = l
        /\ \A g \in Families : g # f => lane'[g] = lane[g]
    BY <1>2, <1>5, <1>6
  <1>8. addrs' = addrs \cup lane[f].found
    BY DEF LookupTakes
  <1>9. lastErr' = CASE lane[f].err # "none" /\ lastErr = "none" -> lane[f].err
                     [] lane[f].err = "none" /\ lane[f].garbled -> "failed"
                     [] OTHER -> lastErr
    BY DEF LookupTakes
  <1>10. /\ lane[f].err \in {"none", "notFound", "failed"} /\ lane[f].found \subseteq Families
         /\ lastErr \in {"none", "notFound", "failed"} /\ addrs \subseteq Families
    BY <1>1, <1>2 DEF LookupTypes, Lane
  <1>11. DoneLane(f) /\ f \in setup.families
    BY <1>1, <1>2 DEF LanesOK
  <1>12. /\ lastErr' \in {"none", "notFound", "failed"} /\ addrs' \subseteq Families
         /\ lastErr # "none" => lastErr' # "none"
         /\ addrs' = {} => lastErr' # "none"
         /\ lastErr' = "notFound" => lastErr = "notFound" \/ lane[f].err = "notFound"
    BY <1>8, <1>9, <1>10, <1>11 DEF DoneLane
  <1>13. LookupTypes'
    BY <1>1, <1>3, <1>7, <1>12 DEF LookupTypes
  <1>14. LanesOK'
    <2> SUFFICES ASSUME NEW g \in Families
                 PROVE  /\ lane'[g].pc \in {"ask", "wait"} => AskingLane(g)'
                        /\ lane'[g].pc \in {"done", "taken"} => DoneLane(g)'
                        /\ lane'[g].pc # "off" <=> handler \in {"lookup", "resolve"} /\ g \in setup.families
                        /\ handler = "resolve" /\ g \in setup.families => lane'[g].pc = "taken"
      BY <1>3 DEF LanesOK
    <2>1. CASE g = f
      BY <1>3, <1>5, <1>7, <1>11, <2>1 DEF DoneLane
    <2>2. CASE g # f
      BY <1>1, <1>3, <1>7, <2>2 DEF LanesOK, AskingLane, DoneLane
    <2> QED
      BY <2>1, <2>2
  <1>15. TakenOK'
    <2>1. \A g \in Families : lane'[g].pc = "taken" =>
             lane'[g].found \subseteq addrs' /\ (addrs' = {} => lastErr' # "none")
      BY <1>1, <1>5, <1>7, <1>8, <1>12 DEF TakenOK
    <2>2. lastErr' = "notFound" =>
             \E g \in setup.families : lane'[g].pc = "taken" /\ lane'[g].err = "notFound"
      <3>1. CASE lane[f].err = "notFound"
        BY <1>5, <1>7, <1>11, <3>1
      <3>2. ASSUME lastErr = "notFound"
            PROVE  \E g \in setup.families : lane'[g].pc = "taken" /\ lane'[g].err = "notFound"
        <4>1. PICK g \in setup.families : lane[g].pc = "taken" /\ lane[g].err = "notFound"
          BY <1>1, <3>2 DEF TakenOK
        <4>2. g \in Families /\ g # f
          BY <1>1, <1>2, <4>1, SetupFacts
        <4> QED
          BY <1>7, <4>1, <4>2
      <3> QED
        BY <1>12, <3>1, <3>2
    <2> QED
      BY <1>1, <1>3, <2>1, <2>2 DEF TakenOK
  <1> QED
    BY <1>13, <1>14, <1>15 DEF LookupInv

(* No lane is asked before a lookup, and after it. *)
LEMMA NoLaneIsOff == NoLane \in Lane /\ NoLane.pc = "off"
  <1>1. /\ NoLane = [pc |-> "off", round |-> 1, server |-> 1, proto |-> "udp",
                     err |-> "none", garbled |-> FALSE, found |-> {}]
        /\ 1 \in 1..Rounds /\ 1 \in Nat /\ FALSE \in BOOLEAN /\ {} \in SUBSET Families
    BY RoundsAssumption DEF NoLane
  <1> QED
    BY <1>1 DEF Lane

(* What the lookup's variables are while there is none *)
LEMMA NotLookingUp ==
  ASSUME LookupInv, handler \notin {"lookup", "resolve"}
  PROVE  /\ \A f \in Families : lane[f].pc = "off"
         /\ addrs = {} /\ lastErr = "none"
         /\ failures = [f \in Families |-> NoFailures]
  BY DEF LookupInv, LanesOK, TakenOK

(* Before and after its lookup a request leaves the lookup's variables.    *)
LEMMA OtherPhase ==
  ASSUME LookupInv, handler \notin {"lookup", "resolve"},
         handler' \in {"none", "accepted", "dial", "connect", "relay"},
         UNCHANGED <<setup, lane, lastErr, addrs, failures>>
  PROVE  LookupInv'
  <1>1. LookupTypes /\ LanesOK /\ TakenOK
    BY DEF LookupInv
  <1>2. LookupTypes'
    BY <1>1 DEF LookupTypes
  <1>3. \A f \in Families : lane'[f].pc = "off"
    BY NotLookingUp
  <1>4. LanesOK'
    BY <1>3 DEF LanesOK
  <1>5. /\ addrs' = {} /\ lastErr' = "none"
        /\ failures' = [f \in Families |-> NoFailures']
    BY NotLookingUp DEF NoFailures
  <1>6. TakenOK'
    BY <1>3, <1>5 DEF TakenOK
  <1> QED
    BY <1>2, <1>4, <1>6 DEF LookupInv

(* The tunnel starts with no request. *)
LEMMA LookupInit == Init => LookupInv
  <1> SUFFICES ASSUME Init
               PROVE  LookupInv
    OBVIOUS
  <1>1. /\ setup \in Setups /\ handler = "none" /\ lane = [f \in Families |-> NoLane]
        /\ lastErr = "none" /\ addrs = {} /\ failures = [f \in Families |-> NoFailures]
    BY DEF Init
  <1>2. NoFailures \in [1..setup.servers -> Nat]
    BY DEF NoFailures
  <1>3. LookupTypes
    BY <1>1, <1>2, NoLaneIsOff DEF LookupTypes
  <1>4. \A f \in Families : lane[f].pc = "off"
    BY <1>1, NoLaneIsOff
  <1>5. LanesOK /\ TakenOK
    BY <1>1, <1>4 DEF LanesOK, TakenOK
  <1> QED
    BY <1>3, <1>5 DEF LookupInv

(* Resolve ends the lookup. *)
LEMMA ResolveKeeps ==
  ASSUME LookupInv, Resolve
  PROVE  LookupInv'
  <1>1. /\ setup' \in Setups /\ setup' = setup /\ handler' \in {"none", "dial"}
        /\ lane' = [f \in Families |-> NoLane]
        /\ lastErr' = "none" /\ addrs' = {} /\ failures' = [f \in Families |-> NoFailures]
    BY DEF Resolve, LookupOver, RequestOver, mainVars, LookupInv, LookupTypes
  <1>2. NoFailures \in [1..setup.servers -> Nat] /\ NoFailures' = NoFailures
    BY <1>1 DEF NoFailures
  <1>3. LookupTypes'
    BY <1>1, <1>2, NoLaneIsOff DEF LookupTypes
  <1>4. \A f \in Families : lane'[f].pc = "off"
    BY <1>1, NoLaneIsOff
  <1>5. LanesOK'
    BY <1>1, <1>4 DEF LanesOK
  <1>6. TakenOK'
    BY <1>1, <1>2, <1>4 DEF TakenOK
  <1> QED
    BY <1>3, <1>5, <1>6 DEF LookupInv

(* A lane starts with the first question, or without servers with an       *)
(* answer that cannot be read.                                             *)
LEMMA NewLaneIs ==
  ASSUME NEW n \in Nat, NEW l, l = newLane(n)
  PROVE  /\ l \in Lane /\ l.err = "none" /\ l.found = {}
         /\ \/ n # 0 /\ l.pc = "ask" /\ l.server = 1 /\ l.round = 1 /\ ~l.garbled
            \/ n = 0 /\ l.pc = "done" /\ l.garbled
  <1>1. 1 \in 1..Rounds /\ 1 \in Nat /\ FALSE \in BOOLEAN /\ TRUE \in BOOLEAN /\ {} \in SUBSET Families
    BY RoundsAssumption
  <1>2. CASE n = 0
    <2>1. l = [pc |-> "done", round |-> 1, server |-> 1, proto |-> "udp", err |-> "none",
               garbled |-> TRUE, found |-> {}]
      BY <1>2 DEF newLane, NoLane
    <2>2. l \in Lane
      BY <1>1, <2>1 DEF Lane
    <2> QED
      BY <1>2, <2>1, <2>2
  <1>3. CASE n # 0
    <2>1. l = [pc |-> "ask", round |-> 1, server |-> 1, proto |-> "udp", err |-> "none",
               garbled |-> FALSE, found |-> {}]
      BY <1>3 DEF newLane, NoLane
    <2>2. l \in Lane
      BY <1>1, <2>1 DEF Lane
    <2> QED
      BY <1>3, <2>1, <2>2
  <1> QED
    BY <1>2, <1>3

(* A lookup starts with a lane for each family of the tunnel. *)
LEMMA RequestKeeps ==
  ASSUME LookupInv, NEW t \in Targets, Request(t)
  PROVE  LookupInv'
  <1>1. LookupTypes /\ handler = "accepted" /\ UNCHANGED <<setup, lastErr, addrs, failures>>
    BY DEF LookupInv, Request, mainVars
  <1>2. CASE t \in Families /\ handler' = "dial" /\ UNCHANGED lane
    BY <1>1, <1>2, OtherPhase
  <1>3. ASSUME t = "name", setup.families # {}, handler' = "lookup",
               lane' = [f \in Families |-> IF f \in setup.families THEN newLane(setup.servers)
                                                                   ELSE NoLane]
        PROVE  LookupInv'
    <2>1. /\ addrs = {} /\ lastErr = "none" /\ setup.servers \in Nat
          /\ failures = [f \in Families |-> NoFailures] /\ setup.families \subseteq Families
      BY <1>1, NotLookingUp, SetupFacts
    <2>2. PICK l : l = newLane(setup.servers)
      OBVIOUS
    <2>3. /\ l \in Lane /\ l.err = "none" /\ l.found = {}
          /\ \/ /\ setup.servers # 0 /\ l.pc = "ask" /\ l.server = 1 /\ l.round = 1 /\ ~l.garbled
             \/ setup.servers = 0 /\ l.pc = "done" /\ l.garbled
      BY <2>1, <2>2, NewLaneIs
    <2>4. /\ lane' \in [Families -> Lane]
          /\ \A f \in Families : lane'[f] = IF f \in setup.families THEN l ELSE NoLane
      BY <1>3, <2>2, <2>3, NoLaneIsOff
    <2>5. LookupTypes'
      BY <1>1, <1>3, <2>4 DEF LookupTypes
    <2>6. \A f \in Families : \A s \in 1..setup.servers : failures'[f][s] = 0
      BY <1>1, <2>1 DEF NoFailures
    <2>7. LanesOK'
      <3> SUFFICES ASSUME NEW f \in Families
                   PROVE  /\ lane'[f].pc \in {"ask", "wait"} => AskingLane(f)'
                          /\ lane'[f].pc \in {"done", "taken"} => DoneLane(f)'
                          /\ lane'[f].pc # "off" <=> f \in setup.families
        BY <1>1, <1>3 DEF LanesOK
      <3>1. CASE f \notin setup.families
        BY <2>4, <3>1, NoLaneIsOff
      <3>2. CASE f \in setup.families /\ l.pc = "ask"
        <4>1. 1 \in 1..setup.servers' /\ \A s \in 1..setup.servers : ~(s < 1)
          BY <1>1, <2>1, <2>3, <3>2
        <4> QED
          BY <1>1, <2>3, <2>4, <2>6, <3>2, <4>1 DEF AskingLane
      <3>3. CASE f \in setup.families /\ l.pc = "done"
        BY <2>3, <2>4, <3>3 DEF DoneLane
      <3> QED
        BY <2>3, <3>1, <3>2, <3>3
    <2>8. \A f \in Families : lane'[f].pc # "taken"
      BY <2>3, <2>4, NoLaneIsOff
    <2>9. TakenOK'
      BY <1>1, <1>3, <2>1, <2>8 DEF TakenOK
    <2> QED
      BY <2>5, <2>7, <2>9 DEF LookupInv
  <1> QED
    BY <1>2, <1>3 DEF Request

(* What others do is nothing to the lookup. *)
LEMMA LookupUntouched ==
  ASSUME LookupInv, UNCHANGED <<setup, handler, lane, lastErr, addrs, failures>>
  PROVE  LookupInv'
  BY DEF LookupInv, LookupTypes, LanesOK, TakenOK, AskingLane, DoneLane, NoFailures

(* The lookup returns when it has taken every lane's answer. *)
LEMMA ReturnKeeps ==
  ASSUME LookupInv, LookupReturns
  PROVE  LookupInv'
  <1>1. /\ UNCHANGED <<setup, lane, lastErr, addrs, failures>>
        /\ handler = "lookup" /\ handler' = "resolve"
        /\ \A f \in setup.families : lane[f].pc = "taken"
    BY DEF LookupReturns, Lanes, mainVars
  <1>2. LookupTypes'
    BY <1>1 DEF LookupInv, LookupTypes
  <1>3. LanesOK'
    BY <1>1 DEF LookupInv, LanesOK, AskingLane, DoneLane
  <1>4. TakenOK'
    BY <1>1 DEF LookupInv, TakenOK
  <1> QED
    BY <1>2, <1>3, <1>4 DEF LookupInv

(* Every step of the tunnel keeps the lookup's invariant. *)
LEMMA LookupStep == LookupInv /\ [Next]_vars => LookupInv'
  <1> SUFFICES ASSUME LookupInv, [Next]_vars
               PROVE  LookupInv'
    OBVIOUS
  <1> USE DEF mainVars, requestVars
  <1>a. CASE UNCHANGED <<setup, handler, lane, lastErr, addrs, failures>>
    BY <1>a, LookupUntouched
  <1>1. CASE Client
    <2>1. CASE Relays
      BY <1>a, <2>1 DEF Relays
    <2>2. CASE RelayEnds
      BY <2>2, OtherPhase DEF RelayEnds, RequestOver
    <2>3. CASE Accept
      BY <2>3, OtherPhase DEF Accept
    <2>4. CASE Rejected
      BY <2>4, OtherPhase DEF Rejected, RequestOver
    <2> QED
      BY <1>1, <2>1, <2>2, <2>3, <2>4, RequestKeeps DEF Client
  <1>2. CASE Handler
    <2>1. CASE Dials
      BY <2>1, OtherPhase DEF Dials
    <2>2. CASE Connects
      BY <2>2, OtherPhase DEF Connects
    <2>3. CASE DialFails
      BY <2>3, OtherPhase DEF DialFails, RequestOver
    <2> QED
      BY <1>2, <2>1, <2>2, <2>3, TakeKeeps, ReturnKeeps, ResolveKeeps DEF Handler, HandlerStep
  <1>3. ASSUME NEW f \in Families, Lookup(f)
        PROVE  LookupInv'
    BY <1>3, LaneKeeps DEF Lookup
  <1>4. ASSUME NEW p \in Senders, Sender(p)
        PROVE  LookupInv'
    BY <1>4, <1>a DEF Sender
  <1>5. CASE Setting \/ TUNReader \/ EventReader
    BY <1>5, <1>a DEF Setting, TUNReader, EventReader
  <1>6. CASE Pinger
    BY <1>6, <1>a DEF Pinger, PingerSends, PingerSetsMTU, PingerReturns
  <1>7. CASE Main
    BY <1>7, <1>a DEF Main, MainStep, Leave, ServeReturns, ProxyClosed, WorkersDone,
                      DevCloses, Returned
  <1>8. CASE Finished \/ UNCHANGED vars
    <2>1. UNCHANGED vars
      BY <1>8 DEF Finished
    <2> QED
      BY <1>a, <2>1 DEF vars
  <1> QED
    BY <1>1, <1>2, <1>3, <1>4, <1>5, <1>6, <1>7, <1>8 DEF Next

(* LookupDecides: whatever the number of the tunnel's DNS servers, a       *)
(* lookup gives up on a lane only when it was denied the name, has an      *)
(* answer it cannot read, or saw every server fail in every round.         *)
THEOREM LookupDecided == Spec => []LookupDecides
  <1>1. LookupInv => LookupDecides
    <2> SUFFICES ASSUME LookupInv, handler = "resolve"
                 PROVE  /\ LookupError = "none" <=> addrs # {}
                        /\ LookupError # "none" =>
                               \A f \in setup.families :
                                   \/ lane[f].err = "notFound" \/ lane[f].garbled
                                   \/ \A s \in 1..setup.servers : failures[f][s] = Rounds
                        /\ LookupError = "notFound" =>
                               \E f \in setup.families : lane[f].err = "notFound"
      BY DEF LookupDecides
    <2>1. setup.families \subseteq Families /\ setup.families # {}
      BY SetupFacts DEF LookupInv, TakenOK
    <2>2. \A f \in setup.families :
             /\ lane[f].pc = "taken" /\ DoneLane(f) /\ lane[f].found \subseteq addrs
             /\ addrs = {} => lastErr # "none"
      BY <2>1 DEF LookupInv, LanesOK, TakenOK
    <2>3. LookupError = "none" <=> addrs # {}
      BY <2>1, <2>2 DEF LookupError
    <2>4. ASSUME LookupError # "none", NEW f \in setup.families
          PROVE  \/ lane[f].err = "notFound" \/ lane[f].garbled
                 \/ \A s \in 1..setup.servers : failures[f][s] = Rounds
      BY <2>2, <2>3, <2>4 DEF DoneLane
    <2>5. LookupError = "notFound" => \E f \in setup.families : lane[f].err = "notFound"
      BY DEF LookupError, LookupInv, TakenOK
    <2> QED
      BY <2>3, <2>4, <2>5
  <1> QED
    BY <1>1, LookupInit, LookupStep, PTL DEF Spec
================================================================================
