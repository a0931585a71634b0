------------------------------ MODULE ProxyTraffic ------------------------------
(***************************************************************************)
(* Who sends through the tunnel, and its shutdown: a SOCKS5 request        *)
(* (socks5.go) that resolves its host name inside the tunnel and dials it, *)
(* the two lanes of its lookup, the echo pinger, and runTunnel's deferred  *)
(* calls (tunnel.go), which join the pinger but not the request, before    *)
(* they close the device of NetTun.                                        *)
(*                                                                         *)
(* The handler stands for any one of go-socks5's connection goroutines; it *)
(* serves one request after the other.  The pinger is reduced to the       *)
(* packets it sends and the MTUs it sets (EchoPinger has the rest).        *)
(***************************************************************************)
EXTENDS NetTun, Resolver, FiniteSets

CONSTANTS
    Setups      \* [families, servers, manual]: the families of the tunnel's
                \* addresses (hasV4, hasV6), the number of its DNS servers, and
                \* whether its MTU is configured

ASSUME SetupsAssumption ==
    /\ Setups \subseteq [families : SUBSET Families, servers : Nat, manual : BOOLEAN]
    /\ Senders = {"pinger", "handler"} \cup Families
    /\ Setter = "pinger"

(* What a client asks for: a host name, or an address *)
Targets == {"name"} \cup Families

VARIABLES
    setup,      \* a member of Setups
    main,       \* runTunnel: "up", "proxyClose", "waitWorkers", "devClose", "returned"
    serving,    \* server.Serve runs in its goroutine (done is open)
    pinger,     \* "run", "done"
    handler,    \* "none", "accepted", "lookup", "resolve", "dial", "connect", "relay"
    target,     \* the address family the handler dials
    lane,       \* [Families -> Lane]
    lastErr,    \* of LookupContextHost
    addrs,      \* the families of the addresses it has
    failures    \* history: failures[f][s], how often server s failed lane f, kept
                \* until the lane succeeds

requestVars == <<handler, target, lane, lastErr, addrs, failures>>
mainVars == <<setup, main, serving, pinger>>
vars == <<netTunVars, mainVars, requestVars>>

--------------------------------------------------------------------------------
(* LookupContextHost: a lane for each family *)

NoFailures == [s \in 1..setup.servers |-> 0]

(* exchange: dial and write.  The packet stands for all that the exchange  *)
(* sends.                                                                  *)
LaneAsks(f) ==
    /\ lane[f].pc = "ask"
    /\ Enqueue(f)
    /\ lane' = [lane EXCEPT ![f].pc = "wait"]
    /\ UNCHANGED <<tunReader, mtuVars, closing, panicked, mainVars, handler, target,
                   lastErr, addrs, failures>>

(* exchange returns an error: it cannot dial or write, the deadline passes *)
(* or the response over TCP is not one to the question.                    *)
LaneFails(f) ==
    /\ lane[f].pc \in {"ask", "wait"} /\ sender[f] = "idle"
    /\ lane' = [lane EXCEPT ![f] = NextServer(@, setup.servers)]
    /\ failures' = [failures EXCEPT ![f][lane[f].server] = @ + 1]
    /\ UNCHANGED <<netTunVars, mainVars, handler, target, lastErr, addrs>>

(* exchange returns a response, through the device's Write. *)
LaneAnswered(f, r) ==
    /\ lane[f].pc = "wait" /\ sender[f] = "idle"
    /\ Write
    /\ \E found \in Parsed(r, f) :
           lane' = [lane EXCEPT ![f] = tryOneName(@, r, found, setup.servers)]
    /\ failures' = IF lane'[f] = NextServer(lane[f], setup.servers)
                   THEN [failures EXCEPT ![f][lane[f].server] = @ + 1]
                   ELSE IF lane'[f].pc = "done" THEN [failures EXCEPT ![f] = NoFailures]
                                                ELSE failures
    /\ UNCHANGED <<netTunVars, mainVars, handler, target, lastErr, addrs>>

LaneStep(f) ==
    \/ LaneAsks(f) \/ LaneFails(f)
    \/ \E r \in Responses : LaneAnswered(f, r)

(* result := <-lane; the parse of its answer *)
LookupTakes(f) ==
    /\ handler = "lookup"
    /\ lane[f].pc = "done"
    /\ lane' = [lane EXCEPT ![f].pc = "taken"]
    /\ addrs' = addrs \cup lane[f].found
    /\ lastErr' = CASE lane[f].err # "none" /\ lastErr = "none" -> lane[f].err
                    [] lane[f].err = "none" /\ lane[f].garbled -> "failed"
                    [] OTHER -> lastErr
    /\ UNCHANGED <<netTunVars, mainVars, handler, target, failures>>

(* for l := 0; l < lanes; l++ *)
BothLanes == Families
Lanes == setup.families
LookupReturns ==
    /\ handler = "lookup"
    /\ \A f \in Lanes : lane[f].pc = "taken"
    /\ handler' = "resolve"
    /\ UNCHANGED <<netTunVars, mainVars, target, lane, lastErr, addrs, failures>>

LookupError == IF addrs = {} THEN lastErr ELSE "none"

--------------------------------------------------------------------------------
(* A SOCKS5 request *)

(* The lookup's variables are gone when it has returned. *)
LookupOver ==
    /\ lane' = [f \in Families |-> NoLane]
    /\ lastErr' = "none"
    /\ addrs' = {}
    /\ failures' = [f \in Families |-> NoFailures]

RequestOver == handler' = "none" /\ target' = None

(* Serve accepts a connection, until its listener closes. *)
Accept ==
    /\ handler = "none"
    /\ main = "up"
    /\ handler' = "accepted"
    /\ UNCHANGED <<netTunVars, mainVars, target, lane, lastErr, addrs, failures>>

(* go-socks5 has read the request, which the client may have sent long     *)
(* after.  A name is looked up.                                            *)
Request(t) ==
    /\ handler = "accepted"
    /\ \/ /\ t = "name" /\ setup.families # {}
          /\ handler' = "lookup"
          /\ lane' = [f \in Families |-> IF f \in setup.families THEN newLane(setup.servers)
                                                                 ELSE NoLane]
          /\ UNCHANGED target
       \/ /\ t \in Families
          /\ handler' = "dial"
          /\ target' = t
          /\ UNCHANGED lane
    /\ UNCHANGED <<netTunVars, mainVars, lastErr, addrs, failures>>

(* The client hangs up, does not authenticate or sends no request the      *)
(* library serves; or the lookup fails at once: the tunnel has no address  *)
(* of its own, or the name is no domain name.                              *)
Rejected ==
    /\ handler = "accepted"
    /\ RequestOver
    /\ UNCHANGED <<netTunVars, mainVars, lane, lastErr, addrs, failures>>

(* Resolve: only an IPv4 address will do *)
Resolve ==
    /\ handler = "resolve"
    /\ IF LookupError = "none" /\ "v4" \in addrs
       THEN handler' = "dial" /\ target' = "v4"
       ELSE RequestOver
    /\ LookupOver
    /\ UNCHANGED <<netTunVars, mainVars>>

(* WithDial refuses IPv6; DialContext looks the address up, which it is,   *)
(* unless the tunnel has none of its own, and dials it.                    *)
Dials ==
    /\ handler = "dial"
    /\ target = "v4" /\ setup.families # {}
    /\ Enqueue("handler")
    /\ handler' = "connect"
    /\ UNCHANGED <<tunReader, mtuVars, closing, panicked, mainVars, target, lane,
                   lastErr, addrs, failures>>

Connects ==
    /\ handler = "connect" /\ sender["handler"] = "idle"
    /\ Write
    /\ handler' = "relay"
    /\ UNCHANGED <<netTunVars, mainVars, target, lane, lastErr, addrs, failures>>

DialFails ==
    /\ handler \in {"dial", "connect"} /\ sender["handler"] = "idle"
    /\ RequestOver
    /\ UNCHANGED <<netTunVars, mainVars, lane, lastErr, addrs, failures>>

Relays ==
    /\ handler = "relay"
    /\ Enqueue("handler")
    /\ UNCHANGED <<tunReader, mtuVars, closing, panicked, mainVars, requestVars>>

RelayEnds ==
    /\ handler = "relay" /\ sender["handler"] = "idle"
    /\ RequestOver
    /\ UNCHANGED <<netTunVars, mainVars, lane, lastErr, addrs, failures>>

HandlerStep ==
    \/ \E f \in Families : LookupTakes(f)
    \/ LookupReturns \/ Resolve \/ Dials \/ Connects \/ DialFails

--------------------------------------------------------------------------------
(* The pinger *)

PingerSends ==
    /\ pinger = "run" /\ setMTU = "idle"
    /\ Enqueue("pinger")
    /\ UNCHANGED <<tunReader, mtuVars, closing, panicked, mainVars, requestVars>>

(* A configured MTU is not probed, and never set again. *)
PingerSetsMTU(m) ==
    /\ ~setup.manual
    /\ pinger = "run" /\ sender["pinger"] = "idle"
    /\ SetMTU(m)
    /\ UNCHANGED <<mainVars, requestVars>>

(* At the end of its context, or with an error *)
PingerReturns ==
    /\ pinger = "run" /\ sender["pinger"] = "idle" /\ setMTU = "idle"
    /\ pinger' = "done"
    /\ UNCHANGED <<netTunVars, setup, main, serving, requestVars>>

--------------------------------------------------------------------------------
(* runTunnel returns, and its deferred calls *)

(* proxy.Close: listener.Close ... *)
Leave ==
    /\ main = "up"
    /\ main' = "proxyClose"
    /\ UNCHANGED <<netTunVars, setup, serving, pinger, requestVars>>

(* ... Serve fails to accept, and closes done ... *)
ServeReturns ==
    /\ main = "proxyClose"
    /\ serving
    /\ serving' = FALSE
    /\ UNCHANGED <<netTunVars, setup, main, pinger, requestVars>>

(* ... <-p.done; stopLifecycle() *)
ProxyClosed ==
    /\ main = "proxyClose"
    /\ ~serving
    /\ main' = "waitWorkers"
    /\ UNCHANGED <<netTunVars, setup, serving, pinger, requestVars>>

(* workerWG.Wait(); its other workers use the device's IPC only *)
NotJoined == TRUE
Joined == pinger = "done"
WorkersDone ==
    /\ main = "waitWorkers"
    /\ Joined
    /\ main' = "devClose"
    /\ UNCHANGED <<netTunVars, setup, serving, pinger, requestVars>>

(* dev.Close(): first the TUN's Close, and the wait for its reader *)
DevCloses ==
    /\ main = "devClose"
    /\ Close
    /\ UNCHANGED <<mainVars, requestVars>>

Returned ==
    /\ main = "devClose"
    /\ Closed /\ tunReader = "done"
    /\ main' = "returned"
    /\ UNCHANGED <<netTunVars, setup, serving, pinger, requestVars>>

MainStep ==
    ServeReturns \/ ProxyClosed \/ WorkersDone \/ DevCloses \/ Returned

Finished == (main = "returned" \/ panicked # None) /\ UNCHANGED vars

--------------------------------------------------------------------------------
Init ==
    /\ CreateNetTUN
    /\ setup \in Setups
    /\ main = "up"
    /\ serving = TRUE
    /\ pinger = "run"
    /\ handler = "none"
    /\ target = None
    /\ lane = [f \in Families |-> NoLane]
    /\ lastErr = "none"
    /\ addrs = {}
    /\ failures = [f \in Families |-> NoFailures]

(* A panic ends the process. *)
Running == panicked = None

Sender(p) == Running /\ SenderSteps(p) /\ UNCHANGED <<mainVars, requestVars>>
Setting == Running /\ SetterSteps /\ UNCHANGED <<mainVars, requestVars>>
TUNReader == Running /\ Read /\ UNCHANGED <<mainVars, requestVars>>
EventReader == Running /\ EventSteps /\ UNCHANGED <<mainVars, requestVars>>
Pinger ==
    /\ Running
    /\ PingerSends \/ PingerReturns \/ \E m \in MTUs : PingerSetsMTU(m)
Client ==
    /\ Running
    /\ Accept \/ Rejected \/ Relays \/ RelayEnds \/ \E t \in Targets : Request(t)
Handler == Running /\ HandlerStep
Lookup(f) == Running /\ LaneStep(f)
Main == Running /\ (Leave \/ MainStep)

Next ==
    \/ \E p \in Senders : Sender(p)
    \/ \E f \in Families : Lookup(f)
    \/ Setting \/ TUNReader \/ EventReader
    \/ Pinger \/ Client \/ Handler \/ Main
    \/ Finished

Spec == Init /\ [][Next]_vars

(* Every wait of an exchange or a dial has a deadline, and wireguard-go's  *)
(* reader runs on.  Senders parked on incomingPacket are served in order.  *)
FairSpec ==
    /\ Spec
    /\ \A p \in Senders : SF_vars(Sender(p))
    /\ WF_vars(TUNReader)
    /\ \A f \in Families : WF_vars(Lookup(f))
    /\ WF_vars(Handler)

--------------------------------------------------------------------------------
(* Properties *)

(* Neither a packet nor an MTU event of the pinger meets a closed channel: *)
(* it is joined before the device closes.  (Requests are not joined; see   *)
(* the README.)                                                            *)
WorkersNeverPanic == panicked # "pinger"

(* wireguard-go's MTU is the device's, or an event that will make it so is *)
(* on its way: dropping one at a full channel loses nothing, because the   *)
(* reader loads the value only after it has taken the event.               *)
WireGuardLearnsMTU ==
    \/ wgMTU = mtu
    \/ setMTU # "idle" \/ eventReader = "load"
    \/ \E i \in DOMAIN events : events[i] = "mtu"
    \/ NICRemoved

(* A lookup succeeds exactly with addresses.  It fails only when each lane *)
(* was denied the name, got an answer it cannot read, or saw every server  *)
(* fail in every round; and says "no such host" only if a server did.      *)
LookupDecides ==
    handler = "resolve" =>
        /\ LookupError = "none" <=> addrs # {}
        /\ LookupError # "none" =>
               \A f \in setup.families :
                   \/ lane[f].err = "notFound" \/ lane[f].garbled
                   \/ \A s \in 1..setup.servers : failures[f][s] = Rounds
        /\ LookupError = "notFound" => \E f \in setup.families : lane[f].err = "notFound"

(* No request waits for ever: not for a lane that was not started or has   *)
(* no one to ask, nor behind other senders, nor on a device that closes    *)
(* under it.                                                               *)
RequestEnds ==
    handler \in {"lookup", "resolve", "dial", "connect"}
        ~> handler \in {"none", "relay"} \/ panicked # None
================================================================================
