--------------------------------- MODULE NetTun ---------------------------------
(***************************************************************************)
(* netTun (internal/tunnet/tun.go): the device between gVisor's userspace  *)
(* stack and wireguard-go.                                                 *)
(*                                                                         *)
(* An outgoing packet is queued at gVisor's channel endpoint, and the      *)
(* goroutine that sent it then runs WriteNotify, outside the endpoint's    *)
(* lock: it takes a packet off the queue and hands it over incomingPacket, *)
(* which has no buffer, to wireguard-go's reader.  So every goroutine that *)
(* sends through the tunnel may be parked on that channel, which Close     *)
(* closes.  Packets are counted, not told apart.                           *)
(***************************************************************************)
EXTENDS Integers, Sequences

CONSTANTS
    None,
    Senders,     \* the goroutines that send through the stack
    Setter,      \* the one that calls SetMTU
    InitialMTU,  \* mtu of CreateNetTUN
    MTUs,        \* the values SetMTU is called with
    QueueSize,   \* of the channel endpoint (1024)
    EventSize    \* capacity of events (10)

ASSUME NetTunAssumption ==
    /\ None \notin Senders /\ Setter \in Senders
    /\ InitialMTU \in MTUs
    /\ QueueSize \in Nat \ {0}
    /\ EventSize \in Nat \ {0, 1}    \* EventUp leaves room for EventMTUUpdate

VARIABLES
    sender,      \* sender[p]: "idle", "notify" (about to run WriteNotify) or
                 \* "deliver" (at incomingPacket <- view)
    queued,      \* packets in the endpoint's queue
    tunReader,   \* RoutineReadFromTUN: "read", "busy", "done"
    mtu,         \* dev.mtu
    setMTU,      \* the setter: "idle", "stored" (mtu and ep), "set" (NIC)
    events,      \* the events channel
    eventReader, \* RoutineTUNEventReader: "range", "load" (before MTU()), "done"
    wgMTU,       \* wireguard-go's copy of the MTU
    closing,     \* the number of calls that Close has made
    panicked     \* the goroutine that sent on a closed channel

packetVars == <<sender, queued, tunReader>>
mtuVars == <<mtu, setMTU, events, eventReader, wgMTU>>
netTunVars == <<packetVars, mtuVars, closing, panicked>>

(* The calls of Close, in its order: RemoveNIC (and stack.Close),          *)
(* RemoveNotify, ep.Close, close(events), close(incomingPacket)            *)
NICRemoved == closing >= 1
NotifyRemoved == closing >= 2
EndpointClosed == closing >= 3
EventsClosed == closing >= 4
Closed == closing >= 5

(* CreateNetTUN; wireguard-go's NewDevice starts the loops and loads the MTU *)
CreateNetTUN ==
    /\ sender = [p \in Senders |-> "idle"]
    /\ queued = 0
    /\ tunReader = "read"
    /\ mtu = InitialMTU
    /\ setMTU = "idle"
    /\ events = <<"up">>
    /\ eventReader = "range"
    /\ wgMTU = mtu
    /\ closing = 0
    /\ panicked = None

--------------------------------------------------------------------------------
(* Packets out of the stack *)

(* gVisor's queue.Write: it copies the notifications to make under its     *)
(* lock.  A sender that had its route before RemoveNIC may still get in.   *)
Enqueue(p) ==
    /\ sender[p] = "idle"
    /\ ~EndpointClosed
    /\ queued < QueueSize
    /\ queued' = queued + 1
    /\ sender' = [sender EXCEPT ![p] = IF NotifyRemoved THEN "idle" ELSE "notify"]

(* WriteNotify: ep.Read does not wait *)
WriteNotify(p) ==
    /\ sender[p] = "notify"
    /\ queued' = IF queued = 0 THEN 0 ELSE queued - 1
    /\ sender' = [sender EXCEPT ![p] = IF queued = 0 THEN "idle" ELSE "deliver"]
    /\ UNCHANGED <<tunReader, mtuVars, closing, panicked>>

(* incomingPacket <- view meets Read's receive ... *)
Deliver(p) ==
    /\ sender[p] = "deliver"
    /\ ~Closed
    /\ tunReader = "read"
    /\ tunReader' = "busy"
    /\ sender' = [sender EXCEPT ![p] = "idle"]
    /\ UNCHANGED <<queued, mtuVars, closing, panicked>>

(* ... or a closed channel. *)
DeliverPanics(p) ==
    /\ sender[p] = "deliver"
    /\ Closed
    /\ panicked' = p
    /\ UNCHANGED <<packetVars, mtuVars, closing>>

(* wireguard-go encrypts the packet, comes back, and leaves at os.ErrClosed *)
Read ==
    /\ \/ tunReader = "busy" /\ tunReader' = "read"
       \/ tunReader = "read" /\ Closed /\ tunReader' = "done"
    /\ UNCHANGED <<sender, queued, mtuVars, closing, panicked>>

(* Write: InjectInbound reaches the stack while the NIC is attached. *)
Write == ~NICRemoved

--------------------------------------------------------------------------------
(* SetMTU and the event reader *)

SetMTU(m) ==
    /\ setMTU = "idle"
    /\ mtu' = m
    /\ setMTU' = "stored"
    /\ UNCHANGED <<packetVars, events, eventReader, wgMTU, closing, panicked>>

(* stack.SetNICMTU fails once the NIC is gone *)
SetNICMTU ==
    /\ setMTU = "stored"
    /\ setMTU' = IF NICRemoved THEN "idle" ELSE "set"
    /\ UNCHANGED <<packetVars, mtu, events, eventReader, wgMTU, closing, panicked>>

(* The event is dropped when the channel is full. *)
RoomForOne == events = <<>>
Room == Len(events) < EventSize
SendEvent ==
    /\ setMTU = "set"
    /\ setMTU' = "idle"
    /\ IF EventsClosed
       THEN panicked' = Setter /\ UNCHANGED events
       ELSE /\ events' = IF Room THEN Append(events, "mtu") ELSE events
            /\ UNCHANGED panicked
    /\ UNCHANGED <<packetVars, mtu, eventReader, wgMTU, closing>>

(* wireguard-go's event loop; EventUp calls device.Up, which is up already *)
(* or refuses.                                                             *)
TakeEvent ==
    /\ eventReader = "range"
    /\ events # <<>>
    /\ events' = Tail(events)
    /\ eventReader' = IF Head(events) = "mtu" THEN "load" ELSE "range"
    /\ UNCHANGED <<packetVars, mtu, setMTU, wgMTU, closing, panicked>>

(* MTU(): the current value, not the one of the event *)
MTU ==
    /\ eventReader = "load"
    /\ wgMTU' = mtu
    /\ eventReader' = "range"
    /\ UNCHANGED <<packetVars, mtu, setMTU, events, closing, panicked>>

EventsEnd ==
    /\ eventReader = "range"
    /\ events = <<>> /\ EventsClosed
    /\ eventReader' = "done"
    /\ UNCHANGED <<packetVars, mtu, setMTU, events, wgMTU, closing, panicked>>

--------------------------------------------------------------------------------
(* Close, called once, by device.Close; ep.Close discards what is queued *)
Close ==
    /\ ~Closed
    /\ closing' = closing + 1
    /\ queued' = IF EndpointClosed' THEN 0 ELSE queued
    /\ UNCHANGED <<sender, tunReader, mtuVars, panicked>>

(* What goes on by itself: a sender, the setter, wireguard-go's two loops *)
SenderSteps(p) == WriteNotify(p) \/ Deliver(p) \/ DeliverPanics(p)
SetterSteps == SetNICMTU \/ SendEvent
EventSteps == TakeEvent \/ MTU \/ EventsEnd
================================================================================
