------------------------------ MODULE EchoPinger ------------------------------
(***************************************************************************)
(* runUDPEchoPinger (udpecho.go) with the MTU prober it drives and the MTU *)
(* of the netstack it sets (netTun.SetMTU): one echo request at a time,    *)
(* through the tunnel, each either a plain one or a padded MTU probe.      *)
(*                                                                         *)
(* The request number is reduced to what the code does with it: request 0  *)
(* is treated as the startup request (first), and an answer is to the      *)
(* current request or to an earlier one ("stale").  The path carries a     *)
(* probe only if it is no larger than the path MTU, which may change; a    *)
(* plain request fits every path that is up.                               *)
(***************************************************************************)
EXTENDS PeerMTUProber, UDPEchoHealth

CONSTANTS
    ManualMTUs,   \* configured MTUs to consider; 0 is automatic probing
    PathMTUs      \* MTUs of the path; 0 is a path that is down

ASSUME MTUsAssumption == ManualMTUs \subseteq Nat /\ PathMTUs \subseteq Nat

VARIABLES
    pc,       \* "top", "write", "wait", "send", "pause", "done"
    first,    \* requestID = 0
    probing,  \* targetMTU of a probe, 0 for a plain request
    health,   \* udpEchoHealth
    event,    \* the health event being sent
    prober,   \* the peerMTUProber
    mtu,      \* the MTU of the TUN device and its link endpoint
    nic,      \* the stack still has the NIC (tun not closed)
    ctxDone,  \* lifecycleCtx is done
    replies,  \* answers under way: "current", "stale"
    path,     \* the path MTU now
    carried   \* history: probe sizes the path answered since the last reset

vars == <<pc, first, probing, health, event, prober, mtu, nic, ctxDone,
          replies, path, carried>>
envVars == <<nic, ctxDone, path>>

--------------------------------------------------------------------------------
(* for requestID := 0; ; requestID++: choose the request *)

TopCancelled ==
    /\ pc = "top"
    /\ ctxDone
    /\ pc' = "done"
    /\ UNCHANGED <<first, probing, health, event, prober, mtu, replies, carried, envVars>>

ProbeTarget == IF ~first /\ health.ready THEN NextProbeMTU(prober) ELSE 0

TopPlain ==
    /\ pc = "top"
    /\ ~ctxDone
    /\ ProbeTarget = 0
    /\ pc' = "write"
    /\ probing' = 0
    /\ UNCHANGED <<first, health, event, prober, mtu, replies, carried, envVars>>

(* tunnelNet.SetMTU stores the MTU before SetNICMTU can fail: on a removed *)
(* NIC the probe is dropped and a plain request goes out instead.          *)
TopProbe ==
    /\ pc = "top"
    /\ ~ctxDone
    /\ ProbeTarget # 0
    /\ pc' = "write"
    /\ mtu' = ProbeTarget
    /\ IF nic
       THEN probing' = ProbeTarget /\ UNCHANGED prober
       ELSE probing' = 0 /\ prober' = RecordProbeResult(prober, ProbeTarget, FALSE)
    /\ UNCHANGED <<first, health, event, replies, carried, envVars>>

--------------------------------------------------------------------------------
(* conn.Write *)

Written ==
    /\ pc = "write"
    /\ pc' = "wait"
    /\ replies' = IF replies = {} THEN {} ELSE {"stale"}
    /\ UNCHANGED <<first, probing, health, event, prober, mtu, carried, envVars>>

(* A probe that cannot be written is a failed probe: the netstack goes     *)
(* back to the confirmed MTU and the round ends without a health verdict.  *)
LeaveProbeMTU(confirmed) == UNCHANGED mtu
RevertMTU(confirmed) == mtu' = confirmed

ProbeNotWritten ==
    /\ pc = "write"
    /\ probing # 0
    /\ prober' = RecordProbeResult(prober, probing, FALSE)
    /\ RevertMTU(prober'.confirmed)
    /\ pc' = "pause"
    /\ UNCHANGED <<first, probing, health, event, replies, carried, envVars>>

(* return fmt.Errorf("write UDP echo request ...") *)
PlainNotWritten ==
    /\ pc = "write"
    /\ probing = 0
    /\ pc' = "done"
    /\ UNCHANGED <<first, probing, health, event, prober, mtu, replies, carried, envVars>>

--------------------------------------------------------------------------------
(* waitForEchoResponse *)

(* responseID != wantID is discarded and the wait goes on. *)
AcceptsAny(reply) == TRUE
Accepts(reply) == reply = "current"

DiscardStale ==
    /\ pc = "wait"
    /\ \E r \in replies : ~Accepts(r) /\ replies' = replies \ {r}
    /\ UNCHANGED <<pc, first, probing, health, event, prober, mtu, carried, envVars>>

(* After the wait: record the probe, set the MTU to what is confirmed, and *)
(* derive the health event; sustained loss puts the MTU back to the        *)
(* baseline before the event is sent.                                      *)
ResetsManualToo(ev, p) == ev = "unhealthy"
ResetsMTU(ev, p) == ev = "unhealthy" /\ p.state # "disabled"

ConcludeRequest(matched) ==
    LET recorded == IF probing # 0 THEN RecordProbeResult(prober, probing, matched) ELSE prober
        ev == HealthEvent(health, matched)
        reset == ResetsMTU(ev, recorded)
    IN  /\ prober' = IF reset THEN Reset(recorded) ELSE recorded
        /\ mtu' = CASE reset -> Base
                    [] ~reset /\ probing # 0 -> recorded.confirmed
                    [] OTHER -> mtu
        /\ carried' = IF reset THEN {} ELSE carried
        /\ health' = HealthAfter(health, matched)
        /\ event' = ev
        /\ pc' = IF ev = "none" THEN "pause" ELSE "send"
        /\ UNCHANGED <<first, probing, envVars>>

Matched ==
    /\ pc = "wait"
    /\ ~ctxDone
    /\ \E r \in replies : Accepts(r) /\ replies' = replies \ {r}
    /\ ConcludeRequest(TRUE)

(* The deadline (3 s, or 95 s for the startup request), or a read error *)
Unmatched ==
    /\ pc = "wait"
    /\ ~ctxDone
    /\ ConcludeRequest(FALSE)
    /\ UNCHANGED replies

WaitCancelled ==
    /\ pc = "wait"
    /\ ctxDone
    /\ pc' = "done"
    /\ UNCHANGED <<first, probing, health, event, prober, mtu, replies, carried, envVars>>

--------------------------------------------------------------------------------
(* The event and the pause *)

(* main takes the event; an answered plain request arms the prober again *)
Sent ==
    /\ pc = "send"
    /\ pc' = "pause"
    /\ event' = "none"
    /\ prober' = IF event = "healthy" /\ probing = 0 THEN Arm(prober) ELSE prober
    /\ UNCHANGED <<first, probing, health, mtu, replies, carried, envVars>>

Paused ==
    /\ pc = "pause"
    /\ ~ctxDone
    /\ pc' = "top"
    /\ first' = FALSE
    /\ UNCHANGED <<probing, health, event, prober, mtu, replies, carried, envVars>>

SendOrPauseCancelled ==
    /\ pc \in {"send", "pause"}
    /\ ctxDone
    /\ pc' = "done"
    /\ event' = "none"
    /\ UNCHANGED <<first, probing, health, prober, mtu, replies, carried, envVars>>

Pinger ==
    \/ TopCancelled \/ TopPlain \/ TopProbe
    \/ Written \/ ProbeNotWritten \/ PlainNotWritten
    \/ DiscardStale \/ Matched \/ Unmatched \/ WaitCancelled
    \/ Sent \/ Paused \/ SendOrPauseCancelled

--------------------------------------------------------------------------------
(* The console, the path, and the rest of the client *)

pingerVars == <<pc, first, probing, health, event, prober, mtu>>

(* The console answers the current request if the path carries it.  The    *)
(* startup request is sent again every 3 s; that adds nothing here.        *)
EchoReply ==
    /\ pc = "wait"
    /\ path # 0
    /\ probing <= path
    /\ replies' = replies \cup {"current"}
    /\ carried' = IF probing # 0 THEN carried \cup {probing} ELSE carried
    /\ UNCHANGED <<pingerVars, envVars>>

(* An answer to an earlier request turns up. *)
LateReply ==
    /\ pc = "wait"
    /\ ~first
    /\ replies' = replies \cup {"stale"}
    /\ UNCHANGED <<pingerVars, carried, envVars>>

PathChanges(m) ==
    /\ path' = m
    /\ UNCHANGED <<pingerVars, nic, ctxDone, replies, carried>>

TunClosed ==
    /\ nic
    /\ nic' = FALSE
    /\ UNCHANGED <<pingerVars, ctxDone, path, replies, carried>>

Cancel ==
    /\ ~ctxDone
    /\ ctxDone' = TRUE
    /\ UNCHANGED <<pingerVars, nic, path, replies, carried>>

Finished == pc = "done" /\ UNCHANGED vars

Init ==
    /\ pc = "top"
    /\ first = TRUE
    /\ probing = 0
    /\ health = NewHealth
    /\ event = "none"
    /\ \E manual \in ManualMTUs : prober = newPeerMTUProber(manual)
    /\ mtu = prober.confirmed
    /\ nic = TRUE
    /\ ctxDone = FALSE
    /\ replies = {}
    /\ path \in PathMTUs
    /\ carried = {}

Next ==
    \/ Pinger
    \/ EchoReply
    \/ LateReply
    \/ \E m \in PathMTUs : PathChanges(m)
    \/ TunClosed
    \/ Cancel
    \/ Finished

Spec == Init /\ [][Next]_vars

(* The pinger's goroutine runs on and its timers fire; that main takes the *)
(* event, or cancels, is TunnelSupervisor's part.  The ceiling of a wait   *)
(* is fixed when it starts, so discarding answers cannot prolong it.       *)
FairSpec ==
    /\ Spec
    /\ WF_vars(Pinger)
    /\ WF_vars(Matched \/ Unmatched \/ WaitCancelled)

--------------------------------------------------------------------------------
(* Properties *)

TypeOK ==
    /\ pc \in {"top", "write", "wait", "send", "pause", "done"}
    /\ first \in BOOLEAN
    /\ probing \in Nat
    /\ health \in Health
    /\ event \in Events
    /\ prober \in Probers
    /\ mtu \in Nat
    /\ nic \in BOOLEAN
    /\ ctxDone \in BOOLEAN
    /\ replies \subseteq {"current", "stale"}
    /\ path \in Nat
    /\ carried \subseteq Nat

(* While no probe is outstanding, applications see the confirmed MTU: no   *)
(* outcome of a probe, a failed write included, leaves the netstack at the *)
(* probe's size.  (On a removed NIC SetMTU has no effect that matters.)    *)
StackMTUIsConfirmed ==
    nic /\ (pc \in {"top", "send", "pause"} \/ (pc = "wait" /\ probing = 0))
        => mtu = prober.confirmed

(* An MTU above the baseline was answered at exactly that size since the   *)
(* last reset: late answers to other requests confirm nothing.             *)
ConfirmedWasCarried ==
    ~prober.manual => prober.confirmed \in carried \cup {Base}

(* Recovery starts from the baseline: when the unhealthy event is offered  *)
(* to the supervisor, the MTU is already the one every path carries, and   *)
(* nothing larger is probed before an answered plain request.              *)
UnhealthyAtBaseline ==
    pc = "send" /\ event = "unhealthy" /\ ~prober.manual
        => mtu = Base /\ prober.confirmed = Base /\ NextProbeMTU(prober) = 0

(* A configured MTU is never touched, whatever happens to the echo; else   *)
(* the netstack never sends above the ceiling of the route, not even for   *)
(* the length of a probe.                                                  *)
MTUWithinLimits ==
    IF prober.manual
    THEN mtu = prober.confirmed /\ prober.confirmed \in ManualMTUs \ {0}
    ELSE mtu <= Ceiling

(* A search ends: once the tunnel is ready, after finitely many probes     *)
(* there is nothing left to probe, or the loss of the path has reset the   *)
(* search.                                                                 *)
SearchEnds ==
    health.ready /\ NextProbeMTU(prober) # 0
        ~> NextProbeMTU(prober) = 0 \/ pc = "done"
================================================================================
