--------------------------- MODULE TunnelSupervisor ---------------------------
(***************************************************************************)
(* runTunnel (tunnel.go) from the moment the WireGuard device is up: the   *)
(* supervising select loop and the goroutines it shares channels with.     *)
(*                                                                         *)
(*   main      the select loop and the deferred clean-up                   *)
(*   retry     retryEndpointOnHandshakeTimeout                             *)
(*   recovery  recoverWireGuardEndpoints, one slot per live goroutine      *)
(*   pinger    runUDPEchoPinger, reduced to its health events              *)
(*                                                                         *)
(* Channels: renegotiate and echoStopped have capacity one (number of      *)
(* buffered values); healthEvents is unbuffered, so a health event is a    *)
(* joint step of the pinger and main.  Cancelling a context is a flag that *)
(* the goroutine sees only where it selects on ctx.Done().                 *)
(*                                                                         *)
(* Time is abstract: a timer may fire whenever a goroutine waits for it.   *)
(***************************************************************************)
EXTENDS EndpointOrder, UDPEchoHealth

CONSTANTS
    Endpoints,       \* addresses that can be the peer's endpoint
    First,           \* p.endpoint
    CandidateQueue,  \* p.candidateQueue
    Rounds,          \* endpointRecoveryRounds
    MaxRecoveries    \* bound: recovery goroutines alive at the same time

ASSUME EndpointsAssumption ==
    /\ NoAddr \notin Endpoints
    /\ First \in Endpoints
    /\ CandidateQueue \in Seq(Endpoints)

ASSUME BoundsAssumption == Rounds \in Nat \ {0} /\ MaxRecoveries \in Nat \ {0}

Slots == 1..MaxRecoveries

(* knownEndpoints := append([]string{p.endpoint}, p.candidateQueue...) *)
Known == <<First>> \o CandidateQueue

VARIABLES
    main,         \* "starting", "select", "proxyClose", "waitWorkers", "returned"
    lifecycle,    \* lifecycleCtx is done
    recoveryCancel, \* the slot recoveryCancel cancels, 0 for nil
    renegotiate,  \* values buffered in the channel
    echoStopped,  \* values buffered in the channel
    pinger,       \* [pc, health, event]
    retry,        \* [pc, endpoint, queueIdx, watching, expired]; expired is that
                  \* candidateRetryMaxDuration has passed since devUpTime
    recovery,     \* [Slots -> [pc, round, todo, endpoint, cancelled]], with the
                  \* history fields tried (this round) and late (switches made
                  \* after cancellation)
    device,       \* [handshake, progress]: WireGuard's statistics of the peer
    baselineValid, \* baseline.valid
    verdict       \* history: main's last decision on a health event; "kept" when
                  \* it kept the tunnel up with no exhaustion pending,
                  \* "reestablished" when it ended a recovery, else "other"

vars == <<main, lifecycle, recoveryCancel, renegotiate, echoStopped,
          pinger, retry, recovery, device, baselineValid, verdict>>
mainVars == <<main, lifecycle, recoveryCancel, baselineValid>>

--------------------------------------------------------------------------------
(* The WireGuard device, as far as the tunnel reads and writes it *)

(* device.progress: rx_bytes or the last handshake have advanced since     *)
(* baseline was taken.  A first handshake sets last_handshake_time_sec.    *)
Handshake ==
    /\ main # "returned"
    /\ device' = [device EXCEPT !.handshake = TRUE, !.progress = TRUE]
    /\ UNCHANGED <<mainVars, renegotiate, echoStopped, pinger, retry, recovery, verdict>>

Traffic ==
    /\ main # "returned"
    /\ device.handshake
    /\ device' = [device EXCEPT !.progress = TRUE]
    /\ UNCHANGED <<mainVars, renegotiate, echoStopped, pinger, retry, recovery, verdict>>

(* The peer's endpoint itself is not a variable: WireGuard moves it to     *)
(* wherever authenticated traffic comes from, so a reader of the stats may *)
(* find any address.  switchEndpoint(dev, addr) succeeds (ok) or not, and  *)
(* the goroutine that called it then holds this current endpoint.          *)
switchEndpoint(current, addr, ok) == IF ok THEN addr ELSE current

--------------------------------------------------------------------------------
(* The parent context is cancelled: signal, or the end of the program. *)
CancelParent ==
    /\ ~lifecycle
    /\ lifecycle' = TRUE
    /\ UNCHANGED <<main, recoveryCancel, baselineValid, renegotiate, echoStopped,
                   pinger, retry, recovery, device, verdict>>

--------------------------------------------------------------------------------
(* retryEndpointOnHandshakeTimeout *)

retryFrame == UNCHANGED <<mainVars, device, echoStopped, pinger, recovery, verdict>>

(* A goroutine that has ended has no local state. *)
RetryEnded == [pc |-> "done", endpoint |-> First, queueIdx |-> 0,
               watching |-> FALSE, expired |-> FALSE]

Expire ==
    /\ retry.pc # "done"
    /\ ~retry.expired
    /\ retry' = [retry EXCEPT !.expired = TRUE]
    /\ UNCHANGED renegotiate
    /\ retryFrame

RetryCancelled ==
    /\ retry.pc \in {"select", "signal"}
    /\ lifecycle
    /\ retry' = RetryEnded
    /\ UNCHANGED renegotiate
    /\ retryFrame

(* case <-nominationSelected: the STUN bind still feeds the tracker, so a  *)
(* nomination of any address may come while the loop runs, once.  The      *)
(* channel is forgotten, and another endpoint is switched to at once.      *)
RetryNominated(selected, ok) ==
    /\ retry.pc = "select"
    /\ retry.watching
    /\ IF selected = retry.endpoint
       THEN retry' = [retry EXCEPT !.watching = FALSE]
       ELSE retry' = [retry EXCEPT !.watching = FALSE, !.pc = "stats",
                                   !.endpoint = switchEndpoint(@, selected, ok)]
    /\ UNCHANGED renegotiate
    /\ retryFrame

RetryTick ==
    /\ retry.pc = "select"
    /\ retry' = [retry EXCEPT !.pc = "stats"]
    /\ UNCHANGED renegotiate
    /\ retryFrame

(* dev.IpcGet and the decisions on what it says.  readable: IpcGet gave no *)
(* error; dwelled: candidateDwell has passed since the last switch.        *)
DecisionWithoutDeadline(readable, dwelled) ==
    CASE readable /\ device.handshake -> "done"
      [] readable /\ ~device.handshake /\ dwelled -> "next"
      [] OTHER -> "select"

RetryDecision(readable, dwelled) ==
    CASE ~readable -> IF retry.expired THEN "signal" ELSE "select"
      [] readable /\ device.handshake -> "done"
      [] readable /\ ~device.handshake /\ retry.expired -> "signal"
      [] OTHER -> IF dwelled THEN "next" ELSE "select"

RetryStats(readable, dwelled) ==
    /\ retry.pc = "stats"
    /\ LET pc == RetryDecision(readable, dwelled)
       IN  retry' = IF pc = "done" THEN RetryEnded ELSE [retry EXCEPT !.pc = pc]
    /\ UNCHANGED renegotiate
    /\ retryFrame

(* nextEndpointCandidate and the switch, on what IpcGet said before *)
RetryNext(ok) ==
    /\ retry.pc = "next"
    /\ LET c == nextEndpointCandidate(CandidateQueue, retry.queueIdx, retry.endpoint)
       IN  IF c.candidate = NoAddr
           THEN retry' = [retry EXCEPT !.pc = "signal", !.queueIdx = c.next]
           ELSE retry' = [retry EXCEPT !.pc = "select", !.queueIdx = c.next,
                                !.endpoint = switchEndpoint(@, c.candidate, ok)]
    /\ UNCHANGED renegotiate
    /\ retryFrame

(* signalEndpointExhaustion: case exhausted <- struct{}{} *)
RetrySignal ==
    /\ retry.pc = "signal"
    /\ renegotiate = 0
    /\ renegotiate' = 1
    /\ retry' = RetryEnded
    /\ retryFrame

Retry ==
    \/ RetryCancelled
    \/ RetryTick
    \/ RetrySignal
    \/ \E ok \in BOOLEAN : RetryNext(ok)
    \/ \E e \in Endpoints, ok \in BOOLEAN : RetryNominated(e, ok)
    \/ \E readable, dwelled \in BOOLEAN : RetryStats(readable, dwelled)

--------------------------------------------------------------------------------
(* recoverWireGuardEndpoints *)

(* No goroutine, or one that has ended *)
IdleRecovery == [pc |-> "done", round |-> 1, todo |-> <<>>, endpoint |-> NoAddr,
                 cancelled |-> FALSE, tried |-> {}, late |-> 0]

(* The slot of a goroutine that has ended is free, unless recoveryCancel   *)
(* still holds its cancel function.                                        *)
FreeSlots == {r \in Slots : recovery[r].pc = "done" /\ r # recoveryCancel}

(* A round starts with the order from the endpoint it is on. *)
StartRound(rec) ==
    [rec EXCEPT !.pc = "check", !.tried = {},
                !.todo = buildEndpointRecoveryOrder(rec.endpoint, Known)]

(* recoveryCtx is done with its parent or by its own cancel function. *)
ParentCtxOnly(r) == lifecycle
RecoveryCtxDone(r) == lifecycle \/ recovery[r].cancelled

recoveryFrame == UNCHANGED <<mainVars, device, echoStopped, pinger, retry, verdict>>

(* Every place that selects on ctx.Done() *)
RecoveryStops(r) ==
    /\ recovery[r].pc \in {"check", "dwell", "backoff", "signal"}
    /\ RecoveryCtxDone(r)
    /\ recovery' = [recovery EXCEPT ![r] = IdleRecovery]
    /\ UNCHANGED renegotiate
    /\ recoveryFrame

(* The poll of ctx before an endpoint is tried *)
RecoveryCheck(r) ==
    /\ recovery[r].pc = "check"
    /\ ~RecoveryCtxDone(r)
    /\ recovery' = [recovery EXCEPT ![r].pc = "switch"]
    /\ UNCHANGED renegotiate
    /\ recoveryFrame

RecoverySwitch(r, ok) ==
    /\ recovery[r].pc = "switch"
    /\ LET e == Head(recovery[r].todo)
       IN  recovery' = [recovery EXCEPT
              ![r].pc = "dwell",
              ![r].todo = Tail(@),
              ![r].endpoint = switchEndpoint(@, e, ok),
              ![r].tried = @ \cup {e},
              ![r].late = IF lifecycle \/ recovery[r].cancelled THEN @ + 1 ELSE @]
    /\ UNCHANGED renegotiate
    /\ recoveryFrame

(* waitForContext(ctx, endpointRecoveryInterval) saw the timer.  A context *)
(* that is done by then ends the wait at once; both becoming ready in the  *)
(* same instant is the timer coming first.                                 *)
RecoveryDwelled(r) ==
    /\ recovery[r].pc = "dwell"
    /\ ~RecoveryCtxDone(r)
    /\ recovery' = [recovery EXCEPT
          ![r].pc = IF recovery[r].todo = <<>> THEN "backoff" ELSE "check"]
    /\ UNCHANGED renegotiate
    /\ recoveryFrame

(* waitForContext(ctx, backoff) saw the timer *)
GivesUpSilently(rec) ==
    IF rec.round < Rounds
    THEN StartRound([rec EXCEPT !.round = @ + 1])
    ELSE IdleRecovery

SameRoundAgain(rec) ==
    IF rec.round < Rounds THEN StartRound(rec) ELSE [rec EXCEPT !.pc = "signal"]

NextRound(rec) ==
    IF rec.round < Rounds
    THEN StartRound([rec EXCEPT !.round = @ + 1])
    ELSE [rec EXCEPT !.pc = "signal"]

RecoveryBackedOff(r) ==
    /\ recovery[r].pc = "backoff"
    /\ ~RecoveryCtxDone(r)
    /\ recovery' = [recovery EXCEPT ![r] = NextRound(@)]
    /\ UNCHANGED renegotiate
    /\ recoveryFrame

(* case exhausted <- struct{}{}; possible even when ctx is done *)
RecoverySignal(r) ==
    /\ recovery[r].pc = "signal"
    /\ renegotiate = 0
    /\ renegotiate' = 1
    /\ recovery' = [recovery EXCEPT ![r] = IdleRecovery]
    /\ recoveryFrame

Recovery(r) ==
    \/ RecoveryStops(r)
    \/ RecoveryCheck(r)
    \/ \E ok \in BOOLEAN : RecoverySwitch(r, ok)
    \/ RecoveryDwelled(r)
    \/ RecoveryBackedOff(r)
    \/ RecoverySignal(r)

--------------------------------------------------------------------------------
(* runUDPEchoPinger, reduced to what the tunnel sees of it: one step per   *)
(* echo request.  EchoPinger models it in full.                            *)

pingerFrame == UNCHANGED <<mainVars, renegotiate, retry, recovery, device, verdict>>

(* Timing: an unhealthy event comes at least maxConsecutiveEchoFailures    *)
(* pauses of 2 s after the last answer.  By then the retry loop, which     *)
(* reads the handshake every second, has returned (only IpcGet failing on  *)
(* every tick could keep it); so has a recovery cancelled for that answer, *)
(* which waits for nothing any more; and main has taken an exhaustion      *)
(* signalled earlier.                                                      *)
LongAfterLastAnswer ==
    /\ retry.pc = "done"
    /\ \A r \in Slots : recovery[r].cancelled => recovery[r].pc = "done"
    /\ renegotiate = 0

(* An answer comes through the tunnel, so it needs a handshake. *)
PingerObserves(matched) ==
    /\ pinger.pc = "ping"
    /\ ~lifecycle
    /\ matched => device.handshake
    /\ LET event == HealthEvent(pinger.health, matched)
       IN  /\ event = "unhealthy" => LongAfterLastAnswer
           /\ pinger' = [pc |-> IF event = "none" THEN "ping" ELSE "send",
                         health |-> HealthAfter(pinger.health, matched),
                         event |-> event]
    /\ UNCHANGED echoStopped
    /\ pingerFrame

(* Where the pinger sees ctx.Done(): at every wait, and in the select that *)
(* sends the event.                                                        *)
SendIgnoresCtx == {"ping"}
PingerSelects == {"ping", "send"}

PingerStops ==
    /\ pinger.pc \in PingerSelects
    /\ lifecycle
    /\ pinger' = [pinger EXCEPT !.pc = "done", !.event = "none"]
    /\ UNCHANGED echoStopped
    /\ pingerFrame

(* A request that is no MTU probe cannot be written: the error is buffered *)
PingerFails ==
    /\ pinger.pc = "ping"
    /\ pinger' = [pinger EXCEPT !.pc = "done", !.event = "none"]
    /\ echoStopped' = 1
    /\ pingerFrame

Pinger == PingerStops \/ \E matched \in BOOLEAN : PingerObserves(matched)

--------------------------------------------------------------------------------
(* runTunnel's select loop *)

workerVars == <<renegotiate, echoStopped, pinger, retry>>

(* return: the deferred recoveryCancel() runs first.  Which error is       *)
(* returned is which of the actions below leaves the loop.                 *)
Leave ==
    /\ main' = "proxyClose"
    /\ recovery' = [r \in Slots |->
          IF r = recoveryCancel THEN [recovery[r] EXCEPT !.cancelled = TRUE] ELSE recovery[r]]

(* startSocks5Proxy fails (the proxy is not closed), or main gets to the   *)
(* loop with a baseline.                                                   *)
MainProxyFails ==
    /\ main = "starting"
    /\ main' = "waitWorkers"
    /\ lifecycle' = TRUE
    /\ UNCHANGED <<recoveryCancel, baselineValid, workerVars, recovery, device, verdict>>

MainStarted(valid) ==
    /\ main = "starting"
    /\ main' = "select"
    /\ baselineValid' = valid
    /\ device' = [device EXCEPT !.progress = FALSE]
    /\ UNCHANGED <<lifecycle, recoveryCancel, workerVars, recovery, verdict>>

MainCtxDone ==
    /\ main = "select"
    /\ lifecycle
    /\ Leave
    /\ UNCHANGED <<lifecycle, recoveryCancel, baselineValid, workerVars, device, verdict>>

MainEchoStopped ==
    /\ main = "select"
    /\ echoStopped = 1
    /\ echoStopped' = 0
    /\ Leave
    /\ UNCHANGED <<lifecycle, recoveryCancel, baselineValid, renegotiate, pinger, retry,
                   device, verdict>>

MainRenegotiates ==
    /\ main = "select"
    /\ renegotiate = 1
    /\ renegotiate' = 0
    /\ Leave
    /\ UNCHANGED <<lifecycle, recoveryCancel, baselineValid, echoStopped, pinger, retry,
                   device, verdict>>

(* wireGuardPathActiveSince.  valid: the stats could be read; recent: the  *)
(* last handshake is within wireGuardRecentHandshakeWindow.                *)
PathActive(valid, recent) ==
    /\ valid
    /\ IF baselineValid THEN device.progress ELSE device.handshake /\ recent

(* case event := <-healthEvents, and the pinger goes on to its next round *)
Received(event) ==
    /\ main = "select"
    /\ pinger.pc = "send"
    /\ pinger.event = event
    /\ pinger' = [pinger EXCEPT !.pc = "ping", !.event = "none"]
    /\ UNCHANGED <<lifecycle, renegotiate, echoStopped, retry>>

TakeBaseline(valid) ==
    /\ baselineValid' = valid
    /\ device' = [device EXCEPT !.progress = FALSE]

MainHealthy(valid) ==
    /\ Received("healthy")
    /\ TakeBaseline(valid)
    /\ recovery' = [r \in Slots |->
          IF r = recoveryCancel THEN [recovery[r] EXCEPT !.cancelled = TRUE] ELSE recovery[r]]
    /\ recoveryCancel' = 0
    /\ verdict' = IF recoveryCancel # 0 THEN "reestablished" ELSE "other"
    /\ UNCHANGED main

MainStartupFailed ==
    /\ Received("startupFailed")
    /\ Leave
    /\ verdict' = "other"
    /\ UNCHANGED <<recoveryCancel, baselineValid, device>>

MainKeepsTunnel(valid, recent) ==
    /\ Received("unhealthy")
    /\ PathActive(valid, recent)
    /\ TakeBaseline(valid)
    /\ verdict' = IF renegotiate = 0 THEN "kept" ELSE "other"
    /\ UNCHANGED <<main, recoveryCancel, recovery>>

(* if recoveryCancel == nil *)
MayStartAlways == TRUE
MayStart == recoveryCancel = 0

(* current.endpoint: any address, or none when the stats are not valid *)
MainStartsRecovery(valid, recent, current, r) ==
    /\ Received("unhealthy")
    /\ ~PathActive(valid, recent)
    /\ current # NoAddr <=> valid
    /\ MayStart
    /\ r \in FreeSlots /\ \A q \in FreeSlots : r <= q
    /\ recoveryCancel' = r
    /\ recovery' = [recovery EXCEPT ![r] =
          StartRound([IdleRecovery EXCEPT !.endpoint = current])]
    /\ verdict' = "other"
    /\ UNCHANGED <<main, baselineValid, device>>

MainAlreadyRecovering(valid, recent) ==
    /\ Received("unhealthy")
    /\ ~PathActive(valid, recent)
    /\ ~MayStart
    /\ verdict' = "other"
    /\ UNCHANGED <<main, recoveryCancel, recovery, baselineValid, device>>

(* The deferred calls: proxy.Close(), stopLifecycle(), workerWG.Wait() and *)
(* dev.Close(), in this order.                                             *)
MainProxyClosed ==
    /\ main = "proxyClose"
    /\ main' = "waitWorkers"
    /\ lifecycle' = TRUE
    /\ UNCHANGED <<recoveryCancel, baselineValid, workerVars, recovery, device, verdict>>

(* workerWG counts the retry loop, the pinger and every recovery. *)
WorkersDone ==
    /\ retry.pc = "done"
    /\ pinger.pc = "done"
    /\ \A r \in Slots : recovery[r].pc = "done"

MainReturns ==
    /\ main = "waitWorkers"
    /\ WorkersDone
    /\ main' = "returned"
    /\ UNCHANGED <<lifecycle, recoveryCancel, baselineValid, workerVars, recovery,
                   device, verdict>>

Main ==
    \/ MainProxyFails
    \/ MainCtxDone \/ MainEchoStopped \/ MainRenegotiates \/ MainStartupFailed
    \/ \E valid \in BOOLEAN : MainStarted(valid) \/ MainHealthy(valid)
    \/ \E valid, recent \in BOOLEAN :
          \/ MainKeepsTunnel(valid, recent)
          \/ MainAlreadyRecovering(valid, recent)
          \/ \E e \in Endpoints \cup {NoAddr}, r \in Slots :
                MainStartsRecovery(valid, recent, e, r)
    \/ MainProxyClosed \/ MainReturns

--------------------------------------------------------------------------------
(* The device is up and the workers have been started; the server gave an  *)
(* echo endpoint or not (then the pinger has returned nil at once).        *)
Init ==
    /\ main = "starting"
    /\ lifecycle = FALSE
    /\ recoveryCancel = 0
    /\ renegotiate = 0
    /\ echoStopped = 0
    /\ pinger \in {[pc |-> p, health |-> NewHealth, event |-> "none"] : p \in {"ping", "done"}}
    /\ retry = [pc |-> "select", endpoint |-> First, queueIdx |-> 0, watching |-> TRUE,
                expired |-> FALSE]
    /\ recovery = [r \in Slots |-> IdleRecovery]
    /\ device = [handshake |-> FALSE, progress |-> FALSE]
    /\ baselineValid = FALSE
    /\ verdict = "other"

Environment ==
    \/ Handshake
    \/ Traffic
    \/ CancelParent

(* runTunnel has returned: the only place where nothing is left to do *)
Finished == main = "returned" /\ UNCHANGED vars

Next ==
    \/ Environment
    \/ Finished
    \/ Main
    \/ Retry
    \/ Expire
    \/ Pinger
    \/ PingerFails
    \/ \E r \in Slots : Recovery(r)

Spec == Init /\ [][Next]_vars

(* Goroutines run on, timers fire and the 60 s of the retry loop pass.     *)
(* Go's select picks at random among the ready cases, so a case of main's  *)
(* that stays ready is taken in the end, however many health events come.  *)
(* Nothing is asked of the network, the console, the user or write errors. *)
Fairness ==
    /\ WF_vars(Main)
    /\ WF_vars(MainCtxDone)
    /\ WF_vars(MainRenegotiates)
    /\ WF_vars(Retry)
    /\ WF_vars(Pinger)
    /\ WF_vars(Expire)
    /\ \A r \in Slots : WF_vars(Recovery(r))

FairSpec == Spec /\ Fairness

--------------------------------------------------------------------------------
(* Properties *)

TypeOK ==
    /\ main \in {"starting", "select", "proxyClose", "waitWorkers", "returned"}
    /\ lifecycle \in BOOLEAN
    /\ recoveryCancel \in {0} \cup Slots
    /\ renegotiate \in 0..1
    /\ echoStopped \in 0..1
    /\ pinger \in [pc : {"ping", "send", "done"}, health : Health, event : Events]
    /\ retry \in [pc : {"select", "stats", "next", "signal", "done"},
                  endpoint : Endpoints, queueIdx : 0..Len(CandidateQueue),
                  watching : BOOLEAN, expired : BOOLEAN]
    /\ recovery \in [Slots ->
          [pc : {"check", "switch", "dwell", "backoff", "signal", "done"},
           round : 1..Rounds, todo : Seq(Endpoints), endpoint : Endpoints \cup {NoAddr},
           cancelled : BOOLEAN, tried : SUBSET Endpoints, late : Nat]]
    /\ device \in [handshake : BOOLEAN, progress : BOOLEAN]
    /\ baselineValid \in BOOLEAN
    /\ verdict \in {"kept", "reestablished", "other"}

(* Supervision never goes blind: while main still waits for a recovery it  *)
(* started (recoveryCancel is set, so it starts no other), that recovery   *)
(* is running, or its exhaustion is already in the channel, or the tunnel  *)
(* is being shut down.                                                     *)
RecoveryHandsOver ==
    main = "select" /\ recoveryCancel # 0 /\ ~lifecycle
        => recovery[recoveryCancel].pc # "done" \/ renegotiate = 1

(* Cancelling a recovery is asynchronous, but it stops within one endpoint *)
(* switch: a re-established tunnel is not driven round the candidates.     *)
CancelledRecoveryStops == \A r \in Slots : recovery[r].late <= 1

(* Two recoveries never compete for the peer's endpoint. *)
OneLiveRecovery ==
    \A r, s \in Slots :
        /\ recovery[r].pc # "done" /\ ~recovery[r].cancelled
        /\ recovery[s].pc # "done" /\ ~recovery[s].cancelled
        => r = s

(* A recovery gives up only after every known endpoint was tried in each   *)
(* of its rounds, wherever the peer's endpoint was when it started.        *)
AllKnownTriedBeforeGivingUp ==
    \A r \in Slots :
        /\ recovery[r].pc \in {"backoff", "signal"} => ToSet(Known) \subseteq recovery[r].tried
        /\ recovery[r].pc = "signal" => recovery[r].round = Rounds

(* Once the context is cancelled or the loop is left, runTunnel returns:   *)
(* no worker stays blocked on healthEvents, renegotiate or a timer.        *)
ShutdownCompletes == (lifecycle \/ main = "proxyClose") ~> main = "returned"

(* A tunnel that never gets a handshake is given up: the retry loop ends,  *)
(* its exhaustion reaches main, and main returns for a new negotiation.    *)
StartupResolved == main = "select" ~> (device.handshake \/ main = "returned")

(* Every recovery ends. *)
RecoveryEnds == \A r \in Slots : recovery[r].pc = "check" ~> recovery[r].pc = "done"

(* "If those endpoints remain unreachable, it closes the old tunnel"       *)
(* (README.md): a tunnel that main has declared reestablished is not       *)
(* closed for renegotiation before another health event.  Violated by an   *)
(* exhaustion that the ended recovery had already put into the channel.    *)
ReestablishedTunnelStaysUp == [][~(MainRenegotiates /\ verdict = "reestablished")]_vars

(* "It keeps a demonstrably active tunnel up if only the echo service is   *)
(* unavailable" (README.md): a tunnel that main has decided to keep is not *)
(* closed for renegotiation before another health event.  Violated by a    *)
(* recovery that was started earlier and goes on to its end.               *)
ActiveTunnelIsKept == [][~(MainRenegotiates /\ verdict = "kept")]_vars
================================================================================
