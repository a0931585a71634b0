------------------------------ MODULE Negotiation ------------------------------
(***************************************************************************)
(* One connection attempt (runConnectionAttempt, main.go) and the outer    *)
(* UDP sockets it hands from reader to reader: STUN discovery, the early   *)
(* nomination listener, the fallback probe and WireGuard's bind.           *)
(*                                                                         *)
(* Only one of them may read a socket at a time, or it takes datagrams     *)
(* meant for another.  A reader parked in ReadFromUDP is woken by a read   *)
(* deadline in the past, and that deadline belongs to the socket, not to   *)
(* the reader: whoever comes next inherits it unless it was cleared.       *)
(*                                                                         *)
(* On the way it chooses the endpoint (nominated, observed, probed or      *)
(* guessed) and the queue of candidates the tunnel falls back to.          *)
(* Candidate gathering, the cloud requests and the tunnel appear as the    *)
(* steps they take on this state; what the tunnel does while it is up is   *)
(* TunnelSupervisor.                                                       *)
(***************************************************************************)
EXTENDS NominationTracker, CandidateOrder

CONSTANTS
    Sockets,        \* the open outer sockets, one per address family
    Reaching,       \* the tuples whose datagrams reach the client
    Advertisements, \* the candidate lists CONNECT_RESPONSE may carry
    MaxLogs,        \* maxEarlyNominationLogs, in requests: one is logged with its answer
    Slack           \* the room of the responses channel beyond one per target

Candidates == [addr : Addrs, type : {"iface", "reflex", "turn", "other"}]

ASSUME SocketAssumption ==
    /\ NoAddr = None /\ None \notin {"v4", "v6"}
    /\ Sockets \subseteq {"v4", "v6"} /\ Sockets # {}
    /\ FamilyOf \in [Addrs -> {"v4", "v6", NoAddr}]
    /\ Reaching \subseteq Addrs
    /\ Advertisements \subseteq Seq(Candidates)
    /\ MaxLogs \in Nat \ {0} /\ Slack \in Nat

Kinds == {"listener", "probe", "bind"}
NoCall == [kind |-> "none", step |-> "none"]

VARIABLES
    turn,         \* flags.forceTurn
    override,     \* flags.endpointOverride
    pc,           \* the phase of the attempt
    call,         \* the Stop or bind Close it is in: the kind of reader and the step
    undiscovered, \* sockets without a finished STUN discovery
    discovering,  \* the socket discovery reads from
    local,        \* the families with a local candidate
    peerCandidates, \* peerCandidates of negotiateEndpoint
    compatible,   \* compatibleCandidates(sockets, peerCandidates, local)
    endpoint,     \* the endpoint of negotiateEndpoint
    queue,        \* candidateQueue
    prober,       \* the goroutine of startPeerCandidateProbes
    logs,         \* the Binding Requests in the listener's log, by tuple
    heard,        \* history: the tuples whose requests came before the log is read
    overflowed,   \* history: by then a request found the log full
    deadline,     \* read deadline of each socket: "none", "future" or "past"
    told,         \* told[k]: the done channel of the readers of kind k is closed
    reader,       \* reader[k][s]: "off", "check" (before the done check), "read",
                  \* "send" (only the probe's: into responses), "done"
    sending,      \* sending[s]: the address the probe's reader of s sends
    responses,    \* the responses channel of the fallback probe
    bestRank,     \* its bestRank, counted from 1; 0 for none
    answered,     \* history: the targets whose answers it has taken
    ctxDone       \* ctx is done (interrupt)

flagVars == <<turn, override>>
gatherVars == <<undiscovered, discovering, local>>
candVars == <<peerCandidates, compatible>>
choiceVars == <<candVars, endpoint, queue>>
logVars == <<logs, heard, overflowed>>
socketVars == <<deadline, told, reader>>
probeVars == <<sending, responses, bestRank, answered>>
attemptVars == <<flagVars, pc, call, gatherVars, choiceVars>>
vars == <<trackerVars, attemptVars, prober, logVars, socketVars, probeVars, ctxDone>>

At(p) == pc = p /\ call = NoCall

--------------------------------------------------------------------------------
(* Starting readers, and udpReadStopper.Stop *)

(* listener and probe goroutines check done before each read; WireGuard's  *)
(* receive functions read at once.                                         *)
Start(k) ==
    reader' = [reader EXCEPT ![k] =
                 [s \in Sockets |-> IF k = "bind" THEN "read" ELSE "check"]]

(* Stop(); stopOnce makes the second call a no-op, and a listener that was *)
(* never created has nothing to stop.                                      *)
Started(k) == \E s \in Sockets : reader[k][s] # "off"
Stop(k) ==
    call' = IF Started(k) /\ ~told[k] THEN [kind |-> k, step |-> "close"] ELSE NoCall

(* close(u.done) *)
StopCloses ==
    /\ call.step = "close"
    /\ told' = [told EXCEPT ![call.kind] = TRUE]
    /\ call' = [call EXCEPT !.step = "deadline"]
    /\ UNCHANGED <<trackerVars, flagVars, pc, gatherVars, choiceVars, prober, logVars,
                   deadline, reader, probeVars, ctxDone>>

(* setUDPReadDeadline(u.sockets, time.Now()) *)
DeadlineKept == deadline
DeadlinePast == [s \in Sockets |-> "past"]
StopExpires ==
    /\ call.step = "deadline"
    /\ deadline' = DeadlinePast
    /\ call' = [call EXCEPT !.step = "wait"]
    /\ UNCHANGED <<trackerVars, flagVars, pc, gatherVars, choiceVars, prober, logVars,
                   told, reader, probeVars, ctxDone>>

(* u.wg.Wait(), or wireguard-go's wait for its receive routines *)
WaitSkipped(k) == TRUE
AllExited(k) == \A s \in Sockets : reader[k][s] \in {"off", "done"}

(* ... and then the deadlines are cleared; the bind's Close leaves them. *)
StopReturns ==
    /\ call.step = "wait"
    /\ AllExited(call.kind)
    /\ deadline' = IF call.kind = "bind" THEN deadline ELSE [s \in Sockets |-> "none"]
    /\ call' = NoCall
    /\ UNCHANGED <<trackerVars, flagVars, pc, gatherVars, choiceVars, prober, logVars,
                   told, reader, probeVars, ctxDone>>

StopSteps == StopCloses \/ StopExpires \/ StopReturns

--------------------------------------------------------------------------------
(* The readers *)

(* readUDPPacket: the done check *)
ReaderChecks(k, s) ==
    /\ reader[k][s] = "check"
    /\ reader' = [reader EXCEPT ![k][s] = IF told[k] THEN "done" ELSE "read"]
    /\ UNCHANGED <<trackerVars, attemptVars, prober, logVars, deadline, told, probeVars, ctxDone>>

(* A read whose deadline has passed fails, and the reader exits on any     *)
(* error (WireGuard's after some retries, at once when told).              *)
ReaderFails(k, s) ==
    /\ reader[k][s] = "read"
    /\ deadline[s] = "past"
    /\ reader' = [reader EXCEPT ![k][s] = "done"]
    /\ UNCHANGED <<trackerVars, attemptVars, prober, logVars, deadline, told, probeVars, ctxDone>>

(* allows(addr): in TURN-only mode, the compatible relays *)
AllowsAny(a) == TRUE
allows(a) == turn => a \in ToSet(Addresses(peerCandidates))

(* The console knows the STUN secret from CONNECT on. *)
Delivered(k, a) ==
    /\ a \in Reaching
    /\ FamilyOf[a] \in Sockets
    /\ reader[k][FamilyOf[a]] = "read"
    /\ deadline[FamilyOf[a]] # "past"
    /\ pc \notin {"gather", "closed"}

Reads(k, s) == reader' = [reader EXCEPT ![k][s] = "check"]

(* appendLog: the oldest entry makes room for a new one. *)
LogTooSmall(log, a) == Append(IF Len(log) + 1 >= MaxLogs THEN Tail(log) ELSE log, a)
appendLog(log, a) == Append(IF Len(log) >= MaxLogs THEN Tail(log) ELSE log, a)

(* Logs() is called once; with an endpoint override, never.  For history:  *)
(* what came while it might still be read.                                 *)
LogIsUnread == pc \in {"connect", "activate", "await", "logs"}
Remembered(a) ==
    IF LogIsUnread
    THEN heard' = heard \cup {a} /\ overflowed' = (overflowed \/ Len(logs) = MaxLogs)
    ELSE UNCHANGED <<heard, overflowed>>

(* earlyNominationListener.readLoop: log the request, feed the tracker.  A *)
(* request that fails authentication or has no wait changes the tracker no *)
(* more than one with an unexpected wait.  Other datagrams only take room  *)
(* in the log.                                                             *)
ListenerHears(a, w) ==
    /\ Delivered("listener", a)
    /\ Reads("listener", FamilyOf[a])
    /\ IF allows(a)
       THEN logs' = appendLog(logs, a) /\ Remembered(a) /\ observe(a, w)
       ELSE UNCHANGED <<logVars, trackerVars>>
    /\ UNCHANGED <<attemptVars, prober, deadline, told, probeVars, ctxDone>>

(* stunBind.handleSTUN *)
BindHears(a, w) ==
    /\ Delivered("bind", a)
    /\ observe(a, w)
    /\ UNCHANGED <<attemptVars, prober, logVars, socketVars, probeVars, ctxDone>>

(* readResponses of the fallback probe: any datagram is an answer of its   *)
(* sender, and the tracker sees none of them.                              *)
ProbeHears(a) ==
    /\ Delivered("probe", a)
    /\ reader' = [reader EXCEPT !["probe"][FamilyOf[a]] = "send"]
    /\ sending' = [sending EXCEPT ![FamilyOf[a]] = a]
    /\ UNCHANGED <<trackerVars, attemptVars, prober, logVars, deadline, told, responses,
                   bestRank, answered, ctxDone>>

(* ... which it sends into responses, unless told to stop: a full channel  *)
(* is read no more once the probe has its result.                          *)
ReaderSends(s) ==
    /\ reader["probe"][s] = "send"
    /\ Len(responses) < Len(compatible) + Slack
    /\ responses' = Append(responses, sending[s])
    /\ sending' = [sending EXCEPT ![s] = None]
    /\ Reads("probe", s)
    /\ UNCHANGED <<trackerVars, attemptVars, prober, logVars, deadline, told, bestRank,
                   answered, ctxDone>>

NeverToldToStop(s) == FALSE
ToldToStop(s) == told["probe"]
ReaderGivesUp(s) ==
    /\ reader["probe"][s] = "send"
    /\ ToldToStop(s)
    /\ reader' = [reader EXCEPT !["probe"][s] = "done"]
    /\ sending' = [sending EXCEPT ![s] = None]
    /\ UNCHANGED <<trackerVars, attemptVars, prober, logVars, deadline, told, responses,
                   bestRank, answered, ctxDone>>

(* What the reader of socket s, of whatever kind, does by itself *)
ReaderGoesOn(s) ==
    \/ \E k \in Kinds : ReaderChecks(k, s) \/ ReaderFails(k, s)
    \/ ReaderSends(s) \/ ReaderGivesUp(s)

--------------------------------------------------------------------------------
(* gatherLocalCandidates *)

(* reflexiveCandidateFromConn up to its read; without a usable STUN server *)
(* it returns before it touches the socket.                                *)
DiscoveryStarts(s) ==
    /\ At("gather")
    /\ discovering = None
    /\ s \in undiscovered
    /\ undiscovered' = undiscovered \ {s}
    /\ \/ discovering' = s /\ deadline' = [deadline EXCEPT ![s] = "future"]
       \/ UNCHANGED <<discovering, deadline>>
    /\ UNCHANGED <<trackerVars, flagVars, pc, call, local, choiceVars, prober, logVars,
                   told, reader, probeVars, ctxDone>>

(* It returns with an answer or at its deadline, which the defer clears. *)
KeepDeadline(s) == deadline
ClearDeadline(s) == [deadline EXCEPT ![s] = "none"]
DiscoveryReturns ==
    /\ At("gather")
    /\ discovering # None
    /\ deadline' = ClearDeadline(discovering)
    /\ discovering' = None
    /\ UNCHANGED <<trackerVars, flagVars, pc, call, undiscovered, local, choiceVars,
                   prober, logVars, told, reader, probeVars, ctxDone>>

(* A deadline in the future passes. *)
DeadlinePasses(s) ==
    /\ deadline[s] = "future"
    /\ deadline' = [deadline EXCEPT ![s] = "past"]
    /\ UNCHANGED <<trackerVars, attemptVars, prober, logVars, told, reader, probeVars, ctxDone>>

--------------------------------------------------------------------------------
(* startPeerCandidateProbes: probes in a burst, then as keepalives; both   *)
(* loops select on done, which stopCandidateProbes closes.  A probe itself *)
(* leaves no state behind.                                                 *)

ProberRuns == prober = "on"
ProberExits ==
    /\ ProberRuns
    /\ At("stopProbes")
    /\ prober' = "done"
    /\ UNCHANGED <<trackerVars, attemptVars, logVars, socketVars, probeVars, ctxDone>>

--------------------------------------------------------------------------------
(* The attempt *)

(* return connectionAttemptResult{}, err: the deferred early.Stop, then    *)
(* the deferred sockets.Close.                                             *)
Return == pc' = "return" /\ Stop("listener")

(* Local candidates and TURN prerequisites pass validation, or not; the    *)
(* listener starts before CONNECT unless only relays may be heard.         *)
Gathered ==
    /\ At("gather")
    /\ discovering = None
    /\ undiscovered = {}
    /\ \/ /\ local' \in SUBSET Sockets \ {{}}
          /\ pc' = "connect"
          /\ UNCHANGED call
          /\ IF turn THEN UNCHANGED reader ELSE Start("listener")
       \/ /\ Return
          /\ UNCHANGED <<local, reader>>
    /\ UNCHANGED <<trackerVars, flagVars, undiscovered, discovering, choiceVars, prober,
                   logVars, deadline, told, probeVars, ctxDone>>

(* In TURN-only mode only compatible relays count. *)
PeerCandidates(cands) ==
    IF turn
    THEN compatibleCandidates(Sockets, local, candidatesOfType(cands, "turn"))
    ELSE cands

(* connectAndAwaitResponse succeeds; in TURN-only mode the console must    *)
(* have advertised a compatible relay.  The probes start; with an override *)
(* the nomination is not waited for.                                       *)
Connected ==
    /\ At("connect")
    /\ \E cands \in Advertisements : peerCandidates' = PeerCandidates(cands)
    /\ turn => peerCandidates' # <<>>
    /\ compatible' = compatibleCandidates(Sockets, local, peerCandidates')
    /\ prober' = IF peerCandidates' = <<>> THEN "off" ELSE "on"
    /\ IF turn THEN Start("listener") ELSE UNCHANGED reader
    /\ endpoint' = override
    /\ pc' = IF override = None THEN "activate" ELSE "stopProbes"
    /\ UNCHANGED <<trackerVars, flagVars, call, gatherVars, queue, logVars, deadline, told,
                   probeVars, ctxDone>>

(* It fails, or the console advertised no compatible relay. *)
NotConnected ==
    /\ At("connect")
    /\ Return
    /\ UNCHANGED <<trackerVars, flagVars, gatherVars, choiceVars, prober, logVars,
                   socketVars, probeVars, ctxDone>>

(* resolveNominatedEndpoint *)
Activate ==
    /\ At("activate")
    /\ activate
    /\ pc' = "await"
    /\ UNCHANGED <<flagVars, call, gatherVars, choiceVars, prober, logVars, socketVars,
                   probeVars, ctxDone>>

(* waitForSelection returns the selection, or nothing after 40 s or an     *)
(* interrupt (NominationProtocol has its steps); ctx.Err() is checked.     *)
Await ==
    /\ At("await")
    /\ \/ ~ctxDone /\ SelectedChClosed /\ endpoint' = selected /\ pc' = "logs"
       \/ ~ctxDone /\ UNCHANGED endpoint /\ pc' = "logs"
       \/ ctxDone /\ UNCHANGED endpoint /\ pc' = "stopProbes"
    /\ UNCHANGED <<trackerVars, flagVars, call, gatherVars, candVars, queue, prober,
                   logVars, socketVars, probeVars, ctxDone>>

(* early.Logs(): the tuples that sent a Binding Request, in the order of   *)
(* the log; without a selection the first is the endpoint.                 *)
Observed == Distinct({}, logs)
ReadLogs ==
    /\ At("logs")
    /\ endpoint # None \/ logs # <<>>
    /\ endpoint' = IF endpoint # None THEN endpoint ELSE Head(logs)
    /\ queue' = Observed
    /\ pc' = "stopProbes"
    /\ UNCHANGED <<trackerVars, flagVars, call, gatherVars, candVars, prober, logVars,
                   socketVars, probeVars, ctxDone>>

(* Nobody was heard: stop listening and probe. *)
NothingHeard ==
    /\ At("logs")
    /\ endpoint = None /\ logs = <<>>
    /\ pc' = "probe"
    /\ Stop("listener")
    /\ UNCHANGED <<trackerVars, flagVars, gatherVars, choiceVars, prober, logVars,
                   socketVars, probeVars, ctxDone>>

(* probeCandidates: without a compatible candidate it returns nothing, at  *)
(* once; otherwise its readers start, and a probe goes to every target.    *)
ProbeStarts ==
    /\ At("probe")
    /\ IF compatible = <<>>
       THEN pc' = "probed" /\ UNCHANGED reader
       ELSE pc' = "probing" /\ Start("probe")
    /\ UNCHANGED <<trackerVars, flagVars, call, gatherVars, choiceVars, prober, logVars,
                   deadline, told, probeVars, ctxDone>>

(* return addr, and the deferred reader.Stop() *)
ProbeReturns(addr) ==
    /\ endpoint' = addr
    /\ pc' = "probed"
    /\ Stop("probe")

(* case resp := <-responses: the first target of all is returned, another  *)
(* one may improve bestRank.                                               *)
LatestRank(best, rank) == rank
BetterRank(best, rank) == IF best = 0 \/ rank < best THEN rank ELSE best
ProbeTakes ==
    /\ At("probing")
    /\ responses # <<>>
    /\ responses' = Tail(responses)
    /\ LET addr == Head(responses)
           rank == RankByRemote(compatible, addr)
       IN  /\ answered' = IF rank = 0 THEN answered ELSE answered \cup {addr}
           /\ bestRank' = IF rank \in {0, 1} THEN bestRank ELSE BetterRank(bestRank, rank)
           /\ IF rank = 1 THEN ProbeReturns(addr) ELSE UNCHANGED <<endpoint, pc, call>>
    /\ UNCHANGED <<trackerVars, flagVars, gatherVars, candVars, queue, prober, logVars,
                   socketVars, sending, ctxDone>>

(* case <-graceCh: 60 ms after the first answer that was not the best *)
GraceEnds ==
    /\ At("probing")
    /\ bestRank # 0
    /\ ProbeReturns(compatible[bestRank].addr)
    /\ UNCHANGED <<trackerVars, flagVars, gatherVars, candVars, queue, prober, logVars,
                   socketVars, probeVars, ctxDone>>

(* case <-timer.C: 500 ms after the start *)
ProbeTimesOut ==
    /\ At("probing")
    /\ ProbeReturns(IF bestRank # 0 THEN compatible[bestRank].addr ELSE guessCandidate(compatible))
    /\ UNCHANGED <<trackerVars, flagVars, gatherVars, candVars, queue, prober, logVars,
                   socketVars, probeVars, ctxDone>>

(* ctx.Err() after the probe; its channel and ranks are gone. *)
Probed ==
    /\ At("probed")
    /\ endpoint' = IF ctxDone THEN None ELSE endpoint
    /\ pc' = "stopProbes"
    /\ responses' = <<>> /\ bestRank' = 0 /\ answered' = {}
    /\ UNCHANGED <<trackerVars, flagVars, call, gatherVars, candVars, queue, prober,
                   logVars, socketVars, sending, ctxDone>>

(* stopCandidateProbes waits for its goroutine; then an error, or "no      *)
(* endpoint candidate available", or early.Stop().                         *)
ProbesStopped ==
    /\ At("stopProbes")
    /\ ~ProberRuns
    /\ IF endpoint = None THEN Return ELSE pc' = "chosen" /\ Stop("listener")
    /\ UNCHANGED <<trackerVars, flagVars, gatherVars, choiceVars, prober, logVars,
                   socketVars, probeVars, ctxDone>>

(* The rest of negotiateEndpoint *)
Chosen ==
    /\ At("chosen")
    /\ queue' = buildCandidateRetryQueue(endpoint, queue, compatible)
    /\ pc' = "negotiated"
    /\ UNCHANGED <<trackerVars, flagVars, call, gatherVars, candVars, endpoint, prober,
                   logVars, socketVars, probeVars, ctxDone>>

(* --print-config or an early error of runTunnel; or device.Up: BindUpdate *)
(* closes the bind before it opens it, which sets the deadlines.           *)
Negotiated ==
    /\ At("negotiated")
    /\ \/ Return /\ UNCHANGED deadline
       \/ pc' = "open" /\ deadline' = DeadlinePast /\ UNCHANGED call
    /\ UNCHANGED <<trackerVars, flagVars, gatherVars, choiceVars, prober, logVars, told,
                   reader, probeVars, ctxDone>>

(* stunBind.Open: the deadlines are cleared and the receive routines start *)
BindOpens ==
    /\ At("open")
    /\ deadline' = [s \in Sockets |-> "none"]
    /\ Start("bind")
    /\ pc' = "tunnel"
    /\ UNCHANGED <<trackerVars, flagVars, call, gatherVars, choiceVars, prober, logVars,
                   told, probeVars, ctxDone>>

(* runTunnel ends: dev.Close, stunBind.Close *)
TunnelEnds ==
    /\ At("tunnel")
    /\ Stop("bind")
    /\ pc' = "return"
    /\ UNCHANGED <<trackerVars, flagVars, gatherVars, choiceVars, prober, logVars,
                   socketVars, probeVars, ctxDone>>

(* sockets.Close *)
Returned ==
    /\ At("return")
    /\ pc' = "closed"
    /\ UNCHANGED <<trackerVars, flagVars, call, gatherVars, choiceVars, prober, logVars,
                   socketVars, probeVars, ctxDone>>

Interrupt ==
    /\ ~ctxDone
    /\ ctxDone' = TRUE
    /\ UNCHANGED <<trackerVars, attemptVars, prober, logVars, socketVars, probeVars>>

Finished == pc = "closed" /\ UNCHANGED vars

Attempt ==
    \/ StopSteps
    \/ \E s \in Sockets : DiscoveryStarts(s)
    \/ DiscoveryReturns \/ Gathered \/ Connected \/ NotConnected
    \/ Activate \/ Await \/ ReadLogs \/ NothingHeard
    \/ ProbeStarts \/ ProbeTakes \/ GraceEnds \/ Probed
    \/ ProbesStopped \/ Chosen \/ Negotiated \/ BindOpens \/ Returned

--------------------------------------------------------------------------------
Init ==
    /\ newNominationTracker
    /\ turn \in BOOLEAN
    /\ override \in Addrs \cup {None}
    /\ turn => override = None      \* --turn and --endpoint are mutually exclusive
    /\ pc = "gather"
    /\ call = NoCall
    /\ undiscovered = Sockets
    /\ discovering = None
    /\ local = {}
    /\ peerCandidates = <<>>
    /\ compatible = <<>>
    /\ endpoint = None
    /\ queue = <<>>
    /\ prober = "off"
    /\ logs = <<>>
    /\ heard = {}
    /\ overflowed = FALSE
    /\ deadline = [s \in Sockets |-> "none"]
    /\ told = [k \in Kinds |-> FALSE]
    /\ reader = [k \in Kinds |-> [s \in Sockets |-> "off"]]
    /\ sending = [s \in Sockets |-> None]
    /\ responses = <<>>
    /\ bestRank = 0
    /\ answered = {}
    /\ ctxDone = FALSE

Waits == {WaitSeq[i] : i \in 1..WaitCount}

Next ==
    \/ Attempt
    \/ ProbeTimesOut
    \/ TunnelEnds
    \/ \E s \in Sockets : ReaderGoesOn(s)
    \/ ProberExits
    \/ \E a \in Addrs, w \in Waits : ListenerHears(a, w)
    \/ \E a \in Addrs : ProbeHears(a)
    \/ \E a \in Addrs, w \in Waits : BindHears(a, w)
    \/ \E s \in Sockets : DeadlinePasses(s)
    \/ Interrupt
    \/ Finished

Spec == Init /\ [][Next]_vars

(* The attempt's goroutine runs on: every wait in it has a timeout or a    *)
(* context, but for the waits for readers and for the prober.  The probe's *)
(* timer fires however many answers come.  A reader whose socket deadline  *)
(* has passed gets its error, goroutines that can go on do, and runTunnel  *)
(* returns after an interrupt (TunnelSupervisor's ShutdownCompletes).      *)
FairSpec ==
    /\ Spec
    /\ WF_vars(Attempt)
    /\ WF_vars(ProbeTimesOut)
    /\ WF_vars(ProberExits)
    /\ WF_vars(ctxDone /\ TunnelEnds)
    /\ \A s \in Sockets : WF_vars(ReaderGoesOn(s))

--------------------------------------------------------------------------------
(* Properties *)

TypeOK ==
    /\ nextWait \in [Addrs -> 0..WaitCount]
    /\ active \in BOOLEAN
    /\ selected \in Addrs \cup {None}
    /\ closes \in 0..1
    /\ turn \in BOOLEAN
    /\ override \in Addrs \cup {None}
    /\ pc \in {"gather", "connect", "activate", "await", "logs", "probe", "probing",
               "probed", "stopProbes", "chosen", "negotiated", "open", "tunnel",
               "return", "closed"}
    /\ call \in [kind : Kinds, step : {"close", "deadline", "wait"}] \cup {NoCall}
    /\ undiscovered \subseteq Sockets
    /\ discovering \in Sockets \cup {None}
    /\ local \subseteq Sockets
    /\ peerCandidates \in Seq(Candidates) /\ compatible \in Seq(Candidates)
    /\ endpoint \in Addrs \cup {None}
    /\ queue \in Seq(Addrs)
    /\ prober \in {"off", "on", "done"}
    /\ logs \in Seq(Addrs) /\ Len(logs) <= MaxLogs
    /\ heard \subseteq Addrs
    /\ overflowed \in BOOLEAN
    /\ deadline \in [Sockets -> {"none", "future", "past"}]
    /\ told \in [Kinds -> BOOLEAN]
    /\ reader \in [Kinds -> [Sockets -> {"off", "check", "read", "send", "done"}]]
    /\ sending \in [Sockets -> Addrs \cup {None}]
    /\ responses \in Seq(Addrs)
    /\ bestRank \in 0..Len(compatible)
    /\ answered \subseteq Addrs
    /\ ctxDone \in BOOLEAN

Live(k, s) == reader[k][s] \in {"check", "read", "send"}

(* No two readers share a socket, whatever path the attempt takes through  *)
(* its phases: what Stop promises ("so they don't keep stealing packets"). *)
(* Neither a reader nor the candidate prober is left on the sockets when   *)
(* they close, and the prober does not write under WireGuard's feet.       *)
ExclusiveReader ==
    /\ \A s \in Sockets :
           /\ \A j, k \in Kinds : Live(j, s) /\ Live(k, s) => j = k
           /\ \A k \in Kinds : Live(k, s) => discovering # s /\ pc # "closed"
    /\ ProberRuns => pc \notin {"open", "tunnel", "closed"}

(* A reader exits only after it was told to: no deadline of an earlier     *)
(* user of the socket (discovery, a stopped reader, the Close before Open) *)
(* ends it silently and leaves the socket unread.                          *)
ReadersStopOnlyWhenTold ==
    \A k \in Kinds, s \in Sockets : reader[k][s] = "done" => told[k]

Relays == {c.addr : c \in {d \in ToSet(peerCandidates) : d.type = "turn"}}

(* In TURN-only mode the endpoint and every tuple of the retry queue are   *)
(* relays, whichever way they were found: nominated, heard, probed,        *)
(* guessed or advertised.                                                  *)
TurnOnlyEndpoint ==
    turn => ({endpoint} \cup ToSet(queue)) \ {None} \subseteq Relays

(* The probe's result answered it, and no answer it took before it         *)
(* returned has a better rank; only when nothing answered is it a guess.   *)
(* Answers come from two readers in any order, against two timers.         *)
BestAnswerWins ==
    pc = "probed" /\ answered # {} =>
        /\ endpoint \in answered
        /\ \A a \in answered : RankByRemote(compatible, endpoint) <= RankByRemote(compatible, a)

(* What the tunnel falls back to: every compatible candidate the console   *)
(* advertised, and beyond them only tuples that sent a Binding Request,    *)
(* each once and never the endpoint itself ("a -4 run must never fall back *)
(* to an IPv6 candidate").  Unless an endpoint was given, or the log       *)
(* overflowed before it was read, every tuple that had sent one by then is *)
(* there, and these come first.                                            *)
RetryQueueComplete ==
    LET known == ToSet(Addresses(compatible))
    IN  pc \in {"negotiated", "open", "tunnel"} =>
            /\ known \ {endpoint} \subseteq ToSet(queue)
            /\ ToSet(queue) \subseteq (known \cup heard) \ {endpoint}
            /\ endpoint \in known \cup heard \cup {override, selected}
            /\ \A i, j \in DOMAIN queue : i < j => queue[i] # queue[j]
            /\ override = None /\ ~overflowed =>
                   /\ heard \ {endpoint} \subseteq ToSet(queue)
                   /\ \A i, j \in DOMAIN queue :
                          i < j /\ queue[j] \in heard => queue[i] \in heard

(* Every attempt gets past its negotiation, and an interrupted one closes  *)
(* its sockets, wherever the interrupt finds it: no Stop and no Close waits *)
(* for ever for a reader parked in ReadFromUDP or on a full channel.       *)
AttemptEnds == []<>(pc = "closed" \/ (pc = "tunnel" /\ ~ctxDone))

(* restrictToCandidates, nomination.go: "so a direct console candidate     *)
(* cannot win master nomination".                                          *)
OnlyRelaysNominated == turn /\ selected # None => selected \in Relays
================================================================================
