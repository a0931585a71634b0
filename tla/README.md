# Models and proofs of the Teleport client

TLA+ models of `teleport-client`, a Go program that joins a UniFi console's
network: it pairs through Ubiquiti's cloud, negotiates a UDP path with the
console, runs a userspace WireGuard tunnel over it and offers a SOCKS5 proxy
into it. Each module is translated from the source; `PROJECT.json` maps
definitions to lines, runs to what they show, properties to hazards, and each
property to a mutation of the code that it catches.

    tlc -workers 2 -config NominationProtocol.cfg MC_NominationProtocol
    tlapm NominationProtocol_proofs.tla

## 1. The system

| part (source) | state it keeps | operations | talks to |
|---|---|---|---|
| client lifecycle (`main.go`) | session, reconnect backoff | pair or load, attempt, back off, exit | cloud client, session file, attempt |
| cloud client (`api.go`) | counters of one poll | POST, poll, DELETE | the cloud over HTTP |
| session file (`session.go`) | a file, a temporary file | save, load | the file system |
| connection attempt (`main.go`) | phase, endpoint, retry queue, two UDP sockets | gather, connect, negotiate, probe, tunnel | every part that reads a socket |
| early listener, fallback probe (`nomination.go`) | reader goroutines, packet log, answers | start, read, choose, stop | sockets, tracker |
| candidate prober (`nomination.go`) | a goroutine | start, probe, stop | sockets |
| candidate lists (`nomination.go`, `main.go`) | none | filter, rank, guess, queue | attempt, probe |
| nomination tracker (`nomination.go`) | countdown per tuple, selection | observe, activate, wait | listener, bind, attempt, retry loop |
| STUN bind (`wireguard.go`) | sockets while the tunnel is up | open, receive, close | wireguard-go, tracker |
| tunnel supervisor (`tunnel.go`) | recovery in progress, baseline of WireGuard's statistics | select loop, shutdown | its workers through channels and contexts |
| startup retry, endpoint recovery (`tunnel.go`) | queue position, round | switch endpoints, signal exhaustion | WireGuard device, supervisor |
| echo pinger (`udpecho.go`) | request number, health counters | ping, report health | supervisor (unbuffered channel), MTU prober |
| MTU prober (`peermtu.go`) | search state, confirmed MTU | next probe, record, reset, arm | pinger, netstack |
| netstack device (`internal/tunnet/tun.go`) | MTU, packet queue, two channels | set MTU, read, write, notify, close | wireguard-go, gVisor |
| DNS resolver (`internal/tunnet/tun.go`) | position of each lane | look up, exchange | netstack device |
| SOCKS5 proxy (`socks5.go`) | listener, connections | start, resolve, dial, close | resolver, netstack |

What is hard about it: the two sockets pass through four kinds of readers, and
a read deadline set for one of them stays on the socket for the next; the
nomination is driven by the console over an unreliable network while the client
is still waiting for the cloud; four kinds of goroutines act on one WireGuard
peer; cancellation is asynchronous; answers come late; every goroutine that
sends through the tunnel may be parked on a channel that the shutdown closes;
and a crash may fall between any two system calls of a save.

What makes each part correct:

- *tracker*: it selects a tuple that the console really finished, once, and
  overlooks none that is finished, in whatever order things happen;
- *attempt*: a socket has one reader at a time, no reader ends by accident,
  every stop returns, and TURN-only mode ends on a relay;
- *selection*: the best candidate that answered is taken, and the tunnel gets
  every usable alternative;
- *supervisor*: it never waits for a recovery that is no longer there, never
  runs two, gives up only after everything was tried, and can always shut down;
- *pinger and prober*: applications see only an MTU that the path has carried;
- *device, resolver, proxy*: no goroutine that the tunnel joins meets a closed
  channel, wireguard-go follows the MTU, a lookup gives up only when nothing is
  left to ask, and no request hangs;
- *session file*: it is a complete session at all times, also after a crash,
  and a save that was synced is not taken back;
- *lifecycle*: polls end for the right reason, every request to the cloud is
  followed by its DELETE, and an interrupt always ends the client.

`PROJECT.json` lists under `hazards` the line where each of these could break.

## 2. Modules

| module | models | uses |
|---|---|---|
| `NominationTracker` | the tracker's methods, one step each (they hold its mutex) | |
| `NominationProtocol` | tracker, console, network and `waitForSelection` | `NominationTracker` |
| `NominationChoice` | abstract: one choice among proposals, once it is open | |
| `EndpointOrder` | the orders in which endpoints are tried (pure) | |
| `CandidateOrder` | candidate lists: filters, rank, guess, retry queue (pure) | `EndpointOrder` |
| `Negotiation` | `runConnectionAttempt` with all socket readers and stops, the probe and the choice of the endpoint | `NominationTracker`, `CandidateOrder` |
| `UDPEchoHealth` | `udpEchoHealth.observe` (pure) | |
| `TunnelSupervisor` | `runTunnel` and its worker goroutines | `EndpointOrder`, `UDPEchoHealth` |
| `PeerMTUProber` | the prober's methods (pure) | |
| `EchoPinger` | `runUDPEchoPinger`, prober, netstack MTU, path | `PeerMTUProber`, `UDPEchoHealth` |
| `NetTun` | `netTun`: packets, MTU events, `Close`; gVisor's queue and wireguard-go's loops | |
| `Resolver` | what a lookup lane does with each response (pure) | |
| `ProxyTraffic` | a SOCKS5 request, its lookup, the pinger and the shutdown on one device | `NetTun`, `Resolver` |
| `SessionFile` | `saveSession` by several clients on a caching file system | |
| `SessionRegister` | abstract: an atomic register with a persisted part | |
| `CloudPoll` | the counters of `pollForResponseWithContext` (pure) | |
| `ClientLifecycle` | pairing, cloud exchanges, attempts, backoff, interrupt | `CloudPoll` |

`MC_*` modules give the constants values that a configuration cannot express.
Modules named `*_proofs` hold theorems; `EndpointOrder_proofs` holds the lemmas
that the proofs of `Negotiation` and `TunnelSupervisor` share. Some operators are followed or preceded
by a variant that no action uses (`ScanSkipped`, `AllowsAny`, ...): these are
the mutations that `PROJECT.json` lists.

### How state and actions correspond to the code

**Nomination.** `nextWait`, `active`, `selected` are the tracker's fields;
`closes` counts `close(selectedCh)`, whose second call would panic.
`observe(a, w)` and `activate` are the methods. Go's map order in `activate` is
a choice of any complete pair. `sent[a]` is how far the console has come with
tuple `a`; any wait it has sent may arrive at any time, any number of times or
not at all. A value that fails authentication does not reach the tracker.

**Negotiation.** `pc` is the phase of `runConnectionAttempt`, `call` the `Stop`
it is in: close the channel, set the deadlines, wait for the readers, clear the
deadlines. `reader[k][s]` is the reader of kind `k` on socket `s`: before its
check of `done`, inside the read, or gone. `deadline[s]` belongs to the socket.
wireguard-go's receive routines are readers that end when the bind is closed.
Its `device.Up` closes the bind before it opens it; that is why `Negotiated`
leaves the deadlines in the past. `logs` are the Binding Requests in the
listener's log, in order and bounded; other datagrams in the log are not read.
The listener logs for as long as it runs, whether or not anybody will read the
log: `Logs()` is called once, and with `--endpoint` never. `heard` and
`overflowed` are history: the tuples logged while the log might still be read,
and whether an entry was dropped in that time.
The fallback probe is in steps: each reader parks on `responses` when it is
full, `bestRank` counts from 1, and the grace timer runs from the first ranked
answer on. The list of candidates that the console advertises is an input, so
an address may be in it twice. A cloud exchange is one step. The order of the
two discoveries is left free.

**Tunnel supervisor.** `main` is the select loop followed by the deferred
calls, in their order. `renegotiate` and `echoStopped` count buffered values; a
health event is a joint step of `pinger` and `main`, as the channel has no
buffer. Each recovery goroutine has a slot; `recoveryCancel` names the one main
can cancel. A recovery sees its cancellation only where the code selects on the
context, so a switch can still follow it. The peer's endpoint is not a
variable: WireGuard roams, so a reader of the statistics may find any address.
Timers fire whenever somebody waits for them, with one exception
(`LongAfterLastAnswer`): the unhealthy event comes at least 12 failed rounds of
two seconds or more after the last answer, by which time goroutines that have
nothing left to wait for have run.

**Echo pinger.** `pc` is the position in the loop; an answer under way is to
the current request or to an earlier one. `path` is the MTU that the path
carries, which may change at any time; a probe is answered only if it fits.
`TunClosed` removes the NIC under a running pinger, which would happen if
wireguard-go closed its device after an error of the TUN.

**Proxy traffic.** `sender[p]` is where goroutine `p` is between gVisor's queue
and `incomingPacket`: the sender itself runs `WriteNotify`, after gVisor has
released its lock, and may take another sender's packet. `closing` counts
the calls that `netTun.Close` has made. `panicked` names a goroutine that sent on a
closed channel; nothing happens after that. A connection is accepted only while
the listener is open, but its request may be read at any time after, also while
the tunnel shuts down. wireguard-go's two loops are
`tunReader` and `eventReader`. `lane[f]` is a `tryOneName`; an exchange is one
packet and an answer, an error or silence. The dial callback gets addresses
only, as go-socks5 resolves names first, and a context without a deadline, so
the loop of `DialContext` has one address. Here only `runTunnel` closes the
device: `netTun.Read` fails on nothing but the closed channel.

**Session file.** Every system call of `saveSession` is a step that may fail,
the `Remove` of the cleanup too: its error is ignored, and the temporary file
stays (`"leftover"`). `renames`, `place` and `synced` are history: the order of
the renames, and whose directory sync has succeeded. A
rename changes the directory in memory and on disk at different times, and
data reaches the disk at `Sync` or whenever the system likes. A power failure
leaves what is on disk; a kill stops one client where it is.

**Client lifecycle.** `kind` and `poll` are the exchange in progress;
`requests` is what became of the last request of each kind: open, gone, or left
at the cloud by a DELETE that failed. The code ignores that error and does not
retry, and with its context done the call does not leave the client. `PollGets` takes any outcome a GET can
have. An interrupt during the body of an answer leaves a truncated body that is
decoded all the same, as the code ignores the error of that read. The phases
modelled elsewhere are single steps here.

## 3. Runs

| run | states | checks |
|---|---|---|
| `nomination` | 1,805 | two tuples, the code's five waits, one stray value |
| `negotiation` | 280,196 | three tuples on two sockets: a direct one and a relay, and a direct one that does not reach the client; two advertised lists, one with a duplicate; a log of two requests; every flag combination |
| `supervisor` | 62,690 | negotiated endpoint, one queued candidate, one address outside both; two rounds, two slots, two failures per unhealthy event |
| `echo_pinger` | 9,672 | three milestones of which the ceiling admits two; four path MTUs; automatic and configured MTU |
| `proxy_traffic` | 209,768 | two lanes with one DNS server, one with none, one or two; a tunnel without addresses; queue and event channel of two |
| `session_file` | 2,970 | two clients, one path, with and without an old session |
| `lifecycle` | 27,780 | polls of four tries of which two errors in a row are too many; the code's backoff |
| `turn_only`, `reestablished`, `active_kept`, `granted_lost`, `canceled_poll` | | one violated property each, see section 5 |

Why the bounds are enough. *Tuples*: the countdowns of different tuples meet
only in the selection, so two can race for it and a third adds nothing; the
theorems cover every number. *Countdown*: `negotiation` asks about sockets and
candidates, so one wait completes a tuple; the countdown is the business of
`nomination`. *Log*: two requests, the least that can drop one of two tuples
and keep an order. *Reaching*: two tuples, one on each socket, are what a race
of two readers takes; the third is only advertised, or only given as the
endpoint, so that a queue can hold both kinds. *Responses* (`Slack = 0` for 4): without slack two datagrams
beyond the answers fill the channel. *Channels* of the device (2 for 1024 and
10): the least that holds an event next to `EventUp`, and that three senders
fill. *Rounds*: two are
the least with a round that is not the last. *Slots* (`MaxRecoveries = 2`): a
cancelled recovery and its successor; a third would need two cancelled ones
alive, and the guard would block a step that `OneLiveRecovery` could not see,
but the first has long stopped by then (`LongAfterLastAnswer`). *Failures* (2
for 12) and *tries and errors* (4 and 2 for 60 to 200 and 5): the least for
which a limit can be reached, missed by one, and reset on the way. *Probes* and
*backoff* are the code's own values. *Pauses*: counted until the backoff is at its limit.

### What they check

- `nomination`: `SelectedIsNominated`, `ClosedOnceWithSelection`,
  `NoMissedNomination`, `ImplementsChoice` (refinement of `NominationChoice`),
  `EventuallySelected`.
- `negotiation`: `ExclusiveReader`, `ReadersStopOnlyWhenTold`,
  `TurnOnlyEndpoint`, `BestAnswerWins`, `RetryQueueComplete`, `AttemptEnds`.
- `supervisor`: `RecoveryHandsOver`, `CancelledRecoveryStops`,
  `OneLiveRecovery`, `AllKnownTriedBeforeGivingUp`, `ShutdownCompletes`,
  `StartupResolved`, `RecoveryEnds`.
- `echo_pinger`: `StackMTUIsConfirmed`, `ConfirmedWasCarried`,
  `UnhealthyAtBaseline`, `MTUWithinLimits`, `SearchEnds`.
- `proxy_traffic`: `WorkersNeverPanic`, `WireGuardLearnsMTU`, `LookupDecides`,
  `RequestEnds`.
- `session_file`: `FailedSaveIsUndone`, `SyncedSaveIsDurable`,
  `ImplementsRegister` (refinement of `SessionRegister`). It has no deadlock check: when all
  saves have ended nothing is left to do.
- `lifecycle`: `PollEndsForAReason`, `NoRequestIsForgotten`,
  `BackoffFollowsPauses`, `InterruptEnds`, `AttemptSettles`.

`nomination`, `negotiation`, `supervisor`, `echo_pinger` and `lifecycle` also
check a type invariant.

### Fairness

Weak fairness of each goroutine: Go's scheduler runs what can run, timers fire,
and HTTP requests have a timeout. On top of it:

- `nomination`: the console goes on with its countdown and repeats a wait until
  it arrives, which is its protocol. `EventuallySelected` needs it; no safety
  property does.
- `supervisor`: main's cases for the cancelled context and for an exhaustion
  are taken in the end although other cases are ready too, as `select` chooses
  at random. Handshakes, traffic, write errors and the user are not fair.
- `negotiation`: a tunnel ends after an interrupt, which is what
  `ShutdownCompletes` shows of `TunnelSupervisor`; and the probe's timer fires
  however many answers come.
- `echo_pinger`: a wait for an answer ends although late answers keep coming,
  as its deadline is fixed at the start. The pinger's event is taken by main.
- `proxy_traffic`: strong fairness of a sender parked on `incomingPacket`, as Go
  serves the waiting senders of a channel in order; exchanges and dials have
  deadlines. Shutdown, requests and the pinger are not fair.
- `lifecycle`: a tunnel that nobody interrupts need not end.

## 4. Proofs

Every type invariant, safety invariant and refinement that a passing run checks
is also proved by TLAPS, for every value of the constants that satisfies the
modules' named assumptions (one theorem fixes three constants, see
`ClientLifecycle_proofs`). Hardly any of the properties is inductive; below is
what each needed. Each inductive invariant was checked by TLC on the run of its
module before it was proved.

**`NominationProtocol_proofs`** (any set of tuples, any countdown without
repeated values, any stray values): `TypeCorrect`, `OnlyNominatedSelected`,
`ClosedOnce`, `NothingMissed` and `Refinement` (of `NominationChoice`). That a
selection was nominated needs that the selected pair is complete and that the
tracker never counts past what the console has sent; the latter holds because
the values of the countdown differ, so that the next expected value identifies
its position. The inductive invariant `IInv` is the type invariant, these two
facts (`SelectedIsComplete`, `CountedWasSent`) and the invariants themselves.
`Refinement` maps each step to a step of the abstract choice or to a stutter.

**`EndpointOrder_proofs`** (any list of addresses) has the lemmas about the
order of endpoints that the next two cite. `Picked` takes the elements of a list
at given indices in their order, by counting; that the counting reaches every
index is a fact about finite sets (`NumberingIsOnto`). From it follow that
`Distinct` loses nothing and repeats nothing, that the recovery order holds
every known endpoint (`RecoveryOrder`), and what the startup retry takes next
(`NextCandidate`).

**`Negotiation_proofs`** (any sockets among the two families, any tuples,
countdown, advertisements of any length, log and channel sizes), in two layers:

- `SocketInv` gives `Exclusive` and `StopOnlyWhenTold`. Neither property says
  where in the attempt a reader may be, so the invariant adds it: readers of a
  kind live only in the phases that start or stop it (`LiveInPhase`), a `Stop`
  is called only there and tells them first (`CallInPhase`), the readers that
  were told are being waited for or gone (`ToldAreStopped`), and a deadline
  belongs to the discovery, to a `Stop` that waits, or to a socket that nobody
  reads (`DeadlineOwned`). The last one is what rules out that a deadline left
  behind ends the next reader.
- `ChoiceInv`, on top of it, gives `TypeCorrect`, `TurnOnly`, `BestAnswer` and
  `QueueComplete`. It says for each phase where the endpoint can have come from
  (`EndpointOK`), that the candidates are among the advertised ones, that until
  it is read the log holds only tuples that were heard, and all of them unless
  it overflowed (`LogsOK`), that the probe's best rank is that of an
  address that answered and no worse than any other (`ProbeOK`), and that with
  `--turn` candidates, log and selection are relays (`TurnOK`). The lemmas on
  candidate lists (`RankedCandidates`, `FilteredCandidates`, `RankOfRemote`,
  `RetryQueueOf`, ...) say what sorting, filtering and queueing keep.

**`TunnelSupervisor_proofs`** (any endpoints, queue, rounds, and number of
recoveries that overlap): `TypeCorrect`, `HandsOver`, `CancelledStops`,
`OneLive`, `AllKnownTried`. The key is that the one recovery that is not
cancelled is the one main can cancel (`LiveIsHeld`), and that in its loop main
holds no cancelled one; then two live ones would be the same. A recovery that
switches after its cancellation is in the dwell, which sees it
(`LateIsInDwell`). What a recovery has not tried in a round is what it still has
to do (`GoesThroughAll`).

**`EchoPinger_proofs`** (any milestones in increasing order, ceiling, limits,
configured and path MTUs): `TypeCorrect`, `StackAtConfirmed`,
`ConfirmedCarried`, `RecoveryAtBaseline`, `WithinLimits`. They need that an
answer to the current request is to a probe that the path carried
(`AnswerWasCarried`: the request number keeps late answers out), that a plain
request goes out at the confirmed MTU, and that the prober of a configured MTU
is disabled and never probes.

**`ProxyTraffic_proofs`** (any MTUs, any number of DNS servers and rounds, any
queue, an event channel of two or more): `WorkersSafe`, `MTULearned`,
`LookupDecided`. That the pinger meets no closed channel needs that the device
closes only after the join (`ClosesAfterJoin`) and that a pinger that has
returned holds no packet and sets no MTU (`PingerGone`). That an MTU event
dropped at a full channel loses nothing needs that only the first event queued
can be `EventUp` (`UpFirst`), so that a full channel holds an MTU event: hence
the assumption on its size. That a lookup gives up only when nothing is left to
ask needs the position of each lane: in its round the servers before the one it
asks have failed once more than the others (`AskingLane`), so that after the
last server of the last round every server has failed in every round; and what
the lookup has so far is what it took from the lanes that ended (`TakenOK`).

**`SessionFile_proofs`** (any set of clients): `FailureIsUndone`, `Durability`,
`Refinement` (of `SessionRegister`) and `Survival`. The inductive invariant says that a file
that was synced is complete in the cache and on disk (`WholeAfterSync`), that
so is whatever file is at the path (`AtPath`), which no client before its
rename can be writing to (`NotYetAtPath`), that the path is never removed
(`PathStays`), and that a save that ended keeps its temporary file only if it was
killed or its `Remove` failed (`TempKept`). `Durability` needs that the path, in
memory or on disk, is never at a session renamed before the one that is synced
(`RenamesInOrder`). `Survival` (`SessionSurvives`: a session on disk stays
loadable) follows from the same invariant and is only proved. The
refinement alone is not enough to carry itself: that a rename publishes a whole
session depends on the sync two steps earlier.

**`ClientLifecycle_proofs`** (any limits of the polls, any backoff):
`TypeCorrect`, `PollReasons`, `RequestsAreFollowedUp`, `BackoffDoubles`. That a poll
ends for the reason it gives needs that the loop's two counters are what the
history of outcomes says (`CountersCount`); that no request is forgotten
needs where each may be open (`OpenRequests`), the access request
being the one that outlives its exchange. `BackoffDoubles` is for the code's own
two and thirty seconds (and any poll limits): the law `2^(n+1) = 2 * 2^n` for every
`n` is induction over data, out of the provers' reach, while they know each power
by its value. The step itself, `BackoffStep`, is proved from that law for any
backoff.

**Only model-checked**: liveness, as it rests on fairness and `ENABLED`:
`EventuallySelected`, `AttemptEnds`, `ShutdownCompletes`, `StartupResolved`,
`RecoveryEnds`, `SearchEnds`, `RequestEnds`, `InterruptEnds`, `AttemptSettles`;
and `BackoffFollowsPauses` for a backoff other than the code's.

## 5. Findings

1. `turn_only`: in TURN-only mode the restriction to relays binds the early
   listener only. WireGuard's bind feeds the tracker with every tuple, so a
   direct tuple can be nominated once the tunnel has started.
2. `reestablished`: an exhaustion buffered just before the echo answers again
   closes a tunnel that has just been declared reestablished.
3. `active_kept`: a tunnel that the supervisor decides to keep is closed by a
   recovery started earlier, which it does not cancel.
4. `granted_lost`: an interrupt between the grant and the save loses the
   session that the invite was spent on.
5. `canceled_poll`: an interrupt during the last try of a poll is reported as a
   timeout, and the client exits with an error.

Three more observations, without a run of their own:

- `proxy.Close` waits for `Serve`, not for the connections it has accepted, so
  a SOCKS5 request may be parked in `WriteNotify` when `netTun.Close` closes
  `incomingPacket`; its send then panics. `proxy_traffic` reaches it in 16
  states (`DeliverPanics` by the handler or a lane); `WorkersNeverPanic` shows
  that the goroutines `workerWG` counts are safe from it.
- `negotiateEndpoint` "also returns the ranked queue of candidates that sent us a
  Binding Request" (`main.go:557`), but with `--endpoint` the listener's log is
  never read (`main.go:571`), and without it a tuple whose entries were dropped
  at 500 is missing (`nomination.go:473`), as is one that comes after the log
  was read. `RetryQueueComplete` excludes just these cases, and shows that there
  is no other.
- `probeCandidates` ranks an address that is listed twice by its last entry. Its
  answer then does not end the probe at once even if it is first of all, and
  loses to a candidate ranked between the two entries.

## 6. Not modelled

- Formats: STUN and DNS messages, keys, JSON, flags, configuration text, logs
  and their redaction. They are abstracted to the values that control depends on.
- The SOCKS5 protocol and the relay of a connection (the go-socks5 library), and
  the syntax of DNS names. Ping connections and listeners of the
  netstack are not used by the client.
- The loop of `DialContext` over several addresses and `partialDeadline`: the
  proxy never passes a name or a deadline.
- `discoverPathMTU` runs system commands; its result is a constant.
- Read errors of the outer sockets other than deadlines, and what a stale MTU
  ceiling costs after a change of the route.
- Data races: the shared state of the modelled parts is behind mutexes and
  channels.

## 7. Plan

Done, in this order: the tracker and its proofs; the supervisor; the pinger and
the MTU search; the attempt and its sockets; the session file and its proofs;
the lifecycle; candidate lists and the fallback probe; the device, the resolver
and the proxy; the proofs of pinger, lifecycle, supervisor, attempt and lookup.

Left:

1. That the tracker inside `Negotiation` is the one that `NominationProtocol`
   proves correct: its steps there refine `NominationChoice` too.
2. Action properties that the inductive invariants already carry, such as what
   a step of the supervisor may do to a recovery that it does not hold.
3. Shorter proofs of the candidate-list lemmas.
