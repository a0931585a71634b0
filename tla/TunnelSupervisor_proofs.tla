------------------------ MODULE TunnelSupervisor_proofs ------------------------
(***************************************************************************)
(* For any endpoints, candidate queue, number of rounds and number of      *)
(* recoveries that overlap: the tunnel supervisor never waits for a        *)
(* recovery that is gone, no two recoveries compete, a cancelled one makes *)
(* at most one more switch, and none gives up before every known endpoint  *)
(* was tried.                                                              *)
(***************************************************************************)
EXTENDS TunnelSupervisor, EndpointOrder_proofs

(* A recovery's types, as in TypeOK *)
Recoveries ==
    [pc : {"check", "switch", "dwell", "backoff", "signal", "done"},
     round : 1..Rounds, todo : Seq(Endpoints), endpoint : Endpoints \cup {NoAddr},
     cancelled : BOOLEAN, tried : SUBSET Endpoints, late : Nat]

(* What a recovery has not tried in this round it still has to do, and it  *)
(* goes to the check only with something to do.                            *)
GoesThroughAll(rec) ==
    /\ rec.pc \in {"check", "switch"} => rec.todo # <<>>
    /\ rec.pc \in {"check", "switch", "dwell"} =>
          ToSet(Known) \subseteq rec.tried \cup ToSet(rec.todo)
    /\ rec.pc \in {"backoff", "signal"} => ToSet(Known) \subseteq rec.tried
    /\ rec.pc = "signal" => rec.round = Rounds

(* A recovery that has switched after its cancellation waits in the dwell, *)
(* which sees the cancellation.                                            *)
LateIsInDwell ==
    \A r \in Slots :
        \/ recovery[r].late = 0
        \/ /\ recovery[r].late = 1
           /\ recovery[r].pc = "dwell"
           /\ lifecycle \/ recovery[r].cancelled

(* The one recovery that is not cancelled is the one main can cancel, *)
LiveIsHeld ==
    \A r \in Slots :
        recovery[r].pc # "done" /\ ~recovery[r].cancelled => r = recoveryCancel

(* and in the loop main holds no cancelled one. *)
HeldIsNotCancelled ==
    /\ main = "starting" => recoveryCancel = 0
    /\ main = "select" /\ recoveryCancel # 0 => ~recovery[recoveryCancel].cancelled

IInv ==
    /\ TypeOK
    /\ \A r \in Slots : GoesThroughAll(recovery[r])
    /\ LateIsInDwell
    /\ LiveIsHeld
    /\ HeldIsNotCancelled
    /\ RecoveryHandsOver

USE EndpointsAssumption, BoundsAssumption, MaxFailuresAssumption

--------------------------------------------------------------------------------
(* The steps of a recovery on its record *)

(* The known endpoints are endpoints, and there is one at least. *)
LEMMA KnownEndpoints == Known \in Seq(Endpoints) /\ First \in ToSet(Known)
  <1>1. Known \in Seq(Endpoints) /\ 1 \in DOMAIN Known /\ Known[1] = First
    BY DEF Known
  <1> QED
    BY <1>1 DEF ToSet

(* A goroutine that has ended has nothing to do. *)
LEMMA IdleFits ==
  /\ IdleRecovery \in Recoveries /\ GoesThroughAll(IdleRecovery)
  /\ IdleRecovery.pc = "done" /\ IdleRecovery.late = 0 /\ ~IdleRecovery.cancelled
  BY DEF IdleRecovery, Recoveries, GoesThroughAll

(* A round starts with every known endpoint to do. *)
LEMMA StartRoundFits ==
  ASSUME NEW rec \in Recoveries
  PROVE  /\ StartRound(rec) \in Recoveries
         /\ GoesThroughAll(StartRound(rec))
         /\ StartRound(rec).pc = "check"
         /\ StartRound(rec).cancelled = rec.cancelled
         /\ StartRound(rec).late = rec.late
  <1> DEFINE order == buildEndpointRecoveryOrder(rec.endpoint, Known)
  <1>1. rec.endpoint \in Endpoints \cup {NoAddr}
    BY DEF Recoveries
  <1>2. order \in Seq(Endpoints) /\ ToSet(order) = (ToSet(Known) \cup {rec.endpoint}) \ {NoAddr}
    BY <1>1, KnownEndpoints, RecoveryOrder
  <1>3. ToSet(Known) \subseteq ToSet(order)
    <2>1. NoAddr \notin ToSet(Known)
      BY KnownEndpoints DEF ToSet
    <2> QED
      BY <1>2, <2>1
  <1>4. order # <<>>
    <2> HIDE DEF order
    <2> QED
      BY <1>3, KnownEndpoints DEF ToSet
  <1>5. StartRound(rec) = [rec EXCEPT !.pc = "check", !.tried = {}, !.todo = order]
    BY DEF StartRound
  <1> HIDE DEF order
  <1>6. StartRound(rec) \in Recoveries
    BY <1>2, <1>5 DEF Recoveries
  <1>7. /\ StartRound(rec).pc = "check" /\ StartRound(rec).todo = order
        /\ StartRound(rec).cancelled = rec.cancelled /\ StartRound(rec).late = rec.late
    BY <1>5 DEF Recoveries
  <1> QED
    BY <1>3, <1>4, <1>6, <1>7 DEF GoesThroughAll

(* After the back-off comes the next round, or the signal after the last. *)
LEMMA NextRoundFits ==
  ASSUME NEW rec \in Recoveries, GoesThroughAll(rec), rec.pc = "backoff"
  PROVE  /\ NextRound(rec) \in Recoveries
         /\ GoesThroughAll(NextRound(rec))
         /\ NextRound(rec).pc # "done"
         /\ NextRound(rec).cancelled = rec.cancelled
         /\ NextRound(rec).late = rec.late
  <1>1. CASE rec.round < Rounds
    <2> DEFINE n == rec.round + 1
               next == [rec EXCEPT !.round = n]
    <2>1. NextRound(rec) = StartRound(next)
      BY <1>1 DEF NextRound
    <2>2. n \in 1..Rounds
      BY <1>1 DEF Recoveries
    <2> HIDE DEF n
    <2>3. next \in Recoveries /\ next.cancelled = rec.cancelled /\ next.late = rec.late
      BY <2>2 DEF Recoveries
    <2> HIDE DEF next
    <2> QED
      BY <2>1, <2>3, StartRoundFits
  <1>2. CASE ~(rec.round < Rounds)
    <2>1. NextRound(rec) = [rec EXCEPT !.pc = "signal"] /\ rec.round = Rounds
      BY <1>2 DEF NextRound, Recoveries
    <2> QED
      BY <2>1 DEF Recoveries, GoesThroughAll
  <1> QED
    BY <1>1, <1>2

(* What is switched to has been tried, and the rest is still to do. *)
LEMMA SwitchLosesNothing ==
  ASSUME NEW rec \in Recoveries, rec.todo # <<>>
  PROVE  /\ Head(rec.todo) \in Endpoints
         /\ Tail(rec.todo) \in Seq(Endpoints)
         /\ ToSet(rec.todo) \subseteq {Head(rec.todo)} \cup ToSet(Tail(rec.todo))
  <1> DEFINE t == rec.todo
  <1>1. t \in Seq(Endpoints)
    BY DEF Recoveries
  <1>2. /\ Head(t) \in Endpoints /\ Tail(t) \in Seq(Endpoints)
        /\ Len(Tail(t)) = Len(t) - 1
        /\ \A i \in 1..Len(Tail(t)) : Tail(t)[i] = t[i + 1]
    BY <1>1, HeadTailProperties
  <1>3. ASSUME NEW i \in DOMAIN t
        PROVE  t[i] \in {Head(t)} \cup ToSet(Tail(t))
    <2>1. CASE i = 1
      BY <1>1, <2>1
    <2>2. CASE i # 1
      <3>1. i - 1 \in DOMAIN Tail(t) /\ Tail(t)[i - 1] = t[i]
        BY <1>1, <1>2, <2>2
      <3> QED
        BY <3>1 DEF ToSet
    <2> QED
      BY <2>1, <2>2
  <1> QED
    BY <1>2, <1>3 DEF ToSet

(* What a step of a recovery does to its own record; the others, main and  *)
(* the contexts stay as they are.  It ends only when its context is done   *)
(* or with its exhaustion in the channel.                                  *)
LEMMA RecoveryStep ==
  ASSUME IInv, NEW r \in Slots, Recovery(r)
  PROVE  /\ recovery' \in [Slots -> Recoveries]
         /\ \A q \in Slots : q # r => recovery'[q] = recovery[q]
         /\ GoesThroughAll(recovery'[r])
         /\ recovery'[r].pc = "done" \/ recovery'[r].cancelled = recovery[r].cancelled
         /\ recovery'[r].cancelled => recovery[r].cancelled
         /\ recovery[r].pc # "done"
         /\ recovery'[r].pc = "done" =>
               lifecycle \/ recovery[r].cancelled \/ renegotiate' = 1
         /\ \/ recovery'[r].late = 0
            \/ /\ recovery'[r].late = 1
               /\ recovery'[r].pc = "dwell"
               /\ lifecycle \/ recovery[r].cancelled
         /\ renegotiate' \in {renegotiate, 1}
         /\ recoveryFrame
  <1>0. /\ recovery \in [Slots -> Recoveries] /\ recovery[r] \in Recoveries
        /\ GoesThroughAll(recovery[r])
        /\ recovery[r].late \in Nat
        /\ \/ recovery[r].late = 0
           \/ /\ recovery[r].late = 1 /\ recovery[r].pc = "dwell"
              /\ lifecycle \/ recovery[r].cancelled
    BY DEF IInv, TypeOK, Recoveries, LateIsInDwell
  <1>1. CASE RecoveryStops(r)
    BY <1>0, <1>1, IdleFits DEF RecoveryStops, RecoveryCtxDone
  <1>2. CASE RecoveryCheck(r)
    <2>1. /\ recovery' \in [Slots -> Recoveries]
          /\ \A q \in Slots : q # r => recovery'[q] = recovery[q]
          /\ recovery'[r] = [recovery[r] EXCEPT !.pc = "switch"]
      BY <1>0, <1>2 DEF RecoveryCheck, Recoveries
    <2>2. recovery[r].pc = "check" /\ UNCHANGED renegotiate /\ recoveryFrame
      BY <1>2 DEF RecoveryCheck
    <2>3. GoesThroughAll(recovery'[r])
      BY <1>0, <2>1, <2>2 DEF GoesThroughAll, Recoveries
    <2> QED
      BY <1>0, <2>1, <2>2, <2>3 DEF Recoveries
  <1>3. ASSUME NEW ok \in BOOLEAN, RecoverySwitch(r, ok)
        PROVE  /\ recovery' \in [Slots -> Recoveries]
               /\ \A q \in Slots : q # r => recovery'[q] = recovery[q]
               /\ GoesThroughAll(recovery'[r])
               /\ recovery[r].pc = "switch"
               /\ recovery'[r].cancelled = recovery[r].cancelled
               /\ recovery'[r].pc = "dwell"
               /\ \/ recovery'[r].late = 0
                  \/ /\ recovery'[r].late = 1
                     /\ lifecycle \/ recovery[r].cancelled
               /\ UNCHANGED renegotiate /\ recoveryFrame
    <2> DEFINE e == Head(recovery[r].todo)
               rest == Tail(recovery[r].todo)
               now == switchEndpoint(recovery[r].endpoint, e, ok)
               did == recovery[r].tried \cup {e}
    <2>1. recovery[r].pc = "switch" /\ UNCHANGED renegotiate /\ recoveryFrame
      BY <1>3 DEF RecoverySwitch
    <2>2. recovery[r].late = 0 /\ recovery[r].todo # <<>>
      BY <1>0, <2>1 DEF GoesThroughAll
    <2>3. e \in Endpoints /\ rest \in Seq(Endpoints) /\ ToSet(recovery[r].todo) \subseteq {e} \cup ToSet(rest)
      BY <1>0, <2>2, SwitchLosesNothing
    <2>4. now \in Endpoints \cup {NoAddr}
      BY <1>0, <2>3 DEF switchEndpoint, Recoveries
    <2>5. did \in SUBSET Endpoints
      BY <1>0, <2>3 DEF Recoveries
    <2>6. PICK late : late = IF lifecycle \/ recovery[r].cancelled THEN 1 ELSE 0
      OBVIOUS
    <2>7. recovery' = [recovery EXCEPT
              ![r].pc = "dwell", ![r].todo = rest, ![r].endpoint = now,
              ![r].tried = did, ![r].late = late]
      <3>1. CASE lifecycle \/ recovery[r].cancelled
        BY <1>3, <2>2, <2>6, <3>1 DEF RecoverySwitch
      <3>2. CASE ~(lifecycle \/ recovery[r].cancelled)
        BY <1>3, <2>2, <2>6, <3>2 DEF RecoverySwitch
      <3> QED
        BY <3>1, <3>2
    <2>8. late \in Nat
      BY <2>6
    <2> HIDE DEF e, rest, now, did
    <2>9. /\ recovery' \in [Slots -> Recoveries]
          /\ recovery'[r].pc = "dwell" /\ recovery'[r].todo = rest
          /\ recovery'[r].tried = did /\ recovery'[r].late = late
          /\ recovery'[r].cancelled = recovery[r].cancelled
          /\ \A q \in Slots : q # r => recovery'[q] = recovery[q]
      BY <1>0, <2>3, <2>4, <2>5, <2>7, <2>8 DEF Recoveries
    <2>10. ToSet(Known) \subseteq did \cup ToSet(rest)
      BY <1>0, <2>1, <2>3 DEF GoesThroughAll, did
    <2>11. GoesThroughAll(recovery'[r])
      BY <2>9, <2>10 DEF GoesThroughAll
    <2> QED
      BY <2>1, <2>6, <2>9, <2>11
  <1>4. CASE RecoveryDwelled(r)
    <2>1. PICK pc : pc = IF recovery[r].todo = <<>> THEN "backoff" ELSE "check"
      OBVIOUS
    <2>2. /\ recovery[r].pc = "dwell" /\ UNCHANGED renegotiate /\ recoveryFrame
          /\ recovery[r].late = 0
      BY <1>0, <1>4 DEF RecoveryDwelled, RecoveryCtxDone
    <2>3. recovery' = [recovery EXCEPT ![r].pc = pc] /\ pc \in {"backoff", "check"}
      BY <1>4, <2>1 DEF RecoveryDwelled
    <2>4. /\ recovery' \in [Slots -> Recoveries]
          /\ \A q \in Slots : q # r => recovery'[q] = recovery[q]
          /\ recovery'[r] = [recovery[r] EXCEPT !.pc = pc]
      BY <1>0, <2>3 DEF Recoveries
    <2>5. recovery[r].todo = <<>> => ToSet(recovery[r].todo) = {}
      BY DEF ToSet
    <2>6. GoesThroughAll(recovery'[r])
      BY <1>0, <2>1, <2>2, <2>4, <2>5 DEF GoesThroughAll, Recoveries
    <2> QED
      BY <1>0, <2>2, <2>3, <2>4, <2>6 DEF Recoveries
  <1>5. CASE RecoveryBackedOff(r)
    <2>1. recovery[r].pc = "backoff" /\ UNCHANGED renegotiate /\ recoveryFrame
      BY <1>5 DEF RecoveryBackedOff
    <2>2. recovery' = [recovery EXCEPT ![r] = NextRound(recovery[r])]
      BY <1>5 DEF RecoveryBackedOff
    <2>3. /\ NextRound(recovery[r]) \in Recoveries
          /\ GoesThroughAll(NextRound(recovery[r]))
          /\ NextRound(recovery[r]).pc # "done"
          /\ NextRound(recovery[r]).cancelled = recovery[r].cancelled
          /\ NextRound(recovery[r]).late = recovery[r].late
      BY <1>0, <2>1, NextRoundFits
    <2> QED
      BY <1>0, <2>1, <2>2, <2>3
  <1>6. CASE RecoverySignal(r)
    BY <1>0, <1>6, IdleFits DEF RecoverySignal
  <1> QED
    BY <1>1, <1>2, <1>3, <1>4, <1>5, <1>6 DEF Recovery

--------------------------------------------------------------------------------
(* The steps of the other goroutines *)

(* The retry loop only moves on or signals exhaustion. *)
LEMMA RetryStep ==
  ASSUME TypeOK, Retry \/ Expire
  PROVE  /\ retry' \in [pc : {"select", "stats", "next", "signal", "done"},
                        endpoint : Endpoints, queueIdx : 0..Len(CandidateQueue),
                        watching : BOOLEAN, expired : BOOLEAN]
         /\ renegotiate' \in {renegotiate, 1}
         /\ retryFrame
  <1> DEFINE Retries == [pc : {"select", "stats", "next", "signal", "done"},
                        endpoint : Endpoints, queueIdx : 0..Len(CandidateQueue),
                        watching : BOOLEAN, expired : BOOLEAN]
  <1>0. retry \in Retries /\ RetryEnded \in Retries
    BY DEF TypeOK, RetryEnded
  <1>1. CASE RetryCancelled
    BY <1>0, <1>1 DEF RetryCancelled
  <1>2. CASE RetryTick
    BY <1>0, <1>2 DEF RetryTick
  <1>3. CASE RetrySignal
    BY <1>0, <1>3 DEF RetrySignal
  <1>4. CASE Expire
    BY <1>0, <1>4 DEF Expire
  <1>5. ASSUME NEW ok \in BOOLEAN, RetryNext(ok)
        PROVE  retry' \in Retries /\ UNCHANGED renegotiate /\ retryFrame
    <2>1. PICK c : c = nextEndpointCandidate(CandidateQueue, retry.queueIdx, retry.endpoint)
      OBVIOUS
    <2>2. /\ c.next \in retry.queueIdx..Len(CandidateQueue)
          /\ c.candidate \in Endpoints \cup {NoAddr}
      BY <1>0, <2>1, NextCandidate
    <2>3. c.next \in 0..Len(CandidateQueue)
      BY <1>0, <2>2
    <2>4. PICK now : now = switchEndpoint(retry.endpoint, c.candidate, ok)
      OBVIOUS
    <2>5. CASE c.candidate = NoAddr
      <3>1. retry' = [retry EXCEPT !.pc = "signal", !.queueIdx = c.next]
        BY <1>5, <2>1, <2>5 DEF RetryNext
      <3> QED
        BY <1>0, <1>5, <2>3, <3>1 DEF RetryNext
    <2>6. CASE c.candidate # NoAddr
      <3>1. retry' = [retry EXCEPT !.pc = "select", !.queueIdx = c.next, !.endpoint = now]
        BY <1>5, <2>1, <2>4, <2>6 DEF RetryNext
      <3>2. now \in Endpoints
        BY <1>0, <2>2, <2>4, <2>6 DEF switchEndpoint
      <3> QED
        BY <1>0, <1>5, <2>3, <3>1, <3>2 DEF RetryNext
    <2> QED
      BY <2>5, <2>6
  <1>6. ASSUME NEW e \in Endpoints, NEW ok \in BOOLEAN, RetryNominated(e, ok)
        PROVE  retry' \in Retries /\ UNCHANGED renegotiate /\ retryFrame
    <2>1. PICK now : now = switchEndpoint(retry.endpoint, e, ok)
      OBVIOUS
    <2>2. now \in Endpoints
      BY <1>0, <2>1 DEF switchEndpoint
    <2>3. CASE e = retry.endpoint
      BY <1>0, <1>6, <2>3 DEF RetryNominated
    <2>4. CASE e # retry.endpoint
      <3>1. retry' = [retry EXCEPT !.watching = FALSE, !.pc = "stats", !.endpoint = now]
        BY <1>6, <2>1, <2>4 DEF RetryNominated
      <3> QED
        BY <1>0, <1>6, <2>2, <3>1 DEF RetryNominated
    <2> QED
      BY <2>3, <2>4
  <1>7. ASSUME NEW readable \in BOOLEAN, NEW dwelled \in BOOLEAN, RetryStats(readable, dwelled)
        PROVE  retry' \in Retries /\ UNCHANGED renegotiate /\ retryFrame
    <2>1. PICK pc : pc = RetryDecision(readable, dwelled)
      OBVIOUS
    <2>2. pc \in {"signal", "select", "done", "next"}
      BY <2>1 DEF RetryDecision
    <2>3. retry' = IF pc = "done" THEN RetryEnded ELSE [retry EXCEPT !.pc = pc]
      BY <1>7, <2>1 DEF RetryStats
    <2> QED
      BY <1>0, <1>7, <2>2, <2>3 DEF RetryStats
  <1> QED
    BY <1>1, <1>2, <1>3, <1>4, <1>5, <1>6, <1>7 DEF Retry

(* The pinger offers an event of its health, or is gone. *)
LEMMA PingerStep ==
  ASSUME TypeOK, Pinger \/ PingerFails
  PROVE  /\ pinger' \in [pc : {"ping", "send", "done"}, health : Health, event : Events]
         /\ echoStopped' \in 0..1
         /\ pingerFrame
  <1>0. /\ pinger \in [pc : {"ping", "send", "done"}, health : Health, event : Events]
        /\ echoStopped \in 0..1
    BY DEF TypeOK
  <1>1. CASE PingerStops
    BY <1>0, <1>1 DEF PingerStops, Events
  <1>2. CASE PingerFails
    <2>1. pinger' = [pinger EXCEPT !.pc = "done", !.event = "none"] /\ echoStopped' = 1 /\ pingerFrame
      BY <1>2 DEF PingerFails
    <2>2. echoStopped' \in 0..1
      BY <2>1
    <2>3. pinger' \in [pc : {"ping", "send", "done"}, health : Health, event : Events]
      BY <1>0, <2>1 DEF Events
    <2> QED
      BY <2>1, <2>2, <2>3
  <1>3. ASSUME NEW matched \in BOOLEAN, PingerObserves(matched)
        PROVE  /\ pinger' \in [pc : {"ping", "send", "done"}, health : Health, event : Events]
               /\ UNCHANGED echoStopped
               /\ pingerFrame
    <2>1. PICK event : event = HealthEvent(pinger.health, matched)
      OBVIOUS
    <2>2. event \in Events
      BY <2>1 DEF HealthEvent, Events
    <2>3. PICK h : h = HealthAfter(pinger.health, matched)
      OBVIOUS
    <2>4. h \in Health
      <3>1. pinger.health \in Health
        BY <1>0
      <3>2. PICK n : n = pinger.health.failures + 1
        OBVIOUS
      <3> QED
        BY <2>3, <3>1, <3>2 DEF HealthAfter, Health
    <2>5. pinger' = [pc |-> IF event = "none" THEN "ping" ELSE "send", health |-> h, event |-> event]
      BY <1>3, <2>1, <2>3 DEF PingerObserves
    <2> QED
      BY <1>3, <2>2, <2>4, <2>5 DEF PingerObserves
  <1> QED
    BY <1>0, <1>1, <1>2, <1>3 DEF Pinger

(* A step that leaves the recoveries and main's hold on them alone keeps   *)
(* the invariant: contexts only become done, exhaustion only arrives.      *)
LEMMA OtherStep ==
  ASSUME IInv, TypeOK', UNCHANGED <<main, recoveryCancel, recovery>>,
         lifecycle => lifecycle', renegotiate' \in {renegotiate, 1}
  PROVE  IInv'
  <1>1. (\A r \in Slots : GoesThroughAll(recovery[r]))'
    BY DEF IInv, GoesThroughAll
  <1>2. LateIsInDwell'
    BY DEF IInv, LateIsInDwell
  <1>3. LiveIsHeld' /\ HeldIsNotCancelled'
    BY DEF IInv, LiveIsHeld, HeldIsNotCancelled
  <1>4. RecoveryHandsOver'
    BY DEF IInv, RecoveryHandsOver
  <1> QED
    BY <1>1, <1>2, <1>3, <1>4 DEF IInv

(* A step of a recovery keeps the invariant. *)
LEMMA RecoveryKeeps ==
  ASSUME IInv, NEW r \in Slots, Recovery(r)
  PROVE  IInv'
  <1>0. /\ recovery' \in [Slots -> Recoveries]
        /\ \A q \in Slots : q # r => recovery'[q] = recovery[q]
        /\ GoesThroughAll(recovery'[r])
        /\ recovery'[r].pc = "done" \/ recovery'[r].cancelled = recovery[r].cancelled
        /\ recovery'[r].cancelled => recovery[r].cancelled
        /\ recovery[r].pc # "done"
        /\ recovery'[r].pc = "done" =>
              lifecycle \/ recovery[r].cancelled \/ renegotiate' = 1
        /\ \/ recovery'[r].late = 0
           \/ /\ recovery'[r].late = 1
              /\ recovery'[r].pc = "dwell"
              /\ lifecycle \/ recovery[r].cancelled
        /\ renegotiate' \in {renegotiate, 1}
        /\ recoveryFrame
    BY RecoveryStep
  <1>1. TypeOK'
    BY <1>0 DEF IInv, TypeOK, Recoveries, recoveryFrame, mainVars
  <1>2. (\A q \in Slots : GoesThroughAll(recovery[q]))'
    <2>1. ASSUME NEW q \in Slots
          PROVE  GoesThroughAll(recovery'[q])
      <3>1. CASE q = r
        BY <1>0, <3>1
      <3>2. CASE q # r
        <4>1. recovery'[q] = recovery[q] /\ GoesThroughAll(recovery[q])
          BY <1>0, <3>2 DEF IInv
        <4> QED
          BY <4>1
      <3> QED
        BY <3>1, <3>2
    <2> QED
      BY <2>1 DEF GoesThroughAll
  <1>3. LateIsInDwell'
    <2>1. UNCHANGED lifecycle
      BY <1>0 DEF recoveryFrame, mainVars
    <2> QED
      BY <1>0, <2>1 DEF IInv, LateIsInDwell
  <1>4. LiveIsHeld'
    BY <1>0 DEF IInv, LiveIsHeld, recoveryFrame, mainVars
  <1>5. UNCHANGED <<main, lifecycle, recoveryCancel>>
    BY <1>0 DEF recoveryFrame, mainVars
  <1>6. recoveryCancel # 0 => recoveryCancel \in Slots
    BY DEF IInv, TypeOK
  <1>7. HeldIsNotCancelled'
    BY <1>0, <1>5, <1>6 DEF IInv, HeldIsNotCancelled
  <1>8. RecoveryHandsOver'
    BY <1>0, <1>5, <1>6 DEF IInv, RecoveryHandsOver, HeldIsNotCancelled
  <1> QED
    BY <1>1, <1>2, <1>3, <1>4, <1>7, <1>8 DEF IInv

--------------------------------------------------------------------------------
(* The steps of main *)

(* recoveryCancel() changes nothing but the flag of the one it holds. *)
LEMMA CancelHeld ==
  ASSUME IInv,
         recovery' = [r \in Slots |->
            IF r = recoveryCancel THEN [recovery[r] EXCEPT !.cancelled = TRUE] ELSE recovery[r]]
  PROVE  /\ recovery' \in [Slots -> Recoveries]
         /\ \A r \in Slots :
               /\ GoesThroughAll(recovery'[r])
               /\ recovery'[r].pc = recovery[r].pc /\ recovery'[r].late = recovery[r].late
               /\ recovery[r].cancelled => recovery'[r].cancelled
               /\ r = recoveryCancel => recovery'[r].cancelled
  <1> SUFFICES ASSUME NEW r \in Slots
               PROVE  /\ recovery'[r] \in Recoveries
                      /\ GoesThroughAll(recovery'[r])
                      /\ recovery'[r].pc = recovery[r].pc /\ recovery'[r].late = recovery[r].late
                      /\ recovery[r].cancelled => recovery'[r].cancelled
                      /\ r = recoveryCancel => recovery'[r].cancelled
    OBVIOUS
  <1>1. recovery[r] \in Recoveries /\ GoesThroughAll(recovery[r])
    BY DEF IInv, TypeOK, Recoveries
  <1>2. CASE r = recoveryCancel
    <2>1. recovery'[r] = [recovery[r] EXCEPT !.cancelled = TRUE]
      BY <1>2
    <2> QED
      BY <1>1, <2>1 DEF Recoveries, GoesThroughAll
  <1>3. CASE r # recoveryCancel
    <2>1. recovery'[r] = recovery[r]
      BY <1>3
    <2> QED
      BY <1>1, <1>3, <2>1
  <1> QED
    BY <1>2, <1>3

(* main leaves the loop: it cancels, and asks nothing of a recovery after. *)
LEMMA LeaveKeeps ==
  ASSUME IInv, Leave, UNCHANGED <<lifecycle, recoveryCancel, baselineValid, device>>,
         pinger' \in [pc : {"ping", "send", "done"}, health : Health, event : Events],
         retry' = retry, renegotiate' \in 0..1, echoStopped' \in 0..1,
         verdict' \in {verdict, "other"}
  PROVE  IInv'
  <1>0. /\ recovery' \in [Slots -> Recoveries]
        /\ \A r \in Slots :
              /\ GoesThroughAll(recovery'[r])
              /\ recovery'[r].pc = recovery[r].pc /\ recovery'[r].late = recovery[r].late
              /\ recovery[r].cancelled => recovery'[r].cancelled
              /\ r = recoveryCancel => recovery'[r].cancelled
    BY CancelHeld DEF Leave
  <1>1. main' = "proxyClose"
    BY DEF Leave
  <1>2. TypeOK'
    BY <1>0, <1>1 DEF IInv, TypeOK, Recoveries
  <1>3. (\A q \in Slots : GoesThroughAll(recovery[q]))'
    BY <1>0 DEF GoesThroughAll
  <1>4. LateIsInDwell'
    BY <1>0 DEF IInv, LateIsInDwell
  <1>5. LiveIsHeld'
    BY <1>0 DEF IInv, LiveIsHeld
  <1>6. HeldIsNotCancelled' /\ RecoveryHandsOver'
    BY <1>1 DEF HeldIsNotCancelled, RecoveryHandsOver
  <1> QED
    BY <1>2, <1>3, <1>4, <1>5, <1>6 DEF IInv

(* main enters the loop before any recovery, or goes on with its clean-up. *)
LEMMA MainMoves ==
  ASSUME IInv, TypeOK', UNCHANGED <<recoveryCancel, recovery>>, lifecycle => lifecycle',
         \/ main' \in {"waitWorkers", "returned"}
         \/ main' = "select" /\ main = "starting"
  PROVE  IInv'
  <1>1. (\A q \in Slots : GoesThroughAll(recovery[q]))'
    BY DEF IInv, GoesThroughAll
  <1>2. LateIsInDwell'
    BY DEF IInv, LateIsInDwell
  <1>3. LiveIsHeld'
    BY DEF IInv, LiveIsHeld
  <1>4. HeldIsNotCancelled' /\ RecoveryHandsOver'
    BY DEF IInv, HeldIsNotCancelled, RecoveryHandsOver
  <1> QED
    BY <1>1, <1>2, <1>3, <1>4 DEF IInv

(* A health event taken leaves the pinger at its next request. *)
LEMMA ReceivedTypes ==
  ASSUME TypeOK, NEW event, Received(event)
  PROVE  /\ pinger' \in [pc : {"ping", "send", "done"}, health : Health, event : Events]
         /\ main = "select"
         /\ UNCHANGED <<lifecycle, renegotiate, echoStopped, retry>>
  BY DEF Received, TypeOK, Events

(* The baseline is taken anew. *)
LEMMA BaselineTypes ==
  ASSUME TypeOK, NEW valid \in BOOLEAN, TakeBaseline(valid)
  PROVE  baselineValid' \in BOOLEAN /\ device' \in [handshake : BOOLEAN, progress : BOOLEAN]
  BY DEF TakeBaseline, TypeOK

(* A healthy event cancels the recovery and lets go of it. *)
LEMMA HealthyKeeps ==
  ASSUME IInv, NEW valid \in BOOLEAN, MainHealthy(valid)
  PROVE  IInv'
  <1>0. /\ recovery' \in [Slots -> Recoveries]
        /\ \A r \in Slots :
              /\ GoesThroughAll(recovery'[r])
              /\ recovery'[r].pc = recovery[r].pc /\ recovery'[r].late = recovery[r].late
              /\ recovery[r].cancelled => recovery'[r].cancelled
              /\ r = recoveryCancel => recovery'[r].cancelled
    BY CancelHeld DEF MainHealthy
  <1>1. /\ pinger' \in [pc : {"ping", "send", "done"}, health : Health, event : Events]
        /\ UNCHANGED <<lifecycle, renegotiate, echoStopped, retry, main>>
        /\ recoveryCancel' = 0 /\ verdict' \in {"reestablished", "other"}
    BY ReceivedTypes DEF IInv, MainHealthy
  <1>2. baselineValid' \in BOOLEAN /\ device' \in [handshake : BOOLEAN, progress : BOOLEAN]
    BY BaselineTypes DEF IInv, MainHealthy
  <1>3. TypeOK'
    BY <1>0, <1>1, <1>2 DEF IInv, TypeOK, Recoveries
  <1>4. (\A q \in Slots : GoesThroughAll(recovery[q]))'
    BY <1>0 DEF GoesThroughAll
  <1>5. LateIsInDwell'
    BY <1>0, <1>1 DEF IInv, LateIsInDwell
  <1>6. LiveIsHeld'
    BY <1>0 DEF IInv, LiveIsHeld
  <1>7. HeldIsNotCancelled' /\ RecoveryHandsOver'
    BY <1>1 DEF HeldIsNotCancelled, RecoveryHandsOver
  <1> QED
    BY <1>3, <1>4, <1>5, <1>6, <1>7 DEF IInv

(* main starts a recovery only when every other one is cancelled. *)
LEMMA StartKeeps ==
  ASSUME IInv, NEW valid \in BOOLEAN, NEW recent \in BOOLEAN,
         NEW e \in Endpoints \cup {NoAddr}, NEW r \in Slots,
         MainStartsRecovery(valid, recent, e, r)
  PROVE  IInv'
  <1> DEFINE idle == [IdleRecovery EXCEPT !.endpoint = e]
             new == StartRound(idle)
  <1>0. recovery' = [recovery EXCEPT ![r] = new] /\ recoveryCancel = 0 /\ recoveryCancel' = r
    BY DEF MainStartsRecovery, MayStart
  <1>1. idle \in Recoveries /\ ~idle.cancelled /\ idle.late = 0
    BY IdleFits DEF Recoveries
  <1> HIDE DEF idle
  <1>2. /\ new \in Recoveries /\ GoesThroughAll(new)
        /\ new.pc = "check" /\ ~new.cancelled /\ new.late = 0
    BY <1>1, StartRoundFits
  <1> HIDE DEF new
  <1>3. recovery \in [Slots -> Recoveries]
    BY DEF IInv, TypeOK, Recoveries
  <1>4. /\ recovery' \in [Slots -> Recoveries] /\ recovery'[r] = new
        /\ \A q \in Slots : q # r => recovery'[q] = recovery[q]
    BY <1>0, <1>2, <1>3
  <1>5. /\ pinger' \in [pc : {"ping", "send", "done"}, health : Health, event : Events]
        /\ UNCHANGED <<lifecycle, renegotiate, echoStopped, retry, main, baselineValid, device>>
        /\ verdict' = "other" /\ main = "select"
    BY ReceivedTypes DEF IInv, MainStartsRecovery
  <1>6. TypeOK'
    BY <1>0, <1>4, <1>5 DEF IInv, TypeOK, Recoveries
  <1>7. (\A q \in Slots : GoesThroughAll(recovery[q]))'
    <2>1. \A q \in Slots : GoesThroughAll(recovery'[q])
      BY <1>2, <1>4 DEF IInv
    <2> QED
      BY <2>1 DEF GoesThroughAll
  <1>8. LateIsInDwell'
    BY <1>2, <1>4, <1>5 DEF IInv, LateIsInDwell
  <1>9. LiveIsHeld'
    BY <1>0, <1>4 DEF IInv, LiveIsHeld
  <1>10. HeldIsNotCancelled' /\ RecoveryHandsOver'
    BY <1>0, <1>2, <1>4, <1>5 DEF IInv, HeldIsNotCancelled, RecoveryHandsOver
  <1> QED
    BY <1>6, <1>7, <1>8, <1>9, <1>10 DEF IInv

(* Every step of main keeps the invariant. *)
LEMMA MainKeeps ==
  ASSUME IInv, Main
  PROVE  IInv'
  <1>0. TypeOK
    BY DEF IInv
  <1>1. CASE MainProxyFails
    <2>1. TypeOK'
      BY <1>0, <1>1 DEF MainProxyFails, TypeOK, workerVars
    <2> QED
      BY <1>1, <2>1, MainMoves DEF MainProxyFails
  <1>2. CASE MainCtxDone
    BY <1>0, <1>2, LeaveKeeps DEF MainCtxDone, workerVars, TypeOK
  <1>3. CASE MainEchoStopped
    <2>1. echoStopped' \in 0..1
      BY <1>3 DEF MainEchoStopped
    <2> QED
      BY <1>0, <1>3, <2>1, LeaveKeeps DEF MainEchoStopped, TypeOK
  <1>4. CASE MainRenegotiates
    <2>1. renegotiate' \in 0..1
      BY <1>4 DEF MainRenegotiates
    <2> QED
      BY <1>0, <1>4, <2>1, LeaveKeeps DEF MainRenegotiates, TypeOK
  <1>5. CASE MainStartupFailed
    <2>1. /\ pinger' \in [pc : {"ping", "send", "done"}, health : Health, event : Events]
          /\ UNCHANGED <<lifecycle, renegotiate, echoStopped, retry>>
      BY <1>0, <1>5, ReceivedTypes DEF MainStartupFailed
    <2>2. renegotiate' \in 0..1 /\ echoStopped' \in 0..1
      BY <1>0, <2>1 DEF TypeOK
    <2> QED
      BY <1>5, <2>1, <2>2, LeaveKeeps DEF MainStartupFailed
  <1>6. ASSUME NEW valid \in BOOLEAN, MainStarted(valid)
        PROVE  IInv'
    <2>1. TypeOK'
      <3>1. device' \in [handshake : BOOLEAN, progress : BOOLEAN]
        BY <1>0, <1>6 DEF MainStarted, TypeOK
      <3> QED
        BY <1>0, <1>6, <3>1 DEF MainStarted, TypeOK, workerVars
    <2> QED
      BY <1>6, <2>1, MainMoves DEF MainStarted
  <1>7. ASSUME NEW valid \in BOOLEAN, MainHealthy(valid)
        PROVE  IInv'
    BY <1>7, HealthyKeeps
  <1>8. ASSUME NEW valid \in BOOLEAN, NEW recent \in BOOLEAN, MainKeepsTunnel(valid, recent)
        PROVE  IInv'
    <2>1. /\ pinger' \in [pc : {"ping", "send", "done"}, health : Health, event : Events]
          /\ UNCHANGED <<lifecycle, renegotiate, echoStopped, retry>>
      BY <1>0, <1>8, ReceivedTypes DEF MainKeepsTunnel
    <2>2. baselineValid' \in BOOLEAN /\ device' \in [handshake : BOOLEAN, progress : BOOLEAN]
      BY <1>0, <1>8, BaselineTypes DEF MainKeepsTunnel
    <2>3. UNCHANGED <<main, recoveryCancel, recovery>> /\ verdict' \in {"kept", "other"}
      BY <1>8 DEF MainKeepsTunnel
    <2>4. TypeOK'
      BY <1>0, <2>1, <2>2, <2>3 DEF TypeOK
    <2> QED
      BY <2>1, <2>3, <2>4, OtherStep
  <1>9. ASSUME NEW valid \in BOOLEAN, NEW recent \in BOOLEAN, MainAlreadyRecovering(valid, recent)
        PROVE  IInv'
    <2>1. /\ pinger' \in [pc : {"ping", "send", "done"}, health : Health, event : Events]
          /\ UNCHANGED <<lifecycle, renegotiate, echoStopped, retry>>
      BY <1>0, <1>9, ReceivedTypes DEF MainAlreadyRecovering
    <2>2. /\ UNCHANGED <<main, recoveryCancel, recovery, baselineValid, device>>
          /\ verdict' = "other"
      BY <1>9 DEF MainAlreadyRecovering
    <2>3. TypeOK'
      BY <1>0, <2>1, <2>2 DEF TypeOK
    <2> QED
      BY <2>1, <2>2, <2>3, OtherStep
  <1>10. ASSUME NEW valid \in BOOLEAN, NEW recent \in BOOLEAN,
                NEW e \in Endpoints \cup {NoAddr}, NEW r \in Slots,
                MainStartsRecovery(valid, recent, e, r)
         PROVE  IInv'
    BY <1>10, StartKeeps
  <1>11. CASE MainProxyClosed
    <2>1. TypeOK'
      BY <1>0, <1>11 DEF MainProxyClosed, TypeOK, workerVars
    <2> QED
      BY <1>11, <2>1, MainMoves DEF MainProxyClosed
  <1>12. CASE MainReturns
    <2>1. TypeOK'
      BY <1>0, <1>12 DEF MainReturns, TypeOK, workerVars
    <2> QED
      BY <1>12, <2>1, MainMoves DEF MainReturns
  <1> QED
    BY <1>1, <1>2, <1>3, <1>4, <1>5, <1>6, <1>7, <1>8, <1>9, <1>10, <1>11, <1>12 DEF Main

--------------------------------------------------------------------------------
(* The invariant holds when the workers have been started. *)
LEMMA Initially == Init => IInv
  <1> SUFFICES ASSUME Init
               PROVE  IInv
    OBVIOUS
  <1>1. recovery \in [Slots -> Recoveries]
    BY IdleFits DEF Init
  <1>2. pinger \in [pc : {"ping", "send", "done"}, health : Health, event : Events]
    <2>1. NewHealth \in Health
      BY DEF NewHealth, Health
    <2>2. PICK p \in {"ping", "done"} : pinger = [pc |-> p, health |-> NewHealth, event |-> "none"]
      BY DEF Init
    <2> QED
      BY <2>1, <2>2 DEF Events
  <1>3. TypeOK
    <2>1. retry \in [pc : {"select", "stats", "next", "signal", "done"},
                    endpoint : Endpoints, queueIdx : 0..Len(CandidateQueue),
                    watching : BOOLEAN, expired : BOOLEAN]
      BY DEF Init
    <2>2. device \in [handshake : BOOLEAN, progress : BOOLEAN]
      BY DEF Init
    <2>3. lifecycle \in BOOLEAN /\ baselineValid \in BOOLEAN
      BY DEF Init
    <2> QED
      BY <1>1, <1>2, <2>1, <2>2, <2>3 DEF Init, TypeOK, Recoveries
  <1>4. \A r \in Slots : GoesThroughAll(recovery[r])
    BY IdleFits DEF Init
  <1>5. LateIsInDwell /\ LiveIsHeld /\ HeldIsNotCancelled /\ RecoveryHandsOver
    BY IdleFits DEF Init, LateIsInDwell, LiveIsHeld, HeldIsNotCancelled, RecoveryHandsOver
  <1> QED
    BY <1>3, <1>4, <1>5 DEF IInv

(* Every step of the tunnel keeps the invariant. *)
LEMMA StepKeeps == IInv /\ [Next]_vars => IInv'
  <1> SUFFICES ASSUME IInv, [Next]_vars
               PROVE  IInv'
    OBVIOUS
  <1>0. TypeOK
    BY DEF IInv
  <1>1. CASE Environment
    <2>1. CASE Handshake
      <3>1. TypeOK'
        <4>1. device' \in [handshake : BOOLEAN, progress : BOOLEAN]
          BY <1>0, <2>1 DEF Handshake, TypeOK
        <4> QED
          BY <1>0, <2>1, <4>1 DEF Handshake, TypeOK, mainVars
      <3> QED
        BY <2>1, <3>1, OtherStep DEF Handshake, mainVars
    <2>2. CASE Traffic
      <3>1. TypeOK'
        <4>1. device' \in [handshake : BOOLEAN, progress : BOOLEAN]
          BY <1>0, <2>2 DEF Traffic, TypeOK
        <4> QED
          BY <1>0, <2>2, <4>1 DEF Traffic, TypeOK, mainVars
      <3> QED
        BY <2>2, <3>1, OtherStep DEF Traffic, mainVars
    <2>3. CASE CancelParent
      <3>1. TypeOK'
        BY <1>0, <2>3 DEF CancelParent, TypeOK
      <3> QED
        BY <2>3, <3>1, OtherStep DEF CancelParent
    <2> QED
      BY <1>1, <2>1, <2>2, <2>3 DEF Environment
  <1>2. CASE Main
    BY <1>2, MainKeeps
  <1>3. CASE Retry \/ Expire
    <2>1. /\ retry' \in [pc : {"select", "stats", "next", "signal", "done"},
                        endpoint : Endpoints, queueIdx : 0..Len(CandidateQueue),
                        watching : BOOLEAN, expired : BOOLEAN]
          /\ renegotiate' \in {renegotiate, 1} /\ retryFrame
      BY <1>0, <1>3, RetryStep
    <2>2. TypeOK'
      BY <1>0, <2>1 DEF TypeOK, retryFrame, mainVars
    <2> QED
      BY <2>1, <2>2, OtherStep DEF retryFrame, mainVars
  <1>4. CASE Pinger \/ PingerFails
    <2>1. /\ pinger' \in [pc : {"ping", "send", "done"}, health : Health, event : Events]
          /\ echoStopped' \in 0..1 /\ pingerFrame
      BY <1>0, <1>4, PingerStep
    <2>2. TypeOK'
      BY <1>0, <2>1 DEF TypeOK, pingerFrame, mainVars
    <2> QED
      BY <2>1, <2>2, OtherStep DEF pingerFrame, mainVars
  <1>5. CASE \E r \in Slots : Recovery(r)
    BY <1>5, RecoveryKeeps
  <1>6. CASE Finished \/ UNCHANGED vars
    <2>1. UNCHANGED vars
      BY <1>6 DEF Finished
    <2>2. TypeOK'
      BY <1>0, <2>1 DEF TypeOK, vars
    <2> QED
      BY <2>1, <2>2, OtherStep DEF vars
  <1> QED
    BY <1>1, <1>2, <1>3, <1>4, <1>5, <1>6 DEF Next

(* The inductive invariant of the tunnel supervisor: what each recovery    *)
(* has tried and has to do, and which of them main holds.                  *)
THEOREM Invariance == Spec => []IInv
  BY Initially, StepKeeps, PTL DEF Spec

(* Every variable of runTunnel keeps its type: the channels hold at most   *)
(* one value, and endpoints come from the known addresses.                 *)
THEOREM TypeCorrect == Spec => []TypeOK
  <1>1. IInv => TypeOK
    BY DEF IInv
  <1> QED
    BY <1>1, Invariance, PTL

(* While main waits for a recovery it started, that recovery runs or its   *)
(* exhaustion is in the channel: supervision never goes blind.             *)
THEOREM HandsOver == Spec => []RecoveryHandsOver
  <1>1. IInv => RecoveryHandsOver
    BY DEF IInv
  <1> QED
    BY <1>1, Invariance, PTL

(* A cancelled recovery makes at most one more endpoint switch. *)
THEOREM CancelledStops == Spec => []CancelledRecoveryStops
  <1>1. IInv => CancelledRecoveryStops
    BY DEF IInv, LateIsInDwell, CancelledRecoveryStops
  <1> QED
    BY <1>1, Invariance, PTL

(* Two recoveries that are not cancelled are never alive together. *)
THEOREM OneLive == Spec => []OneLiveRecovery
  <1>1. IInv => OneLiveRecovery
    BY DEF IInv, LiveIsHeld, OneLiveRecovery
  <1> QED
    BY <1>1, Invariance, PTL

(* recoverWireGuardEndpoints gives up only when it has tried every known   *)
(* endpoint in its round, and signals only after the last round.           *)
THEOREM AllKnownTried == Spec => []AllKnownTriedBeforeGivingUp
  <1>1. IInv => AllKnownTriedBeforeGivingUp
    BY DEF IInv, GoesThroughAll, AllKnownTriedBeforeGivingUp
  <1> QED
    BY <1>1, Invariance, PTL
================================================================================
