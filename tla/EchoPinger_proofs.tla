--------------------------- MODULE EchoPinger_proofs ---------------------------
(***************************************************************************)
(* For any milestones, ceiling, limits, configured MTUs and path MTUs: the *)
(* echo pinger never leaves the netstack at an MTU that was not confirmed, *)
(* confirms nothing that was not carried, offers the unhealthy event at    *)
(* the baseline, and keeps the MTU within the limits of the route.         *)
(***************************************************************************)
EXTENDS EchoPinger, TLAPS

(* A probe is under way, or may be, only for an MTU that is not configured, *)
(* and what was confirmed is within the ceiling.                            *)
ProberConsistent ==
    /\ prober.manual <=> prober.state = "disabled"
    /\ prober.manual => probing = 0
    /\ ~prober.manual => prober.confirmed <= Ceiling

(* The plain request about to be written goes out at the confirmed MTU. *)
PlainAtConfirmed ==
    nic /\ pc = "write" /\ probing = 0 => mtu = prober.confirmed

(* An answer to the current request is an answer to a probe that the path  *)
(* has carried.                                                            *)
AnswerWasCarried ==
    pc = "wait" /\ "current" \in replies /\ probing # 0 => probing \in carried

IInv ==
    /\ TypeOK
    /\ ProberConsistent
    /\ PlainAtConfirmed
    /\ AnswerWasCarried
    /\ StackMTUIsConfirmed
    /\ ConfirmedWasCarried
    /\ UnhealthyAtBaseline
    /\ MTUWithinLimits

USE MilestonesAssumption, MaxFailuresAssumption, MTUsAssumption

--------------------------------------------------------------------------------
(* The prober's operators *)

(* The ceiling is at least the baseline. *)
LEMMA CeilingIsNat == Ceiling \in Nat /\ Base <= Ceiling
  BY DEF Ceiling

(* A milestone that the prober offers is above zero and within the ceiling. *)
LEMMA MilestoneInReach ==
  ASSUME NEW i \in 0..Len(Milestones), Probeable(i)
  PROVE  /\ Milestones[i + 1] \in Nat
         /\ Milestones[i + 1] <= Ceiling
         /\ i + 1 \in 0..Len(Milestones)
  BY DEF Probeable

(* NextProbeMTU offers a milestone only to a search. *)
LEMMA NextProbeInReach ==
  ASSUME NEW p \in Probers
  PROVE  /\ NextProbeMTU(p) \in Nat
         /\ NextProbeMTU(p) # 0 => p.state = "searching" /\ NextProbeMTU(p) <= Ceiling
  BY MilestoneInReach DEF NextProbeMTU, Probers, ProberStates

(* newPeerMTUProber starts at the configured MTU or at the baseline. *)
LEMMA NewProber ==
  ASSUME NEW m \in Nat
  PROVE  /\ newPeerMTUProber(m) \in Probers
         /\ newPeerMTUProber(m).manual <=> newPeerMTUProber(m).state = "disabled"
         /\ newPeerMTUProber(m).manual <=> m # 0
         /\ newPeerMTUProber(m).confirmed = IF m = 0 THEN Base ELSE m
  BY DEF newPeerMTUProber, Probers, ProberStates

(* The two branches of RecordProbeResult: a successful probe is confirmed. *)
LEMMA SucceededProbe ==
  ASSUME NEW p \in Probers, NEW t \in Nat,
         p.state = "searching", p.index + 1 \in 0..Len(Milestones)
  PROVE  /\ ProbeSucceeded(p, t) \in Probers
         /\ ProbeSucceeded(p, t).manual = p.manual
         /\ ProbeSucceeded(p, t).state # "disabled"
         /\ ProbeSucceeded(p, t).confirmed = t
  <1> USE DEF ProbeSucceeded, Probers, ProberStates
  <1>1. CASE Probeable(p.index + 1)
    BY <1>1
  <1>2. CASE ~Probeable(p.index + 1)
    BY <1>2
  <1> QED
    BY <1>1, <1>2

(* A failed one confirms nothing, and may end the search. *)
LEMMA FailedProbe ==
  ASSUME NEW p \in Probers, p.state = "searching"
  PROVE  /\ ProbeFailed(p) \in Probers
         /\ ProbeFailed(p).manual = p.manual
         /\ ProbeFailed(p).state # "disabled"
         /\ ProbeFailed(p).confirmed = p.confirmed
  <1>1. PICK n \in Nat : n = p.failed + 1
    BY DEF Probers
  <1>2. CASE n >= MaxProbes
    <2>1. ProbeFailed(p) = [p EXCEPT !.failed = n, !.state = "complete"]
      BY <1>1, <1>2 DEF ProbeFailed
    <2> QED
      BY <2>1 DEF Probers, ProberStates
  <1>3. CASE ~(n >= MaxProbes)
    <2>1. ProbeFailed(p) = [p EXCEPT !.failed = n]
      BY <1>1, <1>3 DEF ProbeFailed, Probers
    <2> QED
      BY <2>1 DEF Probers, ProberStates
  <1> QED
    BY <1>2, <1>3

(* RecordProbeResult confirms nothing but the size of a successful probe   *)
(* that was the next milestone.                                            *)
LEMMA Recorded ==
  ASSUME NEW p \in Probers, NEW t \in Nat, NEW ok \in BOOLEAN
  PROVE  /\ RecordProbeResult(p, t, ok) \in Probers
         /\ RecordProbeResult(p, t, ok).manual = p.manual
         /\ RecordProbeResult(p, t, ok).state = "disabled" <=> p.state = "disabled"
         /\ \/ RecordProbeResult(p, t, ok).confirmed = p.confirmed
            \/ ok /\ RecordProbeResult(p, t, ok).confirmed = t /\ t <= Ceiling
  <1>1. CASE \/ p.state # "searching" \/ ~Probeable(p.index)
             \/ Milestones[p.index + 1] # t
    BY <1>1 DEF RecordProbeResult
  <1>2. CASE /\ p.state = "searching" /\ Probeable(p.index)
             /\ Milestones[p.index + 1] = t /\ ok
    <2>1. RecordProbeResult(p, t, ok) = ProbeSucceeded(p, t)
      BY <1>2 DEF RecordProbeResult
    <2>2. p.index + 1 \in 0..Len(Milestones) /\ t <= Ceiling
      BY <1>2, MilestoneInReach DEF Probers
    <2>3. /\ ProbeSucceeded(p, t) \in Probers
          /\ ProbeSucceeded(p, t).manual = p.manual
          /\ ProbeSucceeded(p, t).state # "disabled"
          /\ ProbeSucceeded(p, t).confirmed = t
      BY <1>2, <2>2, SucceededProbe
    <2> QED
      BY <1>2, <2>1, <2>2, <2>3
  <1>3. CASE /\ p.state = "searching" /\ Probeable(p.index)
             /\ Milestones[p.index + 1] = t /\ ~ok
    <2>1. RecordProbeResult(p, t, ok) = ProbeFailed(p)
      BY <1>3 DEF RecordProbeResult
    <2> QED
      BY <1>3, <2>1, FailedProbe
  <1> QED
    BY <1>1, <1>2, <1>3

(* Reset goes back to the baseline and probes nothing until Arm. *)
LEMMA ResetProber ==
  ASSUME NEW p \in Probers, ~p.manual
  PROVE  /\ Reset(p) \in Probers
         /\ ~Reset(p).manual /\ Reset(p).state = "searching"
         /\ Reset(p).confirmed = Base
         /\ NextProbeMTU(Reset(p)) = 0
  <1>1. Reset(p) = [state |-> "searching", index |-> 0, confirmed |-> Base,
                    failed |-> 0, armed |-> FALSE, manual |-> p.manual]
    BY DEF Reset, Probers
  <1> QED
    BY <1>1 DEF NextProbeMTU, Probers, ProberStates

(* Arm changes nothing else. *)
LEMMA ArmedProber ==
  ASSUME NEW p \in Probers
  PROVE  /\ Arm(p) \in Probers
         /\ Arm(p).manual = p.manual /\ Arm(p).state = p.state
         /\ Arm(p).confirmed = p.confirmed
  BY DEF Arm, Probers, ProberStates

(* udpEchoHealth keeps its counter below the limit. *)
LEMMA HealthType ==
  ASSUME NEW h \in Health, NEW matched \in BOOLEAN
  PROVE  HealthAfter(h, matched) \in Health /\ HealthEvent(h, matched) \in Events
  BY SMTT(30) DEF HealthAfter, HealthEvent, Health, Events

--------------------------------------------------------------------------------
(* Steps *)

(* A new pinger: nothing is probed, and the netstack has the prober's MTU. *)
LEMMA InitHolds == Init => IInv
  <1> SUFFICES ASSUME Init PROVE IInv
    OBVIOUS
  <1>1. PICK m \in ManualMTUs : prober = newPeerMTUProber(m)
    BY DEF Init
  <1>2. /\ prober \in Probers
        /\ prober.manual <=> prober.state = "disabled"
        /\ prober.manual <=> m # 0
        /\ prober.confirmed = IF m = 0 THEN Base ELSE m
    BY <1>1, NewProber
  <1>3. TypeOK
    <2>1. first \in BOOLEAN /\ nic \in BOOLEAN /\ ctxDone \in BOOLEAN
      BY DEF Init
    <2>2. health \in Health
      BY DEF Init, NewHealth, Health
    <2>3. mtu \in Nat /\ path \in Nat
      BY <1>2 DEF Init, Probers
    <2> QED
      BY <1>2, <2>1, <2>2, <2>3 DEF Init, TypeOK, Events
  <1> QED
    BY <1>2, <1>3, CeilingIsNat DEF Init, IInv, ProberConsistent, PlainAtConfirmed,
       AnswerWasCarried, StackMTUIsConfirmed, ConfirmedWasCarried,
       UnhealthyAtBaseline, MTUWithinLimits

(* The steps that leave the prober and the MTU alone *)
LEMMA OtherSteps ==
  ASSUME IInv,
         \/ TopCancelled \/ TopPlain \/ Written \/ PlainNotWritten \/ DiscardStale
         \/ WaitCancelled \/ Paused \/ SendOrPauseCancelled
         \/ EchoReply \/ LateReply \/ TunClosed \/ Cancel
         \/ \E m \in PathMTUs : PathChanges(m)
  PROVE  IInv'
  <1> USE DEF IInv, TypeOK, ProberConsistent, PlainAtConfirmed, AnswerWasCarried,
              StackMTUIsConfirmed, ConfirmedWasCarried, UnhealthyAtBaseline,
              MTUWithinLimits, envVars, pingerVars, Events
  <1>1. CASE TopCancelled
    BY <1>1 DEF TopCancelled
  <1>2. CASE TopPlain
    BY <1>2 DEF TopPlain
  <1>3. CASE Written
    BY <1>3 DEF Written
  <1>4. CASE PlainNotWritten
    BY <1>4 DEF PlainNotWritten
  <1>5. CASE DiscardStale
    BY <1>5 DEF DiscardStale
  <1>6. CASE WaitCancelled
    BY <1>6 DEF WaitCancelled
  <1>7. CASE Paused
    BY <1>7 DEF Paused
  <1>8. CASE SendOrPauseCancelled
    BY <1>8 DEF SendOrPauseCancelled
  <1>9. CASE EchoReply
    BY <1>9 DEF EchoReply
  <1>10. CASE LateReply
    BY <1>10 DEF LateReply
  <1>11. CASE TunClosed
    BY <1>11, ZenonT(30) DEF TunClosed
  <1>12. CASE Cancel
    BY <1>12 DEF Cancel
  <1>13. ASSUME NEW m \in PathMTUs, PathChanges(m) PROVE IInv'
    BY <1>13 DEF PathChanges
  <1> QED
    BY <1>1, <1>2, <1>3, <1>4, <1>5, <1>6, <1>7, <1>8, <1>9, <1>10, <1>11, <1>12, <1>13

(* A probe is started within the ceiling, and never for a configured MTU. *)
LEMMA TopProbeStep ==
  ASSUME IInv, TopProbe
  PROVE  IInv'
  <1> DEFINE t == NextProbeMTU(prober)
  <1>1. t = ProbeTarget /\ t # 0
    BY DEF TopProbe, ProbeTarget
  <1>2. t \in Nat /\ t <= Ceiling /\ prober.state = "searching" /\ ~prober.manual
    BY <1>1, NextProbeInReach DEF IInv, TypeOK, ProberConsistent
  <1> HIDE DEF t
  <1>3. CASE nic
    <2>1. /\ probing' = t /\ mtu' = t /\ pc' = "write"
          /\ UNCHANGED <<prober, first, health, event, replies, carried, envVars>>
      BY <1>1, <1>3 DEF TopProbe
    <2> QED
      BY <1>1, <1>2, <2>1, CeilingIsNat DEF IInv, TypeOK, ProberConsistent, PlainAtConfirmed,
         AnswerWasCarried, StackMTUIsConfirmed, ConfirmedWasCarried, UnhealthyAtBaseline,
         MTUWithinLimits, envVars
  <1>4. CASE ~nic
    <2>1. /\ probing' = 0 /\ mtu' = t /\ pc' = "write"
          /\ prober' = RecordProbeResult(prober, t, FALSE)
          /\ UNCHANGED <<first, health, event, replies, carried, envVars>>
      BY <1>1, <1>4 DEF TopProbe
    <2>2. /\ prober' \in Probers /\ prober'.manual = prober.manual
          /\ prober'.state = "disabled" <=> prober.state = "disabled"
          /\ prober'.confirmed = prober.confirmed
      BY <1>2, <2>1, Recorded DEF IInv, TypeOK
    <2> QED
      BY <1>1, <1>2, <1>4, <2>1, <2>2, CeilingIsNat DEF IInv, TypeOK, ProberConsistent,
         PlainAtConfirmed, AnswerWasCarried, StackMTUIsConfirmed, ConfirmedWasCarried,
         UnhealthyAtBaseline, MTUWithinLimits, envVars
  <1> QED
    BY <1>3, <1>4

(* A failed write takes the netstack back to the confirmed MTU. *)
LEMMA ProbeNotWrittenStep ==
  ASSUME IInv, ProbeNotWritten
  PROVE  IInv'
  <1>1. /\ pc' = "pause" /\ mtu' = prober'.confirmed /\ probing # 0
        /\ UNCHANGED <<first, probing, health, event, replies, carried, envVars>>
    BY DEF ProbeNotWritten, RevertMTU
  <1>2. /\ prober' \in Probers /\ prober'.manual = prober.manual
        /\ prober'.state = "disabled" <=> prober.state = "disabled"
        /\ prober'.confirmed = prober.confirmed
    BY Recorded, ZenonT(30) DEF ProbeNotWritten, IInv, TypeOK
  <1>3. ~prober.manual /\ prober.confirmed \in Nat
    BY <1>1 DEF IInv, ProberConsistent, TypeOK, Probers
  <1> QED
    BY <1>1, <1>2, <1>3, CeilingIsNat DEF IInv, TypeOK, ProberConsistent, PlainAtConfirmed,
       AnswerWasCarried, StackMTUIsConfirmed, ConfirmedWasCarried,
       UnhealthyAtBaseline, MTUWithinLimits, envVars

(* The event is taken, and an answered plain request arms the prober. *)
LEMMA SentStep ==
  ASSUME IInv, Sent
  PROVE  IInv'
  <1>1. /\ prober' \in Probers /\ prober'.manual = prober.manual
        /\ prober'.state = prober.state /\ prober'.confirmed = prober.confirmed
    BY ArmedProber DEF Sent, IInv, TypeOK
  <1>2. /\ pc' = "pause" /\ event' = "none" /\ pc = "send"
        /\ UNCHANGED <<first, probing, health, mtu, replies, carried, envVars>>
    BY DEF Sent
  <1> QED
    BY <1>1, <1>2 DEF IInv, TypeOK, ProberConsistent, PlainAtConfirmed, AnswerWasCarried,
       StackMTUIsConfirmed, ConfirmedWasCarried, UnhealthyAtBaseline, MTUWithinLimits,
       envVars, Events

(* The verdict on a request, and what it does to the prober and the MTU *)
LEMMA ConcludeStep ==
  ASSUME IInv, NEW matched \in BOOLEAN, pc = "wait", ConcludeRequest(matched),
         replies' \subseteq replies,
         matched => "current" \in replies
  PROVE  IInv'
  <1> DEFINE recorded == IF probing # 0 THEN RecordProbeResult(prober, probing, matched)
                                        ELSE prober
             ev == HealthEvent(health, matched)
             reset == ResetsMTU(ev, recorded)
  <1>1. /\ recorded \in Probers
        /\ recorded.manual = prober.manual
        /\ recorded.state = "disabled" <=> prober.state = "disabled"
        /\ \/ recorded.confirmed = prober.confirmed
           \/ /\ probing # 0 /\ matched
              /\ recorded.confirmed = probing /\ probing <= Ceiling
    <2>1. CASE probing # 0
      <3>1. recorded = RecordProbeResult(prober, probing, matched)
        BY <2>1
      <3>2. prober \in Probers /\ probing \in Nat
        BY DEF IInv, TypeOK
      <3> QED
        BY <2>1, <3>1, <3>2, Recorded, ZenonT(30)
    <2>2. CASE probing = 0
      BY <2>2 DEF IInv, TypeOK
    <2> QED
      BY <2>1, <2>2 DEF IInv, TypeOK
  <1>2. recorded.confirmed \in Nat /\ prober.confirmed \in Nat
    BY <1>1 DEF IInv, TypeOK, Probers
  <1>3. /\ ev \in Events /\ health' \in Health /\ event' = ev
        /\ pc' = IF ev = "none" THEN "pause" ELSE "send"
        /\ UNCHANGED <<first, probing, envVars>>
    BY HealthType DEF ConcludeRequest, IInv, TypeOK
  <1>4. /\ prober' = IF reset THEN Reset(recorded) ELSE recorded
        /\ mtu' = CASE reset -> Base
                    [] ~reset /\ probing # 0 -> recorded.confirmed
                    [] OTHER -> mtu
        /\ carried' = IF reset THEN {} ELSE carried
    BY DEF ConcludeRequest
  <1>5. reset <=> ev = "unhealthy" /\ ~prober.manual
    BY <1>1 DEF ResetsMTU, IInv, ProberConsistent
  <1> HIDE DEF recorded, ev, reset
  <1>6. CASE reset
    <2>1. /\ prober' = Reset(recorded) /\ mtu' = Base /\ carried' = {}
          /\ ~prober.manual
      BY <1>4, <1>5, <1>6
    <2>2. /\ prober' \in Probers /\ ~prober'.manual /\ prober'.state = "searching"
          /\ prober'.confirmed = Base /\ NextProbeMTU(prober') = 0
      BY <1>1, <2>1, ResetProber
    <2> QED
      BY <1>3, <2>1, <2>2, CeilingIsNat DEF IInv, TypeOK, ProberConsistent,
         PlainAtConfirmed, AnswerWasCarried, StackMTUIsConfirmed, ConfirmedWasCarried,
         UnhealthyAtBaseline, MTUWithinLimits, envVars
  <1>7. CASE ~reset
    <2>1. /\ prober' = recorded /\ carried' = carried
          /\ mtu' = IF probing # 0 THEN recorded.confirmed ELSE mtu
      BY <1>4, <1>7
    <2>2. ev = "unhealthy" => prober.manual
      BY <1>5, <1>7
    <2>3. TypeOK' /\ ProberConsistent'
      BY <1>1, <1>2, <1>3, <2>1 DEF IInv, TypeOK, ProberConsistent, envVars
    <2>4. PlainAtConfirmed' /\ AnswerWasCarried' /\ UnhealthyAtBaseline'
      BY <1>1, <1>3, <2>1, <2>2 DEF PlainAtConfirmed, AnswerWasCarried, UnhealthyAtBaseline
    <2>5. StackMTUIsConfirmed'
      <3>1. probing = 0 => recorded.confirmed = prober.confirmed
        BY <1>1
      <3> QED
        BY <1>3, <2>1, <3>1 DEF IInv, StackMTUIsConfirmed, envVars
    <2>6. ConfirmedWasCarried'
      BY <1>1, <2>1 DEF IInv, ConfirmedWasCarried, AnswerWasCarried
    <2>7. MTUWithinLimits'
      BY <1>1, <1>2, <2>1, CeilingIsNat DEF IInv, MTUWithinLimits, ProberConsistent
    <2> QED
      BY <2>3, <2>4, <2>5, <2>6, <2>7 DEF IInv
  <1> QED
    BY <1>6, <1>7

(* Every step keeps the inductive invariant. *)
LEMMA NextPreserves == IInv /\ [Next]_vars => IInv'
  <1> SUFFICES ASSUME IInv, [Next]_vars
               PROVE  IInv'
    OBVIOUS
  <1>1. CASE Matched
    <2>1. /\ pc = "wait" /\ replies' \subseteq replies /\ "current" \in replies
          /\ ConcludeRequest(TRUE)
      BY <1>1 DEF Matched, Accepts
    <2> QED
      BY <2>1, ConcludeStep
  <1>2. CASE Unmatched
    <2>1. pc = "wait" /\ replies' \subseteq replies /\ ConcludeRequest(FALSE)
      BY <1>2 DEF Unmatched
    <2> QED
      BY <2>1, ConcludeStep, Zenon
  <1>3. CASE Finished \/ UNCHANGED vars
    <2>1. UNCHANGED vars
      BY <1>3 DEF Finished
    <2> QED
      BY <2>1 DEF vars, IInv, TypeOK, ProberConsistent, PlainAtConfirmed,
         AnswerWasCarried, StackMTUIsConfirmed, ConfirmedWasCarried, UnhealthyAtBaseline,
         MTUWithinLimits
  <1> QED
    BY <1>1, <1>2, <1>3, OtherSteps, TopProbeStep, ProbeNotWrittenStep, SentStep
       DEF Next, Pinger

(* The inductive invariant holds in every state of every behaviour. *)
THEOREM Invariance == Spec => []IInv
  BY InitHolds, NextPreserves, PTL DEF Spec

--------------------------------------------------------------------------------
(* TypeOK: the pinger's state has its types; in particular the failure     *)
(* count of udpEchoHealth stays below its limit and the prober's index     *)
(* within its milestones.                                                  *)
THEOREM TypeCorrect == Spec => []TypeOK
  BY Invariance, PTL DEF IInv

(* StackMTUIsConfirmed: no outcome of a probe in runUDPEchoPinger leaves   *)
(* the netstack at the probe's size.                                       *)
THEOREM StackAtConfirmed == Spec => []StackMTUIsConfirmed
  BY Invariance, PTL DEF IInv

(* ConfirmedWasCarried: an MTU that RecordProbeResult confirmed was        *)
(* answered at that size since the last Reset.                             *)
THEOREM ConfirmedCarried == Spec => []ConfirmedWasCarried
  BY Invariance, PTL DEF IInv

(* UnhealthyAtBaseline: the unhealthy event is offered after the prober    *)
(* was reset and the netstack put back to the baseline.                    *)
THEOREM RecoveryAtBaseline == Spec => []UnhealthyAtBaseline
  BY Invariance, PTL DEF IInv

(* MTUWithinLimits: a configured MTU is never touched, and a probed one    *)
(* never exceeds the ceiling of the route.                                 *)
THEOREM WithinLimits == Spec => []MTUWithinLimits
  BY Invariance, PTL DEF IInv
================================================================================
