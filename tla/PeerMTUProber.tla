----------------------------- MODULE PeerMTUProber -----------------------------
(***************************************************************************)
(* peerMTUProber (peermtu.go): the datagram path MTU search, as operators  *)
(* on the prober's record.  Its methods run under p.mu and are called by   *)
(* the echo pinger only, so each is one value-to-value step.               *)
(*                                                                         *)
(* newPeerMTUProber keeps the milestones up to the ceiling.  The milestone *)
(* list ascends, so that is a prefix of it, and an index of the prober's   *)
(* own list is an index of Milestones for which Probeable holds.           *)
(***************************************************************************)
EXTENDS Naturals, Sequences

CONSTANTS
    Base,         \* baseTunnelMTU
    Milestones,   \* defaultProbeMilestones
    MaxTarget,    \* discoverPathMTU's ceiling for the negotiated endpoint
    MaxProbes     \* maxDPLPMTUDProbesPerMilestone

ASSUME MilestonesAssumption ==
    /\ Base \in Nat \ {0}
    /\ MaxTarget \in Nat
    /\ MaxProbes \in Nat \ {0}
    /\ Milestones \in Seq(Nat)
    /\ \A i \in 1..Len(Milestones) : Milestones[i] > Base
    /\ \A i, j \in 1..Len(Milestones) : i < j => Milestones[i] < Milestones[j]

Ceiling == IF MaxTarget < Base THEN Base ELSE MaxTarget

(* currentIndex < len(p.milestones) *)
ProbeableUncapped(i) == i < Len(Milestones)
Probeable(i) == i < Len(Milestones) /\ Milestones[i + 1] <= Ceiling

ProberStates == {"searching", "complete", "disabled"}

Probers == [state : ProberStates, index : 0..Len(Milestones), confirmed : Nat,
            failed : Nat, armed : BOOLEAN, manual : BOOLEAN]

(* newPeerMTUProber(initialMTU, maxTargetMTU, manualMTU): runTunnel passes *)
(* the baseline as the initial MTU unless the MTU is configured.           *)
newPeerMTUProber(manualMTU) ==
    IF manualMTU > 0
    THEN [state |-> "disabled", index |-> 0, confirmed |-> manualMTU,
          failed |-> 0, armed |-> FALSE, manual |-> TRUE]
    ELSE [state |-> IF Probeable(0) THEN "searching" ELSE "complete",
          index |-> 0, confirmed |-> Base,
          failed |-> 0, armed |-> TRUE, manual |-> FALSE]

Arm(p) == [p EXCEPT !.armed = TRUE]

(* NextProbeMTU: the milestone to probe, 0 when there is none *)
NextProbeMTU(p) ==
    IF p.armed /\ p.state = "searching" /\ Probeable(p.index)
    THEN Milestones[p.index + 1]
    ELSE 0

(* The two branches of RecordProbeResult for the milestone being probed *)
ProbeSucceeded(p, target) ==
    [p EXCEPT !.failed = 0,
              !.confirmed = target,
              !.index = @ + 1,
              !.state = IF Probeable(p.index + 1) THEN @ ELSE "complete"]

UncountedFailure(p) == p
ProbeFailed(p) ==
    [p EXCEPT !.failed = @ + 1,
              !.state = IF p.failed + 1 >= MaxProbes THEN "complete" ELSE @]

(* RecordProbeResult(targetMTU, success) *)
RecordProbeResult(p, target, success) ==
    IF \/ p.state # "searching"
       \/ ~Probeable(p.index)
       \/ Milestones[p.index + 1] # target
    THEN p
    ELSE IF success THEN ProbeSucceeded(p, target) ELSE ProbeFailed(p)

ResetStaysArmed(p) ==
    IF p.manual
    THEN p
    ELSE [p EXCEPT !.state = "searching", !.confirmed = Base, !.index = 0, !.failed = 0]

Reset(p) ==
    IF p.manual
    THEN p
    ELSE [p EXCEPT !.state = "searching", !.confirmed = Base, !.index = 0,
                   !.failed = 0, !.armed = FALSE]
================================================================================
