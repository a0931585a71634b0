----------------------- MODULE NominationProtocol_proofs -----------------------
(***************************************************************************)
(* Proofs about NominationProtocol for every set of tuples and every       *)
(* countdown without repeated values.                                      *)
(*                                                                         *)
(* None of the safety invariants is inductive alone.  The strengthening    *)
(* that carries them is CountedWasSent: the client never counts further    *)
(* than the console has sent.  It rests on the countdown being injective:  *)
(* the next expected value identifies its place in the countdown, so a     *)
(* duplicated or overtaken datagram cannot stand in for one not yet sent.  *)
(***************************************************************************)
EXTENDS NominationProtocol, TLAPS

CountedWasSent == \A a \in Addrs : nextWait[a] <= sent[a]

SelectedIsComplete == selected # None => active /\ Complete(selected)

IInv ==
    /\ TypeOK
    /\ CountedWasSent
    /\ SelectedIsComplete
    /\ ClosedOnceWithSelection
    /\ NoMissedNomination

(* The length of nominationWaitSequence is a positive number, so the       *)
(* countdown's positions are natural numbers.                              *)
LEMMA LastIsPositive == WaitCount \in Nat /\ WaitCount > 0
  BY WaitSeqAssumption DEF WaitCount

(* A wait that is the expected one of a pair is, among the waits already   *)
(* sent, the one at the pair's own position: counting it stays within what *)
(* the console has sent.                                                   *)
LEMMA ExpectedWaitWasSent ==
    ASSUME TypeOK, NEW a \in Addrs, NEW i \in 1..WaitCount,
           i <= sent[a], ~Settled(a), Expected(a, WaitSeq[i])
    PROVE  nextWait[a] + 1 <= sent[a]
  <1>1. nextWait[a] \in 0..WaitCount /\ nextWait[a] < WaitCount /\ sent[a] \in 0..WaitCount
    BY LastIsPositive DEF TypeOK, Settled
  <1>2. nextWait[a] + 1 \in 1..WaitCount
    BY <1>1, LastIsPositive
  <1>3. i = nextWait[a] + 1
    BY <1>2, WaitSeqAssumption DEF Expected, WaitCount
  <1> QED
    BY <1>3

(* No stray value is the expected wait of any pair. *)
LEMMA StrayIsUnexpected ==
    ASSUME TypeOK, NEW a \in Addrs, NEW w \in StrayWaits, ~Settled(a)
    PROVE  ~Expected(a, w)
  <1>1. nextWait[a] + 1 \in 1..WaitCount
    BY LastIsPositive DEF TypeOK, Settled
  <1> QED
    BY <1>1, StrayWaitsAssumption DEF Expected, WaitCount

(* observe and the tracker's part of the invariant: one lemma for the      *)
(* datagrams of the countdown and the stray ones.                          *)
LEMMA ObservePreserves ==
    ASSUME IInv, NEW a \in Addrs, NEW w, observe(a, w),
           ~Settled(a) /\ Expected(a, w) => nextWait[a] + 1 <= sent[a],
           UNCHANGED <<sent, waiterVars>>
    PROVE  IInv'
  <1> USE LastIsPositive, NoneAssumption
  <1>1. CASE UNCHANGED trackerVars
    BY <1>1 DEF IInv, TypeOK, CountedWasSent, SelectedIsComplete, Complete,
       ClosedOnceWithSelection, NoMissedNomination, trackerVars, waiterVars
  <1>2. CASE ~Settled(a) /\ ~Expected(a, w) /\ KeepProgress(a)
             /\ UNCHANGED <<active, selected, closes>>
    BY <1>1, <1>2 DEF KeepProgress, trackerVars
  <1>3. CASE /\ ~Settled(a)
             /\ Expected(a, w)
             /\ nextWait' = [nextWait EXCEPT ![a] = @ + 1]
             /\ UNCHANGED active
             /\ IF nextWait[a] + 1 = WaitCount /\ active
                THEN Select(a)
                ELSE UNCHANGED <<selected, closes>>
    <2>1. /\ nextWait[a] \in 0..WaitCount
          /\ nextWait[a] < WaitCount
          /\ sent[a] \in 0..WaitCount
          /\ selected = None
      BY <1>3 DEF IInv, TypeOK, Settled
    <2>2. nextWait[a] + 1 \in 0..WaitCount /\ nextWait[a] + 1 <= sent[a]
      BY <1>3, <2>1
    <2>3. nextWait' \in [Addrs -> 0..WaitCount]
      BY <1>3, <2>2 DEF IInv, TypeOK
    <2>4. CountedWasSent'
      BY <1>3, <2>2 DEF IInv, TypeOK, CountedWasSent
    <2>5. \A b \in Addrs : b # a => (Complete(b)' <=> Complete(b))
      BY <1>3 DEF IInv, TypeOK, Complete
    <2>6. Complete(a)' <=> nextWait[a] + 1 = WaitCount
      BY <1>3 DEF IInv, TypeOK, Complete
    <2>7. CASE nextWait[a] + 1 = WaitCount /\ active
      <3>1. selected' = a /\ closes' = closes + 1 /\ active'
        BY <1>3, <2>7 DEF Select
      <3>2. closes = 0
        BY <2>1 DEF IInv, ClosedOnceWithSelection
      <3>3. TypeOK' /\ ClosedOnceWithSelection' /\ NoMissedNomination'
        BY <2>3, <3>1, <3>2, <1>3 DEF IInv, TypeOK, ClosedOnceWithSelection,
           NoMissedNomination, waiterVars
      <3>4. SelectedIsComplete'
        BY <2>6, <2>7, <3>1 DEF SelectedIsComplete, Complete
      <3> QED
        BY <3>3, <3>4, <2>4 DEF IInv
    <2>8. CASE ~(nextWait[a] + 1 = WaitCount /\ active)
      <3>1. selected' = selected /\ closes' = closes /\ active' = active
        BY <1>3, <2>8
      <3>2. TypeOK' /\ ClosedOnceWithSelection' /\ SelectedIsComplete'
        BY <2>1, <2>3, <3>1 DEF IInv, TypeOK, ClosedOnceWithSelection,
           SelectedIsComplete, waiterVars
      <3>3. NoMissedNomination'
        BY <2>1, <2>5, <2>6, <2>8, <3>1 DEF IInv, NoMissedNomination
      <3> QED
        BY <3>2, <3>3, <2>4 DEF IInv
    <2> QED
      BY <2>7, <2>8
  <1> QED
    BY <1>1, <1>2, <1>3 DEF observe

(* activate keeps the invariant: it selects a complete pair if there is    *)
(* one, and otherwise there is none to miss.                               *)
LEMMA ActivatePreserves ==
    ASSUME IInv, Activate
    PROVE  IInv'
  <1> USE LastIsPositive, NoneAssumption DEF Activate
  <1>1. CASE active /\ UNCHANGED trackerVars
    BY <1>1 DEF IInv, TypeOK, CountedWasSent, SelectedIsComplete, Complete,
       ClosedOnceWithSelection, NoMissedNomination, trackerVars
  <1>2. CASE ~active /\ active' = TRUE /\ UNCHANGED nextWait /\ ScanPairs
    <2>1. selected = None /\ closes = 0
      BY <1>2 DEF IInv, SelectedIsComplete, ClosedOnceWithSelection
    <2>2. CountedWasSent' /\ (\A a \in Addrs : Complete(a)' <=> Complete(a))
      BY <1>2 DEF IInv, CountedWasSent, Complete
    <2>3. CASE \E a \in Addrs : Complete(a) /\ Select(a)
      <3>1. PICK a \in Addrs : Complete(a) /\ Select(a)
        BY <2>3
      <3>2. selected' = a /\ closes' = 1 /\ a # None
        BY <2>1, <3>1 DEF Select
      <3>3. TypeOK' /\ ClosedOnceWithSelection' /\ NoMissedNomination'
        BY <1>2, <3>2 DEF IInv, TypeOK, ClosedOnceWithSelection,
           NoMissedNomination
      <3>4. SelectedIsComplete'
        BY <1>2, <3>1, <3>2 DEF SelectedIsComplete, Complete
      <3> QED
        BY <2>2, <3>3, <3>4 DEF IInv
    <2>4. CASE /\ ~ \E a \in Addrs : Complete(a)
               /\ UNCHANGED <<selected, closes>>
      BY <1>2, <2>1, <2>2, <2>4 DEF IInv, TypeOK, ClosedOnceWithSelection,
         NoMissedNomination, SelectedIsComplete
    <2> QED
      BY <1>2, <2>3, <2>4 DEF ScanPairs
  <1> QED
    BY <1>1, <1>2 DEF activate

(* Every step keeps the inductive invariant. *)
LEMMA NextPreserves == IInv /\ [Next]_vars => IInv'
  <1> SUFFICES ASSUME IInv, [Next]_vars PROVE IInv'
    OBVIOUS
  <1> USE LastIsPositive
  <1>1. CASE UNCHANGED vars
    BY <1>1 DEF IInv, TypeOK, CountedWasSent, SelectedIsComplete, Complete,
       ClosedOnceWithSelection, NoMissedNomination, vars
  <1>2. ASSUME NEW a \in Addrs, MasterSend(a) PROVE IInv'
    <2>1. sent' \in [Addrs -> 0..WaitCount] /\ CountedWasSent'
      BY <1>2 DEF IInv, TypeOK, CountedWasSent, MasterSend, trackerVars
    <2> QED
      BY <1>2, <2>1 DEF IInv, TypeOK, SelectedIsComplete, Complete,
         ClosedOnceWithSelection, NoMissedNomination, MasterSend, trackerVars,
         waiterVars
  <1>3. ASSUME NEW a \in Addrs, NEW i \in 1..WaitCount, Receive(a, i) PROVE IInv'
    <2>1. ~Settled(a) /\ Expected(a, WaitSeq[i]) => nextWait[a] + 1 <= sent[a]
      BY <1>3, ExpectedWaitWasSent DEF IInv, Receive
    <2> QED
      BY <1>3, <2>1, ObservePreserves DEF Receive
  <1>4. ASSUME NEW a \in Addrs, NEW w \in StrayWaits, ReceiveStray(a, w)
        PROVE IInv'
    <2>1. ~(~Settled(a) /\ Expected(a, w))
      BY StrayIsUnexpected DEF IInv
    <2> QED
      BY <1>4, <2>1, ObservePreserves DEF ReceiveStray
  <1>5. CASE WaitCheck \/ WaitSelected \/ WaitGivesUp
    BY <1>5 DEF IInv, TypeOK, CountedWasSent, SelectedIsComplete, Complete,
       ClosedOnceWithSelection, NoMissedNomination, trackerVars,
       WaitCheck, WaitSelected, WaitGivesUp
  <1> QED
    BY <1>1, <1>2, <1>3, <1>4, <1>5, ActivatePreserves DEF Next, Attempt

(* The inductive invariant holds in every state of every behaviour. *)
THEOREM Invariance == Spec => []IInv
  <1>1. Init => IInv
    <2> SUFFICES ASSUME Init PROVE IInv
      OBVIOUS
    <2>1. /\ sent = [a \in Addrs |-> 0] /\ nextWait = [a \in Addrs |-> 0]
          /\ selected = None /\ closes = 0 /\ waiter = "idle" /\ result = None
      BY DEF Init, newNominationTracker
    <2>2. active = FALSE
      BY DEF Init, newNominationTracker
    <2>3. active \in BOOLEAN
      BY <2>2
    <2>4. TypeOK
      BY <2>1, <2>3, LastIsPositive DEF TypeOK
    <2>5. CountedWasSent /\ SelectedIsComplete /\ ClosedOnceWithSelection
      BY <2>1 DEF CountedWasSent, SelectedIsComplete, ClosedOnceWithSelection
    <2>6. NoMissedNomination
      BY <2>2 DEF NoMissedNomination
    <2> QED
      BY <2>4, <2>5, <2>6 DEF IInv
  <1> QED
    BY <1>1, NextPreserves, PTL DEF Spec

(* The tracker's state has its types; in particular selectedCh is closed   *)
(* at most once, so close in observe and activate never panics.            *)
THEOREM TypeCorrect == Spec => []TypeOK
  <1>1. IInv => TypeOK
    BY DEF IInv
  <1> QED
    BY <1>1, Invariance, PTL

(* A selected tuple was driven through the whole countdown by the console, *)
(* whatever was lost, duplicated or reordered.                             *)
THEOREM OnlyNominatedSelected == Spec => []SelectedIsNominated
  <1>1. IInv => SelectedIsNominated
    BY LastIsPositive, NoneAssumption DEF IInv, TypeOK, CountedWasSent,
       SelectedIsComplete, Complete, SelectedIsNominated
  <1> QED
    BY <1>1, Invariance, PTL

(* selectedCh is closed exactly when a tuple is selected. *)
THEOREM ClosedOnce == Spec => []ClosedOnceWithSelection
  <1>1. IInv => ClosedOnceWithSelection
    BY DEF IInv
  <1> QED
    BY <1>1, Invariance, PTL

(* Activation and completion cannot pass each other unseen. *)
THEOREM NothingMissed == Spec => []NoMissedNomination
  <1>1. IInv => NoMissedNomination
    BY DEF IInv
  <1> QED
    BY <1>1, Invariance, PTL

(* An observe that changes the selection makes the abstract choice. *)
LEMMA ObserveChooses ==
    ASSUME IInv, IInv', NEW a \in Addrs, NEW w, observe(a, w), UNCHANGED sent
    PROVE  Choice!Choose(a) \/ UNCHANGED Choice!vars
  <1> USE LastIsPositive, NoneAssumption
  <1>1. active' = active
    BY DEF observe, trackerVars
  <1>2. CASE selected' = selected
    BY <1>1, <1>2 DEF Choice!vars
  <1>3. CASE selected' # selected
    <2>1. selected = None /\ selected' = a /\ active
      BY <1>3 DEF observe, Select, Settled, trackerVars
    <2>2. sent[a] = WaitCount
      <3>1. nextWait'[a] = WaitCount /\ nextWait'[a] <= sent'[a]
        BY <2>1 DEF IInv, SelectedIsComplete, Complete, CountedWasSent
      <3> QED
        BY <3>1 DEF IInv, TypeOK
    <2> QED
      BY <1>1, <2>1, <2>2 DEF Choice!Choose
  <1> QED
    BY <1>2, <1>3

(* The tracker implements the abstract choice: the client chooses among    *)
(* the tuples the console has fully proposed, once, and only after it has  *)
(* opened the choice.                                                      *)
THEOREM Refinement == Spec => ImplementsChoice
  <1> USE LastIsPositive, NoneAssumption
  <1>1. Init => Choice!Init
    BY DEF Init, newNominationTracker, Choice!Init
  <1>2. IInv /\ IInv' /\ [Next]_vars => [Choice!Next]_Choice!vars
    <2> SUFFICES ASSUME IInv, IInv', [Next]_vars
                 PROVE  Choice!Next \/ UNCHANGED Choice!vars
      OBVIOUS
    <2>1. CASE UNCHANGED vars
      BY <2>1 DEF vars, Choice!vars
    <2>2. ASSUME NEW a \in Addrs, MasterSend(a)
          PROVE  Choice!Next \/ UNCHANGED Choice!vars
      <3>1. UNCHANGED <<active, selected>>
        BY <2>2 DEF MasterSend, trackerVars
      <3>2. CASE sent'[a] = WaitCount
        <4>1. {b \in Addrs : sent'[b] = WaitCount}
                = {b \in Addrs : sent[b] = WaitCount} \cup {a}
          BY <2>2, <3>2 DEF MasterSend, IInv, TypeOK
        <4>2. a \notin {b \in Addrs : sent[b] = WaitCount}
          BY <2>2 DEF MasterSend
        <4> QED
          BY <3>1, <4>1, <4>2 DEF Choice!Next, Choice!Propose
      <3>3. CASE sent'[a] # WaitCount
        <4>1. {b \in Addrs : sent'[b] = WaitCount} = {b \in Addrs : sent[b] = WaitCount}
          BY <2>2, <3>3 DEF MasterSend, IInv, TypeOK
        <4> QED
          BY <3>1, <4>1 DEF Choice!vars
      <3> QED
        BY <3>2, <3>3
    <2>3. ASSUME NEW a \in Addrs, NEW i \in 1..WaitCount, Receive(a, i)
          PROVE  Choice!Next \/ UNCHANGED Choice!vars
      BY <2>3, ObserveChooses DEF Receive, Choice!Next
    <2>4. ASSUME NEW a \in Addrs, NEW w \in StrayWaits, ReceiveStray(a, w)
          PROVE  Choice!Next \/ UNCHANGED Choice!vars
      BY <2>4, ObserveChooses DEF ReceiveStray, Choice!Next
    <2>5. CASE Activate
      <3>1. sent' = sent
        BY <2>5 DEF Activate
      <3>2. CASE active
        BY <2>5, <3>1, <3>2 DEF Activate, activate, trackerVars, Choice!vars
      <3>3. CASE ~active
        <4>1. active' = TRUE
          BY <2>5, <3>3 DEF Activate, activate
        <4>2. selected' \in {b \in Addrs : sent[b] = WaitCount} \cup {None}
          <5>1. selected' \in Addrs \cup {None}
            BY DEF IInv, TypeOK
          <5>2. selected' # None => nextWait'[selected'] = WaitCount
            BY DEF IInv, SelectedIsComplete, Complete
          <5>3. \A b \in Addrs : nextWait'[b] <= sent'[b] /\ sent'[b] \in 0..WaitCount
            BY DEF IInv, TypeOK, CountedWasSent
          <5> QED
            BY <3>1, <5>1, <5>2, <5>3
        <4> QED
          BY <3>1, <3>3, <4>1, <4>2 DEF Choice!Next, Choice!Open
      <3> QED
        BY <3>2, <3>3
    <2>6. CASE WaitCheck \/ WaitSelected \/ WaitGivesUp
      BY <2>6 DEF WaitCheck, WaitSelected, WaitGivesUp, trackerVars, Choice!vars
    <2> QED
      BY <2>1, <2>2, <2>3, <2>4, <2>5, <2>6 DEF Next, Attempt
  <1> QED
    BY <1>1, <1>2, Invariance, PTL DEF Spec, ImplementsChoice, Choice!Spec
===============================================================================
