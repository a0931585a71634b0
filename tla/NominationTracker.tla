--------------------------- MODULE NominationTracker ---------------------------
(***************************************************************************)
(* nominationTracker (nomination.go): the client's record of the console's *)
(* master-driven nomination, one countdown per remote UDP tuple.           *)
(*                                                                         *)
(* The tracker is shared by the reader goroutines of both sockets (they    *)
(* call observe), the connection attempt (activate, waitForSelection) and  *)
(* the endpoint retry loop (selectedCh).  Every method runs under t.mu, so *)
(* each is one step on the variables below; NominationProtocol and         *)
(* Negotiation add who calls them.                                         *)
(***************************************************************************)
EXTENDS Naturals, Sequences

CONSTANTS
    Addrs,        \* remote UDP tuples, as the strings the tracker is keyed by
    None,         \* the empty string: no selection
    WaitSeq       \* nominationWaitSequence

ASSUME NoneAssumption == None \notin Addrs

(* The countdown has no repeated value: 2000, 1000, 500, 250, 125. *)
ASSUME WaitSeqAssumption ==
    /\ WaitSeq \in Seq(Nat)
    /\ Len(WaitSeq) > 0
    /\ \A i, j \in 1..Len(WaitSeq) : WaitSeq[i] = WaitSeq[j] => i = j

VARIABLES
    nextWait,  \* nextWait[a]: nominationPair.nextWait (0 when there is no pair)
    active,    \* t.active
    selected,  \* t.selected
    closes     \* how often close(t.selectedCh) ran; a second one panics

trackerVars == <<nextWait, active, selected, closes>>

WaitCount == Len(WaitSeq)

Complete(a) == nextWait[a] = WaitCount

--------------------------------------------------------------------------------
(* The tracker's methods *)

newNominationTracker ==
    /\ nextWait = [a \in Addrs |-> 0]
    /\ active = FALSE
    /\ selected = None
    /\ closes = 0

(* t.selected = addr; close(t.selectedCh) *)
Select(a) ==
    /\ selected' = a
    /\ closes' = closes + 1

(* The first early return of observe: the choice is made, or this tuple    *)
(* has nothing left to count.                                              *)
SettledForTuple(a) == nextWait[a] >= WaitCount
Settled(a) == selected # None \/ nextWait[a] >= WaitCount

(* The second one: any wait but the next of the countdown is ignored. *)
ExpectedAnyWait(a, w) == \E i \in 1..WaitCount : w = WaitSeq[i]
Expected(a, w) == w = WaitSeq[nextWait[a] + 1]

(* What becomes of the pair on an unexpected wait: it keeps its progress. *)
KeepResets(a) == nextWait' = [nextWait EXCEPT ![a] = 0]
KeepProgress(a) == UNCHANGED nextWait

(* observe(addr, waitMs) *)
observe(a, w) ==
    \/ /\ Settled(a)
       /\ UNCHANGED trackerVars
    \/ /\ ~Settled(a)
       /\ ~Expected(a, w)
       /\ KeepProgress(a)
       /\ UNCHANGED <<active, selected, closes>>
    \/ /\ ~Settled(a)
       /\ Expected(a, w)
       /\ nextWait' = [nextWait EXCEPT ![a] = @ + 1]
       /\ UNCHANGED active
       /\ IF nextWait[a] + 1 = WaitCount /\ active
          THEN Select(a)
          ELSE UNCHANGED <<selected, closes>>

(* The scan of t.pairs in activate: Go's map order is arbitrary, so any    *)
(* complete pair may be the one found first.                               *)
ScanSkipped == UNCHANGED <<selected, closes>>
ScanPairs ==
    IF \E a \in Addrs : Complete(a)
    THEN \E a \in Addrs : Complete(a) /\ Select(a)
    ELSE UNCHANGED <<selected, closes>>

(* activate() *)
activate ==
    \/ /\ active
       /\ UNCHANGED trackerVars
    \/ /\ ~active
       /\ active' = TRUE
       /\ UNCHANGED nextWait
       /\ ScanPairs

(* selectedCh is readable once closed. *)
SelectedChClosed == closes > 0
================================================================================
