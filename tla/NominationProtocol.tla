-------------------------- MODULE NominationProtocol --------------------------
(***************************************************************************)
(* The nomination tracker between the console that drives it and the       *)
(* connection attempt that waits for its selection (nomination.go).        *)
(*                                                                         *)
(* waitForSelection takes the tracker's lock twice and blocks in between,  *)
(* so it is several steps.                                                 *)
(*                                                                         *)
(* The console and the network are the environment: the console starts the *)
(* wait values of a tuple in order and repeats them, and the network       *)
(* loses, duplicates and reorders.  Which datagrams can still arrive is    *)
(* given by sent[a]: any of the first sent[a] waits, any number of times.  *)
(***************************************************************************)
EXTENDS NominationTracker

CONSTANT
    StrayWaits    \* authenticated DATA values that are no wait of the countdown

ASSUME StrayWaitsAssumption ==
    \A w \in StrayWaits : \A i \in 1..Len(WaitSeq) : w # WaitSeq[i]

VARIABLES
    sent,      \* sent[a]: how many waits the console has started for tuple a
    waiter,    \* where waitForSelection is
    result     \* what it returned

vars == <<sent, nextWait, active, selected, closes, waiter, result>>
waiterVars == <<waiter, result>>

--------------------------------------------------------------------------------
(* The environment *)

(* The console starts the next wait value of a tuple's countdown. *)
MasterSend(a) ==
    /\ sent[a] < WaitCount
    /\ sent' = [sent EXCEPT ![a] = @ + 1]
    /\ UNCHANGED <<trackerVars, waiterVars>>

(* A datagram carrying the i-th wait arrives: first time, late or again. *)
Receive(a, i) ==
    /\ i <= sent[a]
    /\ observe(a, WaitSeq[i])
    /\ UNCHANGED <<sent, waiterVars>>

ReceiveStray(a, w) ==
    /\ observe(a, w)
    /\ UNCHANGED <<sent, waiterVars>>

--------------------------------------------------------------------------------
(* The connection attempt: activate, then waitForSelection *)

Activate ==
    /\ waiter = "idle"
    /\ activate
    /\ waiter' = "check"
    /\ UNCHANGED <<sent, result>>

(* if selected := t.selectedEndpoint(); selected != "" *)
WaitCheck ==
    /\ waiter = "check"
    /\ IF selected # None
       THEN waiter' = "returned" /\ result' = selected
       ELSE waiter' = "select" /\ UNCHANGED result
    /\ UNCHANGED <<sent, trackerVars>>

(* case <-t.selectedCh *)
WaitSelected ==
    /\ waiter = "select"
    /\ SelectedChClosed
    /\ waiter' = "returned"
    /\ result' = selected
    /\ UNCHANGED <<sent, trackerVars>>

(* case <-timer.C and case <-ctx.Done(): possible whenever it is blocked,  *)
(* also when selectedCh is readable too.                                   *)
WaitGivesUp ==
    /\ waiter = "select"
    /\ waiter' = "returned"
    /\ result' = None
    /\ UNCHANGED <<sent, trackerVars>>

--------------------------------------------------------------------------------
Init ==
    /\ sent = [a \in Addrs |-> 0]
    /\ newNominationTracker
    /\ waiter = "idle"
    /\ result = None

Attempt == Activate \/ WaitCheck \/ WaitSelected \/ WaitGivesUp

Next ==
    \/ \E a \in Addrs : MasterSend(a)
    \/ \E a \in Addrs, i \in 1..WaitCount : Receive(a, i)
    \/ \E a \in Addrs, w \in StrayWaits : ReceiveStray(a, w)
    \/ Attempt

Spec == Init /\ [][Next]_vars

(* The attempt's goroutine runs on, and the console repeats the wait of a  *)
(* tuple until it arrives: a repeated datagram is not lost for ever.       *)
Fairness ==
    /\ WF_vars(Attempt)
    /\ \A a \in Addrs :
        /\ WF_vars(MasterSend(a))
        /\ \A i \in 1..WaitCount : WF_vars(Receive(a, i))

FairSpec == Spec /\ Fairness

--------------------------------------------------------------------------------
(* Properties *)

TypeOK ==
    /\ sent \in [Addrs -> 0..WaitCount]
    /\ nextWait \in [Addrs -> 0..WaitCount]
    /\ active \in BOOLEAN
    /\ selected \in Addrs \cup {None}
    /\ closes \in 0..1
    /\ waiter \in {"idle", "check", "select", "returned"}
    /\ result \in Addrs \cup {None}

(* A selected tuple was driven by the console through the whole countdown: *)
(* no loss, duplication or reordering of the waits, and no stray value,    *)
(* makes observe or activate select a tuple the console has not finished.  *)
SelectedIsNominated == selected # None => sent[selected] = WaitCount

(* close(selectedCh) runs once, exactly with the selection, although both  *)
(* observe and activate close it: waiters wake up, and nothing panics.     *)
ClosedOnceWithSelection == closes = (IF selected = None THEN 0 ELSE 1)

(* No completed countdown is overlooked: whichever of activation and the   *)
(* last wait comes first, an active tracker with a complete pair has       *)
(* selected one.                                                           *)
NoMissedNomination ==
    active /\ (\E a \in Addrs : Complete(a)) => selected # None

(* What the client makes of the datagrams is a choice among the console's  *)
(* complete proposals.                                                     *)
Choice == INSTANCE NominationChoice WITH
            proposed <- {a \in Addrs : sent[a] = WaitCount},
            open <- active,
            chosen <- selected

ImplementsChoice == Choice!Spec

(* Under a console that keeps repeating its waits, an activated tracker    *)
(* selects a tuple: no order of datagrams wedges a pair.                   *)
EventuallySelected == active ~> selected # None
================================================================================
