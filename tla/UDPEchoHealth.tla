----------------------------- MODULE UDPEchoHealth -----------------------------
(***************************************************************************)
(* udpEchoHealth (udpecho.go): turns the outcomes of the in-tunnel echo    *)
(* requests into health events.                                            *)
(***************************************************************************)
EXTENDS Naturals

CONSTANT MaxFailures    \* maxConsecutiveEchoFailures

ASSUME MaxFailuresAssumption == MaxFailures \in Nat \ {0}

Events == {"none", "healthy", "startupFailed", "unhealthy"}

NewHealth == [ready |-> FALSE, failures |-> 0]

(* The counter is reset when it reaches the limit, so it stays below. *)
Health == [ready : BOOLEAN, failures : 0..(MaxFailures - 1)]

(* observe(matched): the event, and the health record after it *)
HealthEvent(h, matched) ==
    CASE matched -> "healthy"
      [] ~matched /\ ~h.ready -> "startupFailed"
      [] ~matched /\ h.ready /\ h.failures + 1 >= MaxFailures -> "unhealthy"
      [] OTHER -> "none"

HealthKeepsCounting(h, matched) ==
    CASE matched -> [ready |-> TRUE, failures |-> 0]
      [] ~matched /\ ~h.ready -> h
      [] OTHER -> [h EXCEPT !.failures = @ + 1]

HealthAfter(h, matched) ==
    CASE matched -> [ready |-> TRUE, failures |-> 0]
      [] ~matched /\ ~h.ready -> h
      [] ~matched /\ h.ready /\ h.failures + 1 >= MaxFailures -> [h EXCEPT !.failures = 0]
      [] OTHER -> [h EXCEPT !.failures = @ + 1]
================================================================================
