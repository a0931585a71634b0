------------------------------- MODULE CloudPoll -------------------------------
(***************************************************************************)
(* pollForResponseWithContext (api.go): one call's counters, as operators  *)
(* on a record.  ClientLifecycle adds the waits, the requests and the      *)
(* context.                                                                *)
(***************************************************************************)
EXTENDS Naturals

CONSTANTS
    MaxTries,     \* maxTries
    MaxErrors     \* maxConsecutivePollErrors

ASSUME PollAssumption == MaxTries \in Nat \ {0} /\ MaxErrors \in Nat \ {0}

(* What a GET /<requestID> comes to: the wanted response, another one (202 *)
(* and an empty body too), an error worth another try (no response, 5xx,   *)
(* 429), any other error (4xx, a body that is no JSON), or the context was *)
(* cancelled during it.                                                    *)
Outcomes == {"want", "other", "transient", "permanent", "canceled"}

(* transient(): a cancelled request has no status code either. *)
Transient(o) == o \in {"transient", "canceled"}

NewPoll == [tries |-> 0, errors |-> 0, result |-> "running"]

(* consecutiveErrors after an outcome *)
ErrorsNeverReset(p, o) == IF Transient(o) THEN p.errors + 1 ELSE p.errors
ErrorsAfter(p, o) == IF Transient(o) THEN p.errors + 1 ELSE 0

(* for i := 0; i < maxTries; i++ *)
LastTry(p) == p.tries + 1 = MaxTries

(* What the call returns, or "running": the response ("found"), an error   *)
(* ("failed", or "canceled" when it wraps the context's), or nil, nil      *)
(* ("absent").                                                             *)
ResultAfter(p, o) ==
    CASE o = "want" -> "found"
      [] o = "permanent" -> "failed"
      [] Transient(o) /\ ErrorsAfter(p, o) >= MaxErrors ->
            IF o = "canceled" THEN "canceled" ELSE "failed"
      [] OTHER -> IF LastTry(p) THEN "absent" ELSE "running"

PolledUncounted(p, o) ==
    [tries |-> p.tries, errors |-> ErrorsAfter(p, o), result |-> ResultAfter(p, o)]

Polled(p, o) ==
    [tries |-> p.tries + 1, errors |-> ErrorsAfter(p, o), result |-> ResultAfter(p, o)]
================================================================================
