---------------------------- MODULE ClientLifecycle ----------------------------
(***************************************************************************)
(* The client from pairing to exit (main.go, api.go): establishSession     *)
(* redeems an invite or loads a session, and runClient's loop negotiates,  *)
(* runs a tunnel, backs off and negotiates again.                          *)
(*                                                                         *)
(* Every exchange with the console goes through the cloud: POST a request, *)
(* poll for its response, DELETE it.  The client has one such exchange at  *)
(* a time, of kind "access", "ice" or "connect".  The phases between them  *)
(* are single steps here: Negotiation models the endpoint negotiation and  *)
(* TunnelSupervisor the tunnel.                                            *)
(***************************************************************************)
EXTENDS CloudPoll, Sequences, FiniteSetsExt

CONSTANTS
    MinBackoff,   \* the first reconnectBackoff, in seconds
    MaxBackoff,   \* its limit
    MaxPauses     \* bound: how far the history counts pauses, past the limit

ASSUME BackoffAssumption ==
    /\ MinBackoff \in Nat \ {0}
    /\ MaxBackoff \in Nat
    /\ MinBackoff <= MaxBackoff
    /\ MaxPauses \in Nat
    /\ MinBackoff * 2^MaxPauses >= MaxBackoff

RequestKinds == {"access", "ice", "connect"}

VARIABLES
    flags,      \* [invite, sessionFile, printConfig], each given or not
    pc,         \* where the client is
    kind,       \* the exchange it is in, or was in last
    poll,       \* the poll of that exchange
    access,     \* session.Access # nil
    requests,   \* the last request of each kind: "open" once it is posted,
                \* "gone" when its DELETE succeeded, "left" when that failed
    granted,    \* an ACCESS_GRANTED with a session token has arrived
    saved,      \* the session is in the session file
    backoff,    \* reconnectBackoff
    ctxDone,    \* the signal context is done
    exit,       \* what runClient returned: "none" until then
    outcomes,   \* history: the outcomes of this poll (the last one only once
                \* there are more than MaxTries)
    pauses,     \* history: pauses since the last long tunnel, up to MaxPauses
    saveFailed  \* history: saveSession returned an error

pollVars == <<kind, poll, outcomes>>
sessionVars == <<access, granted, saved, saveFailed>>
retryVars == <<backoff, pauses>>
vars == <<flags, pc, pollVars, sessionVars, requests, retryVars, ctxDone, exit>>

Exit(how) == pc' = "exit" /\ exit' = how

(* The error of a request or a wait wraps the context's when that is done. *)
ErrorNow == IF ctxDone THEN "canceled" ELSE "error"

--------------------------------------------------------------------------------
(* One exchange with the console *)

StartExchange(k) == pc' = "post" /\ kind' = k

Posted ==
    /\ pc = "post"
    /\ ~ctxDone
    /\ requests' = [requests EXCEPT ![kind] = "open"]
    /\ pc' = "wait"
    /\ UNCHANGED <<flags, pollVars, sessionVars, retryVars, ctxDone, exit>>

(* The POST is not retried; the cloud may have it all the same.  An        *)
(* answer that the interrupt cuts off is an error in its JSON.             *)
NotPosted ==
    /\ pc = "post"
    /\ \/ Exit(ErrorNow)
       \/ Exit("error")
    /\ \/ UNCHANGED requests
       \/ requests' = [requests EXCEPT ![kind] = "open"]
    /\ UNCHANGED <<flags, pollVars, sessionVars, retryVars, ctxDone>>

(* waitForContext(ctx, interval); a false from it is returned as ctx.Err() *)
WaitsAgain == UNCHANGED <<poll, pc>>
WaitReturns == poll' = [poll EXCEPT !.result = "canceled"] /\ pc' = "polled"

PollWaits ==
    /\ pc = "wait"
    /\ IF ctxDone THEN WaitReturns ELSE UNCHANGED poll /\ pc' = "get"
    /\ UNCHANGED <<flags, kind, outcomes, sessionVars, requests, retryVars, ctxDone, exit>>

(* The GET.  An interrupt fails it; when it comes during the body, whose   *)
(* read error is ignored, the status and what has arrived count instead.   *)
PollGets(o) ==
    /\ pc = "get"
    /\ o # IF ctxDone THEN "want" ELSE "canceled"
    /\ poll' = Polled(poll, o)
    /\ outcomes' = IF Len(outcomes) > MaxTries THEN <<o>> ELSE Append(outcomes, o)
    /\ pc' = IF poll'.result = "running" THEN "wait" ELSE "polled"
    /\ UNCHANGED <<flags, kind, sessionVars, requests, retryVars, ctxDone, exit>>

(* The call that returned leaves nothing behind but its result. *)
PollOver == poll' = NewPoll /\ outcomes' = <<>>

(* The response carries what was asked for: a session token, ICE servers.  *)
PollFound ==
    /\ pc = "polled"
    /\ poll.result = "found"
    /\ pc' = IF kind = "access" THEN "metadata" ELSE "delete"
    /\ granted' = (granted \/ kind = "access")
    /\ PollOver
    /\ UNCHANGED <<flags, kind, access, saved, saveFailed, requests, retryVars, ctxDone, exit>>

(* It does not ("timed out waiting for ..."), or there is none. *)
PollFailed ==
    /\ pc = "polled"
    /\ poll.result = "found" => kind # "connect"
    /\ Exit(IF poll.result = "canceled" THEN "canceled" ELSE "error")
    /\ PollOver
    /\ UNCHANGED <<flags, kind, sessionVars, requests, retryVars, ctxDone>>

(* The DELETE of a request.  Its error is ignored and it is not retried;   *)
(* with the context done it is not even sent.                              *)
Delete(k) ==
    \/ requests' = [requests EXCEPT ![k] = "left"]
    \/ ~ctxDone /\ requests' = [requests EXCEPT ![k] = "gone"]

(* It ends an exchange.  After ICE come the sockets and candidates, after  *)
(* CONNECT the negotiation.                                                *)
Deleted ==
    /\ pc = "delete"
    /\ Delete(kind)
    /\ pc' = IF kind = "ice" THEN "gather" ELSE "negotiate"
    /\ UNCHANGED <<flags, pollVars, sessionVars, retryVars, ctxDone, exit>>

Exchange ==
    \/ Posted \/ NotPosted \/ PollWaits \/ PollFound \/ PollFailed \/ Deleted
    \/ \E o \in Outcomes : PollGets(o)

--------------------------------------------------------------------------------
(* establishSession *)

Loaded ==
    /\ pc = "load"
    /\ \/ pc' = "attempt" /\ UNCHANGED exit
       \/ Exit("error")
    /\ UNCHANGED <<flags, pollVars, sessionVars, requests, retryVars, ctxDone>>

(* fetchMetadataContext only informs; then ctx.Err() is checked. *)
MetadataFetched ==
    /\ pc = "metadata"
    /\ IF ctxDone
       THEN Exit("canceled")
       ELSE pc' = "save" /\ UNCHANGED exit
    /\ UNCHANGED <<flags, pollVars, sessionVars, requests, retryVars, ctxDone>>

(* saveSession, if there is a file to save to; a failure is only logged. *)
SessionKept ==
    /\ pc = "save"
    /\ IF flags.sessionFile
       THEN \/ saved' = TRUE /\ UNCHANGED saveFailed
            \/ saveFailed' = TRUE /\ UNCHANGED saved
       ELSE UNCHANGED <<saved, saveFailed>>
    /\ access' = TRUE
    /\ pc' = "attempt"
    /\ UNCHANGED <<flags, pollVars, granted, requests, retryVars, ctxDone, exit>>

--------------------------------------------------------------------------------
(* runConnectionAttempt *)

(* The check at the top of the loop, and a key pair *)
AttemptStarts ==
    /\ pc = "attempt"
    /\ ~ctxDone
    /\ StartExchange("ice")
    /\ UNCHANGED <<flags, poll, outcomes, sessionVars, requests, retryVars, ctxDone, exit>>

AttemptDoesNotStart ==
    /\ pc = "attempt"
    /\ Exit(ErrorNow)
    /\ UNCHANGED <<flags, pollVars, sessionVars, requests, retryVars, ctxDone>>

(* Sockets, local candidates and TURN prerequisites: no look at ctx *)
Gathered ==
    /\ pc = "gather"
    /\ \/ StartExchange("connect") /\ UNCHANGED exit
       \/ Exit("error") /\ UNCHANGED kind
    /\ UNCHANGED <<flags, poll, outcomes, sessionVars, requests, retryVars, ctxDone>>

(* negotiateEndpoint finds an endpoint, or not (Negotiation) *)
Negotiated ==
    /\ pc = "negotiate"
    /\ \/ pc' = "endpoint" /\ UNCHANGED exit
       \/ Exit(ErrorNow)
       \/ Exit("error")
    /\ UNCHANGED <<flags, pollVars, sessionVars, requests, retryVars, ctxDone>>

(* The access request is kept until an endpoint is found, and deleted once *)
AccessKept == UNCHANGED <<requests, access>>
AccessDropped ==
    /\ IF access THEN Delete("access") ELSE UNCHANGED requests
    /\ access' = FALSE

EndpointFound ==
    /\ pc = "endpoint"
    /\ AccessDropped
    /\ IF flags.printConfig THEN Exit("printed") ELSE pc' = "tunnel" /\ UNCHANGED exit
    /\ UNCHANGED <<flags, pollVars, granted, saved, saveFailed, retryVars, ctxDone>>

(* runTunnel returns the context's error. *)
TunnelCanceled ==
    /\ pc = "tunnel"
    /\ ctxDone
    /\ Exit("canceled")
    /\ UNCHANGED <<flags, pollVars, sessionVars, requests, retryVars, ctxDone>>

(* It returns another error, a local one at its very start included: all   *)
(* count as a tunnel that started.  long: it lasted five minutes.          *)
BackoffKept(long) == UNCHANGED backoff /\ pauses' = IF long THEN 0 ELSE pauses
ResetBackoff(long) ==
    IF long THEN backoff' = MinBackoff /\ pauses' = 0 ELSE UNCHANGED retryVars

TunnelLost(long) ==
    /\ pc = "tunnel"
    /\ ResetBackoff(long)
    /\ pc' = "backoff"
    /\ UNCHANGED <<flags, pollVars, sessionVars, requests, ctxDone, exit>>

(* waitForContext(ctx, reconnectBackoff) *)
DoubleUncapped(b) == 2 * b
DoubleCapped(b) == Min({2 * b, MaxBackoff})

BackedOff ==
    /\ pc = "backoff"
    /\ ~ctxDone
    /\ backoff' = DoubleCapped(backoff)
    /\ pauses' = Min({pauses + 1, MaxPauses})
    /\ pc' = "attempt"
    /\ UNCHANGED <<flags, pollVars, sessionVars, requests, ctxDone, exit>>

BackoffCanceled ==
    /\ pc = "backoff"
    /\ ctxDone
    /\ Exit("canceled")
    /\ UNCHANGED <<flags, pollVars, sessionVars, requests, retryVars, ctxDone>>

Interrupt ==
    /\ ~ctxDone
    /\ ctxDone' = TRUE
    /\ UNCHANGED <<flags, pc, pollVars, sessionVars, requests, retryVars, exit>>

Finished == pc = "exit" /\ UNCHANGED vars

--------------------------------------------------------------------------------
(* parseFlags requires an invite or a session file. *)
Init ==
    /\ flags \in [invite : BOOLEAN, sessionFile : BOOLEAN, printConfig : BOOLEAN]
    /\ flags.invite \/ flags.sessionFile
    /\ pc = IF flags.invite THEN "post" ELSE "load"
    /\ kind = "access"
    /\ poll = NewPoll
    /\ outcomes = <<>>
    /\ access = FALSE
    /\ granted = FALSE
    /\ saved = FALSE
    /\ saveFailed = FALSE
    /\ requests = [k \in RequestKinds |-> "none"]
    /\ backoff = MinBackoff
    /\ pauses = 0
    /\ ctxDone = FALSE
    /\ exit = "none"

Client ==
    \/ Exchange
    \/ Loaded \/ MetadataFetched \/ SessionKept
    \/ AttemptStarts \/ AttemptDoesNotStart \/ Gathered \/ Negotiated \/ EndpointFound
    \/ TunnelCanceled \/ BackedOff \/ BackoffCanceled

Next ==
    \/ Client
    \/ \E long \in BOOLEAN : TunnelLost(long)
    \/ Interrupt
    \/ Finished

Spec == Init /\ [][Next]_vars

(* The client's goroutine runs on: HTTP requests time out after 30 s, the  *)
(* phases in between return (Negotiation, TunnelSupervisor).  A tunnel     *)
(* that nobody interrupts need not end.                                    *)
FairSpec == Spec /\ WF_vars(Client)

--------------------------------------------------------------------------------
(* Properties *)

TypeOK ==
    /\ flags \in [invite : BOOLEAN, sessionFile : BOOLEAN, printConfig : BOOLEAN]
    /\ pc \in {"post", "wait", "get", "polled", "delete", "load", "metadata", "save",
               "attempt", "gather", "negotiate", "endpoint", "tunnel", "backoff", "exit"}
    /\ kind \in RequestKinds
    /\ poll \in [tries : 0..MaxTries, errors : 0..MaxErrors,
                 result : {"running", "found", "absent", "failed", "canceled"}]
    /\ outcomes \in Seq(Outcomes)
    /\ access \in BOOLEAN
    /\ granted \in BOOLEAN
    /\ saved \in BOOLEAN
    /\ saveFailed \in BOOLEAN
    /\ requests \in [RequestKinds -> {"none", "open", "gone", "left"}]
    /\ backoff \in MinBackoff..MaxBackoff
    /\ pauses \in 0..MaxPauses
    /\ ctxDone \in BOOLEAN
    /\ exit \in {"none", "canceled", "error", "printed"}

(* The last n outcomes all ask for another try. *)
Outage(n) ==
    /\ Len(outcomes) >= n
    /\ \A i \in (Len(outcomes) - n + 1)..Len(outcomes) : Transient(outcomes[i])

(* A poll ends for the reason its outcomes give, whatever their order: an  *)
(* error after MaxErrors bad tries in a row and not for fewer, however     *)
(* many there were in all; nothing after MaxTries and not before; and an   *)
(* outage that uses up both limits at once is an error.                    *)
PollEndsForAReason ==
    LET n == Len(outcomes)
        last == outcomes[n]
    IN  /\ poll.result = "found" => n > 0 /\ last = "want"
        /\ poll.result = "failed" => n > 0 /\ (last = "permanent" \/ Outage(MaxErrors))
        /\ poll.result = "absent" => n = MaxTries /\ last \notin {"want", "permanent"}
                                                  /\ ~Outage(MaxErrors)
        /\ poll.result = "running" => n < MaxTries /\ ~Outage(MaxErrors)
        /\ poll.result = "canceled" => ctxDone

(* No request is forgotten: before the next one of its kind, and before a  *)
(* tunnel or the configuration, the client has called for its DELETE.  The *)
(* exchanges do so with their response; the access request, kept over the  *)
(* first negotiation, is deleted before the first tunnel.  Whether the     *)
(* cloud then still has it depends on that call only ("gone" or "left").   *)
Open == {k \in RequestKinds : requests[k] = "open"}

NoRequestIsForgotten ==
    /\ pc = "post" => kind \notin Open
    /\ pc \in {"tunnel", "backoff"} \/ exit = "printed" => Open = {}

(* The pause before an attempt is MinBackoff doubled for each pause since  *)
(* the last tunnel of five minutes, up to the limit.                       *)
BackoffFollowsPauses == backoff = Min({MinBackoff * 2^pauses, MaxBackoff})

(* An interrupted client exits, wherever it is: every wait and request     *)
(* has the context, and no retry starts another round.                     *)
InterruptEnds == ctxDone ~> pc = "exit"

(* An attempt comes to a tunnel or to the client's exit: no poll goes on   *)
(* for ever, also when the cloud answers with errors now and then.         *)
AttemptSettles == pc = "attempt" ~> pc \in {"tunnel", "exit"}

(* "redeem the invite once via REQUEST_ACCESS, then persist the granted    *)
(* session so future runs can reconnect without a new invite" (main.go): a *)
(* client that was granted a session and given a file to keep it in has it *)
(* there when it exits, unless the save failed.  Violated by an interrupt  *)
(* between the grant and the save.                                         *)
GrantedSessionIsKept ==
    pc = "exit" /\ granted /\ flags.sessionFile => saved \/ saveFailed

(* "poll cancellation error = %v, want context.Canceled" (api_test.go): a  *)
(* poll whose request the interrupt cancelled does not end as if nothing   *)
(* had come of it.  Violated when that request was the last try.           *)
CanceledPollSaysSo ==
    poll.result = "absent" => \A i \in 1..Len(outcomes) : outcomes[i] # "canceled"
================================================================================
