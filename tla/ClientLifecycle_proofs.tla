------------------------ MODULE ClientLifecycle_proofs ------------------------
(***************************************************************************)
(* For any limits of the poll and any backoff: a poll ends for the reason  *)
(* its outcomes give, and no request is forgotten under a tunnel.           *)
(* For the code's backoff: it doubles with each pause, up to its limit.    *)
(***************************************************************************)
EXTENDS ClientLifecycle, TLAPS

(* Outside the loop of pollForResponseWithContext there is no poll; inside *)
(* it has not returned.                                                    *)
PollPhases ==
    /\ pc = "polled" <=> poll.result # "running"
    /\ pc \notin {"wait", "get", "polled"} => outcomes = <<>> /\ poll = NewPoll

(* The loop's two counters say what the outcomes say: how many there are,  *)
(* and how many bad ones there were since the last good one.               *)
CountersCount ==
    poll.result = "running" =>
        /\ poll.tries = Len(outcomes)
        /\ poll.errors <= Len(outcomes) /\ poll.errors < MaxErrors
        /\ Outage(poll.errors)
        /\ poll.errors < Len(outcomes) => ~Transient(outcomes[Len(outcomes) - poll.errors])

(* The access request that is still to be deleted *)
Kept == IF access THEN {"access"} ELSE {}

(* Which requests are open where *)
OpenRequests ==
    /\ pc \in {"post", "load", "metadata", "save"} /\ kind = "access" => ~access
    /\ pc = "post" /\ kind = "access" => Open = {}
    /\ pc \in {"wait", "get", "polled"} /\ kind = "access" => Open = {"access"} /\ ~access
    /\ pc \in {"metadata", "save"} => Open = {"access"}
    /\ pc = "load" => Open = {} /\ ~access
    /\ pc = "post" /\ kind # "access" => Open = Kept
    /\ pc \in {"wait", "get", "polled", "delete"} /\ kind # "access" => Open = Kept \cup {kind}
    /\ pc = "delete" => kind # "access"
    /\ pc \in {"attempt", "gather", "negotiate", "endpoint"} => Open = Kept
    /\ pc \in {"tunnel", "backoff"} => ~access
    /\ pc # "exit" => exit = "none"

PollInv == TypeOK /\ PollPhases /\ CountersCount /\ PollEndsForAReason
OpenInv == OpenRequests /\ NoRequestIsForgotten

--------------------------------------------------------------------------------
(* The smaller of two numbers *)
LEMMA MinOfTwo ==
  ASSUME NEW a \in Nat, NEW b \in Nat
  PROVE  Min({a, b}) = IF a <= b THEN a ELSE b
  <1>1. CASE a <= b
    BY <1>1 DEF Min
  <1>2. CASE ~(a <= b)
    BY <1>2 DEF Min
  <1> QED
    BY <1>1, <1>2

(* Of the assumption on the backoff, what the types rest on *)
LEMMA Limits ==
  /\ MaxTries \in Nat \ {0} /\ MaxErrors \in Nat \ {0}
  /\ MinBackoff \in Nat \ {0} /\ MaxBackoff \in Nat /\ MinBackoff <= MaxBackoff
  /\ MaxPauses \in Nat
  BY PollAssumption, BackoffAssumption, Zenon

(* Doubling keeps the backoff within its limits. *)
LEMMA BackoffStaysWithin ==
  ASSUME NEW b \in MinBackoff..MaxBackoff, NEW p \in 0..MaxPauses
  PROVE  /\ DoubleCapped(b) \in MinBackoff..MaxBackoff
         /\ Min({p + 1, MaxPauses}) \in 0..MaxPauses
  <1>1. /\ 2 * b \in Nat /\ p + 1 \in Nat
        /\ Min({2 * b, MaxBackoff}) = IF 2 * b <= MaxBackoff THEN 2 * b ELSE MaxBackoff
        /\ Min({p + 1, MaxPauses}) = IF p + 1 <= MaxPauses THEN p + 1 ELSE MaxPauses
    BY Limits, MinOfTwo
  <1> QED
    BY <1>1, Limits DEF DoubleCapped

--------------------------------------------------------------------------------
(* The poll *)

(* One more outcome: the counters follow it, and the call returns for it.  *)
LEMMA PollGetsStep ==
  ASSUME PollInv, NEW o \in Outcomes, PollGets(o)
  PROVE  PollInv'
  <1> USE Limits
  <1>n. PICK n \in Nat : n = Len(outcomes)
    BY DEF PollInv, TypeOK
  <1>1. /\ poll.result = "running" /\ poll.tries = n /\ n < MaxTries
        /\ poll.errors \in Nat /\ poll.errors <= n /\ poll.errors < MaxErrors
        /\ outcomes \in Seq(Outcomes)
    BY <1>n DEF PollGets, PollInv, PollPhases, CountersCount, PollEndsForAReason, TypeOK
  <1>e. PICK e \in 0..MaxErrors : e = ErrorsAfter(poll, o)
    BY <1>1 DEF ErrorsAfter
  <1>r. PICK r : r = ResultAfter(poll, o)
    OBVIOUS
  <1>2. /\ outcomes' \in Seq(Outcomes) /\ Len(outcomes') = n + 1 /\ outcomes'[n + 1] = o
        /\ \A i \in 1..n : outcomes'[i] = outcomes[i]
    BY <1>n, <1>1 DEF PollGets
  <1>3. /\ poll' = [tries |-> n + 1, errors |-> e, result |-> r]
        /\ pc' = IF r = "running" THEN "wait" ELSE "polled"
        /\ o = "canceled" => ctxDone
    BY <1>e, <1>r, <1>1 DEF PollGets, Polled
  <1>4. /\ e = IF Transient(o) THEN poll.errors + 1 ELSE 0
        /\ e <= n + 1
    BY <1>e, <1>1 DEF ErrorsAfter
  <1>5. \A i \in (n + 2 - e)..(n + 1) : Transient(outcomes'[i])
    <2>1. \A i \in (n - poll.errors + 1)..n : Transient(outcomes[i])
      BY <1>n, <1>1 DEF PollInv, CountersCount, Outage
    <2>2. ASSUME NEW i \in (n + 2 - e)..(n + 1) PROVE Transient(outcomes'[i])
      <3>1. Transient(o) /\ e = poll.errors + 1
        BY <1>4, <2>2
      <3>2. CASE i = n + 1
        BY <1>2, <3>1, <3>2
      <3>3. CASE i # n + 1
        <4>1. i \in (n - poll.errors + 1)..n /\ i \in 1..n
          BY <1>1, <2>2, <3>1, <3>3, SMTT(30)
        <4>2. outcomes'[i] = outcomes[i]
          BY <1>2, <4>1
        <4> QED
          BY <2>1, <4>1, <4>2
      <3> QED
        BY <3>2, <3>3
    <2> QED
      BY <2>2
  <1>6. e < n + 1 => ~Transient(outcomes'[n + 1 - e])
    <2>1. poll.errors < n => ~Transient(outcomes[n - poll.errors])
      BY <1>n, <1>1 DEF PollInv, CountersCount
    <2>2. CASE Transient(o) /\ e < n + 1
      <3>1. n + 1 - e = n - poll.errors /\ n - poll.errors \in 1..n /\ poll.errors < n
        BY <1>1, <1>4, <2>2
      <3>2. outcomes'[n + 1 - e] = outcomes[n - poll.errors]
        BY <1>2, <3>1
      <3> QED
        BY <2>1, <3>1, <3>2
    <2>3. CASE ~Transient(o)
      BY <1>1, <1>2, <1>4, <2>3
    <2> QED
      BY <2>2, <2>3
  <1>7. Outage(e)'
    BY <1>1, <1>2, <1>4, <1>5, SMTT(30) DEF Outage
  <1>8. e < MaxErrors => ~Outage(MaxErrors)'
    BY <1>1, <1>2, <1>4, <1>6, SMTT(30) DEF Outage
  <1>9. /\ r \in {"running", "found", "absent", "failed", "canceled"}
        /\ r = "found" => o = "want"
        /\ r = "failed" => o = "permanent" \/ e = MaxErrors
        /\ r = "absent" => n + 1 = MaxTries /\ o \notin {"want", "permanent"} /\ e < MaxErrors
        /\ r = "running" => n + 1 < MaxTries /\ e < MaxErrors
        /\ r = "canceled" => o = "canceled"
    BY <1>e, <1>r, <1>1, <1>4 DEF ResultAfter, LastTry, Transient, Outcomes
  <1>10. UNCHANGED <<flags, kind, sessionVars, requests, retryVars, ctxDone, exit>>
    BY DEF PollGets
  <1>11. TypeOK'
    BY <1>1, <1>2, <1>3, <1>4, <1>9, <1>10 DEF PollInv, TypeOK, sessionVars, retryVars
  <1>12. PollPhases'
    BY <1>3, <1>9 DEF PollPhases
  <1>13. CountersCount'
    BY <1>2, <1>3, <1>4, <1>6, <1>7, <1>9 DEF CountersCount
  <1>14. PollEndsForAReason'
    BY <1>1, <1>2, <1>3, <1>7, <1>8, <1>9, <1>10 DEF PollEndsForAReason
  <1> QED
    BY <1>11, <1>12, <1>13, <1>14 DEF PollInv

(* A wait that the context ends: the poll returns, with its error. *)
LEMMA PollWaitsStep ==
  ASSUME PollInv, PollWaits
  PROVE  PollInv'
  <1>1. /\ poll.result = "running" /\ pc = "wait"
        /\ UNCHANGED <<flags, kind, outcomes, sessionVars, requests, retryVars, ctxDone, exit>>
    BY DEF PollWaits, PollInv, PollPhases
  <1>2. CASE ctxDone
    <2>1. poll' = [poll EXCEPT !.result = "canceled"] /\ pc' = "polled"
      BY <1>2 DEF PollWaits, WaitReturns
    <2>2. poll'.result = "canceled"
      BY <2>1 DEF PollInv, TypeOK
    <2>3. TypeOK'
      BY <1>1, <2>1 DEF PollInv, TypeOK, sessionVars, retryVars
    <2> QED
      BY <1>1, <1>2, <2>1, <2>2, <2>3 DEF PollInv, PollPhases, CountersCount, PollEndsForAReason
  <1>3. CASE ~ctxDone
    <2>1. UNCHANGED poll /\ pc' = "get"
      BY <1>3 DEF PollWaits
    <2>2. TypeOK' /\ PollPhases'
      BY <1>1, <2>1 DEF PollInv, TypeOK, sessionVars, retryVars, PollPhases
    <2>3. CountersCount' /\ PollEndsForAReason'
      BY <1>1, <2>1 DEF PollInv, CountersCount, PollEndsForAReason, Outage
    <2> QED
      BY <2>2, <2>3 DEF PollInv
  <1> QED
    BY <1>2, <1>3

(* What a step outside the loop of the poll comes to: it may start a poll  *)
(* or end one, and does not touch its counters otherwise.                  *)
LEMMA NoPoll ==
  ASSUME TypeOK', poll' = NewPoll, outcomes' = <<>>, pc' \notin {"get", "polled"}
  PROVE  PollInv'
  <1>1. PollPhases' /\ CountersCount'
    BY Limits DEF PollPhases, CountersCount, NewPoll, Outage
  <1>2. PollEndsForAReason'
    BY Limits DEF PollEndsForAReason, NewPoll, Outage
  <1> QED
    BY <1>1, <1>2 DEF PollInv

(* The result is taken, and with it the poll is gone. *)
LEMMA PollEndSteps ==
  ASSUME PollInv, PollFound \/ PollFailed
  PROVE  PollInv'
  <1>1. poll' = NewPoll /\ outcomes' = <<>> /\ pc' \notin {"get", "polled"}
    BY DEF PollFound, PollFailed, PollOver, Exit
  <1>2. poll' \in [tries : 0..MaxTries, errors : 0..MaxErrors,
                   result : {"running", "found", "absent", "failed", "canceled"}]
    BY <1>1, Limits DEF NewPoll
  <1>3. CASE PollFound
    <2>1. granted' \in BOOLEAN
      BY <1>3, Zenon DEF PollFound
    <2> QED
      BY <1>1, <1>2, <1>3, <2>1, NoPoll DEF PollFound, PollInv, TypeOK, retryVars
  <1>4. CASE PollFailed
    BY <1>1, <1>2, <1>4, NoPoll DEF PollFailed, Exit, PollInv, TypeOK, sessionVars, retryVars
  <1> QED
    BY <1>3, <1>4

(* The steps between the polls keep the types, *)
LEMMA OtherTypes ==
  ASSUME TypeOK,
         \/ Posted \/ NotPosted \/ Deleted \/ Loaded \/ MetadataFetched \/ SessionKept
         \/ AttemptStarts \/ AttemptDoesNotStart \/ Gathered \/ Negotiated
         \/ EndpointFound \/ TunnelCanceled \/ BackedOff \/ BackoffCanceled
         \/ (\E long \in BOOLEAN : TunnelLost(long))
  PROVE  TypeOK'
  <1> USE DEF TypeOK, pollVars, sessionVars, retryVars, Exit, ErrorNow, RequestKinds
  <1>1. CASE Posted \/ NotPosted \/ Deleted
    BY <1>1 DEF Posted, NotPosted, Deleted, Delete
  <1>2. CASE Loaded \/ MetadataFetched
    BY <1>2, ZenonT(30) DEF Loaded, MetadataFetched
  <1>3. CASE SessionKept
    <2>1. saved' \in BOOLEAN /\ saveFailed' \in BOOLEAN /\ access' \in BOOLEAN
      <3>1. access' = TRUE
        BY <1>3 DEF SessionKept
      <3>2. CASE saved' = TRUE /\ UNCHANGED saveFailed
        BY <3>1, <3>2
      <3>3. CASE saveFailed' = TRUE /\ UNCHANGED saved
        BY <3>1, <3>3
      <3>4. CASE UNCHANGED <<saved, saveFailed>>
        BY <3>1, <3>4
      <3> QED
        BY <1>3, <3>2, <3>3, <3>4 DEF SessionKept
    <2> QED
      BY <1>3, <2>1 DEF SessionKept
  <1>4. CASE AttemptStarts \/ AttemptDoesNotStart \/ Gathered
    BY <1>4, ZenonT(30) DEF AttemptStarts, AttemptDoesNotStart, Gathered, StartExchange
  <1>5. CASE Negotiated \/ TunnelCanceled \/ BackoffCanceled
    BY <1>5, ZenonT(30) DEF Negotiated, TunnelCanceled, BackoffCanceled
  <1>6. CASE EndpointFound
    <2>1. requests' \in [RequestKinds -> {"none", "open", "gone", "left"}]
          /\ pc' \in {"exit", "tunnel"}
          /\ exit' \in {"printed", exit}
      BY <1>6 DEF EndpointFound, AccessDropped, Delete
    <2>2. access' \in BOOLEAN
      BY <1>6 DEF EndpointFound, AccessDropped
    <2>3. UNCHANGED <<flags, pollVars, granted, saved, saveFailed, retryVars, ctxDone>>
      BY <1>6 DEF EndpointFound
    <2> QED
      BY <2>1, <2>2, <2>3
  <1>7. CASE BackedOff
    BY <1>7, BackoffStaysWithin DEF BackedOff
  <1>8. ASSUME NEW long \in BOOLEAN, TunnelLost(long) PROVE TypeOK'
    BY <1>8, Limits DEF TunnelLost, ResetBackoff
  <1> QED
    BY <1>1, <1>2, <1>3, <1>4, <1>5, <1>6, <1>7, <1>8

(* and begin after a poll has ended, or start the next one. *)
LEMMA OtherPolls ==
  ASSUME PollInv,
         \/ Posted \/ NotPosted \/ Deleted \/ Loaded \/ MetadataFetched \/ SessionKept
         \/ AttemptStarts \/ AttemptDoesNotStart \/ Gathered \/ Negotiated
         \/ EndpointFound \/ TunnelCanceled \/ BackedOff \/ BackoffCanceled
         \/ (\E long \in BOOLEAN : TunnelLost(long))
  PROVE  PollInv'
  <1>1. /\ pc \notin {"wait", "get", "polled"}
        /\ pc' \notin {"get", "polled"}
        /\ UNCHANGED <<poll, outcomes>>
    BY DEF Posted, NotPosted, Deleted, Loaded, MetadataFetched, SessionKept, AttemptStarts,
       AttemptDoesNotStart, Gathered, Negotiated, EndpointFound, TunnelCanceled, BackedOff,
       BackoffCanceled, TunnelLost, StartExchange, Exit, pollVars
  <1>2. poll = NewPoll /\ outcomes = <<>>
    BY <1>1 DEF PollInv, PollPhases
  <1>3. TypeOK'
    BY OtherTypes DEF PollInv
  <1> QED
    BY <1>1, <1>2, <1>3, NoPoll

(* An interrupt touches no counter, and is never taken back. *)
LEMMA InterruptPoll ==
  ASSUME PollInv, Interrupt \/ Finished \/ UNCHANGED vars
  PROVE  PollInv'
  <1>1. /\ UNCHANGED <<flags, pc, pollVars, sessionVars, requests, retryVars, exit>>
        /\ ctxDone' = ctxDone \/ ctxDone' = TRUE
    BY DEF Interrupt, Finished, vars
  <1>2. ctxDone' \in BOOLEAN /\ (ctxDone => ctxDone')
    <2>1. CASE ctxDone' = TRUE
      BY <2>1
    <2>2. CASE ctxDone' = ctxDone
      BY <2>2 DEF PollInv, TypeOK
    <2> QED
      BY <1>1, <2>1, <2>2
  <1>3. UNCHANGED <<pc, poll, outcomes>>
    BY <1>1 DEF pollVars
  <1>4. TypeOK'
    BY <1>1, <1>2 DEF PollInv, TypeOK, pollVars, sessionVars, retryVars
  <1>5. PollPhases' /\ CountersCount'
    BY <1>3 DEF PollInv, PollPhases, CountersCount, Outage
  <1>6. PollEndsForAReason'
    BY <1>2, <1>3 DEF PollInv, PollEndsForAReason, Outage
  <1> QED
    BY <1>4, <1>5, <1>6 DEF PollInv

(* The client starts without a poll. *)
LEMMA PollInit == Init => PollInv
  <1> SUFFICES ASSUME Init PROVE PollInv
    OBVIOUS
  <1>1. /\ poll = NewPoll /\ outcomes = <<>> /\ pc \in {"post", "load"}
        /\ flags \in [invite : BOOLEAN, sessionFile : BOOLEAN, printConfig : BOOLEAN]
        /\ kind = "access" /\ exit = "none"
        /\ requests = [k \in RequestKinds |-> "none"]
        /\ backoff = MinBackoff /\ pauses = 0
    BY DEF Init
  <1>2. /\ access \in BOOLEAN /\ granted \in BOOLEAN /\ saved \in BOOLEAN
        /\ saveFailed \in BOOLEAN /\ ctxDone \in BOOLEAN
    BY DEF Init
  <1>3. poll \in [tries : 0..MaxTries, errors : 0..MaxErrors,
                  result : {"running", "found", "absent", "failed", "canceled"}]
    BY <1>1, Limits DEF NewPoll
  <1>4. TypeOK
    BY <1>1, <1>2, <1>3, Limits DEF TypeOK, RequestKinds
  <1>5. PollPhases /\ CountersCount
    BY <1>1, Limits DEF PollPhases, CountersCount, NewPoll, Outage
  <1>6. PollEndsForAReason
    BY <1>1, Limits DEF PollEndsForAReason, NewPoll, Outage
  <1> QED
    BY <1>4, <1>5, <1>6 DEF PollInv

(* Every step keeps the poll's invariant. *)
LEMMA PollStep == PollInv /\ [Next]_vars => PollInv'
  <1> SUFFICES ASSUME PollInv, [Next]_vars
               PROVE  PollInv'
    OBVIOUS
  <1>1. ASSUME NEW o \in Outcomes, PollGets(o) PROVE PollInv'
    BY <1>1, PollGetsStep
  <1> QED
    BY <1>1, PollWaitsStep, PollEndSteps, OtherPolls, InterruptPoll
       DEF Next, Client, Exchange

(* TypeOK: the client's state has its types; in particular the counters    *)
(* of a poll stay within their limits, as does the backoff.                *)
THEOREM TypeCorrect == Spec => []TypeOK
  <1>1. PollInv => TypeOK
    BY DEF PollInv
  <1> QED
    BY <1>1, PollInit, PollStep, PTL DEF Spec

(* PollEndsForAReason: whatever the order of the outcomes and whenever the *)
(* interrupt comes, pollForResponseWithContext returns an error after      *)
(* MaxErrors bad tries in a row and not for fewer, and nothing only after  *)
(* MaxTries.                                                               *)
THEOREM PollReasons == Spec => []PollEndsForAReason
  <1>1. PollInv => PollEndsForAReason
    BY DEF PollInv
  <1> QED
    BY <1>1, PollInit, PollStep, PTL DEF Spec

--------------------------------------------------------------------------------
(* The requests at the cloud *)

(* What a POST and a DELETE, successful or not, do to the open requests *)
LEMMA OpenChanges ==
  ASSUME TypeOK, NEW k \in RequestKinds
  PROVE  /\ Delete(k) => Open' = Open \ {k}
         /\ requests' = [requests EXCEPT ![k] = "open"] => Open' = Open \cup {k}
         /\ requests' = requests => Open' = Open
         /\ Open \subseteq RequestKinds
  BY DEF TypeOK, Delete, Open

(* Every step keeps the account of open requests. *)
LEMMA OpenStep == TypeOK /\ OpenInv /\ [Next]_vars => OpenInv'
  <1> SUFFICES ASSUME TypeOK, OpenInv, [Next]_vars
               PROVE  OpenInv'
    OBVIOUS
  <1>0. kind \in RequestKinds /\ "access" \in RequestKinds /\ access \in BOOLEAN
    BY DEF TypeOK, RequestKinds
  <1>u. /\ Delete(kind) => Open' = Open \ {kind}
        /\ Delete("access") => Open' = Open \ {"access"}
        /\ requests' = [requests EXCEPT ![kind] = "open"] => Open' = Open \cup {kind}
        /\ requests' = requests => Open' = Open
        /\ Open \subseteq RequestKinds
    BY <1>0, OpenChanges
  <1> USE <1>0, <1>u
  <1> USE DEF OpenInv, OpenRequests, NoRequestIsForgotten, Kept, RequestKinds,
              pollVars, sessionVars, Exit
  <1>1. CASE Posted
    BY <1>1 DEF Posted
  <1>2. CASE NotPosted
    BY <1>2 DEF NotPosted, ErrorNow
  <1>3. CASE PollWaits
    BY <1>3 DEF PollWaits, WaitReturns
  <1>4. CASE \E o \in Outcomes : PollGets(o)
    BY <1>4 DEF PollGets
  <1>5. CASE PollFound
    BY <1>5 DEF PollFound
  <1>6. CASE PollFailed
    BY <1>6 DEF PollFailed
  <1>7. CASE Deleted
    BY <1>7 DEF Deleted
  <1>8. CASE Loaded
    BY <1>8 DEF Loaded
  <1>9. CASE MetadataFetched
    BY <1>9 DEF MetadataFetched
  <1>10. CASE SessionKept
    BY <1>10 DEF SessionKept
  <1>11. CASE AttemptStarts
    BY <1>11 DEF AttemptStarts, StartExchange
  <1>12. CASE AttemptDoesNotStart
    BY <1>12 DEF AttemptDoesNotStart, ErrorNow
  <1>13. CASE Gathered
    BY <1>13 DEF Gathered, StartExchange
  <1>14. CASE Negotiated
    BY <1>14 DEF Negotiated, ErrorNow
  <1>15. CASE EndpointFound
    <2>1. Open' = Open \ Kept /\ ~access'
      BY <1>15 DEF EndpointFound, AccessDropped
    <2> QED
      BY <1>15, <2>1 DEF EndpointFound
  <1>16. CASE TunnelCanceled \/ BackoffCanceled
    BY <1>16 DEF TunnelCanceled, BackoffCanceled
  <1>17. CASE BackedOff
    BY <1>17 DEF BackedOff
  <1>18. CASE \E long \in BOOLEAN : TunnelLost(long)
    <2>1. /\ pc = "tunnel" /\ pc' = "backoff"
          /\ UNCHANGED <<kind, requests, access, exit>>
      BY <1>18 DEF TunnelLost
    <2> QED
      BY <2>1
  <1>19. CASE Interrupt
    BY <1>19 DEF Interrupt
  <1>20. CASE Finished \/ UNCHANGED vars
    <2>1. UNCHANGED <<pc, kind, requests, access, exit>>
      BY <1>20 DEF Finished, vars
    <2> QED
      BY <2>1
  <1> QED
    BY <1>1, <1>2, <1>3, <1>4, <1>5, <1>6, <1>7, <1>8, <1>9, <1>10,
       <1>11, <1>12, <1>13, <1>14, <1>15, <1>16, <1>17, <1>18, <1>19, <1>20 DEF Next, Client, Exchange

(* NoRequestIsForgotten: the client calls for the DELETE of every request  *)
(* before the next one of its kind and before a tunnel.                    *)
THEOREM RequestsAreFollowedUp == Spec => []NoRequestIsForgotten
  <1>1. Init => OpenInv
    <2> SUFFICES ASSUME Init PROVE OpenInv
      OBVIOUS
    <2>1. Open = {}
      BY DEF Init, Open
    <2> QED
      BY <2>1 DEF Init, OpenInv, OpenRequests, NoRequestIsForgotten, Kept
  <1>2. OpenInv => NoRequestIsForgotten
    BY DEF OpenInv
  <1> QED
    BY <1>1, <1>2, TypeCorrect, OpenStep, PTL DEF Spec

--------------------------------------------------------------------------------
(* What doubling needs of the powers of two.  The provers know them one by *)
(* one, not the law for every exponent.                                    *)
PowersDouble ==
    /\ 2^0 = 1
    /\ \A n \in 0..MaxPauses : 2^n \in Nat \ {0}
    /\ \A n \in 0..(MaxPauses - 1) : 2^(n + 1) = 2 * 2^n

(* The backoff is doubled by a pause, up to its limit, started again after *)
(* a long tunnel, and left alone by everything else.                       *)
LEMMA BackoffStep ==
  ASSUME PowersDouble, TypeOK, BackoffFollowsPauses, [Next]_vars
  PROVE  BackoffFollowsPauses'
  <1>1. /\ pauses \in 0..MaxPauses /\ pauses \in Nat
        /\ backoff = Min({MinBackoff * 2^pauses, MaxBackoff})
        /\ MinBackoff * 2^MaxPauses >= MaxBackoff
    BY BackoffAssumption DEF TypeOK, BackoffFollowsPauses
  <1>2. PICK p \in Nat : p = 2^pauses /\ p # 0
    BY <1>1 DEF PowersDouble
  <1>3. MinBackoff * p \in Nat /\ MinBackoff \in Nat
    BY <1>2, Limits
  <1>4. backoff = IF MinBackoff * p <= MaxBackoff THEN MinBackoff * p ELSE MaxBackoff
    BY <1>1, <1>2, <1>3, Limits, MinOfTwo
  <1>5. CASE UNCHANGED retryVars
    BY <1>5 DEF retryVars, BackoffFollowsPauses
  <1>6. ASSUME backoff' = MinBackoff, pauses' = 0
        PROVE  BackoffFollowsPauses'
    <2>1. MinBackoff * 2^0 = MinBackoff
      BY Limits DEF PowersDouble
    <2>2. Min({MinBackoff, MaxBackoff}) = MinBackoff
      BY Limits, MinOfTwo
    <2> QED
      BY <1>6, <2>1, <2>2 DEF BackoffFollowsPauses
  <1>7. CASE BackedOff
    <2>1. backoff' = Min({2 * backoff, MaxBackoff}) /\ pauses' = Min({pauses + 1, MaxPauses})
      BY <1>7 DEF BackedOff, DoubleCapped
    <2>2. /\ backoff \in Nat /\ 2 * backoff \in Nat
          /\ backoff' = IF 2 * backoff <= MaxBackoff THEN 2 * backoff ELSE MaxBackoff
      <3>1. backoff \in Nat /\ 2 * backoff \in Nat
        BY <1>3, <1>4, Limits
      <3> QED
        BY <2>1, <3>1, Limits, MinOfTwo
    <2>3. CASE pauses < MaxPauses
      <3>1. pauses' = pauses + 1
        BY <1>1, <2>1, <2>3, Limits, MinOfTwo
      <3>2. 2^(pauses + 1) = 2 * p
        BY <1>1, <1>2, <2>3, Limits DEF PowersDouble
      <3>3. MinBackoff * (2 * p) = 2 * (MinBackoff * p) /\ MinBackoff * (2 * p) \in Nat
        BY <1>2, <1>3
      <3>4. Min({MinBackoff * (2 * p), MaxBackoff}) =
               IF MinBackoff * (2 * p) <= MaxBackoff THEN MinBackoff * (2 * p) ELSE MaxBackoff
        BY <3>3, Limits, MinOfTwo
      <3>5. PICK b \in Nat : b = MinBackoff * p
        BY <1>3
      <3>6. backoff' = IF 2 * b <= MaxBackoff THEN 2 * b ELSE MaxBackoff
        BY <1>4, <2>2, <3>5, Limits
      <3>7. Min({MinBackoff * (2 * p), MaxBackoff}) = IF 2 * b <= MaxBackoff THEN 2 * b ELSE MaxBackoff
        BY <3>3, <3>4, <3>5
      <3> QED
        BY <3>1, <3>2, <3>6, <3>7 DEF BackoffFollowsPauses
    <2>4. CASE pauses = MaxPauses
      <3>1. pauses' = pauses
        <4>1. pauses + 1 \in Nat /\ ~(pauses + 1 <= MaxPauses)
          BY <1>1, <2>4, Limits
        <4> QED
          BY <2>1, <2>4, <4>1, Limits, MinOfTwo
      <3>2. PICK b \in Nat : b = MinBackoff * p
        BY <1>3
      <3>3. b >= MaxBackoff
        BY <1>1, <1>2, <2>4, <3>2
      <3>4. backoff = MaxBackoff
        BY <1>4, <3>2, <3>3, Limits
      <3>5. backoff' = MaxBackoff
        BY <2>2, <3>4, Limits
      <3> QED
        BY <3>1, <3>4, <3>5 DEF BackoffFollowsPauses
    <2> QED
      BY <1>1, <2>3, <2>4, Limits
  <1>8. ASSUME NEW long \in BOOLEAN, TunnelLost(long)
        PROVE  BackoffFollowsPauses'
    BY <1>5, <1>6, <1>8 DEF TunnelLost, ResetBackoff
  <1>9. ASSUME ~BackedOff, ~\E long \in BOOLEAN : TunnelLost(long)
        PROVE  UNCHANGED retryVars
    <2>1. CASE Exchange
      BY <2>1 DEF Exchange, Posted, NotPosted, PollWaits, PollGets, PollFound, PollFailed, Deleted
    <2>2. CASE Loaded \/ MetadataFetched \/ SessionKept
      BY <2>2 DEF Loaded, MetadataFetched, SessionKept
    <2>3. CASE AttemptStarts \/ AttemptDoesNotStart \/ Gathered \/ Negotiated \/ EndpointFound
      BY <2>3 DEF AttemptStarts, AttemptDoesNotStart, Gathered, Negotiated, EndpointFound
    <2>4. CASE TunnelCanceled \/ BackoffCanceled \/ Interrupt
      BY <2>4 DEF TunnelCanceled, BackoffCanceled, Interrupt
    <2>5. CASE Finished \/ UNCHANGED vars
      BY <2>5 DEF Finished, vars
    <2> QED
      BY <1>9, <2>1, <2>2, <2>3, <2>4, <2>5 DEF Next, Client
  <1> QED
    BY <1>5, <1>7, <1>8, <1>9

(* BackoffFollowsPauses, for the backoff of the code (two seconds, at most *)
(* thirty) and any limits of the poll: after n pauses since the last long  *)
(* tunnel the client waits 2 * 2^n seconds, or thirty.                     *)
THEOREM BackoffDoubles ==
  ASSUME MinBackoff = 2, MaxBackoff = 30, MaxPauses = 5
  PROVE  Spec => []BackoffFollowsPauses
  <1>1. PowersDouble
    <2>1. 2^0 = 1 /\ 2^1 = 2 /\ 2^2 = 4 /\ 2^3 = 8 /\ 2^4 = 16 /\ 2^5 = 32
      BY SMT
    <2>2. \A n \in 0..5 :
             \/ n = 0 \/ n = 1 \/ n = 2 \/ n = 3 \/ n = 4 \/ n = 5
      OBVIOUS
    <2>3. \A n \in 0..5 : 2^n \in {1, 2, 4, 8, 16, 32}
      BY <2>1, <2>2, Zenon
    <2>4. {1, 2, 4, 8, 16, 32} \subseteq Nat \ {0}
      OBVIOUS
    <2>5. 0 + 1 = 1 /\ 1 + 1 = 2 /\ 2 + 1 = 3 /\ 3 + 1 = 4 /\ 4 + 1 = 5
      OBVIOUS
    <2>6. 2 * 1 = 2 /\ 2 * 2 = 4 /\ 2 * 4 = 8 /\ 2 * 8 = 16 /\ 2 * 16 = 32
      OBVIOUS
    <2>7. \A n \in 0..4 : n = 0 \/ n = 1 \/ n = 2 \/ n = 3 \/ n = 4
      OBVIOUS
    <2>8. \A n \in 0..4 : 2^(n + 1) = 2 * 2^n
      BY <2>1, <2>5, <2>6, <2>7, Zenon
    <2>9. 5 - 1 = 4
      OBVIOUS
    <2>10. \A n \in 0..5 : 2^n \in Nat \ {0}
      BY <2>3, <2>4, Zenon
    <2> QED
      BY <2>1, <2>8, <2>9, <2>10 DEF PowersDouble
  <1>2. Init => BackoffFollowsPauses
    <2> SUFFICES ASSUME Init
                 PROVE  BackoffFollowsPauses
      OBVIOUS
    <2>1. backoff = MinBackoff /\ pauses = 0
      BY DEF Init
    <2>2. MinBackoff * 2^0 = MinBackoff
      BY <1>1, Limits DEF PowersDouble
    <2>3. Min({MinBackoff, MaxBackoff}) = MinBackoff
      BY Limits, MinOfTwo
    <2> QED
      BY <2>1, <2>2, <2>3 DEF BackoffFollowsPauses
  <1>3. TypeOK /\ BackoffFollowsPauses /\ [Next]_vars => BackoffFollowsPauses'
    BY <1>1, BackoffStep
  <1> QED
    BY <1>2, <1>3, TypeCorrect, PTL DEF Spec
===============================================================================
