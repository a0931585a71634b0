-------------------------------- MODULE Resolver --------------------------------
(***************************************************************************)
(* The in-tunnel resolver (internal/tunnet/tun.go): what one lane of       *)
(* LookupContextHost, a tryOneName for A or AAAA records, does with each   *)
(* exchange, as operators on the lane.                                     *)
(*                                                                         *)
(* Of a response only what the code tells apart matters: the reason to     *)
(* reject it, or the families of the addresses that parse.  Errors are     *)
(* "notFound" (errNoSuchHost, final) and "failed" (the next server).       *)
(***************************************************************************)
EXTENDS Integers, Sequences

CONSTANTS
    Rounds    \* tryOneName asks every server this often (2)

ASSUME RoundsAssumption == Rounds \in Nat \ {0}

Families == {"v4", "v6"}

(* Responses with the right ID and question.  "malformed": its first       *)
(* answer header does not parse; "broken": a later one, before a record of *)
(* the type asked for; "garbled": from such a record on.                   *)
Responses == {"truncated", "nameError", "malformed", "lame", "serverFailure", "refused",
              "empty", "broken", "garbled", "answer"}

(* A lane asks server number server in round; proto is the one exchange    *)
(* uses; found are the families it has parsed.                             *)
Lane == [pc : {"off", "ask", "wait", "done", "taken"},
         round : 1..Rounds, server : Nat, proto : {"udp", "tcp"},
         err : {"none", "notFound", "failed"},
         garbled : BOOLEAN, found : SUBSET Families]

NoLane == [pc |-> "off", round |-> 1, server |-> 1, proto |-> "udp",
           err |-> "none", garbled |-> FALSE, found |-> {}]

(* Without servers the loops do nothing and lastErr is nil: the result is  *)
(* no error and a parser that was never started, which cannot be read.     *)
newLane(servers) ==
    IF servers = 0
    THEN [NoLane EXCEPT !.pc = "done", !.garbled = TRUE]
    ELSE [NoLane EXCEPT !.pc = "ask"]

Failed(err) == [NoLane EXCEPT !.pc = "done", !.err = err]

(* lastErr = dnsErr; continue *)
StopsAfterRound(l, servers) ==
    IF l.server < servers
    THEN [l EXCEPT !.pc = "ask", !.server = @ + 1, !.proto = "udp"]
    ELSE Failed("failed")
NextServer(l, servers) ==
    CASE l.server < servers -> [l EXCEPT !.pc = "ask", !.server = @ + 1, !.proto = "udp"]
      [] l.server = servers /\ l.round < Rounds ->
             [l EXCEPT !.pc = "ask", !.round = @ + 1, !.server = 1, !.proto = "udp"]
      [] OTHER -> Failed("failed")

(* exchange: a truncated response over UDP is asked for again over TCP *)
Truncated(l, servers) ==
    IF l.proto = "udp" THEN [l EXCEPT !.pc = "ask", !.proto = "tcp"] ELSE NextServer(l, servers)

checkHeader(r) ==
    CASE r = "nameError" -> "notFound"
      [] r \in {"malformed", "lame", "serverFailure", "refused"} -> "failed"
      [] OTHER -> "none"

skipToAnswer(r) ==
    CASE r = "empty"  -> "notFound"
      [] r = "broken" -> "failed"
      [] OTHER -> "none"

Verdict(r) == IF checkHeader(r) # "none" THEN checkHeader(r) ELSE skipToAnswer(r)

(* The body of tryOneName's loop after an exchange that returned r *)
tryOneName(l, r, found, servers) ==
    CASE r = "truncated"           -> Truncated(l, servers)
      [] Verdict(r) = "notFound"   -> Failed("notFound")
      [] Verdict(r) = "failed"     -> NextServer(l, servers)
      [] OTHER -> [NoLane EXCEPT !.pc = "done", !.garbled = (r = "garbled"), !.found = found]

(* What LookupContextHost parses of r: of an answer for family f every     *)
(* address, those of the other family too; of a garbled one some.          *)
Parsed(r, f) ==
    CASE r = "answer"  -> {{f}, Families}
      [] r = "garbled" -> SUBSET Families
      [] OTHER         -> {{}}
================================================================================
