---------------------------- MODULE ResponseWire ----------------------------
(***************************************************************************)
(* One connection of the loopback server (apiserver.py): a request is read  *)
(* under a deadline, the application runs and sends response events, and    *)
(* _Wire puts them on the socket under a framing chosen from the first one. *)
(* The application may declare any length, send any events, stop early or   *)
(* fail anywhere; the client may disappear at any write.  Body bytes are    *)
(* counted.                                                                 *)
(***************************************************************************)
EXTENDS Naturals

CONSTANTS MaxChunk,     \* bound: bytes of one event
          MaxEmitted,   \* bound: bytes the application sends
          MaxDeclared,  \* bound: declared length
          Undeclared

\* What the bounds may be.
WireAssumption ==
    MaxChunk \in Nat /\ MaxEmitted \in Nat /\ MaxDeclared \in Nat /\ Undeclared \notin Nat

VARIABLES
    stage,         \* "reading", "running" or "closed"
    method,
    wire,       \* _Wire
    heads,      \* status lines written
    sent,       \* body bytes written
    terminated, \* the chunked terminator is written
    emitted,    \* bytes of the body events the application sent
    failure     \* "none", "application" or "client"

wireVars == <<stage, method, wire, heads, sent, terminated, emitted, failure>>

NewWire == [started |-> FALSE, ended |-> FALSE, silent |-> FALSE, chunked |-> FALSE,
            remaining |-> 0, promised |-> Undeclared]

Statuses == {"ok", "no content", "not modified"}

WireInit ==
    /\ stage = "reading"
    /\ method \in {"GET", "HEAD"}
    /\ wire = NewWire
    /\ heads = 0 /\ sent = 0 /\ terminated = FALSE
    /\ emitted = 0 /\ failure = "none"

Body == <<sent, terminated>>

(***************************************************************************)
(* Reading the request.                                                     *)
(***************************************************************************)

\* Oversized headers, a malformed head, a refused body length: a refusal is written
\* and the application never runs.
RefuseRequest ==
    /\ stage = "reading"
    /\ heads' = heads + 1
    /\ stage' = "closed"
    /\ UNCHANGED <<method, wire, Body, emitted, failure>>

\* The deadline passes, or the client goes away before its request is complete.
AbandonRequest ==
    /\ stage = "reading"
    /\ stage' = "closed" /\ failure' = "client"
    /\ UNCHANGED <<method, wire, heads, Body, emitted>>

Invoke ==
    /\ stage = "reading"
    /\ stage' = "running"
    /\ UNCHANGED <<method, wire, heads, Body, emitted, failure>>

(***************************************************************************)
(* The events of the application.                                           *)
(***************************************************************************)

\* _carries_no_content.
Silent(status) == status # "ok" \/ method = "HEAD"

\* The length told to the client: never for a 204; for a silent response it is only
\* reported.
Reported(status, declared) == IF status = "no content" THEN Undeclared ELSE declared

\* http.response.start: the framing is chosen once.
Begin(status, declared) ==
    /\ stage = "running" /\ ~wire.started
    /\ wire' = [wire EXCEPT !.started = TRUE, !.silent = Silent(status),
                    !.chunked = ~Silent(status) /\ declared = Undeclared,
                    !.remaining = IF Silent(status) \/ declared = Undeclared THEN 0 ELSE declared,
                    !.promised = Reported(status, declared)]
    /\ heads' = heads + 1
    /\ UNCHANGED <<stage, method, Body, emitted, failure>>

Least(m, n) == IF m < n THEN m ELSE n

\* _write: never more than was promised.
Fits(n) ==
    IF wire.silent THEN 0 ELSE IF wire.chunked THEN n ELSE Least(n, wire.remaining)

Ending == terminated' = (terminated \/ (wire.chunked /\ ~wire.ended))

\* http.response.body; an event before the start or after the last is ignored.
Continue(n, more) ==
    /\ stage = "running" /\ wire.started /\ ~wire.ended
    /\ emitted + n <= MaxEmitted
    /\ emitted' = emitted + n
    /\ sent' = sent + Fits(n)
    /\ wire' = [wire EXCEPT !.remaining = IF wire.chunked THEN @ ELSE @ - Least(@, n),
                            !.ended = ~more]
    /\ IF more THEN UNCHANGED terminated ELSE Ending
    /\ UNCHANGED <<stage, method, heads, failure>>

\* Mutant of Raise: a failed response is terminated.
RaiseEnding ==
    /\ stage = "running"
    /\ failure' = "application"
    /\ heads' = IF wire.started THEN heads ELSE heads + 1
    /\ Ending
    /\ stage' = "closed"
    /\ UNCHANGED <<method, wire, sent, emitted>>

\* The application fails.  Without a head it is an internal error; with one the
\* framing is left open.
Raise ==
    /\ stage = "running"
    /\ failure' = "application"
    /\ heads' = IF wire.started THEN heads ELSE heads + 1
    /\ stage' = "closed"
    /\ UNCHANGED <<method, wire, Body, emitted>>

\* The client goes away: a drain raises, in the application's send.
Vanish ==
    /\ stage = "running" /\ wire.started
    /\ failure' = "client"
    /\ stage' = "closed"
    /\ UNCHANGED <<method, wire, heads, Body, emitted>>

\* The application returns: no start is an internal error; otherwise the framing
\* is terminated if the last event did not.
Return ==
    /\ stage = "running"
    /\ IF wire.started
       THEN Ending /\ wire' = [wire EXCEPT !.ended = TRUE] /\ UNCHANGED heads
       ELSE heads' = heads + 1 /\ UNCHANGED <<wire, terminated>>
    /\ stage' = "closed"
    /\ UNCHANGED <<method, sent, emitted, failure>>

WireNext ==
    \/ RefuseRequest \/ AbandonRequest \/ Invoke \/ Raise \/ Vanish \/ Return
    \/ \E status \in Statuses, declared \in 0..MaxDeclared \cup {Undeclared} : Begin(status, declared)
    \/ \E n \in 0..MaxChunk, more \in BOOLEAN : Continue(n, more)

WireSpec == WireInit /\ [][WireNext]_wireVars

(***************************************************************************)
(* Properties.                                                              *)
(***************************************************************************)

\* What a conforming client takes for a complete response.
Complete ==
    /\ wire.started
    /\ \/ wire.silent
       \/ wire.chunked /\ terminated
       \/ ~wire.silent /\ ~wire.chunked /\ sent = wire.promised

\* A response the client takes for complete carries what the application sent: all
\* of it when chunked, as much as was declared otherwise, nothing where HTTP
\* forbids a body; and no more than the client counts is ever on the wire.
CompleteIsFaithful ==
    /\ wire.silent => sent = 0 /\ ~terminated
    /\ wire.started /\ wire.chunked => sent = emitted
    /\ wire.started /\ ~wire.silent /\ ~wire.chunked => sent = Least(emitted, wire.promised)

\* An application that fails, or a client that leaves, before the declared length or
\* the last event never leaves a response that looks complete.
TruncationShows ==
    stage = "closed" /\ failure # "none" /\ wire.started /\ ~wire.silent =>
        /\ wire.chunked /\ ~wire.ended => ~Complete
        /\ ~wire.chunked /\ emitted < wire.promised => ~Complete

\* A connection carries at most one status line, and exactly one unless the client
\* left before its request was read.
OneResponse ==
    /\ heads <= 1
    /\ stage = "closed" /\ heads = 0 => failure = "client"

\* What looks like a complete response is one, and each request gets one answer.
ResponsesAreFaithful == CompleteIsFaithful /\ TruncationShows /\ OneResponse

=============================================================================
