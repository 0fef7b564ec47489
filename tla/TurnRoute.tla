----------------------------- MODULE TurnRoute -----------------------------
(***************************************************************************)
(* Model turns: POST .../turns of the local API (api.py), the one provider  *)
(* call it makes (modelcall.py) and the run_turns rows that pin the         *)
(* selection of a Run (store.py).                                           *)
(*                                                                          *)
(* Several server processes may share one store.  A request holds the       *)
(* stripe of its Run in its own process from before it reads the pin until  *)
(* it answers; the researcher changes enabled models and credentials at any *)
(* time.  What the provider does is chosen: it may refuse, stall, stop in   *)
(* the middle of a stream or answer in full.  Reading a stream is counted   *)
(* in frames, waiting is counted in socket timeouts.                        *)
(***************************************************************************)
EXTENDS Naturals, Sequences, FiniteSets

CONSTANTS Requests, Runs,
          Selections,      \* provider:model identifiers, one provider each
          Servers, Stripes,
          ProcessOf,       \* the server process a request arrives at
          ServersOf,       \* the processes that get the requests for a Run
          StripeOf,        \* hash(run_id) % 64
          NoRequest,
          MaxFrames,       \* max_response_bytes, in frames
          TotalTimeout,    \* total_timeout_seconds, in socket timeouts
          MaxTicks,        \* bound: time one turn may take in the model
          MaxTurns,        \* bound: rows of one Run
          MaxSettings      \* bound: changes of settings

\* What a server and its bounds may be.
TurnAssumption ==
    /\ ProcessOf \in [Requests -> Servers]
    /\ ServersOf \in [Runs -> SUBSET Servers]
    /\ StripeOf \in [Runs -> Stripes]
    /\ NoRequest \notin Requests
    /\ {MaxFrames, TotalTimeout, MaxTicks, MaxTurns, MaxSettings} \subseteq Nat

VARIABLES
    rows,        \* run_turns: for each Run its rows in order of seq
    archived,    \* the Project is archived
    enabled,     \* models the composer enables
    keyed,       \* selections whose provider has a credential
    settings,    \* changes of enabled and keyed so far
    locks,       \* holder of each stripe of each process
    calls        \* requests in progress

turnVars == <<rows, archived, enabled, keyed, settings, locks, calls>>

(***************************************************************************)
(* Records.                                                                 *)
(***************************************************************************)

ModelCallFailure ==
    {"authentication", "rate_limit", "quota", "model_unavailable",
     "provider_unavailable", "invalid_request", "timeout", "transport",
     "malformed_response", "response_too_large", "unclassified"}

Refusals ==
    {"model_selection_locked", "model_not_enabled", "provider_not_configured",
     "turn_conflict"}

TurnRecord == [selection : Selections, requests : Nat, frames : Nat, whole : BOOLEAN]

Call ==
    [pc : {"idle", "waiting", "locked", "pinned", "selected", "sending",
           "awaiting", "status", "streaming", "completed", "answered"},
     run : Runs \cup {NoRequest}, selection : Selections \cup {NoRequest},
     requests : 0..1,      \* TurnRecord.request_count
     issued : Nat,         \* requests that really left this machine
     frames : Nat, terminal : BOOLEAN,
     ticks : Nat,          \* socket timeouts since the connection was opened
     answer : ModelCallFailure \cup Refusals \cup {"none", "created", "lost"}]

Turn(run, selection) ==
    [pc |-> "waiting", run |-> run, selection |-> selection, requests |-> 0,
     issued |-> 0, frames |-> 0, terminal |-> FALSE, ticks |-> 0,
     answer |-> "none"]

Selected(run) == IF rows[run] = <<>> THEN Selections ELSE {rows[run][1].selection}

Stripe(q) == <<ProcessOf[q], StripeOf[calls[q].run]>>

\* An idle call is for no Run and no selection.
IdleCall == [Turn(NoRequest, NoRequest) EXCEPT !.pc = "idle"]

Init ==
    /\ rows = [r \in Runs |-> <<>>]
    /\ archived = FALSE
    /\ enabled \in SUBSET Selections
    /\ keyed \in SUBSET Selections
    /\ settings = 0
    /\ locks = [k \in Servers \X Stripes |-> NoRequest]
    /\ calls = [q \in Requests |-> IdleCall]

(***************************************************************************)
(* The researcher: models enabled and keys set elsewhere in the interface.  *)
(***************************************************************************)

ChangeSettings ==
    /\ settings < MaxSettings
    /\ settings' = settings + 1
    /\ \/ enabled' \in SUBSET Selections /\ UNCHANGED keyed
       \/ keyed' \in SUBSET Selections /\ UNCHANGED enabled
    /\ UNCHANGED <<rows, archived, locks, calls>>

ArchiveProject ==
    /\ ~archived
    /\ archived' = TRUE
    /\ UNCHANGED <<rows, enabled, keyed, settings, locks, calls>>

(***************************************************************************)
(* The route: _create_turn and _create_turn_locked.                         *)
(***************************************************************************)

storeVars == <<rows, archived, enabled, keyed, settings>>

Goto(q, pc) == calls' = [calls EXCEPT ![q].pc = pc]

\* Mutant of Release: the stripe is not given back.
ReleaseHeld(q, answer) ==
    /\ calls' = [calls EXCEPT ![q].pc = "answered", ![q].answer = answer]
    /\ UNCHANGED locks

\* Leaving the with block: answered, and the stripe is free again.
Release(q, answer) ==
    /\ calls' = [calls EXCEPT ![q].pc = "answered", ![q].answer = answer]
    /\ locks' = [locks EXCEPT ![Stripe(q)] = NoRequest]

Waiting(run) == {q \in Requests : calls[q].pc # "idle" /\ calls[q].run = run}

Arrive(q, run, selection) ==
    /\ calls[q].pc = "idle"
    /\ ~archived
    /\ ProcessOf[q] \in ServersOf[run]
    /\ Len(rows[run]) + Cardinality(Waiting(run)) < MaxTurns
    /\ calls' = [calls EXCEPT ![q] = Turn(run, selection)]
    /\ UNCHANGED <<storeVars, locks>>

AcquireStripe(q) ==
    /\ calls[q].pc = "waiting"
    /\ locks[Stripe(q)] = NoRequest
    /\ locks' = [locks EXCEPT ![Stripe(q)] = q]
    /\ Goto(q, "locked")
    /\ UNCHANGED storeVars

\* Mutant of CheckPin: the pin is left to the store to check.
SkipPin(q) ==
    /\ calls[q].pc = "locked"
    /\ Goto(q, "pinned") /\ UNCHANGED locks
    /\ UNCHANGED storeVars

CheckPin(q) ==
    /\ calls[q].pc = "locked"
    /\ IF calls[q].selection \in Selected(calls[q].run)
       THEN Goto(q, "pinned") /\ UNCHANGED locks
       ELSE Release(q, "model_selection_locked")
    /\ UNCHANGED storeVars

\* _turn_selection, and the same credential check again in stream().
CheckSelection(q) ==
    /\ calls[q].pc = "pinned"
    /\ IF calls[q].selection \notin enabled THEN Release(q, "model_not_enabled")
       ELSE IF calls[q].selection \notin keyed THEN Release(q, "provider_not_configured")
       ELSE Goto(q, "selected") /\ UNCHANGED locks
    /\ UNCHANGED storeVars

RequireCredential(q) ==
    /\ calls[q].pc = "selected"
    /\ IF calls[q].selection \notin keyed THEN Release(q, "authentication")
       ELSE Goto(q, "sending") /\ UNCHANGED locks
    /\ UNCHANGED storeVars

(***************************************************************************)
(* The one provider call.                                                   *)
(***************************************************************************)

\* _send resolves the key once more, connects and issues the request.
Send(q) ==
    /\ calls[q].pc = "sending"
    /\ IF calls[q].selection \notin keyed THEN Release(q, "authentication")
       ELSE \/ \E failure \in {"transport", "timeout"} : Release(q, failure)
            \/ /\ calls' = [calls EXCEPT ![q].pc = "awaiting", ![q].issued = @ + 1]
               /\ UNCHANGED locks
    /\ UNCHANGED storeVars

\* getresponse: the socket times out, breaks or delivers the status line.  Only
\* then is the request counted.
AwaitResponse(q) ==
    /\ calls[q].pc = "awaiting"
    /\ \/ \E failure \in {"transport", "timeout"} : Release(q, failure)
       \/ /\ calls' = [calls EXCEPT ![q].pc = "status", ![q].requests = 1]
          /\ UNCHANGED locks
    /\ UNCHANGED storeVars

\* Failures named by a known structured code or, failing that, by the status.
ReportedFailures ==
    {"authentication", "rate_limit", "quota", "model_unavailable",
     "provider_unavailable", "invalid_request", "timeout", "unclassified"}

CheckStatus(q) ==
    /\ calls[q].pc = "status"
    /\ \/ Goto(q, "streaming") /\ UNCHANGED locks
       \/ \E failure \in ReportedFailures : Release(q, failure)
    /\ UNCHANGED storeVars

\* Each piece of the headers or of the error body may take up to one socket
\* timeout to arrive; nobody looks at the total there.
Drip(q) ==
    /\ calls[q].pc \in {"awaiting", "status"}
    /\ calls[q].ticks < MaxTicks
    /\ calls' = [calls EXCEPT ![q].ticks = @ + 1]
    /\ UNCHANGED <<storeVars, locks>>

\* _read and the decoder: a frame arrives, at once or after a wait.
ReadFrame(q) ==
    /\ calls[q].pc = "streaming"
    /\ ~calls[q].terminal
    /\ IF calls[q].ticks > TotalTimeout THEN Release(q, "timeout")
       ELSE IF calls[q].frames >= MaxFrames THEN Release(q, "response_too_large")
       ELSE \/ /\ \E wait \in 0..1, terminal \in BOOLEAN :
                      /\ calls[q].ticks + wait <= MaxTicks
                      /\ calls' = [calls EXCEPT ![q].frames = @ + 1,
                                                ![q].ticks = @ + wait,
                                                ![q].terminal = terminal]
               /\ UNCHANGED locks
            \/ \E failure \in ReportedFailures \cup
                              {"transport", "malformed_response", "response_too_large"} :
                   Release(q, failure)
    /\ UNCHANGED storeVars

\* The decoder stops at the terminal frame, or the body ends without one.
EndStream(q) ==
    /\ calls[q].pc = "streaming"
    /\ IF calls[q].terminal THEN Goto(q, "completed") /\ UNCHANGED locks
       ELSE Release(q, "transport")
    /\ UNCHANGED storeVars

(***************************************************************************)
(* record_run_turn: one transaction, not refused by archival.               *)
(***************************************************************************)

Draft(q) ==
    [selection |-> calls[q].selection, requests |-> calls[q].requests,
     frames |-> calls[q].frames, whole |-> calls[q].terminal]

\* Mutant of RecordTurn: the store trusts the pin the route read.
RecordUnpinned(q) ==
    /\ calls[q].pc = "completed"
    /\ rows' = [rows EXCEPT ![calls[q].run] = Append(@, Draft(q))]
    /\ Release(q, "created")
    /\ UNCHANGED <<archived, enabled, keyed, settings>>

RecordTurn(q) ==
    /\ calls[q].pc = "completed"
    /\ IF calls[q].selection \in Selected(calls[q].run)
       THEN /\ rows' = [rows EXCEPT ![calls[q].run] = Append(@, Draft(q))]
            /\ Release(q, "created")
       ELSE Release(q, "turn_conflict") /\ UNCHANGED rows
    /\ UNCHANGED <<archived, enabled, keyed, settings>>

\* The response is sent, or the client has long gone.
Respond(q) ==
    /\ calls[q].pc = "answered"
    /\ calls' = [calls EXCEPT ![q] = IdleCall]
    /\ UNCHANGED <<storeVars, locks>>

\* A server process dies: its requests and its locks are gone.
Crash(p) ==
    /\ calls' = [q \in Requests |->
           IF ProcessOf[q] = p /\ calls[q].pc \notin {"idle", "answered"}
           THEN [calls[q] EXCEPT !.pc = "answered", !.answer = "lost"]
           ELSE calls[q]]
    /\ locks' = [k \in DOMAIN locks |-> IF k[1] = p THEN NoRequest ELSE locks[k]]
    /\ UNCHANGED storeVars

CallStep(q) ==
    \/ AcquireStripe(q)
    \/ CheckPin(q)
    \/ CheckSelection(q)
    \/ RequireCredential(q)
    \/ Send(q)
    \/ AwaitResponse(q)
    \/ CheckStatus(q)
    \/ ReadFrame(q)
    \/ EndStream(q)
    \/ RecordTurn(q)
    \/ Respond(q)

Next ==
    \/ \E q \in Requests :
           \/ \E run \in Runs, selection \in Selections : Arrive(q, run, selection)
           \/ CallStep(q)
           \/ Drip(q)
    \/ \E p \in Servers : Crash(p)
    \/ ChangeSettings
    \/ ArchiveProject

Spec == Init /\ [][Next]_turnVars

\* Every step of a begun request is taken in the end: each blocking operation is
\* bounded by a timeout, and a lock is handed to those who wait for it.
FairSpec ==
    /\ Spec
    /\ \A q \in Requests : WF_turnVars(CallStep(q)) /\ SF_turnVars(AcquireStripe(q))

(***************************************************************************)
(* Properties.                                                              *)
(***************************************************************************)

TypeOK ==
    /\ rows \in [Runs -> Seq(TurnRecord)]
    /\ archived \in BOOLEAN
    /\ enabled \subseteq Selections
    /\ keyed \subseteq Selections
    /\ locks \in [Servers \X Stripes -> Requests \cup {NoRequest}]
    /\ calls \in [Requests -> Call]

\* The first completed turn fixes the provider and model of its Run: every row
\* of a Run has the selection of its row 1, even when turns of two server
\* processes complete at once.
OneSelectionPerRun ==
    \A r \in Runs : \A i \in DOMAIN rows[r] : rows[r][i].selection = rows[r][1].selection

\* "A truncated answer must never be presented as a complete one": a recorded
\* turn saw the terminal frame of its stream, under exactly one request.
RecordedTurnsAreWhole ==
    \A r \in Runs : \A i \in DOMAIN rows[r] :
        rows[r][i].whole /\ rows[r][i].requests = 1 /\ rows[r][i].frames > 0

\* "There is no retry loop, no alternate endpoint list": whatever fails, a turn
\* issues at most one request.
AtMostOneRequest == \A q \in Requests : calls[q].issued <= 1

\* One server process gets every request for the Run.
OneServer(run) == \A p, s \in ServersOf[run] : p = s

\* Request q leaves for its provider with a credential and, if one process
\* serves its Run, for the selection the Run is pinned to.
SentUnderThePin(q) ==
    /\ calls[q].selection \in keyed
    /\ OneServer(calls[q].run) => calls[q].selection \in Selected(calls[q].run)

\* A step sends a request only with a credential and only for the selection its
\* Run is pinned to.  The pin is followed where one server process gets the
\* requests for a Run, whatever else is under way; two processes may contact two
\* providers for one Run, the pin being read before the other process records
\* the first turn.
EgressFollowsThePin ==
    [][\A q \in Requests : calls'[q].issued > calls[q].issued => SentUnderThePin(q)]_turnVars

\* Where one server process gets the requests for a Run the stripe closes the
\* window between reading the pin and recording the turn: an answer the provider
\* gave is never thrown away as a conflict.
NoAnswerDiscarded ==
    \A q \in Requests : calls[q].answer = "turn_conflict" => ~OneServer(calls[q].run)

\* Rows of run_turns are only ever appended, so the pin never changes.
TurnsOnlyAppend ==
    \A r \in Runs :
        /\ Len(rows[r]) <= Len(rows'[r])
        /\ SubSeq(rows'[r], 1, Len(rows[r])) = rows[r]

\* One selection per Run, whole turns under exactly one request each, rows that
\* are only appended, and no answer thrown away by a Run's only server.
TurnsAreSound ==
    /\ [](/\ TypeOK /\ OneSelectionPerRun /\ RecordedTurnsAreWhole
          /\ AtMostOneRequest /\ NoAnswerDiscarded)
    /\ [][TurnsOnlyAppend]_turnVars

\* Every request is answered, and no stripe stays locked for ever.
EveryTurnIsAnswered ==
    \A q \in Requests : calls[q].pc # "idle" ~> calls[q].pc = "idle"

=============================================================================
