--------------------------- MODULE ProviderProofs ---------------------------
(***************************************************************************)
(* Proofs about TurnRoute, for any requests, Runs, models, server processes *)
(* and stripes, any sizes and timeouts, about ProviderRegistry, for any     *)
(* requests, server processes, providers and keys, and about ModelStream,   *)
(* for any bodies, however they are cut and divided into chunks.            *)
(***************************************************************************)
EXTENDS TurnRoute, ProviderRegistry, ModelStream, SequenceTheorems, FiniteSetTheorems, TLAPS

(***************************************************************************)
(* The inductive invariant.                                                 *)
(***************************************************************************)

\* Between entering and leaving the with block.
Holding == {"locked", "pinned", "selected", "sending", "awaiting", "status",
            "streaming", "completed"}

\* After the pin was checked.
Pinned == Holding \ {"locked"}

\* What the locals of a request say of how far it came.
WellFormed(c) ==
    /\ c \in Call
    /\ c.pc # "idle" => c.run \in Runs /\ c.selection \in Selections
    /\ c.issued <= 1
    /\ c.pc \in {"idle", "waiting", "locked", "pinned", "selected", "sending"} =>
          c.issued = 0
    /\ c.pc \in {"status", "streaming", "completed"} => c.requests = 1
    /\ c.terminal => c.frames > 0
    /\ c.pc = "completed" => c.terminal

\* Two requests in the with block of one stripe are one request.
HoldsItsStripe(q) == calls[q].pc \in Holding => locks[Stripe(q)] = q

\* A request for a Run is with one of its servers; if it has only one, nothing
\* moves the pin under a request that checked it.
KeepsItsPin(q) ==
    /\ calls[q].pc # "idle" => ProcessOf[q] \in ServersOf[calls[q].run]
    /\ calls[q].pc \in Pinned /\ OneServer(calls[q].run) =>
          calls[q].selection \in Selected(calls[q].run)
    /\ calls[q].answer = "turn_conflict" => ~OneServer(calls[q].run)

TurnInv ==
    /\ TypeOK
    /\ \A q \in Requests : WellFormed(calls[q]) /\ HoldsItsStripe(q) /\ KeepsItsPin(q)
    /\ OneSelectionPerRun
    /\ RecordedTurnsAreWhole

(***************************************************************************)
(* A step of one request.                                                   *)
(***************************************************************************)

\* Request q comes to new; the stripe is kept, taken or given back.
Moves(q, new) ==
    /\ calls' = [calls EXCEPT ![q] = new]
    /\ WellFormed(new)
    /\ \/ /\ locks' = locks
          /\ new.pc \in Holding => calls[q].pc \in Holding /\ new.run = calls[q].run
       \/ /\ calls[q].pc \in Holding
          /\ new.pc \notin Holding
          /\ locks' = [locks EXCEPT ![Stripe(q)] = NoRequest]
       \/ /\ locks[Stripe(q)] = NoRequest
          /\ calls[q].pc = "waiting"
          /\ new.run = calls[q].run
          /\ locks' = [locks EXCEPT ![Stripe(q)] = q]

\* The pin is as it was and q still knows it.
MovesOnPin(q, new) ==
    /\ rows' = rows
    /\ \/ new.pc = "idle"
       \/ calls[q].pc # "idle" /\ new.run = calls[q].run
       \/ ProcessOf[q] \in ServersOf[new.run]
    /\ new.pc \in Pinned =>
          \/ new.selection \in Selected(new.run)
          \/ calls[q].pc \in Pinned /\ new.run = calls[q].run
                                   /\ new.selection = calls[q].selection
    /\ new.answer = "turn_conflict" =>
          \/ calls[q].answer = "turn_conflict" /\ new.run = calls[q].run
          \/ ~OneServer(new.run)

LEMMA StripeType ==
  ASSUME TurnAssumption, NEW q \in Requests, calls[q].run \in Runs
  PROVE  Stripe(q) \in Servers \X Stripes
BY DEF TurnAssumption, Stripe

LEMMA MoveKeeps ==
  ASSUME TurnAssumption, TurnInv, NEW q \in Requests, NEW new, Moves(q, new)
  PROVE  /\ calls' \in [Requests -> Call]
         /\ locks' \in [Servers \X Stripes -> Requests \cup {NoRequest}]
         /\ \A d \in Requests : WellFormed(calls'[d]) /\ HoldsItsStripe(d)'
         /\ calls'[q] = new
         /\ \A d \in Requests \ {q} : calls'[d] = calls[d]
<1> USE DEF TurnInv, TypeOK
<1>1. /\ calls'[q] = new
      /\ \A d \in Requests \ {q} : calls'[d] = calls[d]
      /\ calls' \in [Requests -> Call]
  BY DEF Moves, WellFormed
<1>2. \A d \in Requests : WellFormed(calls'[d])
  BY <1>1 DEF Moves
<1>3. NoRequest \notin Requests BY DEF TurnAssumption
<1>4. \A d \in Requests : calls[d].pc # "idle" => Stripe(d) \in Servers \X Stripes
  BY StripeType DEF WellFormed
<1>5. \A d \in Requests \ {q} : Stripe(d)' = Stripe(d)
  BY <1>1 DEF Stripe
<1>6. new.run = calls[q].run => Stripe(q)' = Stripe(q)
  BY <1>1 DEF Stripe
<1>7. CASE /\ locks' = locks
           /\ new.pc \in Holding => calls[q].pc \in Holding /\ new.run = calls[q].run
  BY <1>1, <1>2, <1>5, <1>6, <1>7 DEF HoldsItsStripe
<1>8. CASE /\ calls[q].pc \in Holding
           /\ new.pc \notin Holding
           /\ locks' = [locks EXCEPT ![Stripe(q)] = NoRequest]
  <2>1. locks' \in [Servers \X Stripes -> Requests \cup {NoRequest}]
    BY <1>8
  <2>2. locks[Stripe(q)] = q BY <1>8 DEF HoldsItsStripe
  <2>3. ASSUME NEW d \in Requests, calls'[d].pc \in Holding
        PROVE  locks'[Stripe(d)'] = d
    <3>1. d # q BY <1>1, <1>8, <2>3
    <3>2. calls[d].pc \in Holding /\ locks[Stripe(d)] = d
      BY <1>1, <2>3, <3>1 DEF HoldsItsStripe
    <3>3. Stripe(d) \in Servers \X Stripes BY <1>4, <3>2 DEF Holding
    <3>4. Stripe(d) # Stripe(q) BY <2>2, <3>1, <3>2
    <3> QED BY <1>5, <1>8, <3>1, <3>2, <3>3, <3>4
  <2> QED BY <1>1, <1>2, <2>1, <2>3 DEF HoldsItsStripe
<1>9. CASE /\ locks[Stripe(q)] = NoRequest
           /\ calls[q].pc = "waiting"
           /\ new.run = calls[q].run
           /\ locks' = [locks EXCEPT ![Stripe(q)] = q]
  <2>1. locks' \in [Servers \X Stripes -> Requests \cup {NoRequest}]
    BY <1>9
  <2>2. Stripe(q) \in Servers \X Stripes BY <1>4, <1>9
  <2>3. ASSUME NEW d \in Requests, calls'[d].pc \in Holding
        PROVE  locks'[Stripe(d)'] = d
    <3>1. CASE d = q BY <1>6, <1>9, <2>2, <3>1
    <3>2. CASE d # q
      <4>1. calls[d].pc \in Holding /\ locks[Stripe(d)] = d
        BY <1>1, <2>3, <3>2 DEF HoldsItsStripe
      <4>2. Stripe(d) \in Servers \X Stripes BY <1>4, <4>1 DEF Holding
      <4>3. Stripe(d) # Stripe(q) BY <1>3, <1>9, <4>1
      <4> QED BY <1>5, <1>9, <3>2, <4>1, <4>2, <4>3
    <3> QED BY <3>1, <3>2
  <2> QED BY <1>1, <1>2, <2>1, <2>3 DEF HoldsItsStripe
<1> QED BY <1>7, <1>8, <1>9 DEF Moves

\* Every step of a request but the last of a recorded turn.
LEMMA MoveKeepsInv ==
  ASSUME TurnAssumption, TurnInv, NEW q \in Requests, NEW new,
         Moves(q, new), MovesOnPin(q, new),
         UNCHANGED <<archived, enabled, keyed>>
  PROVE  TurnInv'
<1>1. TypeOK' BY MoveKeeps DEF TurnInv, TypeOK, MovesOnPin
<1>2. \A d \in Requests : WellFormed(calls[d])' /\ HoldsItsStripe(d)'
  <2>1. \A d \in Requests : WellFormed(calls'[d]) /\ HoldsItsStripe(d)'
    BY MoveKeeps
  <2> QED BY <2>1 DEF WellFormed
<1>3. OneSelectionPerRun' /\ RecordedTurnsAreWhole'
  BY DEF TurnInv, MovesOnPin, OneSelectionPerRun, RecordedTurnsAreWhole
<1>4. ASSUME NEW d \in Requests PROVE KeepsItsPin(d)'
  <2>1. \A r : Selected(r)' = Selected(r) BY DEF Selected, MovesOnPin
  <2>2. KeepsItsPin(q) /\ KeepsItsPin(d) BY <1>4 DEF TurnInv
  <2>3. CASE d = q
    <3>1. calls'[q] = new BY MoveKeeps
    <3>2. /\ new.pc # "idle" => ProcessOf[q] \in ServersOf[new.run]
          /\ new.answer = "turn_conflict" => ~OneServer(new.run)
      BY <2>2 DEF MovesOnPin, KeepsItsPin
    <3>3. ASSUME new.pc \in Pinned, OneServer(new.run)
          PROVE  new.selection \in Selected(new.run)
      BY <2>2, <3>3 DEF MovesOnPin, KeepsItsPin
    <3> QED BY <2>1, <2>3, <3>1, <3>2, <3>3 DEF KeepsItsPin, OneServer
  <2>4. CASE d # q BY <2>1, <2>2, <2>4, MoveKeeps DEF KeepsItsPin, OneServer
  <2> QED BY <2>3, <2>4
<1> QED BY <1>1, <1>2, <1>3, <1>4 DEF TurnInv

Answers == ModelCallFailure \cup Refusals \cup {"none", "created", "lost"}

\* The with block is left and nothing was recorded.
LEMMA ReleaseKeepsInv ==
  ASSUME TurnAssumption, TurnInv, NEW q \in Requests, calls[q].pc \in Holding,
         NEW answer \in Answers, Release(q, answer),
         answer = "turn_conflict" => ~OneServer(calls[q].run),
         UNCHANGED <<rows, archived, enabled, keyed>>
  PROVE  TurnInv'
<1> DEFINE new == [calls[q] EXCEPT !.pc = "answered", !.answer = answer]
<1>1. WellFormed(calls[q]) /\ calls[q] \in Call BY DEF TurnInv, TypeOK
<1>2. /\ new \in Call /\ new.pc = "answered" /\ new.answer = answer
      /\ new.run = calls[q].run /\ new.selection = calls[q].selection
      /\ new.issued = calls[q].issued /\ new.requests = calls[q].requests
      /\ new.terminal = calls[q].terminal /\ new.frames = calls[q].frames
  BY <1>1 DEF Call, Answers
<1>3. WellFormed(new) BY <1>1, <1>2 DEF WellFormed, Holding
<1>4. calls' = [calls EXCEPT ![q] = new] BY DEF Release
<1>5. locks' = [locks EXCEPT ![Stripe(q)] = NoRequest] BY DEF Release
<1> HIDE DEF new
<1>6. Moves(q, new) /\ MovesOnPin(q, new)
  BY <1>2, <1>3, <1>4, <1>5 DEF Moves, MovesOnPin, Holding, Pinned
<1> QED BY <1>6, MoveKeepsInv

\* A step within the with block that stays in it.
LEMMA StayKeepsInv ==
  ASSUME TurnAssumption, TurnInv, NEW q \in Requests, NEW new,
         calls' = [calls EXCEPT ![q] = new],
         WellFormed(new), new.run = calls[q].run, new.selection = calls[q].selection,
         new.answer = calls[q].answer,
         calls[q].pc \in Holding, new.pc \in Holding,
         \/ calls[q].pc \in Pinned
         \/ calls[q].selection \in Selected(calls[q].run),
         UNCHANGED <<rows, archived, enabled, keyed, locks>>
  PROVE  TurnInv'
<1>1. Moves(q, new) /\ MovesOnPin(q, new)
  BY DEF Moves, MovesOnPin, Holding
<1> QED BY <1>1, MoveKeepsInv

LEMMA IdleType ==
  /\ IdleCall \in Call /\ IdleCall.pc = "idle" /\ IdleCall.answer = "none"
  /\ IdleCall.issued = 0 /\ ~IdleCall.terminal
<1> DEFINE turn == Turn(NoRequest, NoRequest)
<1>1. turn \in Call BY DEF Turn, Call
<1>2. turn.answer = "none" /\ turn.issued = 0 /\ ~turn.terminal BY DEF Turn
<1> HIDE DEF turn
<1>3. IdleCall = [turn EXCEPT !.pc = "idle"] BY DEF IdleCall, turn
<1> QED BY <1>1, <1>2, <1>3 DEF Call

LEMMA RouteSteps ==
  ASSUME TurnAssumption, TurnInv, NEW q \in Requests,
         \/ \E run \in Runs, selection \in Selections : Arrive(q, run, selection)
         \/ AcquireStripe(q) \/ CheckPin(q) \/ CheckSelection(q)
         \/ RequireCredential(q) \/ Respond(q)
  PROVE  TurnInv'
<1> USE DEF storeVars, Goto
<1>1. WellFormed(calls[q]) /\ calls[q] \in Call /\ calls \in [Requests -> Call]
  BY DEF TurnInv, TypeOK
<1>2. ASSUME NEW run \in Runs, NEW selection \in Selections, Arrive(q, run, selection)
      PROVE  TurnInv'
  <2> DEFINE new == Turn(run, selection)
  <2>1. /\ new.pc = "waiting" /\ new.answer = "none" /\ new.run = run
        /\ new.selection = selection /\ new.issued = 0 /\ ~new.terminal
    BY DEF Turn
  <2>2. new \in Call BY DEF Turn, Call
  <2>3. WellFormed(new) BY <2>1, <2>2 DEF WellFormed
  <2>4. calls' = [calls EXCEPT ![q] = new] /\ UNCHANGED <<rows, archived, enabled, keyed, locks>>
    BY <1>2 DEF Arrive
  <2> HIDE DEF new
  <2>5. Moves(q, new) /\ MovesOnPin(q, new)
    BY <1>2, <2>1, <2>3, <2>4 DEF Moves, MovesOnPin, Holding, Pinned, Arrive
  <2> QED BY <2>4, <2>5, MoveKeepsInv
<1>3. CASE AcquireStripe(q)
  <2> DEFINE new == [calls[q] EXCEPT !.pc = "locked"]
  <2>1. /\ calls[q].pc = "waiting" /\ locks[Stripe(q)] = NoRequest
        /\ locks' = [locks EXCEPT ![Stripe(q)] = q]
        /\ calls' = [calls EXCEPT ![q] = new]
        /\ UNCHANGED <<rows, archived, enabled, keyed>>
    BY <1>3 DEF AcquireStripe
  <2>2. /\ new \in Call /\ new.pc = "locked" /\ new.answer = calls[q].answer
        /\ new.run = calls[q].run /\ new.selection = calls[q].selection
        /\ new.issued = calls[q].issued /\ new.requests = calls[q].requests
        /\ new.terminal = calls[q].terminal /\ new.frames = calls[q].frames
    BY <1>1 DEF Call
  <2>3. WellFormed(new) BY <1>1, <2>1, <2>2 DEF WellFormed
  <2> HIDE DEF new
  <2>4. Moves(q, new) /\ MovesOnPin(q, new)
    BY <2>1, <2>2, <2>3 DEF Moves, MovesOnPin, Pinned
  <2> QED BY <2>1, <2>4, MoveKeepsInv
<1>4. CASE CheckPin(q)
  <2>1. CASE calls[q].selection \in Selected(calls[q].run)
    <3> DEFINE new == [calls[q] EXCEPT !.pc = "pinned"]
    <3>1. /\ calls[q].pc = "locked" /\ calls' = [calls EXCEPT ![q] = new]
          /\ UNCHANGED <<rows, archived, enabled, keyed, locks>>
      BY <1>4, <2>1 DEF CheckPin
    <3>2. /\ new \in Call /\ new.pc = "pinned" /\ new.answer = calls[q].answer
          /\ new.run = calls[q].run /\ new.selection = calls[q].selection
          /\ new.issued = calls[q].issued /\ new.requests = calls[q].requests
          /\ new.terminal = calls[q].terminal /\ new.frames = calls[q].frames
      BY <1>1 DEF Call
    <3>3. WellFormed(new) BY <1>1, <3>1, <3>2 DEF WellFormed
    <3> HIDE DEF new
    <3> QED BY <2>1, <3>1, <3>2, <3>3, StayKeepsInv DEF Holding
  <2>2. CASE calls[q].selection \notin Selected(calls[q].run)
    BY <1>4, <2>2, ReleaseKeepsInv DEF CheckPin, Answers, Refusals, Holding
  <2> QED BY <2>1, <2>2
<1>5. CASE CheckSelection(q) \/ RequireCredential(q)
  <2>1. CASE \E answer \in {"model_not_enabled", "provider_not_configured", "authentication"} :
                Release(q, answer)
    BY <1>5, <2>1, ReleaseKeepsInv
       DEF CheckSelection, RequireCredential, Answers, Refusals, ModelCallFailure, Holding
  <2>2. CASE UNCHANGED locks /\ \E here \in {"selected", "sending"} : Goto(q, here)
    <3>1. PICK here \in {"selected", "sending"} : calls' = [calls EXCEPT ![q].pc = here]
      BY <2>2
    <3> DEFINE new == [calls[q] EXCEPT !.pc = here]
    <3>2. /\ calls[q].pc \in {"pinned", "selected"} /\ calls' = [calls EXCEPT ![q] = new]
          /\ UNCHANGED <<rows, archived, enabled, keyed, locks>>
      BY <1>5, <2>2, <3>1 DEF CheckSelection, RequireCredential
    <3>3. /\ new \in Call /\ new.pc = here /\ new.answer = calls[q].answer
          /\ new.run = calls[q].run /\ new.selection = calls[q].selection
          /\ new.issued = calls[q].issued /\ new.requests = calls[q].requests
          /\ new.terminal = calls[q].terminal /\ new.frames = calls[q].frames
      BY <1>1 DEF Call
    <3>4. WellFormed(new) BY <1>1, <3>2, <3>3 DEF WellFormed
    <3> HIDE DEF new
    <3> QED BY <3>2, <3>3, <3>4, StayKeepsInv DEF Holding, Pinned
  <2> QED BY <1>5, <2>1, <2>2 DEF CheckSelection, RequireCredential
<1>6. CASE Respond(q)
  <2> DEFINE new == IdleCall
  <2>1. calls' = [calls EXCEPT ![q] = new] /\ UNCHANGED <<rows, archived, enabled, keyed, locks>>
    BY <1>6 DEF Respond
  <2>2. /\ new \in Call /\ new.pc = "idle" /\ new.answer = "none"
        /\ new.issued = 0 /\ ~new.terminal
    BY IdleType
  <2>4. WellFormed(new) BY <2>2 DEF WellFormed
  <2> HIDE DEF new
  <2>5. Moves(q, new) /\ MovesOnPin(q, new)
    BY <2>1, <2>2, <2>4 DEF Moves, MovesOnPin, Holding, Pinned
  <2> QED BY <2>1, <2>5, MoveKeepsInv
<1> QED BY <1>2, <1>3, <1>4, <1>5, <1>6

LEMMA ProviderSteps ==
  ASSUME TurnAssumption, TurnInv, NEW q \in Requests,
         \/ Send(q) \/ AwaitResponse(q) \/ CheckStatus(q) \/ Drip(q)
         \/ ReadFrame(q) \/ EndStream(q)
  PROVE  TurnInv'
<1> USE DEF storeVars, Goto
<1> DEFINE c == calls[q]
<1>1. WellFormed(c) /\ c \in Call /\ calls \in [Requests -> Call]
  BY DEF TurnInv, TypeOK
<1>2. /\ c.pc \in Pinned /\ c.pc \in Holding
      /\ UNCHANGED <<rows, archived, enabled, keyed>>
  BY DEF Send, AwaitResponse, CheckStatus, Drip, ReadFrame, EndStream, Pinned, Holding
<1>3. CASE \E answer \in ModelCallFailure : Release(q, answer)
  BY <1>2, <1>3, ReleaseKeepsInv DEF Answers, ModelCallFailure
<1>4. CASE /\ UNCHANGED locks
           /\ \E new : /\ calls' = [calls EXCEPT ![q] = new]
                      /\ WellFormed(new) /\ new.pc \in Holding
                      /\ new.run = c.run /\ new.selection = c.selection
                      /\ new.answer = c.answer
  BY <1>2, <1>4, StayKeepsInv
<1> DEFINE Stays == \E new : /\ calls' = [calls EXCEPT ![q] = new]
                      /\ WellFormed(new) /\ new.pc \in Holding
                      /\ new.run = c.run /\ new.selection = c.selection
                      /\ new.answer = c.answer
<1>5. ASSUME Send(q)
      PROVE  \/ \E answer \in ModelCallFailure : Release(q, answer)
             \/ UNCHANGED locks /\ Stays
  <2> DEFINE new == [c EXCEPT !.pc = "awaiting", !.issued = c.issued + 1]
  <2>1. CASE calls' = [calls EXCEPT ![q].pc = "awaiting", ![q].issued = @ + 1]
             /\ UNCHANGED locks
    <3>1. calls' = [calls EXCEPT ![q] = new] BY <2>1
    <3> DEFINE mid == [c EXCEPT !.pc = "awaiting"]
    <3>7. new = [mid EXCEPT !.issued = c.issued + 1] BY <1>1 DEF Call
    <3>8. mid \in Call /\ c.issued \in Nat BY <1>1 DEF Call
    <3>9. ASSUME NEW m \in Call PROVE [m EXCEPT !.issued = c.issued + 1] \in Call
      BY <3>8 DEF Call
    <3>10. new \in Call BY <3>7, <3>8, <3>9
    <3>2. /\ new \in Call /\ new.pc = "awaiting" /\ new.issued = c.issued + 1
          /\ new.run = c.run /\ new.selection = c.selection /\ new.answer = c.answer
          /\ new.requests = c.requests /\ new.terminal = c.terminal /\ new.frames = c.frames
      BY <1>1, <3>10 DEF Call
    <3>3. c.issued = 0 /\ c.pc = "sending" BY <1>1, <1>5 DEF Send, WellFormed
    <3>4. WellFormed(new) BY <1>1, <3>2, <3>3 DEF WellFormed
    <3> HIDE DEF new
    <3>5. new.pc \in Holding BY <3>2 DEF Holding
    <3>6. Stays BY <3>1, <3>2, <3>4, <3>5
    <3> QED BY <2>1, <3>6
  <2> QED BY <1>5, <2>1 DEF Send, ModelCallFailure
<1>6. ASSUME AwaitResponse(q)
      PROVE  \/ \E answer \in ModelCallFailure : Release(q, answer)
             \/ UNCHANGED locks /\ Stays
  <2> DEFINE new == [c EXCEPT !.pc = "status", !.requests = 1]
  <2>1. CASE calls' = [calls EXCEPT ![q].pc = "status", ![q].requests = 1]
             /\ UNCHANGED locks
    <3>1. calls' = [calls EXCEPT ![q] = new] BY <2>1
    <3> DEFINE mid == [c EXCEPT !.pc = "status"]
    <3>7. new = [mid EXCEPT !.requests = 1] BY <1>1 DEF Call
    <3>8. mid \in Call /\ c.issued \in Nat BY <1>1 DEF Call
    <3>9. ASSUME NEW m \in Call PROVE [m EXCEPT !.requests = 1] \in Call
      BY <3>8 DEF Call
    <3>10. new \in Call BY <3>7, <3>8, <3>9
    <3>2. /\ new \in Call /\ new.pc = "status" /\ new.issued = c.issued
          /\ new.run = c.run /\ new.selection = c.selection /\ new.answer = c.answer
          /\ new.requests = 1 /\ new.terminal = c.terminal /\ new.frames = c.frames
      BY <1>1, <3>10 DEF Call
    <3>3. c.pc = "awaiting" BY <1>6 DEF AwaitResponse
    <3>4. WellFormed(new) BY <1>1, <3>2, <3>3 DEF WellFormed
    <3> HIDE DEF new
    <3>5. new.pc \in Holding BY <3>2 DEF Holding
    <3>6. Stays BY <3>1, <3>2, <3>4, <3>5
    <3> QED BY <2>1, <3>6
  <2> QED BY <1>6, <2>1 DEF AwaitResponse, ModelCallFailure
<1>7. ASSUME CheckStatus(q) \/ EndStream(q)
      PROVE  \/ \E answer \in ModelCallFailure : Release(q, answer)
             \/ UNCHANGED locks /\ Stays
  <2>1. CASE /\ UNCHANGED locks
             /\ \/ CheckStatus(q) /\ Goto(q, "streaming")
                \/ EndStream(q) /\ Goto(q, "completed") /\ c.terminal
    <3>1. PICK here \in {"streaming", "completed"} :
             /\ calls' = [calls EXCEPT ![q].pc = here]
             /\ here = "completed" => c.terminal
             /\ c.pc \in {"status", "streaming"}
      BY <2>1 DEF CheckStatus, EndStream
    <3> DEFINE new == [c EXCEPT !.pc = here]
    <3>2. calls' = [calls EXCEPT ![q] = new] BY <3>1
    <3>3. /\ new \in Call /\ new.pc = here /\ new.issued = c.issued
          /\ new.run = c.run /\ new.selection = c.selection /\ new.answer = c.answer
          /\ new.requests = c.requests /\ new.terminal = c.terminal /\ new.frames = c.frames
      BY <1>1 DEF Call
    <3>4. WellFormed(new) BY <1>1, <3>1, <3>3 DEF WellFormed
    <3> HIDE DEF new
    <3>5. new.pc \in Holding BY <3>1, <3>3 DEF Holding
    <3>6. Stays BY <3>2, <3>3, <3>4, <3>5
    <3> QED BY <2>1, <3>6
  <2> QED BY <1>7, <2>1 DEF CheckStatus, EndStream, ReportedFailures, ModelCallFailure
<1>8. ASSUME Drip(q) PROVE UNCHANGED locks /\ Stays
  <2> DEFINE new == [c EXCEPT !.ticks = c.ticks + 1]
  <2>1. calls' = [calls EXCEPT ![q] = new] /\ UNCHANGED locks BY <1>8 DEF Drip
  <2>2. /\ new \in Call /\ new.pc = c.pc /\ new.issued = c.issued
        /\ new.run = c.run /\ new.selection = c.selection /\ new.answer = c.answer
        /\ new.requests = c.requests /\ new.terminal = c.terminal /\ new.frames = c.frames
    BY <1>1 DEF Call
  <2>3. WellFormed(new) BY <1>1, <2>2 DEF WellFormed
  <2> HIDE DEF new
  <2>4. Stays BY <1>2, <2>1, <2>2, <2>3
  <2> QED BY <2>1, <2>4
<1>9. ASSUME ReadFrame(q)
      PROVE  \/ \E answer \in ModelCallFailure : Release(q, answer)
             \/ UNCHANGED locks /\ Stays
  <2>1. CASE /\ UNCHANGED locks
             /\ c.pc = "streaming"
             /\ \E wait \in 0..1, terminal \in BOOLEAN :
                calls' = [calls EXCEPT ![q].frames = @ + 1, ![q].ticks = @ + wait,
                                       ![q].terminal = terminal]
    <3>1. PICK wait \in 0..1, terminal \in BOOLEAN :
             calls' = [calls EXCEPT ![q].frames = @ + 1, ![q].ticks = @ + wait,
                                    ![q].terminal = terminal]
      BY <2>1
    <3> DEFINE new == [c EXCEPT !.frames = c.frames + 1, !.ticks = c.ticks + wait,
                                !.terminal = terminal]
    <3>2. calls' = [calls EXCEPT ![q] = new] BY <3>1
    <3> DEFINE first == [c EXCEPT !.frames = c.frames + 1]
           mid == [first EXCEPT !.ticks = c.ticks + wait]
    <3>7. new = [mid EXCEPT !.terminal = terminal] BY <1>1 DEF Call
    <3>8. first \in Call /\ c.ticks \in Nat BY <1>1 DEF Call
    <3>9. ASSUME NEW m \in Call
          PROVE  /\ [m EXCEPT !.ticks = c.ticks + wait] \in Call
                 /\ [m EXCEPT !.terminal = terminal] \in Call
      BY <3>8 DEF Call
    <3>10. new \in Call BY <3>7, <3>8, <3>9
    <3>3. /\ new \in Call /\ new.pc = c.pc /\ new.issued = c.issued
          /\ new.run = c.run /\ new.selection = c.selection /\ new.answer = c.answer
          /\ new.requests = c.requests /\ new.frames = c.frames + 1 /\ c.frames \in Nat
      BY <1>1, <3>10 DEF Call
    <3>4. WellFormed(new) BY <1>1, <2>1, <3>3 DEF WellFormed
    <3> HIDE DEF new
    <3>5. Stays BY <1>2, <3>2, <3>3, <3>4
    <3> QED BY <2>1, <3>5
  <2> QED BY <1>9, <2>1 DEF ReadFrame, ReportedFailures, ModelCallFailure
<1> QED BY <1>3, <1>4, <1>5, <1>6, <1>7, <1>8, <1>9

(***************************************************************************)
(* The last step of a recorded turn.                                        *)
(***************************************************************************)

LEMMA AppendedRow ==
  ASSUME NEW S, NEW s \in Seq(S), NEW e \in S
  PROVE  /\ Append(s, e) \in Seq(S)
         /\ DOMAIN Append(s, e) = 1..(Len(s) + 1)
         /\ Append(s, e)[Len(s) + 1] = e
         /\ \A i \in DOMAIN s : Append(s, e)[i] = s[i]
         /\ DOMAIN s = 1..Len(s) /\ Len(s) \in Nat
OBVIOUS

LEMMA KeptRows ==
  ASSUME NEW S, NEW s \in Seq(S)
  PROVE  /\ Len(s) <= Len(s) /\ SubSeq(s, 1, Len(s)) = s
         /\ \A e \in S : /\ Len(s) <= Len(Append(s, e))
                         /\ SubSeq(Append(s, e), 1, Len(s)) = s
OBVIOUS

\* A Run that takes one more row from the selection it is pinned to.
LEMMA RowKeepsRun ==
  ASSUME TypeOK, OneSelectionPerRun, RecordedTurnsAreWhole,
         NEW run \in Runs, NEW turn \in TurnRecord,
         turn.selection \in Selected(run), turn.whole, turn.requests = 1, turn.frames > 0,
         rows' = [rows EXCEPT ![run] = Append(@, turn)]
  PROVE  /\ rows' \in [Runs -> Seq(TurnRecord)]
         /\ OneSelectionPerRun' /\ RecordedTurnsAreWhole'
         /\ rows'[run][1].selection = turn.selection /\ rows'[run] # <<>>
<1> DEFINE old == rows[run]
<1>1. old \in Seq(TurnRecord) /\ rows \in [Runs -> Seq(TurnRecord)] BY DEF TypeOK
<1>2. rows'[run] = Append(old, turn) /\ \A r \in Runs \ {run} : rows'[r] = rows[r]
  BY <1>1
<1>3. /\ rows'[run] \in Seq(TurnRecord)
      /\ DOMAIN rows'[run] = 1..(Len(old) + 1)
      /\ rows'[run][Len(old) + 1] = turn
      /\ \A i \in DOMAIN old : rows'[run][i] = old[i]
      /\ DOMAIN old = 1..Len(old) /\ Len(old) \in Nat
  BY <1>1, <1>2, AppendedRow
<1>4. rows' \in [Runs -> Seq(TurnRecord)] BY <1>1, <1>2, <1>3
<1>5. \A i \in DOMAIN rows'[run] : i \in DOMAIN old \/ rows'[run][i] = turn
  BY <1>3
<1>6. RecordedTurnsAreWhole'
  BY <1>2, <1>3, <1>5 DEF RecordedTurnsAreWhole
<1>7. rows'[run][1].selection = turn.selection
  <2>1. CASE old = <<>>
    <3>1. Len(old) = 0 BY <2>1
    <3> QED BY <1>3, <3>1
  <2>2. CASE old # <<>>
    <3>1. turn.selection = old[1].selection BY <2>2 DEF Selected
    <3>2. 1 \in DOMAIN old BY <1>1, <1>3, <2>2
    <3> QED BY <1>3, <3>1, <3>2
  <2> QED BY <2>1, <2>2
<1>8. \A i \in DOMAIN rows'[run] : rows'[run][i].selection = turn.selection
  <2> SUFFICES ASSUME NEW i \in DOMAIN rows'[run], i \in DOMAIN old
               PROVE  rows'[run][i].selection = turn.selection
    BY <1>5
  <2>1. old[i].selection = old[1].selection BY DEF OneSelectionPerRun
  <2>2. 1 \in DOMAIN old BY <1>3
  <2> QED BY <1>3, <1>7, <2>1, <2>2
<1>9. OneSelectionPerRun'
  BY <1>2, <1>7, <1>8 DEF OneSelectionPerRun
<1>10. rows'[run] # <<>>
  <2>1. 1 \in DOMAIN rows'[run] BY <1>3
  <2>2. DOMAIN <<>> = {} OBVIOUS
  <2> QED BY <2>1, <2>2
<1> QED BY <1>4, <1>6, <1>7, <1>9, <1>10

\* Of the requests for a Run with one server one is in the with block.
LEMMA OneRequestPerRun ==
  ASSUME TurnInv, NEW q \in Requests, NEW d \in Requests, OneServer(calls[q].run),
         calls[q].pc \in Holding, calls[d].pc \in Holding,
         calls[q].run = calls[d].run
  PROVE  q = d
<1>1. ProcessOf[q] \in ServersOf[calls[q].run] /\ ProcessOf[d] \in ServersOf[calls[q].run]
  BY DEF TurnInv, KeepsItsPin, Holding
<1>2. Stripe(q) = Stripe(d)
  BY <1>1 DEF Stripe, OneServer
<1> QED BY <1>2 DEF TurnInv, HoldsItsStripe

LEMMA RecordStep ==
  ASSUME TurnAssumption, TurnInv, NEW q \in Requests, RecordTurn(q)
  PROVE  TurnInv'
<1> DEFINE c == calls[q]
<1>1. c \in Call /\ WellFormed(c) /\ TypeOK BY DEF TurnInv, TypeOK
<1>2. /\ c.pc = "completed" /\ c.pc \in Pinned /\ c.pc \in Holding
      /\ UNCHANGED <<archived, enabled, keyed>>
  BY DEF RecordTurn, Holding, Pinned
<1>3. /\ c.run \in Runs /\ c.selection \in Selections /\ c.requests = 1
      /\ c.terminal /\ c.frames > 0 /\ c.frames \in Nat /\ c.terminal \in BOOLEAN
  BY <1>1, <1>2 DEF WellFormed, Call
<1>4. CASE c.selection \notin Selected(c.run)
  <2>1. ~OneServer(c.run) BY <1>2, <1>4 DEF TurnInv, KeepsItsPin
  <2>2. Release(q, "turn_conflict") /\ UNCHANGED rows BY <1>4 DEF RecordTurn
  <2>3. "turn_conflict" \in Answers BY DEF Answers, Refusals
  <2> QED BY <1>2, <2>1, <2>2, <2>3, ReleaseKeepsInv
<1>5. CASE c.selection \in Selected(c.run)
  <2> DEFINE new == [c EXCEPT !.pc = "answered", !.answer = "created"]
             turn == Draft(q)
  <2>1. Release(q, "created") /\ rows' = [rows EXCEPT ![c.run] = Append(@, turn)]
    BY <1>5 DEF RecordTurn
  <2>2. /\ new \in Call /\ new.pc = "answered" /\ new.answer = "created"
        /\ new.run = c.run /\ new.selection = c.selection
        /\ new.issued = c.issued /\ new.requests = c.requests
        /\ new.terminal = c.terminal /\ new.frames = c.frames
    BY <1>1 DEF Call
  <2>3. WellFormed(new) BY <1>1, <1>2, <2>2 DEF WellFormed
  <2>4. /\ calls' = [calls EXCEPT ![q] = new]
        /\ locks' = [locks EXCEPT ![Stripe(q)] = NoRequest]
    BY <2>1 DEF Release
  <2> HIDE DEF new
  <2>5. Moves(q, new) BY <1>2, <2>2, <2>3, <2>4 DEF Moves, Holding
  <2>6. /\ turn \in TurnRecord /\ turn.selection = c.selection
        /\ turn.whole /\ turn.requests = 1 /\ turn.frames > 0
    BY <1>3 DEF Draft, TurnRecord
  <2> HIDE DEF turn
  <2>7. /\ rows' \in [Runs -> Seq(TurnRecord)]
        /\ OneSelectionPerRun' /\ RecordedTurnsAreWhole'
    BY <1>1, <1>3, <1>5, <2>1, <2>6, RowKeepsRun DEF TurnInv
  <2>8. TypeOK' BY <1>1, <1>2, <2>5, <2>7, MoveKeeps DEF TypeOK
  <2>9. \A d \in Requests : WellFormed(calls[d])' /\ HoldsItsStripe(d)'
    <3>1. \A d \in Requests : WellFormed(calls'[d]) /\ HoldsItsStripe(d)'
      BY <2>5, MoveKeeps
    <3> QED BY <3>1 DEF WellFormed
  <2>10. ASSUME NEW d \in Requests PROVE KeepsItsPin(d)'
    <3>1. KeepsItsPin(d) BY <2>10 DEF TurnInv
    <3>2. CASE d = q
      <4>1. calls'[q] = new BY <2>5, MoveKeeps
      <4> QED BY <1>2, <2>2, <3>1, <3>2, <4>1 DEF KeepsItsPin, Pinned, Holding
    <3>3. CASE d # q
      <4>1. calls'[d] = calls[d] BY <2>5, <3>3, MoveKeeps
      <4>2. ASSUME calls[d].pc \in Pinned, OneServer(calls[d].run)
            PROVE  Selected(calls[d].run)' = Selected(calls[d].run)
        <5>1. calls[d].pc \in Holding BY <4>2 DEF Pinned
        <5>2. calls[d].run # c.run BY <1>2, <3>3, <4>2, <5>1, OneRequestPerRun
        <5>3. calls[d].run \in Runs
          BY <5>1 DEF TurnInv, WellFormed, Holding
        <5>4. rows'[calls[d].run] = rows[calls[d].run]
          BY <1>1, <2>1, <5>2, <5>3 DEF TypeOK
        <5> QED BY <4>1, <5>4 DEF Selected
      <4> QED BY <3>1, <4>1, <4>2 DEF KeepsItsPin, OneServer
    <3> QED BY <3>2, <3>3
  <2> QED BY <2>7, <2>8, <2>9, <2>10 DEF TurnInv
<1> QED BY <1>4, <1>5

(***************************************************************************)
(* Crashes and what happens elsewhere.                                      *)
(***************************************************************************)

LEMMA CrashStep ==
  ASSUME TurnAssumption, TurnInv, NEW p \in Servers, Crash(p)
  PROVE  TurnInv'
<1> DEFINE Dies(d) == ProcessOf[d] = p /\ calls[d].pc \notin {"idle", "answered"}
           lost(d) == [calls[d] EXCEPT !.pc = "answered", !.answer = "lost"]
<1>1. /\ calls' = [d \in Requests |-> IF Dies(d) THEN lost(d) ELSE calls[d]]
      /\ locks' = [k \in DOMAIN locks |-> IF k[1] = p THEN NoRequest ELSE locks[k]]
      /\ UNCHANGED <<rows, archived, enabled, keyed>>
  BY DEF Crash, storeVars
<1>2. \A d \in Requests : calls[d] \in Call /\ WellFormed(calls[d]) BY DEF TurnInv, TypeOK
<1>3. ASSUME NEW d \in Requests, Dies(d)
      PROVE  /\ WellFormed(lost(d)) /\ lost(d).run = calls[d].run
             /\ lost(d).selection = calls[d].selection
             /\ lost(d).pc = "answered" /\ lost(d).answer = "lost"
  <2> DEFINE new == lost(d)
  <2>1. /\ new \in Call /\ new.run = calls[d].run
        /\ new.selection = calls[d].selection
        /\ new.pc = "answered" /\ new.answer = "lost"
        /\ new.issued = calls[d].issued /\ new.requests = calls[d].requests
        /\ new.terminal = calls[d].terminal /\ new.frames = calls[d].frames
    BY <1>2 DEF Call
  <2>2. WellFormed(new) BY <1>2, <1>3, <2>1 DEF WellFormed
  <2> QED BY <2>1, <2>2
<1> HIDE DEF lost
<1>4. \A d \in Requests : calls'[d] = IF Dies(d) THEN lost(d) ELSE calls[d]
  BY <1>1
<1>5. \A d \in Requests : WellFormed(calls'[d]) BY <1>2, <1>3, <1>4
<1>6. calls' \in [Requests -> Call] BY <1>1, <1>2, <1>3 DEF WellFormed
<1>7. /\ locks' \in [Servers \X Stripes -> Requests \cup {NoRequest}]
      /\ \A k \in Servers \X Stripes : k[1] # p => locks'[k] = locks[k]
  BY <1>1 DEF TurnInv, TypeOK
<1>8. TypeOK' BY <1>1, <1>6, <1>7 DEF TurnInv, TypeOK
<1>9. ASSUME NEW d \in Requests PROVE HoldsItsStripe(d)'
  <2>1. SUFFICES ASSUME calls'[d].pc \in Holding PROVE locks'[Stripe(d)'] = d
    BY DEF HoldsItsStripe
  <2>2. ~Dies(d) /\ calls'[d] = calls[d] BY <1>3, <1>4, <2>1 DEF Holding
  <2>3. ProcessOf[d] # p BY <2>1, <2>2 DEF Holding
  <2>4. calls[d].run \in Runs BY <1>2, <2>1, <2>2 DEF WellFormed, Holding
  <2>5. Stripe(d) \in Servers \X Stripes /\ Stripe(d)[1] # p /\ Stripe(d)' = Stripe(d)
    BY <2>2, <2>3, <2>4, StripeType DEF Stripe
  <2>6. locks[Stripe(d)] = d BY <2>1, <2>2 DEF TurnInv, HoldsItsStripe
  <2> QED BY <1>7, <2>5, <2>6
<1>10. ASSUME NEW d \in Requests PROVE KeepsItsPin(d)'
  <2>1. KeepsItsPin(d) BY <1>10 DEF TurnInv
  <2>2. \A r : Selected(r)' = Selected(r) BY <1>1 DEF Selected
  <2>3. CASE Dies(d)
    BY <1>3, <1>4, <2>1, <2>3 DEF KeepsItsPin, Pinned, Holding
  <2>4. CASE ~Dies(d) BY <1>4, <2>1, <2>2, <2>4 DEF KeepsItsPin, OneServer
  <2> QED BY <2>3, <2>4
<1>11. OneSelectionPerRun' /\ RecordedTurnsAreWhole'
  BY <1>1 DEF TurnInv, OneSelectionPerRun, RecordedTurnsAreWhole
<1> QED BY <1>5, <1>8, <1>9, <1>10, <1>11 DEF TurnInv, WellFormed

\* Settings, archival and steps of nobody leave requests and rows alone.
LEMMA ElsewhereStep ==
  ASSUME TurnInv, UNCHANGED <<rows, locks, calls>>,
         archived' \in BOOLEAN, enabled' \subseteq Selections, keyed' \subseteq Selections
  PROVE  TurnInv'
<1>1. TypeOK' BY DEF TurnInv, TypeOK
<1>2. \A d \in Requests : WellFormed(calls[d])' /\ HoldsItsStripe(d)'
  BY DEF TurnInv, WellFormed, HoldsItsStripe, Stripe
<1>3. \A d \in Requests : KeepsItsPin(d)'
  BY DEF TurnInv, KeepsItsPin, Selected, OneServer
<1>4. OneSelectionPerRun' /\ RecordedTurnsAreWhole'
  BY DEF TurnInv, OneSelectionPerRun, RecordedTurnsAreWhole
<1> QED BY <1>1, <1>2, <1>3, <1>4 DEF TurnInv

(***************************************************************************)
(* The theorems.                                                            *)
(***************************************************************************)

\* A server that starts holds no stripe, serves no request and has no row.
LEMMA TurnInit ==
  ASSUME TurnAssumption, Init
  PROVE  TurnInv
<1>1. \A r \in Runs : rows[r] = <<>> /\ rows[r] \in Seq(TurnRecord) BY DEF Init
<1>2. \A q \in Requests : calls[q] = IdleCall BY DEF Init
<1>3. TypeOK BY <1>1, IdleType DEF Init, TypeOK
<1>4. \A q \in Requests : WellFormed(calls[q]) /\ HoldsItsStripe(q)
  BY <1>2, IdleType DEF WellFormed, HoldsItsStripe, Holding
<1>5. \A q \in Requests : KeepsItsPin(q)
  BY <1>2, IdleType DEF KeepsItsPin, Pinned, Holding
<1>6. \A r \in Runs : DOMAIN rows[r] = {} BY <1>1
<1>7. OneSelectionPerRun /\ RecordedTurnsAreWhole
  BY <1>6 DEF OneSelectionPerRun, RecordedTurnsAreWhole
<1> QED BY <1>3, <1>4, <1>5, <1>7 DEF TurnInv

LEMMA TurnStep ==
  ASSUME TurnAssumption, TurnInv, [Next]_turnVars
  PROVE  TurnInv'
<1>1. ASSUME NEW q \in Requests, NEW run \in Runs, NEW selection \in Selections,
             Arrive(q, run, selection)
      PROVE  TurnInv'
  BY <1>1, RouteSteps
<1>2. ASSUME NEW q \in Requests, CallStep(q) PROVE TurnInv'
  BY <1>2, RouteSteps, ProviderSteps, RecordStep DEF CallStep
<1>3. ASSUME NEW q \in Requests, Drip(q) PROVE TurnInv'
  BY <1>3, ProviderSteps
<1>4. ASSUME NEW p \in Servers, Crash(p) PROVE TurnInv'
  BY <1>4, CrashStep
<1>5. CASE ChangeSettings
  BY <1>5, ElsewhereStep DEF ChangeSettings, TurnInv, TypeOK
<1>6. CASE ArchiveProject
  BY <1>6, ElsewhereStep DEF ArchiveProject, TurnInv, TypeOK
<1>7. CASE UNCHANGED turnVars
  BY <1>7, ElsewhereStep DEF turnVars, TurnInv, TypeOK
<1> QED BY <1>1, <1>2, <1>3, <1>4, <1>5, <1>6, <1>7 DEF Next

\* At every moment the invariant holds.
THEOREM TurnInvariant == ASSUME TurnAssumption PROVE Spec => []TurnInv
<1>1. Init => TurnInv BY TurnInit
<1>2. TurnInv /\ [Next]_turnVars => TurnInv' BY TurnStep
<1> QED BY <1>1, <1>2, PTL DEF Spec

\* What a request sends goes out with a credential and, where the Run has one
\* server, to where the Run is pinned.
THEOREM EgressFollowsThePinAlways ==
  ASSUME TurnAssumption
  PROVE  Spec => EgressFollowsThePin
<1> DEFINE Sends(q) == calls'[q].issued > calls[q].issued
           Follows(q) == SentUnderThePin(q)
<1>1. ASSUME TurnInv, NEW d \in Requests, NEW new, calls' = [calls EXCEPT ![d] = new],
             new.issued = calls[d].issued \/ new.issued = 0
      PROVE  \A q \in Requests : ~Sends(q)
  <2>1. calls \in [Requests -> Call] BY <1>1 DEF TurnInv, TypeOK
  <2>2. \A q \in Requests : calls[q].issued \in Nat BY <2>1 DEF Call
  <2>3. \A q \in Requests : calls'[q] = IF q = d THEN new ELSE calls[q] BY <1>1, <2>1
  <2>4. \A q \in Requests : calls'[q].issued = calls[q].issued \/ calls'[q].issued = 0
    BY <1>1, <2>3
  <2> QED BY <2>2, <2>4
<1>2. ASSUME TurnInv, NEW d \in Requests, NEW answer, Release(d, answer)
      PROVE  \A q \in Requests : ~Sends(q)
  <2>1. calls[d] \in Call BY <1>2 DEF TurnInv, TypeOK
  <2> DEFINE new == [calls[d] EXCEPT !.pc = "answered", !.answer = answer]
  <2>2. calls' = [calls EXCEPT ![d] = new] BY <1>2 DEF Release
  <2>3. new.issued = calls[d].issued BY <2>1 DEF Call
  <2> QED BY <1>1, <1>2, <2>2, <2>3
<1>3. ASSUME TurnInv, NEW d \in Requests, NEW pc, Goto(d, pc)
      PROVE  \A q \in Requests : ~Sends(q)
  <2>1. calls[d] \in Call BY <1>3 DEF TurnInv, TypeOK
  <2> DEFINE new == [calls[d] EXCEPT !.pc = pc]
  <2>2. calls' = [calls EXCEPT ![d] = new] BY <1>3 DEF Goto
  <2>3. new.issued = calls[d].issued BY <2>1 DEF Call
  <2> QED BY <1>1, <1>3, <2>2, <2>3
<1>4. ASSUME TurnInv, NEW d \in Requests, Send(d)
      PROVE  \A q \in Requests : Sends(q) => Follows(q)
  <2>1. CASE \E answer : Release(d, answer) BY <1>2, <1>4, <2>1
  <2>2. CASE calls[d].selection \in keyed
             /\ calls' = [calls EXCEPT ![d].pc = "awaiting", ![d].issued = @ + 1]
    <3>1. calls[d].pc \in Pinned BY <1>4 DEF Send, Pinned, Holding
    <3>2. Follows(d) BY <1>4, <2>2, <3>1 DEF TurnInv, KeepsItsPin, SentUnderThePin
    <3>3. ASSUME NEW q \in Requests, q # d PROVE ~Sends(q)
      <4>1. calls'[q] = calls[q] /\ calls[q].issued \in Nat
        BY <1>4, <2>2, <3>3 DEF TurnInv, TypeOK, Call
      <4> QED BY <4>1
    <3> QED BY <3>2, <3>3
  <2> QED BY <1>4, <2>1, <2>2 DEF Send
<1>5. ASSUME TurnInv, NEW d \in Requests,
             \/ AcquireStripe(d) \/ CheckPin(d) \/ CheckSelection(d)
             \/ RequireCredential(d) \/ CheckStatus(d) \/ EndStream(d) \/ RecordTurn(d)
      PROVE  \A q \in Requests : ~Sends(q)
  <2>1. \/ \E answer : Release(d, answer)
        \/ \E pc : Goto(d, pc)
    BY <1>5 DEF AcquireStripe, CheckPin, CheckSelection, RequireCredential, CheckStatus,
                EndStream, RecordTurn
  <2> QED BY <1>2, <1>3, <1>5, <2>1
<1>6. ASSUME TurnInv, NEW d \in Requests, AwaitResponse(d) PROVE \A q \in Requests : ~Sends(q)
  <2>1. calls[d] \in Call BY <1>6 DEF TurnInv, TypeOK
  <2> DEFINE new == [calls[d] EXCEPT !.pc = "status", !.requests = 1]
  <2>2. (\E answer : Release(d, answer)) \/ calls' = [calls EXCEPT ![d] = new]
    BY <1>6 DEF AwaitResponse
  <2>3. new.issued = calls[d].issued BY <2>1 DEF Call
  <2> QED BY <1>1, <1>2, <1>6, <2>2, <2>3
<1>7. ASSUME TurnInv, NEW d \in Requests, Drip(d) PROVE \A q \in Requests : ~Sends(q)
  <2>1. calls[d] \in Call BY <1>7 DEF TurnInv, TypeOK
  <2> DEFINE new == [calls[d] EXCEPT !.ticks = calls[d].ticks + 1]
  <2>2. calls' = [calls EXCEPT ![d] = new] BY <1>7 DEF Drip
  <2>3. new.issued = calls[d].issued BY <2>1 DEF Call
  <2> QED BY <1>1, <1>7, <2>2, <2>3
<1>8. ASSUME TurnInv, NEW d \in Requests, ReadFrame(d) PROVE \A q \in Requests : ~Sends(q)
  <2>1. calls[d] \in Call BY <1>8 DEF TurnInv, TypeOK
  <2>2. CASE \E answer : Release(d, answer) BY <1>2, <1>8, <2>2
  <2>3. CASE \E wait \in 0..1, terminal \in BOOLEAN :
                calls' = [calls EXCEPT ![d].frames = @ + 1, ![d].ticks = @ + wait,
                                       ![d].terminal = terminal]
    <3>1. PICK wait \in 0..1, terminal \in BOOLEAN :
                calls' = [calls EXCEPT ![d].frames = @ + 1, ![d].ticks = @ + wait,
                                       ![d].terminal = terminal]
      BY <2>3
    <3> DEFINE new == [calls[d] EXCEPT !.frames = calls[d].frames + 1,
                                       !.ticks = calls[d].ticks + wait,
                                       !.terminal = terminal]
    <3>2. calls' = [calls EXCEPT ![d] = new] BY <3>1
    <3>3. new.issued = calls[d].issued BY <2>1 DEF Call
    <3> QED BY <1>1, <1>8, <3>2, <3>3
  <2> QED BY <1>8, <2>2, <2>3 DEF ReadFrame
<1>9. ASSUME TurnInv, NEW d \in Requests,
             \/ Respond(d)
             \/ \E run \in Runs, selection \in Selections : Arrive(d, run, selection)
      PROVE  \A q \in Requests : ~Sends(q)
  <2>1. \A run, selection : Turn(run, selection).issued = 0 BY DEF Turn
  <2> QED BY <1>1, <1>9, <2>1, IdleType DEF Respond, Arrive
<1>10. ASSUME TurnInv, NEW p \in Servers, Crash(p) PROVE \A q \in Requests : ~Sends(q)
  <2> SUFFICES ASSUME NEW q \in Requests PROVE ~Sends(q)
    OBVIOUS
  <2>1. calls[q] \in Call BY <1>10 DEF TurnInv, TypeOK
  <2> DEFINE new == [calls[q] EXCEPT !.pc = "answered", !.answer = "lost"]
  <2>2. calls'[q] = new \/ calls'[q] = calls[q] BY <1>10 DEF Crash
  <2>3. new.issued = calls[q].issued /\ calls[q].issued \in Nat BY <2>1 DEF Call
  <2> HIDE DEF new
  <2> QED BY <2>2, <2>3
<1>11. ASSUME TurnInv, UNCHANGED calls PROVE \A q \in Requests : ~Sends(q)
  BY <1>11 DEF TurnInv, TypeOK, Call
<1>12. ASSUME TurnInv, [Next]_turnVars PROVE \A q \in Requests : Sends(q) => Follows(q)
  <2>1. CASE \E d \in Requests : CallStep(d)
    BY <1>4, <1>5, <1>6, <1>8, <1>9, <1>12, <2>1 DEF CallStep, CheckStatus
  <2>2. CASE \E d \in Requests : \E run \in Runs, selection \in Selections :
                 Arrive(d, run, selection)
    BY <1>9, <1>12, <2>2
  <2>3. CASE \E d \in Requests : Drip(d) BY <1>7, <1>12, <2>3
  <2>4. CASE \E p \in Servers : Crash(p) BY <1>10, <1>12, <2>4
  <2>5. CASE ChangeSettings \/ ArchiveProject \/ UNCHANGED turnVars
    BY <1>11, <1>12, <2>5 DEF ChangeSettings, ArchiveProject, turnVars
  <2> QED BY <1>12, <2>1, <2>2, <2>3, <2>4, <2>5 DEF Next
<1>13. TurnInv /\ [Next]_turnVars => [\A q \in Requests : Sends(q) => Follows(q)]_turnVars
  BY <1>12
<1> QED BY <1>13, TurnInvariant, PTL DEF Spec, EgressFollowsThePin

\* A recorded turn is appended to its Run and nothing else touches a row.
THEOREM TurnsOnlyAppendAlways ==
  ASSUME TurnAssumption
  PROVE  Spec => [][TurnsOnlyAppend]_turnVars
<1>1. ASSUME TurnInv, [Next]_turnVars
      PROVE  \/ rows' = rows
             \/ \E q \in Requests :
                   /\ calls[q].run \in Runs /\ Draft(q) \in TurnRecord
                   /\ rows' = [rows EXCEPT ![calls[q].run] = Append(@, Draft(q))]
  <2>1. ASSUME NEW q \in Requests, RecordTurn(q), rows' # rows
        PROVE  /\ calls[q].run \in Runs /\ Draft(q) \in TurnRecord
               /\ rows' = [rows EXCEPT ![calls[q].run] = Append(@, Draft(q))]
    <3>1. calls[q] \in Call /\ WellFormed(calls[q]) BY <1>1 DEF TurnInv, TypeOK
    <3>2. /\ calls[q].run \in Runs /\ calls[q].selection \in Selections
          /\ calls[q].requests \in Nat /\ calls[q].frames \in Nat
          /\ calls[q].terminal \in BOOLEAN
      BY <2>1, <3>1 DEF RecordTurn, WellFormed, Call
    <3> QED BY <2>1, <3>2 DEF RecordTurn, Draft, TurnRecord
  <2> QED
    BY <1>1, <2>1
       DEF Next, CallStep, Arrive, AcquireStripe, CheckPin, CheckSelection, RequireCredential,
           Send, AwaitResponse, CheckStatus, Drip, ReadFrame, EndStream, Respond, Crash,
           ChangeSettings, ArchiveProject, storeVars, turnVars
<1>2. ASSUME TurnInv, [Next]_turnVars, NEW r \in Runs
      PROVE  /\ Len(rows[r]) <= Len(rows'[r])
             /\ SubSeq(rows'[r], 1, Len(rows[r])) = rows[r]
  <2>1. rows \in [Runs -> Seq(TurnRecord)] /\ rows[r] \in Seq(TurnRecord)
    BY <1>2 DEF TurnInv, TypeOK
  <2>2. rows'[r] = rows[r] \/ \E turn \in TurnRecord : rows'[r] = Append(rows[r], turn)
    BY <1>1, <1>2, <2>1
  <2> QED BY <2>1, <2>2, KeptRows
<1>3. TurnInv /\ [Next]_turnVars => [TurnsOnlyAppend]_turnVars
  BY <1>2 DEF TurnsOnlyAppend
<1> QED BY <1>3, TurnInvariant, PTL DEF Spec

\* Every Run keeps to one selection and to whole turns of one request each, its
\* rows are only appended, and its only server throws no answer away.
THEOREM TurnsAreSoundAlways == ASSUME TurnAssumption PROVE Spec => TurnsAreSound
<1>1. TurnInv => /\ TypeOK /\ OneSelectionPerRun /\ RecordedTurnsAreWhole
                 /\ AtMostOneRequest /\ NoAnswerDiscarded
  BY DEF TurnInv, AtMostOneRequest, NoAnswerDiscarded, WellFormed, KeepsItsPin
<1> QED BY <1>1, TurnInvariant, TurnsOnlyAppendAlways, PTL DEF TurnsAreSound

(***************************************************************************)
(* The registry: its inductive invariant.                                   *)
(***************************************************************************)

\* The steps of _write_private_file that come before the file is replaced.
Writing == {"unlink", "create", "write", "replace"}

Steps ==
    Writing \cup {"idle", "ensure_master", "mint", "entries", "unseal", "verify",
                  "load", "store", "cleanup", "answered"}

Replies ==
    {"none", "ok", "refused", "corrupt", "environment", "no key", "stored",
     "undecryptable", "verification failed", "not enabled", "file exists",
     "file not found"}

Job == [pc : Steps, file : Files, key : Nat, doc : Entries, settings : ModelSettings,
        answer : Replies, request : Operations \cup {NoOperation}]

\* Which operation a request is about follows from the step it is at.
Coherent(j) ==
    /\ j \in Job
    /\ j.pc # "idle" => j.request \in Operations
    /\ j.pc \in {"ensure_master", "mint", "verify"} => j.request.op = "set_key"
    /\ j.pc = "entries" => j.request.op \in {"set_key", "clear_key", "resolve_key"}
    /\ j.pc = "unseal" => j.request.op = "resolve_key"
    /\ j.pc \in Writing \cup {"cleanup"} /\ j.file = "credentials" =>
          j.request.op \in {"set_key", "clear_key"}
    /\ j.pc \in {"load", "store"} => j.request.op # "resolve_key"
    /\ j.pc \in {"idle", "ensure_master", "mint", "entries", "unseal", "verify", "load"} =>
          j.file = "credentials"
    /\ j.pc = "store" => j.file = "settings"
    /\ j.answer # "none" => j.pc = "answered"
    /\ j.settings.default \in j.settings.enabled \cup {None}

\* What each of the two files may hold.
DocumentsOf(f) ==
    IF f = "credentials" THEN Entries
    ELSE {s \in ModelSettings : s.default \in s.enabled \cup {None}}

RegistryTyped ==
    /\ RegistryTypeOK
    /\ job \in [Workers -> Job]
    /\ \A w \in Workers : Coherent(job[w])
    /\ \A f \in Files : path[f].doc \in DocumentsOf(f)
    /\ \A p \in Processes, f \in Files :
          ~Free(<<p, f>>) => temp[<<p, f>>].doc \in DocumentsOf(f)

\* A request that writes does so to the temporary file it made.
OwnsTemporary(w) ==
    /\ job[w].pc = "create" => Free(Temporary(w))
    /\ job[w].pc \in {"write", "replace"} =>
          temp[Temporary(w)].writer = w /\ temp[Temporary(w)].doc = Payload(w)
    /\ job[w].pc = "replace" => temp[Temporary(w)].whole

\* While no two requests meet in one process, each has its own temporary file.
OneInEachProcess ==
    /\ \A v, w \in Busy : ProcessOfWorker[v] = ProcessOfWorker[w] => v = w
    /\ \A f \in Files : path[f].whole
    /\ \A w \in Workers : OwnsTemporary(w)

\* The credentials file as readers find it.
Keyring == path["credentials"].doc

\* The key that request o stores, under the master key m.
Stored(o, m) == [key |-> o.key, under |-> m]

\* Request j is about to replace the credentials file.
Edits(j) == j.pc \in Writing /\ j.file = "credentials"

\* It has done so, if it meant to.
HasEdited(j) ==
    \/ j.pc \in {"verify", "load", "store", "cleanup"}
    \/ j.pc \in Writing /\ j.file = "settings"
    \/ j.answer = "ok"

\* What request j is about to do to the credentials, or has done: keys are what the
\* file holds, m the master key, acknowledged the keys that others rely on.
Intends(j, keys, m, acknowledged) ==
    LET o == j.request IN
        /\ j.pc = "mint" => m = 0
        /\ \A p \in Providers : Concerns(o, p) /\ j.pc # "idle" => acknowledged[p] = None
        /\ o.op = "set_key" /\ (j.pc = "entries" \/ Edits(j)) => j.key = m /\ m # 0
        /\ Edits(j) =>
              j.doc = [keys EXCEPT ![o.provider] =
                           IF o.op = "set_key" THEN Stored(o, m) ELSE None]
        /\ o.op = "set_key" /\ HasEdited(j) => keys[o.provider] = Stored(o, m)
        /\ j.pc = "unseal" => j.doc = keys
        /\ j.answer = "environment" => o.op = "resolve_key" /\ keys[o.provider] = None

IntendsNow(w) == Intends(job[w], Keyring, master, saved)

\* While requests come one after the other, the only one knows the file.
OneAfterTheOther ==
    /\ \A v, w \in Busy : v = w
    /\ EntriesOpen /\ AcknowledgedKeysStay
    /\ \A p \in Providers : Keyring[p] # None => Keyring[p].under # 0
    /\ \A w \in Workers : IntendsNow(w)

RegistryInv ==
    /\ RegistryTyped
    /\ together # "in one process" => OneInEachProcess
    /\ together = "never" => OneAfterTheOther

(***************************************************************************)
(* A step of one request.                                                   *)
(***************************************************************************)

\* The shape of an operation follows from its name.
LEMMA OperationShape ==
  ASSUME NEW o \in Operations
  PROVE  /\ o.op \in {"set_key", "clear_key", "resolve_key"} => o.provider \in Providers
         /\ o.op = "set_key" => o.key \in Keys
         /\ o.op = "set_enabled_models" => o.models \in SUBSET Models
         /\ o.op = "set_default_model" => o.model \in Models \cup {None}
         /\ o.op \in {"set_key", "clear_key", "resolve_key",
                      "set_enabled_models", "set_default_model"}
BY DEF Operations

\* A step of request w, which stays coherent.
Proceeds(w) ==
    /\ job' \in [Workers -> Job]
    /\ Coherent(job[w])'
    /\ \A v \in Workers \ {w} : job'[v] = job[v]

\* A step that leaves the files alone keeps what is said of them.
LEMMA QuietStepKeepsFiles ==
  ASSUME RegistryInv, NEW w \in Workers, job[w].pc # "idle", Proceeds(w),
         job'[w].pc \notin {"create", "write", "replace"},
         UNCHANGED <<path, temp, together>>, RegistryTypeOK'
  PROVE  RegistryTyped' /\ (together # "in one process" => OneInEachProcess)'
<1>1. RegistryTyped'
  BY DEF RegistryInv, RegistryTyped, Free, Proceeds
<1>2. ASSUME together # "in one process" PROVE OneInEachProcess'
  <2>1. OneInEachProcess
    BY <1>2 DEF RegistryInv
  <2>2. Busy' \subseteq Busy
    BY DEF Busy, Proceeds
  <2> QED BY <2>1, <2>2 DEF OneInEachProcess, OwnsTemporary, Temporary, Payload, Free, Proceeds
<1> QED BY <1>1, <1>2

\* While requests come one after the other, a step of one leaves the others idle.
LEMMA OnlyOneBusy ==
  ASSUME RegistryTyped, OneAfterTheOther, NEW w \in Workers, job[w].pc # "idle",
         Proceeds(w), IntendsNow(w)'
  PROVE  (\A v, u \in Busy : v = u)' /\ (\A v \in Workers : IntendsNow(v))'
<1>1. Busy' \subseteq {w}
  BY DEF Busy, OneAfterTheOther, Proceeds
<1>2. ASSUME NEW v \in Workers, v # w PROVE IntendsNow(v)'
  <2>1. job'[v].pc = "idle" /\ job'[v].answer = "none"
    BY <1>1, <1>2 DEF Busy, Coherent, RegistryTyped, Proceeds
  <2> QED BY <2>1 DEF IntendsNow, Intends, Edits, HasEdited, Writing
<1>3. (\A v, u \in Busy : v = u)'
  BY <1>1
<1>4. (\A v \in Workers : IntendsNow(v))'
  BY <1>2
<1> QED BY <1>3, <1>4

LEMMA MasterKeysAreNumbered ==
  ASSUME RegistryAssumption, RegistryTypeOK
  PROVE  /\ master \in Nat /\ minted \in Nat /\ master <= minted /\ minted <= MaxMaster
         /\ MaxMaster \in Nat
<1>1. MaxMaster \in Nat
  BY DEF RegistryAssumption
<1>2. minted \in 0..MaxMaster /\ master \in 0..minted
  BY DEF RegistryTypeOK
<1> QED BY <1>1, <1>2

\* An acknowledged key is an entry.
LEMMA AcknowledgedIsThere ==
  ASSUME RegistryAssumption, RegistryTyped, AcknowledgedKeysStay,
         NEW p \in Providers, saved[p] # None
  PROVE  Keyring[p] # None
<1>1. Keyring[p] = [key |-> saved[p], under |-> master]
  BY DEF AcknowledgedKeysStay, Keyring
<1>2. saved[p] \in Keys
  BY DEF RegistryTyped, RegistryTypeOK
<1>4. master \in Nat
  BY MasterKeysAreNumbered DEF RegistryTyped
<1>3. Keyring[p] \in Sealed
  BY <1>1, <1>2, <1>4 DEF Sealed
<1> QED BY <1>3 DEF RegistryAssumption

\* A step that leaves the files alone.
LEMMA QuietStep ==
  ASSUME RegistryAssumption, RegistryInv, NEW w \in Workers, job[w].pc # "idle",
         Proceeds(w), job'[w].pc \notin {"create", "write", "replace"},
         UNCHANGED <<path, temp, together, saved>>, RegistryTypeOK',
         together = "never" =>
             /\ \A p \in Providers : Keyring[p] # None => master' = master
             /\ IntendsNow(w)'
  PROVE  RegistryInv'
<1>1. RegistryTyped' /\ (together # "in one process" => OneInEachProcess)'
  BY QuietStepKeepsFiles
<1>2. ASSUME together = "never" PROVE OneAfterTheOther'
  <2>1. OneAfterTheOther /\ RegistryTyped
    BY <1>2 DEF RegistryInv
  <2>2. (\A v, u \in Busy : v = u)' /\ (\A v \in Workers : IntendsNow(v))'
    BY <1>2, <2>1, OnlyOneBusy
  <2>3. Keyring' = Keyring
    BY DEF Keyring
  <2>4. \A p \in Providers : saved[p] # None => Keyring[p] # None
    BY <2>1, AcknowledgedIsThere DEF OneAfterTheOther
  <2>5. EntriesOpen' /\ AcknowledgedKeysStay'
    BY <1>2, <2>1, <2>3, <2>4 DEF OneAfterTheOther, EntriesOpen, AcknowledgedKeysStay, Keyring
  <2>6. (\A p \in Providers : Keyring[p] # None => Keyring[p].under # 0)'
    BY <2>1, <2>3 DEF OneAfterTheOther
  <2> QED BY <2>2, <2>5, <2>6 DEF OneAfterTheOther
<1> QED BY <1>1, <1>2 DEF RegistryInv

(***************************************************************************)
(* What each step makes of its request.                                     *)
(***************************************************************************)

\* A request that is answered, with its other locals as they were.
LEMMA AnswersAreQuiet ==
  ASSUME RegistryAssumption, RegistryInv, NEW w \in Workers, NEW answer \in Replies,
         job[w].pc # "idle", Answer(w, answer),
         UNCHANGED <<path, temp, together, saved>>, RegistryTypeOK',
         together = "never" =>
             /\ \A p \in Providers : Keyring[p] # None => master' = master
             /\ answer = "ok" => HasEdited(job[w]) /\ master' = master
             /\ answer = "environment" => job[w].request.op = "resolve_key"
                                        /\ Keyring[job[w].request.provider] = None
  PROVE  RegistryInv'
<1>1. job \in [Workers -> Job] /\ job[w] \in Job /\ Coherent(job[w])
  BY DEF RegistryInv, RegistryTyped
<1>2. /\ job'[w].pc = "answered" /\ job'[w].answer = answer
      /\ job'[w].request = job[w].request /\ job'[w].file = job[w].file
      /\ job'[w].settings = job[w].settings
      /\ job' \in [Workers -> Job] /\ \A v \in Workers \ {w} : job'[v] = job[v]
  BY <1>1 DEF Answer, Job, Steps
<1>3. Proceeds(w)
  BY <1>1, <1>2 DEF Proceeds, Coherent, Writing
<1>4. ASSUME together = "never" PROVE IntendsNow(w)'
  <2>1. IntendsNow(w) /\ OneAfterTheOther
    BY <1>4 DEF RegistryInv, OneAfterTheOther
  <2>2. Keyring' = Keyring
    BY DEF Keyring
  <2>3. job'[w].pc = "answered" /\ ~Edits(job'[w]) /\ HasEdited(job'[w]) = (answer = "ok")
    BY <1>2 DEF Edits, HasEdited, Writing
  <2>4. Intends(job[w], Keyring, master, saved)
    BY <2>1 DEF IntendsNow
  <2>5. Intends(job'[w], Keyring, master', saved)
    BY <1>2, <1>4, <2>3, <2>4 DEF Intends
  <2> QED BY <2>2, <2>5 DEF IntendsNow
<1> QED BY <1>2, <1>3, <1>4, QuietStep

\* A request that goes on, with its other locals as they were.
LEMMA ContinuesQuietly ==
  ASSUME RegistryAssumption, RegistryInv, NEW w \in Workers, NEW pc \in Steps,
         job[w].pc # "idle", ContinueAt(w, pc),
         Coherent(job[w])', pc \notin {"create", "write", "replace"},
         UNCHANGED <<path, temp, together, saved>>, RegistryTypeOK',
         together = "never" =>
             /\ \A p \in Providers : Keyring[p] # None => master' = master
             /\ IntendsNow(w) => IntendsNow(w)'
  PROVE  RegistryInv'
<1>1. job \in [Workers -> Job] /\ job[w] \in Job /\ Coherent(job[w])
  BY DEF RegistryInv, RegistryTyped
<1>2. /\ job'[w].pc = pc
      /\ job' \in [Workers -> Job] /\ \A v \in Workers \ {w} : job'[v] = job[v]
  BY <1>1 DEF ContinueAt, Job
<1>3. Proceeds(w)
  BY <1>2 DEF Proceeds
<1>4. ASSUME together = "never" PROVE IntendsNow(w)'
  BY <1>4 DEF RegistryInv, OneAfterTheOther
<1> QED BY <1>2, <1>3, <1>4, QuietStep

LEMMA MasterKeysKeep ==
  ASSUME RegistryAssumption, RegistryInv, NEW w \in Workers, EnsureMaster(w) \/ MintMaster(w)
  PROVE  RegistryInv'
<1> USE DEF keychain, files
<1>1. job \in [Workers -> Job] /\ job[w] \in Job /\ Coherent(job[w])
  BY DEF RegistryInv, RegistryTyped
<1>2. /\ RegistryTypeOK /\ master \in Nat /\ minted \in Nat /\ master <= minted
      /\ MaxMaster \in Nat /\ minted <= MaxMaster
  BY MasterKeysAreNumbered DEF RegistryInv, RegistryTyped
<1>3. CASE EnsureMaster(w)
  <2>0. /\ job[w].pc = "ensure_master" /\ UNCHANGED <<path, temp, together, saved>>
        /\ master' = master /\ minted' = minted
    BY <1>3 DEF EnsureMaster
  <2>1. RegistryTypeOK' /\ Keyring' = Keyring
    BY <1>2, <2>0 DEF RegistryTypeOK, Keyring
  <2>2. CASE Answer(w, "refused")
    BY <2>0, <2>1, <2>2, AnswersAreQuiet DEF Replies
  <2>3. CASE master = 0 /\ ContinueAt(w, "mint")
    <3>1. job'[w] = [job[w] EXCEPT !.pc = "mint"] /\ job'[w] \in Job
      BY <1>1, <2>3 DEF ContinueAt, Job, Steps
    <3>2. Coherent(job'[w])
      BY <1>1, <1>3, <3>1 DEF EnsureMaster, Coherent, Job, Writing
    <3>3. IntendsNow(w) => IntendsNow(w)'
      BY <1>1, <1>3, <2>1, <2>3, <3>1
         DEF EnsureMaster, IntendsNow, Intends, Edits, HasEdited, Writing, Coherent, Job
    <3> QED BY <2>0, <2>1, <2>3, <3>2, <3>3, ContinuesQuietly DEF Steps
  <2>4. CASE master # 0 /\ job' = [job EXCEPT ![w].pc = "entries", ![w].key = master]
    <3>1. /\ job' \in [Workers -> Job] /\ \A v \in Workers \ {w} : job'[v] = job[v]
          /\ job'[w].pc = "entries" /\ job'[w].key = master
          /\ job'[w].request = job[w].request /\ job'[w].file = job[w].file
          /\ job'[w].settings = job[w].settings /\ job'[w].answer = job[w].answer
      BY <1>1, <1>2, <2>4 DEF Job, Steps
    <3>2. Proceeds(w)
      BY <1>1, <1>3, <3>1 DEF EnsureMaster, Proceeds, Coherent, Writing
    <3>3. IntendsNow(w) => IntendsNow(w)'
      BY <1>1, <1>3, <2>1, <2>4, <3>1
         DEF EnsureMaster, IntendsNow, Intends, Edits, HasEdited, Writing, Coherent
    <3> QED BY <2>0, <2>1, <3>1, <3>2, <3>3, QuietStep DEF RegistryInv, OneAfterTheOther
  <2> QED BY <1>3, <2>2, <2>3, <2>4 DEF EnsureMaster
<1>4. CASE MintMaster(w)
  <2>0. /\ job[w].pc = "mint" /\ UNCHANGED <<path, temp, together, saved>>
        /\ \/ master' = master /\ minted' = minted
           \/ minted < MaxMaster /\ minted' = minted + 1 /\ master' = minted'
    BY <1>4 DEF MintMaster
  <2>1. RegistryTypeOK' /\ Keyring' = Keyring
    <3>1. minted' \in 0..MaxMaster /\ master' \in 0..minted'
      <4>1. CASE master' = master /\ minted' = minted
        BY <1>2, <4>1
      <4>2. CASE minted < MaxMaster /\ minted' = minted + 1 /\ master' = minted'
        BY <1>2, <4>2
      <4> QED BY <2>0, <4>1, <4>2
    <3> QED BY <1>2, <2>0, <3>1 DEF RegistryTypeOK, Keyring
  <2>2. together = "never" =>
          /\ master = 0 /\ \A p \in Providers : Keyring[p] = None
          /\ IntendsNow(w)
    BY <1>4 DEF MintMaster, RegistryInv, OneAfterTheOther, IntendsNow, Intends, EntriesOpen, Keyring
  <2>3. CASE Answer(w, "refused")
    BY <2>0, <2>1, <2>2, <2>3, AnswersAreQuiet DEF Replies
  <2>4. CASE /\ minted' = minted + 1 /\ master' = minted'
             /\ job' = [job EXCEPT ![w].pc = "entries", ![w].key = minted']
    <3>1. /\ job' \in [Workers -> Job] /\ \A v \in Workers \ {w} : job'[v] = job[v]
          /\ job'[w].pc = "entries" /\ job'[w].key = master' /\ master' # 0
          /\ job'[w].request = job[w].request /\ job'[w].file = job[w].file
          /\ job'[w].settings = job[w].settings /\ job'[w].answer = job[w].answer
      <4>1. minted' \in Nat /\ minted' # 0
        BY <1>2, <2>4
      <4> QED BY <1>1, <2>4, <4>1 DEF Job, Steps
    <3>2. Proceeds(w)
      BY <1>1, <1>4, <3>1 DEF MintMaster, Proceeds, Coherent, Writing
    <3>3. IntendsNow(w) => IntendsNow(w)'
      BY <1>1, <1>4, <2>1, <3>1
         DEF MintMaster, IntendsNow, Intends, Edits, HasEdited, Writing, Coherent
    <3> QED BY <2>0, <2>1, <2>2, <3>1, <3>2, <3>3, QuietStep
  <2> QED BY <1>4, <2>3, <2>4 DEF MintMaster
<1> QED BY <1>3, <1>4

\* What the file holds are entries, and a key that is sealed makes another.
LEMMA KeyringType ==
  ASSUME RegistryTyped
  PROVE  /\ Keyring \in Entries
         /\ \A p \in Providers, k \in Keys, m \in Nat :
                [Keyring EXCEPT ![p] = [key |-> k, under |-> m]] \in Entries
         /\ \A p \in Providers : [Keyring EXCEPT ![p] = None] \in Entries
<1>1. Keyring \in Entries
  BY DEF RegistryTyped, DocumentsOf, Files, Keyring
<1> QED BY <1>1 DEF Entries, Sealed

LEMMA ReadEntriesKeeps ==
  ASSUME RegistryAssumption, RegistryInv, NEW w \in Workers, ReadEntries(w)
  PROVE  RegistryInv'
<1> DEFINE o == job[w].request
<1>1. job \in [Workers -> Job] /\ job[w] \in Job /\ Coherent(job[w]) /\ RegistryTypeOK
  BY DEF RegistryInv, RegistryTyped
<1>2. /\ job[w].pc = "entries" /\ UNCHANGED <<path, temp, together, saved>>
      /\ master' = master /\ minted' = minted
  BY DEF ReadEntries, keychain, files
<1>3. RegistryTypeOK' /\ Keyring' = Keyring
  BY <1>1, <1>2 DEF RegistryTypeOK, Keyring
<1>4. /\ o \in Operations /\ o.op \in {"set_key", "clear_key", "resolve_key"}
      /\ o.provider \in Providers /\ (o.op = "set_key" => o.key \in Keys)
      /\ job[w].file = "credentials" /\ job[w].answer = "none" /\ job[w].key \in Nat
  BY <1>1, <1>2, OperationShape DEF Coherent, Job
<1>5. together = "never" => IntendsNow(w)
  BY DEF RegistryInv, OneAfterTheOther
<1>6. CASE Answer(w, "corrupt")
  BY <1>2, <1>3, <1>6, AnswersAreQuiet DEF Replies
<1>7. ASSUME NEW pc \in {"unlink", "unseal"}, NEW d \in Entries,
             job' = [job EXCEPT ![w].pc = pc, ![w].doc = d],
             pc = "unseal" => o.op = "resolve_key" /\ d = Keyring,
             pc = "unlink" =>
                \/ o.op = "set_key" /\ d = [Keyring EXCEPT ![o.provider] = Stored(o, job[w].key)]
                \/ o.op = "clear_key" /\ d = [Keyring EXCEPT ![o.provider] = None]
      PROVE  RegistryInv'
  <2>1. /\ job' \in [Workers -> Job] /\ \A v \in Workers \ {w} : job'[v] = job[v]
        /\ job'[w].pc = pc /\ job'[w].doc = d /\ job'[w].key = job[w].key
        /\ job'[w].request = o /\ job'[w].file = "credentials"
        /\ job'[w].settings = job[w].settings /\ job'[w].answer = "none"
    BY <1>1, <1>4, <1>7 DEF Job, Steps, Writing
  <2>2. Proceeds(w)
    BY <1>1, <1>4, <1>7, <2>1 DEF Proceeds, Coherent, Writing
  <2>3. IntendsNow(w) => IntendsNow(w)'
    BY <1>2, <1>3, <1>4, <1>7, <2>1 DEF IntendsNow, Intends, Edits, HasEdited, Writing
  <2> QED BY <1>2, <1>3, <1>5, <1>7, <2>1, <2>2, <2>3, QuietStep
<1>8. CASE o.op = "clear_key" /\ ContinueAt(w, "load")
  <2>1. /\ job' \in [Workers -> Job] /\ \A v \in Workers \ {w} : job'[v] = job[v]
        /\ job'[w].pc = "load" /\ job'[w].request = o /\ job'[w].file = "credentials"
        /\ job'[w].settings = job[w].settings /\ job'[w].answer = "none"
    BY <1>1, <1>4, <1>8 DEF ContinueAt, Job, Steps, Writing
  <2>2. Proceeds(w)
    BY <1>1, <1>4, <1>8, <2>1 DEF Proceeds, Coherent, Writing
  <2>3. IntendsNow(w) => IntendsNow(w)'
    BY <1>2, <1>3, <1>4, <1>8, <2>1 DEF IntendsNow, Intends, Edits, HasEdited, Writing
  <2> QED BY <1>2, <1>3, <1>5, <2>1, <2>2, <2>3, QuietStep
<1>9. /\ Keyring \in Entries /\ [Keyring EXCEPT ![o.provider] = None] \in Entries
      /\ o.op = "set_key" => [Keyring EXCEPT ![o.provider] = Stored(o, job[w].key)] \in Entries
  BY <1>4, KeyringType DEF RegistryInv, Stored
<1>10. \/ Answer(w, "corrupt")
       \/ o.op = "set_key" /\ job' = [job EXCEPT ![w].pc = "unlink", ![w].doc =
                                       [Keyring EXCEPT ![o.provider] = Stored(o, job[w].key)]]
       \/ o.op = "clear_key" /\ ContinueAt(w, "load")
       \/ o.op = "clear_key" /\ job' = [job EXCEPT ![w].pc = "unlink", ![w].doc =
                                       [Keyring EXCEPT ![o.provider] = None]]
       \/ o.op = "resolve_key" /\ job' = [job EXCEPT ![w].pc = "unseal", ![w].doc = Keyring]
  BY <1>4 DEF ReadEntries, Keyring, Stored
<1> QED BY <1>6, <1>7, <1>8, <1>9, <1>10

LEMMA UnsealKeeps ==
  ASSUME RegistryAssumption, RegistryInv, NEW w \in Workers, Unseal(w)
  PROVE  RegistryInv'
<1>1. job \in [Workers -> Job] /\ job[w] \in Job /\ Coherent(job[w]) /\ RegistryTypeOK
  BY DEF RegistryInv, RegistryTyped
<1>2. /\ job[w].pc = "unseal" /\ UNCHANGED <<path, temp, together, saved>>
      /\ master' = master /\ minted' = minted
  BY DEF Unseal, keychain, files
<1>3. RegistryTypeOK'
  BY <1>1, <1>2 DEF RegistryTypeOK
<1>4. together = "never" => job[w].doc = Keyring
  BY <1>2 DEF RegistryInv, OneAfterTheOther, IntendsNow, Intends
<1>5. job[w].request.op = "resolve_key"
  BY <1>1, <1>2 DEF Coherent
<1>6. CASE \E a \in Replies \ {"ok", "environment"} : Answer(w, a)
  BY <1>2, <1>3, <1>6, AnswersAreQuiet
<1>7. CASE job[w].doc[job[w].request.provider] = None /\ Answer(w, "environment")
  BY <1>2, <1>3, <1>4, <1>5, <1>7, AnswersAreQuiet DEF Replies
<1> QED BY <1>6, <1>7 DEF Unseal, Replies

LEMMA VerifyKeeps ==
  ASSUME RegistryAssumption, RegistryInv, NEW w \in Workers, Verify(w)
  PROVE  RegistryInv'
<1>1. job \in [Workers -> Job] /\ job[w] \in Job /\ Coherent(job[w]) /\ RegistryTypeOK
  BY DEF RegistryInv, RegistryTyped
<1>2. /\ job[w].pc = "verify" /\ UNCHANGED <<path, temp, together, saved>>
      /\ master' = master /\ minted' = minted
  BY DEF Verify, keychain, files
<1>3. RegistryTypeOK' /\ Keyring' = Keyring
  BY <1>1, <1>2 DEF RegistryTypeOK, Keyring
<1>4. together = "never" => IntendsNow(w)
  BY DEF RegistryInv, OneAfterTheOther
<1>5. CASE \E a \in Replies \ {"ok", "environment"} : Answer(w, a)
  BY <1>2, <1>3, <1>5, AnswersAreQuiet
<1>6. CASE ContinueAt(w, "load")
  <2>1. /\ job' \in [Workers -> Job] /\ \A v \in Workers \ {w} : job'[v] = job[v]
        /\ job'[w].pc = "load" /\ job'[w].request = job[w].request
        /\ job'[w].file = job[w].file
        /\ job'[w].settings = job[w].settings /\ job'[w].answer = job[w].answer
    BY <1>1, <1>6 DEF ContinueAt, Job, Steps, Writing
  <2>2. Proceeds(w)
    BY <1>1, <1>2, <2>1 DEF Proceeds, Coherent, Writing
  <2>3. IntendsNow(w) => IntendsNow(w)'
    BY <1>1, <1>2, <1>3, <2>1 DEF IntendsNow, Intends, Edits, HasEdited, Writing, Coherent
  <2> QED BY <1>2, <1>3, <1>4, <2>1, <2>2, <2>3, QuietStep
<1> QED BY <1>5, <1>6 DEF Verify, Replies

(***************************************************************************)
(* The settings.                                                            *)
(***************************************************************************)

\* Whatever a request makes of settings whose default is enabled is such again.
LEMMA ChangedSettings ==
  ASSUME RegistryTyped, NEW o \in Operations, o.op # "resolve_key",
         o.op = "set_default_model" => o.model \in Loaded.enabled \cup {None}
  PROVE  Changed(Loaded, o) \in DocumentsOf("settings")
<1>1. NoSettings \in DocumentsOf("settings")
  BY DEF NoSettings, DocumentsOf, ModelSettings
<1>2. path["settings"].doc \in DocumentsOf("settings")
  BY DEF RegistryTyped, Files
<1>3. Loaded \in ModelSettings /\ Loaded.default \in Loaded.enabled \cup {None}
  BY <1>1, <1>2 DEF Loaded, DocumentsOf
<1> DEFINE s == Loaded
<1> HIDE DEF s
<1>4. s \in ModelSettings /\ s.default \in s.enabled \cup {None}
  BY <1>3 DEF s
<1>5. CASE o.op = "set_key"
  <2>1. [s EXCEPT !.configured = @ \cup {o.provider}] \in DocumentsOf("settings")
    BY <1>4, <1>5, OperationShape DEF ModelSettings, DocumentsOf
  <2> QED BY <1>5, <2>1 DEF Changed, s
<1>6. CASE o.op = "clear_key"
  <2>1. [s EXCEPT !.configured = @ \ {o.provider}] \in DocumentsOf("settings")
    BY <1>4, <1>6 DEF ModelSettings, DocumentsOf
  <2> QED BY <1>6, <2>1 DEF Changed, s
<1>7. CASE o.op = "set_enabled_models"
  <2>1. [s EXCEPT !.enabled = o.models, !.default = IF @ \in o.models THEN @ ELSE None]
            \in DocumentsOf("settings")
    BY <1>4, <1>7, OperationShape DEF ModelSettings, DocumentsOf
  <2> QED BY <1>7, <2>1 DEF Changed, s
<1>8. CASE o.op = "set_default_model"
  <2>1. [s EXCEPT !.default = o.model] \in DocumentsOf("settings")
    BY <1>4, <1>8, OperationShape DEF ModelSettings, DocumentsOf, s
  <2> QED BY <1>8, <2>1 DEF Changed, s
<1> QED BY <1>5, <1>6, <1>7, <1>8, OperationShape

LEMMA LoadSettingsKeeps ==
  ASSUME RegistryAssumption, RegistryInv, NEW w \in Workers, LoadSettings(w)
  PROVE  RegistryInv'
<1> DEFINE o == job[w].request
<1>1. job \in [Workers -> Job] /\ job[w] \in Job /\ Coherent(job[w]) /\ RegistryTypeOK
  BY DEF RegistryInv, RegistryTyped
<1>2. /\ job[w].pc = "load" /\ UNCHANGED <<path, temp, together, saved>>
      /\ master' = master /\ minted' = minted
  BY DEF LoadSettings, keychain, files
<1>3. RegistryTypeOK' /\ Keyring' = Keyring
  BY <1>1, <1>2 DEF RegistryTypeOK, Keyring
<1>4. together = "never" => IntendsNow(w)
  BY DEF RegistryInv, OneAfterTheOther
<1>5. CASE Answer(w, "not enabled")
  BY <1>2, <1>3, <1>5, AnswersAreQuiet DEF Replies
<1>6. CASE /\ o.op = "set_default_model" => o.model \in Loaded.enabled \cup {None}
           /\ job' = [job EXCEPT ![w].pc = "store", ![w].file = "settings",
                                 ![w].settings = Changed(Loaded, o)]
  <2>1. Changed(Loaded, o) \in DocumentsOf("settings")
    BY <1>1, <1>2, <1>6, ChangedSettings DEF RegistryInv, Coherent
  <2>2. Changed(Loaded, o) \in ModelSettings
    BY <2>1 DEF DocumentsOf
  <2>3. /\ job' \in [Workers -> Job] /\ \A v \in Workers \ {w} : job'[v] = job[v]
        /\ job'[w].pc = "store" /\ job'[w].request = o /\ job'[w].file = "settings"
        /\ job'[w].settings = Changed(Loaded, o) /\ job'[w].answer = job[w].answer
    BY <1>1, <1>6, <2>2 DEF Job, Steps, Files, Writing
  <2>4. Proceeds(w)
    BY <1>1, <1>2, <2>1, <2>3 DEF Proceeds, Coherent, Writing, DocumentsOf
  <2>5. IntendsNow(w) => IntendsNow(w)'
    BY <1>1, <1>2, <1>3, <2>3 DEF IntendsNow, Intends, Edits, HasEdited, Writing, Coherent
  <2> QED BY <1>2, <1>3, <1>4, <2>3, <2>4, <2>5, QuietStep
<1> QED BY <1>5, <1>6 DEF LoadSettings

(***************************************************************************)
(* The files.                                                               *)
(***************************************************************************)

\* A step of w that touches its temporary file alone leaves those of the others.
LEMMA OthersKeepTheirs ==
  ASSUME OneInEachProcess, NEW w \in Workers, job[w].pc # "idle", Proceeds(w),
         \A c \in (Processes \X Files) \ {Temporary(w)} : temp'[c] = temp[c],
         job' \in [Workers -> Job]
  PROVE  /\ (\A v, u \in Busy : ProcessOfWorker[v] = ProcessOfWorker[u] => v = u)'
         /\ \A v \in Workers \ {w} : OwnsTemporary(v)'
<1>1. Busy' \subseteq Busy /\ w \in Busy
  BY DEF Busy, Proceeds
<1>2. (\A v, u \in Busy : ProcessOfWorker[v] = ProcessOfWorker[u] => v = u)'
  BY <1>1 DEF OneInEachProcess
<1>3. ASSUME NEW v \in Workers \ {w} PROVE OwnsTemporary(v)'
  <2>1. job'[v] = job[v] /\ OwnsTemporary(v)
    BY DEF Proceeds, OneInEachProcess
  <2>2. CASE job[v].pc = "idle"
    BY <2>1, <2>2 DEF OwnsTemporary
  <2>3. CASE job[v].pc # "idle"
    <3>1. ProcessOfWorker[v] # ProcessOfWorker[w]
      BY <1>1, <2>3 DEF OneInEachProcess, Busy
    <3>2. Temporary(v) # Temporary(w) /\ Temporary(v)' = Temporary(v)
      BY <2>1, <3>1 DEF Temporary
    <3>3. Temporary(v) \in Processes \X Files
      BY <2>1 DEF Temporary, Processes, Job
    <3>4. temp'[Temporary(v)] = temp[Temporary(v)]
      BY <3>2, <3>3
    <3>5. Payload(v)' = Payload(v)
      BY <2>1 DEF Payload
    <3> QED BY <2>1, <3>2, <3>4, <3>5 DEF OwnsTemporary, Free
  <2> QED BY <2>2, <2>3
<1> QED BY <1>2, <1>3

\* A step of w that touches the files.
LEMMA FileStep ==
  ASSUME RegistryInv, NEW w \in Workers, job[w].pc # "idle", Proceeds(w),
         RegistryTypeOK', together' = together,
         \A f \in Files : path'[f].doc \in DocumentsOf(f),
         \A c \in (Processes \X Files) \ {Temporary(w)} : temp'[c] = temp[c],
         temp'[Temporary(w)].writer # None => temp'[Temporary(w)].doc \in DocumentsOf(job[w].file),
         job'[w].file = job[w].file,
         together # "in one process" =>
             (\A f \in Files : path'[f].whole) /\ OwnsTemporary(w)',
         together = "never" => OneAfterTheOther'
  PROVE  RegistryInv'
<1>1. Temporary(w) = <<ProcessOfWorker[w], job[w].file>> /\ Temporary(w)' = Temporary(w)
  BY DEF Temporary
<1>2. ASSUME NEW p \in Processes, NEW f \in Files, ~Free(<<p, f>>)'
      PROVE  temp'[<<p, f>>].doc \in DocumentsOf(f)
  <2>1. CASE <<p, f>> = Temporary(w)
    <3>2. <<p, f>> = <<ProcessOfWorker[w], job[w].file>>
      BY <2>1 DEF Temporary
    <3>1. f = job[w].file
      BY <3>2
    <3> QED BY <1>2, <2>1, <3>1 DEF Free
  <2>2. CASE <<p, f>> # Temporary(w)
    BY <1>2, <2>2 DEF Free, RegistryInv, RegistryTyped
  <2> QED BY <2>1, <2>2
<1>3. RegistryTyped'
  BY <1>2 DEF RegistryTyped, RegistryInv, Proceeds, Free
<1>4. ASSUME together # "in one process" PROVE OneInEachProcess'
  <2>1. OneInEachProcess
    BY <1>4 DEF RegistryInv
  <2>2. /\ (\A v, u \in Busy : ProcessOfWorker[v] = ProcessOfWorker[u] => v = u)'
        /\ \A v \in Workers \ {w} : OwnsTemporary(v)'
    BY <2>1, OthersKeepTheirs DEF Proceeds
  <2>3. ASSUME NEW v \in Workers PROVE OwnsTemporary(v)'
    <3>1. CASE v = w
      BY <1>4, <3>1
    <3>2. CASE v # w
      BY <2>2, <3>2
    <3> QED BY <3>1, <3>2
  <2>4. (\A f \in Files : path[f].whole)'
    BY <1>4
  <2> QED BY <2>2, <2>3, <2>4 DEF OneInEachProcess
<1> QED BY <1>3, <1>4 DEF RegistryInv

\* The credentials stay as they are.
LEMMA CredentialsStay ==
  ASSUME RegistryInv, together = "never", NEW w \in Workers, job[w].pc # "idle", Proceeds(w),
         Keyring' = Keyring, UNCHANGED <<master, saved>>, IntendsNow(w)'
  PROVE  OneAfterTheOther'
<1>1. OneAfterTheOther /\ RegistryTyped
  BY DEF RegistryInv
<1>2. (\A v, u \in Busy : v = u)' /\ (\A v \in Workers : IntendsNow(v))'
  BY <1>1, OnlyOneBusy
<1>3. EntriesOpen' /\ AcknowledgedKeysStay'
  BY <1>1 DEF OneAfterTheOther, EntriesOpen, AcknowledgedKeysStay, Keyring
<1>4. (\A p \in Providers : Keyring[p] # None => Keyring[p].under # 0)'
  BY <1>1 DEF OneAfterTheOther
<1> QED BY <1>2, <1>3, <1>4 DEF OneAfterTheOther

\* Where a step leads, everything but pc (and answer) of w stays.
LEMMA Onward ==
  ASSUME RegistryTyped, NEW w \in Workers, NEW pc \in Steps, ContinueAt(w, pc)
  PROVE  /\ job' \in [Workers -> Job] /\ \A v \in Workers \ {w} : job'[v] = job[v]
         /\ job'[w].pc = pc /\ job'[w].request = job[w].request
         /\ job'[w].file = job[w].file /\ job'[w].key = job[w].key
         /\ job'[w].doc = job[w].doc
         /\ job'[w].settings = job[w].settings /\ job'[w].answer = job[w].answer
BY DEF RegistryTyped, ContinueAt, Job

LEMMA TemporaryIsThere ==
  ASSUME RegistryTyped, NEW w \in Workers
  PROVE  /\ Temporary(w) \in Processes \X Files /\ temp[Temporary(w)] \in File
         /\ temp[Temporary(w)].writer # None =>
               temp[Temporary(w)].doc \in DocumentsOf(job[w].file)
BY DEF RegistryTyped, RegistryTypeOK, Temporary, Processes, Job, Free

LEMMA StoreSettingsKeeps ==
  ASSUME RegistryInv, NEW w \in Workers, StoreSettings(w)
  PROVE  RegistryInv'
<1>1. RegistryTyped /\ RegistryTypeOK /\ Coherent(job[w]) /\ job[w] \in Job
  BY DEF RegistryInv, RegistryTyped
<1>2. /\ job[w].pc = "store" /\ ContinueAt(w, "unlink")
      /\ UNCHANGED <<master, minted, temp, together, saved>>
  BY DEF StoreSettings, keychain
<1>3. /\ job' \in [Workers -> Job] /\ \A v \in Workers \ {w} : job'[v] = job[v]
      /\ job'[w].pc = "unlink" /\ job'[w].request = job[w].request
      /\ job'[w].file = job[w].file /\ job'[w].key = job[w].key /\ job'[w].doc = job[w].doc
      /\ job'[w].settings = job[w].settings /\ job'[w].answer = job[w].answer
  BY <1>1, <1>2, Onward DEF Steps, Writing
<1>4. Proceeds(w)
  BY <1>1, <1>2, <1>3 DEF Proceeds, Coherent, Writing
<1>5. Absent("settings") \in File /\ Absent("settings").doc \in DocumentsOf("settings")
  BY DEF Absent, NoSettings, File, DocumentsOf, ModelSettings
<1>6. /\ path' \in [Files -> File] /\ path'["credentials"] = path["credentials"]
      /\ \A f \in Files : path'[f].doc \in DocumentsOf(f) /\ (path[f].whole => path'[f].whole)
  BY <1>1, <1>5 DEF StoreSettings, RegistryTyped, RegistryTypeOK, Files
<1>7. RegistryTypeOK' /\ Keyring' = Keyring
  BY <1>1, <1>2, <1>6 DEF RegistryTypeOK, Keyring
<1>8. together # "in one process" => (\A f \in Files : path'[f].whole) /\ OwnsTemporary(w)'
  BY <1>3, <1>6 DEF RegistryInv, OneInEachProcess, OwnsTemporary
<1>9. ASSUME together = "never" PROVE OneAfterTheOther'
  <2>1. IntendsNow(w)
    BY <1>9 DEF RegistryInv, OneAfterTheOther
  <2>2. IntendsNow(w)'
    BY <1>1, <1>2, <1>3, <1>7, <2>1 DEF IntendsNow, Intends, Edits, HasEdited, Writing, Coherent
  <2> QED BY <1>2, <1>4, <1>7, <1>9, <2>2, CredentialsStay
<1>10. temp[Temporary(w)].writer # None => temp[Temporary(w)].doc \in DocumentsOf(job[w].file)
  BY <1>1, TemporaryIsThere
<1> QED BY <1>2, <1>3, <1>4, <1>6, <1>7, <1>8, <1>9, <1>10, FileStep

\* _write_private_file up to the replacement; nothing readers see changes.
LEMMA WritingKeeps ==
  ASSUME RegistryAssumption, RegistryInv, NEW w \in Workers,
         UnlinkStale(w) \/ CreateTemporary(w) \/ WritePayload(w)
  PROVE  RegistryInv'
<1>1. RegistryTyped /\ RegistryTypeOK /\ Coherent(job[w]) /\ job[w] \in Job
  BY DEF RegistryInv, RegistryTyped
<1>2. /\ Temporary(w) \in Processes \X Files /\ temp[Temporary(w)] \in File
      /\ temp[Temporary(w)].writer # None =>
            temp[Temporary(w)].doc \in DocumentsOf(job[w].file)
  BY <1>1, TemporaryIsThere
<1>3. Payload(w) \in DocumentsOf(job[w].file) /\ Payload(w) \in Entries \cup ModelSettings
  BY <1>1 DEF Payload, DocumentsOf, Coherent, Job, Files
<1>4. ASSUME NEW pc \in {"create", "write", "replace"}, ContinueAt(w, pc),
             job[w].pc \in Writing, job[w].pc # "idle",
             UNCHANGED <<master, minted, saved, together>>,
             temp' \in [Processes \X Files -> File],
             \A c \in (Processes \X Files) \ {Temporary(w)} : temp'[c] = temp[c],
             temp'[Temporary(w)].writer # None => temp'[Temporary(w)].doc \in DocumentsOf(job[w].file),
             path' \in [Files -> File],
             \A f \in Files : path'[f].doc = path[f].doc /\ (path[f].whole => path'[f].whole),
             together # "in one process" => OwnsTemporary(w)'
      PROVE  RegistryInv'
  <2>1. /\ job' \in [Workers -> Job] /\ \A v \in Workers \ {w} : job'[v] = job[v]
        /\ job'[w].pc = pc /\ job'[w].request = job[w].request
        /\ job'[w].file = job[w].file /\ job'[w].key = job[w].key /\ job'[w].doc = job[w].doc
        /\ job'[w].settings = job[w].settings /\ job'[w].answer = job[w].answer
    BY <1>1, <1>4, Onward DEF Steps, Writing
  <2>2. Proceeds(w)
    BY <1>1, <1>4, <2>1 DEF Proceeds, Coherent, Writing
  <2>3. RegistryTypeOK' /\ Keyring' = Keyring
    BY <1>1, <1>4 DEF RegistryTypeOK, Keyring, Files
  <2>4. \A f \in Files : path'[f].doc \in DocumentsOf(f)
    BY <1>1, <1>4 DEF RegistryTyped
  <2>5. together # "in one process" => \A f \in Files : path'[f].whole
    BY <1>4 DEF RegistryInv, OneInEachProcess
  <2>6. ASSUME together = "never" PROVE OneAfterTheOther'
    <3>1. IntendsNow(w)
      BY <2>6 DEF RegistryInv, OneAfterTheOther
    <3>2. IntendsNow(w)'
      BY <1>1, <1>4, <2>1, <2>3, <3>1 DEF IntendsNow, Intends, Edits, HasEdited, Writing, Coherent
    <3> QED BY <1>4, <2>2, <2>3, <2>6, <3>2, CredentialsStay
  <2> QED BY <1>4, <2>1, <2>2, <2>3, <2>4, <2>5, <2>6, FileStep
<1>5. CASE UnlinkStale(w)
  <2>1. /\ job[w].pc = "unlink" /\ ContinueAt(w, "create") /\ path' = path
        /\ UNCHANGED <<master, minted, saved, together>>
        /\ temp' = [temp EXCEPT ![Temporary(w)] = NoFile]
    BY <1>5 DEF UnlinkStale, keychain
  <2>2. NoFile \in File /\ NoFile.writer = None
    BY DEF NoFile, File, NoEntries, Entries
  <2>3. /\ temp' \in [Processes \X Files -> File] /\ temp'[Temporary(w)].writer = None
        /\ \A c \in (Processes \X Files) \ {Temporary(w)} : temp'[c] = temp[c]
    BY <1>1, <1>2, <2>1, <2>2 DEF RegistryTypeOK
  <2>4. job'[w].file = job[w].file /\ job'[w].pc = "create"
    BY <1>1, <2>1, Onward DEF Steps, Writing
  <2>5. OwnsTemporary(w)'
    BY <2>3, <2>4 DEF OwnsTemporary, Free, Temporary
  <2> QED BY <1>1, <1>4, <2>1, <2>3, <2>5 DEF Writing, RegistryTypeOK
<1>6. CASE CreateTemporary(w)
  <2>1. /\ job[w].pc = "create" /\ path' = path
        /\ UNCHANGED <<master, minted, saved, together>>
    BY <1>6 DEF CreateTemporary, keychain
  <2>2. CASE ~Free(Temporary(w))
    <3>1. Answer(w, "file exists") /\ temp' = temp
      BY <1>6, <2>2 DEF CreateTemporary
    <3>2. RegistryTypeOK'
      BY <1>1, <2>1, <3>1 DEF RegistryTypeOK
    <3> QED BY <2>1, <3>1, <3>2, AnswersAreQuiet DEF Replies
  <2>3. CASE Free(Temporary(w))
    <3> DEFINE new == [writer |-> w, doc |-> Payload(w), whole |-> FALSE]
    <3>1. ContinueAt(w, "write") /\ temp' = [temp EXCEPT ![Temporary(w)] = new]
      BY <1>6, <2>3 DEF CreateTemporary
    <3>2. new \in File /\ new.doc \in DocumentsOf(job[w].file)
      BY <1>3 DEF File
    <3>3. /\ temp' \in [Processes \X Files -> File] /\ temp'[Temporary(w)] = new
          /\ \A c \in (Processes \X Files) \ {Temporary(w)} : temp'[c] = temp[c]
      BY <1>1, <1>2, <3>1, <3>2 DEF RegistryTypeOK
    <3>4. /\ job'[w].file = job[w].file /\ job'[w].pc = "write"
          /\ job'[w].doc = job[w].doc /\ job'[w].settings = job[w].settings
      BY <1>1, <3>1, Onward DEF Steps, Writing
    <3>5. Temporary(w)' = Temporary(w) /\ Payload(w)' = Payload(w)
      BY <3>4 DEF Temporary, Payload
    <3>6. OwnsTemporary(w)'
      BY <3>3, <3>4, <3>5 DEF OwnsTemporary
    <3> QED BY <1>1, <1>4, <2>1, <3>1, <3>2, <3>3, <3>6 DEF Writing, RegistryTypeOK
  <2> QED BY <2>2, <2>3
<1>7. CASE WritePayload(w)
  <2>1. /\ job[w].pc = "write" /\ ContinueAt(w, "replace")
        /\ UNCHANGED <<master, minted, saved, together>>
    BY <1>7 DEF WritePayload, keychain
  <2>2. /\ path' \in [Files -> File]
        /\ \A f \in Files : path'[f].doc = path[f].doc /\ (path[f].whole => path'[f].whole)
    <3>1. \A f \in Files : path[f] \in File
      BY <1>1 DEF RegistryTypeOK
    <3>2. \A f \in Files : [path[f] EXCEPT !.whole = TRUE] \in File
      BY <3>1 DEF File
    <3>3. path' = [f \in Files |->
             IF f = job[w].file /\ path[f].writer = w
             THEN [path[f] EXCEPT !.whole = TRUE] ELSE path[f]]
      BY <1>7 DEF WritePayload
    <3> QED BY <3>1, <3>2, <3>3 DEF File
  <2>3. /\ temp' \in [Processes \X Files -> File]
        /\ \A c \in (Processes \X Files) \ {Temporary(w)} : temp'[c] = temp[c]
        /\ temp'[Temporary(w)] = IF temp[Temporary(w)].writer = w
                                 THEN [temp[Temporary(w)] EXCEPT !.whole = TRUE]
                                 ELSE temp[Temporary(w)]
    <3>1. \A c \in Processes \X Files : temp[c] \in File
      BY <1>1 DEF RegistryTypeOK
    <3>2. \A c \in Processes \X Files : [temp[c] EXCEPT !.whole = TRUE] \in File
      BY <3>1 DEF File
    <3>3. temp' = [c \in Processes \X Files |->
             IF c = Temporary(w) /\ temp[c].writer = w
             THEN [temp[c] EXCEPT !.whole = TRUE] ELSE temp[c]]
      BY <1>1, <1>7 DEF WritePayload, RegistryTypeOK
    <3> QED BY <1>2, <3>1, <3>2, <3>3
  <2>4. /\ temp'[Temporary(w)].doc = temp[Temporary(w)].doc
        /\ temp'[Temporary(w)].writer = temp[Temporary(w)].writer
    BY <1>2, <2>3 DEF File
  <2>5. /\ job'[w].file = job[w].file /\ job'[w].pc = "replace"
        /\ job'[w].doc = job[w].doc /\ job'[w].settings = job[w].settings
    BY <1>1, <2>1, Onward DEF Steps, Writing
  <2>6. Temporary(w)' = Temporary(w) /\ Payload(w)' = Payload(w)
    BY <2>5 DEF Temporary, Payload
  <2>7. ASSUME together # "in one process" PROVE OwnsTemporary(w)'
    <3>1. temp[Temporary(w)].writer = w /\ temp[Temporary(w)].doc = Payload(w)
      BY <2>1, <2>7 DEF RegistryInv, OneInEachProcess, OwnsTemporary
    <3>2. temp'[Temporary(w)].whole
      BY <1>2, <2>3, <3>1 DEF File
    <3> QED BY <2>4, <2>5, <2>6, <3>1, <3>2 DEF OwnsTemporary
  <2> QED BY <1>2, <1>4, <2>1, <2>2, <2>3, <2>4, <2>7 DEF Writing
<1> QED BY <1>5, <1>6, <1>7

\* The document a request wrote is the one it meant to, while nobody else of its
\* process is under way.
LEMMA ReplaceFileKeeps ==
  ASSUME RegistryAssumption, RegistryInv, NEW w \in Workers, ReplaceFile(w)
  PROVE  /\ RegistryInv'
         /\ together = "never" /\ job[w].file = "credentials" /\ job'[w].pc = "cleanup" =>
               Keyring' = job[w].doc
<1>1. RegistryTyped /\ RegistryTypeOK /\ Coherent(job[w]) /\ job[w] \in Job
  BY DEF RegistryInv, RegistryTyped
<1>2. /\ Temporary(w) \in Processes \X Files /\ temp[Temporary(w)] \in File
      /\ temp[Temporary(w)].writer # None =>
            temp[Temporary(w)].doc \in DocumentsOf(job[w].file)
  BY <1>1, TemporaryIsThere
<1>3. job[w].pc = "replace" /\ UNCHANGED <<master, minted, saved, together>>
  BY DEF ReplaceFile, keychain
<1>4. CASE Free(Temporary(w))
  <2>1. Answer(w, "file not found") /\ path' = path /\ temp' = temp
    BY <1>4 DEF ReplaceFile, files
  <2>2. RegistryTypeOK'
    BY <1>1, <1>3, <2>1 DEF RegistryTypeOK
  <2>3. job'[w].pc = "answered"
    BY <1>1, <2>1 DEF Answer, RegistryTyped, Job
  <2> QED BY <1>3, <2>1, <2>2, <2>3, AnswersAreQuiet DEF Replies
<1>5. CASE ~Free(Temporary(w))
  <2>1. /\ ContinueAt(w, "cleanup")
        /\ path' = [path EXCEPT ![job[w].file] = temp[Temporary(w)]]
        /\ temp' = [temp EXCEPT ![Temporary(w)] = NoFile]
    BY <1>5 DEF ReplaceFile
  <2>2. NoFile \in File /\ NoFile.writer = None
    BY DEF NoFile, File, NoEntries, Entries
  <2>3. /\ temp' \in [Processes \X Files -> File] /\ temp'[Temporary(w)].writer = None
        /\ \A c \in (Processes \X Files) \ {Temporary(w)} : temp'[c] = temp[c]
    BY <1>1, <1>2, <2>1, <2>2 DEF RegistryTypeOK
  <2>4. /\ job' \in [Workers -> Job] /\ \A v \in Workers \ {w} : job'[v] = job[v]
        /\ job'[w].pc = "cleanup" /\ job'[w].request = job[w].request
        /\ job'[w].file = job[w].file /\ job'[w].key = job[w].key /\ job'[w].doc = job[w].doc
        /\ job'[w].settings = job[w].settings /\ job'[w].answer = job[w].answer
    BY <1>1, <2>1, Onward DEF Steps, Writing
  <2>5. Proceeds(w)
    BY <1>1, <1>3, <2>4 DEF Proceeds, Coherent, Writing
  <2>6. job[w].file \in Files /\ path' \in [Files -> File]
    BY <1>1, <1>2, <2>1 DEF RegistryTypeOK, Job
  <2>7. \A f \in Files : path'[f].doc \in DocumentsOf(f)
    BY <1>1, <1>2, <1>5, <2>1, <2>6 DEF RegistryTyped, RegistryTypeOK, Free
  <2>8. RegistryTypeOK'
    BY <1>1, <1>3, <2>3, <2>6 DEF RegistryTypeOK
  <2>9. ASSUME together # "in one process"
        PROVE  /\ \A f \in Files : path'[f].whole
               /\ path'[job[w].file].doc = Payload(w)
               /\ \A f \in Files \ {job[w].file} : path'[f] = path[f]
    BY <1>1, <1>3, <2>1, <2>6, <2>9
       DEF RegistryInv, OneInEachProcess, OwnsTemporary, RegistryTypeOK
  <2>10. OwnsTemporary(w)'
    BY <2>4 DEF OwnsTemporary
  <2>11. ASSUME together = "never" PROVE OneAfterTheOther'
    <3>1. IntendsNow(w) /\ OneAfterTheOther
      BY <2>11 DEF RegistryInv, OneAfterTheOther
    <3>2. CASE job[w].file = "settings"
      <4>1. Keyring' = Keyring
        BY <2>9, <2>11, <3>2 DEF Keyring, Files
      <4>2. IntendsNow(w)'
        BY <1>1, <1>3, <2>4, <3>1, <3>2, <4>1
           DEF IntendsNow, Intends, Edits, HasEdited, Writing, Coherent
      <4> QED BY <1>3, <2>5, <2>11, <4>1, <4>2, CredentialsStay
    <3>3. CASE job[w].file = "credentials"
      <4> DEFINE o == job[w].request
      <4>1. Keyring' = job[w].doc
        BY <2>9, <2>11, <3>3 DEF Keyring, Payload
      <4>2. o \in Operations /\ o.op \in {"set_key", "clear_key"} /\ o.provider \in Providers
        BY <1>1, <1>3, <3>3, OperationShape DEF Coherent, Writing
      <4>3. /\ Keyring' = [Keyring EXCEPT ![o.provider] =
                               IF o.op = "set_key" THEN Stored(o, master) ELSE None]
            /\ saved[o.provider] = None /\ (o.op = "set_key" => master # 0)
        BY <1>3, <3>1, <3>3, <4>1, <4>2 DEF IntendsNow, Intends, Edits, Writing, Concerns
      <4>4. Keyring \in Entries
        BY <1>1, KeyringType
      <4>5. /\ Keyring'[o.provider] = IF o.op = "set_key" THEN Stored(o, master) ELSE None
            /\ \A p \in Providers \ {o.provider} : Keyring'[p] = Keyring[p]
        BY <4>2, <4>3, <4>4 DEF Entries
      <4>6. EntriesOpen' /\ AcknowledgedKeysStay'
        BY <1>3, <3>1, <4>3, <4>5
           DEF OneAfterTheOther, EntriesOpen, AcknowledgedKeysStay, Keyring, Stored
      <4>7. (\A p \in Providers : Keyring[p] # None => Keyring[p].under # 0)'
        BY <3>1, <4>3, <4>5 DEF OneAfterTheOther, Stored
      <4>8. IntendsNow(w)'
        BY <1>1, <1>3, <2>4, <3>1, <3>3, <4>5
           DEF IntendsNow, Intends, Edits, HasEdited, Writing, Coherent
      <4>9. (\A v, u \in Busy : v = u)' /\ (\A v \in Workers : IntendsNow(v))'
        BY <1>1, <1>3, <2>5, <3>1, <4>8, OnlyOneBusy
      <4> QED BY <4>6, <4>7, <4>9 DEF OneAfterTheOther
    <3> QED BY <1>1, <3>2, <3>3 DEF Job, Files
  <2>12. together = "never" /\ job[w].file = "credentials" => Keyring' = job[w].doc
    BY <2>9 DEF Keyring, Payload
  <2> QED BY <1>3, <2>3, <2>4, <2>5, <2>7, <2>8, <2>9, <2>10, <2>11, <2>12, FileStep
<1> QED BY <1>4, <1>5

LEMMA CleanupKeeps ==
  ASSUME RegistryAssumption, RegistryInv, NEW w \in Workers, Cleanup(w)
  PROVE  RegistryInv'
<1>1. RegistryTyped /\ RegistryTypeOK /\ Coherent(job[w]) /\ job[w] \in Job
  BY DEF RegistryInv, RegistryTyped
<1>2. Temporary(w) \in Processes \X Files
  BY <1>1, TemporaryIsThere
<1>3. /\ job[w].pc = "cleanup" /\ UNCHANGED <<master, minted, saved, together, path>>
      /\ temp' = [temp EXCEPT ![Temporary(w)] = NoFile]
  BY DEF Cleanup, keychain
<1>4. NoFile \in File /\ NoFile.writer = None
  BY DEF NoFile, File, NoEntries, Entries
<1>5. /\ temp' \in [Processes \X Files -> File] /\ temp'[Temporary(w)].writer = None
      /\ \A c \in (Processes \X Files) \ {Temporary(w)} : temp'[c] = temp[c]
  BY <1>1, <1>2, <1>3, <1>4 DEF RegistryTypeOK
<1>6. /\ job' \in [Workers -> Job] /\ \A v \in Workers \ {w} : job'[v] = job[v]
      /\ job'[w].request = job[w].request
      /\ job'[w].file = job[w].file /\ job'[w].key = job[w].key /\ job'[w].doc = job[w].doc
      /\ job'[w].settings = job[w].settings
      /\ \/ job'[w].pc = "answered" /\ job'[w].answer = "ok"
         \/ /\ job'[w].pc = IF job[w].request.op = "set_key" THEN "verify" ELSE "load"
            /\ job'[w].answer = job[w].answer /\ job[w].file = "credentials"
  <2>1. CASE Answer(w, "ok")
    BY <1>1, <2>1 DEF Answer, RegistryTyped, Job, Replies, Steps
  <2>2. CASE job[w].file # "settings" /\ ContinueAt(w, "verify") /\ job[w].request.op = "set_key"
    BY <1>1, <2>2, Onward DEF Steps, Job, Files
  <2>3. CASE job[w].file # "settings" /\ ContinueAt(w, "load") /\ job[w].request.op # "set_key"
    BY <1>1, <2>3, Onward DEF Steps, Job, Files
  <2> QED BY <2>1, <2>2, <2>3 DEF Cleanup
<1>7. Proceeds(w)
  BY <1>1, <1>3, <1>6 DEF Proceeds, Coherent, Writing
<1>8. RegistryTypeOK' /\ Keyring' = Keyring
  BY <1>1, <1>3, <1>5 DEF RegistryTypeOK, Keyring
<1>9. \A f \in Files : path'[f].doc \in DocumentsOf(f)
  BY <1>1, <1>3 DEF RegistryTyped
<1>10. together # "in one process" => (\A f \in Files : path'[f].whole) /\ OwnsTemporary(w)'
  BY <1>3, <1>6 DEF RegistryInv, OneInEachProcess, OwnsTemporary
<1>11. ASSUME together = "never" PROVE OneAfterTheOther'
  <2>1. IntendsNow(w)
    BY <1>11 DEF RegistryInv, OneAfterTheOther
  <2>2. IntendsNow(w)'
    BY <1>1, <1>3, <1>6, <1>8, <2>1 DEF IntendsNow, Intends, Edits, HasEdited, Writing, Coherent
  <2> QED BY <1>3, <1>7, <1>8, <1>11, <2>2, CredentialsStay
<1> QED BY <1>3, <1>5, <1>6, <1>7, <1>8, <1>9, <1>10, <1>11, FileStep

(***************************************************************************)
(* Requests and servers come and go.                                        *)
(***************************************************************************)

LEMMA IdleIsCoherent ==
  Idle \in Job /\ Coherent(Idle) /\ Idle.pc = "idle" /\ Idle.answer = "none"
<1>1. Idle \in Job
  BY DEF Idle, Job, Steps, Files, NoEntries, Entries, NoSettings, ModelSettings,
         Replies, NoOperation
<1> QED BY <1>1 DEF Idle, Coherent, Writing, NoSettings

LEMMA IdleIntendsNothing ==
  ASSUME NEW w \in Workers, job[w].pc = "idle", job[w].answer = "none"
  PROVE  IntendsNow(w)
BY DEF IntendsNow, Intends, Edits, HasEdited, Writing

LEMMA BeginKeeps ==
  ASSUME RegistryAssumption, RegistryInv, NEW w \in Workers, NEW o \in Operations, Begin(w, o)
  PROVE  RegistryInv'
<1>1. RegistryTyped /\ RegistryTypeOK /\ job[w].pc = "idle"
  BY DEF RegistryInv, RegistryTyped, Begin
<1>2. /\ UNCHANGED <<master, minted, path, temp>> /\ together' = Closeness(w)
      /\ saved' = [p \in Providers |-> IF Concerns(o, p) THEN None ELSE saved[p]]
  BY DEF Begin, keychain, files
<1>3. /\ job' \in [Workers -> Job] /\ \A v \in Workers \ {w} : job'[v] = job[v]
      /\ job'[w].pc \in {"ensure_master", "entries", "load"}
      /\ job'[w].pc = "ensure_master" <=> o.op = "set_key"
      /\ job'[w].pc = "entries" => o.op \in {"clear_key", "resolve_key"}
      /\ job'[w].pc = "load" => o.op \in {"set_enabled_models", "set_default_model"}
      /\ job'[w].request = o /\ job'[w].file = "credentials"
      /\ job'[w].settings = NoSettings /\ job'[w].answer = "none"
  <2> DEFINE pc == CASE o.op = "set_key" -> "ensure_master"
                     [] o.op \in {"clear_key", "resolve_key"} -> "entries"
                     [] OTHER -> "load"
             new == [pc |-> pc, file |-> "credentials", key |-> 0, doc |-> NoEntries,
                     settings |-> NoSettings, answer |-> "none", request |-> o]
  <2>1. /\ pc \in {"ensure_master", "entries", "load"}
        /\ pc = "ensure_master" <=> o.op = "set_key"
        /\ pc = "entries" => o.op \in {"clear_key", "resolve_key"}
        /\ pc = "load" => o.op \in {"set_enabled_models", "set_default_model"}
    BY OperationShape
  <2>2. job' = [job EXCEPT ![w] = new]
    BY DEF Begin
  <2> HIDE DEF pc
  <2>3. new \in Job
    BY <2>1 DEF Job, Steps, Files, NoEntries, Entries, NoSettings, ModelSettings, Replies
  <2> QED BY <1>1, <2>1, <2>2, <2>3 DEF RegistryTyped
<1>4. Coherent(job'[w])
  BY <1>3 DEF Coherent, NoSettings, Writing
<1>5. RegistryTyped'
  <2>1. RegistryTypeOK'
    BY <1>1, <1>2 DEF RegistryTypeOK, Closeness
  <2> QED BY <1>1, <1>2, <1>3, <1>4, <2>1 DEF RegistryTyped, Free
<1>6. ASSUME together' # "in one process" PROVE OneInEachProcess'
  <2>1. /\ together # "in one process"
        /\ \A v \in Busy : ProcessOfWorker[v] # ProcessOfWorker[w]
    BY <1>2, <1>6 DEF Closeness
  <2>2. OneInEachProcess
    BY <2>1 DEF RegistryInv
  <2>3. Busy' \subseteq Busy \cup {w}
    BY <1>3 DEF Busy
  <2>4. (\A v, u \in Busy : ProcessOfWorker[v] = ProcessOfWorker[u] => v = u)'
    BY <2>1, <2>2, <2>3 DEF OneInEachProcess
  <2>5. ASSUME NEW v \in Workers PROVE OwnsTemporary(v)'
    <3>1. CASE v = w
      BY <1>3, <3>1 DEF OwnsTemporary
    <3>2. CASE v # w
      BY <1>2, <1>3, <2>2, <3>2 DEF OneInEachProcess, OwnsTemporary, Temporary, Payload, Free
    <3> QED BY <3>1, <3>2
  <2> QED BY <1>2, <2>2, <2>4, <2>5 DEF OneInEachProcess
<1>7. ASSUME together' = "never" PROVE OneAfterTheOther'
  <2>1. together = "never" /\ Busy = {}
    BY <1>2, <1>7 DEF Closeness
  <2>2. OneAfterTheOther
    BY <2>1 DEF RegistryInv
  <2>3. Busy' \subseteq {w}
    BY <1>3, <2>1 DEF Busy
  <2>4. ASSUME NEW v \in Workers PROVE IntendsNow(v)'
    <3>1. CASE v = w
      <4>1. \A p \in Providers : Concerns(o, p) => saved'[p] = None
        BY <1>2
      <4> QED BY <1>3, <3>1, <4>1 DEF IntendsNow, Intends, Edits, HasEdited, Writing
    <3>2. CASE v # w
      <4>1. job'[v].pc = "idle" /\ job'[v].answer = "none"
        BY <1>1, <1>3, <2>1, <3>2 DEF Busy, RegistryTyped, Coherent
      <4> QED BY <4>1 DEF IntendsNow, Intends, Edits, HasEdited, Writing
    <3> QED BY <3>1, <3>2
  <2>5. EntriesOpen' /\ AcknowledgedKeysStay'
    BY <1>2, <2>2 DEF OneAfterTheOther, EntriesOpen, AcknowledgedKeysStay
  <2>6. (\A p \in Providers : Keyring[p] # None => Keyring[p].under # 0)'
    BY <1>2, <2>2 DEF OneAfterTheOther, Keyring
  <2>7. (\A v, u \in Busy : v = u)'
    BY <2>3
  <2>8. (\A v \in Workers : IntendsNow(v))'
    BY <2>4
  <2> QED BY <2>5, <2>6, <2>7, <2>8 DEF OneAfterTheOther
<1> QED BY <1>5, <1>6, <1>7 DEF RegistryInv

LEMMA ReportKeeps ==
  ASSUME RegistryAssumption, RegistryInv, NEW w \in Workers, Report(w)
  PROVE  RegistryInv'
<1>1. RegistryTyped /\ RegistryTypeOK /\ Coherent(job[w])
  BY DEF RegistryInv, RegistryTyped
<1>2. /\ job[w].pc = "answered" /\ UNCHANGED <<master, minted, path, temp, together>>
      /\ job' = [job EXCEPT ![w] = Idle]
      /\ saved' = IF job[w].answer = "ok" THEN Acknowledged(w) ELSE saved
  BY DEF Report, keychain, files
<1>3. /\ job' \in [Workers -> Job] /\ \A v \in Workers \ {w} : job'[v] = job[v]
      /\ job'[w] = Idle
  BY <1>1, <1>2, IdleIsCoherent DEF RegistryTyped
<1>4. Proceeds(w)
  BY <1>3, IdleIsCoherent DEF Proceeds
<1>5. \/ saved' = saved
      \/ /\ job[w].answer = "ok" /\ job[w].request.op = "set_key"
         /\ saved' = [saved EXCEPT ![job[w].request.provider] = job[w].request.key]
  BY <1>2 DEF Acknowledged
<1>6. /\ job[w].request \in Operations
      /\ job[w].request.op = "set_key" =>
            job[w].request.provider \in Providers /\ job[w].request.key \in Keys
  BY <1>1, <1>2, OperationShape DEF Coherent
<1>7. RegistryTypeOK'
  BY <1>1, <1>2, <1>5, <1>6 DEF RegistryTypeOK
<1>8. RegistryTyped' /\ (together # "in one process" => OneInEachProcess)'
  BY <1>2, <1>3, <1>4, <1>7, IdleIsCoherent, QuietStepKeepsFiles
<1>9. ASSUME together = "never" PROVE OneAfterTheOther'
  <2>1. OneAfterTheOther /\ IntendsNow(w)
    BY <1>9 DEF RegistryInv, OneAfterTheOther
  <2>2. IntendsNow(w)'
    BY <1>3, IdleIsCoherent DEF IntendsNow, Intends, Edits, HasEdited, Writing
  <2>3. (\A v, u \in Busy : v = u)' /\ (\A v \in Workers : IntendsNow(v))'
    BY <1>1, <1>2, <1>4, <2>1, <2>2, OnlyOneBusy
  <2>4. AcknowledgedKeysStay'
    BY <1>1, <1>2, <1>5, <1>6, <2>1
       DEF OneAfterTheOther, IntendsNow, Intends, HasEdited, AcknowledgedKeysStay, Stored,
           Keyring, RegistryTypeOK
  <2>5. EntriesOpen' /\ (\A p \in Providers : Keyring[p] # None => Keyring[p].under # 0)'
    BY <1>2, <2>1 DEF OneAfterTheOther, EntriesOpen, Keyring
  <2> QED BY <2>3, <2>4, <2>5 DEF OneAfterTheOther
<1> QED BY <1>2, <1>8, <1>9 DEF RegistryInv

LEMMA ServerDiesKeeps ==
  ASSUME RegistryAssumption, RegistryInv, NEW c \in Processes, ServerDies(c)
  PROVE  RegistryInv'
<1>1. RegistryTyped /\ RegistryTypeOK
  BY DEF RegistryInv, RegistryTyped
<1>2. /\ UNCHANGED <<master, minted, path, temp, saved, together>>
      /\ job' = [w \in Workers |-> IF ProcessOfWorker[w] = c THEN Idle ELSE job[w]]
  BY DEF ServerDies, keychain, files
<1>3. /\ job' \in [Workers -> Job]
      /\ \A w \in Workers : job'[w] = Idle \/ job'[w] = job[w]
  BY <1>1, <1>2, IdleIsCoherent DEF RegistryTyped
<1>4. \A w \in Workers : Coherent(job'[w])
  BY <1>1, <1>3, IdleIsCoherent DEF RegistryTyped
<1>5. RegistryTyped'
  BY <1>1, <1>2, <1>3, <1>4 DEF RegistryTyped, RegistryTypeOK, Free
<1>6. Busy' \subseteq Busy
  BY <1>3, IdleIsCoherent DEF Busy
<1>7. ASSUME together # "in one process" PROVE OneInEachProcess'
  <2>1. OneInEachProcess
    BY <1>7 DEF RegistryInv
  <2>2. ASSUME NEW w \in Workers PROVE OwnsTemporary(w)'
    <3>1. CASE job'[w] = Idle
      BY <3>1, IdleIsCoherent DEF OwnsTemporary
    <3>2. CASE job'[w] = job[w]
      BY <1>2, <2>1, <3>2 DEF OneInEachProcess, OwnsTemporary, Temporary, Payload, Free
    <3> QED BY <1>3, <3>1, <3>2
  <2> QED BY <1>2, <1>6, <2>1, <2>2 DEF OneInEachProcess
<1>8. ASSUME together = "never" PROVE OneAfterTheOther'
  <2>1. OneAfterTheOther
    BY <1>8 DEF RegistryInv
  <2>2. ASSUME NEW w \in Workers PROVE IntendsNow(w)'
    <3>1. CASE job'[w] = Idle
      BY <3>1, IdleIsCoherent DEF IntendsNow, Intends, Edits, HasEdited, Writing
    <3>2. CASE job'[w] = job[w]
      BY <1>2, <2>1, <3>2 DEF OneAfterTheOther, IntendsNow, Keyring
    <3> QED BY <1>3, <3>1, <3>2
  <2>3. EntriesOpen' /\ AcknowledgedKeysStay'
        /\ (\A p \in Providers : Keyring[p] # None => Keyring[p].under # 0)'
    BY <1>2, <2>1 DEF OneAfterTheOther, EntriesOpen, AcknowledgedKeysStay, Keyring
  <2> QED BY <1>6, <2>1, <2>2, <2>3 DEF OneAfterTheOther
<1> QED BY <1>2, <1>5, <1>7, <1>8 DEF RegistryInv

(***************************************************************************)
(* The theorem.                                                             *)
(***************************************************************************)

LEMMA RegistryStarts ==
  ASSUME RegistryAssumption, RegistryInit
  PROVE  RegistryInv
<1>1. /\ NoFile \in File /\ NoFile.writer = None
      /\ \A f \in Files : Absent(f) \in File /\ Absent(f).doc \in DocumentsOf(f) /\ Absent(f).whole
  BY DEF NoFile, Absent, File, NoEntries, Entries, NoSettings, ModelSettings, DocumentsOf, Files
<1>2. RegistryTypeOK
  BY <1>1 DEF RegistryInit, RegistryTypeOK, RegistryAssumption
<1>3. job \in [Workers -> Job] /\ \A w \in Workers : job[w] = Idle
  BY IdleIsCoherent DEF RegistryInit
<1>4. RegistryTyped
  BY <1>1, <1>2, <1>3, IdleIsCoherent DEF RegistryInit, RegistryTyped, Free
<1>5. Busy = {}
  BY <1>3, IdleIsCoherent DEF Busy
<1>6. OneInEachProcess
  BY <1>1, <1>3, <1>5, IdleIsCoherent DEF RegistryInit, OneInEachProcess, OwnsTemporary
<1>7. \A p \in Providers : Keyring[p] = None /\ saved[p] = None
  BY DEF RegistryInit, Keyring, Absent, NoEntries, Files
<1>8. \A w \in Workers : IntendsNow(w)
  BY <1>3, IdleIsCoherent, IdleIntendsNothing
<1>9. OneAfterTheOther
  BY <1>5, <1>7, <1>8 DEF OneAfterTheOther, EntriesOpen, AcknowledgedKeysStay, Keyring
<1> QED BY <1>4, <1>6, <1>9 DEF RegistryInv

LEMMA RegistryStepKeeps ==
  ASSUME RegistryAssumption, RegistryInv, [RegistryNext]_registryVars
  PROVE  RegistryInv'
<1>1. ASSUME NEW w \in Workers, NEW o \in Operations, Begin(w, o) PROVE RegistryInv'
  BY <1>1, BeginKeeps
<1>2. ASSUME NEW w \in Workers, Step(w) PROVE RegistryInv'
  BY <1>2, MasterKeysKeep, ReadEntriesKeeps, UnsealKeeps, VerifyKeeps, LoadSettingsKeeps,
     StoreSettingsKeeps, WritingKeeps, ReplaceFileKeeps, CleanupKeeps, ReportKeeps DEF Step
<1>3. ASSUME NEW c \in Processes, ServerDies(c) PROVE RegistryInv'
  BY <1>3, ServerDiesKeeps
<1>4. CASE UNCHANGED registryVars
  BY <1>4 DEF registryVars, RegistryInv, RegistryTyped, RegistryTypeOK, OneInEachProcess,
              OneAfterTheOther, Free, OwnsTemporary, Temporary, Payload, EntriesOpen,
              AcknowledgedKeysStay, Keyring, IntendsNow, Busy
<1> QED BY <1>1, <1>2, <1>3, <1>4 DEF RegistryNext

\* What the invariant says to callers.
LEMMA RegistryPromises ==
  ASSUME RegistryAssumption, RegistryInv
  PROVE  /\ RegistryTypeOK
         /\ DocumentsAreWhole
         /\ DefaultIsEnabled
         /\ together = "never" =>
               EntriesOpen /\ AcknowledgedKeysStay /\ EnvironmentNeverShadows
<1>1. RegistryTyped /\ RegistryTypeOK
  BY DEF RegistryInv, RegistryTyped
<1>2. DocumentsAreWhole
  BY DEF RegistryInv, OneInEachProcess, DocumentsAreWhole
<1>3. DefaultIsEnabled
  <2>1. path["settings"].doc \in DocumentsOf("settings")
    BY <1>1 DEF RegistryTyped, Files
  <2> QED BY <2>1 DEF DocumentsOf, DefaultIsEnabled
<1>4. ASSUME together = "never" PROVE EnvironmentNeverShadows
  <2>1. OneAfterTheOther
    BY <1>4 DEF RegistryInv
  <2>2. ASSUME NEW w \in Workers, job[w].answer = "environment"
        PROVE  saved[job[w].request.provider] = None
    <3>1. Coherent(job[w]) /\ IntendsNow(w)
      BY <1>1, <2>1 DEF RegistryTyped, OneAfterTheOther
    <3>2. /\ job[w].request.op = "resolve_key" /\ Keyring[job[w].request.provider] = None
          /\ job[w].request \in Operations
      BY <2>2, <3>1 DEF Coherent, IntendsNow, Intends
    <3>3. job[w].request.provider \in Providers
      BY <3>2, OperationShape
    <3> QED BY <1>1, <2>1, <3>2, <3>3, AcknowledgedIsThere DEF OneAfterTheOther
  <2> QED BY <2>2 DEF EnvironmentNeverShadows
<1>5. together = "never" => EntriesOpen /\ AcknowledgedKeysStay
  BY DEF RegistryInv, OneAfterTheOther
<1> QED BY <1>1, <1>2, <1>3, <1>4, <1>5

\* A step of one request is no step of another, and a file is replaced by
\* ReplaceFile alone.
LEMMA ReplacingIsReplaceFile ==
  ASSUME RegistryTyped, NEW w \in Workers, RegistryNext,
         job[w].pc = "replace", job'[w].pc = "cleanup"
  PROVE  ReplaceFile(w)
<1>1. ASSUME NEW v \in Workers, NEW o \in Operations, Begin(v, o) PROVE FALSE
  <2>1. v # w
    BY <1>1 DEF Begin
  <2> QED BY <1>1, <2>1 DEF Begin, RegistryTyped
<1>2. ASSUME NEW v \in Workers, Step(v) PROVE v = w
  <2>1. ASSUME v # w PROVE job'[w] = job[w]
    <3> USE DEF RegistryTyped, Answer, ContinueAt
    <3>1. CASE EnsureMaster(v) \/ MintMaster(v)
      BY <2>1, <3>1 DEF EnsureMaster, MintMaster
    <3>2. CASE ReadEntries(v)
      <4>1. job[v].request.op \in {"set_key", "clear_key", "resolve_key"}
        BY <3>2 DEF ReadEntries, Coherent
      <4> QED BY <2>1, <3>2, <4>1 DEF ReadEntries
    <3>3. CASE Unseal(v) \/ Verify(v)
      BY <2>1, <3>3 DEF Unseal, Verify
    <3>4. CASE LoadSettings(v) \/ StoreSettings(v)
      BY <2>1, <3>4 DEF LoadSettings, StoreSettings
    <3>5. CASE UnlinkStale(v) \/ CreateTemporary(v) \/ WritePayload(v)
      BY <2>1, <3>5 DEF UnlinkStale, CreateTemporary, WritePayload
    <3>6. CASE ReplaceFile(v) \/ Cleanup(v) \/ Report(v)
      BY <2>1, <3>6 DEF ReplaceFile, Cleanup, Report
    <3> QED BY <1>2, <3>1, <3>2, <3>3, <3>4, <3>5, <3>6 DEF Step
  <2> QED BY <2>1
<1>3. ASSUME Step(w) PROVE ReplaceFile(w)
  BY <1>3 DEF Step, EnsureMaster, MintMaster, ReadEntries, Unseal, Verify,
     LoadSettings, StoreSettings, UnlinkStale, CreateTemporary, WritePayload, Cleanup, Report
<1>4. ASSUME NEW c \in Processes, ServerDies(c) PROVE FALSE
  BY <1>4, IdleIsCoherent DEF ServerDies
<1> QED BY <1>1, <1>2, <1>3, <1>4 DEF RegistryNext

\* Other keys are left alone: what is written back differs from the file in one entry.
LEMMA RegistryStepSpares ==
  ASSUME RegistryAssumption, RegistryInv, [RegistryNext]_registryVars,
         NEW w \in Workers, together = "never", job[w].file = "credentials",
         job[w].pc = "replace", job'[w].pc = "cleanup",
         NEW p \in Providers \ {job[w].request.provider}
  PROVE  path'["credentials"].doc[p] = path["credentials"].doc[p]
<1>1. ReplaceFile(w)
  BY ReplacingIsReplaceFile DEF registryVars, RegistryInv
<1>2. Keyring' = job[w].doc
  BY <1>1, ReplaceFileKeeps
<1>3. IntendsNow(w) /\ RegistryTyped
  BY DEF RegistryInv, OneAfterTheOther
<1>4. \E e : job[w].doc = [Keyring EXCEPT ![job[w].request.provider] = e]
  BY <1>3 DEF IntendsNow, Intends, Edits, Writing
<1>5. Keyring \in Entries
  BY <1>3, KeyringType
<1>6. Keyring'[p] = Keyring[p]
  BY <1>2, <1>4, <1>5 DEF Entries
<1> QED BY <1>6 DEF Keyring

\* Whatever the Keychain refuses and whichever server dies, no reader finds a part of a
\* document unless two requests met in one process; while requests come one after
\* the other, acknowledged keys stay and open, and other keys are left alone.
THEOREM KeysAreKeptAlways ==
  ASSUME RegistryAssumption
  PROVE  RegistrySpec => KeysAreKept
<1>1. RegistryInit => RegistryInv
  BY RegistryStarts
<1>2. RegistryInv /\ [RegistryNext]_registryVars => RegistryInv'
  BY RegistryStepKeeps
<1>3. RegistryInv =>
        /\ RegistryTypeOK /\ DocumentsAreWhole /\ DefaultIsEnabled
        /\ together = "never" => EntriesOpen /\ AcknowledgedKeysStay /\ EnvironmentNeverShadows
  BY RegistryPromises
<1>4. RegistryInv /\ [RegistryNext]_registryVars =>
        [\A w \in Workers :
            together = "never" /\ job[w].file = "credentials"
            /\ job[w].pc = "replace" /\ job'[w].pc = "cleanup" =>
                \A p \in Providers \ {job[w].request.provider} :
                    path'["credentials"].doc[p] = path["credentials"].doc[p]]_registryVars
  BY RegistryStepSpares
<1> QED BY <1>1, <1>2, <1>3, <1>4, PTL DEF RegistrySpec, KeysAreKept, OtherEntriesUntouched

(***************************************************************************)
(* The lines of a body.                                                     *)
(***************************************************************************)

\* What a line can be, unless it is blank.
Fields == {"text", "stop", "done", "error", "junk", "comment", "stub"}

Bodies == Seq(Fields \cup {"NL"})

\* A line starts at the beginning of b or after a newline.
LineStarts(b, c) == c \in 0..Len(b) /\ (c = 0 \/ b[c] = "NL")

\* The line after c ends at e.
NextEnd(b, c, e) == /\ e \in Ends(b) /\ c < e
                    /\ \A k \in c + 1..e - 1 : b[k] # "NL"

LEMMA Smallest ==
    ASSUME NEW S \in SUBSET Nat, S # {} PROVE \E m \in S : \A k \in S : m <= k
  <1> DEFINE Less == OpToRel(<, Nat)
  <1>1. IsWellFoundedOn(Less, Nat)
    BY NatLessThanWellFounded
  <1>2. \A k, m \in S : k < m => <<k, m>> \in Less
    BY DEF OpToRel
  <1> HIDE DEF Less
  <1>3. \E m \in S : \A k \in S : ~(<<k, m>> \in Less)
    BY <1>1, WFMin
  <1>4. PICK m \in S : \A k \in S : ~(<<k, m>> \in Less)
    BY <1>3
  <1>5. \A k \in S : ~(k < m)
    BY <1>2, <1>4, Zenon
  <1> QED
    BY <1>5

LEMMA FieldTypes ==
    ASSUME NEW line \in Bodies, \A i \in DOMAIN line : line[i] # "NL"
    PROVE  /\ Field(line) \in Fields \cup {"blank"} /\ (Field(line) = "blank" <=> line = <<>>)
           /\ Field(line) = "done" => Len(line) = 1 /\ line[1] = "done"
  BY DEF Field, Fields, Bodies

LEMMA PartOfBody ==
    ASSUME NEW b \in Bodies, NEW c \in Nat, NEW d \in Nat, c <= d, d <= Len(b)
    PROVE  /\ SubSeq(b, c + 1, d) \in Bodies /\ Len(SubSeq(b, c + 1, d)) = d - c
           /\ \A i \in 1..d - c : SubSeq(b, c + 1, d)[i] = b[c + i]
  BY DEF Bodies

LEMMA SameBodies ==
    ASSUME NEW s \in Bodies, NEW t \in Bodies, NEW n \in Nat, Len(s) = n, Len(t) = n,
           \A i \in 1..n : s[i] = t[i]
    PROVE  s = t
  BY DEF Bodies

\* A line is cut where the newline before it and the one behind it are.
LEMMA LineIsCut ==
    ASSUME NEW b \in Bodies, NEW c, LineStarts(b, c), NEW e, NextEnd(b, c, e)
    PROVE  /\ Line(b, e) = Field(SubSeq(b, c + 1, e - 1))
           /\ Line(b, e) \in Fields \cup {"blank"}
           /\ Line(b, e) = "blank" <=> e = c + 1
           /\ Line(b, e) = "done" => b[c + 1] = "done" /\ e = c + 2
           /\ \A i \in Ends(b) : i <= c \/ e <= i
  <1> DEFINE P(s) == /\ s = 1 \/ b[s - 1] = "NL"
                     /\ \A k \in s..e - 1 : b[k] # "NL"
  <1>0. c \in Nat /\ e \in Nat /\ Len(b) \in Nat /\ e <= Len(b) + 1 /\ c < e
    BY DEF LineStarts, NextEnd, Ends, Bodies
  <1>1. c + 1 \in 1..e /\ P(c + 1)
    BY <1>0 DEF LineStarts, NextEnd, Ends
  <1>2. ASSUME NEW s \in 1..e, P(s) PROVE s = c + 1
    <2>1. CASE s > c + 1
      BY <2>1, <1>0, <1>2, s - 1 \in c + 1..e - 1 DEF NextEnd
    <2>2. CASE s < c + 1
      BY <2>2, <1>0, <1>2, c \in s..e - 1 DEF LineStarts
    <2> QED
      BY <2>1, <2>2, <1>0
  <1>3. (CHOOSE s \in 1..e : P(s)) = c + 1
    BY <1>1, <1>2
  <1>4. Line(b, e) = Field(SubSeq(b, c + 1, e - 1))
    BY <1>3 DEF Line
  <1> HIDE DEF P
  <1>5. /\ SubSeq(b, c + 1, e - 1) \in Bodies
        /\ Len(SubSeq(b, c + 1, e - 1)) = e - 1 - c
        /\ \A i \in 1..e - 1 - c : SubSeq(b, c + 1, e - 1)[i] = b[c + i]
    BY <1>0 DEF Bodies
  <1>6. \A i \in DOMAIN SubSeq(b, c + 1, e - 1) : SubSeq(b, c + 1, e - 1)[i] # "NL"
    BY <1>0, <1>5 DEF NextEnd, Bodies
  <1>7. SubSeq(b, c + 1, e - 1) = <<>> <=> e = c + 1
    BY <1>0, <1>5 DEF Bodies
  <1>8. \A i \in Ends(b) : i <= c \/ e <= i
    BY <1>0 DEF NextEnd, Ends
  <1>9. Line(b, e) = "done" => b[c + 1] = "done" /\ e = c + 2
    <2> DEFINE line == SubSeq(b, c + 1, e - 1)
    <2>1. line \in Bodies /\ \A i \in DOMAIN line : line[i] # "NL"
      BY <1>5, <1>6
    <2>2. Field(line) = "done" => Len(line) = 1 /\ line[1] = "done"
      BY <2>1, FieldTypes
    <2>3. Len(line) = e - 1 - c /\ \A i \in 1..e - 1 - c : line[i] = b[c + i]
      BY <1>5
    <2> HIDE DEF line
    <2>4. Len(line) = 1 => e - 1 - c = 1
      BY <2>3
    <2>5. Len(line) = 1 => line[1] = b[c + 1]
      BY <2>3, <2>4
    <2>6. Len(line) = 1 => e = c + 2
      BY <1>0, <2>4
    <2> QED
      BY <1>4, <2>2, <2>5, <2>6 DEF line
  <1> QED
    BY <1>4, <1>5, <1>6, <1>7, <1>8, <1>9, FieldTypes

(***************************************************************************)
(* The documents of a body, in order.                                       *)
(***************************************************************************)

TurnEnders == {"junk", "error", "done"}

\* The documents that end at h or before.
Taken(a, b, h) == {d \in DocumentEnds(a, b) : d <= h}

LEMMA DocumentsFinite ==
    ASSUME NEW a, NEW b \in Bodies
    PROVE  /\ DocumentEnds(a, b) \subseteq 1..Len(b) + 1
           /\ IsFiniteSet(DocumentEnds(a, b))
           /\ IsFiniteSet(AnswerEnds(a, b)) /\ Cardinality(AnswerEnds(a, b)) \in Nat
           /\ \A h : IsFiniteSet(Taken(a, b, h)) /\ Cardinality(Taken(a, b, h)) \in Nat
  <1>1. DocumentEnds(a, b) \subseteq 1..Len(b) + 1
    BY DEF DocumentEnds, Ends
  <1>2. IsFiniteSet(1..Len(b) + 1)
    BY FS_Interval, Len(b) + 1 \in Int DEF Bodies
  <1>3. IsFiniteSet(DocumentEnds(a, b))
    BY <1>1, <1>2, FS_Subset
  <1>4. ASSUME NEW T \in SUBSET DocumentEnds(a, b)
        PROVE  IsFiniteSet(T) /\ Cardinality(T) \in Nat
    <2>1. IsFiniteSet(T)
      BY <1>3, FS_Subset
    <2> QED
      BY <2>1, FS_CardinalityType
  <1>5. AnswerEnds(a, b) \in SUBSET DocumentEnds(a, b)
    BY DEF AnswerEnds
  <1>6. \A h : Taken(a, b, h) \in SUBSET DocumentEnds(a, b)
    BY DEF Taken
  <1> QED
    BY <1>1, <1>3, <1>4, <1>5, <1>6

LEMMA AnswerShape ==
    ASSUME NEW a, NEW b \in Bodies
    PROVE  LET answer == AnswerOf(a, b)
               n == Cardinality(AnswerEnds(a, b))
           IN  /\ DOMAIN answer = 1..n /\ Len(answer) = n
               /\ answer \in Seq({answer[k] : k \in 1..n})
  <1> DEFINE answer == AnswerOf(a, b)
             n == Cardinality(AnswerEnds(a, b))
  <1>1. n \in Nat
    BY DocumentsFinite
  <1>2. DOMAIN answer = 1..n /\ answer = [k \in DOMAIN answer |-> answer[k]]
    BY DEF AnswerOf
  <1> HIDE DEF answer, n
  <1>3. answer \in [1..n -> {answer[k] : k \in 1..n}]
    BY <1>2
  <1>4. answer \in Seq({answer[k] : k \in 1..n}) /\ Len(answer) = n
    BY <1>1, <1>3
  <1> QED
    BY <1>2, <1>4 DEF answer, n

\* The document that ends at e has its place in the answer.
LEMMA AnswerAt ==
    ASSUME NEW a, NEW b \in Bodies, NEW e \in AnswerEnds(a, b)
    PROVE  /\ Cardinality(Taken(a, b, e)) \in 1..Cardinality(AnswerEnds(a, b))
           /\ AnswerOf(a, b)[Cardinality(Taken(a, b, e))] = DocumentAt(a, b, e)
  <1> DEFINE A == AnswerEnds(a, b)
             Upto(d) == {x \in A : x <= d}
  <1>0. /\ DocumentEnds(a, b) \subseteq 1..Len(b) + 1
        /\ IsFiniteSet(A) /\ Cardinality(A) \in Nat
        /\ \A h : IsFiniteSet(Taken(a, b, h)) /\ Cardinality(Taken(a, b, h)) \in Nat
    BY DocumentsFinite
  <1>1. A \subseteq Nat /\ IsFiniteSet(A) /\ Cardinality(A) \in Nat
    BY <1>0, Len(b) \in Nat DEF AnswerEnds, Bodies
  <1>2. \A d \in A : Upto(d) = Taken(a, b, d)
    BY <1>0, Len(b) \in Nat DEF AnswerEnds, Taken, Bodies
  <1>3. \A d \in A : IsFiniteSet(Upto(d)) /\ Cardinality(Upto(d)) \in Nat
    BY <1>0, <1>2
  <1>4. ASSUME NEW d \in A, Cardinality(Upto(d)) = Cardinality(Upto(e)) PROVE d = e
    <2>1. CASE d < e
      <3>1. Upto(d) \in SUBSET Upto(e) /\ e \in Upto(e) /\ e \notin Upto(d)
        BY <2>1, <1>1
      <3> QED
        BY <3>1, <1>3, <1>4, FS_Subset
    <2>2. CASE e < d
      <3>1. Upto(e) \in SUBSET Upto(d) /\ d \in Upto(d) /\ d \notin Upto(e)
        BY <2>2, <1>1
      <3> QED
        BY <3>1, <1>3, <1>4, FS_Subset
    <2> QED
      BY <2>1, <2>2, <1>1
  <1>5. (CHOOSE d \in A : Cardinality(Upto(d)) = Cardinality(Upto(e))) = e
    BY <1>4
  <1>6. Cardinality(Upto(e)) \in 1..Cardinality(A)
    <2>1. Upto(e) \in SUBSET A /\ e \in Upto(e)
      BY <1>1
    <2>2. Cardinality(Upto(e)) <= Cardinality(A)
      BY <2>1, <1>1, FS_Subset
    <2>3. Cardinality(Upto(e)) # 0
      BY <2>1, <1>3, FS_EmptySet
    <2> QED
      BY <2>2, <2>3, <1>1, <1>3
  <1>7. AnswerOf(a, b) = [k \in 1..Cardinality(A) |->
            DocumentAt(a, b, CHOOSE d \in A : Cardinality(Upto(d)) = k)]
    BY DEF AnswerOf
  <1> QED
    BY <1>2, <1>5, <1>6, <1>7

(***************************************************************************)
(* What was absorbed of a body.                                             *)
(***************************************************************************)

\* The documents of b up to h are fs, and none of them ends the turn.
AbsorbedBy(a, b, fs, h) ==
    /\ Len(fs) = Cardinality(Taken(a, b, h))
    /\ \A d \in Taken(a, b, h) : DocumentAt(a, b, d) \notin TurnEnders
    /\ \A k \in DOMAIN fs : \E d \in Taken(a, b, h) :
          Cardinality(Taken(a, b, d)) = k /\ fs[k] = DocumentAt(a, b, d)

LEMMA AbsorbedIsPrefix ==
    ASSUME NEW a, NEW b \in Bodies, NEW fs \in Seq(Frames), NEW h \in Nat,
           AbsorbedBy(a, b, fs, h)
    PROVE  /\ Taken(a, b, h) \subseteq AnswerEnds(a, b)
           /\ IsPrefix(fs, AnswerOf(a, b))
           /\ DocumentEnds(a, b) \subseteq Taken(a, b, h) => fs = AnswerOf(a, b)
  <1> DEFINE answer == AnswerOf(a, b)
             n == Cardinality(AnswerEnds(a, b))
  <1>1. Taken(a, b, h) \subseteq AnswerEnds(a, b)
    <2> SUFFICES ASSUME NEW d \in Taken(a, b, h), NEW x \in DocumentEnds(a, b), x < d
                 PROVE  DocumentAt(a, b, x) \notin TurnEnders
      BY DEF Taken, AnswerEnds, TurnEnders
    <2>1. x \in Nat /\ d \in Nat /\ d <= h
      BY DocumentsFinite, Len(b) \in Nat DEF Taken, Bodies
    <2> QED
      BY <2>1 DEF Taken, AbsorbedBy
  <1>2. ASSUME NEW k \in DOMAIN fs PROVE k \in 1..n /\ answer[k] = fs[k]
    <2>1. PICK d \in Taken(a, b, h) : Cardinality(Taken(a, b, d)) = k /\ fs[k] = DocumentAt(a, b, d)
      BY DEF AbsorbedBy
    <2> QED
      BY <1>1, <2>1, AnswerAt
  <1>3. Len(fs) <= n /\ n \in Nat
    <2>1. IsFiniteSet(AnswerEnds(a, b)) /\ n \in Nat
      BY DocumentsFinite
    <2>2. Cardinality(Taken(a, b, h)) <= n
      BY <1>1, <2>1, FS_Subset
    <2> QED
      BY <2>1, <2>2 DEF AbsorbedBy
  <1>4. answer \in Seq({answer[k] : k \in 1..n}) /\ Len(answer) = n /\ DOMAIN answer = 1..n
    BY AnswerShape
  <1> HIDE DEF answer, n
  <1>5. IsPrefix(fs, answer)
    <2>1. \A k \in 1..Len(fs) : fs[k] = answer[k]
      BY <1>2
    <2>2. /\ SubSeq(fs, 1, Len(fs)) = [k \in 1..Len(fs) |-> fs[k]]
          /\ SubSeq(answer, 1, Len(fs)) = [k \in 1..Len(fs) |-> answer[k]]
      BY <1>3, <1>4
    <2> QED
      BY <1>3, <1>4, <2>1, <2>2 DEF IsPrefix
  <1>6. ASSUME DocumentEnds(a, b) \subseteq Taken(a, b, h) PROVE fs = answer
    <2>1. Taken(a, b, h) = AnswerEnds(a, b)
      BY <1>1, <1>6 DEF AnswerEnds
    <2>2. Len(fs) = n
      BY <2>1 DEF AbsorbedBy, n
    <2> QED
      BY <1>2, <1>4, <2>2
  <1> QED
    BY <1>1, <1>5, <1>6 DEF answer

\* The documents between two lines.
LEMMA NothingTaken ==
    ASSUME NEW a, NEW b \in Bodies, NEW fs \in Seq(Frames), NEW h \in Nat, NEW e \in Nat, h <= e,
           AbsorbedBy(a, b, fs, h), \A d \in DocumentEnds(a, b) : d <= h \/ e < d
    PROVE  AbsorbedBy(a, b, fs, e)
  <1>1. Taken(a, b, e) = Taken(a, b, h)
    BY DocumentsFinite, Len(b) \in Nat DEF Taken, Bodies
  <1> QED
    BY <1>1 DEF AbsorbedBy

LEMMA DocumentTaken ==
    ASSUME NEW a, NEW b \in Bodies, NEW fs \in Seq(Frames), NEW h \in Nat,
           AbsorbedBy(a, b, fs, h),
           NEW e \in DocumentEnds(a, b), h < e, \A d \in DocumentEnds(a, b) : d <= h \/ e <= d
    PROVE  LET document == DocumentAt(a, b, e) IN
           /\ document \in Frames \ TurnEnders => AbsorbedBy(a, b, Append(fs, document), e)
           /\ document \in TurnEnders =>
                 /\ IsPrefix(fs, AnswerOf(a, b))
                 /\ Len(AnswerOf(a, b)) = Len(fs) + 1
                 /\ Last(AnswerOf(a, b)) = document
                 /\ document \in Frames => AnswerOf(a, b) = Append(fs, document)
  <1> DEFINE document == DocumentAt(a, b, e)
  <1>1. DocumentEnds(a, b) \subseteq Nat
    BY DocumentsFinite, Len(b) \in Nat DEF Bodies
  <1>2. Taken(a, b, e) = Taken(a, b, h) \cup {e} /\ e \notin Taken(a, b, h)
    BY <1>1 DEF Taken
  <1>3. Cardinality(Taken(a, b, e)) = Len(fs) + 1
    <2>1. IsFiniteSet(Taken(a, b, h))
      BY DocumentsFinite
    <2>2. Cardinality(Taken(a, b, h) \cup {e}) = Cardinality(Taken(a, b, h)) + 1
      BY <1>2, <2>1, FS_AddElement
    <2> QED
      BY <1>2, <2>2 DEF AbsorbedBy
  <1>4. ASSUME document \in Frames \ TurnEnders PROVE AbsorbedBy(a, b, Append(fs, document), e)
    <2> DEFINE gs == Append(fs, document)
    <2>1. gs \in Seq(Frames) /\ Len(gs) = Len(fs) + 1 /\ gs[Len(fs) + 1] = document
          /\ DOMAIN gs = 1..Len(fs) + 1 /\ \A k \in 1..Len(fs) : gs[k] = fs[k]
      BY <1>4
    <2>2. \A d \in Taken(a, b, e) : DocumentAt(a, b, d) \notin TurnEnders
      BY <1>2, <1>4 DEF AbsorbedBy
    <2>3. ASSUME NEW k \in 1..Len(fs) + 1
          PROVE  \E d \in Taken(a, b, e) :
                    Cardinality(Taken(a, b, d)) = k /\ gs[k] = DocumentAt(a, b, d)
      <3>1. CASE k = Len(fs) + 1
        BY <3>1, <1>2, <1>3, <2>1
      <3>2. CASE k # Len(fs) + 1
        <4>1. k \in DOMAIN fs /\ gs[k] = fs[k]
          BY <3>2, <2>1
        <4> QED
          BY <4>1, <1>2 DEF AbsorbedBy
      <3> QED
        BY <3>1, <3>2
    <2> HIDE DEF gs, document
    <2>4. AbsorbedBy(a, b, gs, e)
      BY <1>3, <2>1, <2>2, <2>3 DEF AbsorbedBy
    <2> QED
      BY <2>4 DEF gs
  <1>5. ASSUME document \in TurnEnders
        PROVE  /\ IsPrefix(fs, AnswerOf(a, b))
               /\ Len(AnswerOf(a, b)) = Len(fs) + 1
               /\ Last(AnswerOf(a, b)) = document
               /\ document \in Frames => AnswerOf(a, b) = Append(fs, document)
    <2>1. AnswerEnds(a, b) = Taken(a, b, e)
      <3>1. Taken(a, b, h) \subseteq AnswerEnds(a, b)
        BY AbsorbedIsPrefix
      <3>2. e \in AnswerEnds(a, b)
        <4> SUFFICES ASSUME NEW x \in DocumentEnds(a, b), x < e
                     PROVE  DocumentAt(a, b, x) \notin TurnEnders
          BY DEF AnswerEnds, TurnEnders
        <4>1. x \in Taken(a, b, h)
          BY <1>1 DEF Taken
        <4> QED
          BY <4>1 DEF AbsorbedBy
      <3>3. ASSUME NEW d \in AnswerEnds(a, b) PROVE d \in Taken(a, b, e)
        <4>1. ~(e < d)
          BY <1>5 DEF AnswerEnds, TurnEnders
        <4> QED
          BY <1>1, <4>1 DEF AnswerEnds, Taken
      <3> QED
        BY <3>1, <3>2, <3>3, <1>2
    <2>2. IsPrefix(fs, AnswerOf(a, b))
      BY AbsorbedIsPrefix
    <2>3. e \in AnswerEnds(a, b) /\ Cardinality(AnswerEnds(a, b)) = Len(fs) + 1
      BY <1>2, <1>3, <2>1
    <2>4. AnswerOf(a, b)[Len(fs) + 1] = document
      BY <1>3, <2>3, AnswerAt
    <2>5. DOMAIN AnswerOf(a, b) = 1..Len(fs) + 1 /\ Len(AnswerOf(a, b)) = Len(fs) + 1
          /\ AnswerOf(a, b) \in Seq({AnswerOf(a, b)[k] : k \in 1..Len(fs) + 1})
      BY <2>3, AnswerShape
    <2>6. ASSUME document \in Frames PROVE AnswerOf(a, b) = Append(fs, document)
      <3>1. \A k \in 1..Len(fs) : AnswerOf(a, b)[k] = fs[k]
        <4>1. SubSeq(fs, 1, Len(fs)) = SubSeq(AnswerOf(a, b), 1, Len(fs))
          BY <2>2 DEF IsPrefix
        <4>2. \A k \in 1..Len(fs) : SubSeq(fs, 1, Len(fs))[k] = fs[k]
          OBVIOUS
        <4>3. \A k \in 1..Len(fs) : SubSeq(AnswerOf(a, b), 1, Len(fs))[k] = AnswerOf(a, b)[k]
          BY <2>5
        <4> QED
          BY <4>1, <4>2, <4>3
      <3> QED
        BY <2>4, <2>5, <2>6, <3>1
    <2> QED
      BY <2>2, <2>4, <2>5, <2>6 DEF Last
  <1> QED
    BY <1>4, <1>5

(***************************************************************************)
(* The event under way.                                                     *)
(***************************************************************************)

\* The lines of the event under way behind the line that ends at h.
Open(b, h) ==
    {i \in Ends(b) : /\ i <= h
                     /\ Line(b, i) \notin SseIgnores \cup {"blank"}
                     /\ \A k \in Ends(b) : i < k /\ k <= h => Line(b, k) # "blank"}

\* What ds joins to is what those lines do.
DataOf(b, ds, lines) ==
    /\ ds = <<>> <=> lines = {}
    /\ Len(ds) = 1 => \E i \in lines : lines = {i} /\ ds[1] = Line(b, i)
    /\ Len(ds) # 1 => \A i \in lines : lines # {i}

LEMMA LinePassed ==
    ASSUME NEW b \in Bodies, NEW c, LineStarts(b, c), NEW e, NextEnd(b, c, e)
    PROVE  /\ Line(b, e) = "blank" => Event(b, e) = Open(b, c) /\ Open(b, e) = {}
           /\ Line(b, e) \in SseIgnores => Open(b, e) = Open(b, c)
           /\ Line(b, e) \notin SseIgnores \cup {"blank"} =>
                 Open(b, e) = Open(b, c) \cup {e} /\ e \notin Open(b, c)
           /\ Line(b, e) # "blank" => Event(b, e) = Open(b, e)
  <1>1. \A i \in Ends(b) : i <= c \/ e <= i
    BY LineIsCut
  <1>2. Ends(b) \subseteq Nat /\ c \in Nat /\ e \in Ends(b) /\ c < e
    BY Len(b) \in Nat DEF Ends, LineStarts, NextEnd, Bodies
  <1>3. \A i \in Ends(b) : (i <= e <=> i <= c \/ i = e) /\ (i < e <=> i <= c)
    BY <1>1, <1>2
  <1>4. Line(b, e) = "blank" => Event(b, e) = Open(b, c)
    BY <1>2, <1>3 DEF Event, Open
  <1>5. Line(b, e) = "blank" => Open(b, e) = {}
    BY <1>2, <1>3 DEF Open
  <1>6. Line(b, e) \in SseIgnores => Open(b, e) = Open(b, c)
    BY <1>2, <1>3 DEF Open, SseIgnores
  <1>7. Line(b, e) \notin SseIgnores \cup {"blank"} =>
           Open(b, e) = Open(b, c) \cup {e} /\ e \notin Open(b, c)
    BY <1>2, <1>3 DEF Open
  <1>8. Line(b, e) # "blank" => Event(b, e) = Open(b, e)
    BY <1>2, <1>3 DEF Event, Open
  <1> QED
    BY <1>4, <1>5, <1>6, <1>7, <1>8

\* A line that counts is added to the event.
LEMMA LineCounts ==
    ASSUME NEW b, NEW ds \in Seq(Fields), NEW lines, DataOf(b, ds, lines),
           NEW e, e \notin lines, Line(b, e) \in Fields
    PROVE  DataOf(b, Append(ds, Line(b, e)), lines \cup {e})
  <1> DEFINE es == Append(ds, Line(b, e))
  <1>1. es # <<>> /\ Len(es) = Len(ds) + 1 /\ es[Len(es)] = Line(b, e) /\ Len(ds) \in Nat
        /\ (ds = <<>> <=> Len(ds) = 0)
    OBVIOUS
  <1> HIDE DEF es
  <1>2. CASE lines = {}
    BY <1>1, <1>2 DEF DataOf
  <1>3. CASE lines # {}
    <2>1. Len(es) # 1
      BY <1>1, <1>3 DEF DataOf
    <2>2. \A i \in lines \cup {e} : lines \cup {e} # {i}
      BY <1>3
    <2> QED
      BY <1>1, <2>1, <2>2 DEF DataOf
  <1> QED
    BY <1>2, <1>3 DEF es

\* An event is the document that its data join to.
LEMMA EventDocument ==
    ASSUME NEW a \in Adapter \ {"ollama"}, NEW b, NEW ds \in Seq(Fields), NEW e,
           DataOf(b, ds, Event(b, e)), ds # <<>>
    PROVE  Document(a, Joined(ds)) = DocumentAt(a, b, e)
  <1>1. CASE Len(ds) = 1
    <2>1. PICK i \in Event(b, e) : Event(b, e) = {i} /\ ds[1] = Line(b, i)
      BY <1>1 DEF DataOf
    <2>2. (CHOOSE x \in Event(b, e) : TRUE) = i
      BY <2>1
    <2> QED
      BY <1>1, <2>1, <2>2 DEF DocumentAt, Joined
  <1>2. CASE Len(ds) # 1
    BY <1>2 DEF DataOf, DocumentAt, Joined
  <1> QED
    BY <1>1, <1>2

(***************************************************************************)
(* The inductive invariant.                                                 *)
(***************************************************************************)

\* The symbol x was read.
WasRead(x) == \E i \in 1..read : body[i] = x

\* Lines are taken up to c; pending is what was read of the next.
Between(c) ==
    /\ LineStarts(body, c) /\ c <= read
    /\ pending = SubSeq(body, c + 1, read)
    /\ AbsorbedBy(adapter, body, frames, c)
    /\ IF adapter = "ollama" THEN data = <<>> ELSE DataOf(body, data, Open(body, c))

\* The unfinished line is taken, or the last event as well.
BodyTaken ==
    /\ pending = <<>> /\ read = Len(body)
    /\ \/ /\ adapter # "ollama"
          /\ AbsorbedBy(adapter, body, frames, Len(body))
          /\ DataOf(body, data, Event(body, Len(body) + 1))
       \/ data = <<>> /\ AbsorbedBy(adapter, body, frames, Len(body) + 1)

StreamInv ==
    /\ StreamTypeOK
    /\ body \in Bodies /\ pending \in Bodies
    /\ \A i \in DOMAIN pending : WasRead(pending[i])
    /\ \A i \in DOMAIN data : data[i] = "done" => WasRead("done")
    /\ result = "reading" => /\ \A i \in DOMAIN frames : frames[i] # "done"
                             /\ BodyTaken \/ \E c \in 0..read : Between(c)
    /\ ChunkingIsInvisible
    /\ CompletedMeansTerminal
    /\ NothingAfterTheEnd

LEMMA StreamStarts == ASSUME StreamAssumption, StreamInit PROVE StreamInv
  <1>1. PICK sent \in SeqOf(Symbols \cup {"NL"}, MaxBody), cut \in Cuts : body = sent \o cut
    BY DEF StreamInit
  <1>2. sent \in Bodies
    <2>1. PICK m \in 0..MaxBody : sent \in [1..m -> Symbols \cup {"NL"}]
      BY <1>1 DEF SeqOf
    <2>2. m \in Nat /\ Symbols \cup {"NL"} \subseteq Fields \cup {"NL"}
      BY DEF StreamAssumption, Fields
    <2>3. sent \in [1..m -> Fields \cup {"NL"}]
      BY <2>1, <2>2
    <2> QED
      BY <2>2, <2>3 DEF Bodies
  <1>3. cut \in Bodies
    <2>1. <<>> \in Bodies /\ <<"stub">> \in Bodies /\ <<"junk">> \in Bodies
      BY DEF Bodies, Fields
    <2> QED
      BY <1>1, <2>1 DEF Cuts
  <1>4. body \in Bodies /\ Len(body) \in Nat
    BY <1>1, <1>2, <1>3 DEF Bodies
  <1>5. Taken(adapter, body, 0) = {} /\ Open(body, 0) = {}
    <2>1. /\ DocumentEnds(adapter, body) \subseteq 1..Len(body) + 1
          /\ Ends(body) \subseteq 1..Len(body) + 1
      BY <1>4, DocumentsFinite DEF Ends
    <2> QED
      BY <1>4, <2>1 DEF Taken, Open
  <1>6. AbsorbedBy(adapter, body, frames, 0)
    <2>1. Cardinality(Taken(adapter, body, 0)) = 0
      BY <1>5, FS_EmptySet
    <2>2. frames = <<>> /\ Len(frames) = 0 /\ DOMAIN frames = {}
      BY DEF StreamInit
    <2> QED
      BY <1>5, <2>1, <2>2 DEF AbsorbedBy
  <1>7. Between(0)
    BY <1>4, <1>5, <1>6 DEF Between, LineStarts, DataOf, StreamInit, Bodies
  <1>8. StreamTypeOK /\ pending \in Bodies
    BY <1>4 DEF StreamTypeOK, StreamInit, Bodies
  <1> QED
    BY <1>4, <1>7, <1>8 DEF StreamInv, StreamInit, ChunkingIsInvisible,
                            CompletedMeansTerminal, NothingAfterTheEnd

(***************************************************************************)
(* Steps.                                                                   *)
(***************************************************************************)

\* What a body that is read no further keeps.
LEMMA StopKeeps ==
    ASSUME StreamInv, result = "reading", NEW h \in Nat, AbsorbedBy(adapter, body, frames, h),
           result' \in Failures \ {"malformed_response", "unclassified"},
           read' \in 0..Len(body), UNCHANGED <<adapter, body, pending, data, frames>>,
           read <= read'
    PROVE  StreamInv'
  <1>1. StreamTypeOK' /\ body' \in Bodies /\ pending' \in Bodies
    BY DEF StreamInv, StreamTypeOK, Failures
  <1>2. \A x : WasRead(x) => WasRead(x)'
    BY DEF WasRead, StreamInv, StreamTypeOK
  <1>3. /\ (\A i \in DOMAIN pending : WasRead(pending[i]))'
        /\ (\A i \in DOMAIN data : data[i] = "done" => WasRead("done"))'
    BY <1>2 DEF StreamInv
  <1>4. IsPrefix(frames, AnswerOf(adapter, body))
    BY AbsorbedIsPrefix DEF StreamInv, StreamTypeOK
  <1>5. ChunkingIsInvisible'
    BY <1>4 DEF ChunkingIsInvisible, Failures
  <1>6. CompletedMeansTerminal' /\ NothingAfterTheEnd'
    BY DEF StreamInv, CompletedMeansTerminal, NothingAfterTheEnd, Failures
  <1> QED
    BY <1>1, <1>3, <1>5, <1>6 DEF StreamInv, Failures

\* While a body is read, what was absorbed is what some part of it says.
LEMMA ReadingAbsorbed ==
    ASSUME StreamInv, result = "reading"
    PROVE  \E h \in Nat : AbsorbedBy(adapter, body, frames, h)
  BY DEF StreamInv, BodyTaken, Between, Bodies, StreamTypeOK

LEMMA StopStep == ASSUME StreamInv, Stall \/ Overlong PROVE StreamInv'
  <1>1. PICK h \in Nat : AbsorbedBy(adapter, body, frames, h)
    BY ReadingAbsorbed DEF Stall, Overlong, Drained
  <1>2. /\ result = "reading" /\ result' \in {"timeout", "transport", "response_too_large"}
        /\ UNCHANGED <<adapter, body, read, pending, data, frames>>
    BY DEF Stall, Overlong, Drained, Fail
  <1>3. read' \in 0..Len(body) /\ read <= read'
    BY <1>2 DEF StreamInv, StreamTypeOK
  <1> QED
    BY <1>1, <1>2, <1>3, StopKeeps DEF Failures

LEMMA ReadStep ==
    ASSUME StreamAssumption, StreamInv, NEW n \in 1..MaxBody + 1, ReadChunk(n)
    PROVE  StreamInv'
  <1>1. /\ result = "reading" /\ n \in Nat /\ n >= 1 /\ read + n <= Len(body) /\ read' = read + n
        /\ UNCHANGED <<adapter, body, data, frames>>
        /\ read \in Nat /\ Len(body) \in Nat /\ body \in Bodies
    BY DEF ReadChunk, Drained, StreamAssumption, StreamInv, StreamTypeOK, Bodies
  <1>2. CASE read' > MaxResponseBytes
    <2>1. PICK h \in Nat : AbsorbedBy(adapter, body, frames, h)
      BY <1>1, ReadingAbsorbed
    <2> QED
      BY <1>1, <1>2, <2>1, StopKeeps DEF ReadChunk, Failures
  <1>3. CASE ~(read' > MaxResponseBytes)
    <2>1. pending' = pending \o SubSeq(body, read + 1, read + n) /\ result' = result
      BY <1>3 DEF ReadChunk
    <2>2. PICK c \in 0..read : Between(c)
      BY <1>1 DEF StreamInv, BodyTaken
    <2>3. c \in Nat /\ c <= read /\ pending = SubSeq(body, c + 1, read)
      BY <2>2, <1>1 DEF Between
    <2>4. pending' = SubSeq(body, c + 1, read + n)
      <3>1. SubSeq(body, c + 1, read) \o SubSeq(body, read + 1, read + n)
                = SubSeq(body, c + 1, read + n)
        BY <1>1, <2>3, ConcatAdjacentSubSeq DEF Bodies
      <3> QED
        BY <2>1, <2>3, <3>1
    <2>5. Between(c)'
      BY <1>1, <2>2, <2>3, <2>4 DEF Between, LineStarts
    <2>6. pending' \in Bodies /\ (\A i \in DOMAIN pending : WasRead(pending[i]))'
      <3>1. /\ pending' \in Bodies /\ Len(pending') = read + n - c
            /\ \A i \in 1..read + n - c : pending'[i] = body[c + i]
        <4>1. read + n \in Nat /\ c <= read + n
          BY <1>1, <2>3
        <4> QED
          BY <1>1, <2>3, <2>4, <4>1, PartOfBody
      <3>2. \A i \in 1..read + n - c : c + i \in 1..read + n
        BY <1>1, <2>3
      <3>3. DOMAIN pending' = 1..read + n - c
        BY <3>1 DEF Bodies
      <3> QED
        BY <1>1, <3>1, <3>2, <3>3 DEF WasRead
    <2>7. (\A i \in DOMAIN data : data[i] = "done" => WasRead("done"))'
      BY <1>1 DEF StreamInv, WasRead
    <2>8. StreamTypeOK' /\ body' \in Bodies
      BY <1>1, <2>1 DEF StreamInv, StreamTypeOK
    <2>9. c \in 0..read'
      BY <1>1, <2>3
    <2>10. ChunkingIsInvisible' /\ CompletedMeansTerminal' /\ NothingAfterTheEnd'
      BY <1>1, <2>1 DEF StreamInv, ChunkingIsInvisible, CompletedMeansTerminal,
                        NothingAfterTheEnd
    <2> QED
      BY <1>1, <2>1, <2>5, <2>6, <2>7, <2>8, <2>9, <2>10 DEF StreamInv
  <1> QED
    BY <1>2, <1>3

\* What a field stands for.
LEMMA DocumentTypes ==
    ASSUME NEW a \in Adapter, NEW kind \in Fields,
           a # "ollama" => kind \notin {"comment", "stub"}
    PROVE  /\ Document(a, kind) \in Frames \cup {"error", "junk"}
           /\ Document(a, kind) = "done" => kind = "done" /\ a # "google"
  BY DEF Document, Adapter, Frames, Fields, SseIgnores,
         OpenAiDocument, MessagesDocument, GeminiDocument, NdjsonDocument

\* The next document is absorbed.
LEMMA AbsorbKeeps ==
    ASSUME StreamInv, result = "reading", NEW h \in Nat, AbsorbedBy(adapter, body, frames, h),
           NEW e \in DocumentEnds(adapter, body), h < e,
           \A d \in DocumentEnds(adapter, body) : d <= h \/ e <= d,
           NEW kind \in Fields, Document(adapter, kind) = DocumentAt(adapter, body, e),
           adapter # "ollama" => kind \notin {"comment", "stub"},
           kind = "done" => WasRead("done"),
           Absorb(kind), UNCHANGED <<adapter, body, read>>
    PROVE  /\ frames' \in Seq(Frames) /\ result' \in Failures \cup {"reading", "completed"}
           /\ result' = "reading" => /\ \A i \in DOMAIN frames' : frames'[i] # "done"
                                     /\ AbsorbedBy(adapter, body, frames', e)
           /\ ChunkingIsInvisible' /\ CompletedMeansTerminal' /\ NothingAfterTheEnd'
  <1> DEFINE document == DocumentAt(adapter, body, e)
  <1>1. /\ document \in Frames \cup {"error", "junk"}
        /\ document = "done" => WasRead("done") /\ adapter # "google"
    BY DocumentTypes DEF StreamInv, StreamTypeOK
  <1>2. /\ body \in Bodies /\ frames \in Seq(Frames) /\ read \in 0..Len(body)
        /\ \A i \in DOMAIN frames : frames[i] # "done"
    BY DEF StreamInv, StreamTypeOK
  <1>3. /\ document \in Frames \ TurnEnders =>
              AbsorbedBy(adapter, body, Append(frames, document), e)
        /\ document \in TurnEnders =>
              /\ IsPrefix(frames, AnswerOf(adapter, body))
              /\ Len(AnswerOf(adapter, body)) = Len(frames) + 1
              /\ Last(AnswerOf(adapter, body)) = document
              /\ document \in Frames => AnswerOf(adapter, body) = Append(frames, document)
    BY <1>2, DocumentTaken
  <1>4. IF document \in {"junk", "error"}
        THEN result' = FaultOf(document) /\ frames' = frames
        ELSE /\ frames' = Append(frames, document)
             /\ result' = IF document = "done" THEN "completed" ELSE result
    BY DEF Absorb
  <1> HIDE DEF document
  <1>5. CASE document \in {"junk", "error"}
    <2>1. result' \in {"malformed_response", "unclassified"} /\ result' = FaultOf(document) /\ frames' = frames
      BY <1>4, <1>5 DEF FaultOf
    <2>2. ChunkingIsInvisible'
      BY <1>3, <1>5, <2>1 DEF ChunkingIsInvisible, TurnEnders
    <2>3. CompletedMeansTerminal' /\ NothingAfterTheEnd'
      BY <1>2, <2>1 DEF CompletedMeansTerminal, NothingAfterTheEnd
    <2> QED
      BY <1>2, <2>1, <2>2, <2>3 DEF Failures
  <1>6. CASE document \notin {"junk", "error"}
    <2>1. /\ document \in Frames /\ frames' = Append(frames, document)
          /\ result' = IF document = "done" THEN "completed" ELSE "reading"
      BY <1>1, <1>4, <1>6
    <2>2. /\ frames' \in Seq(Frames) /\ Len(frames) \in Nat
          /\ Len(frames') = Len(frames) + 1 /\ frames'[Len(frames) + 1] = document
          /\ DOMAIN frames' = 1..Len(frames) + 1 /\ \A i \in 1..Len(frames) : frames'[i] = frames[i]
      BY <1>2, <2>1
    <2>3. \A i \in 1..Len(frames) : frames'[i] # "done"
      BY <1>2, <2>2
    <2>4. CASE document = "done"
      <3>1. result' = "completed"
        BY <2>1, <2>4
      <3>2. frames' = AnswerOf(adapter, body)
        BY <1>3, <2>1, <2>4 DEF TurnEnders
      <3>3. IsPrefix(frames', frames')
        BY <2>2 DEF IsPrefix
      <3>4. ChunkingIsInvisible'
        BY <3>1, <3>2, <3>3 DEF ChunkingIsInvisible
      <3>5. "done" \in ToSet(SubSeq(body, 1, read))
        <4>1. PICK i \in 1..read : body[i] = "done"
          BY <1>1, <2>4 DEF WasRead
        <4>2. /\ read \in Nat /\ Len(SubSeq(body, 1, read)) = read
              /\ SubSeq(body, 1, read)[i] = body[i]
              /\ DOMAIN SubSeq(body, 1, read) = 1..read
          BY <1>2, <4>1 DEF Bodies
        <4> QED
          BY <4>1, <4>2 DEF ToSet
      <3>6. CompletedMeansTerminal'
        BY <1>1, <2>2, <2>4, <3>5 DEF CompletedMeansTerminal, Last
      <3>7. NothingAfterTheEnd'
        BY <2>2, <2>3, <3>1 DEF NothingAfterTheEnd
      <3> QED
        BY <2>2, <3>1, <3>4, <3>6, <3>7
    <2>5. CASE document # "done"
      <3>1. result' = "reading" /\ document \in Frames \ TurnEnders
        BY <1>6, <2>1, <2>5 DEF TurnEnders
      <3>2. AbsorbedBy(adapter, body, frames', e)
        BY <1>3, <2>1, <3>1
      <3>3. \A i \in DOMAIN frames' : frames'[i] # "done"
        BY <2>2, <2>3, <2>5
      <3>4. ChunkingIsInvisible' /\ CompletedMeansTerminal' /\ NothingAfterTheEnd'
        BY <3>1, <3>3 DEF ChunkingIsInvisible, CompletedMeansTerminal, NothingAfterTheEnd
      <3> QED
        BY <2>2, <3>1, <3>2, <3>3, <3>4
    <2> QED
      BY <2>4, <2>5
  <1> QED
    BY <1>5, <1>6

\* The line that ends at e was taken.
LineTaken(e) ==
    /\ frames' \in Seq(Frames) /\ result' \in Failures \cup {"reading", "completed"}
    /\ data' \in Seq(Frames \cup {"error", "junk"})
    /\ (\A i \in DOMAIN data : data[i] = "done" => WasRead("done"))'
    /\ result' = "reading" =>
          /\ \A i \in DOMAIN frames' : frames'[i] # "done"
          /\ IF adapter = "ollama"
             THEN data' = <<>> /\ AbsorbedBy(adapter, body, frames', e)
             ELSE /\ DataOf(body, data', Open(body, e))
                  /\ AbsorbedBy(adapter, body, frames', IF e <= Len(body) THEN e ELSE Len(body))
    /\ ChunkingIsInvisible' /\ CompletedMeansTerminal' /\ NothingAfterTheEnd'

LEMMA LineKeeps ==
    ASSUME StreamInv, result = "reading", NEW c \in 0..read, Between(c),
           NEW e, NextEnd(body, c, e), e <= read + 1,
           e <= Len(body) \/ Line(body, e) # "blank",
           TakeField(Line(body, e)), UNCHANGED <<adapter, body, read>>
    PROVE  LineTaken(e)
  <1> DEFINE field == Line(body, e)
  <1>1. /\ body \in Bodies /\ frames \in Seq(Frames) /\ read \in 0..Len(body)
        /\ data \in Seq(Frames \cup {"error", "junk"})
        /\ adapter \in Adapter
        /\ \A i \in DOMAIN frames : frames[i] # "done"
        /\ \A i \in DOMAIN data : data[i] = "done" => WasRead("done")
        /\ LineStarts(body, c) /\ AbsorbedBy(adapter, body, frames, c)
        /\ IF adapter = "ollama" THEN data = <<>> ELSE DataOf(body, data, Open(body, c))
    BY DEF StreamInv, StreamTypeOK, Between
  <1>2. /\ c \in Nat /\ e \in Nat /\ read \in Nat /\ Len(body) \in Nat
        /\ c < e /\ e \in Ends(body) /\ c <= read /\ read <= Len(body)
    BY <1>1 DEF NextEnd, Ends, Bodies
  <1>3. /\ field \in Fields \cup {"blank"}
        /\ \A i \in Ends(body) : i <= c \/ e <= i
        /\ field = "done" => body[c + 1] = "done" /\ e = c + 2
    BY <1>1, LineIsCut
  <1>4. field = "done" => WasRead("done")
    BY <1>2, <1>3 DEF WasRead
  <1>5. \A d \in DocumentEnds(adapter, body) : d \in Ends(body)
    BY DEF DocumentEnds
  <1>6. \A d \in DocumentEnds(adapter, body) : d <= c \/ e <= d
    BY <1>3, <1>5
  \* Nothing is absorbed.
  <1>7. ASSUME UNCHANGED <<frames, result>>
        PROVE  /\ \A i \in DOMAIN frames' : frames'[i] # "done"
               /\ frames' \in Seq(Frames) /\ result' = "reading"
               /\ ChunkingIsInvisible' /\ CompletedMeansTerminal' /\ NothingAfterTheEnd'
    BY <1>1, <1>7 DEF ChunkingIsInvisible, CompletedMeansTerminal, NothingAfterTheEnd
  <1>8. ASSUME NEW h \in Nat, c <= h, h <= e,
               \A d \in DocumentEnds(adapter, body) : e <= d => h < d
        PROVE  AbsorbedBy(adapter, body, frames, h)
    <2>1. \A d \in DocumentEnds(adapter, body) : d <= c \/ h < d
      BY <1>6, <1>8
    <2> QED
      BY <1>1, <1>2, <1>8, <2>1, NothingTaken
  <1> HIDE DEF field
  <1>9. CASE adapter = "ollama"
    <2>1. data' = <<>>
      BY <1>1, <1>9 DEF TakeField
    <2>2. \A d \in Ends(body) : d \in DocumentEnds(adapter, body) <=> Line(body, d) # "blank"
      BY <1>9 DEF DocumentEnds
    <2>3. CASE field = "blank"
      <3>1. UNCHANGED <<frames, result>>
        BY <1>9, <2>3 DEF TakeField, field
      <3>2. \A d \in DocumentEnds(adapter, body) : e <= d => e < d
        BY <1>2, <1>5, <2>2, <2>3 DEF field, Ends
      <3>3. AbsorbedBy(adapter, body, frames, e)
        BY <1>2, <1>8, <3>2
      <3> QED
        BY <1>7, <1>9, <2>1, <3>1, <3>3 DEF LineTaken
    <2>4. CASE field # "blank"
      <3>1. Absorb(field)
        BY <1>9, <2>4 DEF TakeField, field
      <3>2. e \in DocumentEnds(adapter, body) /\ Document(adapter, field) = DocumentAt(adapter, body, e)
        BY <1>2, <1>9, <2>2, <2>4 DEF DocumentAt, field
      <3>3. field \in Fields
        BY <1>3, <2>4
      <3> QED
        BY <1>1, <1>2, <1>4, <1>6, <1>9, <2>1, <3>1, <3>2, <3>3, AbsorbKeeps
           DEF LineTaken
    <2> QED
      BY <2>3, <2>4
  <1>10. CASE adapter # "ollama" /\ field = "blank"
    <2>1. e <= Len(body)
      BY <1>10 DEF field
    <2>2. Event(body, e) = Open(body, c) /\ Open(body, e) = {}
      BY <1>1, <1>10, LinePassed DEF field
    <2>3. e \in DocumentEnds(adapter, body) <=> Open(body, c) # {}
      BY <1>2, <1>10, <2>2 DEF DocumentEnds, field
    <2>4. data' = <<>> /\ DataOf(body, data', Open(body, e))
      BY <1>10, <2>2 DEF TakeField, field, DataOf
    <2>5. CASE data = <<>>
      <3>1. UNCHANGED <<frames, result>>
        BY <1>10, <2>5 DEF TakeField, field
      <3>2. e \notin DocumentEnds(adapter, body)
        BY <1>1, <1>10, <2>3, <2>5 DEF DataOf
      <3>3. \A d \in DocumentEnds(adapter, body) : e <= d => e < d
        BY <1>2, <1>5, <3>2 DEF Ends
      <3>4. AbsorbedBy(adapter, body, frames, e)
        BY <1>2, <1>8, <3>3
      <3> QED
        BY <1>7, <1>10, <2>1, <2>4, <3>1, <3>4 DEF LineTaken
    <2>6. CASE data # <<>>
      <3> DEFINE kind == Joined(data)
      <3>1. Absorb(kind)
        BY <1>10, <2>6 DEF TakeField, field
      <3>2. e \in DocumentEnds(adapter, body)
        BY <1>1, <1>10, <2>3, <2>6 DEF DataOf
      <3>3. data \in Seq(Fields) /\ DataOf(body, data, Event(body, e))
        BY <1>1, <1>10, <2>2 DEF Fields, Frames
      <3>4. Document(adapter, kind) = DocumentAt(adapter, body, e)
        BY <1>1, <1>10, <2>6, <3>3, EventDocument
      <3>5. kind \in Frames \cup {"error", "junk"} /\ (kind = "done" => WasRead("done"))
        BY <1>1, <2>6 DEF Joined
      <3>6. kind \in Fields /\ kind \notin {"comment", "stub"}
        BY <3>5 DEF Fields, Frames
      <3> HIDE DEF kind
      <3> QED
        BY <1>1, <1>2, <1>6, <1>10, <2>1, <2>4, <3>1, <3>2, <3>4, <3>5, <3>6, AbsorbKeeps
           DEF LineTaken
    <2> QED
      BY <2>5, <2>6
  <1>11. CASE adapter # "ollama" /\ field # "blank"
    <2>1. /\ data' = IF field \in SseIgnores THEN data ELSE Append(data, field)
          /\ UNCHANGED <<frames, result>>
      BY <1>11 DEF TakeField, field
    <2>2. DataOf(body, data', Open(body, e))
      <3>1. CASE field \in SseIgnores
        BY <1>1, <1>11, <2>1, <3>1, LinePassed DEF field
      <3>2. CASE field \notin SseIgnores
        <4>1. Open(body, e) = Open(body, c) \cup {e} /\ e \notin Open(body, c)
          BY <1>1, <1>11, <3>2, LinePassed DEF field
        <4>2. data \in Seq(Fields) /\ field \in Fields
          BY <1>1, <1>3, <1>11 DEF Fields, Frames
        <4> QED
          BY <1>1, <1>11, <2>1, <3>2, <4>1, <4>2, LineCounts DEF field
      <3> QED
        BY <3>1, <3>2
    <2>3. data' \in Seq(Frames \cup {"error", "junk"})
      BY <1>1, <1>3, <1>11, <2>1 DEF Fields, Frames, SseIgnores
    <2>4. (\A i \in DOMAIN data : data[i] = "done" => WasRead("done"))'
      <3>1. WasRead("done")' <=> WasRead("done")
        BY DEF WasRead
      <3> QED
        BY <1>1, <1>4, <2>1, <3>1
    <2>5. \A d \in DocumentEnds(adapter, body) : d = e => d = Len(body) + 1
      BY <1>11 DEF DocumentEnds, field
    <2>6. AbsorbedBy(adapter, body, frames, IF e <= Len(body) THEN e ELSE Len(body))
      <3>1. CASE e <= Len(body)
        <4>1. \A d \in DocumentEnds(adapter, body) : e <= d => e < d
          BY <1>2, <1>5, <2>5, <3>1 DEF Ends
        <4> QED
          BY <1>2, <1>8, <3>1, <4>1
      <3>2. CASE ~(e <= Len(body))
        <4>1. e = Len(body) + 1
          BY <1>2, <3>2 DEF Ends
        <4>2. \A d \in DocumentEnds(adapter, body) : e <= d => Len(body) < d
          BY <1>2, <1>5, <4>1 DEF Ends
        <4> QED
          BY <1>2, <1>8, <3>2, <4>1, <4>2
      <3> QED
        BY <3>1, <3>2
    <2> QED
      BY <1>7, <1>11, <2>1, <2>2, <2>3, <2>4, <2>6 DEF LineTaken
  <1> QED
    BY <1>9, <1>10, <1>11

LEMMA TakeLineStep == ASSUME StreamInv, TakeLine PROVE StreamInv'
  <1> DEFINE newlines == {i \in DOMAIN pending : pending[i] = "NL"}
             First(i) == pending[i] = "NL" /\ "NL" \notin ToSet(SubSeq(pending, 1, i - 1))
  <1>0. PICK end : end = CHOOSE i \in DOMAIN pending : First(i)
    OBVIOUS
  <1>1. /\ result = "reading" /\ "NL" \in ToSet(pending)
        /\ TakeField(Field(SubSeq(pending, 1, end - 1)))
        /\ pending' = SubSeq(pending, end + 1, Len(pending))
        /\ UNCHANGED <<adapter, body, read>>
    BY <1>0 DEF TakeLine
  <1>2. /\ pending \in Bodies /\ body \in Bodies /\ Len(pending) \in Nat /\ Len(body) \in Nat
        /\ read \in Nat /\ read <= Len(body)
    BY DEF StreamInv, StreamTypeOK, Bodies
  <1>3. newlines # {}
    BY <1>1 DEF ToSet
  <1>4. PICK c \in 0..read : Between(c)
    BY <1>1, <1>3 DEF StreamInv, BodyTaken
  <1>5. c \in Nat /\ c <= read /\ LineStarts(body, c) /\ pending = SubSeq(body, c + 1, read)
    BY <1>2, <1>4 DEF Between
  <1>6. Len(pending) = read - c /\ \A i \in 1..read - c : pending[i] = body[c + i]
    BY <1>2, <1>5, PartOfBody
  <1>7. \E i \in DOMAIN pending : First(i)
    <2>1. newlines \in SUBSET Nat
      BY <1>2 DEF Bodies
    <2>2. PICK m \in newlines : \A k \in newlines : m <= k
      BY <1>3, <2>1, Smallest
    <2>3. m \in 1..Len(pending) /\ pending[m] = "NL"
      BY <1>2, <2>2 DEF Bodies
    <2>4. /\ DOMAIN SubSeq(pending, 1, m - 1) = 1..m - 1
          /\ \A i \in 1..m - 1 : SubSeq(pending, 1, m - 1)[i] = pending[i]
      BY <1>2, <2>3 DEF Bodies
    <2>5. \A i \in 1..m - 1 : pending[i] # "NL"
      BY <1>2, <2>2, <2>3 DEF Bodies
    <2> QED
      BY <2>2, <2>3, <2>4, <2>5 DEF ToSet
  <1>8. /\ end \in 1..Len(pending) /\ pending[end] = "NL"
        /\ "NL" \notin ToSet(SubSeq(pending, 1, end - 1))
    BY <1>0, <1>2, <1>7 DEF Bodies
  <1> HIDE DEF First, newlines
  <1>9. \A i \in 1..end - 1 : pending[i] # "NL"
    <2>1. /\ DOMAIN SubSeq(pending, 1, end - 1) = 1..end - 1
          /\ \A i \in 1..end - 1 : SubSeq(pending, 1, end - 1)[i] = pending[i]
      BY <1>2, <1>8 DEF Bodies
    <2> QED
      BY <1>8, <2>1 DEF ToSet
  <1>10. PICK e : e = c + end
    OBVIOUS
  <1>11. end \in Nat /\ e \in Nat /\ c < e /\ e <= read /\ body[e] = "NL" /\ end >= 1
    BY <1>2, <1>5, <1>6, <1>8, <1>10
  <1>12. NextEnd(body, c, e)
    <2>1. e \in Ends(body)
      BY <1>2, <1>11 DEF Ends
    <2>2. ASSUME NEW k \in c + 1..e - 1 PROVE body[k] # "NL"
      <3>1. k - c \in 1..end - 1 /\ k - c \in 1..read - c /\ c + (k - c) = k
        BY <1>2, <1>5, <1>11, <1>10
      <3> QED
        BY <1>6, <1>9, <3>1
    <2> QED
      BY <1>11, <2>1, <2>2 DEF NextEnd
  <1>13. SubSeq(pending, 1, end - 1) = SubSeq(body, c + 1, e - 1)
    <2>1. LET line == SubSeq(pending, 1, end - 1) IN
             line \in Bodies /\ Len(line) = end - 1 /\ \A i \in 1..end - 1 : line[i] = pending[i]
      BY <1>2, <1>8 DEF Bodies
    <2>2. e - 1 \in Nat /\ c <= e - 1 /\ e - 1 <= Len(body) /\ e - 1 - c = end - 1 /\ end - 1 \in Nat
      BY <1>2, <1>5, <1>11, <1>10
    <2>3. LET line == SubSeq(body, c + 1, e - 1) IN
             line \in Bodies /\ Len(line) = end - 1 /\ \A i \in 1..end - 1 : line[i] = body[c + i]
      BY <1>2, <1>5, <2>2, PartOfBody
    <2>4. \A i \in 1..end - 1 : pending[i] = body[c + i]
      BY <1>2, <1>5, <1>6, <1>8
    <2> QED
      BY <2>1, <2>2, <2>3, <2>4, SameBodies
  <1>14. pending' = SubSeq(body, e + 1, read)
    <2>1. /\ pending' \in Bodies /\ Len(pending') = Len(pending) - end
          /\ \A i \in 1..Len(pending) - end : pending'[i] = pending[end + i]
      BY <1>1, <1>2, <1>8, <1>11, PartOfBody
    <2>2. Len(pending) - end = read - e /\ read - e \in Nat
      BY <1>2, <1>5, <1>6, <1>11, <1>10
    <2>3. ASSUME NEW i \in 1..read - e PROVE pending'[i] = body[e + i]
      <3>1. end + i \in 1..read - c /\ c + (end + i) = e + i
        BY <1>2, <1>5, <1>11, <1>10
      <3>2. pending[end + i] = body[e + i]
        BY <1>6, <3>1
      <3> QED
        BY <2>1, <2>2, <3>2
    <2> DEFINE rest == SubSeq(body, e + 1, read)
    <2>4. rest \in Bodies /\ Len(rest) = read - e /\ \A i \in 1..read - e : rest[i] = body[e + i]
      BY <1>2, <1>11, PartOfBody
    <2> HIDE DEF rest
    <2>5. pending' = rest
      BY <2>1, <2>2, <2>3, <2>4, SameBodies
    <2> QED
      BY <2>5 DEF rest
  <1>15. TakeField(Line(body, e))
    <2>1. Line(body, e) = Field(SubSeq(body, c + 1, e - 1))
      BY <1>2, <1>5, <1>12, LineIsCut
    <2> QED
      BY <1>1, <1>13, <2>1
  <1>16. LineTaken(e)
    <2>1. e <= read + 1 /\ e <= Len(body)
      BY <1>2, <1>11
    <2> QED
      BY <1>1, <1>4, <1>12, <1>15, <2>1, LineKeeps
  <1>17. pending' \in Bodies /\ (\A i \in DOMAIN pending : WasRead(pending[i]))'
    <2>1. /\ pending' \in Bodies /\ Len(pending') = read - e
          /\ \A i \in 1..read - e : pending'[i] = body[e + i]
      BY <1>2, <1>11, <1>14, PartOfBody
    <2>2. DOMAIN pending' = 1..read - e
      BY <2>1 DEF Bodies
    <2>3. \A i \in 1..read - e : e + i \in 1..read
      BY <1>2, <1>11
    <2> QED
      BY <1>1, <2>1, <2>2, <2>3 DEF WasRead
  <1>18. result' = "reading" => Between(e)' /\ e \in 0..read'
    <2> SUFFICES ASSUME result' = "reading" PROVE Between(e)' /\ e \in 0..read'
      OBVIOUS
    <2>1. e <= Len(body) /\ LineStarts(body, e)
      BY <1>2, <1>11 DEF LineStarts
    <2>2. /\ AbsorbedBy(adapter, body, frames', e)
          /\ IF adapter = "ollama" THEN data' = <<>> ELSE DataOf(body, data', Open(body, e))
      BY <1>16, <2>1 DEF LineTaken
    <2>3. Between(e)'
      BY <1>1, <1>11, <1>14, <2>1, <2>2 DEF Between
    <2> QED
      BY <1>1, <1>2, <1>11, <2>3
  <1>19. StreamTypeOK' /\ body' \in Bodies
    BY <1>1, <1>2, <1>16 DEF LineTaken, StreamInv, StreamTypeOK
  <1> QED
    BY <1>16, <1>17, <1>18, <1>19 DEF LineTaken, StreamInv

LEMMA TakeRestStep == ASSUME StreamInv, TakeRest PROVE StreamInv'
  <1>1. /\ result = "reading" /\ "NL" \notin ToSet(pending) /\ pending # <<>> /\ read = Len(body)
        /\ TakeField(Field(pending)) /\ pending' = <<>>
        /\ UNCHANGED <<adapter, body, read>>
    BY DEF TakeRest, Drained
  <1>2. pending \in Bodies /\ body \in Bodies /\ Len(body) \in Nat
    BY DEF StreamInv, Bodies
  <1>3. PICK e \in Nat : e = Len(body) + 1
    BY <1>2
  <1>4. PICK c \in 0..read : Between(c)
    BY <1>1 DEF StreamInv, BodyTaken
  <1>5. c \in Nat /\ c <= Len(body) /\ LineStarts(body, c) /\ pending = SubSeq(body, c + 1, Len(body))
    BY <1>1, <1>2, <1>4 DEF Between
  <1>6. /\ Len(pending) = Len(body) - c /\ DOMAIN pending = 1..Len(body) - c
        /\ \A i \in 1..Len(body) - c : pending[i] = body[c + i]
    BY <1>2, <1>5, PartOfBody DEF Bodies
  <1>7. NextEnd(body, c, e)
    <2>1. ASSUME NEW k \in c + 1..e - 1 PROVE body[k] # "NL"
      <3>1. k - c \in 1..Len(body) - c /\ c + (k - c) = k
        BY <1>2, <1>3, <1>5
      <3> QED
        BY <1>1, <1>6, <3>1 DEF ToSet
    <2> QED
      BY <1>2, <1>3, <1>5, <2>1 DEF NextEnd, Ends
  <1>8. TakeField(Line(body, e)) /\ Line(body, e) # "blank"
    <2>1. Line(body, e) = Field(SubSeq(body, c + 1, e - 1))
      BY <1>2, <1>5, <1>7, LineIsCut
    <2>2. e - 1 = Len(body)
      BY <1>2, <1>3
    <2>3. \A i \in DOMAIN pending : pending[i] # "NL"
      BY <1>1 DEF ToSet
    <2>4. Field(pending) # "blank"
      BY <1>1, <1>2, <2>3, FieldTypes
    <2> QED
      BY <1>1, <1>3, <1>5, <2>1, <2>2, <2>4
  <1>9. e <= read + 1 /\ ~(e <= Len(body)) /\ e \in Nat
    BY <1>1, <1>2, <1>3
  <1>10. Event(body, e) = Open(body, e)
    BY <1>2, <1>3, <1>5, <1>7, <1>8, LinePassed
  <1>11. LineTaken(e)
    BY <1>1, <1>3, <1>4, <1>7, <1>8, <1>9, LineKeeps
  <1>12. result' = "reading" => BodyTaken'
    BY <1>1, <1>3, <1>9, <1>10, <1>11 DEF LineTaken, BodyTaken
  <1>13. StreamTypeOK' /\ body' \in Bodies /\ pending' \in Bodies
    BY <1>1, <1>2, <1>3, <1>11 DEF LineTaken, StreamInv, StreamTypeOK, Bodies
  <1>14. (\A i \in DOMAIN pending : WasRead(pending[i]))'
    BY <1>1
  <1> QED
    BY <1>11, <1>12, <1>13, <1>14 DEF LineTaken, StreamInv

\* All lines are taken; the last event is not, unless there is none.
LEMMA EndReached ==
    ASSUME StreamInv, result = "reading", pending = <<>>, read = Len(body)
    PROVE  BodyTaken
  <1> SUFFICES ASSUME NEW c \in 0..read, Between(c) PROVE BodyTaken
    BY DEF StreamInv
  <1>1. body \in Bodies /\ Len(body) \in Nat
    BY DEF StreamInv, Bodies
  <1>2. c \in Nat /\ c <= Len(body) /\ LineStarts(body, c) /\ pending = SubSeq(body, c + 1, Len(body))
    BY <1>1 DEF Between
  <1>3. c = Len(body)
    <2>1. Len(SubSeq(body, c + 1, Len(body))) = Len(body) - c
      BY <1>1, <1>2, Len(body) <= Len(body), PartOfBody
    <2>2. Len(pending) = 0
      OBVIOUS
    <2>3. Len(pending) = Len(body) - c
      BY <1>2, <2>1, Zenon
    <2> QED
      BY <1>1, <1>2, <2>2, <2>3
  <1>4. NextEnd(body, c, Len(body) + 1)
    BY <1>1, <1>3 DEF NextEnd, Ends
  <1>5. Line(body, Len(body) + 1) = "blank"
    BY <1>1, <1>2, <1>3, <1>4, LineIsCut
  <1>6. Event(body, Len(body) + 1) = Open(body, Len(body))
    BY <1>1, <1>2, <1>3, <1>4, <1>5, LinePassed
  <1>7. CASE adapter = "ollama"
    <2>1. \A d \in DocumentEnds(adapter, body) : d <= Len(body) \/ Len(body) + 1 < d
      BY <1>1, <1>5, <1>7 DEF DocumentEnds, Ends
    <2>2. AbsorbedBy(adapter, body, frames, Len(body)) /\ data = <<>>
      BY <1>3, <1>7 DEF Between
    <2>3. frames \in Seq(Frames) /\ Len(body) + 1 \in Nat /\ Len(body) <= Len(body) + 1
      BY <1>1 DEF StreamInv, StreamTypeOK
    <2>4. AbsorbedBy(adapter, body, frames, Len(body) + 1)
      BY <1>1, <2>1, <2>2, <2>3, NothingTaken
    <2> QED
      BY <2>2, <2>4 DEF BodyTaken
  <1>8. CASE adapter # "ollama"
    BY <1>3, <1>6, <1>8 DEF BodyTaken, Between
  <1> QED
    BY <1>7, <1>8

LEMMA TakeLastEventStep == ASSUME StreamInv, TakeLastEvent PROVE StreamInv'
  <1> DEFINE e == Len(body) + 1
             kind == Joined(data)
  <1>1. /\ result = "reading" /\ read = Len(body) /\ pending = <<>> /\ data # <<>>
        /\ Absorb(kind) /\ data' = <<>> /\ UNCHANGED <<adapter, body, read, pending>>
    BY DEF TakeLastEvent, Drained
  <1>2. /\ body \in Bodies /\ Len(body) \in Nat /\ adapter \in Adapter
        /\ data \in Seq(Frames \cup {"error", "junk"})
        /\ \A i \in DOMAIN data : data[i] = "done" => WasRead("done")
    BY DEF StreamInv, StreamTypeOK, Bodies
  <1>3. /\ adapter # "ollama"
        /\ AbsorbedBy(adapter, body, frames, Len(body))
        /\ DataOf(body, data, Event(body, e))
    BY <1>1, EndReached DEF BodyTaken
  <1>4. e \in DocumentEnds(adapter, body)
    <2>1. Event(body, e) # {}
      BY <1>1, <1>3 DEF DataOf
    <2>2. e \in Ends(body)
      BY <1>2 DEF Ends
    <2> QED
      BY <1>3, <2>1, <2>2 DEF DocumentEnds
  <1>5. \A d \in DocumentEnds(adapter, body) : d <= Len(body) \/ e <= d
    BY <1>2 DEF DocumentEnds, Ends
  <1>6. Document(adapter, kind) = DocumentAt(adapter, body, e)
    <2>1. data \in Seq(Fields)
      BY <1>2 DEF Fields, Frames
    <2> QED
      BY <1>1, <1>2, <1>3, <2>1, EventDocument
  <1>7. kind \in Frames \cup {"error", "junk"} /\ (kind = "done" => WasRead("done"))
    BY <1>1, <1>2 DEF Joined
  <1>8. kind \in Fields /\ kind \notin {"comment", "stub"} /\ Len(body) < e
    BY <1>2, <1>7 DEF Fields, Frames
  <1> HIDE DEF kind, e
  <1>9. /\ frames' \in Seq(Frames) /\ result' \in Failures \cup {"reading", "completed"}
        /\ result' = "reading" => /\ \A i \in DOMAIN frames' : frames'[i] # "done"
                                  /\ AbsorbedBy(adapter, body, frames', e)
        /\ ChunkingIsInvisible' /\ CompletedMeansTerminal' /\ NothingAfterTheEnd'
    BY <1>1, <1>2, <1>3, <1>4, <1>5, <1>6, <1>7, <1>8, AbsorbKeeps
  <1>10. result' = "reading" => BodyTaken'
    BY <1>1, <1>9 DEF BodyTaken, e
  <1>11. StreamTypeOK' /\ body' \in Bodies /\ pending' \in Bodies
    BY <1>1, <1>9 DEF StreamInv, StreamTypeOK
  <1>12. /\ (\A i \in DOMAIN pending : WasRead(pending[i]))'
         /\ (\A i \in DOMAIN data : data[i] = "done" => WasRead("done"))'
    BY <1>1
  <1> QED
    BY <1>9, <1>10, <1>11, <1>12 DEF StreamInv

LEMMA EndOfBodyStep == ASSUME StreamInv, EndOfBody PROVE StreamInv'
  <1>1. /\ result = "reading" /\ read = Len(body) /\ pending = <<>> /\ data = <<>>
        /\ result' = IF adapter = "google" /\ frames # <<>> THEN "completed" ELSE "transport"
        /\ UNCHANGED <<adapter, body, read, pending, data, frames>>
    BY DEF EndOfBody, Drained
  <1>2. body \in Bodies /\ Len(body) \in Nat /\ Len(body) + 1 \in Nat /\ frames \in Seq(Frames)
    BY DEF StreamInv, StreamTypeOK, Bodies
  <1>3. AbsorbedBy(adapter, body, frames, Len(body) + 1)
    <2>1. BodyTaken
      BY <1>1, EndReached
    <2> SUFFICES ASSUME adapter # "ollama", AbsorbedBy(adapter, body, frames, Len(body)),
                        DataOf(body, data, Event(body, Len(body) + 1))
                 PROVE  AbsorbedBy(adapter, body, frames, Len(body) + 1)
      BY <2>1 DEF BodyTaken
    <2>2. Len(body) + 1 \notin DocumentEnds(adapter, body)
      BY <1>1 DEF DataOf, DocumentEnds
    <2>3. \A d \in DocumentEnds(adapter, body) : d <= Len(body) \/ Len(body) + 1 < d
      BY <1>2, <2>2 DEF DocumentEnds, Ends
    <2> QED
      BY <1>2, <2>3, Len(body) <= Len(body) + 1, NothingTaken
  <1>4. CASE adapter = "google" /\ frames # <<>>
    <2>1. DocumentEnds(adapter, body) \subseteq Taken(adapter, body, Len(body) + 1)
      BY <1>2, DocumentsFinite DEF Taken
    <2>2. frames = AnswerOf(adapter, body) /\ IsPrefix(frames, AnswerOf(adapter, body))
      BY <1>2, <1>3, <2>1, AbsorbedIsPrefix
    <2>3. ChunkingIsInvisible'
      BY <1>1, <1>4, <2>2 DEF ChunkingIsInvisible
    <2>4. CompletedMeansTerminal' /\ NothingAfterTheEnd'
      BY <1>1, <1>4 DEF StreamInv, CompletedMeansTerminal, NothingAfterTheEnd
    <2>5. StreamTypeOK' /\ body' \in Bodies /\ pending' \in Bodies
      BY <1>1, <1>4 DEF StreamInv, StreamTypeOK
    <2>6. /\ (\A i \in DOMAIN pending : WasRead(pending[i]))'
          /\ (\A i \in DOMAIN data : data[i] = "done" => WasRead("done"))'
      BY <1>1
    <2> QED
      BY <1>1, <1>4, <2>3, <2>4, <2>5, <2>6 DEF StreamInv
  <1>5. CASE ~(adapter = "google" /\ frames # <<>>)
    <2>1. result' \in Failures \ {"malformed_response", "unclassified"}
      BY <1>1, <1>5 DEF Failures
    <2>2. read' \in 0..Len(body) /\ read <= read'
      BY <1>1, <1>2
    <2> QED
      BY <1>1, <1>2, <1>3, <2>1, <2>2, StopKeeps
  <1> QED
    BY <1>4, <1>5

LEMMA StreamStep == ASSUME StreamAssumption, StreamInv, [StreamNext]_streamVars PROVE StreamInv'
  <1>1. CASE StreamNext
    BY <1>1, ReadStep, TakeLineStep, TakeRestStep, TakeLastEventStep, EndOfBodyStep, StopStep
       DEF StreamNext
  <1>2. CASE UNCHANGED streamVars
    BY <1>2 DEF streamVars, StreamInv, StreamTypeOK, WasRead, BodyTaken, Between,
                ChunkingIsInvisible, CompletedMeansTerminal, NothingAfterTheEnd
  <1> QED
    BY <1>1, <1>2

\* However the body of a streamed answer is divided into chunks and wherever it is cut:
\* what is absorbed of it is a prefix of what the whole body says, all of it in a completed
\* turn; a turn is completed by the terminal frame of its provider only, and nothing is
\* read after that (_iter_lines, _iter_sse, _TurnState).
THEOREM StreamsAreReadFaithfullyAlways ==
    ASSUME StreamAssumption PROVE StreamSpec => []StreamsAreReadFaithfully
  <1>1. StreamInit => StreamInv
    BY StreamStarts
  <1>2. StreamInv /\ [StreamNext]_streamVars => StreamInv'
    BY StreamStep
  <1>3. StreamInv => StreamsAreReadFaithfully
    BY DEF StreamInv, StreamsAreReadFaithfully
  <1> QED
    BY <1>1, <1>2, <1>3, PTL DEF StreamSpec

=============================================================================
