---------------------------- MODULE ModelStream ----------------------------
(***************************************************************************)
(* Reading a provider's streamed answer (modelcall.py): bytes arrive in     *)
(* chunks of any size, _iter_lines cuts them into lines, _iter_sse collects *)
(* the lines of an event, and one of four adapters turns each document into *)
(* a frame that _TurnState absorbs.  The body may be cut anywhere.          *)
(*                                                                          *)
(* A symbol of the body is one whole field (a document that carries text, a *)
(* stop reason, the end marker, an in-band error, undecodable bytes, a      *)
(* comment, a field name cut before its colon) or the newline "NL".         *)
(***************************************************************************)
EXTENDS Naturals, Sequences, FiniteSets, SequencesExt

CONSTANTS Symbols,          \* fields the provider sends in this instance
          MaxBody,          \* bound: symbols of one body
          MaxFrameBytes,    \* max_frame_bytes, in symbols
          MaxResponseBytes  \* max_response_bytes, in symbols

\* What the fields and bounds may be.
StreamAssumption ==
    /\ Symbols \subseteq {"text", "stop", "done", "error", "junk", "comment"}
    /\ {MaxBody, MaxFrameBytes, MaxResponseBytes} \subseteq Nat

VARIABLES
    adapter,
    body,       \* everything that will arrive before the stream ends
    read,       \* symbols read so far: response_bytes
    pending,    \* _iter_lines: bytes after the last newline
    data,       \* _iter_sse: data lines of the event under way
    frames,     \* frames absorbed
    result      \* "reading", "completed" or the failure

streamVars == <<adapter, body, read, pending, data, frames, result>>

Adapter == {"openai_compatible", "anthropic", "google", "ollama"}

Failures == {"timeout", "transport", "malformed_response", "response_too_large",
             "unclassified"}

Frames == {"text", "stop", "done"}

\* What may follow the last whole field: nothing, or a part of one.
Cuts == {<<>>, <<"stub">>, <<"junk">>}

StreamInit ==
    /\ adapter \in Adapter
    /\ \E sent \in SeqOf(Symbols \cup {"NL"}, MaxBody), cut \in Cuts : body = sent \o cut
    /\ read = 0
    /\ pending = <<>> /\ data = <<>> /\ frames = <<>>
    /\ result = "reading"

(***************************************************************************)
(* What a line is, and what a document is.                                  *)
(***************************************************************************)

\* A comment swallows its line, and two fields run together do not decode.
Field(line) ==
    IF line = <<>> THEN "blank"
    ELSE IF Len(line) = 1 \/ line[1] = "comment" THEN line[1] ELSE "junk"

\* The data lines of one event are joined; two documents in one do not decode.
Joined(fields) == IF Len(fields) = 1 THEN fields[1] ELSE "junk"

SseIgnores == {"comment", "stub"}

OpenAiDocument(kind) == kind

MessagesDocument(kind) == kind

\* Google knows no end marker.
GeminiDocument(kind) == IF kind = "done" THEN "junk" ELSE kind

\* A line of NDJSON has neither comments nor fields to ignore.
NdjsonDocument(kind) == IF kind \in SseIgnores THEN "junk" ELSE kind

Document(a, kind) ==
    CASE a = "openai_compatible" -> OpenAiDocument(kind)
      [] a = "anthropic" -> MessagesDocument(kind)
      [] a = "google" -> GeminiDocument(kind)
      [] a = "ollama" -> NdjsonDocument(kind)

FaultOf(document) == IF document = "junk" THEN "malformed_response" ELSE "unclassified"

Absorb(kind) ==
    LET document == Document(adapter, kind) IN
        IF document \in {"junk", "error"}
        THEN result' = FaultOf(document) /\ UNCHANGED frames
        ELSE /\ frames' = Append(frames, document)
             /\ result' = IF document = "done" THEN "completed" ELSE result

\* One line: a document of NDJSON, or a line of server-sent events.
TakeField(field) ==
    IF adapter = "ollama"
    THEN /\ IF field = "blank" THEN UNCHANGED <<frames, result>> ELSE Absorb(field)
         /\ UNCHANGED data
    ELSE IF field = "blank"
    THEN /\ IF data = <<>> THEN UNCHANGED <<frames, result>> ELSE Absorb(Joined(data))
         /\ data' = <<>>
    ELSE /\ data' = IF field \in SseIgnores THEN data ELSE Append(data, field)
         /\ UNCHANGED <<frames, result>>

(***************************************************************************)
(* The reader.  The decoder drains every complete line before it asks for   *)
(* another chunk, and looks at the length of the rest only then.            *)
(***************************************************************************)

Drained == result = "reading" /\ "NL" \notin ToSet(pending)

Fail(failure) ==
    /\ result' = failure
    /\ UNCHANGED <<adapter, body, read, pending, data, frames>>

\* A turn that stops reading: the total or the socket timeout, or a broken
\* connection that the transport reports.
Stall ==
    /\ Drained
    /\ \E failure \in {"timeout", "transport"} : Fail(failure)

Overlong ==
    /\ Drained
    /\ Len(pending) > MaxFrameBytes
    /\ Fail("response_too_large")

\* Mutant of ReadChunk: the unfinished line is dropped when a chunk arrives.
ReadDropping(n) ==
    /\ Drained
    /\ Len(pending) <= MaxFrameBytes
    /\ read + n <= Len(body)
    /\ read' = read + n
    /\ IF read' > MaxResponseBytes
       THEN result' = "response_too_large" /\ UNCHANGED pending
       ELSE pending' = SubSeq(body, read + 1, read + n) /\ UNCHANGED result
    /\ UNCHANGED <<adapter, body, data, frames>>

ReadChunk(n) ==
    /\ Drained
    /\ Len(pending) <= MaxFrameBytes
    /\ read + n <= Len(body)
    /\ read' = read + n
    /\ IF read' > MaxResponseBytes
       THEN result' = "response_too_large" /\ UNCHANGED pending
       ELSE pending' = pending \o SubSeq(body, read + 1, read + n) /\ UNCHANGED result
    /\ UNCHANGED <<adapter, body, data, frames>>

TakeLine ==
    /\ result = "reading"
    /\ "NL" \in ToSet(pending)
    /\ LET end == CHOOSE i \in DOMAIN pending :
                      pending[i] = "NL" /\ "NL" \notin ToSet(SubSeq(pending, 1, i - 1))
       IN  /\ TakeField(Field(SubSeq(pending, 1, end - 1)))
           /\ pending' = SubSeq(pending, end + 1, Len(pending))
    /\ UNCHANGED <<adapter, body, read>>

\* The rest without a newline is a last line.
TakeRest ==
    /\ Drained
    /\ read = Len(body)
    /\ pending # <<>> /\ Len(pending) <= MaxFrameBytes
    /\ TakeField(Field(pending))
    /\ pending' = <<>>
    /\ UNCHANGED <<adapter, body, read>>

\* The event under way is dispatched at the end of the stream.
TakeLastEvent ==
    /\ Drained
    /\ read = Len(body)
    /\ pending = <<>> /\ data # <<>>
    /\ Absorb(Joined(data))
    /\ data' = <<>>
    /\ UNCHANGED <<adapter, body, read, pending>>

\* Without an end marker the stream is truncated; Google's stream has none, so
\* that its end after at least one document counts as one.
EndOfBody ==
    /\ Drained
    /\ read = Len(body)
    /\ pending = <<>> /\ data = <<>>
    /\ result' = IF adapter = "google" /\ frames # <<>> THEN "completed" ELSE "transport"
    /\ UNCHANGED <<adapter, body, read, pending, data, frames>>

StreamNext ==
    \/ \E n \in 1..MaxBody + 1 : ReadChunk(n)
    \/ TakeLine
    \/ TakeRest
    \/ TakeLastEvent
    \/ EndOfBody
    \/ Overlong
    \/ Stall

StreamSpec == StreamInit /\ [][StreamNext]_streamVars

(***************************************************************************)
(* The answer as a function of the whole body.                              *)
(***************************************************************************)

\* Lines of a body b end at its newlines, the last one with the body.
Ends(b) == {e \in 1..Len(b) + 1 : e = Len(b) + 1 \/ b[e] = "NL"}

Line(b, e) ==
    LET start == CHOOSE s \in 1..e : /\ s = 1 \/ b[s - 1] = "NL"
                                     /\ \A k \in s..e - 1 : b[k] # "NL"
    IN  Field(SubSeq(b, start, e - 1))

\* The lines since the last blank one before e, less those that are ignored.
Event(b, e) ==
    {i \in Ends(b) : /\ i <= e
                     /\ Line(b, i) \notin SseIgnores \cup {"blank"}
                     /\ \A k \in Ends(b) : i < k /\ k < e => Line(b, k) # "blank"}

\* A line of NDJSON is a document unless it is blank.  An event of which something
\* is left is one at the next blank line or with the body.
DocumentEnds(a, b) ==
    IF a = "ollama" THEN {e \in Ends(b) : Line(b, e) # "blank"}
    ELSE {e \in Ends(b) : (Line(b, e) = "blank" \/ e = Len(b) + 1) /\ Event(b, e) # {}}

DocumentAt(a, b, e) ==
    Document(a, IF a = "ollama" THEN Line(b, e)
                ELSE IF \E i \in Event(b, e) : Event(b, e) = {i}
                THEN Line(b, CHOOSE i \in Event(b, e) : TRUE)
                ELSE "junk")

\* Documents up to the first that ends the turn, in order.
AnswerEnds(a, b) ==
    {e \in DocumentEnds(a, b) : \A d \in DocumentEnds(a, b) :
        d < e => DocumentAt(a, b, d) \notin {"junk", "error", "done"}}

AnswerOf(a, b) ==
    LET Place(e) == Cardinality({d \in AnswerEnds(a, b) : d <= e})
    IN  [k \in 1..Cardinality(AnswerEnds(a, b)) |->
            DocumentAt(a, b, CHOOSE e \in AnswerEnds(a, b) : Place(e) = k)]

(***************************************************************************)
(* Properties.                                                              *)
(***************************************************************************)

StreamTypeOK ==
    /\ adapter \in Adapter
    /\ read \in 0..Len(body)
    /\ frames \in Seq(Frames)
    /\ data \in Seq(Frames \cup {"error", "junk"})
    /\ result \in Failures \cup {"reading", "completed"}

\* Where the chunks of a body end makes no difference: what was absorbed when
\* the turn ends is a prefix of what the whole body says, all of it in a
\* completed turn, and a fault is that of the document that ended the turn.
ChunkingIsInvisible ==
    result # "reading" =>
        LET answer == AnswerOf(adapter, body) IN
            /\ IsPrefix(frames, answer)
            /\ result = "completed" => frames = answer
            /\ result \in {"malformed_response", "unclassified"} =>
                   /\ Len(answer) = Len(frames) + 1
                   /\ result = FaultOf(Last(answer))

\* An answer is complete only with an end marker of the provider, read whole;
\* for Google only with at least one document and the end of the body.
CompletedMeansTerminal ==
    result = "completed" =>
        /\ frames # <<>>
        /\ IF adapter = "google" THEN read = Len(body)
           ELSE Last(frames) = "done" /\ "done" \in ToSet(SubSeq(body, 1, read))

\* Nothing is read after the frame that ends the turn, whatever follows it.
NothingAfterTheEnd ==
    \A i \in DOMAIN frames : frames[i] = "done" => i = Len(frames) /\ result = "completed"

\* What was absorbed of a stream is what its body says, to its end.
StreamsAreReadFaithfully ==
    StreamTypeOK /\ ChunkingIsInvisible /\ CompletedMeansTerminal /\ NothingAfterTheEnd

\* modelcall.py, of a stream that stops: "a truncated answer must never be
\* presented as a complete one".  Read as: the last document the provider sends
\* of an answer names its stop reason or is the end marker.
TruncatedIsNeverComplete ==
    result = "completed" => Last(frames) \in {"stop", "done"}
=============================================================================
