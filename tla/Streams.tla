------------------------------ MODULE Streams ------------------------------
(***************************************************************************)
(* A streamed chat answer: the body arrives in parts of any size, the HTTP *)
(* adapter splits it into server-sent events (take_sse_frame), and the     *)
(* SDK's ConfidentialChatStream turns what it gets into chunks.  A custom  *)
(* adapter may hand the body to the SDK as it arrives, events and all.     *)
(*                                                                         *)
(* A body is a sequence of pieces that a part never splits: "data:", line  *)
(* ends, the halves "a" and "b" of a chunk, a whole chunk "u" that reports *)
(* usage, JSON "e" that is no chunk, and "[DONE]".                         *)
(***************************************************************************)
EXTENDS Integers, Sequences, SequencesExt

CONSTANTS
    Bodies,      \* answers that providers stream: [events, crlf, missing]
    MaxResponse, \* MAX_PROVIDER_RESPONSE_BYTES, in pieces
    MaxBuffer    \* MAX_STREAM_BUFFER_BYTES, in pieces

VARIABLES
    answer,      \* the answer, and as it goes over the wire
    body,        \* its bytes, and
    arrived,     \* how much of it has arrived
    raw,         \* the adapter passes the body on
    frames,      \* the adapter's buffer
    buffer,      \* the SDK's buffer
    ended,       \* the SDK will see no more items
    done,        \* ConfidentialChatStream.done
    out,         \* what next() has returned: chunks and errors
    usage,       \* terminal_usage is known
    cut          \* ghost: the body was cut off by an error or a limit

streamVars == <<answer, body, arrived, raw, frames, buffer, ended, done, out, usage, cut>>

LF == "\n"
CR == "\r"

Failure == <<"error">>

IsChunk(bytes) == bytes \in {<<"a", "b">>, <<"u">>}
IsJson(bytes) == IsChunk(bytes) \/ bytes = <<"e">>

InData(bytes) == bytes # <<>> /\ Head(bytes) = "data:"

\* JSON may be followed by white space.
TrimEnd(bytes) ==
    LET kept == {i \in DOMAIN bytes : bytes[i] \notin {LF, CR}}
    IN  IF kept = {} THEN <<>> ELSE SubSeq(bytes, 1, Max(kept))

At(bytes, pattern) ==
    {i \in 1..(Len(bytes) - Len(pattern) + 1) : SubSeq(bytes, i, i + Len(pattern) - 1) = pattern}

\* Fault: any line end ends an event.
LineEnd(bytes) ==
    IF At(bytes, <<LF>>) # {} THEN [at |-> Min(At(bytes, <<LF>>)), len |-> 1] ELSE [at |-> 0, len |-> 0]

\* Where the first event ends: CR LF CR LF anywhere is looked for before LF LF.
EventEnd(bytes) ==
    LET crlf == At(bytes, <<CR, LF, CR, LF>>)
        lf == At(bytes, <<LF, LF>>)
    IN  CASE crlf # {} -> [at |-> Min(crlf), len |-> 4]
          [] crlf = {} /\ lf # {} -> [at |-> Min(lf), len |-> 2]
          [] OTHER -> [at |-> 0, len |-> 0]

Event(bytes) == SubSeq(bytes, 1, EventEnd(bytes).at - 1)
AfterEvent(bytes) == SubSeq(bytes, EventEnd(bytes).at + EventEnd(bytes).len, Len(bytes))
Incomplete(bytes) == EventEnd(bytes).len = 0

\* The payloads of the data: lines of an event
DataLines(event) ==
    LET ends == {0, Len(event) + 1} \cup At(event, <<LF>>)
        Line(i) == LET stop == Min({j \in ends : j > i})
                       line == SubSeq(event, i + 1, stop - 1)
                   IN  IF line # <<>> /\ Last(line) = CR THEN Front(line) ELSE line
        starts == SelectSeq([i \in 1..Len(event) + 1 |-> i - 1],
                            LAMBDA i : i \in ends /\ Line(i) # <<>> /\ Head(Line(i)) = "data:")
    IN  [k \in DOMAIN starts |-> Tail(Line(starts[k]))]

\* What take_sse_frame makes of an event: the first payload that is not empty
FramePayload(event) ==
    LET payloads == SelectSeq(DataLines(event), LAMBDA p : p # <<>>)
    IN  IF payloads = <<>> THEN <<>> ELSE payloads[1]

\* What the SDK makes of an event: its payloads, joined by line ends
JoinedPayload(event) ==
    LET payloads == DataLines(event)
        Sep(k) == IF k > 1 /\ \E j \in 1..(k - 1) : payloads[j] # <<>> THEN <<LF>> ELSE <<>>
    IN  FlattenSeq([k \in DOMAIN payloads |-> Sep(k) \o payloads[k]])

-----------------------------------------------------------------------------
(* ConfidentialChatStream *)

\* record_chunk: usage counts only on a chunk that ends the answer
Chunk(bytes) ==
    /\ out' = Append(out, TrimEnd(bytes))
    /\ usage' = (usage \/ TrimEnd(bytes) = <<"u">>)

Fails == out' = Append(out, Failure) /\ UNCHANGED usage

\* parse_chunk: a malformed item ends the stream
ParseChunk(bytes, rest) ==
    \/ IsChunk(TrimEnd(bytes)) /\ Chunk(bytes) /\ buffer' = rest /\ done' = ended
    \/ ~IsChunk(TrimEnd(bytes)) /\ Fails /\ buffer' = <<>> /\ done' = TRUE

Finish(rest) == done' = TRUE /\ buffer' = rest /\ UNCHANGED <<out, usage>>

\* take_buffered_chunk returns nothing: an event has begun, or no JSON is complete
NeedsMore ==
    /\ ~ended /\ Incomplete(buffer)
    /\ \/ buffer # <<>> /\ Head(buffer) = "data:"
       \/ buffer # <<"[DONE]">> /\ ~IsJson(TrimEnd(buffer))

\* take_buffered_chunk: one turn of its loop
TakeEvent ==
    LET data == JoinedPayload(Event(buffer)) IN
    /\ ~Incomplete(buffer)
    /\ \/ data = <<>> /\ buffer' = AfterEvent(buffer) /\ UNCHANGED <<done, out, usage>>
       \/ data = <<"[DONE]">> /\ Finish(AfterEvent(buffer))
       \/ data \notin {<<>>, <<"[DONE]">>} /\ ParseChunk(data, AfterEvent(buffer))

TakeRest ==
    /\ Incomplete(buffer)
    /\ \/ /\ InData(buffer) /\ ended
          /\ \/ Tail(buffer) = <<"[DONE]">> /\ Finish(<<>>)
             \/ Tail(buffer) # <<"[DONE]">> /\ ParseChunk(Tail(buffer), <<>>)
       \/ /\ ~InData(buffer)
          /\ \/ buffer = <<"[DONE]">> /\ Finish(<<>>)
             \/ buffer # <<"[DONE]">> /\ IsChunk(TrimEnd(buffer)) /\ ParseChunk(buffer, <<>>)
             \/ buffer # <<"[DONE]">> /\ ~IsChunk(TrimEnd(buffer)) /\ buffer # <<>>
                   /\ (ended \/ IsJson(TrimEnd(buffer))) /\ ParseChunk(buffer, <<>>)
             \/ buffer = <<>> /\ ended /\ Finish(<<>>)

\* next(), over what is buffered.  At the end of the items one more is taken.
NextChunk ==
    /\ ~done
    /\ \/ Len(buffer) > MaxBuffer /\ Fails /\ buffer' = <<>> /\ done' = TRUE /\ cut' = TRUE
       \/ Len(buffer) <= MaxBuffer /\ (TakeEvent \/ TakeRest) /\ UNCHANGED cut
    /\ UNCHANGED <<answer, body, arrived, raw, frames, ended>>

-----------------------------------------------------------------------------
(* The items of the adapter *)

Waiting == ~done /\ ~ended /\ NeedsMore /\ Len(buffer) <= MaxBuffer

ItemFails == out' = Append(out, Failure) /\ done' = TRUE /\ UNCHANGED <<buffer, usage>>

\* sse_body_stream with a complete event in its buffer
TakeSseFrame ==
    LET payload == FramePayload(Event(frames)) IN
    /\ Waiting /\ ~raw /\ ~Incomplete(frames)
    /\ frames' = AfterEvent(frames)
    /\ \/ payload = <<>> /\ UNCHANGED <<buffer, ended, done, out, usage>>
       \/ payload = <<"[DONE]">> /\ ended' = TRUE /\ UNCHANGED <<buffer, done, out, usage>>
       \/ /\ payload \notin {<<>>, <<"[DONE]">>} /\ IsJson(payload)
          /\ buffer' = buffer \o payload /\ UNCHANGED <<ended, done, out, usage>>
       \/ payload \notin {<<>>, <<"[DONE]">>} /\ ~IsJson(payload) /\ ItemFails /\ UNCHANGED ended
    /\ UNCHANGED <<answer, body, arrived, raw, cut>>

Reads == Waiting /\ (raw \/ Incomplete(frames))

\* The next part of the body, of any size
ReadPart(n) ==
    LET part == SubSeq(body, arrived + 1, arrived + n) IN
    /\ Reads /\ arrived + n <= Len(body)
    /\ arrived' = arrived + n
    /\ \/ raw /\ buffer' = buffer \o part /\ UNCHANGED <<frames, done, out, usage, cut>>
       \/ /\ ~raw /\ Len(frames) + n <= MaxResponse
          /\ frames' = frames \o part /\ UNCHANGED <<buffer, done, out, usage, cut>>
       \/ ~raw /\ Len(frames) + n > MaxResponse /\ ItemFails /\ cut' = TRUE /\ UNCHANGED frames
    /\ UNCHANGED <<answer, body, raw, ended>>

\* The connection breaks.
ReadFails ==
    /\ Reads /\ ItemFails /\ cut' = TRUE
    /\ UNCHANGED <<answer, body, arrived, raw, frames, ended>>

\* The body is complete; an event without its end is dropped by the adapter.
ReadEnds ==
    /\ Reads /\ arrived = Len(body)
    /\ ended' = TRUE
    /\ UNCHANGED <<answer, body, arrived, raw, frames, buffer, done, out, usage, cut>>

\* An event is a sequence of lines; the last may lack some of its line ends.
Bytes(sent) ==
    LET eol == IF sent.crlf THEN <<CR, LF>> ELSE <<LF>>
        Rendered(event) == FlattenSeq([i \in DOMAIN event |-> event[i] \o eol]) \o eol
        all == FlattenSeq([i \in DOMAIN sent.events |-> Rendered(sent.events[i])])
    IN  SubSeq(all, 1, Len(all) - sent.missing)

StreamInit ==
    /\ answer \in Bodies /\ body = Bytes(answer) /\ arrived = 0 /\ raw \in BOOLEAN
    /\ frames = <<>> /\ buffer = <<>> /\ ended = FALSE /\ done = FALSE
    /\ out = <<>> /\ usage = FALSE /\ cut = FALSE

StreamNext ==
    \/ NextChunk \/ TakeSseFrame \/ ReadFails \/ ReadEnds
    \/ \E n \in 1..Len(body) : ReadPart(n)

StreamSpec == StreamInit /\ [][StreamNext]_streamVars

-----------------------------------------------------------------------------
(* Properties *)

\* What the events say that were sent in full, up to the end or the first error:
\* the SDK joins the data lines of an event, the adapter takes the first
Payload(event) ==
    LET data == SelectSeq(event, LAMBDA line : Head(line) = "data:")
        full == SelectSeq(data, LAMBDA line : Len(line) > 1)
    IN  CASE full = <<>> -> <<>>
          [] full # <<>> /\ raw ->
                FlattenSeq([i \in DOMAIN full |-> (IF i = 1 THEN <<>> ELSE <<LF>>) \o Tail(full[i])])
          [] OTHER -> Tail(full[1])

Whole == answer.missing = 0

Expected ==
    LET sent == IF Whole THEN answer.events ELSE Front(answer.events)
        payloads == SelectSeq([i \in DOMAIN sent |-> Payload(sent[i])], LAMBDA p : p # <<>>)
        stops == {i \in DOMAIN payloads : ~IsChunk(payloads[i])}
        stop == IF stops = {} THEN Len(payloads) + 1 ELSE Min(stops)
        chunks == SubSeq(payloads, 1, stop - 1)
    IN  IF stop <= Len(payloads) /\ payloads[stop] # <<"[DONE]">>
        THEN Append(chunks, Failure) ELSE chunks

\* Nothing follows an error, the usage is known as soon as a chunk with it was returned and
\* not before, and a body that was cut off by a broken connection or a limit ends with an error.
ErrorsEnd ==
    /\ \A i \in DOMAIN out : out[i] = Failure => i = Len(out) /\ done
    /\ usage <=> Contains(out, <<"u">>)
    /\ cut => done /\ Last(out) = Failure

\* However the network cuts a body into parts, the application gets the same
\* chunks in the same order, once each, and the same usage; a broken connection or
\* a limit loses only a tail, which an error reports; and after an error there is
\* nothing.  (Bodies whose events all end alike.)
ChunkingIrrelevant ==
    /\ ErrorsEnd
    /\ IF cut THEN IsPrefix(Front(out), Expected)
       ELSE ~done => IsPrefix(out, Expected)
    /\ done /\ ~cut => IF Whole THEN out = Expected
                       ELSE IsPrefix(Expected, out) /\ Len(out) <= Len(Expected) + 1
=============================================================================
