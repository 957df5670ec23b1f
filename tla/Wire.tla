-------------------------------- MODULE Wire --------------------------------
(***************************************************************************)
(* The bytes between a client and PGlite (src/duplex/index.ts, the framing *)
(* half of the duplex; its session and its teardown are module Duplex).    *)
(*                                                                         *)
(* A client writes the bytes of a conversation in chunks that end anywhere.*)
(* The duplex takes whole messages off its buffer, holds back a batch up   *)
(* to its Sync or Flush and a COPY FROM STDIN up to its end, gives PGlite  *)
(* one call for each, and frames the response, whose chunks end anywhere   *)
(* too.  What a call answers is external: `Replies'.                       *)
(***************************************************************************)
EXTENDS FrontendBuffer, BackendFramer, CopyIn

CONSTANTS
    Conversations,         \* [startup, messages, cuts]: what the client sends, and
                           \* a bound on the chunk ends that are not message ends
    Replies(_),            \* the replies of PGlite to a call of a mode
    copyAggregateCapBytes

Modes == {"passthrough", "suppress", "flush-boundary", "copy-in"}

\* What a message says its length is, after its type byte if it has one.
Declared(message, typed) == UInt32(SubSeq(message, typed + 1, typed + 4))

\* Message k of a conversation has the length it declares, or is one to be refused;
\* a startup message has no type byte.
WellSent(c, k) ==
    LET message == c.messages[k]
        typed == IF c.startup /\ k = 1 THEN 0 ELSE 1
    IN  /\ Len(message) >= typed + 4
        /\ \/ Malformed(Declared(message, typed))
           \/ typed = 0 /\ Declared(message, 0) < 8
           \/ Declared(message, typed) = Len(message) - typed

\* Message i of a reply is whole and of a length a message can have, and a ReadyForQuery
\* is its status; the last one may also make no sense, or end early.
WellAnswered(reply, i) ==
    LET message == reply[i]
        short == Len(message) < 5 \/ Declared(message, 1) > Len(message) - 1
    IN  /\ message # <<>>
        /\ \/ Len(message) >= 5 /\ Declared(message, 1) = Len(message) - 1
           \/ i = Len(reply) /\ (short \/ Malformed(Declared(message, 1)))
        /\ i < Len(reply) => ~Malformed(Declared(message, 1))
        /\ TypeOf(message) = READY_FOR_QUERY /\ Len(message) >= 5 => Declared(message, 1) = 5

ASSUME ConversationAssumption ==
    /\ copyAggregateCapBytes \in Nat
    /\ \A c \in Conversations :
          /\ c.startup \in BOOLEAN /\ c.messages \in Seq(Seq(Nat)) /\ c.cuts \in Nat
          /\ \A k \in DOMAIN c.messages : WellSent(c, k)

ASSUME ReplyAssumption ==
    \A rfqMode \in Modes : \A reply \in Replies(rfqMode) :
        /\ reply \in Seq(Seq(Nat))
        /\ \A i \in DOMAIN reply : WellAnswered(reply, i)

VARIABLES
    conversation,
    written,    \* bytes of it the client wrote
    cuts,       \* chunk ends left
    phase,      \* "pre_startup", "ready", "terminated"
    input,      \* the FrontendMessageBuffer
    pipeline,   \* held back until Sync or Flush
    copyCapture,
    at,         \* "idle", "wrote", "draining", "calling", "failed"
    mode,       \* rfqMode of the call
    response,   \* what PGlite has yet to deliver of its answer
    \* history
    taken,      \* messages taken off the buffer
    calls,      \* [sent, mode, reply]
    expected    \* what the client should have got once the call returns

historyVars == <<taken, calls, expected>>
duplexVars == <<phase, input, pipeline, copyCapture, at, mode, response>>
wireVars == <<framerVars, conversation, written, cuts, duplexVars, historyVars>>

NoCapture == [on |-> FALSE, chunks |-> <<>>, total |-> 0, discarding |-> FALSE]
Bytes == FlattenSeq(conversation.messages)

WireInit ==
    /\ FramerInit
    /\ conversation \in Conversations
    /\ written = 0 /\ cuts = conversation.cuts
    /\ phase = IF conversation.startup THEN "pre_startup" ELSE "ready"
    /\ input = EmptyBuffer /\ pipeline = <<>> /\ copyCapture = NoCapture
    /\ at = "idle" /\ mode = "passthrough" /\ response = <<>>
    /\ taken = <<>> /\ calls = <<>> /\ expected = <<>>

-----------------------------------------------------------------------------
(* What the client should see of PGlite's answer.                           *)

IsReady(message) == TypeOf(message) = READY_FOR_QUERY
Errored(reply) == \E i \in DOMAIN reply : TypeOf(reply[i]) = ERROR_RESPONSE

\* Message i of a reply reaches the client: where intermediate ones are suppressed, of
\* the ReadyForQuery the last alone; of a copy's CopyInResponse all but the first.
Shown(rfqMode, reply, i) ==
    CASE IsReady(reply[i]) -> \/ rfqMode \in {"passthrough", "copy-in"}
                              \/ /\ i = Len(reply)
                                 /\ rfqMode = "suppress" \/ Errored(reply)
      [] TypeOf(reply[i]) = COPY_IN_RESPONSE ->
            rfqMode # "copy-in" \/ \E k \in 1..(i - 1) : TypeOf(reply[k]) = COPY_IN_RESPONSE
      [] OTHER -> TRUE

Seen(message) == IF rewrites /\ TypeOf(message) = ROW_DESCRIPTION THEN Rewritten(message)
                 ELSE message

ShownParts(rfqMode, reply) ==
    [i \in DOMAIN reply |-> IF Shown(rfqMode, reply, i) THEN Seen(reply[i]) ELSE <<>>]

Answer(rfqMode, reply) == FlattenSeq(ShownParts(rfqMode, reply))

-----------------------------------------------------------------------------
(* The client.                                                              *)

\* The chunk ends at a message's end, or anywhere while cuts are left.
MessageEnds == {Len(FlattenSeq(SubSeq(conversation.messages, 1, k))) :
                  k \in 0..Len(conversation.messages)}

\* _write, and _writev when the Writable had several chunks.
Write ==
    /\ at \in {"idle", "wrote"} /\ phase # "terminated"
    /\ \E end \in (written + 1)..Len(Bytes) :
          /\ IF end \in MessageEnds THEN UNCHANGED cuts ELSE cuts > 0 /\ cuts' = cuts - 1
          /\ input' = push(input, SubSeq(Bytes, written + 1, end))
          /\ written' = end
    /\ at' = "wrote"
    /\ UNCHANGED <<framerVars, conversation, phase, pipeline, copyCapture, mode, response,
                   historyVars>>

Drain ==
    /\ at = "wrote" /\ at' = "draining"
    /\ UNCHANGED <<framerVars, conversation, written, cuts, phase, input, pipeline, copyCapture,
                   mode, response, historyVars>>

-----------------------------------------------------------------------------
(* Taking messages off the buffer.                                          *)

HeaderSize == IF phase = "pre_startup" THEN 4 ELSE 5
HasHeader == input.totalLength >= HeaderSize
DeclaredLength == readUInt32BE(input, HeaderSize - 4)
MessageSize == IF phase = "pre_startup" THEN DeclaredLength ELSE 1 + DeclaredLength
BadHeader == \/ Malformed(DeclaredLength)
             \/ phase = "pre_startup" /\ DeclaredLength < 8
\* Mutant of Complete: a message is taken once a byte of the next is there.
CompleteLate == HasHeader /\ ~BadHeader /\ input.totalLength > MessageSize

Complete == HasHeader /\ ~BadHeader /\ input.totalLength >= MessageSize
NextMessage == consume(input, MessageSize)

\* Mutant of ArmsDrop: a captured conversation is framed like a query.
ArmsNever(rfqMode) == FALSE

ArmsDrop(rfqMode) == rfqMode = "copy-in"

\* streamProtocol up to its call: the framer starts afresh.
streamProtocol(message, rfqMode) ==
    /\ mode' = rfqMode
    /\ errSeen' = FALSE
    /\ reset(rfqMode \in {"suppress", "flush-boundary"}, ArmsDrop(rfqMode))
    /\ at' = "calling"
    /\ \E reply \in Replies(rfqMode) :
          /\ response' = FlattenSeq(reply)
          /\ calls' = Append(calls, [sent |-> message, mode |-> rfqMode, reply |-> reply])
          /\ expected' = expected \o Answer(rfqMode, reply)
    /\ UNCHANGED <<rewrites, chunk, passthrough, received, lastSeen>>

NoCall == UNCHANGED <<framerVars, at, mode, response, calls, expected>>

\* The duplex answers by itself.
Push(bytes) ==
    /\ received' = received \o bytes /\ expected' = expected \o bytes
    /\ UNCHANGED <<suppress, rewrites, perFrame, held, rowDesc, dropNext, chunk, passthrough,
                   errSeen, lastSeen, at, mode, response, calls>>

SyntheticCopyInResponse == Message(COPY_IN_RESPONSE, <<0, 0, 0>>)
SyntheticError == Message(ERROR_RESPONSE, <<1>>)
SyntheticReadyForQuery == ReadyForQuery(lastSeen)

Fails == /\ at' = "failed"
        /\ UNCHANGED <<framerVars, conversation, written, cuts, phase, input, pipeline, copyCapture,
                       mode, response, historyVars>>

processPreStartup ==
    /\ phase = "pre_startup"
    /\ streamProtocol(NextMessage.message, "passthrough")
    /\ UNCHANGED <<phase, pipeline, copyCapture>>

\* A Terminate ends the stream, whatever came with it.
Terminate(message) ==
    /\ TypeOf(message) = TERMINATE
    /\ phase' = "terminated" /\ pipeline' = <<>> /\ copyCapture' = NoCapture
    /\ at' = "idle"
    /\ UNCHANGED <<framerVars, mode, response, calls, expected>>

\* Mutant of appendCopyCapture: what was captured is counted without the message.
appendOverCap(capture, message) ==
    IF capture.discarding THEN capture
    ELSE IF capture.total > copyAggregateCapBytes
    THEN [capture EXCEPT !.discarding = TRUE, !.chunks = <<>>]
    ELSE [capture EXCEPT !.total = @ + Len(message), !.chunks = Append(@, message)]

\* The first message past the cap releases what was captured.
appendCopyCapture(capture, message) ==
    IF capture.discarding THEN capture
    ELSE IF Len(message) > copyAggregateCapBytes - capture.total
    THEN [capture EXCEPT !.discarding = TRUE, !.chunks = <<>>]
    ELSE [capture EXCEPT !.total = @ + Len(message), !.chunks = Append(@, message)]

CopyData(message) ==
    /\ copyCapture.on /\ TypeOf(message) = COPY_DATA
    /\ copyCapture' = appendCopyCapture(copyCapture, message)
    /\ NoCall /\ UNCHANGED <<phase, pipeline>>

\* The conversation is one call, or an error if it passed the cap.
CopyEnd(message) ==
    /\ copyCapture.on /\ TypeOf(message) \in {COPY_DONE, COPY_FAIL}
    /\ copyCapture' = NoCapture
    /\ LET whole == appendCopyCapture(copyCapture, message)
       IN  IF whole.discarding THEN Push(SyntheticError \o SyntheticReadyForQuery)
           ELSE streamProtocol(FlattenSeq(whole.chunks), "copy-in")
    /\ UNCHANGED <<phase, pipeline>>

EndsBatch(message) == TypeOf(message) \in {SYNC, FLUSH}

Batch(message) ==
    /\ ~copyCapture.on /\ TypeOf(message) \in EQP_MESSAGES \cup {SYNC, FLUSH}
    /\ \/ /\ ~EndsBatch(message)
          /\ pipeline' = Append(pipeline, message)
          /\ NoCall
       \/ /\ EndsBatch(message)
          /\ pipeline' = <<>>
          /\ streamProtocol(FlattenSeq(Append(pipeline, message)),
                            IF TypeOf(message) = SYNC THEN "suppress" ELSE "flush-boundary")
    /\ UNCHANGED <<phase, copyCapture>>

\* The text has no terminating zero; a message too short for one has no text.
queryText(message) == SubSeq(message, 6, Len(message) - 1)
Verdict(message) == IF TypeOf(message) = QUERY THEN sniffCopyIn(queryText(message))
                    ELSE "not-copy-in"

Standalone(message) ==
    /\ ~copyCapture.on
    /\ TypeOf(message) \notin EQP_MESSAGES \cup {SYNC, FLUSH, TERMINATE}
    /\ \/ /\ Verdict(message) = "capture"
          /\ copyCapture' = appendCopyCapture([NoCapture EXCEPT !.on = TRUE], message)
          /\ Push(SyntheticCopyInResponse)
       \/ /\ Verdict(message) = "reject-multi"
          /\ Push(SyntheticError \o SyntheticReadyForQuery)
          /\ UNCHANGED copyCapture
       \/ /\ Verdict(message) = "not-copy-in"
          /\ streamProtocol(message, "passthrough")
          /\ UNCHANGED copyCapture
    /\ UNCHANGED <<phase, pipeline>>

\* During a capture nothing else is allowed.
ProtocolViolation(message) ==
    /\ copyCapture.on /\ TypeOf(message) \notin {TERMINATE, COPY_DATA, COPY_DONE, COPY_FAIL}
    /\ at' = "failed"
    /\ UNCHANGED <<framerVars, phase, pipeline, copyCapture, mode, response, calls, expected>>

processMessage(message) ==
    /\ phase = "ready"
    /\ \/ Terminate(message) \/ CopyData(message) \/ CopyEnd(message)
       \/ Batch(message) \/ Standalone(message) \/ ProtocolViolation(message)

Process ==
    /\ at = "draining" /\ phase # "terminated" /\ Complete
    /\ LET next == NextMessage
       IN  /\ taken' = Append(taken, next.message)
           /\ processPreStartup \/ processMessage(next.message)
           /\ input' = IF phase' = "terminated" THEN EmptyBuffer ELSE next.left
    /\ UNCHANGED <<conversation, written, cuts>>

\* What is left is not a whole message: more will come.
Await ==
    /\ at = "draining" /\ ~Complete /\ ~(HasHeader /\ BadHeader)
    /\ at' = "idle"
    /\ UNCHANGED <<framerVars, conversation, written, cuts, phase, input, pipeline, copyCapture,
                   mode, response, historyVars>>

Refuse == at = "draining" /\ HasHeader /\ BadHeader /\ Fails

-----------------------------------------------------------------------------
(* The call.                                                                *)

\* PGlite delivers some of what is left, after the previous chunk was written.
Deliver ==
    /\ at = "calling" /\ chunk = <<>> /\ passthrough = <<>>
    /\ \E n \in 1..Len(response) :
          /\ IF n = Len(response) THEN UNCHANGED cuts ELSE cuts > 0 /\ cuts' = cuts - 1
          /\ chunk' = SubSeq(response, 1, n)
          /\ response' = SubSeq(response, n + 1, Len(response))
    /\ UNCHANGED <<suppress, rewrites, perFrame, held, rowDesc, dropNext, passthrough, received,
                   errSeen, lastSeen, conversation, written, phase, input, pipeline, copyCapture,
                   at, mode, historyVars>>

FrameChunk ==
    /\ at = "calling" /\ write
    /\ UNCHANGED <<conversation, written, cuts, duplexVars, historyVars>>

Delivered == response = <<>> /\ chunk = <<>> /\ passthrough = <<>>

DropsHeld == mode = "flush-boundary" /\ ~errSeen

Return ==
    /\ at = "calling" /\ Delivered
    /\ flush(DropsHeld)
    /\ at' = "draining"
    /\ phase' = "ready"
    /\ UNCHANGED <<suppress, rewrites, perFrame, rowDesc, dropNext, chunk, passthrough, errSeen,
                   lastSeen, conversation, written, cuts, input, pipeline, copyCapture, mode,
                   response, historyVars>>

\* A response that makes no sense, or that ends inside a message; or the call throws.
CallFails == /\ at = "calling"
             /\ WriteThrows \/ (Delivered /\ FlushThrows) \/ (chunk = <<>> /\ passthrough = <<>>)
             /\ Fails

-----------------------------------------------------------------------------
WireNext == Write \/ Drain \/ Process \/ Await \/ Refuse
            \/ Deliver \/ FrameChunk \/ Return \/ CallFails

WireSpec == WireInit /\ [][WireNext]_wireVars

-----------------------------------------------------------------------------
Taken == Len(taken)
WrittenWhole == Cardinality({k \in 1..Len(conversation.messages) :
                              Len(FlattenSeq(SubSeq(conversation.messages, 1, k))) <= written})

\* The messages that a run of bytes holds.
Split(bytes) ==
    LET from[i \in Nat] ==
            IF i > Len(bytes) THEN <<>>
            ELSE LET end == i + UInt32(SubSeq(bytes, i + 1, i + 4))
                 IN  <<SubSeq(bytes, i, end)>> \o from[end + 1]
    IN  from[1]

Count(messages, types) == Cardinality({i \in DOMAIN messages : TypeOf(messages[i]) \in types})

\* The status in a reply's last ReadyForQuery.
ReadyIn(reply) == {i \in DOMAIN reply : IsReady(reply[i])}
StatusOf(reply) == PayloadOf(reply[Max(ReadyIn(reply))])[1]

LastStatus == LET answered == {c \in DOMAIN calls : ReadyIn(calls[c].reply) # {}}
              IN  IF answered = {} THEN RFQ_STATUS_IDLE ELSE StatusOf(calls[Max(answered)].reply)

\* The buffer's and the capture's accounting: the index stays within the
\* array, and a capture stays within its cap (frontend-buffer.ts, copyCapture).
WireTypeOK ==
    /\ input.headIndex \in 0..Len(input.chunks) /\ input.headOffset \in Nat
    /\ input.headOffset > 0 => input.headOffset < Len(HeadChunk(input))
    /\ input.totalLength = Len(Contents(input))
    /\ copyCapture.total \in 0..copyAggregateCapBytes
    /\ copyCapture.total = Len(FlattenSeq(copyCapture.chunks)) \/ copyCapture.discarding
    /\ phase \in {"pre_startup", "ready", "terminated"}
    /\ at \in {"idle", "wrote", "draining", "calling", "failed"}
    /\ mode \in Modes
    /\ Len(header) <= 4 /\ Len(held) <= 6 /\ remaining \in Nat
    /\ suppress \in BOOLEAN /\ rewrites \in BOOLEAN /\ rfqFrame \in BOOLEAN
    /\ dropNext \in BOOLEAN /\ dropping \in BOOLEAN /\ errSeen \in BOOLEAN

\* However the client's bytes were cut, the duplex takes exactly the messages
\* it sent, in order; it keeps the bytes of an unfinished one, and waits for
\* more only when every whole message was taken (processMessages).
FramesIntact ==
    /\ IsPrefix(taken, conversation.messages)
    /\ phase # "terminated" =>
          FlattenSeq(taken) \o Contents(input) = SubSeq(Bytes, 1, written)
    /\ at = "idle" /\ phase # "terminated" => Taken = WrittenWhole
    /\ phase = "terminated" => Contents(input) = <<>> /\ TypeOf(Last(taken)) = TERMINATE

\* However PGlite's answer was cut, the client gets that answer in order, less
\* what its mode withholds, and never bytes of another; the duplex has seen
\* its errors and its last status (backend-framer.ts, streamProtocol).
AnswersFaithful ==
    /\ IsPrefix(received, expected)
    /\ at \notin {"calling", "failed"} =>
          /\ received = expected
          /\ lastSeen = LastStatus
          /\ calls # <<>> => (errSeen <=> Errored(Last(calls).reply))

\* PGlite never reads a copy's query without the copy's end in the same call,
\* nor a copy past the cap: its backend would exit on the exhausted input
\* (comment at copy-in.ts:5-12).  What is a copy, PostgreSQL's lexer decides.
CopyWhole ==
    \A c \in DOMAIN calls :
        LET sent == calls[c].sent
            messages == Split(sent)
        IN  (TypeOf(sent) = QUERY /\ StartsCopy(queryText(messages[1]))) =>
                /\ TypeOf(Last(messages)) \in {COPY_DONE, COPY_FAIL}
                /\ Count(messages, {COPY_DONE, COPY_FAIL}) = 1
                /\ Len(sent) <= copyAggregateCapBytes

\* What pg's state machine counts on: one CopyInResponse for a copy, and one
\* ReadyForQuery for each query, Sync, finished copy and failed Flush batch.
AnsweredOnce ==
    at = "idle" =>
        LET got == Split(received)
            copies == {i \in DOMAIN taken : Verdict(taken[i]) = "capture"}
            flushErrors == {c \in DOMAIN calls : /\ calls[c].mode = "flush-boundary"
                                                 /\ Errored(calls[c].reply)
                                                 /\ IsReady(Last(calls[c].reply))}
        IN  /\ Count(got, {COPY_IN_RESPONSE}) = Cardinality(copies)
            /\ Count(got, {READY_FOR_QUERY}) =
                  Count(taken, {QUERY, SYNC, COPY_DONE, COPY_FAIL}) - Cardinality(copies)
                  + Cardinality(flushErrors)
                  + (IF conversation.startup /\ taken # <<>> THEN 1 ELSE 0)
=============================================================================
