---------------------------- MODULE BackendFramer ----------------------------
(***************************************************************************)
(* The framing of PGlite's response (src/duplex/backend-framer.ts).        *)
(* Chunks end anywhere.  Bytes are forwarded as they come, except a        *)
(* ReadyForQuery, held until it is known to be the last where intermediate *)
(* ones are suppressed; a RowDescription, rewritten as a whole; and the    *)
(* CopyInResponse that the client was already given.  A step below is one  *)
(* turn of write's loop; nothing else runs between the turns of a chunk.   *)
(***************************************************************************)
EXTENDS Messages, FiniteSetsExt

CONSTANT NoType     \* messageType is undefined

ASSUME NoTypeAssumption == NoType \notin Nat

VARIABLES suppress,     \* suppressIntermediateReadyForQuery
          rewrites,     \* rewriteSystemCatalogCharOids
          messageType,  \* of the frame that spans chunks
          header,       \* headerScratch, the bytes read
          remaining,    \* payloadBytesRemaining
          held,         \* heldRfq, the bytes read
          rfqFrame,
          rowDesc,      \* rowDescBuffer, <<>> if there is none
          dropNext,     \* dropNextCopyInResponse
          dropping,     \* droppingMessage
          chunk,        \* what is left of the chunk being written
          passthrough,  \* whole frames of it, not yet forwarded
          received,     \* what the client got
          errSeen, lastSeen  \* the callbacks' effect in the duplex

perFrame == <<messageType, header, remaining, rfqFrame, dropping>>
framerVars == <<suppress, rewrites, perFrame, held, rowDesc, dropNext, chunk, passthrough,
                received, errSeen, lastSeen>>

FramerInit ==
    /\ suppress = FALSE /\ rewrites \in BOOLEAN
    /\ messageType = NoType /\ header = <<>> /\ remaining = 0
    /\ held = <<>> /\ rfqFrame = FALSE /\ rowDesc = <<>>
    /\ dropNext = FALSE /\ dropping = FALSE
    /\ chunk = <<>> /\ passthrough = <<>> /\ received = <<>>
    /\ errSeen = FALSE /\ lastSeen = RFQ_STATUS_IDLE

reset(suppressing, dropFirstCopyInResponse) ==
    /\ suppress' = suppressing
    /\ messageType' = NoType /\ header' = <<>> /\ remaining' = 0
    /\ held' = <<>> /\ rfqFrame' = FALSE /\ rowDesc' = <<>>
    /\ dropNext' = dropFirstCopyInResponse /\ dropping' = FALSE

-----------------------------------------------------------------------------
\* rewriteRowDescriptionInPlace, and the test for whether it does anything:
\* fields are pairs of bytes after the header, byte i being a type.
CatalogChar(message, i) ==
    /\ i > 5 /\ i % 2 = 1
    /\ message[i] = PG_TYPE_OID_CHAR
    /\ message[i - 1] \in 1..(PG_FIRST_USER_OID - 1)
Rewritten(message) ==
    [i \in DOMAIN message |-> IF CatalogChar(message, i) THEN PG_TYPE_OID_TEXT ELSE message[i]]
rowDescriptionNeedsRewrite(message) == \E i \in DOMAIN message : CatalogChar(message, i)

\* dropStaleHeldReadyForQuery: a frame follows the held ReadyForQuery.
StaleDropped == IF suppress /\ Len(held) = 6 THEN <<>> ELSE held

onErrorResponse(type) == errSeen' = (errSeen \/ type = ERROR_RESPONSE)

AtFrameStart == messageType = NoType /\ chunk # <<>>
MessageLength == UInt32(SubSeq(chunk, 2, 5))
HeaderHere == Len(chunk) >= 5
Whole == HeaderHere /\ Len(chunk) >= 1 + MessageLength
Skip(n) == chunk' = SubSeq(chunk, n + 1, Len(chunk))

-----------------------------------------------------------------------------
(* Frames that are whole in one chunk.                                      *)

WholeReadyForQuery(frame) ==
    /\ TypeOf(frame) = READY_FOR_QUERY /\ Len(frame) = 6
    /\ lastSeen' = frame[6]
    /\ held' = IF suppress THEN frame ELSE <<>>
    /\ received' = received \o passthrough \o (IF suppress THEN <<>> ELSE frame)
    /\ passthrough' = <<>>
    /\ UNCHANGED dropNext

WholeCopyInResponse(frame) ==
    /\ TypeOf(frame) = COPY_IN_RESPONSE /\ dropNext
    /\ dropNext' = FALSE
    /\ held' = StaleDropped
    /\ received' = received \o passthrough /\ passthrough' = <<>>
    /\ UNCHANGED lastSeen

WholeRowDescription(frame) ==
    /\ TypeOf(frame) = ROW_DESCRIPTION /\ rewrites /\ rowDescriptionNeedsRewrite(frame)
    /\ held' = StaleDropped
    /\ received' = received \o passthrough \o Rewritten(frame) /\ passthrough' = <<>>
    /\ UNCHANGED <<dropNext, lastSeen>>

WholeOther(frame) ==
    /\ ~(TypeOf(frame) = READY_FOR_QUERY /\ Len(frame) = 6)
    /\ ~(TypeOf(frame) = COPY_IN_RESPONSE /\ dropNext)
    /\ ~(TypeOf(frame) = ROW_DESCRIPTION /\ rewrites /\ rowDescriptionNeedsRewrite(frame))
    /\ held' = StaleDropped
    /\ passthrough' = passthrough \o frame
    /\ UNCHANGED <<dropNext, lastSeen, received>>

WholeFrame ==
    /\ AtFrameStart /\ Whole /\ ~Malformed(MessageLength)
    /\ LET frame == SubSeq(chunk, 1, 1 + MessageLength)
       IN  /\ onErrorResponse(TypeOf(frame))
           /\ \/ WholeReadyForQuery(frame)
              \/ WholeCopyInResponse(frame)
              \/ WholeRowDescription(frame)
              \/ WholeOther(frame)
           /\ Skip(Len(frame))
    /\ UNCHANGED <<suppress, rewrites, perFrame, rowDesc>>

-----------------------------------------------------------------------------
(* Frames that span chunks.                                                 *)

FrameStart ==
    /\ AtFrameStart /\ ~Whole /\ (HeaderHere => ~Malformed(MessageLength))
    /\ received' = received \o passthrough /\ passthrough' = <<>>
    /\ messageType' = chunk[1] /\ header' = <<>> /\ remaining' = 0
    /\ dropping' = (dropping \/ (chunk[1] = COPY_IN_RESPONSE /\ dropNext))
    /\ dropNext' = (dropNext /\ chunk[1] # COPY_IN_RESPONSE)
    /\ held' = IF chunk[1] = READY_FOR_QUERY THEN <<READY_FOR_QUERY>> ELSE <<>>
    /\ Skip(1)
    /\ UNCHANGED <<suppress, rewrites, rfqFrame, rowDesc, errSeen, lastSeen>>

\* finishMessage; hold is what it leaves held.
finishMessage(hold) ==
    /\ messageType' = NoType /\ header' = <<>> /\ remaining' = 0
    /\ rfqFrame' = FALSE /\ dropping' = FALSE
    /\ held' = IF suppress THEN hold ELSE <<>>

InHeader == messageType # NoType /\ chunk # <<>> /\ Len(header) < 4
HeaderRead == header \o SubSeq(chunk, 1, Min({4 - Len(header), Len(chunk)}))
HeaderBytes == Len(HeaderRead) - Len(header)

HeaderPart ==
    /\ InHeader /\ Len(HeaderRead) < 4
    /\ header' = HeaderRead
    /\ held' = IF messageType = READY_FOR_QUERY THEN held \o chunk ELSE held
    /\ Skip(HeaderBytes)
    /\ UNCHANGED <<suppress, rewrites, messageType, remaining, rfqFrame, dropping, rowDesc,
                   dropNext, passthrough, received, errSeen, lastSeen>>

\* The header is complete: what its frame is decides where the payload goes.
HeaderEnd ==
    /\ InHeader /\ Len(HeaderRead) = 4 /\ ~Malformed(UInt32(HeaderRead))
    /\ onErrorResponse(messageType)
    /\ Skip(HeaderBytes)
    /\ LET payload == UInt32(HeaderRead) - 4
           isRfq == messageType = READY_FOR_QUERY /\ payload = 1
           gathered == messageType = ROW_DESCRIPTION /\ rewrites /\ ~dropping
           forwarded == ~isRfq /\ ~dropping /\ ~gathered
       IN  /\ received' = received \o (IF forwarded THEN <<messageType>> \o HeaderRead ELSE <<>>)
           /\ rowDesc' = IF gathered THEN <<messageType>> \o HeaderRead ELSE rowDesc
           /\ IF payload = 0 /\ ~gathered THEN finishMessage(<<>>)
              ELSE /\ header' = HeaderRead /\ remaining' = payload /\ rfqFrame' = isRfq
                   /\ held' = IF isRfq THEN held \o SubSeq(chunk, 1, HeaderBytes) ELSE <<>>
                   /\ UNCHANGED <<messageType, dropping>>
    /\ UNCHANGED <<suppress, rewrites, dropNext, passthrough, lastSeen>>

InPayload == messageType # NoType /\ chunk # <<>> /\ Len(header) = 4

\* Mutant of RfqPayload: a status byte that came in a later chunk is not reported.
RfqPayloadUnseen ==
    /\ InPayload /\ rfqFrame
    /\ received' = received \o (IF suppress THEN <<>> ELSE Append(held, chunk[1]))
    /\ finishMessage(Append(held, chunk[1]))
    /\ Skip(1)
    /\ UNCHANGED <<suppress, rewrites, rowDesc, dropNext, passthrough, errSeen, lastSeen>>

\* finishReadyForQuery on the status byte.
RfqPayload ==
    /\ InPayload /\ rfqFrame
    /\ lastSeen' = chunk[1]
    /\ received' = received \o (IF suppress THEN <<>> ELSE Append(held, chunk[1]))
    /\ finishMessage(Append(held, chunk[1]))
    /\ Skip(1)
    /\ UNCHANGED <<suppress, rewrites, rowDesc, dropNext, passthrough, errSeen>>

Payload ==
    /\ InPayload /\ ~rfqFrame
    /\ LET n == Min({remaining, Len(chunk)})
           bytes == SubSeq(chunk, 1, n)
           ends == n = remaining
           gathered == rowDesc # <<>>
       IN  /\ Skip(n)
           /\ rowDesc' = IF gathered /\ ~ends THEN rowDesc \o bytes ELSE <<>>
           /\ received' = received \o (IF dropping THEN <<>>
                                       ELSE IF ~gathered THEN bytes
                                       ELSE IF ends THEN Rewritten(rowDesc \o bytes) ELSE <<>>)
           /\ IF ends THEN finishMessage(held)
              ELSE /\ remaining' = remaining - n
                   /\ UNCHANGED <<messageType, header, rfqFrame, dropping, held>>
    /\ UNCHANGED <<suppress, rewrites, dropNext, passthrough, errSeen, lastSeen>>

\* The end of write: whole frames still pending are forwarded.
WriteEnd ==
    /\ chunk = <<>> /\ passthrough # <<>>
    /\ received' = received \o passthrough /\ passthrough' = <<>>
    /\ UNCHANGED <<suppress, rewrites, perFrame, held, rowDesc, dropNext, chunk, errSeen, lastSeen>>

write == WholeFrame \/ FrameStart \/ HeaderPart \/ HeaderEnd \/ RfqPayload \/ Payload \/ WriteEnd

\* write throws on a length no message can have.
WriteThrows == \/ AtFrameStart /\ HeaderHere /\ Malformed(MessageLength)
               \/ InHeader /\ Len(HeaderRead) = 4 /\ Malformed(UInt32(HeaderRead))

-----------------------------------------------------------------------------
\* flush: the response ended between frames; a held ReadyForQuery was the last.
flush(dropHeld) ==
    /\ messageType = NoType
    /\ received' = received \o (IF suppress /\ ~dropHeld /\ Len(held) = 6 THEN held ELSE <<>>)
    /\ held' = IF dropHeld \/ suppress THEN <<>> ELSE held

FlushThrows == messageType # NoType
=============================================================================
