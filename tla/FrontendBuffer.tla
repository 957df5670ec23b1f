--------------------------- MODULE FrontendBuffer ---------------------------
(***************************************************************************)
(* The queue of chunks a client wrote, read as one run of bytes            *)
(* (src/duplex/frontend-buffer.ts).  headIndex counts the chunks that were *)
(* used up and are still in the array, headOffset the bytes of the next    *)
(* one that were.                                                          *)
(***************************************************************************)
EXTENDS Messages, FiniteSetsExt, SequencesExt

CONSTANT CompactAt   \* used-up chunks that make a compaction worth it (32)

ASSUME CompactAssumption == CompactAt \in Nat \ {0}

EmptyBuffer == [chunks |-> <<>>, headIndex |-> 0, headOffset |-> 0, totalLength |-> 0]

push(b, chunk) == IF chunk = <<>> THEN b
                  ELSE [b EXCEPT !.chunks = Append(@, chunk), !.totalLength = @ + Len(chunk)]

Unused(b) == SubSeq(b.chunks, b.headIndex + 1, Len(b.chunks))

\* A turn of a read's loop: more of the next chunk, until there are n bytes.
Gathered(part, next, n) ==
    LET copied == Min({n - Len(part.bytes), Len(next) - part.skip})
    IN  IF Len(part.bytes) = n THEN part
        ELSE IF part.skip >= Len(next) THEN [part EXCEPT !.skip = @ - Len(next)]
        ELSE [bytes |-> part.bytes \o SubSeq(next, part.skip + 1, part.skip + copied), skip |-> 0]

\* n bytes of the chunks cs, after the first `skip': a turn for each chunk.
Gather(cs, skip, n) ==
    LET turn[k \in 0..Len(cs)] == IF k = 0 THEN [bytes |-> <<>>, skip |-> skip]
                                  ELSE Gathered(turn[k - 1], cs[k], n)
    IN  turn[Len(cs)].bytes

readUInt32BE(b, offset) == UInt32(Gather(Unused(b), b.headOffset + offset, 4))

compactChunks(b) ==
    IF b.headIndex = Len(b.chunks) THEN [b EXCEPT !.chunks = <<>>, !.headIndex = 0]
    ELSE IF b.headIndex >= CompactAt /\ b.headIndex * 2 >= Len(b.chunks)
    THEN [b EXCEPT !.chunks = Unused(b), !.headIndex = 0]
    ELSE b

HeadChunk(b) == b.chunks[b.headIndex + 1]

\* k bytes of the head chunk, at most what it has left, are used up.
Use(b, k) ==
    IF b.headOffset + k = Len(HeadChunk(b))
    THEN compactChunks([b EXCEPT !.headIndex = @ + 1, !.headOffset = 0, !.totalLength = @ - k])
    ELSE [b EXCEPT !.headOffset = @ + k, !.totalLength = @ - k]

\* A turn of consume's loop: more of the head chunk, until there are `length' bytes.
Consumed(part, length) ==
    LET b == part.left
        copied == Min({length - Len(part.message), Len(HeadChunk(b)) - b.headOffset})
    IN  IF Len(part.message) = length THEN part
        ELSE [message |-> part.message
                             \o SubSeq(HeadChunk(b), b.headOffset + 1, b.headOffset + copied),
              left |-> Use(b, copied)]

\* The bytes taken, and the buffer that is left; a turn takes a byte at least.
consume(b, length) ==
    LET turn[k \in 0..length] == IF k = 0 THEN [message |-> <<>>, left |-> b]
                                 ELSE Consumed(turn[k - 1], length)
    IN  turn[length]

-----------------------------------------------------------------------------
\* What the buffer stands for.
Contents(b) == LET bytes == FlattenSeq(Unused(b))
               IN  SubSeq(bytes, b.headOffset + 1, Len(bytes))
=============================================================================
