----------------------------- MODULE WireProofs -----------------------------
(***************************************************************************)
(* Theorems about the duplex's framing: whatever the chunks, the messages  *)
(* taken are the ones the client sent, and what the client gets is what    *)
(* PGlite answered, less what the mode of the call withholds.              *)
(***************************************************************************)
EXTENDS Wire, FrontendBufferProofs, FiniteSetTheorems

-----------------------------------------------------------------------------
(* More about runs of bytes.                                                *)

\* The elements of a concatenation's first part.
LEMMA CatFirst ==
    \A s, t \in Seq(Nat) : \A i \in 1..Len(s) : Cat(s, t)[i] = s[i]
<1> TAKE s, t \in Seq(Nat)
<1> TAKE i \in 1..Len(s)
<1>1. i \in 1..(Len(s) + Len(t)) /\ i <= Len(s)
  BY LenProperties
<1> QED BY <1>1, ConcatProperties DEF Cat

\* Two pieces side by side.
LEMMA PieceJoin ==
    \A s \in Seq(Nat) : \A l, m, n \in Nat : l <= m /\ m <= n /\ n <= Len(s) =>
        Cat(Piece(s, l, m), Piece(s, m, n)) = Piece(s, l, n)
<1> TAKE s \in Seq(Nat)
<1> TAKE l, m, n \in Nat
<1>0. HAVE l <= m /\ m <= n /\ n <= Len(s)
<1>1. l + 1 \in 1..(Len(s) + 1) /\ m \in ((l + 1) - 1)..Len(s) /\ n \in m..Len(s)
  BY <1>0, LenProperties
<1>2. SubSeq(s, l + 1, m) \o SubSeq(s, m + 1, n) = SubSeq(s, l + 1, n)
  BY <1>1, ConcatAdjacentSubSeq
<1> QED BY <1>2 DEF Cat, Piece

\* A piece of one byte, and of none.
LEMMA PieceSmall ==
    \A s \in Seq(Nat) : \A n \in Nat : n <= Len(s) =>
        /\ Piece(s, n, n) = <<>>
        /\ \A k \in Nat : k = n + 1 /\ k <= Len(s) => Piece(s, n, k) = <<s[k]>>
<1> TAKE s \in Seq(Nat)
<1> TAKE n \in Nat
<1>1. HAVE n <= Len(s)
<1>2. Piece(s, n, n) = <<>>
  <2>1. n <= n /\ n - n = 0
    OBVIOUS
  <2>2. Piece(s, n, n) \in Seq(Nat) /\ Len(Piece(s, n, n)) = 0
    BY <1>1, <2>1, PieceProperties
  <2> QED BY <2>2, EmptySeq
<1>3. ASSUME NEW k \in Nat, k = n + 1, k <= Len(s)
      PROVE  Piece(s, n, k) = <<s[k]>>
  <2>1. n <= k /\ k - n = 1 /\ 1 \in 1..1
    BY <1>3
  <2>2. PICK p : p = Piece(s, n, k) /\ p \in Seq(Nat) /\ Len(p) = 1 /\ p[1] = s[k]
    <3>1. /\ Piece(s, n, k) \in Seq(Nat) /\ Len(Piece(s, n, k)) = k - n
          /\ \A i \in 1..(k - n) : Piece(s, n, k)[i] = s[n + i]
      BY <1>3, <2>1, PieceProperties
    <3>2. Piece(s, n, k)[1] = s[n + 1]
      BY <2>1, <3>1, Zenon
    <3> QED BY <1>3, <2>1, <3>1, <3>2, Zenon
  <2>3. p = <<p[1]>>
    <3>1. Len(<<p[1]>>) = 1 /\ <<p[1]>>[1] = p[1] /\ <<p[1]>> \in Seq(Nat)
      BY <2>2, ElementOfSeq
    <3>2. p \in [1..1 -> Nat] /\ <<p[1]>> \in [1..1 -> Nat]
      BY <2>2, <3>1, LenProperties
    <3> QED BY <3>1, <3>2
  <2> QED BY <2>2, <2>3, Zenon
<1> QED BY <1>2, <1>3

\* Four bytes are a number by what they are.
LEMMA SameUInt32 ==
    ASSUME NEW b, NEW c, \A i \in 1..4 : b[i] = c[i]
    PROVE  UInt32(b) = UInt32(c)
<1>1. b[1] = c[1] /\ b[2] = c[2] /\ b[3] = c[3] /\ b[4] = c[4]
  OBVIOUS
<1> QED BY <1>1 DEF UInt32

\* The length a message says it has, in the run of bytes that starts with it.
LEMMA DeclaredIn ==
    ASSUME NEW x \in Seq(Nat), NEW s \in Seq(Nat), NEW t \in Nat, t + 4 <= Len(x), t + 4 <= Len(s),
           \A i \in 1..(t + 4) : s[i] = x[i]
    PROVE  UInt32(Piece(Drop(s, t), 0, 4)) = Declared(x, t)
<1>1. Len(x) \in Nat /\ Len(s) \in Nat /\ t \in 0..Len(s) /\ t <= t + 4 /\ t + 4 \in Nat
  BY LenProperties
<1>2. PICK to \in Nat : to = t + 4
  BY <1>1
<1>3. \A i \in 1..4 : Piece(x, t, to)[i] = x[t + i]
  <2>1. t <= to /\ to <= Len(x) /\ to - t = 4
    BY <1>1, <1>2
  <2>2. \A i \in 1..(to - t) : Piece(x, t, to)[i] = x[t + i]
    BY <2>1, PieceProperties
  <2> QED BY <2>1, <2>2
<1>4. PICK d : d = Drop(s, t)
  OBVIOUS
<1>5. d \in Seq(Nat) /\ Len(d) = Len(s) - t /\ \A i \in 1..(Len(s) - t) : d[i] = s[t + i]
  BY <1>1, <1>4, DropProperties
<1>6. \A i \in 1..4 : Piece(d, 0, 4)[i] = d[i]
  <2>1. 4 \in 0..Len(d)
    BY <1>1, <1>5
  <2>2. \A i \in 1..4 : SubSeq(d, 1, 4)[i] = d[i]
    BY <1>5, <2>1, TakeProperties
  <2> QED BY <2>2 DEF Piece
<1>7. \A i \in 1..4 : Piece(d, 0, 4)[i] = Piece(x, t, to)[i]
  <2> TAKE i \in 1..4
  <2>1. i \in 1..(Len(s) - t) /\ t + i \in 1..(t + 4)
    BY <1>1
  <2> QED BY <1>3, <1>5, <1>6, <2>1
<1>8. UInt32(Piece(d, 0, 4)) = UInt32(Piece(x, t, to))
  BY <1>7, SameUInt32
<1> QED BY <1>2, <1>4, <1>8 DEF Declared, Piece

-----------------------------------------------------------------------------
(* What is in the buffer, of the messages that were not taken.              *)

\* After k messages of M, the buffer's bytes b and what is unwritten make the rest.
LEMMA Leading ==
    ASSUME NEW M \in Seq(Seq(Nat)), NEW k \in 0..Len(M), NEW b \in Seq(Nat), NEW w \in Nat,
           w <= Len(FlattenSeq(M)),
           Cat(FlattenSeq(SubSeq(M, 1, k)), b) = Piece(FlattenSeq(M), 0, w)
    PROVE  /\ Len(FlattenSeq(SubSeq(M, 1, k))) + Len(b) = w
           /\ \E d \in Seq(Nat) : Cat(b, d) = FlattenSeq(Drop(M, k))
<1>1. PICK all : all = FlattenSeq(M) /\ all \in Seq(Nat)
  BY FlattenType
<1>2. PICK f : f = FlattenSeq(SubSeq(M, 1, k)) /\ f \in Seq(Nat)
  BY FlattenTakeDrop
<1>3. PICK g : g = FlattenSeq(Drop(M, k)) /\ g \in Seq(Nat) /\ all = Cat(f, g)
  BY <1>1, <1>2, FlattenTakeDrop DEF Cat
<1>4. w <= Len(all) /\ Cat(f, b) = Piece(all, 0, w) /\ Len(all) \in Nat /\ 0 <= w
  BY <1>1, <1>2, LenProperties
<1>5. PICK d : d = Drop(all, w) /\ d \in Seq(Nat)
  BY <1>1, <1>4, DropLength
<1>6. all = Cat(Cat(f, b), d)
  <2>1. Drop(all, 0) = Cat(Piece(all, 0, w), Drop(all, w))
    BY <1>1, <1>4, PieceProperties
  <2> QED BY <1>1, <1>4, <1>5, <2>1, RunEnds
<1>7. Cat(b, d) = g
  <2>1. Cat(b, d) \in Seq(Nat) /\ Cat(Cat(f, b), d) = Cat(f, Cat(b, d))
    BY <1>2, <1>5, CatProperties, CatTwice
  <2>2. Drop(Cat(f, Cat(b, d)), Len(f)) = Cat(b, d) /\ Drop(Cat(f, g), Len(f)) = g
    BY <1>2, <1>3, <2>1, CatParts
  <2> QED BY <1>3, <1>6, <2>1, <2>2
<1>8. Len(f) + Len(b) = w
  <2>1. Len(Cat(f, b)) = Len(f) + Len(b)
    BY <1>2, CatProperties
  <2>2. Len(Piece(all, 0, w)) = w - 0
    BY <1>1, <1>4, PieceProperties
  <2> QED BY <1>4, <2>1, <2>2
<1> QED BY <1>2, <1>3, <1>5, <1>7, <1>8

\* The first of them leads what is left.
LEMMA NextLeads ==
    ASSUME NEW M \in Seq(Seq(Nat)), NEW k \in 0..(Len(M) - 1)
    PROVE  /\ M[k + 1] \in Seq(Nat)
           /\ \E g \in Seq(Nat) : FlattenSeq(Drop(M, k)) = Cat(M[k + 1], g)
           /\ FlattenSeq(SubSeq(M, 1, k + 1)) = Cat(FlattenSeq(SubSeq(M, 1, k)), M[k + 1])
<1>1. Len(M) \in Nat /\ k + 1 \in 1..Len(M) /\ k + 1 \in 0..Len(M)
  BY LenProperties
<1>2. M[k + 1] \in Seq(Nat)
  BY <1>1, ElementOfSeq
<1>3. FlattenSeq(Drop(M, k + 1)) \in Seq(Nat)
  BY <1>1, FlattenTakeDrop
<1>4. FlattenSeq(Drop(M, k)) = Cat(M[k + 1], FlattenSeq(Drop(M, k + 1)))
  BY FlattenSplit DEF Cat
<1>5. FlattenSeq(SubSeq(M, 1, k + 1)) = Cat(FlattenSeq(SubSeq(M, 1, k)), M[k + 1])
  BY FlattenSplit DEF Cat
<1> QED BY <1>2, <1>3, <1>4, <1>5

\* Two runs with the same start.
LEMMA HeadsAgree ==
    ASSUME NEW b \in Seq(Nat), NEW d \in Seq(Nat), NEW x \in Seq(Nat), NEW g \in Seq(Nat),
           Cat(b, d) = Cat(x, g)
    PROVE  /\ \A i \in 1..Len(b) : i <= Len(x) => b[i] = x[i]
           /\ Len(x) <= Len(b) => Piece(b, 0, Len(x)) = x
<1>0. Len(b) \in Nat /\ Len(x) \in Nat
  BY LenProperties
<1>1. ASSUME NEW i \in 1..Len(b), i <= Len(x) PROVE b[i] = x[i]
  <2>1. Cat(b, d)[i] = b[i]
    BY CatFirst
  <2>2. i \in 1..Len(x)
    BY <1>0, <1>1
  <2>3. Cat(x, g)[i] = x[i]
    BY <2>2, CatFirst
  <2> QED BY <2>1, <2>3
<1>2. ASSUME Len(x) <= Len(b) PROVE Piece(b, 0, Len(x)) = x
  <2>1. Piece(Cat(b, d), 0, Len(x)) = Piece(b, 0, Len(x))
    BY <1>0, <1>2, DropCat
  <2>2. Piece(Cat(x, g), 0, Len(x)) = x
    BY CatParts
  <2> QED BY <2>1, <2>2
<1> QED BY <1>1, <1>2

-----------------------------------------------------------------------------
(* The inductive invariant of the messages taken.                           *)

\* The type byte's place: a startup message has none.
Typed == IF phase = "pre_startup" THEN 0 ELSE 1

\* The client's messages.
Sent == conversation.messages

\* What was taken is the start of the conversation.
TakenPart == \E k \in 0..Len(Sent) : taken = SubSeq(Sent, 1, k)

\* With what is in the buffer it is what was written, unless the stream is over.
BytesKept == Cat(FlattenSeq(taken), Contents(input)) = Piece(Bytes, 0, written)

\* After a Terminate nothing is kept.
Terminated == /\ Contents(input) = <<>> /\ taken # <<>> /\ TypeOf(Last(taken)) = TERMINATE
              /\ at = "idle"

\* Only the first message of a conversation that starts up is read as a startup.
PhaseFits ==
    /\ phase = "pre_startup" =>
          conversation.startup /\ (at \in {"idle", "wrote", "draining"} => taken = <<>>)
    /\ phase = "ready" /\ conversation.startup => taken # <<>>
    /\ at = "calling" => taken # <<>>

\* Nothing whole is left where the duplex waits.
NothingWhole ==
    at = "idle" /\ phase # "terminated" /\ Len(taken) < Len(Sent) =>
        written < Len(FlattenSeq(SubSeq(Sent, 1, Len(taken) + 1)))

\* The inductive invariant of the messages taken.
FrameInv ==
    /\ conversation \in Conversations
    /\ written \in Nat /\ written <= Len(Bytes)
    /\ BufferOK(input)
    /\ phase \in {"pre_startup", "ready", "terminated"}
    /\ at \in {"idle", "wrote", "draining", "calling", "failed"}
    /\ TakenPart
    /\ phase # "terminated" => BytesKept
    /\ phase = "terminated" => Terminated
    /\ PhaseFits
    /\ NothingWhole

\* The conversation's messages, and what is known of each.
LEMMA SentIs ==
    ASSUME FrameInv
    PROVE  /\ Sent \in Seq(Seq(Nat)) /\ conversation.startup \in BOOLEAN
           /\ \A k \in DOMAIN Sent : WellSent(conversation, k)
           /\ Bytes = FlattenSeq(Sent) /\ Bytes \in Seq(Nat)
           /\ Len(Sent) \in Nat /\ Len(taken) \in Nat /\ Len(taken) \in 0..Len(Sent)
           /\ taken = SubSeq(Sent, 1, Len(taken)) /\ taken \in Seq(Seq(Nat))
<1>1. /\ Sent \in Seq(Seq(Nat)) /\ conversation.startup \in BOOLEAN
      /\ \A k \in DOMAIN Sent : WellSent(conversation, k)
  BY ConversationAssumption DEF FrameInv, Sent
<1>2. Bytes = FlattenSeq(Sent) /\ Bytes \in Seq(Nat)
  BY <1>1, FlattenType DEF Bytes, Sent
<1>3. /\ Len(Sent) \in Nat /\ Len(taken) \in 0..Len(Sent)
      /\ taken = SubSeq(Sent, 1, Len(taken)) /\ taken \in Seq(Seq(Nat))
  <2>1. PICK k \in 0..Len(Sent) : taken = SubSeq(Sent, 1, k)
    BY DEF FrameInv, TakenPart
  <2>2. SubSeq(Sent, 1, k) \in Seq(Seq(Nat)) /\ Len(SubSeq(Sent, 1, k)) = k
    BY <1>1, TakeProperties
  <2> QED BY <1>1, <2>1, <2>2, LenProperties
<1> QED BY <1>1, <1>2, <1>3

\* The next message, of those left: its start is in the buffer.
LEMMA NextInBuffer ==
    ASSUME FrameInv, phase # "terminated"
    PROVE  /\ Len(FlattenSeq(taken)) + Len(Contents(input)) = written
           /\ Len(taken) = Len(Sent) => Contents(input) = <<>>
           /\ Len(taken) < Len(Sent) =>
                 /\ Sent[Len(taken) + 1] \in Seq(Nat) /\ WellSent(conversation, Len(taken) + 1)
                 /\ FlattenSeq(SubSeq(Sent, 1, Len(taken) + 1))
                       = Cat(FlattenSeq(taken), Sent[Len(taken) + 1])
                 /\ \E d, g \in Seq(Nat) : Cat(Contents(input), d) = Cat(Sent[Len(taken) + 1], g)
<1>1. PICK k \in 0..Len(Sent) : k = Len(taken) /\ taken = SubSeq(Sent, 1, k) /\ k \in Nat
  BY SentIs
<1>2. PICK b : b = Contents(input) /\ b \in Seq(Nat)
  BY BufferContents DEF FrameInv
<1>3. Sent \in Seq(Seq(Nat)) /\ Len(Sent) \in Nat /\ Len(b) \in Nat
  BY <1>2, SentIs, LenProperties
<1>4. Cat(FlattenSeq(SubSeq(Sent, 1, k)), b) = Piece(FlattenSeq(Sent), 0, written)
  BY <1>1, <1>2, SentIs DEF FrameInv, BytesKept
<1>5. written \in Nat /\ written <= Len(FlattenSeq(Sent))
  BY SentIs DEF FrameInv
<1>6. Len(FlattenSeq(SubSeq(Sent, 1, k))) + Len(b) = written
  BY <1>2, <1>3, <1>4, <1>5, Leading
<1>7. PICK d \in Seq(Nat) : Cat(b, d) = FlattenSeq(Drop(Sent, k))
  BY <1>2, <1>3, <1>4, <1>5, Leading
<1>8. ASSUME k = Len(Sent) PROVE b = <<>>
  <2>1. FlattenSeq(Drop(Sent, k)) = <<>>
    BY <1>3, <1>8, DropEnds, FlattenEmpty
  <2>2. Len(Cat(b, d)) = Len(b) + Len(d) /\ Len(d) \in Nat /\ Len(<<>>) = 0
    BY <1>2, CatProperties
  <2>3. Len(b) = 0
    BY <1>3, <1>7, <2>1, <2>2
  <2> QED BY <1>2, <2>3, EmptySeq
<1>9. ASSUME k < Len(Sent)
      PROVE  /\ Sent[k + 1] \in Seq(Nat) /\ WellSent(conversation, k + 1)
             /\ FlattenSeq(SubSeq(Sent, 1, k + 1))
                   = Cat(FlattenSeq(SubSeq(Sent, 1, k)), Sent[k + 1])
             /\ \E g \in Seq(Nat) : Cat(b, d) = Cat(Sent[k + 1], g)
  <2>1. k \in 0..(Len(Sent) - 1) /\ k + 1 \in 1..Len(Sent)
    BY <1>1, <1>3, <1>9
  <2>2. k + 1 \in DOMAIN Sent
    BY <1>3, <2>1, LenProperties
  <2>3. WellSent(conversation, k + 1)
    BY <2>2, SentIs
  <2>4. /\ Sent[k + 1] \in Seq(Nat)
        /\ \E g \in Seq(Nat) : FlattenSeq(Drop(Sent, k)) = Cat(Sent[k + 1], g)
        /\ FlattenSeq(SubSeq(Sent, 1, k + 1)) = Cat(FlattenSeq(SubSeq(Sent, 1, k)), Sent[k + 1])
    BY <1>3, <2>1, NextLeads
  <2> QED BY <1>7, <2>3, <2>4
<1> QED BY <1>1, <1>2, <1>6, <1>8, <1>9

\* What the header says of the next message.
LEMMA HeaderReads ==
    ASSUME FrameInv, at = "draining", phase # "terminated"
    PROVE  /\ Typed \in {0, 1} /\ (Typed = 0 <=> phase = "pre_startup")
           /\ Typed = IF conversation.startup /\ Len(taken) + 1 = 1 THEN 0 ELSE 1
           /\ HasHeader => /\ Len(taken) < Len(Sent)
                           /\ Len(Contents(input)) >= Typed + 4
                           /\ DeclaredLength = Declared(Sent[Len(taken) + 1], Typed)
           /\ ~HasHeader => Len(Contents(input)) < Typed + 4
<1>1. /\ Typed \in {0, 1} /\ HeaderSize = Typed + 4 /\ HeaderSize - 4 = Typed
      /\ Typed = 0 <=> phase = "pre_startup"
  BY DEF Typed, HeaderSize
<1>2. Typed = IF conversation.startup /\ Len(taken) + 1 = 1 THEN 0 ELSE 1
  <2>1. Len(taken) \in Nat /\ (taken = <<>> <=> Len(taken) = 0)
    BY SentIs, EmptySeq
  <2> QED BY <2>1, SentIs DEF FrameInv, PhaseFits, Typed
<1>3. PICK b : b = Contents(input) /\ b \in Seq(Nat) /\ Len(b) \in Nat /\ input.totalLength = Len(b)
  BY BufferContents, LenProperties DEF FrameInv, BufferOK
<1>4. HasHeader <=> Len(b) >= Typed + 4
  BY <1>1, <1>3 DEF HasHeader
<1>5. ASSUME HasHeader
      PROVE  Len(taken) < Len(Sent) /\ DeclaredLength = Declared(Sent[Len(taken) + 1], Typed)
  <2>1. Len(taken) < Len(Sent)
    <3>1. b # <<>>
      BY <1>1, <1>3, <1>4, <1>5
    <3> QED BY <1>3, <3>1, NextInBuffer, SentIs
  <2>2. PICK x : x = Sent[Len(taken) + 1] /\ x \in Seq(Nat)
             /\ WellSent(conversation, Len(taken) + 1)
    BY <2>1, NextInBuffer
  <2>3. Typed + 4 <= Len(x) /\ Len(x) \in Nat
    BY <1>1, <1>2, <2>2, LenProperties DEF WellSent, Sent
  <2>4. PICK d, g \in Seq(Nat) : Cat(b, d) = Cat(x, g)
    BY <1>3, <2>1, <2>2, NextInBuffer
  <2>5. \A i \in 1..Len(b) : i <= Len(x) => b[i] = x[i]
    BY <1>3, <2>2, <2>4, HeadsAgree
  <2>6. \A i \in 1..(Typed + 4) : b[i] = x[i]
    BY <1>1, <1>3, <1>4, <1>5, <2>3, <2>5
  <2>7. UInt32(Piece(Drop(b, Typed), 0, 4)) = Declared(x, Typed)
    <3>1. Typed \in Nat /\ Typed + 4 <= Len(b)
      BY <1>1, <1>3, <1>4, <1>5
    <3> QED BY <1>3, <2>2, <2>3, <2>6, <3>1, DeclaredIn
  <2>8. DeclaredLength = UInt32(Piece(Drop(b, Typed), 0, 4))
    <3>1. Typed \in Nat /\ Typed + 4 <= Len(Contents(input)) /\ BufferOK(input)
      BY <1>1, <1>3, <1>4, <1>5 DEF FrameInv
    <3>2. readUInt32BE(input, Typed) = UInt32(Piece(Drop(Contents(input), Typed), 0, 4))
      BY <3>1, readUInt32BEReads
    <3> QED BY <1>1, <1>3, <3>2 DEF DeclaredLength
  <2> QED BY <2>1, <2>2, <2>7, <2>8
<1> QED BY <1>1, <1>2, <1>3, <1>4, <1>5

\* A whole message is taken as it was sent.
LEMMA CompleteTakes ==
    ASSUME FrameInv, at = "draining", phase # "terminated", Complete
    PROVE  LET x == Sent[Len(taken) + 1]
           IN  /\ Len(taken) < Len(Sent) /\ x \in Seq(Nat)
               /\ NextMessage.message = x
               /\ BufferOK(NextMessage.left)
               /\ Contents(input) = Cat(x, Contents(NextMessage.left))
<1>1. HasHeader /\ ~BadHeader /\ input.totalLength >= MessageSize
  BY DEF Complete
<1>2. Len(taken) < Len(Sent) /\ DeclaredLength = Declared(Sent[Len(taken) + 1], Typed)
  BY <1>1, HeaderReads
<1>3. PICK x : x = Sent[Len(taken) + 1] /\ x \in Seq(Nat) /\ WellSent(conversation, Len(taken) + 1)
  BY <1>2, NextInBuffer
<1>4. PICK b : b = Contents(input) /\ b \in Seq(Nat) /\ Len(b) \in Nat /\ input.totalLength = Len(b)
  BY BufferContents, LenProperties DEF FrameInv, BufferOK
<1>5. DeclaredLength = Len(x) - Typed
  BY <1>1, <1>2, <1>3, HeaderReads DEF WellSent, Sent, BadHeader
<1>6. MessageSize = Len(x) /\ Len(x) \in Nat /\ Len(x) <= Len(b)
  BY <1>1, <1>3, <1>4, <1>5, HeaderReads, LenProperties DEF MessageSize, Typed
<1>7. PICK d, g \in Seq(Nat) : Cat(b, d) = Cat(x, g)
  BY <1>2, <1>3, <1>4, NextInBuffer
<1>8. Piece(b, 0, Len(x)) = x
  BY <1>3, <1>4, <1>6, <1>7, HeadsAgree
<1>9. /\ consume(input, Len(x)).message = Piece(b, 0, Len(x))
      /\ BufferOK(consume(input, Len(x)).left)
      /\ Contents(consume(input, Len(x)).left) = Drop(b, Len(x))
  <2>1. BufferOK(input) /\ Len(x) \in Nat /\ Len(x) <= Len(Contents(input))
    BY <1>4, <1>6 DEF FrameInv
  <2> QED BY <1>4, <2>1, consumeTakes
<1>10. NextMessage = consume(input, Len(x))
  BY <1>6 DEF NextMessage
<1>11. b = Cat(x, Drop(b, Len(x)))
  <2>1. Drop(b, 0) = Cat(Piece(b, 0, Len(x)), Drop(b, Len(x)))
    BY <1>4, <1>6, PieceProperties
  <2> QED BY <1>4, <1>8, <2>1, RunEnds
<1> QED BY <1>2, <1>3, <1>4, <1>8, <1>9, <1>10, <1>11

\* Where nothing is whole, the next message was not written to its end.
LEMMA IncompleteWaits ==
    ASSUME FrameInv, at = "draining", phase # "terminated", ~Complete, ~(HasHeader /\ BadHeader),
           Len(taken) < Len(Sent)
    PROVE  written < Len(FlattenSeq(SubSeq(Sent, 1, Len(taken) + 1)))
<1>1. PICK x : x = Sent[Len(taken) + 1] /\ x \in Seq(Nat) /\ WellSent(conversation, Len(taken) + 1)
  BY NextInBuffer
<1>2. PICK b : b = Contents(input) /\ b \in Seq(Nat) /\ Len(b) \in Nat /\ input.totalLength = Len(b)
  BY BufferContents, LenProperties DEF FrameInv, BufferOK
<1>3. Typed \in {0, 1} /\ Len(x) \in Nat /\ Len(x) >= Typed + 4
  BY <1>1, HeaderReads, LenProperties DEF WellSent, Sent
<1>4. Len(b) < Len(x)
  <2>1. CASE ~HasHeader
    <3>1. Len(b) < Typed + 4
      BY <1>2, <2>1, HeaderReads
    <3> QED BY <1>2, <1>3, <3>1
  <2>2. CASE HasHeader
    <3>1. ~BadHeader /\ ~(input.totalLength >= MessageSize)
      BY <2>2 DEF Complete
    <3>2. DeclaredLength = Declared(x, Typed)
      BY <1>1, <2>2, HeaderReads
    <3>3. DeclaredLength = Len(x) - Typed
      BY <1>1, <3>1, <3>2, HeaderReads DEF WellSent, Sent, BadHeader
    <3>4. MessageSize = Len(x)
      BY <1>3, <3>3 DEF MessageSize, Typed
    <3> QED BY <1>2, <1>3, <3>1, <3>4
  <2> QED BY <2>1, <2>2
<1>5. PICK f : f = FlattenSeq(taken) /\ f \in Seq(Nat) /\ Len(f) \in Nat
  BY SentIs, FlattenType, LenProperties
<1>6. Len(f) + Len(b) = written /\ FlattenSeq(SubSeq(Sent, 1, Len(taken) + 1)) = Cat(f, x)
  BY <1>1, <1>2, <1>5, NextInBuffer
<1>7. Len(Cat(f, x)) = Len(f) + Len(x)
  BY <1>1, <1>5, CatProperties
<1> QED BY <1>2, <1>3, <1>4, <1>5, <1>6, <1>7

\* Nothing was sent, nothing taken.
LEMMA FrameInvInit == WireInit => FrameInv
<1>1. HAVE WireInit
<1>2. PICK M : M = Sent /\ M \in Seq(Seq(Nat)) /\ \A k \in DOMAIN M : WellSent(conversation, k)
  BY <1>1, ConversationAssumption DEF WireInit, Sent
<1>3. conversation.startup \in BOOLEAN /\ Bytes \in Seq(Nat)
  BY <1>1, <1>2, ConversationAssumption, FlattenType DEF WireInit, Bytes, Sent
<1>4. BufferOK(input) /\ Contents(input) = <<>>
  BY <1>1, EmptyBufferOK DEF WireInit
<1>5. TakenPart
  <2>1. SubSeq(M, 1, 0) = <<>> /\ 0 \in 0..Len(M)
    BY <1>2, SubSeqEmpty, LenProperties
  <2> QED BY <1>1, <1>2, <2>1 DEF TakenPart, WireInit
<1>6. BytesKept
  <2>1. Cat(<<>>, <<>>) = <<>> /\ Piece(Bytes, 0, 0) = <<>>
    BY <1>3, CatEmpty, RunEnds, EmptySeq
  <2> QED BY <1>1, <1>4, <2>1, FlattenEmpty DEF BytesKept, WireInit
<1>7. ASSUME Len(taken) < Len(Sent) PROVE written < Len(FlattenSeq(SubSeq(Sent, 1, Len(taken) + 1)))
  <2>1. Len(taken) = 0 /\ written = 0 /\ 0 < Len(M) /\ 1 \in DOMAIN M /\ 0 \in 0..(Len(M) - 1)
    BY <1>1, <1>2, <1>7, LenProperties DEF WireInit
  <2>2. PICK x : x = M[1] /\ x \in Seq(Nat) /\ Len(x) \in Nat
    BY <1>2, <2>1, ElementOfSeq, LenProperties
  <2>3. Len(x) >= 4
    <3>1. WellSent(conversation, 1)
      BY <1>2, <2>1
    <3> QED BY <1>2, <2>2, <3>1 DEF WellSent, Sent
  <2>4. FlattenSeq(SubSeq(M, 1, 1)) = Cat(FlattenSeq(SubSeq(M, 1, 0)), M[1])
    <3>1. FlattenSeq(SubSeq(M, 1, 0 + 1)) = Cat(FlattenSeq(SubSeq(M, 1, 0)), M[0 + 1])
      BY <1>2, <2>1, NextLeads
    <3>2. 0 + 1 = 1
      OBVIOUS
    <3> QED BY <3>1, <3>2, Zenon
  <2>5. SubSeq(M, 1, 0) = <<>> /\ FlattenSeq(<<>>) = <<>> /\ Cat(<<>>, x) = x
    BY <1>2, <2>2, SubSeqEmpty, FlattenEmpty, CatEmpty
  <2>6. FlattenSeq(SubSeq(M, 1, 1)) = x
    BY <2>2, <2>4, <2>5
  <2> QED BY <1>2, <2>1, <2>2, <2>3, <2>6
<1>8. PhaseFits
  BY <1>1 DEF PhaseFits, WireInit
<1>9. written \in Nat /\ written <= Len(Bytes)
  BY <1>1, <1>3, LenProperties DEF WireInit
<1> QED BY <1>1, <1>4, <1>5, <1>6, <1>7, <1>8, <1>9 DEF FrameInv, NothingWhole, WireInit

\* What the client writes comes after what it wrote.
LEMMA FrameInvWrite == FrameInv /\ Write => FrameInv'
<1>1. HAVE FrameInv /\ Write
<1>2. PICK end \in (written + 1)..Len(Bytes) :
          input' = push(input, SubSeq(Bytes, written + 1, end)) /\ written' = end
  BY <1>1 DEF Write
<1>3. /\ conversation' = conversation /\ taken' = taken /\ phase' = phase /\ at' = "wrote"
      /\ at \in {"idle", "wrote"} /\ phase # "terminated"
  BY <1>1 DEF Write, historyVars
<1>4. PICK all : all = Bytes /\ all \in Seq(Nat) /\ Len(all) \in Nat /\ Bytes' = all
  BY <1>1, <1>3, SentIs, LenProperties DEF Bytes
<1>5. written \in Nat /\ end \in Nat /\ written <= end /\ end <= Len(all) /\ BufferOK(input)
  BY <1>1, <1>2, <1>4 DEF FrameInv
<1>6. PICK c : c = Piece(all, written, end) /\ c \in Seq(Nat)
  BY <1>4, <1>5, PieceProperties
<1>7. input' = push(input, c)
  BY <1>2, <1>4, <1>6 DEF Piece
<1>8. BufferOK(push(input, c)) /\ Contents(push(input, c)) = Cat(Contents(input), c)
  BY <1>5, <1>6, pushKeeps
<1>9. BufferOK(input') /\ Contents(input') = Cat(Contents(input), c)
  BY <1>7, <1>8
<1>10. Cat(FlattenSeq(taken), Cat(Contents(input), c)) = Piece(all, 0, end)
  <2>1. FlattenSeq(taken) \in Seq(Nat) /\ Contents(input) \in Seq(Nat)
    BY <1>1, <1>5, SentIs, FlattenType, BufferContents
  <2>2. Cat(FlattenSeq(taken), Cat(Contents(input), c))
           = Cat(Cat(FlattenSeq(taken), Contents(input)), c)
    BY <1>6, <2>1, CatTwice
  <2>3. Cat(FlattenSeq(taken), Contents(input)) = Piece(all, 0, written)
    BY <1>1, <1>3, <1>4 DEF FrameInv, BytesKept
  <2>4. Cat(Piece(all, 0, written), Piece(all, written, end)) = Piece(all, 0, end)
    <3>1. 0 \in Nat /\ 0 <= written /\ written \in Nat
      BY <1>4, <1>5
    <3> QED BY <1>4, <1>5, <3>1, PieceJoin
  <2> QED BY <1>6, <2>2, <2>3, <2>4
<1>11. BytesKept'
  BY <1>2, <1>3, <1>4, <1>9, <1>10 DEF BytesKept
<1>12. TakenPart'
  BY <1>1, <1>3 DEF FrameInv, TakenPart, Sent
<1>13. PhaseFits'
  BY <1>1, <1>3 DEF FrameInv, PhaseFits
<1> QED
  BY <1>1, <1>2, <1>3, <1>4, <1>5, <1>9, <1>11, <1>12, <1>13 DEF FrameInv, NothingWhole

\* What taking a message does to the frames' state: it ends the stream, or the message
\* is handed on, or captured, or refused.
LEMMA ProcessTakes ==
    ASSUME Process
    PROVE  /\ at = "draining" /\ phase # "terminated" /\ Complete
           /\ taken' = Append(taken, NextMessage.message)
           /\ conversation' = conversation /\ written' = written
           /\ \/ /\ phase' = "terminated" /\ at' = "idle" /\ input' = EmptyBuffer
                 /\ TypeOf(NextMessage.message) = TERMINATE
              \/ /\ phase' = phase /\ input' = NextMessage.left
                 /\ at' = "calling" \/ (phase = "ready" /\ at' \in {"draining", "failed"})
<1>1. /\ at = "draining" /\ phase # "terminated" /\ Complete
      /\ taken' = Append(taken, NextMessage.message)
      /\ input' = IF phase' = "terminated" THEN EmptyBuffer ELSE NextMessage.left
      /\ conversation' = conversation /\ written' = written
  BY DEF Process
<1>2. CASE processPreStartup
  <2>1. phase' = phase /\ at' = "calling"
    BY <1>2 DEF processPreStartup, streamProtocol
  <2> QED BY <1>1, <2>1
<1>3. CASE processMessage(NextMessage.message)
  <2>1. CASE Terminate(NextMessage.message)
    BY <1>1, <2>1 DEF Terminate
  <2>2. ASSUME phase' = phase, at' = "calling" \/ at' \in {"draining", "failed"}
        PROVE  \/ /\ phase' = "terminated" /\ at' = "idle" /\ input' = EmptyBuffer
                  /\ TypeOf(NextMessage.message) = TERMINATE
               \/ /\ phase' = phase /\ input' = NextMessage.left
                  /\ at' = "calling" \/ (phase = "ready" /\ at' \in {"draining", "failed"})
    <3>1. phase = "ready" /\ phase' # "terminated"
      BY <1>3, <2>2 DEF processMessage
    <3> QED BY <1>1, <2>2, <3>1
  <2>3. CASE CopyData(NextMessage.message)
    BY <1>1, <2>2, <2>3 DEF CopyData, NoCall
  <2>4. CASE CopyEnd(NextMessage.message)
    BY <1>1, <2>2, <2>4 DEF CopyEnd, Push, streamProtocol
  <2>5. CASE Batch(NextMessage.message)
    BY <1>1, <2>2, <2>5 DEF Batch, NoCall, streamProtocol
  <2>6. CASE Standalone(NextMessage.message)
    BY <1>1, <2>2, <2>6 DEF Standalone, Push, streamProtocol
  <2>7. CASE ProtocolViolation(NextMessage.message)
    BY <1>1, <2>2, <2>7 DEF ProtocolViolation
  <2> QED BY <1>1, <1>3, <2>1, <2>3, <2>4, <2>5, <2>6, <2>7 DEF processMessage
<1>4. processPreStartup \/ processMessage(NextMessage.message)
  BY DEF Process
<1> QED BY <1>1, <1>2, <1>3, <1>4

\* A taken message comes off the buffer, and after those taken before it.
LEMMA FrameInvProcess == FrameInv /\ Process => FrameInv'
<1>1. HAVE FrameInv /\ Process
<1>2. /\ at = "draining" /\ phase # "terminated" /\ Complete
      /\ taken' = Append(taken, NextMessage.message)
      /\ conversation' = conversation /\ written' = written
  BY <1>1, ProcessTakes
<1>3. PICK x : x = NextMessage.message /\ x = Sent[Len(taken) + 1] /\ x \in Seq(Nat)
  BY <1>1, <1>2, CompleteTakes
<1>4. PICK M : M = Sent /\ M \in Seq(Seq(Nat)) /\ Sent' = M
  BY <1>1, <1>2, SentIs DEF Sent
<1>5. PICK k : k = Len(taken) /\ k \in Nat /\ k < Len(M) /\ taken = SubSeq(M, 1, k)
           /\ Len(M) \in Nat
  BY <1>1, <1>2, <1>4, CompleteTakes, SentIs
<1>6. taken' = SubSeq(M, 1, k + 1) /\ taken' # <<>>
  <2>1. k + 1 \in Nat /\ x = M[k + 1] /\ taken \in Seq(Seq(Nat))
    BY <1>1, <1>3, <1>4, <1>5, SentIs
  <2>2. Append(SubSeq(M, 1, k), M[k + 1]) = SubSeq(M, 1, k + 1)
    <3>1. 1 \in 1..(Len(M) + 1) /\ k + 1 \in 1..Len(M) /\ k + 1 \in Nat
      BY <1>5
    <3>2. SubSeq(M, 1, k) \in Seq(Seq(Nat)) /\ Len(SubSeq(M, 1, k)) = k
          /\ \A i \in 1..k : SubSeq(M, 1, k)[i] = M[i]
      BY <1>4, <1>5, TakeProperties
    <3>3. SubSeq(M, 1, k + 1) \in Seq(Seq(Nat)) /\ Len(SubSeq(M, 1, k + 1)) = k + 1
          /\ \A i \in 1..(k + 1) : SubSeq(M, 1, k + 1)[i] = M[i]
      BY <1>4, <1>5, TakeProperties
    <3>4. PICK a : a = Append(SubSeq(M, 1, k), M[k + 1])
      OBVIOUS
    <3>5. a \in Seq(Seq(Nat)) /\ Len(a) = k + 1 /\ \A i \in 1..(k + 1) : a[i] = M[i]
      BY <1>3, <1>5, <2>1, <3>2, <3>4, AppendProperties
    <3>6. PICK t : t = SubSeq(M, 1, k + 1)
      OBVIOUS
    <3>7. Len(a) = Len(t) /\ \A i \in 1..Len(a) : a[i] = t[i]
      BY <1>5, <3>3, <3>5, <3>6
    <3> QED BY <3>3, <3>4, <3>5, <3>6, <3>7, SeqEqual
  <2> QED BY <1>2, <1>3, <1>5, <2>1, <2>2, AppendProperties
<1>7. TakenPart'
  <2>1. k + 1 \in 0..Len(M)
    BY <1>5
  <2> QED BY <1>4, <1>6, <2>1 DEF TakenPart
<1>8. TypeOf(Last(taken')) = TypeOf(x)
  <2>1. taken \in Seq(Seq(Nat)) /\ taken' = Append(taken, x)
    BY <1>1, <1>2, <1>3, SentIs
  <2>2. Append(taken, x)[Len(taken) + 1] = x /\ Len(Append(taken, x)) = Len(taken) + 1
    BY <1>3, <2>1, AppendProperties
  <2> QED BY <2>1, <2>2 DEF Last
<1>9. written' \in Nat /\ written' <= Len(Bytes') /\ Bytes' = Bytes
      /\ conversation' \in Conversations
  BY <1>1, <1>2 DEF FrameInv, Bytes
<1>10. CASE /\ phase' = "terminated" /\ at' = "idle" /\ input' = EmptyBuffer
            /\ TypeOf(NextMessage.message) = TERMINATE
  <2>1. BufferOK(input') /\ Contents(input') = <<>>
    BY <1>10, EmptyBufferOK
  <2>2. Terminated'
    BY <1>3, <1>6, <1>8, <1>10, <2>1 DEF Terminated
  <2>3. PhaseFits'
    BY <1>10 DEF PhaseFits
  <2> QED BY <1>7, <1>9, <1>10, <2>1, <2>2, <2>3 DEF FrameInv, NothingWhole
<1>11. CASE /\ phase' = phase /\ input' = NextMessage.left
            /\ at' = "calling" \/ (phase = "ready" /\ at' \in {"draining", "failed"})
  <2>1. BufferOK(NextMessage.left) /\ Contents(input) = Cat(x, Contents(NextMessage.left))
    BY <1>1, <1>2, <1>3, CompleteTakes
  <2>2. PICK c : c = Contents(NextMessage.left) /\ c \in Seq(Nat)
    BY <2>1, BufferContents
  <2>3. Cat(FlattenSeq(SubSeq(M, 1, k + 1)), c) = Cat(FlattenSeq(taken), Cat(x, c))
    <3>1. FlattenSeq(SubSeq(M, 1, k + 1)) = Cat(FlattenSeq(taken), x)
      BY <1>1, <1>2, <1>3, <1>4, <1>5, NextInBuffer
    <3>2. FlattenSeq(taken) \in Seq(Nat)
      BY <1>1, SentIs, FlattenType
    <3> QED BY <1>3, <2>2, <3>1, <3>2, CatTwice
  <2>4. Cat(FlattenSeq(taken), Cat(x, c)) = Piece(Bytes, 0, written)
    BY <1>1, <1>2, <2>1, <2>2 DEF FrameInv, BytesKept
  <2>5. BytesKept'
    BY <1>2, <1>6, <1>9, <1>11, <2>2, <2>3, <2>4 DEF BytesKept
  <2>6. PhaseFits'
    BY <1>1, <1>2, <1>6, <1>11 DEF FrameInv, PhaseFits
  <2> QED BY <1>1, <1>2, <1>7, <1>9, <1>11, <2>1, <2>5, <2>6 DEF FrameInv, NothingWhole
<1> QED BY <1>1, <1>10, <1>11, ProcessTakes

\* The other steps leave the messages and the buffer alone.
LEMMA FrameInvOther ==
    ASSUME FrameInv, conversation' = conversation, written' = written, input' = input,
           taken' = taken,
           \/ phase' = phase /\ at' = at
           \/ phase' = phase /\ at = "wrote" /\ at' = "draining"
           \/ phase' = phase /\ phase # "terminated" /\ at' = "failed"
           \/ phase' = phase /\ at = "draining" /\ at' = "idle" /\ NothingWhole'
           \/ phase' = "ready" /\ at = "calling" /\ at' = "draining"
    PROVE  FrameInv'
<1>1. Contents(input') = Contents(input) /\ Bytes' = Bytes /\ Sent' = Sent
  BY DEF Bytes, Sent
<1>2. TakenPart' /\ BufferOK(input')
  BY <1>1 DEF FrameInv, TakenPart
<1>3. phase' # "terminated" => phase # "terminated" /\ BytesKept'
  BY <1>1 DEF FrameInv, BytesKept, Terminated
<1>4. phase' = "terminated" => Terminated'
  BY <1>1 DEF FrameInv, Terminated
<1>5. PhaseFits'
  BY DEF FrameInv, PhaseFits
<1>6. NothingWhole'
  BY <1>1 DEF FrameInv, NothingWhole
<1> QED BY <1>1, <1>2, <1>3, <1>4, <1>5, <1>6 DEF FrameInv

\* Every step keeps the invariant.
LEMMA FrameInvNext == FrameInv /\ [WireNext]_wireVars => FrameInv'
<1> SUFFICES ASSUME FrameInv, [WireNext]_wireVars PROVE FrameInv'
  OBVIOUS
<1>1. CASE Write
  BY <1>1, FrameInvWrite
<1>2. CASE Drain
  BY <1>2, FrameInvOther DEF Drain, historyVars
<1>3. CASE Process
  BY <1>3, FrameInvProcess
<1>4. CASE Await
  <2>1. /\ conversation' = conversation /\ written' = written /\ input' = input /\ taken' = taken
        /\ phase' = phase /\ at = "draining" /\ at' = "idle"
        /\ ~Complete /\ ~(HasHeader /\ BadHeader)
    BY <1>4 DEF Await, historyVars
  <2>2. NothingWhole'
    BY <2>1, IncompleteWaits DEF NothingWhole, Sent
  <2> QED BY <2>1, <2>2, FrameInvOther
<1>5. CASE Refuse
  BY <1>5, FrameInvOther DEF Refuse, Fails, historyVars, FrameInv, Terminated
<1>6. CASE Deliver
  BY <1>6, FrameInvOther DEF Deliver, historyVars
<1>7. CASE FrameChunk
  BY <1>7, FrameInvOther DEF FrameChunk, duplexVars, historyVars
<1>8. CASE Return
  BY <1>8, FrameInvOther DEF Return, historyVars
<1>9. CASE CallFails
  BY <1>9, FrameInvOther DEF CallFails, Fails, historyVars, FrameInv, Terminated
<1>10. CASE UNCHANGED wireVars
  BY <1>10, FrameInvOther DEF wireVars, duplexVars, historyVars
<1> QED BY <1>1, <1>2, <1>3, <1>4, <1>5, <1>6, <1>7, <1>8, <1>9, <1>10 DEF WireNext

-----------------------------------------------------------------------------
(* The messages taken are the messages sent.                                *)

\* More messages are no fewer bytes.
LEMMA FlattenGrows ==
    ASSUME NEW M \in Seq(Seq(Nat)), NEW j \in Nat, NEW k \in Nat, j <= k, k <= Len(M)
    PROVE  Len(FlattenSeq(SubSeq(M, 1, j))) <= Len(FlattenSeq(SubSeq(M, 1, k)))
<1>1. Len(M) \in Nat /\ j \in 0..Len(M) /\ k \in 0..Len(M)
  BY LenProperties
<1>2. PICK t : t = SubSeq(M, 1, k) /\ t \in Seq(Seq(Nat)) /\ Len(t) = k
           /\ \A i \in 1..k : t[i] = M[i]
  BY <1>1, TakeProperties
<1>3. PICK u : u = SubSeq(M, 1, j) /\ u \in Seq(Seq(Nat)) /\ Len(u) = j
           /\ \A i \in 1..j : u[i] = M[i]
  BY <1>1, TakeProperties
<1>4. j \in 0..Len(t) /\ SubSeq(t, 1, j) = u
  <2>0. j \in 0..Len(t)
    BY <1>2
  <2>1. PICK v : v = SubSeq(t, 1, j) /\ v \in Seq(Seq(Nat)) /\ Len(v) = j
             /\ \A i \in 1..j : v[i] = t[i]
    BY <1>2, <2>0, TakeProperties
  <2>2. Len(v) = Len(u) /\ \A i \in 1..Len(v) : v[i] = u[i]
    BY <1>2, <1>3, <2>1
  <2> QED BY <1>3, <2>0, <2>1, <2>2, SeqEqual
<1>6. PICK g : g = FlattenSeq(Drop(t, j)) /\ g \in Seq(Nat)
  BY <1>2, <1>4, FlattenTakeDrop
<1>7. FlattenSeq(u) \in Seq(Nat) /\ FlattenSeq(t) = Cat(FlattenSeq(u), g)
  BY <1>2, <1>4, <1>6, FlattenTakeDrop DEF Cat
<1>8. /\ Len(Cat(FlattenSeq(u), g)) = Len(FlattenSeq(u)) + Len(g)
      /\ Len(FlattenSeq(u)) \in Nat /\ Len(g) \in Nat
  BY <1>6, <1>7, CatProperties
<1>9. Len(FlattenSeq(t)) = Len(FlattenSeq(u)) + Len(g)
  BY <1>7, <1>8
<1>10. Len(FlattenSeq(u)) <= Len(FlattenSeq(t))
  BY <1>8, <1>9
<1> QED BY <1>2, <1>3, <1>10

\* Where the duplex waits, the messages it took are those written whole.
LEMMA WholeTaken ==
    ASSUME FrameInv, at = "idle", phase # "terminated"
    PROVE  Len(taken) = WrittenWhole
<1>1. PICK M : M = Sent /\ M \in Seq(Seq(Nat)) /\ Len(M) \in Nat
  BY SentIs
<1>2. PICK n : n = Len(taken) /\ n \in Nat /\ n <= Len(M) /\ taken = SubSeq(M, 1, n)
  BY <1>1, SentIs
<1>3. PICK size : size = [k \in 0..Len(M) |-> Len(FlattenSeq(SubSeq(M, 1, k)))]
  OBVIOUS
<1>4. \A k \in 0..Len(M) : size[k] = Len(FlattenSeq(SubSeq(M, 1, k))) /\ size[k] \in Nat
  <2> TAKE k \in 0..Len(M)
  <2>1. FlattenSeq(SubSeq(M, 1, k)) \in Seq(Nat)
    BY <1>1, FlattenTakeDrop
  <2> QED BY <1>3, <2>1, LenProperties
<1>5. \A j, k \in 0..Len(M) : j <= k => size[j] <= size[k]
  <2> TAKE j, k \in 0..Len(M)
  <2>1. HAVE j <= k
  <2>2. j \in Nat /\ k \in Nat /\ k <= Len(M)
    BY <1>1
  <2>3. Len(FlattenSeq(SubSeq(M, 1, j))) <= Len(FlattenSeq(SubSeq(M, 1, k)))
    BY <1>1, <2>1, <2>2, FlattenGrows
  <2> QED BY <1>4, <2>3
<1>6. written \in Nat /\ size[n] <= written
  <2>1. Len(FlattenSeq(taken)) + Len(Contents(input)) = written
    BY NextInBuffer
  <2>2. Len(Contents(input)) \in Nat
    BY BufferContents, LenProperties DEF FrameInv
  <2>3. n \in 0..Len(M) /\ size[n] \in Nat /\ size[n] = Len(FlattenSeq(taken))
    BY <1>1, <1>2, <1>4
  <2> QED BY <2>1, <2>2, <2>3
<1>7. n < Len(M) => written < size[n + 1]
  <2>1. n < Len(M) => n + 1 \in 0..Len(M)
    BY <1>1, <1>2
  <2> QED BY <1>1, <1>2, <1>4, <2>1 DEF FrameInv, NothingWhole
<1>8. {k \in 1..Len(M) : size[k] <= written} = 1..n
  <2>1. ASSUME NEW k \in 1..Len(M) PROVE size[k] <= written <=> k <= n
    <3>1. k \in 0..Len(M) /\ n \in 0..Len(M)
      BY <1>1, <1>2
    <3>2. k <= n => size[k] <= size[n]
      BY <1>5, <3>1
    <3>3. k > n => n < Len(M) /\ n + 1 \in 0..Len(M) /\ n + 1 <= k
      BY <1>1, <1>2
    <3>4. k > n => size[n + 1] <= size[k]
      BY <1>5, <3>1, <3>3
    <3>5. size[k] \in Nat /\ size[n] \in Nat /\ (k > n => size[n + 1] \in Nat)
      BY <1>4, <3>1, <3>3
    <3> QED BY <1>2, <1>6, <1>7, <3>2, <3>3, <3>4, <3>5
  <2> QED BY <1>1, <1>2, <2>1
<1>9. WrittenWhole = Cardinality(1..n)
  <2>1. \A k \in 1..Len(M) : size[k] = Len(FlattenSeq(SubSeq(M, 1, k)))
    BY <1>1, <1>4
  <2>2. {k \in 1..Len(M) : Len(FlattenSeq(SubSeq(M, 1, k))) <= written}
           = {k \in 1..Len(M) : size[k] <= written}
    BY <2>1
  <2> QED BY <1>1, <1>8, <2>2 DEF WrittenWhole, Sent
<1>10. Cardinality(1..n) = n
  BY <1>2, FS_Interval
<1> QED BY <1>2, <1>9, <1>10

\* What the invariant says of the messages.
LEMMA FramesFollow == FrameInv => FramesIntact
<1>1. HAVE FrameInv
<1>2. IsPrefix(taken, conversation.messages)
  <2>1. PICK n : n = Len(taken) /\ n \in Nat /\ n <= Len(Sent) /\ taken = SubSeq(Sent, 1, n)
    BY <1>1, SentIs
  <2>2. SubSeq(taken, 1, Len(taken)) = taken
    BY <1>1, SentIs, SubSeqFull
  <2> QED BY <2>1, <2>2 DEF IsPrefix, Sent
<1>3. phase # "terminated" => FlattenSeq(taken) \o Contents(input) = SubSeq(Bytes, 1, written)
  <2>1. Piece(Bytes, 0, written) = SubSeq(Bytes, 1, written)
    BY DEF Piece
  <2> QED BY <1>1, <2>1 DEF FrameInv, BytesKept, Cat
<1>4. at = "idle" /\ phase # "terminated" => Taken = WrittenWhole
  BY <1>1, WholeTaken DEF Taken
<1>5. phase = "terminated" => Contents(input) = <<>> /\ TypeOf(Last(taken)) = TERMINATE
  BY <1>1 DEF FrameInv, Terminated
<1> QED BY <1>2, <1>3, <1>4, <1>5 DEF FramesIntact

\* However the client's bytes were cut, and whatever PGlite answers, the duplex takes
\* exactly the messages the client sent, and leaves none that is whole in its buffer
\* (FrontendMessageBuffer, processMessages).
THEOREM FramesStayIntact == WireSpec => []FramesIntact
<1>1. WireSpec => []FrameInv
  BY FrameInvInit, FrameInvNext, PTL DEF WireSpec
<1> QED BY <1>1, FramesFollow, PTL

-----------------------------------------------------------------------------
(* The framer's state.                                                      *)

\* What the framer keeps are bytes, flags and counts.
FramerTypes ==
    /\ suppress \in BOOLEAN /\ rewrites \in BOOLEAN /\ rfqFrame \in BOOLEAN
    /\ dropNext \in BOOLEAN /\ dropping \in BOOLEAN /\ errSeen \in BOOLEAN
    /\ messageType \in Nat \cup {NoType} /\ remaining \in Nat /\ lastSeen \in Nat
    /\ header \in Seq(Nat) /\ held \in Seq(Nat) /\ rowDesc \in Seq(Nat)
    /\ chunk \in Seq(Nat) /\ passthrough \in Seq(Nat) /\ received \in Seq(Nat)
    /\ response \in Seq(Nat)

\* What is held, where in a frame.
HeldFits ==
    /\ Len(header) <= 4
    /\ messageType = NoType => header = <<>> /\ Len(held) \in {0, 6}
    /\ messageType # NoType /\ Len(header) < 4 =>
          Len(held) = IF messageType = READY_FOR_QUERY THEN 1 + Len(header) ELSE 0
    /\ messageType # NoType /\ Len(header) = 4 => Len(held) = IF rfqFrame THEN 5 ELSE 0

\* The framer's part of the types.
FramerOK == FramerTypes /\ HeldFits

\* Bytes after bytes are bytes.
LEMMA ConcatTyped ==
    \A s, t \in Seq(Nat) : s \o t \in Seq(Nat) /\ Len(s \o t) = Len(s) + Len(t)
BY CatProperties DEF Cat

\* A rewritten message is as long.
LEMMA RewrittenType ==
    \A m \in Seq(Nat) : Rewritten(m) \in Seq(Nat) /\ Len(Rewritten(m)) = Len(m)
<1> TAKE m \in Seq(Nat)
<1>1. PICK n : n = Len(m) /\ n \in Nat /\ DOMAIN m = 1..n /\ \A i \in 1..n : m[i] \in Nat
  BY LenProperties, ElementOfSeq
<1>2. Rewritten(m) \in [1..n -> Nat]
  BY <1>1 DEF Rewritten, PG_TYPE_OID_TEXT
<1>3. Rewritten(m) \in Seq(Nat)
  BY <1>1, <1>2, IsASeq
<1>4. DOMAIN Rewritten(m) = 1..Len(Rewritten(m)) /\ Len(Rewritten(m)) \in Nat
  BY <1>3, LenProperties
<1>5. DOMAIN Rewritten(m) = 1..n
  BY <1>2
<1>6. Len(Rewritten(m)) = n
  <2>1. PICK l \in Nat : l = Len(Rewritten(m)) /\ 1..l = 1..n
    BY <1>4, <1>5
  <2>2. (l \in 1..l \/ l = 0) /\ (n \in 1..n \/ n = 0)
    BY <1>1, <2>1
  <2>3. (l \in 1..n \/ l = 0) /\ (n \in 1..l \/ n = 0)
    BY <2>1, <2>2
  <2> QED BY <1>1, <2>1, <2>3
<1> QED BY <1>1, <1>3, <1>6

\* Four bytes are a number.
LEMMA UInt32Nat ==
    \A b \in Seq(Nat) : Len(b) = 4 => UInt32(b) \in Nat
<1> TAKE b \in Seq(Nat)
<1>1. HAVE Len(b) = 4
<1>2. \A i \in 1..4 : b[i] \in Nat
  BY <1>1, ElementOfSeq
<1>3. PICK k, l, m, q \in Nat : b[1] = k /\ b[2] = l /\ b[3] = m /\ b[4] = q
  BY <1>2
<1>4. ((k * 256 + l) * 256 + m) * 256 + q \in Nat
  OBVIOUS
<1>5. UInt32(b) = ((k * 256 + l) * 256 + m) * 256 + q
  BY <1>3, Zenon DEF UInt32
<1> QED BY <1>4, <1>5

\* A declared length is a number.
LEMMA DeclaredNat ==
    \A x \in Seq(Nat) : \A t \in Nat : t + 4 <= Len(x) => Declared(x, t) \in Nat
<1> TAKE x \in Seq(Nat)
<1> TAKE t \in Nat
<1>1. HAVE t + 4 <= Len(x)
<1>2. PICK n \in Nat : n = t + 4 /\ t <= n /\ n - t = 4 /\ n <= Len(x)
  BY <1>1
<1>3. Piece(x, t, n) \in Seq(Nat) /\ Len(Piece(x, t, n)) = n - t
  BY <1>2, PieceProperties
<1>4. UInt32(Piece(x, t, n)) \in Nat
  BY <1>2, <1>3, UInt32Nat
<1> QED BY <1>2, <1>4 DEF Declared, Piece

\* The start of a chunk, and what is left of it.
LEMMA ChunkParts ==
    \A n \in Nat : chunk \in Seq(Nat) /\ n <= Len(chunk) =>
        /\ SubSeq(chunk, 1, n) = Piece(chunk, 0, n) /\ Piece(chunk, 0, n) \in Seq(Nat)
        /\ Len(Piece(chunk, 0, n)) = n
        /\ SubSeq(chunk, n + 1, Len(chunk)) = Drop(chunk, n) /\ Drop(chunk, n) \in Seq(Nat)
        /\ chunk = Cat(Piece(chunk, 0, n), Drop(chunk, n))
<1> TAKE n \in Nat
<1>1. HAVE chunk \in Seq(Nat) /\ n <= Len(chunk)
<1>2. 0 <= n /\ n - 0 = n
  OBVIOUS
<1>3. Piece(chunk, 0, n) \in Seq(Nat) /\ Len(Piece(chunk, 0, n)) = n
  BY <1>1, <1>2, PieceProperties
<1>4. Drop(chunk, 0) = Cat(Piece(chunk, 0, n), Drop(chunk, n)) /\ Drop(chunk, 0) = chunk
  BY <1>1, <1>2, PieceProperties, RunEnds
<1>5. Drop(chunk, n) \in Seq(Nat)
  BY <1>1, DropLength
<1> QED BY <1>3, <1>4, <1>5 DEF Piece, Drop

\* A whole frame, with what is left after it.
LEMMA WholeIs ==
    ASSUME FramerTypes, AtFrameStart, Whole, ~Malformed(MessageLength)
    PROVE  LET frame == SubSeq(chunk, 1, 1 + MessageLength)
           IN  /\ MessageLength = Declared(chunk, 1) /\ MessageLength \in Nat
               /\ 1 + MessageLength <= Len(chunk) /\ 5 <= Len(frame)
               /\ frame = Piece(chunk, 0, 1 + MessageLength) /\ frame \in Seq(Nat)
               /\ Len(frame) = 1 + MessageLength
<1>1. chunk \in Seq(Nat) /\ Len(chunk) \in Nat /\ 5 <= Len(chunk) /\ Len(chunk) >= 1 + MessageLength
  BY LenProperties DEF FramerTypes, Whole, HeaderHere
<1>2. MessageLength = Declared(chunk, 1) /\ MessageLength \in Nat
  <2>1. MessageLength = Declared(chunk, 1)
    BY DEF MessageLength, Declared
  <2>2. 1 + 4 <= Len(chunk)
    BY <1>1
  <2> QED BY <1>1, <2>1, <2>2, DeclaredNat
<1>3. 4 <= MessageLength
  BY <1>2 DEF Malformed
<1>4. PICK n \in Nat : n = 1 + MessageLength
  BY <1>2
<1>5. SubSeq(chunk, 1, n) = Piece(chunk, 0, n) /\ Piece(chunk, 0, n) \in Seq(Nat)
      /\ Len(Piece(chunk, 0, n)) = n
  BY <1>1, <1>2, <1>4, ChunkParts
<1>6. /\ SubSeq(chunk, 1, 1 + MessageLength) = SubSeq(chunk, 1, n)
      /\ Piece(chunk, 0, 1 + MessageLength) = Piece(chunk, 0, n)
  BY <1>4
<1>7. 1 + MessageLength <= Len(chunk) /\ 5 <= n
  BY <1>1, <1>2, <1>3, <1>4
<1> QED BY <1>2, <1>4, <1>5, <1>6, <1>7

\* A step of the framer that takes a whole frame.
LEMMA WholeFrameTyped ==
    ASSUME FramerOK, WholeFrame, response' = response
    PROVE  FramerOK'
<1>1. FramerTypes /\ AtFrameStart /\ Whole /\ ~Malformed(MessageLength)
  BY DEF FramerOK, WholeFrame
<1>2. PICK frame : /\ frame = SubSeq(chunk, 1, 1 + MessageLength) /\ frame \in Seq(Nat)
                   /\ Len(frame) = 1 + MessageLength /\ MessageLength \in Nat
                   /\ 1 + MessageLength <= Len(chunk)
  BY <1>1, WholeIs
<1>3. chunk' \in Seq(Nat)
  <2>1. Len(frame) \in Nat /\ Len(frame) <= Len(chunk) /\ chunk \in Seq(Nat)
    BY <1>1, <1>2 DEF FramerTypes
  <2>2. chunk' = SubSeq(chunk, Len(frame) + 1, Len(chunk))
    BY <1>2 DEF WholeFrame, Skip
  <2> QED BY <2>1, <2>2, ChunkParts
<1>4. /\ onErrorResponse(TypeOf(frame))
      /\ \/ WholeReadyForQuery(frame)
         \/ WholeCopyInResponse(frame)
         \/ WholeRowDescription(frame)
         \/ WholeOther(frame)
  BY <1>2 DEF WholeFrame
<1>5. errSeen' \in BOOLEAN
  BY <1>4 DEF onErrorResponse
<1>6. /\ suppress' = suppress /\ rewrites' = rewrites /\ messageType' = messageType
      /\ header' = header /\ remaining' = remaining /\ rfqFrame' = rfqFrame /\ dropping' = dropping
      /\ rowDesc' = rowDesc
  BY DEF WholeFrame, perFrame
<1>7. messageType = NoType /\ header = <<>> /\ Len(held) \in {0, 6} /\ StaleDropped \in {<<>>, held}
  BY <1>1 DEF FramerOK, HeldFits, AtFrameStart, StaleDropped
<1>8. <<>> \in Seq(Nat) /\ Len(<<>>) = 0 /\ held \in Seq(Nat) /\ received \in Seq(Nat)
      /\ passthrough \in Seq(Nat)
  BY <1>1, EmptySeq DEF FramerTypes
<1>9. /\ held' \in Seq(Nat) /\ Len(held') \in {0, 6} /\ dropNext' \in BOOLEAN /\ lastSeen' \in Nat
      /\ passthrough' \in Seq(Nat) /\ received' \in Seq(Nat)
  <2>1. received \o passthrough \in Seq(Nat)
    BY <1>8, ConcatTyped
  <2>2. CASE WholeReadyForQuery(frame)
    <3>1. /\ lastSeen' = frame[6] /\ Len(frame) = 6 /\ held' \in {frame, <<>>}
          /\ passthrough' = <<>>
          /\ dropNext' = dropNext
          /\ received' \in {received \o passthrough \o <<>>, received \o passthrough \o frame}
      BY <2>2 DEF WholeReadyForQuery
    <3>2. frame[6] \in Nat
      BY <1>2, <3>1, ElementOfSeq
    <3>3. received' \in Seq(Nat)
      BY <1>2, <1>8, <2>1, <3>1, ConcatTyped
    <3> QED BY <1>1, <1>2, <1>8, <3>1, <3>2, <3>3 DEF FramerTypes
  <2>3. CASE WholeCopyInResponse(frame)
    BY <1>1, <1>7, <1>8, <2>1, <2>3 DEF WholeCopyInResponse, FramerTypes
  <2>4. CASE WholeRowDescription(frame)
    <3>1. Rewritten(frame) \in Seq(Nat)
      BY <1>2, RewrittenType
    <3>2. received \o passthrough \o Rewritten(frame) \in Seq(Nat)
      BY <2>1, <3>1, ConcatTyped
    <3> QED BY <1>1, <1>7, <1>8, <2>4, <3>2 DEF WholeRowDescription, FramerTypes
  <2>5. CASE WholeOther(frame)
    <3>1. passthrough \o frame \in Seq(Nat)
      BY <1>2, <1>8, ConcatTyped
    <3> QED BY <1>1, <1>7, <1>8, <2>5, <3>1 DEF WholeOther, FramerTypes
  <2> QED BY <1>4, <2>2, <2>3, <2>4, <2>5
<1>10. FramerTypes'
  BY <1>1, <1>3, <1>5, <1>6, <1>9 DEF FramerTypes
<1>11. HeldFits'
  BY <1>6, <1>7, <1>8, <1>9 DEF HeldFits
<1> QED BY <1>10, <1>11 DEF FramerOK

\* A step that starts a frame that is not whole.
LEMMA FrameStartTyped ==
    ASSUME FramerOK, FrameStart, response' = response
    PROVE  FramerOK'
<1>1. FramerTypes /\ messageType = NoType /\ chunk # <<>> /\ chunk \in Seq(Nat) /\ header = <<>>
  BY DEF FramerOK, FramerTypes, HeldFits, FrameStart, AtFrameStart
<1>2. Len(chunk) \in Nat /\ 1 <= Len(chunk) /\ chunk[1] \in Nat
  <2>1. Len(chunk) \in Nat /\ Len(chunk) # 0
    BY <1>1, LenProperties, EmptySeq
  <2>2. 1 \in 1..Len(chunk)
    BY <2>1
  <2> QED BY <1>1, <2>1, <2>2, ElementOfSeq
<1>3. chunk' \in Seq(Nat)
  <2>1. chunk' = SubSeq(chunk, 1 + 1, Len(chunk))
    BY DEF FrameStart, Skip
  <2> QED BY <1>1, <1>2, <2>1, ChunkParts
<1>4. received' \in Seq(Nat) /\ passthrough' = <<>>
  BY <1>1, ConcatTyped DEF FrameStart, FramerTypes
<1>5. /\ messageType' = chunk[1] /\ messageType' # NoType /\ header' = <<>> /\ remaining' = 0
      /\ dropping' \in BOOLEAN /\ dropNext' \in BOOLEAN /\ rfqFrame' = rfqFrame
  BY <1>1, <1>2, NoTypeAssumption DEF FrameStart, FramerTypes
<1>6. <<>> \in Seq(Nat) /\ Len(<<>>) = 0 /\ <<READY_FOR_QUERY>> \in Seq(Nat)
      /\ Len(<<READY_FOR_QUERY>>) = 1
  BY EmptySeq DEF READY_FOR_QUERY
<1>7. held' = IF messageType' = READY_FOR_QUERY THEN <<READY_FOR_QUERY>> ELSE <<>>
  BY <1>5 DEF FrameStart
<1>8. FramerTypes'
  BY <1>1, <1>2, <1>3, <1>4, <1>5, <1>6, <1>7 DEF FramerTypes, FrameStart
<1>9. HeldFits'
  BY <1>5, <1>6, <1>7 DEF HeldFits
<1> QED BY <1>8, <1>9 DEF FramerOK

\* What a turn reads of a header.
LEMMA HeaderTurn ==
    ASSUME FramerOK, InHeader
    PROVE  \E m \in Nat :
              /\ 1 <= m /\ m <= Len(chunk) /\ Len(header) + m <= 4 /\ Len(header) \in 0..3
              /\ m = Len(chunk) \/ Len(header) + m = 4
              /\ HeaderBytes = m /\ HeaderRead = Cat(header, Piece(chunk, 0, m))
              /\ HeaderRead \in Seq(Nat) /\ Len(HeaderRead) = Len(header) + m
<1>1. /\ header \in Seq(Nat) /\ chunk \in Seq(Nat) /\ Len(header) \in 0..3
      /\ Len(chunk) \in Nat /\ 1 <= Len(chunk)
  <2>1. header \in Seq(Nat) /\ chunk \in Seq(Nat) /\ chunk # <<>> /\ Len(header) < 4
    BY DEF FramerOK, FramerTypes, InHeader
  <2>2. Len(header) \in Nat /\ Len(chunk) \in Nat
    BY <2>1, LenProperties
  <2>3. Len(chunk) # 0
    BY <2>1, EmptySeq
  <2>4. \A h, c \in Nat : h < 4 /\ c # 0 => h \in 0..3 /\ 1 <= c
    OBVIOUS
  <2>5. Len(header) \in 0..3 /\ 1 <= Len(chunk)
    BY <2>1, <2>2, <2>3, <2>4, Zenon
  <2> QED BY <2>1, <2>2, <2>5, Zenon
<1>2. PICK h, c, l \in Nat : h = Len(header) /\ c = Len(chunk) /\ l = 4 - h /\ h <= 3 /\ 1 <= c
  <2>1. \A h \in 0..3 : h \in Nat /\ 4 - h \in Nat /\ h <= 3
    OBVIOUS
  <2> QED BY <1>1, <2>1, Zenon
<1>3. PICK m \in Nat : m = Min({l, c}) /\ m = IF l <= c THEN l ELSE c
  <2>1. Min({l, c}) = IF l <= c THEN l ELSE c
    BY MinOfTwo
  <2> QED BY <2>1
<1>4. /\ 1 <= m /\ m <= Len(chunk) /\ Len(header) + m <= 4
      /\ m = Len(chunk) \/ Len(header) + m = 4
  BY <1>2, <1>3
<1>5. SubSeq(chunk, 1, m) = Piece(chunk, 0, m) /\ Piece(chunk, 0, m) \in Seq(Nat)
      /\ Len(Piece(chunk, 0, m)) = m
  BY <1>1, <1>4, ChunkParts
<1>6. HeaderRead = Cat(header, Piece(chunk, 0, m))
  BY <1>2, <1>3, <1>5 DEF HeaderRead, Cat
<1>7. HeaderRead \in Seq(Nat) /\ Len(HeaderRead) = Len(header) + m
  BY <1>1, <1>5, <1>6, CatProperties
<1>8. HeaderBytes = m
  BY <1>1, <1>7 DEF HeaderBytes
<1> QED BY <1>1, <1>4, <1>6, <1>7, <1>8

\* A step that reads a part of a header.
LEMMA HeaderPartTyped ==
    ASSUME FramerOK, HeaderPart, response' = response
    PROVE  FramerOK'
<1>1. FramerTypes /\ InHeader /\ messageType # NoType /\ Len(header) < 4
  BY DEF FramerOK, HeaderPart, InHeader
<1>2. PICK m \in Nat : /\ m = Len(chunk) /\ HeaderBytes = m /\ Len(header) + m < 4
                       /\ HeaderRead \in Seq(Nat) /\ Len(HeaderRead) = Len(header) + m
                       /\ Len(header) \in Nat
  <2>1. Len(HeaderRead) < 4
    BY DEF HeaderPart
  <2> QED BY <1>1, <2>1, HeaderTurn
<1>3. chunk' \in Seq(Nat)
  <2>1. chunk' = SubSeq(chunk, m + 1, Len(chunk)) /\ m <= Len(chunk) /\ chunk \in Seq(Nat)
    BY <1>1, <1>2 DEF HeaderPart, Skip, FramerTypes
  <2> QED BY <1>2, <2>1, ChunkParts
<1>4. /\ header' = HeaderRead /\ messageType' = messageType /\ rfqFrame' = rfqFrame
      /\ remaining' = remaining /\ dropping' = dropping
  BY DEF HeaderPart
<1>5. held \in Seq(Nat) /\ chunk \in Seq(Nat) /\ held \o chunk \in Seq(Nat)
      /\ Len(held \o chunk) = Len(held) + m
  BY <1>1, <1>2, ConcatTyped DEF FramerTypes
<1>6. held' = IF messageType = READY_FOR_QUERY THEN held \o chunk ELSE held
  BY DEF HeaderPart
<1>7. Len(held) = IF messageType = READY_FOR_QUERY THEN 1 + Len(header) ELSE 0
  BY <1>1 DEF FramerOK, HeldFits
<1>8. Len(held') = IF messageType = READY_FOR_QUERY THEN 1 + (Len(header) + m) ELSE 0
  BY <1>2, <1>5, <1>6, <1>7
<1>9. HeldFits'
  <2>1. Len(header') < 4 /\ Len(header') <= 4 /\ Len(header') # 4
    <3>1. \A h, k \in Nat : h + k < 4 => h + k <= 4 /\ h + k # 4
      OBVIOUS
    <3> QED BY <1>2, <1>4, <3>1, Zenon
  <2>2. Len(held') = IF messageType' = READY_FOR_QUERY THEN 1 + Len(header') ELSE 0
    BY <1>2, <1>4, <1>8, Zenon
  <2> QED BY <1>1, <1>4, <2>1, <2>2, Zenon DEF HeldFits
<1>10. FramerTypes'
  BY <1>1, <1>2, <1>3, <1>4, <1>5, <1>6 DEF FramerTypes, HeaderPart
<1> QED BY <1>9, <1>10 DEF FramerOK

\* A step that reads the end of a header.
LEMMA HeaderEndTyped ==
    ASSUME FramerOK, HeaderEnd, response' = response
    PROVE  FramerOK'
<1>1. FramerTypes /\ InHeader /\ messageType # NoType /\ Len(header) < 4 /\ messageType \in Nat
  BY DEF FramerOK, FramerTypes, HeaderEnd, InHeader
<1>2. PICK m \in Nat : /\ m <= Len(chunk) /\ HeaderBytes = m /\ Len(header) + m = 4
                       /\ HeaderRead \in Seq(Nat) /\ Len(HeaderRead) = 4 /\ Len(header) \in Nat
  <2>1. Len(HeaderRead) = 4
    BY DEF HeaderEnd
  <2> QED BY <1>1, <2>1, HeaderTurn
<1>3. PICK payload \in Nat : payload = UInt32(HeaderRead) - 4
  <2>1. UInt32(HeaderRead) \in Nat
    BY <1>2, UInt32Nat
  <2> QED BY <2>1 DEF HeaderEnd, Malformed
<1>4. chunk' \in Seq(Nat)
  <2>1. chunk' = SubSeq(chunk, m + 1, Len(chunk)) /\ chunk \in Seq(Nat)
    BY <1>1, <1>2 DEF HeaderEnd, Skip, FramerTypes
  <2> QED BY <1>2, <2>1, ChunkParts
<1>5. PICK whole : /\ whole = <<messageType>> \o HeaderRead /\ whole \in Seq(Nat)
  <2>1. <<messageType>> \in Seq(Nat)
    BY <1>1
  <2> QED BY <1>2, <2>1, ConcatTyped
<1>6. <<>> \in Seq(Nat) /\ Len(<<>>) = 0
  BY EmptySeq
<1>7. received' \in Seq(Nat) /\ rowDesc' \in Seq(Nat)
  <2>1. received \o whole \in Seq(Nat) /\ received \o <<>> \in Seq(Nat) /\ rowDesc \in Seq(Nat)
    BY <1>1, <1>5, <1>6, ConcatTyped DEF FramerTypes
  <2>2. received' \in {received \o whole, received \o <<>>} /\ rowDesc' \in {whole, rowDesc}
    BY <1>5 DEF HeaderEnd
  <2> QED BY <1>5, <2>1, <2>2, Zenon
<1>8. errSeen' \in BOOLEAN
  BY DEF HeaderEnd, onErrorResponse
<1>9. \/ /\ messageType' = NoType /\ header' = <<>> /\ remaining' = 0 /\ rfqFrame' = FALSE
         /\ dropping' = FALSE /\ held' = <<>>
      \/ /\ header' = HeaderRead /\ remaining' = payload /\ dropping' = dropping
         /\ messageType' = messageType
         /\ rfqFrame' = (messageType = READY_FOR_QUERY /\ payload = 1)
         /\ held' = IF rfqFrame' THEN held \o SubSeq(chunk, 1, m) ELSE <<>>
  BY <1>2, <1>3 DEF HeaderEnd, finishMessage
<1>10. /\ held \o SubSeq(chunk, 1, m) \in Seq(Nat)
       /\ messageType = READY_FOR_QUERY => Len(held \o SubSeq(chunk, 1, m)) = 5
  <2>1. SubSeq(chunk, 1, m) \in Seq(Nat) /\ Len(SubSeq(chunk, 1, m)) = m /\ held \in Seq(Nat)
    BY <1>1, <1>2, ChunkParts DEF FramerTypes
  <2>2. Len(held \o SubSeq(chunk, 1, m)) = Len(held) + m /\ held \o SubSeq(chunk, 1, m) \in Seq(Nat)
    BY <2>1, ConcatTyped
  <2>3. messageType = READY_FOR_QUERY => Len(held) = 1 + Len(header)
    BY <1>1 DEF FramerOK, HeldFits
  <2>4. \A h \in Nat : h + m = 4 => 1 + h + m = 5
    OBVIOUS
  <2> QED BY <1>2, <2>2, <2>3, <2>4, Zenon
<1>11. /\ suppress' = suppress /\ rewrites' = rewrites /\ dropNext' = dropNext
       /\ passthrough' = passthrough /\ lastSeen' = lastSeen
  BY DEF HeaderEnd
<1>12. HeldFits'
  <2>1. CASE messageType' = NoType /\ header' = <<>> /\ held' = <<>>
    <3>1. 0 <= 4 /\ 0 \in {0, 6}
      OBVIOUS
    <3> QED BY <1>6, <2>1, <3>1, Zenon DEF HeldFits
  <2>2. CASE /\ header' = HeaderRead /\ messageType' = messageType
             /\ rfqFrame' => messageType = READY_FOR_QUERY
             /\ held' = IF rfqFrame' THEN held \o SubSeq(chunk, 1, m) ELSE <<>>
    <3>1. Len(held') = IF rfqFrame' THEN 5 ELSE 0
      <4>1. CASE rfqFrame'
        <5>1. held' = held \o SubSeq(chunk, 1, m) /\ Len(held \o SubSeq(chunk, 1, m)) = 5
          BY <1>10, <2>2, <4>1, Zenon
        <5> QED BY <4>1, <5>1, Zenon
      <4>2. CASE ~rfqFrame'
        <5>1. held' = <<>>
          BY <2>2, <4>2
        <5> QED BY <1>6, <4>2, <5>1
      <4> QED BY <4>1, <4>2
    <3>2. Len(header') = 4 /\ 4 <= 4 /\ ~(4 < 4)
      BY <1>2, <2>2
    <3> QED BY <1>1, <2>2, <3>1, <3>2, Zenon DEF HeldFits
  <2> QED BY <1>9, <2>1, <2>2, Zenon
<1>13. /\ rfqFrame' \in BOOLEAN /\ dropping' \in BOOLEAN /\ remaining' \in Nat
       /\ header' \in Seq(Nat)
       /\ messageType' \in Nat \cup {NoType} /\ held' \in Seq(Nat)
  <2>1. dropping \in BOOLEAN /\ 0 \in Nat /\ FALSE \in BOOLEAN
    BY <1>1 DEF FramerTypes
  <2>2. CASE /\ messageType' = NoType /\ header' = <<>> /\ remaining' = 0 /\ rfqFrame' = FALSE
             /\ dropping' = FALSE /\ held' = <<>>
    BY <1>6, <2>1, <2>2, Zenon
  <2>3. CASE /\ header' = HeaderRead /\ remaining' = payload /\ dropping' = dropping
             /\ messageType' = messageType
             /\ rfqFrame' = (messageType = READY_FOR_QUERY /\ payload = 1)
             /\ held' = IF rfqFrame' THEN held \o SubSeq(chunk, 1, m) ELSE <<>>
    BY <1>1, <1>2, <1>6, <1>10, <2>1, <2>3, Zenon
  <2> QED BY <1>9, <2>2, <2>3, Zenon
<1>14. FramerTypes'
  BY <1>1, <1>4, <1>7, <1>8, <1>11, <1>13, Zenon DEF FramerTypes
<1> QED BY <1>12, <1>14 DEF FramerOK

\* What a turn reads of a payload.
LEMMA PayloadTurn ==
    ASSUME FramerOK, InPayload
    PROVE  \E k \in Nat :
              /\ k = Min({remaining, Len(chunk)}) /\ k <= Len(chunk) /\ k <= remaining
              /\ k = remaining \/ k = Len(chunk)
              /\ SubSeq(chunk, 1, k) = Piece(chunk, 0, k) /\ Piece(chunk, 0, k) \in Seq(Nat)
              /\ SubSeq(chunk, k + 1, Len(chunk)) = Drop(chunk, k) /\ Drop(chunk, k) \in Seq(Nat)
<1>1. chunk \in Seq(Nat) /\ Len(chunk) \in Nat /\ remaining \in Nat
  BY LenProperties DEF FramerOK, FramerTypes
<1>2. PICK c, r \in Nat : c = Len(chunk) /\ r = remaining
  BY <1>1
<1>3. PICK k \in Nat : k = Min({r, c}) /\ k = IF r <= c THEN r ELSE c
  <2>1. Min({r, c}) = IF r <= c THEN r ELSE c
    BY MinOfTwo
  <2> QED BY <2>1
<1>4. k <= c /\ k <= r /\ (k = r \/ k = c)
  BY <1>3
<1>5. /\ SubSeq(chunk, 1, k) = Piece(chunk, 0, k) /\ Piece(chunk, 0, k) \in Seq(Nat)
      /\ SubSeq(chunk, k + 1, Len(chunk)) = Drop(chunk, k) /\ Drop(chunk, k) \in Seq(Nat)
  BY <1>1, <1>2, <1>4, ChunkParts
<1> QED BY <1>2, <1>3, <1>4, <1>5, Zenon

\* A step that reads the status of a ReadyForQuery.
LEMMA RfqPayloadTyped ==
    ASSUME FramerOK, RfqPayload, response' = response
    PROVE  FramerOK'
<1>1. /\ chunk \in Seq(Nat) /\ chunk # <<>> /\ held \in Seq(Nat) /\ received \in Seq(Nat)
      /\ messageType # NoType /\ Len(header) = 4 /\ rfqFrame
  BY DEF FramerOK, FramerTypes, RfqPayload, InPayload
<1>2. Len(held) = 5
  BY <1>1, Zenon DEF FramerOK, HeldFits
<1>3. Len(chunk) \in Nat /\ 1 <= Len(chunk) /\ chunk[1] \in Nat
  <2>1. Len(chunk) \in Nat /\ Len(chunk) # 0
    BY <1>1, LenProperties, EmptySeq
  <2>2. 1 \in 1..Len(chunk)
    BY <2>1
  <2> QED BY <1>1, <2>1, <2>2, ElementOfSeq
<1>4. PICK frame : frame = Append(held, chunk[1]) /\ frame \in Seq(Nat) /\ Len(frame) = 6
  <2>1. Append(held, chunk[1]) \in Seq(Nat) /\ Len(Append(held, chunk[1])) = Len(held) + 1
    BY <1>1, <1>3, AppendProperties
  <2>2. Len(held) + 1 = 6
    BY <1>2
  <2> QED BY <2>1, <2>2, Zenon
<1>5. chunk' \in Seq(Nat)
  <2>1. chunk' = SubSeq(chunk, 1 + 1, Len(chunk))
    BY DEF RfqPayload, Skip
  <2> QED BY <1>1, <1>3, <2>1, ChunkParts
<1>6. /\ messageType' = NoType /\ header' = <<>> /\ remaining' = 0 /\ rfqFrame' = FALSE
      /\ dropping' = FALSE /\ held' \in {frame, <<>>} /\ lastSeen' = chunk[1]
      /\ received' \in {received \o <<>>, received \o frame}
      /\ suppress' = suppress /\ rewrites' = rewrites /\ rowDesc' = rowDesc /\ dropNext' = dropNext
      /\ passthrough' = passthrough /\ errSeen' = errSeen
  BY <1>4 DEF RfqPayload, finishMessage
<1>7. <<>> \in Seq(Nat) /\ Len(<<>>) = 0 /\ 0 \in Nat /\ 0 <= 4 /\ 0 \in {0, 6} /\ 6 \in {0, 6}
  BY EmptySeq
<1>8. received' \in Seq(Nat)
  <2>1. received \o <<>> \in Seq(Nat) /\ received \o frame \in Seq(Nat)
    BY <1>1, <1>4, <1>7, ConcatTyped
  <2> QED BY <1>6, <2>1, Zenon
<1>9. HeldFits'
  BY <1>4, <1>6, <1>7, Zenon DEF HeldFits
<1>10. FramerTypes'
  <2>1. held' \in Seq(Nat)
    BY <1>4, <1>6, <1>7, Zenon
  <2>2. dropping' \in BOOLEAN /\ rfqFrame' \in BOOLEAN
    BY <1>6
  <2> QED BY <1>3, <1>5, <1>6, <1>7, <1>8, <2>1, <2>2, Zenon DEF FramerOK, FramerTypes
<1> QED BY <1>9, <1>10 DEF FramerOK

\* A step that reads a part of another payload.
LEMMA PayloadTyped ==
    ASSUME FramerOK, Payload, response' = response
    PROVE  FramerOK'
<1>1. /\ FramerTypes /\ InPayload /\ rowDesc \in Seq(Nat) /\ received \in Seq(Nat)
      /\ messageType # NoType /\ Len(header) = 4 /\ ~rfqFrame
  BY DEF FramerOK, FramerTypes, Payload, InPayload
<1>2. Len(held) = 0
  BY <1>1, Zenon DEF FramerOK, HeldFits
<1>3. PICK k \in Nat, bytes \in Seq(Nat) :
          /\ k = Min({remaining, Len(chunk)}) /\ k <= remaining /\ bytes = SubSeq(chunk, 1, k)
          /\ SubSeq(chunk, k + 1, Len(chunk)) \in Seq(Nat)
  BY <1>1, PayloadTurn
<1>4. chunk' \in Seq(Nat)
  BY <1>3 DEF Payload, Skip
<1>5. <<>> \in Seq(Nat) /\ Len(<<>>) = 0 /\ 0 \in Nat /\ 0 <= 4 /\ 0 \in {0, 6}
  BY EmptySeq
<1>6. PICK whole : whole = rowDesc \o bytes /\ whole \in Seq(Nat) /\ Rewritten(whole) \in Seq(Nat)
  BY <1>1, <1>3, ConcatTyped, RewrittenType
<1>7. /\ rowDesc' \in {whole, <<>>}
      /\ \E more \in {<<>>, bytes, Rewritten(whole)} : received' = received \o more
  BY <1>3, <1>6 DEF Payload
<1>8. received' \in Seq(Nat) /\ rowDesc' \in Seq(Nat)
  <2>1. \A more \in {<<>>, bytes, Rewritten(whole)} : received \o more \in Seq(Nat)
    BY <1>1, <1>3, <1>5, <1>6, ConcatTyped
  <2> QED BY <1>5, <1>6, <1>7, <2>1, Zenon
<1>9. \/ /\ messageType' = NoType /\ header' = <<>> /\ remaining' = 0 /\ rfqFrame' = FALSE
         /\ dropping' = FALSE /\ held' \in {held, <<>>}
      \/ /\ messageType' = messageType /\ header' = header /\ remaining' = remaining - k
         /\ rfqFrame' = rfqFrame /\ dropping' = dropping /\ held' = held
  BY <1>3 DEF Payload, finishMessage
<1>10. HeldFits'
  <2>1. 4 <= 4 /\ ~(4 < 4)
    OBVIOUS
  <2>2. Len(held') = 0
    BY <1>2, <1>5, <1>9
  <2>3. CASE messageType' = NoType /\ header' = <<>>
    BY <1>5, <2>2, <2>3, Zenon DEF HeldFits
  <2>4. CASE messageType' = messageType /\ header' = header /\ rfqFrame' = rfqFrame
    BY <1>1, <2>1, <2>2, <2>4, Zenon DEF HeldFits
  <2> QED BY <1>9, <2>3, <2>4, Zenon
<1>11. /\ messageType' \in Nat \cup {NoType} /\ header' \in Seq(Nat) /\ remaining' \in Nat
       /\ rfqFrame' \in BOOLEAN /\ dropping' \in BOOLEAN /\ held' \in Seq(Nat)
  <2>1. /\ messageType \in Nat \cup {NoType} /\ header \in Seq(Nat) /\ remaining \in Nat
        /\ rfqFrame \in BOOLEAN /\ dropping \in BOOLEAN /\ held \in Seq(Nat) /\ FALSE \in BOOLEAN
    BY <1>1 DEF FramerTypes
  <2>2. remaining - k \in Nat
    BY <1>3, <2>1
  <2> QED BY <1>5, <1>9, <2>1, <2>2, Zenon
<1>12. /\ suppress' = suppress /\ rewrites' = rewrites /\ dropNext' = dropNext
       /\ passthrough' = passthrough /\ errSeen' = errSeen /\ lastSeen' = lastSeen
  BY DEF Payload
<1>13. FramerTypes'
  BY <1>1, <1>4, <1>8, <1>11, <1>12, Zenon DEF FramerTypes
<1> QED BY <1>10, <1>13 DEF FramerOK

\* A turn of write's loop.
LEMMA writeTyped ==
    ASSUME FramerOK, write, response' = response
    PROVE  FramerOK'
<1>1. CASE WriteEnd
  <2>1. /\ received' = received \o passthrough /\ passthrough' = <<>>
        /\ suppress' = suppress /\ rewrites' = rewrites /\ messageType' = messageType
        /\ header' = header /\ remaining' = remaining /\ rfqFrame' = rfqFrame
        /\ dropping' = dropping /\ held' = held /\ rowDesc' = rowDesc /\ dropNext' = dropNext
        /\ chunk' = chunk /\ errSeen' = errSeen /\ lastSeen' = lastSeen
    BY <1>1 DEF WriteEnd, perFrame
  <2>2. received \o passthrough \in Seq(Nat) /\ <<>> \in Seq(Nat)
    BY ConcatTyped, EmptySeq DEF FramerOK, FramerTypes
  <2>3. FramerTypes'
    BY <2>1, <2>2, Zenon DEF FramerOK, FramerTypes
  <2>4. HeldFits'
    BY <2>1, Zenon DEF FramerOK, HeldFits
  <2> QED BY <2>3, <2>4 DEF FramerOK
<1> QED
  BY <1>1, WholeFrameTyped, FrameStartTyped, HeaderPartTyped, HeaderEndTyped, RfqPayloadTyped,
     PayloadTyped DEF write

-----------------------------------------------------------------------------
(* The capture of a copy, and the types of the whole.                       *)

\* What was captured is within the cap, and counted.
CaptureOK(capture) ==
    /\ capture \in [on : BOOLEAN, chunks : Seq(Seq(Nat)), total : Nat, discarding : BOOLEAN]
    /\ capture.total <= copyAggregateCapBytes
    /\ capture.total = Len(FlattenSeq(capture.chunks)) \/ capture.discarding

\* The inductive invariant of the types.
TypeInv == FramerOK /\ CaptureOK(copyCapture) /\ mode \in Modes

\* A fresh capture.
LEMMA NoCaptureOK ==
    /\ CaptureOK(NoCapture) /\ CaptureOK([NoCapture EXCEPT !.on = TRUE])
<1>1. /\ <<>> \in Seq(Seq(Nat)) /\ FlattenSeq(<<>>) = <<>> /\ Len(<<>>) = 0
      /\ copyAggregateCapBytes \in Nat
  BY EmptySeq, FlattenEmpty, ConversationAssumption
<1>2. PICK c : c = NoCapture
  OBVIOUS
<1>3. CaptureOK(c)
  <2>1. c.chunks = <<>> /\ c.total = 0 /\ 0 <= copyAggregateCapBytes
    BY <1>1, <1>2 DEF NoCapture
  <2>2. c \in [on : BOOLEAN, chunks : Seq(Seq(Nat)), total : Nat, discarding : BOOLEAN]
    BY <1>1, <1>2 DEF NoCapture
  <2>3. Len(FlattenSeq(c.chunks)) = 0
    BY <1>1, <2>1
  <2> QED BY <2>1, <2>2, <2>3, Zenon DEF CaptureOK
<1>4. CaptureOK([c EXCEPT !.on = TRUE])
  BY <1>3 DEF CaptureOK
<1> QED BY <1>2, <1>3, <1>4

\* A message is captured within the cap, or what was captured is released.
LEMMA CaptureKept ==
    ASSUME NEW capture, CaptureOK(capture), NEW message \in Seq(Nat)
    PROVE  CaptureOK(appendCopyCapture(capture, message))
<1>1. /\ copyAggregateCapBytes \in Nat /\ capture.total \in Nat /\ Len(message) \in Nat
      /\ capture.chunks \in Seq(Seq(Nat)) /\ capture.total <= copyAggregateCapBytes
  BY LenProperties, ConversationAssumption DEF CaptureOK
<1>2. CASE capture.discarding
  BY <1>2 DEF appendCopyCapture
<1>3. CASE ~capture.discarding /\ Len(message) > copyAggregateCapBytes - capture.total
  <2>1. appendCopyCapture(capture, message) = [capture EXCEPT !.discarding = TRUE, !.chunks = <<>>]
    BY <1>3 DEF appendCopyCapture
  <2>2. <<>> \in Seq(Seq(Nat))
    BY EmptySeq
  <2> QED BY <2>1, <2>2 DEF CaptureOK
<1>4. CASE ~capture.discarding /\ ~(Len(message) > copyAggregateCapBytes - capture.total)
  <2>1. appendCopyCapture(capture, message)
           = [capture EXCEPT !.total = capture.total + Len(message),
                             !.chunks = Append(capture.chunks, message)]
    BY <1>4 DEF appendCopyCapture
  <2>2. capture.total + Len(message) \in Nat
        /\ capture.total + Len(message) <= copyAggregateCapBytes
    BY <1>1, <1>4
  <2>3. Append(capture.chunks, message) \in Seq(Seq(Nat))
    BY <1>1, AppendProperties
  <2>4. capture.total + Len(message) = Len(FlattenSeq(Append(capture.chunks, message)))
    <3>1. FlattenSeq(capture.chunks) \in Seq(Nat)
      BY <1>1, FlattenType
    <3>2. FlattenSeq(Append(capture.chunks, message)) = FlattenSeq(capture.chunks) \o message
      BY <1>1, FlattenAppend
    <3>3. Len(FlattenSeq(capture.chunks) \o message)
             = Len(FlattenSeq(capture.chunks)) + Len(message)
      BY <3>1, ConcatTyped
    <3>4. capture.total = Len(FlattenSeq(capture.chunks))
      BY <1>4 DEF CaptureOK
    <3> QED BY <3>2, <3>3, <3>4, Zenon
  <2>5. PICK n, cs : n = capture.total + Len(message) /\ cs = Append(capture.chunks, message)
    OBVIOUS
  <2> QED BY <2>1, <2>2, <2>3, <2>4, <2>5 DEF CaptureOK
<1> QED BY <1>2, <1>3, <1>4

\* What the duplex answers by itself is bytes.
LEMMA SyntheticTyped ==
    ASSUME lastSeen \in Nat
    PROVE  /\ SyntheticCopyInResponse \in Seq(Nat)
           /\ SyntheticError \o SyntheticReadyForQuery \in Seq(Nat)
<1>1. ASSUME NEW type \in Nat, NEW payload \in Seq(Nat) PROVE Message(type, payload) \in Seq(Nat)
  <2>1. PICK n \in Nat : n = Len(payload) + 4
    BY LenProperties
  <2>2. <<type, 0, 0, 0, n>> \in Seq(Nat)
    OBVIOUS
  <2> QED BY <2>1, <2>2, ConcatTyped DEF Message
<1>2. <<0, 0, 0>> \in Seq(Nat) /\ <<1>> \in Seq(Nat) /\ <<lastSeen>> \in Seq(Nat)
  OBVIOUS
<1>3. COPY_IN_RESPONSE \in Nat /\ ERROR_RESPONSE \in Nat /\ READY_FOR_QUERY \in Nat
  BY DEF COPY_IN_RESPONSE, ERROR_RESPONSE, READY_FOR_QUERY
<1>4. /\ SyntheticCopyInResponse \in Seq(Nat) /\ SyntheticError \in Seq(Nat)
      /\ SyntheticReadyForQuery \in Seq(Nat)
  BY <1>1, <1>2, <1>3 DEF SyntheticCopyInResponse, SyntheticError, SyntheticReadyForQuery,
                           ReadyForQuery
<1> QED BY <1>4, ConcatTyped

\* A call starts with a fresh framer.
LEMMA streamProtocolTyped ==
    ASSUME FramerOK, NEW message, NEW rfqMode \in Modes, streamProtocol(message, rfqMode)
    PROVE  FramerOK' /\ mode' \in Modes
<1>1. /\ suppress' = (rfqMode \in {"suppress", "flush-boundary"})
      /\ messageType' = NoType /\ header' = <<>> /\ remaining' = 0 /\ held' = <<>>
      /\ rfqFrame' = FALSE
      /\ rowDesc' = <<>> /\ dropNext' = ArmsDrop(rfqMode) /\ dropping' = FALSE /\ errSeen' = FALSE
      /\ mode' = rfqMode /\ rewrites' = rewrites /\ chunk' = chunk /\ passthrough' = passthrough
      /\ received' = received /\ lastSeen' = lastSeen
  BY DEF streamProtocol, reset
<1>2. response' \in Seq(Nat)
  <2>1. PICK reply \in Replies(rfqMode) : response' = FlattenSeq(reply)
    BY DEF streamProtocol
  <2>2. reply \in Seq(Seq(Nat))
    BY ReplyAssumption
  <2> QED BY <2>1, <2>2, FlattenType
<1>3. <<>> \in Seq(Nat) /\ Len(<<>>) = 0 /\ 0 \in Nat /\ 0 <= 4 /\ 0 \in {0, 6}
  BY EmptySeq
<1>4. suppress' \in BOOLEAN /\ dropNext' \in BOOLEAN /\ FALSE \in BOOLEAN
  BY <1>1 DEF ArmsDrop
<1>5. FramerTypes'
  BY <1>1, <1>2, <1>3, <1>4, Zenon DEF FramerOK, FramerTypes
<1>6. HeldFits'
  BY <1>1, <1>3, Zenon DEF HeldFits
<1> QED BY <1>1, <1>5, <1>6 DEF FramerOK

\* The framer is left alone, save for what the client received.
LEMMA FramerKept ==
    ASSUME FramerOK, received' \in Seq(Nat), response' \in Seq(Nat), chunk' \in Seq(Nat),
           UNCHANGED <<suppress, rewrites, perFrame, held, rowDesc, dropNext, passthrough, errSeen,
                       lastSeen>>
    PROVE  FramerOK'
<1>1. /\ suppress' = suppress /\ rewrites' = rewrites /\ messageType' = messageType
      /\ header' = header /\ remaining' = remaining /\ rfqFrame' = rfqFrame
      /\ dropping' = dropping /\ held' = held /\ rowDesc' = rowDesc /\ dropNext' = dropNext
      /\ passthrough' = passthrough /\ errSeen' = errSeen /\ lastSeen' = lastSeen
  BY DEF perFrame
<1>2. FramerTypes'
  BY <1>1, Zenon DEF FramerOK, FramerTypes
<1>3. HeldFits'
  BY <1>1, Zenon DEF FramerOK, HeldFits
<1> QED BY <1>2, <1>3 DEF FramerOK

\* Taking a message keeps the types.
LEMMA TypeInvProcess == FrameInv /\ TypeInv /\ Process => TypeInv'
<1> SUFFICES ASSUME FrameInv, TypeInv, Process PROVE TypeInv'
  OBVIOUS
<1>1. PICK message : message = NextMessage.message /\ message \in Seq(Nat)
  BY ProcessTakes, CompleteTakes
<1>2. processPreStartup \/ processMessage(message)
  BY <1>1 DEF Process
<1>3. FramerOK /\ CaptureOK(copyCapture) /\ mode \in Modes /\ lastSeen \in Nat
      /\ received \in Seq(Nat)
      /\ response \in Seq(Nat) /\ chunk \in Seq(Nat)
  BY DEF TypeInv, FramerOK, FramerTypes
<1>4. ASSUME NoCall, CaptureOK(copyCapture') PROVE TypeInv'
  <2>1. /\ UNCHANGED <<suppress, rewrites, perFrame, held, rowDesc, dropNext, passthrough, errSeen,
                       lastSeen>>
        /\ received' = received /\ response' = response /\ chunk' = chunk /\ mode' = mode
    BY <1>4 DEF NoCall, framerVars
  <2>2. FramerOK'
    BY <1>3, <2>1, FramerKept
  <2> QED BY <1>3, <1>4, <2>1, <2>2 DEF TypeInv
<1>5. ASSUME NEW bytes \in Seq(Nat), Push(bytes), CaptureOK(copyCapture') PROVE TypeInv'
  <2>1. /\ UNCHANGED <<suppress, rewrites, perFrame, held, rowDesc, dropNext, passthrough, errSeen,
                       lastSeen>>
        /\ received' = received \o bytes /\ response' = response /\ chunk' = chunk /\ mode' = mode
    BY <1>5 DEF Push
  <2>2. received' \in Seq(Nat)
    BY <1>3, <2>1, ConcatTyped
  <2>3. FramerOK'
    BY <1>3, <2>1, <2>2, FramerKept
  <2> QED BY <1>3, <1>5, <2>1, <2>3 DEF TypeInv
<1>6. ASSUME NEW sent, NEW rfqMode \in Modes, streamProtocol(sent, rfqMode), CaptureOK(copyCapture')
      PROVE  TypeInv'
  BY <1>3, <1>6, streamProtocolTyped DEF TypeInv
<1>7. /\ "passthrough" \in Modes /\ "suppress" \in Modes /\ "flush-boundary" \in Modes
      /\ "copy-in" \in Modes
  BY DEF Modes
<1>8. CASE processPreStartup
  <2>1. \E sent : streamProtocol(sent, "passthrough") /\ copyCapture' = copyCapture
    BY <1>8 DEF processPreStartup
  <2> QED BY <1>3, <1>6, <1>7, <2>1
<1>9. CASE Terminate(message)
  <2>1. UNCHANGED framerVars /\ mode' = mode /\ response' = response /\ copyCapture' = NoCapture
    BY <1>9 DEF Terminate
  <2>2. FramerOK'
    BY <1>3, <2>1, FramerKept DEF framerVars
  <2> QED BY <1>3, <2>1, <2>2, NoCaptureOK DEF TypeInv
<1>10. CASE CopyData(message)
  <2>1. NoCall /\ CaptureOK(copyCapture')
    BY <1>1, <1>3, <1>10, CaptureKept DEF CopyData
  <2> QED BY <1>4, <2>1
<1>11. CASE CopyEnd(message)
  <2>1. CaptureOK(copyCapture')
    BY <1>11, NoCaptureOK DEF CopyEnd
  <2>2. \/ Push(SyntheticError \o SyntheticReadyForQuery)
        \/ \E sent : streamProtocol(sent, "copy-in")
    BY <1>11 DEF CopyEnd
  <2> QED BY <1>3, <1>5, <1>6, <1>7, <2>1, <2>2, SyntheticTyped
<1>12. CASE Batch(message)
  <2>1. CaptureOK(copyCapture')
    BY <1>3, <1>12 DEF Batch
  <2>2. NoCall \/ \E sent, rfqMode : /\ rfqMode \in {"suppress", "flush-boundary"}
                                     /\ streamProtocol(sent, rfqMode)
    BY <1>12 DEF Batch
  <2> QED BY <1>4, <1>6, <1>7, <2>1, <2>2
<1>13. CASE Standalone(message)
  <2>1. \/ Push(SyntheticCopyInResponse)
           /\ copyCapture' = appendCopyCapture([NoCapture EXCEPT !.on = TRUE], message)
        \/ Push(SyntheticError \o SyntheticReadyForQuery) /\ copyCapture' = copyCapture
        \/ streamProtocol(message, "passthrough") /\ copyCapture' = copyCapture
    BY <1>13 DEF Standalone
  <2>2. CaptureOK(appendCopyCapture([NoCapture EXCEPT !.on = TRUE], message))
    BY <1>1, NoCaptureOK, CaptureKept
  <2> QED BY <1>3, <1>5, <1>6, <1>7, <2>1, <2>2, SyntheticTyped
<1>14. CASE ProtocolViolation(message)
  <2>1. UNCHANGED framerVars /\ mode' = mode /\ response' = response /\ copyCapture' = copyCapture
    BY <1>14 DEF ProtocolViolation
  <2>2. FramerOK'
    BY <1>3, <2>1, FramerKept DEF framerVars
  <2> QED BY <1>3, <2>1, <2>2 DEF TypeInv
<1> QED
  BY <1>2, <1>8, <1>9, <1>10, <1>11, <1>12, <1>13, <1>14 DEF processMessage

\* Every step keeps the types.
LEMMA TypeInvNext == FrameInv /\ TypeInv /\ [WireNext]_wireVars => TypeInv'
<1> SUFFICES ASSUME FrameInv, TypeInv, [WireNext]_wireVars PROVE TypeInv'
  OBVIOUS
<1>1. FramerOK /\ FramerTypes /\ CaptureOK(copyCapture) /\ mode \in Modes
  BY DEF TypeInv, FramerOK
<1>2. ASSUME UNCHANGED <<framerVars, response, copyCapture, mode>> PROVE TypeInv'
  <2>1. FramerOK'
    BY <1>1, <1>2, FramerKept DEF framerVars, FramerTypes
  <2> QED BY <1>1, <1>2, <2>1 DEF TypeInv
<1>3. CASE Write
  BY <1>2, <1>3 DEF Write
<1>4. CASE Drain
  BY <1>2, <1>4 DEF Drain
<1>5. CASE Process
  BY <1>5, TypeInvProcess
<1>6. CASE Await
  BY <1>2, <1>6 DEF Await
<1>7. CASE Refuse
  BY <1>2, <1>7 DEF Refuse, Fails
<1>8. CASE Deliver
  <2>1. PICK n \in 1..Len(response) :
            chunk' = SubSeq(response, 1, n) /\ response' = SubSeq(response, n + 1, Len(response))
    BY <1>8 DEF Deliver
  <2>2. response \in Seq(Nat) /\ Len(response) \in Nat /\ n \in 0..Len(response)
    BY <1>1, <2>1, LenProperties DEF FramerTypes
  <2>3. SubSeq(response, 1, n) \in Seq(Nat) /\ SubSeq(response, n + 1, Len(response)) \in Seq(Nat)
    BY <2>2, TakeProperties, DropProperties DEF Drop
  <2>4. /\ UNCHANGED <<suppress, rewrites, perFrame, held, rowDesc, dropNext, passthrough, errSeen,
                       lastSeen>>
        /\ received' = received /\ mode' = mode /\ copyCapture' = copyCapture
    BY <1>8 DEF Deliver
  <2>5. FramerOK'
    BY <1>1, <2>1, <2>3, <2>4, FramerKept DEF FramerTypes
  <2> QED BY <1>1, <2>4, <2>5 DEF TypeInv
<1>9. CASE FrameChunk
  BY <1>1, <1>9, writeTyped DEF FrameChunk, duplexVars, TypeInv
<1>10. CASE Return
  <2>1. /\ suppress' = suppress /\ rewrites' = rewrites /\ messageType' = messageType
        /\ header' = header /\ remaining' = remaining /\ rfqFrame' = rfqFrame
        /\ dropping' = dropping /\ rowDesc' = rowDesc /\ dropNext' = dropNext /\ chunk' = chunk
        /\ passthrough' = passthrough /\ errSeen' = errSeen /\ lastSeen' = lastSeen
        /\ copyCapture' = copyCapture /\ mode' = mode /\ response' = response
    BY <1>10 DEF Return, perFrame
  <2>2. /\ messageType = NoType /\ held' \in {held, <<>>}
        /\ received' \in {received \o held, received \o <<>>}
    BY <1>10 DEF Return, flush
  <2>3. <<>> \in Seq(Nat) /\ Len(<<>>) = 0 /\ 0 \in {0, 6}
    BY EmptySeq
  <2>4. received' \in Seq(Nat) /\ held' \in Seq(Nat)
    BY <1>1, <2>2, <2>3, ConcatTyped DEF FramerTypes
  <2>5. FramerTypes'
    BY <1>1, <2>1, <2>4, Zenon DEF FramerTypes
  <2>6. HeldFits'
    BY <1>1, <2>1, <2>2, <2>3, Zenon DEF FramerOK, HeldFits
  <2> QED BY <1>1, <2>1, <2>5, <2>6 DEF TypeInv, FramerOK
<1>11. CASE CallFails
  BY <1>2, <1>11 DEF CallFails, Fails
<1>12. CASE UNCHANGED wireVars
  BY <1>2, <1>12 DEF wireVars, duplexVars
<1> QED
  BY <1>3, <1>4, <1>5, <1>6, <1>7, <1>8, <1>9, <1>10, <1>11, <1>12 DEF WireNext

\* The framer starts empty, with nothing captured.
LEMMA TypeInvInit == WireInit => TypeInv
<1>1. HAVE WireInit
<1>2. <<>> \in Seq(Nat) /\ Len(<<>>) = 0 /\ 0 \in Nat /\ 0 <= 4 /\ 0 \in {0, 6}
  BY EmptySeq
<1>3. FramerTypes
  BY <1>1, <1>2 DEF WireInit, FramerInit, FramerTypes, RFQ_STATUS_IDLE
<1>4. HeldFits
  BY <1>1, <1>2, Zenon DEF WireInit, FramerInit, HeldFits
<1> QED BY <1>1, <1>3, <1>4, NoCaptureOK DEF TypeInv, FramerOK, WireInit, Modes

\* What the invariants say of the types.
LEMMA TypesFollow == FrameInv /\ TypeInv => WireTypeOK
<1> SUFFICES ASSUME FrameInv, TypeInv PROVE WireTypeOK
  OBVIOUS
<1>1. /\ input.headIndex \in 0..Len(input.chunks) /\ input.headOffset \in Nat
      /\ input.headOffset > 0 => input.headOffset < Len(HeadChunk(input))
      /\ input.totalLength = Len(Contents(input))
  <2>1. BufferOK(input)
    BY DEF FrameInv
  <2>2. input.chunks \in Seq(Seq(Nat)) /\ input.headIndex \in Nat /\ input.headOffset \in Nat
    BY <2>1 DEF BufferOK
  <2>3. Len(input.chunks) \in Nat
    BY <2>2, LenProperties
  <2> QED BY <2>1, <2>2, <2>3 DEF BufferOK
<1>2. /\ copyCapture.total \in 0..copyAggregateCapBytes
      /\ copyCapture.total = Len(FlattenSeq(copyCapture.chunks)) \/ copyCapture.discarding
  BY ConversationAssumption DEF TypeInv, CaptureOK
<1>3. /\ phase \in {"pre_startup", "ready", "terminated"}
      /\ at \in {"idle", "wrote", "draining", "calling", "failed"} /\ mode \in Modes
  BY DEF FrameInv, TypeInv
<1>4. /\ remaining \in Nat /\ suppress \in BOOLEAN /\ rewrites \in BOOLEAN /\ rfqFrame \in BOOLEAN
      /\ dropNext \in BOOLEAN /\ dropping \in BOOLEAN /\ errSeen \in BOOLEAN
  BY DEF TypeInv, FramerOK, FramerTypes
<1>5. Len(header) <= 4 /\ Len(held) <= 6
  <2>1. PICK h \in Nat, k \in Nat : h = Len(header) /\ k = Len(held) /\ h <= 4
    BY LenProperties DEF TypeInv, FramerOK, FramerTypes, HeldFits
  <2>2. \/ k \in {0, 6}
        \/ h < 4 /\ k = 1 + h
        \/ k \in {0, 5}
    BY <2>1 DEF TypeInv, FramerOK, HeldFits
  <2>3. k <= 6
    BY <2>2
  <2> QED BY <2>1, <2>3, Zenon
<1> QED BY <1>1, <1>2, <1>3, <1>4, <1>5 DEF WireTypeOK

\* The buffer's, the capture's and the framer's accounting holds whatever the chunks: the
\* indexes stay within the chunks, a capture within its cap (frontend-buffer.ts, copyCapture).
THEOREM WireTypesStay == WireSpec => []WireTypeOK
<1>1. WireSpec => []FrameInv
  BY FrameInvInit, FrameInvNext, PTL DEF WireSpec
<1>2. WireSpec => [](FrameInv /\ TypeInv)
  BY <1>1, TypeInvInit, TypeInvNext, PTL DEF WireSpec
<1> QED BY <1>2, TypesFollow, PTL

-----------------------------------------------------------------------------
(* The inductive invariant of the answers.                                  *)

\* What the client should have after k messages of a reply, whose parts are P.
Upto(base, P, k) == Cat(base, FlattenSeq(SubSeq(P, 1, k)))

\* An error among the first k messages of a reply.
ErrorIn(R, k) == \E i \in 1..k : TypeOf(R[i]) = ERROR_RESPONSE

\* The CopyInResponse that the client was already given is still to come, after k messages.
Awaited(R, k) == mode = "copy-in" /\ \A i \in 1..k : TypeOf(R[i]) # COPY_IN_RESPONSE

\* The status seen after k messages: the last one's, or the one of before.
StatusSeen(R, k, before, status) ==
    \/ status = before /\ \A i \in 1..k : ~IsReady(R[i])
    \/ \E i \in 1..k : /\ IsReady(R[i]) /\ Len(R[i]) = 6 /\ status = R[i][6]
                       /\ \A l \in (i + 1)..k : ~IsReady(R[l])

\* The call being answered: by R, of which the client gets P, after base.
Asked(R, P, base, before) ==
    /\ calls # <<>> /\ Last(calls).reply = R /\ R \in Replies(mode)
    /\ P = ShownParts(mode, R)
    /\ expected = Cat(base, FlattenSeq(P))
    /\ suppress <=> mode \in {"suppress", "flush-boundary"}
    /\ LastStatus = IF ReadyIn(R) = {} THEN before ELSE StatusOf(R)

\* After j messages, one that is held perhaps not forwarded yet.
Between(R, P, base, before, j) ==
    /\ messageType = NoType /\ rowDesc = <<>> /\ ~rfqFrame /\ ~dropping
    /\ Cat(chunk, response) = FlattenSeq(Drop(R, j))
    /\ \/ held = <<>> /\ Cat(received, passthrough) = Upto(base, P, j)
       \/ /\ suppress /\ j > 0 /\ IsReady(R[j]) /\ held = R[j]
          /\ Cat(received, passthrough) = Upto(base, P, j - 1)
    /\ StatusSeen(R, j, before, lastSeen)
    /\ errSeen <=> ErrorIn(R, j)
    /\ dropNext <=> Awaited(R, j)

\* In the header of the message x, n bytes of which were read.
InHeaderOf(R, P, base, x, j, n) ==
    /\ Len(header) < 4 /\ n = 1 + Len(header) /\ header = Piece(x, 1, n)
    /\ held = IF IsReady(x) THEN Piece(x, 0, n) ELSE <<>>
    /\ rowDesc = <<>> /\ ~rfqFrame
    /\ received = Upto(base, P, j)
    /\ errSeen <=> ErrorIn(R, j)

\* In its payload: that of a ReadyForQuery is held, a RowDescription to rewrite gathered,
\* a first CopyInResponse dropped, and what is none of these forwarded.
InPayloadOf(R, P, base, x, j, n) ==
    /\ Len(header) = 4 /\ 5 <= n /\ n + remaining = 1 + Declared(x, 1)
    /\ ~Malformed(Declared(x, 1))
    /\ errSeen <=> ErrorIn(R, j + 1)
    /\ rfqFrame <=> IsReady(x)
    /\ \/ /\ rfqFrame /\ ~dropping /\ rowDesc = <<>>
          /\ n = 5 /\ held = Piece(x, 0, 5) /\ received = Upto(base, P, j)
       \/ /\ ~rfqFrame /\ dropping /\ rowDesc = <<>> /\ held = <<>>
          /\ received = Upto(base, P, j)
       \/ /\ ~rfqFrame /\ ~dropping /\ held = <<>> /\ rewrites /\ TypeOf(x) = ROW_DESCRIPTION
          /\ rowDesc = Piece(x, 0, n) /\ received = Upto(base, P, j)
       \/ /\ ~rfqFrame /\ ~dropping /\ held = <<>> /\ ~(rewrites /\ TypeOf(x) = ROW_DESCRIPTION)
          /\ rowDesc = <<>> /\ received = Cat(Upto(base, P, j), Piece(x, 0, n))

\* n bytes of message x, after j others, were read; the rest is to come.
Within(R, P, base, before, x, j, n) ==
    /\ messageType = TypeOf(x) /\ 1 <= n /\ n <= Len(x) /\ passthrough = <<>>
    /\ Cat(chunk, response) = Cat(Drop(x, n), FlattenSeq(Drop(R, j + 1)))
    /\ StatusSeen(R, j, before, lastSeen)
    /\ dropNext <=> Awaited(R, j + 1)
    /\ dropping <=> TypeOf(x) = COPY_IN_RESPONSE /\ Awaited(R, j)
    /\ InHeaderOf(R, P, base, x, j, n) \/ InPayloadOf(R, P, base, x, j, n)

\* The framer is between two messages of the reply, or within one.
Answering(R, P, base, before, j) ==
    \/ Between(R, P, base, before, j)
    \/ j < Len(R) /\ \E n \in Nat : Within(R, P, base, before, R[j + 1], j, n)

\* No call is being answered: the client has everything.
AtRest ==
    /\ received = expected /\ chunk = <<>> /\ passthrough = <<>>
    /\ lastSeen = LastStatus
    /\ calls # <<>> => (errSeen <=> Errored(Last(calls).reply))

\* The call's answer R, of which the client sees the parts P after what it had, is framed up
\* to some byte.
BeingAnswered ==
    \E R, P \in Seq(Seq(Nat)), base \in Seq(Nat), before \in Nat :
        /\ Asked(R, P, base, before)
        /\ \E j \in 0..Len(R) : Answering(R, P, base, before, j)

\* t is s and more.
Starts(s, t) == \E u \in Seq(Nat) : t = Cat(s, u)

\* The inductive invariant of what the client gets.
AnswerInv ==
    /\ \E S : calls \in Seq(S)
    /\ at \in {"idle", "wrote", "draining"} => AtRest
    /\ at = "failed" => Starts(received, expected)
    /\ at = "calling" => BeingAnswered

-----------------------------------------------------------------------------
(* Replies, and what is read of them.                                       *)

\* Message j + 1 of a reply is x, and g is what follows; only the last ends early, or makes no
\* sense.
NextIs(R, j, x, g) ==
    /\ x = R[j + 1] /\ x \in Seq(Nat) /\ x # <<>>
    /\ g = FlattenSeq(Drop(R, j + 1)) /\ g \in Seq(Nat)
    /\ g = <<>> \/ (5 <= Len(x) /\ Len(x) = 1 + Declared(x, 1))
    /\ 5 <= Len(x) => \/ Len(x) = 1 + Declared(x, 1) \/ Len(x) < 1 + Declared(x, 1)
                      \/ Malformed(Declared(x, 1))
    /\ IsReady(x) /\ 5 <= Len(x) => Declared(x, 1) = 5

\* A reply's next message, and the bytes after it.
LEMMA ReplyHas ==
    ASSUME NEW R \in Seq(Seq(Nat)), \A i \in DOMAIN R : WellAnswered(R, i),
           NEW j \in Nat, j < Len(R)
    PROVE  /\ \E x, g \in Seq(Nat) : NextIs(R, j, x, g)
           /\ \A x, g : NextIs(R, j, x, g) => FlattenSeq(Drop(R, j)) = Cat(x, g)
<1>1. PICK l \in Nat : l = Len(R) /\ DOMAIN R = 1..l
  BY LenProperties
<1>2. j < l
  BY <1>1
<1>3. PICK i \in Nat : i = j + 1 /\ i \in 1..l /\ i \in 0..l /\ j \in 0..(l - 1)
  BY <1>1, <1>2
<1>4. PICK x : x = R[i] /\ x \in Seq(Nat)
  BY <1>1, <1>3, ElementOfSeq
<1>5. PICK g : g = FlattenSeq(Drop(R, i)) /\ g \in Seq(Nat)
  BY <1>1, <1>3, FlattenTakeDrop
<1>6. PICK m \in Nat : m = Len(x)
  BY <1>4, LenProperties
<1>7. WellAnswered(R, i)
  BY <1>1, <1>3, Zenon
<1>8. x # <<>>
  BY <1>4, <1>7, Zenon DEF WellAnswered
<1>9. 5 <= m => Declared(x, 1) \in Nat
  <2> SUFFICES ASSUME 5 <= m PROVE Declared(x, 1) \in Nat
    OBVIOUS
  <2>1. 1 + 4 <= Len(x)
    BY <1>6
  <2> QED BY <1>4, <2>1, DeclaredNat
<1>10. \A d \in Nat : d = m - 1 <=> m = 1 + d
  BY <1>6
<1>11. \A d \in Nat : d > m - 1 => m < 1 + d
  BY <1>6
<1>12. ASSUME m >= 5, Declared(x, 1) = m - 1
       PROVE  5 <= m /\ m = 1 + Declared(x, 1)
  <2>1. 5 <= m
    BY <1>12
  <2> QED BY <1>9, <1>10, <1>12, <2>1, Zenon
<1>13. g = <<>> \/ (5 <= m /\ m = 1 + Declared(x, 1))
  <2>1. CASE i = l
    <3>1. Drop(R, l) = <<>>
      BY <1>1, DropEnds
    <3> QED BY <1>5, <2>1, <3>1, FlattenEmpty, Zenon
  <2>2. CASE i # l
    <3>1. m >= 5 /\ Declared(x, 1) = m - 1
      BY <1>1, <1>4, <1>6, <1>7, <2>2, Zenon DEF WellAnswered
    <3> QED BY <1>12, <3>1
  <2> QED BY <2>1, <2>2
<1>14. ASSUME 5 <= m
       PROVE  m = 1 + Declared(x, 1) \/ m < 1 + Declared(x, 1) \/ Malformed(Declared(x, 1))
  <2>1. \/ m >= 5 /\ Declared(x, 1) = m - 1
        \/ m < 5 \/ Declared(x, 1) > m - 1 \/ Malformed(Declared(x, 1))
    BY <1>4, <1>6, <1>7, Zenon DEF WellAnswered
  <2>2. ~(m < 5)
    BY <1>14
  <2> QED BY <1>9, <1>11, <1>12, <1>14, <2>1, <2>2, Zenon
<1>15. ASSUME IsReady(x), 5 <= m
       PROVE  Declared(x, 1) = 5
  <2>1. m >= 5
    BY <1>15
  <2> QED BY <1>4, <1>6, <1>7, <1>15, <2>1, Zenon DEF WellAnswered, IsReady
<1>16. NextIs(R, j, x, g)
  BY <1>3, <1>4, <1>5, <1>6, <1>8, <1>13, <1>14, <1>15, Zenon DEF NextIs
<1>17. FlattenSeq(Drop(R, j)) = Cat(x, g)
  <2>1. FlattenSeq(Drop(R, j)) = R[j + 1] \o FlattenSeq(Drop(R, j + 1))
    BY <1>1, <1>3, FlattenSplit
  <2> QED BY <1>3, <1>4, <1>5, <2>1, Zenon DEF Cat
<1>18. \A y, h : NextIs(R, j, y, h) => y = x /\ h = g
  BY <1>3, <1>4, <1>5, Zenon DEF NextIs
<1> QED BY <1>4, <1>5, <1>16, <1>17, <1>18, Zenon

\* k more bytes of a message x, of which n were read.
LEMMA ReadWithin ==
    \A x, g, a, r \in Seq(Nat) : \A n, k, m \in Nat :
        /\ n <= Len(x) /\ k <= Len(a) /\ m = n + k
        /\ Cat(a, r) = Cat(Drop(x, n), g)
        /\ g = <<>> \/ m <= Len(x)
        => /\ m <= Len(x)
           /\ Piece(a, 0, k) = Piece(x, n, m)
           /\ Cat(Drop(a, k), r) = Cat(Drop(x, m), g)
<1> TAKE x, g, a, r \in Seq(Nat)
<1> TAKE n, k, m \in Nat
<1>1. HAVE /\ n <= Len(x) /\ k <= Len(a) /\ m = n + k
           /\ Cat(a, r) = Cat(Drop(x, n), g)
           /\ g = <<>> \/ m <= Len(x)
<1>2. Len(x) \in Nat
  BY LenProperties
<1>4. PICK d : d = Drop(x, n) /\ d \in Seq(Nat) /\ Len(d) = Len(x) - n
  BY <1>1, <1>2, DropLength
<1>5. Cat(a, r) = Cat(d, g) /\ Len(a) \in Nat /\ Len(r) \in Nat
  BY <1>1, <1>4, CatProperties
<1>6. m <= Len(x)
  <2>1. CASE g = <<>>
    <3>2. Cat(d, g) = d
      BY <1>4, <2>1, CatEmpty
    <3>3. Len(Cat(a, r)) = Len(a) + Len(r)
      BY CatProperties
    <3>4. Len(a) + Len(r) = Len(x) - n
      BY <1>4, <1>5, <3>2, <3>3
    <3> QED BY <1>1, <1>2, <1>5, <3>4
  <2> QED BY <1>1, <2>1
<1>7. n <= m /\ m - n = k
  BY <1>1
<1>8. PICK p : p = Piece(x, n, m) /\ p \in Seq(Nat) /\ Len(p) = k
  <2>1. Piece(x, n, m) \in Seq(Nat) /\ Len(Piece(x, n, m)) = m - n
    BY <1>2, <1>6, <1>7, PieceProperties
  <2> QED BY <1>7, <2>1
<1>9. PICK q : q = Drop(x, m) /\ q \in Seq(Nat)
  BY <1>2, <1>6, DropLength
<1>10. d = Cat(p, q)
  <2>1. Drop(x, n) = Cat(Piece(x, n, m), Drop(x, m))
    BY <1>2, <1>6, <1>7, PieceProperties
  <2> QED BY <1>4, <1>8, <1>9, <2>1
<1>11. Piece(Cat(d, g), 0, k) = p /\ Drop(Cat(d, g), k) = Cat(q, g)
  <2>1. Cat(d, g) = Cat(p, Cat(q, g))
    BY <1>8, <1>9, <1>10, CatTwice
  <2>2. Cat(q, g) \in Seq(Nat)
    BY <1>9, CatProperties
  <2>3. Piece(Cat(p, Cat(q, g)), 0, Len(p)) = p /\ Drop(Cat(p, Cat(q, g)), Len(p)) = Cat(q, g)
    BY <1>8, <2>2, CatParts
  <2> QED BY <1>8, <2>1, <2>3
<1>12. Piece(Cat(a, r), 0, k) = Piece(a, 0, k) /\ Drop(Cat(a, r), k) = Cat(Drop(a, k), r)
  BY <1>1, DropCat
<1> QED BY <1>1, <1>5, <1>6, <1>8, <1>9, <1>11, <1>12

\* The parts of an answer are the reply's messages, or nothing.
LEMMA PartsAre ==
    ASSUME NEW rfqMode, NEW R \in Seq(Seq(Nat))
    PROVE  LET P == ShownParts(rfqMode, R)
           IN  /\ P \in Seq(Seq(Nat)) /\ Len(P) = Len(R)
               /\ \A i \in 1..Len(R) : P[i] = IF Shown(rfqMode, R, i) THEN Seen(R[i]) ELSE <<>>
<1> DEFINE P == ShownParts(rfqMode, R)
<1>1. PICK n : n = Len(R) /\ n \in Nat /\ DOMAIN R = 1..n /\ \A i \in 1..n : R[i] \in Seq(Nat)
  BY LenProperties, ElementOfSeq
<1>2. P = [i \in 1..n |-> IF Shown(rfqMode, R, i) THEN Seen(R[i]) ELSE <<>>]
  BY <1>1 DEF ShownParts
<1>3. \A i \in 1..n : (IF Shown(rfqMode, R, i) THEN Seen(R[i]) ELSE <<>>) \in Seq(Nat)
  <2> TAKE i \in 1..n
  <2>1. Seen(R[i]) \in Seq(Nat)
    BY <1>1, RewrittenType DEF Seen
  <2>2. <<>> \in Seq(Nat)
    BY EmptySeq
  <2> QED BY <2>1, <2>2, Zenon
<1>4. P \in [1..n -> Seq(Nat)]
  BY <1>2, <1>3, Zenon
<1>5. P \in Seq(Seq(Nat))
  BY <1>1, <1>4, SeqDef
<1>6. Len(P) = n
  <2>1. PICK l \in Nat : l = Len(P) /\ DOMAIN P = 1..l
    BY <1>5, LenProperties
  <2>2. 1..l = 1..n
    BY <1>4, <2>1
  <2>3. (l \in 1..l \/ l = 0) /\ (n \in 1..n \/ n = 0)
    BY <1>1
  <2>4. (l \in 1..n \/ l = 0) /\ (n \in 1..l \/ n = 0)
    BY <2>2, <2>3
  <2> QED BY <1>1, <2>1, <2>4
<1>7. \A i \in 1..n : P[i] = IF Shown(rfqMode, R, i) THEN Seen(R[i]) ELSE <<>>
  BY <1>2, Zenon
<1> QED BY <1>1, <1>5, <1>6, <1>7

\* What the client should have, message after message.
LEMMA UptoGrows ==
    ASSUME NEW P \in Seq(Seq(Nat)), NEW base \in Seq(Nat), NEW k \in Nat, k <= Len(P)
    PROVE  /\ Upto(base, P, k) \in Seq(Nat)
           /\ k < Len(P) => /\ P[k + 1] \in Seq(Nat)
                            /\ Upto(base, P, k + 1) = Cat(Upto(base, P, k), P[k + 1])
           /\ Upto(base, P, Len(P)) = Cat(base, FlattenSeq(P))
           /\ \E u \in Seq(Nat) : Cat(base, FlattenSeq(P)) = Cat(Upto(base, P, k), u)
<1>1. Len(P) \in Nat /\ k \in 0..Len(P)
  BY LenProperties
<1>2. PICK f : f = FlattenSeq(SubSeq(P, 1, k)) /\ f \in Seq(Nat)
  BY <1>1, FlattenTakeDrop
<1>3. PICK u : u = FlattenSeq(Drop(P, k)) /\ u \in Seq(Nat) /\ FlattenSeq(P) = Cat(f, u)
  BY <1>1, <1>2, FlattenTakeDrop DEF Cat
<1>4. Upto(base, P, k) = Cat(base, f) /\ Cat(base, f) \in Seq(Nat)
  BY <1>2, CatProperties DEF Upto
<1>5. ASSUME k < Len(P)
      PROVE  P[k + 1] \in Seq(Nat) /\ Upto(base, P, k + 1) = Cat(Upto(base, P, k), P[k + 1])
  <2>1. k \in 0..(Len(P) - 1)
    BY <1>1, <1>5
  <2>2. PICK x : x = P[k + 1] /\ x \in Seq(Nat) /\ FlattenSeq(SubSeq(P, 1, k + 1)) = Cat(f, x)
    BY <1>2, <2>1, NextLeads
  <2>3. Cat(Cat(base, f), x) = Cat(base, Cat(f, x))
    BY <1>2, <2>2, CatTwice
  <2> QED BY <1>4, <2>2, <2>3 DEF Upto
<1>6. Upto(base, P, Len(P)) = Cat(base, FlattenSeq(P))
  <2>1. SubSeq(P, 1, Len(P)) = P
    BY SubSeqFull
  <2> QED BY <2>1 DEF Upto
<1>7. Cat(base, FlattenSeq(P)) = Cat(Upto(base, P, k), u)
  <2>1. Cat(Cat(base, f), u) = Cat(base, Cat(f, u))
    BY <1>2, <1>3, CatTwice
  <2> QED BY <1>3, <1>4, <2>1
<1> QED BY <1>3, <1>4, <1>5, <1>6, <1>7

\* What is known after k messages, one message on.
LEMMA SeenGrows ==
    ASSUME NEW R, NEW k \in Nat
    PROVE  /\ ErrorIn(R, k + 1) <=> ErrorIn(R, k) \/ TypeOf(R[k + 1]) = ERROR_RESPONSE
           /\ Awaited(R, k + 1) <=> Awaited(R, k) /\ TypeOf(R[k + 1]) # COPY_IN_RESPONSE
           /\ \A before, status : StatusSeen(R, k, before, status) =>
                 /\ ~IsReady(R[k + 1]) => StatusSeen(R, k + 1, before, status)
                 /\ IsReady(R[k + 1]) /\ Len(R[k + 1]) = 6 =>
                       StatusSeen(R, k + 1, before, R[k + 1][6])
<1>1. \A i : i \in 1..(k + 1) <=> i \in 1..k \/ i = k + 1
  OBVIOUS
<1>2. ErrorIn(R, k + 1) <=> ErrorIn(R, k) \/ TypeOf(R[k + 1]) = ERROR_RESPONSE
  BY <1>1, Zenon DEF ErrorIn
<1>3. Awaited(R, k + 1) <=> Awaited(R, k) /\ TypeOf(R[k + 1]) # COPY_IN_RESPONSE
  BY <1>1, Zenon DEF Awaited
<1>4. ASSUME NEW before, NEW status, StatusSeen(R, k, before, status)
      PROVE  /\ ~IsReady(R[k + 1]) => StatusSeen(R, k + 1, before, status)
             /\ IsReady(R[k + 1]) /\ Len(R[k + 1]) = 6 => StatusSeen(R, k + 1, before, R[k + 1][6])
  <2>1. ASSUME ~IsReady(R[k + 1]) PROVE StatusSeen(R, k + 1, before, status)
    <3>1. CASE status = before /\ \A i \in 1..k : ~IsReady(R[i])
      BY <1>1, <2>1, <3>1, Zenon DEF StatusSeen
    <3>2. CASE \E i \in 1..k : /\ IsReady(R[i]) /\ Len(R[i]) = 6 /\ status = R[i][6]
                               /\ \A l \in (i + 1)..k : ~IsReady(R[l])
      <4>1. PICK i \in 1..k : /\ IsReady(R[i]) /\ Len(R[i]) = 6 /\ status = R[i][6]
                              /\ \A l \in (i + 1)..k : ~IsReady(R[l])
        BY <3>2
      <4>2. \A l \in (i + 1)..(k + 1) : l \in (i + 1)..k \/ l = k + 1
        OBVIOUS
      <4>3. \A l \in (i + 1)..(k + 1) : ~IsReady(R[l])
        BY <2>1, <4>1, <4>2, Zenon
      <4> QED BY <1>1, <4>1, <4>3, Zenon DEF StatusSeen
    <3> QED BY <1>4, <3>1, <3>2 DEF StatusSeen
  <2>2. ASSUME IsReady(R[k + 1]), Len(R[k + 1]) = 6 PROVE StatusSeen(R, k + 1, before, R[k + 1][6])
    <3>1. k + 1 \in 1..(k + 1) /\ \A l \in ((k + 1) + 1)..(k + 1) : FALSE
      OBVIOUS
    <3>2. \A l \in ((k + 1) + 1)..(k + 1) : ~IsReady(R[l])
      BY <3>1, Zenon
    <3> QED BY <2>2, <3>1, <3>2, Zenon DEF StatusSeen
  <2> QED BY <2>1, <2>2
<1> QED BY <1>2, <1>3, <1>4

\* The greatest of a set of numbers.
LEMMA MaxIs ==
    ASSUME NEW S, S \subseteq Nat, NEW m \in S, \A y \in S : y <= m
    PROVE  Max(S) = m
<1>1. m \in S /\ \A y \in S : m >= y
  OBVIOUS
<1>2. \A x \in S : (\A y \in S : x >= y) => x = m
  OBVIOUS
<1>3. PICK x : x = Max(S)
  OBVIOUS
<1>4. x \in S /\ \A y \in S : x >= y
  BY <1>1, <1>3, Zenon DEF Max
<1> QED BY <1>2, <1>3, <1>4

\* Once the whole reply was seen, the status is that of its last ReadyForQuery.
LEMMA StatusSeenWhole ==
    ASSUME NEW R \in Seq(Seq(Nat)), NEW before, NEW status, StatusSeen(R, Len(R), before, status)
    PROVE  status = IF ReadyIn(R) = {} THEN before ELSE StatusOf(R)
<1>1. PICK n : n = Len(R) /\ n \in Nat /\ DOMAIN R = 1..n
  BY LenProperties
<1>2. ReadyIn(R) = {i \in 1..n : IsReady(R[i])}
  BY <1>1, Zenon DEF ReadyIn
<1>3. CASE status = before /\ \A i \in 1..n : ~IsReady(R[i])
  <2>1. ReadyIn(R) = {}
    BY <1>2, <1>3, Zenon
  <2> QED BY <1>3, <2>1
<1>4. CASE \E i \in 1..n : /\ IsReady(R[i]) /\ Len(R[i]) = 6 /\ status = R[i][6]
                           /\ \A l \in (i + 1)..n : ~IsReady(R[l])
  <2>1. PICK i \in 1..n : /\ IsReady(R[i]) /\ Len(R[i]) = 6 /\ status = R[i][6]
                          /\ \A l \in (i + 1)..n : ~IsReady(R[l])
    BY <1>4
  <2>2. \A l \in 1..n : l <= i \/ l \in (i + 1)..n
    BY <1>1
  <2>3. \A l \in ReadyIn(R) : l <= i
    BY <1>2, <2>1, <2>2, Zenon
  <2>4. i \in ReadyIn(R) /\ ReadyIn(R) \subseteq Nat
    <3>1. i \in ReadyIn(R)
      BY <1>2, <2>1, Zenon
    <3>2. ReadyIn(R) \subseteq Nat
      BY <1>1, <1>2
    <3> QED BY <3>1, <3>2
  <2>5. Max(ReadyIn(R)) = i
    BY <2>3, <2>4, MaxIs
  <2>6. PICK x : x = R[i] /\ x \in Seq(Nat) /\ Len(x) = 6
    BY <1>1, <2>1, ElementOfSeq
  <2>7. PayloadOf(x)[1] = x[6]
    <3>1. 5 \in 0..Len(x)
      BY <2>6
    <3>2. \A l \in 1..(Len(x) - 5) : Drop(x, 5)[l] = x[5 + l]
      BY <2>6, <3>1, DropProperties
    <3>3. 1 \in 1..(Len(x) - 5) /\ 5 + 1 = 6
      BY <2>6
    <3>4. Drop(x, 5)[1] = x[6]
      BY <3>2, <3>3
    <3>5. PayloadOf(x) = Drop(x, 5)
      BY <3>3, Zenon DEF PayloadOf, Drop
    <3> QED BY <3>4, <3>5, Zenon
  <2>8. StatusOf(R) = x[6]
    BY <2>5, <2>6, <2>7, Zenon DEF StatusOf
  <2>9. ReadyIn(R) # {}
    BY <2>4
  <2> QED BY <2>1, <2>6, <2>8, <2>9, Zenon
<1> QED BY <1>1, <1>3, <1>4 DEF StatusSeen

-----------------------------------------------------------------------------
(* The turns of the framer, message by message of the reply.                *)

\* What is asked stays while its answer is framed.
LEMMA AskedKept ==
    ASSUME NEW R, NEW P, NEW base, NEW before, Asked(R, P, base, before),
           UNCHANGED <<calls, mode, suppress, rewrites, expected>>
    PROVE  Asked(R, P, base, before)'
<1>1. calls' = calls /\ mode' = mode /\ suppress' = suppress /\ rewrites' = rewrites
      /\ expected' = expected
  OBVIOUS
<1>2. PICK m : m = mode
  OBVIOUS
<1>3. mode = m /\ mode' = m
  BY <1>1, <1>2
<1>4. ShownParts(m, R)' = ShownParts(m, R)
  BY <1>1 DEF ShownParts, Seen
<1>5. ShownParts(mode, R) = ShownParts(m, R) /\ ShownParts(mode, R)' = ShownParts(m, R)'
  BY <1>3
<1>6. LastStatus' = LastStatus
  BY <1>1 DEF LastStatus
<1> QED BY <1>1, <1>3, <1>4, <1>5, <1>6 DEF Asked

\* What the client gets of a reply's message, by what the message is.
LEMMA PartIs ==
    ASSUME NEW R \in Seq(Seq(Nat)), NEW P, NEW base, NEW before, Asked(R, P, base, before),
           mode \in Modes, NEW j \in Nat, j < Len(R)
    PROVE  LET x == R[j + 1]
           IN  /\ P \in Seq(Seq(Nat)) /\ Len(P) = Len(R) /\ x \in Seq(Nat)
               /\ \A i \in DOMAIN R : WellAnswered(R, i)
               /\ IsReady(x) => P[j + 1] = IF \/ ~suppress
                                              \/ j + 1 = Len(R) /\ (mode = "suppress" \/ Errored(R))
                                           THEN x ELSE <<>>
               /\ ~IsReady(x) => P[j + 1] = IF TypeOf(x) = COPY_IN_RESPONSE /\ Awaited(R, j)
                                            THEN <<>> ELSE Seen(x)
               /\ TypeOf(x) # ROW_DESCRIPTION => Seen(x) = x
<1>1. P = ShownParts(mode, R) /\ (suppress <=> mode \in {"suppress", "flush-boundary"})
      /\ R \in Replies(mode)
  BY Zenon DEF Asked
<1>2. P \in Seq(Seq(Nat)) /\ Len(P) = Len(R)
      /\ \A i \in 1..Len(R) : P[i] = IF Shown(mode, R, i) THEN Seen(R[i]) ELSE <<>>
  BY <1>1, PartsAre
<1>3. PICK i : i = j + 1 /\ i \in 1..Len(R) /\ i \in DOMAIN R /\ i - 1 = j
  <2>1. Len(R) \in Nat /\ DOMAIN R = 1..Len(R)
    BY LenProperties
  <2>2. j + 1 \in 1..Len(R) /\ (j + 1) - 1 = j
    BY <2>1
  <2> QED BY <2>1, <2>2, Zenon
<1>4. PICK x : x = R[i] /\ x \in Seq(Nat)
  BY <1>3, ElementOfSeq
<1>5. \A l \in DOMAIN R : WellAnswered(R, l)
  BY <1>1, ReplyAssumption
<1>6. READY_FOR_QUERY # ROW_DESCRIPTION
  BY DEF READY_FOR_QUERY, ROW_DESCRIPTION
<1>7. TypeOf(x) # ROW_DESCRIPTION => Seen(x) = x
  BY Zenon DEF Seen
<1>8. P[i] = IF Shown(mode, R, i) THEN Seen(x) ELSE <<>>
  BY <1>2, <1>3, <1>4, Zenon
<1>9. ASSUME IsReady(x)
      PROVE  P[i] = IF ~suppress \/ (i = Len(R) /\ (mode = "suppress" \/ Errored(R)))
                    THEN x ELSE <<>>
  <2>1. Seen(x) = x
    BY <1>6, <1>7, <1>9, Zenon DEF IsReady
  <2>2. Shown(mode, R, i) <=> \/ mode \in {"passthrough", "copy-in"}
                              \/ i = Len(R) /\ (mode = "suppress" \/ Errored(R))
    <3>1. IsReady(R[i])
      BY <1>4, <1>9, Zenon
    <3> QED BY <3>1 DEF Shown, IsReady, READY_FOR_QUERY, COPY_IN_RESPONSE
  <2>3. mode \in {"passthrough", "copy-in"} <=> ~suppress
    BY <1>1 DEF Modes
  <2> QED BY <1>8, <2>1, <2>2, <2>3, Zenon
<1>10. ASSUME ~IsReady(x)
       PROVE  P[i] = IF TypeOf(x) = COPY_IN_RESPONSE /\ Awaited(R, j) THEN <<>> ELSE Seen(x)
  <2>1. Shown(mode, R, i) <=> ~(TypeOf(x) = COPY_IN_RESPONSE /\ Awaited(R, j))
    BY <1>3, <1>4, <1>10 DEF Shown, Awaited
  <2> QED BY <1>8, <2>1, Zenon
<1> QED BY <1>2, <1>3, <1>4, <1>5, <1>7, <1>9, <1>10, Zenon

\* A message of the reply is at hand when a frame starts; a held one was not the last.
LEMMA FrameHere ==
    ASSUME FramerOK, mode \in Modes, NEW R \in Seq(Seq(Nat)), NEW P, NEW base \in Seq(Nat),
           NEW before, Asked(R, P, base, before), NEW j \in 0..Len(R),
           Between(R, P, base, before, j), chunk # <<>>
    PROVE  \E x, g \in Seq(Nat) :
               /\ j \in Nat /\ j < Len(R) /\ NextIs(R, j, x, g)
               /\ Cat(chunk, response) = Cat(Drop(x, 0), g)
               /\ \A i \in 1..Len(chunk) : i <= Len(x) => chunk[i] = x[i]
               /\ TypeOf(x) = chunk[1]
               /\ Cat(received, passthrough) = Upto(base, P, j) /\ StaleDropped = <<>>
<1>1. PICK c : c = chunk /\ c \in Seq(Nat) /\ c # <<>>
  BY Zenon DEF FramerOK, FramerTypes
<1>2. PICK r : r = response /\ r \in Seq(Nat)
  BY Zenon DEF FramerOK, FramerTypes
<1>3. Cat(c, r) = FlattenSeq(Drop(R, j))
  BY <1>1, <1>2, Zenon DEF Between
<1>4. Len(R) \in Nat /\ j \in Nat /\ DOMAIN R = 1..Len(R) /\ Len(c) \in Nat /\ Len(r) \in Nat
  BY <1>1, <1>2, LenProperties
<1> PICK n : n = Len(R)
  OBVIOUS
<1>5. n \in Nat /\ j <= n /\ \A l \in 1..n : WellAnswered(R, l)
  <2>1. R \in Replies(mode)
    BY Zenon DEF Asked
  <2>2. \A l \in DOMAIN R : WellAnswered(R, l)
    BY <2>1, ReplyAssumption
  <2>3. n \in Nat /\ j \in 0..n /\ \A l \in 1..n : WellAnswered(R, l)
    BY <1>4, <2>2, Zenon
  <2>4. \A m \in Nat : j \in 0..m => j <= m
    OBVIOUS
  <2> QED BY <2>3, <2>4, Zenon
<1>6. Len(c) # 0
  BY <1>1, EmptySeq
<1>7. j < Len(R)
  <2>1. SUFFICES ASSUME j = Len(R) PROVE FALSE
    <3>1. j < n \/ j = n
      BY <1>4, <1>5
    <3> QED BY <3>1
  <2>2. Cat(c, r) = <<>>
    BY <1>3, <2>1, DropEnds, FlattenEmpty
  <2>3. Len(Cat(c, r)) = Len(c) + Len(r)
    BY <1>1, <1>2, CatProperties
  <2>4. Len(Cat(c, r)) = 0
    BY <2>2
  <2>5. \A a, b \in Nat : a # 0 => a + b # 0
    OBVIOUS
  <2> QED BY <1>4, <1>6, <2>3, <2>4, <2>5, Zenon
<1>8. \A l \in DOMAIN R : WellAnswered(R, l)
  BY <1>4, <1>5, Zenon
<1>9. PICK x, g \in Seq(Nat) : NextIs(R, j, x, g) /\ FlattenSeq(Drop(R, j)) = Cat(x, g)
  <2>1. /\ \E x, g \in Seq(Nat) : NextIs(R, j, x, g)
        /\ \A x, g : NextIs(R, j, x, g) => FlattenSeq(Drop(R, j)) = Cat(x, g)
    BY <1>4, <1>7, <1>8, ReplyHas
  <2> QED BY <2>1, Zenon
<1>10. Cat(c, r) = Cat(x, g) /\ Drop(x, 0) = x
  BY <1>3, <1>9, RunEnds, Zenon
<1>11. x # <<>>
  BY <1>9, Zenon DEF NextIs
<1>12. \A i \in 1..Len(c) : i <= Len(x) => c[i] = x[i]
  BY <1>1, <1>2, <1>9, <1>10, HeadsAgree
<1>13. TypeOf(x) = c[1]
  <2>1. Len(x) \in Nat /\ Len(x) # 0
    BY <1>9, <1>11, EmptySeq, LenProperties
  <2>2. 1 \in 1..Len(c) /\ 1 <= Len(x)
    BY <1>4, <1>6, <2>1
  <2> QED BY <1>12, <2>2, Zenon DEF TypeOf
<1>14. Cat(received, passthrough) = Upto(base, P, j) /\ StaleDropped = <<>>
  <2>1. CASE held = <<>> /\ Cat(received, passthrough) = Upto(base, P, j)
    BY <2>1, Zenon DEF StaleDropped
  <2>2. CASE /\ suppress /\ j > 0 /\ IsReady(R[j]) /\ held = R[j]
             /\ Cat(received, passthrough) = Upto(base, P, j - 1)
    <3>1. PICK i \in Nat : i + 1 = j /\ i = j - 1 /\ i < Len(R) /\ j # Len(R)
      <4>1. j > 0
        BY <2>2
      <4>2. \A h, k \in Nat : k < h /\ k > 0 =>
               k - 1 \in Nat /\ (k - 1) + 1 = k /\ k - 1 < h /\ k # h
        OBVIOUS
      <4>3. j - 1 \in Nat /\ (j - 1) + 1 = j /\ j - 1 < Len(R) /\ j # Len(R)
        BY <1>4, <1>7, <4>1, <4>2, Zenon
      <4> QED BY <4>3, Zenon
    <3>2. P \in Seq(Seq(Nat)) /\ Len(P) = Len(R) /\ R[j] \in Seq(Nat) /\ P[j] = <<>>
      <4>1. LET x0 == R[i + 1]
            IN  /\ P \in Seq(Seq(Nat)) /\ Len(P) = Len(R) /\ x0 \in Seq(Nat)
                /\ \A l \in DOMAIN R : WellAnswered(R, l)
                /\ IsReady(x0) => P[i + 1] = IF \/ ~suppress
                                                \/ i + 1 = Len(R)
                                                   /\ (mode = "suppress" \/ Errored(R))
                                             THEN x0 ELSE <<>>
        BY <3>1, PartIs
      <4> QED BY <2>2, <3>1, <4>1, Zenon
    <3>3. Upto(base, P, j) = Cat(Upto(base, P, i), <<>>) /\ Upto(base, P, i) \in Seq(Nat)
      <4>1. i <= Len(P) /\ i < Len(P)
        BY <1>4, <3>1, <3>2
      <4>2. Upto(base, P, i) \in Seq(Nat) /\ Upto(base, P, i + 1) = Cat(Upto(base, P, i), P[i + 1])
        BY <3>2, <4>1, UptoGrows
      <4> QED BY <3>1, <3>2, <4>2, Zenon
    <3>4. Cat(Upto(base, P, i), <<>>) = Upto(base, P, i)
      BY <3>3, CatEmpty
    <3>5. Len(held) = 6
      <4>1. messageType = NoType
        BY Zenon DEF Between
      <4>2. Len(held) \in {0, 6}
        BY <4>1, Zenon DEF FramerOK, HeldFits
      <4>3. held # <<>> /\ held \in Seq(Nat)
        <5>1. WellAnswered(R, i + 1)
          <6>1. j \in 1..n
            BY <1>4, <1>5, <2>2
          <6> QED BY <1>5, <3>1, <6>1, Zenon
        <5>2. R[i + 1] # <<>>
          BY <5>1, Zenon DEF WellAnswered
        <5> QED BY <2>2, <3>1, <3>2, <5>2, Zenon
      <4> QED BY <4>2, <4>3, EmptySeq
    <3> QED BY <2>2, <3>1, <3>3, <3>4, <3>5, Zenon DEF StaleDropped
  <2> QED BY <2>1, <2>2 DEF Between
<1> QED BY <1>1, <1>2, <1>4, <1>7, <1>9, <1>10, <1>12, <1>13, <1>14, Zenon

\* A frame that is whole in the chunk is the message at hand.
LEMMA WholeIsNext ==
    ASSUME FramerTypes, AtFrameStart, Whole, ~Malformed(MessageLength),
           NEW R, NEW j, NEW x \in Seq(Nat), NEW g \in Seq(Nat), NextIs(R, j, x, g),
           Cat(chunk, response) = Cat(Drop(x, 0), g),
           \A i \in 1..Len(chunk) : i <= Len(x) => chunk[i] = x[i]
    PROVE  /\ SubSeq(chunk, 1, 1 + MessageLength) = x
           /\ SubSeq(chunk, Len(x) + 1, Len(chunk)) = Drop(chunk, Len(x))
           /\ Cat(Drop(chunk, Len(x)), response) = g
           /\ IsReady(x) => Len(x) = 6
<1>2. chunk \in Seq(Nat) /\ response \in Seq(Nat)
  BY Zenon DEF FramerTypes
<1>3. PICK l \in Nat : /\ l = MessageLength /\ l = Declared(chunk, 1) /\ 1 + l <= Len(chunk)
                       /\ 5 <= 1 + l /\ SubSeq(chunk, 1, 1 + l) = Piece(chunk, 0, 1 + l)
                       /\ ~Malformed(l)
  <2>1. LET frame == SubSeq(chunk, 1, 1 + MessageLength)
        IN  /\ MessageLength = Declared(chunk, 1) /\ MessageLength \in Nat
            /\ 1 + MessageLength <= Len(chunk) /\ 5 <= Len(frame)
            /\ frame = Piece(chunk, 0, 1 + MessageLength) /\ Len(frame) = 1 + MessageLength
    BY <1>2, WholeIs
  <2>2. 5 <= 1 + MessageLength
    BY <2>1, Zenon
  <2> QED BY <2>1, <2>2, Zenon
<1>4. PICK k \in Nat : k = 1 + l /\ k <= Len(chunk) /\ 5 <= k
  BY <1>3
<1>5. PICK m \in Nat : m = Len(x)
  BY LenProperties
<1>6. PICK c \in Nat : c = Len(chunk)
  BY <1>2, LenProperties
<1>7. 5 <= c /\ k <= c
  BY <1>4, <1>6
<1>8. 5 <= m => Declared(x, 1) = l
  <2> SUFFICES ASSUME 5 <= m PROVE Declared(x, 1) = l
    OBVIOUS
  <2>1. \A i \in 1..5 : chunk[i] = x[i]
    <3>1. \A i \in 1..5 : i \in 1..c /\ i <= m
      BY <1>7
    <3> QED BY <1>5, <1>6, <3>1, Zenon
  <2>2. 1 + 4 = 5 /\ 1 \in Nat
    OBVIOUS
  <2>3. 1 + 4 <= Len(x) /\ 1 + 4 <= Len(chunk)
    BY <1>5, <1>6, <1>7, <2>2, Zenon
  <2>4. \A i \in 1..(1 + 4) : chunk[i] = x[i]
    BY <2>1, <2>2, Zenon
  <2>5. UInt32(Piece(Drop(chunk, 1), 0, 4)) = Declared(x, 1)
    BY <1>2, <2>2, <2>3, <2>4, DeclaredIn
  <2>6. UInt32(Piece(Drop(chunk, 1), 0, 4)) = Declared(chunk, 1)
    BY <1>2, <2>2, <2>3, DeclaredIn
  <2> QED BY <1>3, <2>5, <2>6, Zenon
<1>9. g = <<>> \/ k <= Len(x)
  <2>1. g = <<>> \/ (5 <= m /\ m = 1 + Declared(x, 1))
    BY <1>5, Zenon DEF NextIs
  <2>2. k <= k
    OBVIOUS
  <2> QED BY <1>4, <1>5, <1>8, <2>1, <2>2, Zenon
<1>10. /\ k <= Len(x)
       /\ Piece(chunk, 0, k) = Piece(x, 0, k)
       /\ Cat(Drop(chunk, k), response) = Cat(Drop(x, k), g)
  <2>1. PICK z \in Nat : z = 0 /\ z <= Len(x) /\ k = z + k
    BY <1>5
  <2>2. Cat(chunk, response) = Cat(Drop(x, z), g)
    BY <2>1, Zenon
  <2>3. /\ k <= Len(x)
        /\ Piece(chunk, 0, k) = Piece(x, z, k)
        /\ Cat(Drop(chunk, k), response) = Cat(Drop(x, k), g)
    BY <1>2, <1>4, <1>9, <2>1, <2>2, ReadWithin
  <2> QED BY <2>1, <2>3, Zenon
<1>11. 5 <= m /\ k <= m
  BY <1>4, <1>5, <1>10
<1>12. k = m
  <2>1. m = 1 + l \/ m < 1 + l \/ Malformed(l)
    BY <1>5, <1>8, <1>11, Zenon DEF NextIs
  <2> QED BY <1>3, <1>4, <1>11, <2>1
<1>13. IsReady(x) => Len(x) = 6
  <2> SUFFICES ASSUME IsReady(x) PROVE Len(x) = 6
    OBVIOUS
  <2>1. l = 5
    BY <1>5, <1>8, <1>11, Zenon DEF NextIs
  <2>2. m = 6
    BY <1>4, <1>12, <2>1
  <2> QED BY <1>5, <2>2
<1>14. Piece(x, 0, Len(x)) = x /\ Drop(x, Len(x)) = <<>> /\ Cat(<<>>, g) = g
  BY RunEnds, CatEmpty
<1>15. k = Len(x) /\ 1 + l = k
  BY <1>4, <1>5, <1>12
<1>16. SubSeq(chunk, 1, 1 + MessageLength) = x
  BY <1>3, <1>10, <1>14, <1>15, Zenon
<1>17. Cat(Drop(chunk, Len(x)), response) = g
  BY <1>10, <1>14, <1>15, Zenon
<1> QED BY <1>13, <1>16, <1>17, Zenon DEF Drop

\* A message more of the answer, by what the message x is.
NextPart(R, P, base, j, x) ==
    /\ Upto(base, P, j) \in Seq(Nat) /\ P[j + 1] \in Seq(Nat)
    /\ Upto(base, P, j + 1) = Cat(Upto(base, P, j), P[j + 1])
    /\ IsReady(x) /\ ~suppress => P[j + 1] = x
    /\ ~IsReady(x) /\ TypeOf(x) = COPY_IN_RESPONSE /\ Awaited(R, j) => P[j + 1] = <<>>
    /\ ~IsReady(x) /\ ~(TypeOf(x) = COPY_IN_RESPONSE /\ Awaited(R, j)) => P[j + 1] = Seen(x)
    /\ TypeOf(x) # ROW_DESCRIPTION => Seen(x) = x

\* What the client gets of the next message.
LEMMA PartNext ==
    ASSUME NEW R \in Seq(Seq(Nat)), NEW P, NEW base \in Seq(Nat), NEW before,
           Asked(R, P, base, before), mode \in Modes, NEW j \in Nat, j < Len(R), NEW x, x = R[j + 1]
    PROVE  NextPart(R, P, base, j, x)
<1>1. /\ P \in Seq(Seq(Nat)) /\ Len(P) = Len(R)
      /\ IsReady(x) => P[j + 1] = IF \/ ~suppress
                                     \/ j + 1 = Len(R) /\ (mode = "suppress" \/ Errored(R))
                                  THEN x ELSE <<>>
      /\ ~IsReady(x) => P[j + 1] = IF TypeOf(x) = COPY_IN_RESPONSE /\ Awaited(R, j) THEN <<>>
                                   ELSE Seen(x)
      /\ TypeOf(x) # ROW_DESCRIPTION => Seen(x) = x
  <2>1. LET y == R[j + 1]
        IN  /\ P \in Seq(Seq(Nat)) /\ Len(P) = Len(R)
            /\ IsReady(y) => P[j + 1] = IF \/ ~suppress
                                           \/ j + 1 = Len(R) /\ (mode = "suppress" \/ Errored(R))
                                        THEN y ELSE <<>>
            /\ ~IsReady(y) => P[j + 1] = IF TypeOf(y) = COPY_IN_RESPONSE /\ Awaited(R, j) THEN <<>>
                                         ELSE Seen(y)
            /\ TypeOf(y) # ROW_DESCRIPTION => Seen(y) = y
    BY PartIs
  <2> QED BY <2>1, Zenon
<1>2. /\ Upto(base, P, j) \in Seq(Nat) /\ P[j + 1] \in Seq(Nat)
      /\ Upto(base, P, j + 1) = Cat(Upto(base, P, j), P[j + 1])
  <2>1. j < Len(P) /\ j <= Len(P)
    <3>1. Len(R) \in Nat
      BY LenProperties
    <3>2. \A h, k \in Nat : h < k => h <= k
      OBVIOUS
    <3> QED BY <1>1, <3>1, <3>2, Zenon
  <2> QED BY <1>1, <2>1, UptoGrows
<1> QED BY <1>1, <1>2, Zenon DEF NextPart

\* A message was framed.
LEMMA MessageFramed ==
    ASSUME NEW R \in Seq(Seq(Nat)), NEW P, NEW base \in Seq(Nat), NEW before,
           Asked(R, P, base, before), mode \in Modes, NEW j \in Nat, j < Len(R),
           NEW x, x = R[j + 1],
           messageType' = NoType, rowDesc' = <<>>, ~rfqFrame', ~dropping',
           Cat(chunk', response') = FlattenSeq(Drop(R, j + 1)),
           mode' = mode, suppress' = suppress,
           errSeen' <=> ErrorIn(R, j + 1), dropNext' <=> Awaited(R, j + 1),
           StatusSeen(R, j, before, lastSeen),
           IsReady(x) => Len(x) = 6 /\ lastSeen' = x[6], ~IsReady(x) => lastSeen' = lastSeen,
           \/ held' = <<>> /\ Cat(received', passthrough') = Cat(Upto(base, P, j), P[j + 1])
           \/ /\ suppress /\ IsReady(x) /\ held' = x
              /\ Cat(received', passthrough') = Upto(base, P, j)
    PROVE  \E k \in 0..Len(R) : Answering(R, P, base, before, k)'
<1>1. PICK k \in Nat : k = j + 1 /\ k > 0 /\ k - 1 = j /\ k \in 0..Len(R)
  <2>1. Len(R) \in Nat
    BY LenProperties
  <2>2. \A i, n \in Nat : i < n => i + 1 \in Nat /\ i + 1 > 0 /\ (i + 1) - 1 = i /\ i + 1 \in 0..n
    OBVIOUS
  <2> QED BY <2>1, <2>2, Zenon
<1>2. StatusSeen(R, k, before, lastSeen')
  <2>1. \A b, s : StatusSeen(R, j, b, s) =>
           /\ ~IsReady(R[j + 1]) => StatusSeen(R, j + 1, b, s)
           /\ IsReady(R[j + 1]) /\ Len(R[j + 1]) = 6 => StatusSeen(R, j + 1, b, R[j + 1][6])
    BY SeenGrows
  <2> QED BY <1>1, <2>1, Zenon
<1>3. \/ held' = <<>> /\ Cat(received', passthrough') = Upto(base, P, k)
      \/ /\ suppress' /\ k > 0 /\ IsReady(R[k]) /\ held' = R[k]
         /\ Cat(received', passthrough') = Upto(base, P, k - 1)
  <2>1. Upto(base, P, k) = Cat(Upto(base, P, j), P[j + 1])
    <3>1. NextPart(R, P, base, j, x)
      BY PartNext
    <3> QED BY <1>1, <3>1, Zenon DEF NextPart
  <2> QED BY <1>1, <2>1, Zenon
<1>4. dropNext' <=> Awaited(R, k)'
  <2>1. Awaited(R, k)' <=> Awaited(R, k)
    BY DEF Awaited
  <2> QED BY <1>1, <2>1, Zenon
<1>5. errSeen' <=> ErrorIn(R, k)
  BY <1>1, Zenon
<1>6. Cat(chunk', response') = FlattenSeq(Drop(R, k))
  BY <1>1, Zenon
<1>7. Between(R, P, base, before, k)'
  BY <1>2, <1>3, <1>4, <1>5, <1>6, Zenon DEF Between
<1> QED BY <1>1, <1>7, Zenon DEF Answering

\* A frame that is whole in its chunk (WholeFrame).
LEMMA WholeFrameAnswers ==
    ASSUME FramerOK, mode \in Modes, NEW R \in Seq(Seq(Nat)), NEW P, NEW base \in Seq(Nat),
           NEW before, Asked(R, P, base, before), NEW j \in 0..Len(R),
           Between(R, P, base, before, j), WholeFrame, response' = response, mode' = mode
    PROVE  \E k \in 0..Len(R) : Answering(R, P, base, before, k)'
<1>1. AtFrameStart /\ Whole /\ ~Malformed(MessageLength) /\ chunk # <<>> /\ FramerTypes
  BY Zenon DEF WholeFrame, AtFrameStart, FramerOK
<1>2. PICK x, g \in Seq(Nat) :
          /\ j \in Nat /\ j < Len(R) /\ NextIs(R, j, x, g)
          /\ Cat(chunk, response) = Cat(Drop(x, 0), g)
          /\ \A i \in 1..Len(chunk) : i <= Len(x) => chunk[i] = x[i]
          /\ Cat(received, passthrough) = Upto(base, P, j) /\ StaleDropped = <<>>
  BY <1>1, FrameHere, Zenon
<1>3. /\ SubSeq(chunk, 1, 1 + MessageLength) = x
      /\ SubSeq(chunk, Len(x) + 1, Len(chunk)) = Drop(chunk, Len(x))
      /\ Cat(Drop(chunk, Len(x)), response) = g
      /\ IsReady(x) => Len(x) = 6
  BY <1>1, <1>2, WholeIsNext
<1>4. x = R[j + 1] /\ g = FlattenSeq(Drop(R, j + 1))
  BY <1>2, Zenon DEF NextIs
<1>5. /\ onErrorResponse(TypeOf(x))
      /\ WholeReadyForQuery(x) \/ WholeCopyInResponse(x) \/ WholeRowDescription(x) \/ WholeOther(x)
      /\ chunk' = Drop(chunk, Len(x))
      /\ UNCHANGED <<suppress, rewrites, perFrame, rowDesc>>
  BY <1>3, Zenon DEF WholeFrame, Skip
<1>6. /\ suppress' = suppress /\ messageType' = messageType /\ rfqFrame' = rfqFrame
      /\ dropping' = dropping /\ rowDesc' = rowDesc
  BY <1>5 DEF perFrame
<1>7. /\ messageType = NoType /\ rowDesc = <<>> /\ ~rfqFrame /\ ~dropping
      /\ StatusSeen(R, j, before, lastSeen) /\ (errSeen <=> ErrorIn(R, j))
      /\ (dropNext <=> Awaited(R, j))
  BY Zenon DEF Between
<1>8. errSeen' <=> ErrorIn(R, j + 1)
  <2>1. ErrorIn(R, j + 1) <=> ErrorIn(R, j) \/ TypeOf(R[j + 1]) = ERROR_RESPONSE
    BY <1>2, SeenGrows
  <2> QED BY <1>4, <1>5, <1>7, <2>1, Zenon DEF onErrorResponse
<1>9. Awaited(R, j + 1) <=> Awaited(R, j) /\ TypeOf(x) # COPY_IN_RESPONSE
  BY <1>2, <1>4, SeenGrows
<1>10. NextPart(R, P, base, j, x)
  <2>1. j \in Nat /\ j < Len(R) /\ x = R[j + 1]
    BY <1>2, <1>4, Zenon
  <2> QED BY <2>1, PartNext
<1>11. PICK u : u = Upto(base, P, j) /\ u \in Seq(Nat) /\ Cat(received, passthrough) = u
  BY <1>2, <1>10, Zenon DEF NextPart
<1>12. Cat(u, <<>>) = u /\ received \in Seq(Nat) /\ passthrough \in Seq(Nat)
  BY <1>1, <1>11, CatEmpty DEF FramerTypes
<1>13. READY_FOR_QUERY # COPY_IN_RESPONSE /\ READY_FOR_QUERY # ROW_DESCRIPTION
       /\ COPY_IN_RESPONSE # ROW_DESCRIPTION
  BY DEF READY_FOR_QUERY, COPY_IN_RESPONSE, ROW_DESCRIPTION
<1>14. Cat(chunk', response') = FlattenSeq(Drop(R, j + 1))
  BY <1>3, <1>4, <1>5, Zenon
<1>15. ASSUME dropNext' <=> Awaited(R, j + 1),
              IsReady(x) => lastSeen' = x[6], ~IsReady(x) => lastSeen' = lastSeen,
              \/ held' = <<>> /\ Cat(received', passthrough') = Cat(u, P[j + 1])
              \/ suppress /\ IsReady(x) /\ held' = x /\ Cat(received', passthrough') = u
       PROVE  \E k \in 0..Len(R) : Answering(R, P, base, before, k)'
  <2>1. /\ messageType' = NoType /\ rowDesc' = <<>> /\ ~rfqFrame' /\ ~dropping'
        /\ IsReady(x) => Len(x) = 6 /\ lastSeen' = x[6]
        /\ \/ held' = <<>> /\ Cat(received', passthrough') = Cat(Upto(base, P, j), P[j + 1])
           \/ /\ suppress /\ IsReady(x) /\ held' = x
              /\ Cat(received', passthrough') = Upto(base, P, j)
    BY <1>3, <1>6, <1>7, <1>11, <1>15, Zenon
  <2> QED BY <1>2, <1>4, <1>6, <1>7, <1>8, <1>14, <1>15, <2>1, MessageFramed
<1>16. CASE WholeReadyForQuery(x)
  <2>1. /\ TypeOf(x) = READY_FOR_QUERY /\ IsReady(x) /\ lastSeen' = x[6]
        /\ held' = IF suppress THEN x ELSE <<>>
        /\ received' = Cat(u, IF suppress THEN <<>> ELSE x)
        /\ passthrough' = <<>> /\ dropNext' = dropNext
    BY <1>11, <1>16, Zenon DEF WholeReadyForQuery, IsReady, Cat
  <2>2. dropNext' <=> Awaited(R, j + 1)
    BY <1>7, <1>9, <1>13, <2>1, Zenon
  <2>3. CASE suppress
    <3>1. Cat(received', passthrough') = u
      BY <1>12, <2>1, <2>3, Zenon
    <3> QED BY <1>15, <2>1, <2>2, <2>3, <3>1, Zenon
  <2>4. CASE ~suppress
    <3>1. received' = Cat(u, x) /\ P[j + 1] = x
      BY <1>10, <2>1, <2>4, Zenon DEF NextPart
    <3>2. Cat(Cat(u, x), <<>>) = Cat(u, x)
      BY <1>2, <1>11, CatProperties, CatEmpty
    <3> QED BY <1>15, <2>1, <2>2, <2>4, <3>1, <3>2, Zenon
  <2> QED BY <2>3, <2>4
<1>17. CASE WholeCopyInResponse(x)
  <2>1. /\ TypeOf(x) = COPY_IN_RESPONSE /\ ~IsReady(x) /\ lastSeen' = lastSeen /\ held' = <<>>
        /\ Awaited(R, j) /\ received' = u /\ passthrough' = <<>> /\ ~dropNext'
    BY <1>2, <1>7, <1>11, <1>13, <1>17, Zenon DEF WholeCopyInResponse, IsReady, Cat
  <2>2. P[j + 1] = <<>> /\ (dropNext' <=> Awaited(R, j + 1))
    BY <1>9, <1>10, <2>1, Zenon DEF NextPart
  <2> QED BY <1>12, <1>15, <2>1, <2>2, Zenon
<1>18. CASE WholeRowDescription(x)
  <2>1. /\ TypeOf(x) = ROW_DESCRIPTION /\ rewrites /\ ~IsReady(x) /\ lastSeen' = lastSeen
        /\ held' = <<>> /\ received' = Cat(u, Rewritten(x)) /\ passthrough' = <<>>
        /\ dropNext' = dropNext
    BY <1>2, <1>11, <1>13, <1>18, Zenon DEF WholeRowDescription, IsReady, Cat
  <2>2. P[j + 1] = Rewritten(x) /\ (dropNext' <=> Awaited(R, j + 1))
    BY <1>7, <1>9, <1>10, <1>13, <2>1, Zenon DEF Seen, NextPart
  <2>3. Cat(Cat(u, Rewritten(x)), <<>>) = Cat(u, Rewritten(x))
    BY <1>2, <1>11, RewrittenType, CatProperties, CatEmpty
  <2> QED BY <1>15, <2>1, <2>2, <2>3, Zenon
<1>19. CASE WholeOther(x)
  <2>1. /\ ~IsReady(x) /\ lastSeen' = lastSeen /\ held' = <<>>
        /\ received' = received /\ passthrough' = Cat(passthrough, x) /\ dropNext' = dropNext
        /\ ~(TypeOf(x) = COPY_IN_RESPONSE /\ Awaited(R, j))
        /\ ~(TypeOf(x) = ROW_DESCRIPTION /\ rewrites /\ rowDescriptionNeedsRewrite(x))
    BY <1>2, <1>3, <1>7, <1>19, Zenon DEF WholeOther, IsReady, Cat
  <2>2. Seen(x) = x
    <3>1. CASE TypeOf(x) = ROW_DESCRIPTION /\ rewrites
      <4>1. \A i \in DOMAIN x : ~CatalogChar(x, i)
        BY <2>1, <3>1, Zenon DEF rowDescriptionNeedsRewrite
      <4>2. Rewritten(x) = [i \in DOMAIN x |-> x[i]]
        BY <4>1, Zenon DEF Rewritten
      <4>3. [i \in DOMAIN x |-> x[i]] = x
        <5>1. x \in [1..Len(x) -> Nat] /\ DOMAIN x = 1..Len(x)
          BY <1>2, LenProperties
        <5> QED BY <5>1, Zenon
      <4> QED BY <3>1, <4>2, <4>3, Zenon DEF Seen
    <3>2. CASE ~(TypeOf(x) = ROW_DESCRIPTION /\ rewrites)
      BY <3>2, Zenon DEF Seen
    <3> QED BY <3>1, <3>2, Zenon
  <2>3. P[j + 1] = x /\ (dropNext' <=> Awaited(R, j + 1))
    BY <1>7, <1>9, <1>10, <2>1, <2>2, Zenon DEF NextPart
  <2>4. Cat(received, Cat(passthrough, x)) = Cat(u, x)
    BY <1>2, <1>11, <1>12, CatTwice
  <2> QED BY <1>15, <2>1, <2>3, <2>4, Zenon
<1> QED BY <1>5, <1>16, <1>17, <1>18, <1>19, Zenon

\* A frame that is not whole in the chunk starts (FrameStart).
LEMMA FrameStartAnswers ==
    ASSUME FramerOK, mode \in Modes, NEW R \in Seq(Seq(Nat)), NEW P, NEW base \in Seq(Nat),
           NEW before, Asked(R, P, base, before), NEW j \in 0..Len(R),
           Between(R, P, base, before, j), FrameStart, response' = response, mode' = mode
    PROVE  \E k \in 0..Len(R) : Answering(R, P, base, before, k)'
<1>1. /\ chunk # <<>> /\ FramerTypes
      /\ received' = Cat(received, passthrough) /\ passthrough' = <<>>
      /\ messageType' = chunk[1] /\ header' = <<>>
      /\ dropping' = (dropping \/ (chunk[1] = COPY_IN_RESPONSE /\ dropNext))
      /\ dropNext' = (dropNext /\ chunk[1] # COPY_IN_RESPONSE)
      /\ held' = IF chunk[1] = READY_FOR_QUERY THEN <<READY_FOR_QUERY>> ELSE <<>>
      /\ chunk' = SubSeq(chunk, 1 + 1, Len(chunk)) /\ rfqFrame' = rfqFrame /\ rowDesc' = rowDesc
      /\ errSeen' = errSeen /\ lastSeen' = lastSeen
  BY Zenon DEF FrameStart, AtFrameStart, FramerOK, Skip, Cat
<1>2. PICK x, g \in Seq(Nat) :
          /\ j \in Nat /\ j < Len(R) /\ NextIs(R, j, x, g)
          /\ Cat(chunk, response) = Cat(Drop(x, 0), g) /\ TypeOf(x) = chunk[1]
          /\ Cat(received, passthrough) = Upto(base, P, j)
  BY <1>1, FrameHere, Zenon
<1>3. x = R[j + 1] /\ g = FlattenSeq(Drop(R, j + 1)) /\ x # <<>>
  BY <1>2, Zenon DEF NextIs
<1>4. chunk \in Seq(Nat) /\ response \in Seq(Nat)
  BY <1>1, Zenon DEF FramerTypes
<1>5. 1 <= Len(x) /\ 1 <= Len(chunk) /\ 0 <= Len(x) /\ 0 \in Nat /\ 1 \in Nat /\ 1 = 0 + 1
  <2>1. Len(x) \in Nat /\ Len(x) # 0
    BY <1>3, EmptySeq, LenProperties
  <2>2. Len(chunk) \in Nat /\ Len(chunk) # 0
    BY <1>1, <1>4, EmptySeq, LenProperties
  <2> QED BY <2>1, <2>2
<1>6. Cat(Drop(chunk, 1), response) = Cat(Drop(x, 1), g)
  <2>1. PICK z \in Nat : z = 0 /\ z <= Len(x) /\ 1 = z + 1
    BY <1>5
  <2>2. Cat(chunk, response) = Cat(Drop(x, z), g)
    BY <1>2, <2>1, Zenon
  <2> QED BY <1>4, <1>5, <2>1, <2>2, ReadWithin
<1>7. Cat(chunk', response') = Cat(Drop(x, 1), FlattenSeq(Drop(R, j + 1)))
  BY <1>1, <1>3, <1>6, Zenon DEF Drop
<1>8. Piece(x, 0, 1) = <<x[1]>> /\ Piece(x, 1, 1) = <<>>
  BY <1>5, PieceSmall
<1>9. held' = IF IsReady(x) THEN Piece(x, 0, 1) ELSE <<>>
  BY <1>1, <1>2, <1>8, Zenon DEF IsReady, TypeOf
<1>10. /\ rowDesc = <<>> /\ ~rfqFrame /\ ~dropping
       /\ StatusSeen(R, j, before, lastSeen) /\ (errSeen <=> ErrorIn(R, j))
       /\ (dropNext <=> Awaited(R, j))
  BY Zenon DEF Between
<1>11. (Awaited(R, j + 1)' <=> Awaited(R, j + 1)) /\ (Awaited(R, j)' <=> Awaited(R, j))
  BY DEF Awaited
<1>12. Awaited(R, j + 1) <=> Awaited(R, j) /\ TypeOf(x) # COPY_IN_RESPONSE
  BY <1>2, <1>3, SeenGrows
<1>13. /\ dropNext' <=> Awaited(R, j + 1)'
       /\ dropping' <=> TypeOf(x) = COPY_IN_RESPONSE /\ Awaited(R, j)'
  BY <1>1, <1>2, <1>10, <1>11, <1>12, Zenon
<1>14. InHeaderOf(R, P, base, x, j, 1)'
  <2>1. Len(header') < 4 /\ 1 = 1 + Len(header') /\ header' = Piece(x, 1, 1)
    <3>1. Len(header') = 0
      BY <1>1
    <3>2. 0 < 4 /\ 1 = 1 + 0
      OBVIOUS
    <3> QED BY <1>1, <1>8, <3>1, <3>2, Zenon
  <2>2. received' = Upto(base, P, j) /\ (errSeen' <=> ErrorIn(R, j))
    BY <1>1, <1>2, <1>10, Zenon
  <2> QED BY <1>1, <1>9, <1>10, <2>1, <2>2, Zenon DEF InHeaderOf
<1>15. Within(R, P, base, before, x, j, 1)'
  <2>1. 1 <= 1
    OBVIOUS
  <2> QED BY <1>1, <1>2, <1>5, <1>7, <1>10, <1>13, <1>14, <2>1, Zenon DEF Within
<1> QED BY <1>2, <1>3, <1>5, <1>15, Zenon DEF Answering

\* k more bytes of the message that is being read, up to m.
MoreRead(x, g, n, k, m) ==
    /\ m <= Len(x)
    /\ SubSeq(chunk, 1, k) = Piece(x, n, m) /\ Piece(x, n, m) \in Seq(Nat)
    /\ SubSeq(chunk, k + 1, Len(chunk)) = Drop(chunk, k)
    /\ Cat(Drop(chunk, k), response) = Cat(Drop(x, m), g)

\* The next k bytes of the chunk are the message's.
LEMMA MoreOf ==
    ASSUME FramerTypes, NEW x \in Seq(Nat), NEW g \in Seq(Nat), NEW n \in Nat, n <= Len(x),
           Cat(chunk, response) = Cat(Drop(x, n), g),
           NEW k \in Nat, k <= Len(chunk), NEW m \in Nat, m = n + k, g = <<>> \/ m <= Len(x)
    PROVE  MoreRead(x, g, n, k, m)
<1>1. chunk \in Seq(Nat) /\ response \in Seq(Nat)
  BY Zenon DEF FramerTypes
<1>2. /\ m <= Len(x)
      /\ Piece(chunk, 0, k) = Piece(x, n, m)
      /\ Cat(Drop(chunk, k), response) = Cat(Drop(x, m), g)
  BY <1>1, ReadWithin
<1>3. SubSeq(chunk, 1, k) = Piece(chunk, 0, k) /\ Piece(chunk, 0, k) \in Seq(Nat)
      /\ SubSeq(chunk, k + 1, Len(chunk)) = Drop(chunk, k)
  BY <1>1, ChunkParts
<1> QED BY <1>2, <1>3, Zenon DEF MoreRead

\* More of the header of the message that is being read.
HeaderStep(x, g, n, k, m) ==
    /\ MoreRead(x, g, n, k, m) /\ 1 <= m /\ m <= 5
    /\ HeaderBytes = k /\ HeaderRead = Piece(x, 1, m)
    /\ m = 1 + Len(HeaderRead) /\ Len(HeaderRead) \in Nat
    /\ m = 5 \/ k = Len(chunk)
    /\ Cat(Piece(x, 0, n), Piece(x, n, m)) = Piece(x, 0, m)

\* A turn within a header reads more of it, up to its end or the chunk's.
LEMMA HeaderMore ==
    ASSUME FramerOK, InHeader, NEW R, NEW j, NEW x \in Seq(Nat), NEW g \in Seq(Nat),
           NextIs(R, j, x, g), NEW n \in Nat, n <= Len(x),
           Cat(chunk, response) = Cat(Drop(x, n), g),
           n = 1 + Len(header), header = Piece(x, 1, n)
    PROVE  \E k, m \in Nat : HeaderStep(x, g, n, k, m)
<1>1. PICK k \in Nat :
          /\ 1 <= k /\ k <= Len(chunk) /\ Len(header) + k <= 4 /\ Len(header) \in 0..3
          /\ k = Len(chunk) \/ Len(header) + k = 4
          /\ HeaderBytes = k /\ HeaderRead = Cat(header, Piece(chunk, 0, k))
          /\ HeaderRead \in Seq(Nat) /\ Len(HeaderRead) = Len(header) + k
  BY HeaderTurn
<1>2. PICK h \in Nat : h = Len(header)
  BY LenProperties DEF FramerOK, FramerTypes
<1>3. h + k <= 4 /\ n = 1 + h
  BY <1>1, <1>2, Zenon
<1>4. PICK m \in Nat : m = n + k
  OBVIOUS
<1>5. m <= 5 /\ 1 <= m /\ 1 <= n /\ n <= m /\ m = 1 + (h + k) /\ (m = 5 <=> h + k = 4)
  BY <1>3, <1>4
<1>6. g = <<>> \/ m <= Len(x)
  <2>1. PICK l \in Nat : l = Len(x)
    BY LenProperties
  <2>2. 5 <= l => m <= l
    BY <1>5
  <2> QED BY <2>1, <2>2, Zenon DEF NextIs
<1>7. FramerTypes /\ k <= Len(chunk)
  BY <1>1, Zenon DEF FramerOK
<1>8. MoreRead(x, g, n, k, m) /\ m <= Len(x) /\ SubSeq(chunk, 1, k) = Piece(x, n, m)
      /\ Piece(x, n, m) \in Seq(Nat)
  <2>1. MoreRead(x, g, n, k, m)
    BY <1>4, <1>6, <1>7, MoreOf
  <2> QED BY <2>1, Zenon DEF MoreRead
<1>9. Piece(chunk, 0, k) = Piece(x, n, m)
  <2>1. SubSeq(chunk, 1, k) = Piece(chunk, 0, k)
    BY <1>7, ChunkParts DEF FramerTypes
  <2> QED BY <1>8, <2>1
<1>10. Cat(Piece(x, 0, n), Piece(x, n, m)) = Piece(x, 0, m)
       /\ Cat(Piece(x, 1, n), Piece(x, n, m)) = Piece(x, 1, m)
  <2>1. PICK z \in Nat : z = 0 /\ z <= n
    OBVIOUS
  <2>2. Cat(Piece(x, z, n), Piece(x, n, m)) = Piece(x, z, m)
    BY <1>5, <1>8, <2>1, PieceJoin
  <2>3. Cat(Piece(x, 1, n), Piece(x, n, m)) = Piece(x, 1, m)
    BY <1>5, <1>8, PieceJoin
  <2> QED BY <2>1, <2>2, <2>3, Zenon
<1>11. HeaderRead = Piece(x, 1, m) /\ m = 1 + Len(HeaderRead) /\ Len(HeaderRead) \in Nat
  <2>1. h + k \in Nat
    OBVIOUS
  <2> QED BY <2>1, <1>1, <1>2, <1>5, <1>9, <1>10, Zenon
<1>12. m = 5 \/ k = Len(chunk)
  BY <1>1, <1>2, <1>5, Zenon
<1> QED BY <1>1, <1>5, <1>8, <1>10, <1>11, <1>12, Zenon DEF HeaderStep

\* What does not change while a message is read.
Reading(R, P, base, before, x, j, g) ==
    /\ R \in Seq(Seq(Nat)) /\ base \in Seq(Nat) /\ Asked(R, P, base, before)
    /\ j \in Nat /\ j < Len(R) /\ x \in Seq(Nat) /\ g \in Seq(Nat) /\ NextIs(R, j, x, g)

\* Where a frame spans chunks, some of a message of the reply was read.
LEMMA ReadingIs ==
    ASSUME mode \in Modes, NEW R \in Seq(Seq(Nat)), NEW P, NEW base \in Seq(Nat), NEW before,
           Asked(R, P, base, before), NEW j \in 0..Len(R),
           Answering(R, P, base, before, j), messageType # NoType
    PROVE  \E x, g \in Seq(Nat), n \in Nat :
               /\ Reading(R, P, base, before, x, j, g) /\ Within(R, P, base, before, x, j, n)
               /\ x = R[j + 1] /\ g = FlattenSeq(Drop(R, j + 1))
               /\ NextPart(R, P, base, j, x)
               /\ ErrorIn(R, j + 1) <=> ErrorIn(R, j) \/ TypeOf(x) = ERROR_RESPONSE
<1>1. ~Between(R, P, base, before, j)
  BY Zenon DEF Between
<1>2. PICK n \in Nat : j < Len(R) /\ Within(R, P, base, before, R[j + 1], j, n)
  BY <1>1, Zenon DEF Answering
<1>3. j \in Nat
  BY LenProperties
<1>4. \A l \in DOMAIN R : WellAnswered(R, l)
  <2>1. R \in Replies(mode)
    BY Zenon DEF Asked
  <2> QED BY <2>1, ReplyAssumption
<1>5. PICK x, g \in Seq(Nat) : NextIs(R, j, x, g)
  <2>1. \E x, g \in Seq(Nat) : NextIs(R, j, x, g)
    BY <1>2, <1>3, <1>4, ReplyHas
  <2> QED BY <2>1
<1>6. x = R[j + 1] /\ g = FlattenSeq(Drop(R, j + 1))
  BY <1>5, Zenon DEF NextIs
<1>7. NextPart(R, P, base, j, x)
  <2>1. j < Len(R)
    BY <1>2, Zenon
  <2> QED BY <1>3, <1>6, <2>1, PartNext
<1>8. ErrorIn(R, j + 1) <=> ErrorIn(R, j) \/ TypeOf(x) = ERROR_RESPONSE
  BY <1>3, <1>6, SeenGrows
<1> QED BY <1>2, <1>3, <1>5, <1>6, <1>7, <1>8, Zenon DEF Reading

\* A message is still being read.
LEMMA StillWithin ==
    ASSUME NEW R, NEW P, NEW base, NEW before, NEW x, NEW j, NEW g,
           Reading(R, P, base, before, x, j, g), NEW n, Within(R, P, base, before, x, j, n),
           mode' = mode, messageType' = messageType, passthrough' = passthrough,
           dropNext' = dropNext, dropping' = dropping, lastSeen' = lastSeen,
           NEW m \in Nat, 1 <= m, m <= Len(x), Cat(chunk', response') = Cat(Drop(x, m), g),
           InHeaderOf(R, P, base, x, j, m)' \/ InPayloadOf(R, P, base, x, j, m)'
    PROVE  \E k \in 0..Len(R) : Answering(R, P, base, before, k)'
<1>1. (Awaited(R, j + 1)' <=> Awaited(R, j + 1)) /\ (Awaited(R, j)' <=> Awaited(R, j))
  BY DEF Awaited
<1>2. g = FlattenSeq(Drop(R, j + 1)) /\ x = R[j + 1] /\ j < Len(R) /\ j \in Nat
      /\ R \in Seq(Seq(Nat))
  BY Zenon DEF Reading, NextIs
<1>3. /\ messageType = TypeOf(x) /\ passthrough = <<>> /\ StatusSeen(R, j, before, lastSeen)
      /\ dropNext <=> Awaited(R, j + 1)
      /\ dropping <=> TypeOf(x) = COPY_IN_RESPONSE /\ Awaited(R, j)
  BY Zenon DEF Within
<1>4. Within(R, P, base, before, x, j, m)'
  BY <1>1, <1>2, <1>3, Zenon DEF Within
<1>5. j \in 0..Len(R)
  <2>1. Len(R) \in Nat
    BY <1>2, LenProperties
  <2>2. \A h, l \in Nat : h < l => h \in 0..l
    OBVIOUS
  <2> QED BY <1>2, <2>1, <2>2, Zenon
<1> QED BY <1>2, <1>4, <1>5, Zenon DEF Answering

\* Part of a header in this chunk (HeaderPart).
LEMMA HeaderPartAnswers ==
    ASSUME FramerOK, mode \in Modes, NEW R \in Seq(Seq(Nat)), NEW P, NEW base \in Seq(Nat),
           NEW before, Asked(R, P, base, before), NEW j \in 0..Len(R),
           Answering(R, P, base, before, j), HeaderPart, response' = response, mode' = mode
    PROVE  \E k \in 0..Len(R) : Answering(R, P, base, before, k)'
<1>1. /\ InHeader /\ messageType # NoType /\ Len(header) < 4 /\ Len(HeaderRead) < 4
      /\ header' = HeaderRead
      /\ held' = IF messageType = READY_FOR_QUERY THEN held \o chunk ELSE held
      /\ chunk' = SubSeq(chunk, HeaderBytes + 1, Len(chunk))
      /\ messageType' = messageType /\ rfqFrame' = rfqFrame /\ dropping' = dropping
      /\ rowDesc' = rowDesc /\ dropNext' = dropNext /\ passthrough' = passthrough
      /\ received' = received /\ errSeen' = errSeen /\ lastSeen' = lastSeen
  BY Zenon DEF HeaderPart, InHeader, Skip
<1>2. PICK x, g \in Seq(Nat), n \in Nat :
          Reading(R, P, base, before, x, j, g) /\ Within(R, P, base, before, x, j, n)
  BY <1>1, ReadingIs, Zenon
<1>3. InHeaderOf(R, P, base, x, j, n)
  <2>1. ~InPayloadOf(R, P, base, x, j, n)
    <3>1. \A h \in Nat : h < 4 => h # 4
      OBVIOUS
    <3>2. Len(header) \in Nat
      BY LenProperties DEF FramerOK, FramerTypes
    <3> QED BY <1>1, <3>1, <3>2, Zenon DEF InPayloadOf
  <2> QED BY <1>2, <2>1, Zenon DEF Within
<1>4. /\ NextIs(R, j, x, g) /\ n <= Len(x) /\ Cat(chunk, response) = Cat(Drop(x, n), g)
      /\ messageType = TypeOf(x) /\ n = 1 + Len(header) /\ header = Piece(x, 1, n)
      /\ held = IF IsReady(x) THEN Piece(x, 0, n) ELSE <<>>
      /\ rowDesc = <<>> /\ ~rfqFrame /\ received = Upto(base, P, j) /\ (errSeen <=> ErrorIn(R, j))
  BY <1>2, <1>3, Zenon DEF Reading, Within, InHeaderOf, NextIs
<1>5. PICK k, m \in Nat : HeaderStep(x, g, n, k, m) /\ MoreRead(x, g, n, k, m)
  <2>1. \E k, m \in Nat : HeaderStep(x, g, n, k, m)
    BY <1>1, <1>4, HeaderMore, Zenon
  <2> QED BY <2>1, Zenon DEF HeaderStep
<1>6. k = Len(chunk)
  <2>1. PICK h \in Nat : h = Len(HeaderRead)
    BY <1>5, Zenon DEF HeaderStep
  <2>2. h < 4 /\ m = 1 + h
    BY <1>1, <1>5, <2>1, Zenon DEF HeaderStep
  <2>3. m # 5
    BY <2>2
  <2> QED BY <1>5, <2>3, Zenon DEF HeaderStep
<1>7. chunk = Piece(x, n, m)
  <2>1. SubSeq(chunk, 1, Len(chunk)) = chunk
    BY SubSeqFull DEF FramerOK, FramerTypes
  <2> QED BY <1>5, <1>6, <2>1, Zenon DEF MoreRead
<1>8. held' = IF IsReady(x) THEN Piece(x, 0, m) ELSE <<>>
  BY <1>1, <1>4, <1>5, <1>7, Zenon DEF IsReady, Cat, HeaderStep
<1>9. Len(header') < 4
  BY <1>1, Zenon
<1>10. InHeaderOf(R, P, base, x, j, m)'
  BY <1>1, <1>4, <1>5, <1>8, <1>9, Zenon DEF InHeaderOf, HeaderStep
<1>11. Cat(chunk', response') = Cat(Drop(x, m), g) /\ 1 <= m /\ m <= Len(x)
  BY <1>1, <1>5, Zenon DEF HeaderStep, MoreRead
<1> QED BY <1>1, <1>2, <1>5, <1>10, <1>11, StillWithin

\* The header ends in this chunk (HeaderEnd): the message ends too, or its payload is next.
LEMMA HeaderEndAnswers ==
    ASSUME FramerOK, mode \in Modes, NEW R \in Seq(Seq(Nat)), NEW P, NEW base \in Seq(Nat),
           NEW before, Asked(R, P, base, before), NEW j \in 0..Len(R),
           Answering(R, P, base, before, j), HeaderEnd, response' = response, mode' = mode
    PROVE  \E k \in 0..Len(R) : Answering(R, P, base, before, k)'
<1>1. /\ InHeader /\ messageType # NoType /\ Len(header) < 4 /\ Len(HeaderRead) = 4
      /\ chunk' = SubSeq(chunk, HeaderBytes + 1, Len(chunk))
      /\ ~Malformed(UInt32(HeaderRead)) /\ errSeen' = (errSeen \/ messageType = ERROR_RESPONSE)
      /\ suppress' = suppress /\ dropNext' = dropNext /\ passthrough' = passthrough
      /\ lastSeen' = lastSeen
  BY Zenon DEF HeaderEnd, InHeader, Skip, onErrorResponse
<1>2. PICK x, g \in Seq(Nat), n \in Nat :
          /\ Reading(R, P, base, before, x, j, g) /\ Within(R, P, base, before, x, j, n)
          /\ x = R[j + 1] /\ g = FlattenSeq(Drop(R, j + 1)) /\ NextPart(R, P, base, j, x)
          /\ ErrorIn(R, j + 1) <=> ErrorIn(R, j) \/ TypeOf(x) = ERROR_RESPONSE
  BY <1>1, ReadingIs, Zenon
<1>3. InHeaderOf(R, P, base, x, j, n)
  <2>1. ~InPayloadOf(R, P, base, x, j, n)
    <3>1. \A h \in Nat : h < 4 => h # 4
      OBVIOUS
    <3>2. Len(header) \in Nat
      BY LenProperties DEF FramerOK, FramerTypes
    <3> QED BY <1>1, <3>1, <3>2, Zenon DEF InPayloadOf
  <2> QED BY <1>2, <2>1, Zenon DEF Within
<1>4. /\ NextIs(R, j, x, g) /\ n <= Len(x) /\ Cat(chunk, response) = Cat(Drop(x, n), g)
      /\ messageType = TypeOf(x) /\ n = 1 + Len(header) /\ header = Piece(x, 1, n)
      /\ held = IF IsReady(x) THEN Piece(x, 0, n) ELSE <<>>
      /\ rowDesc = <<>> /\ ~rfqFrame /\ received = Upto(base, P, j) /\ (errSeen <=> ErrorIn(R, j))
      /\ passthrough = <<>> /\ StatusSeen(R, j, before, lastSeen)
      /\ (dropNext <=> Awaited(R, j + 1))
      /\ dropping <=> TypeOf(x) = COPY_IN_RESPONSE /\ Awaited(R, j)
  BY <1>2, <1>3, Zenon DEF Reading, Within, InHeaderOf, NextIs
<1>5. PICK k, m \in Nat : HeaderStep(x, g, n, k, m) /\ MoreRead(x, g, n, k, m)
  <2>1. \E k, m \in Nat : HeaderStep(x, g, n, k, m)
    BY <1>1, <1>4, HeaderMore, Zenon
  <2> QED BY <2>1, Zenon DEF HeaderStep
<1>6. /\ m = 5 /\ 5 <= Len(x) /\ HeaderRead = Piece(x, 1, 5) /\ Piece(x, 1, 5) = Piece(x, 1, m)
      /\ Cat(chunk', response') = Cat(Drop(x, 5), g)
      /\ SubSeq(chunk, 1, HeaderBytes) = Piece(x, n, 5)
      /\ Cat(Piece(x, 0, n), Piece(x, n, 5)) = Piece(x, 0, 5)
  <2>1. m = 5
    <3>1. 1 + 4 = 5
      OBVIOUS
    <3> QED BY <1>1, <1>5, <3>1, Zenon DEF HeaderStep
  <2> QED BY <1>1, <1>5, <2>1, Zenon DEF HeaderStep, MoreRead
<1>7. PICK d \in Nat : d = Declared(x, 1) /\ d = UInt32(HeaderRead)
  <2>1. Declared(x, 1) \in Nat
    <3>1. 1 + 4 <= Len(x)
      BY <1>6
    <3> QED BY <3>1, DeclaredNat
  <2>2. Declared(x, 1) = UInt32(Piece(x, 1, 5))
    <3>1. 1 + 4 = 5
      OBVIOUS
    <3> QED BY <3>1, Zenon DEF Declared, Piece
  <2> QED BY <1>6, <2>1, <2>2, Zenon
<1>8. ~Malformed(d) /\ d >= 4 /\ d - 4 \in Nat
  <2>1. ~Malformed(d)
    BY <1>1, <1>7, Zenon
  <2> QED BY <2>1 DEF Malformed
<1>9. /\ Len(x) = 1 + d \/ Len(x) < 1 + d
      /\ IsReady(x) => d = 5
  BY <1>4, <1>6, <1>7, <1>8, Zenon DEF NextIs
<1>10. PICK isRfq, gathered, forwarded \in BOOLEAN :
           /\ isRfq <=> IsReady(x)
           /\ gathered <=> TypeOf(x) = ROW_DESCRIPTION /\ rewrites
           /\ forwarded <=> ~isRfq /\ ~dropping /\ ~gathered
           /\ received' = received \o (IF forwarded THEN <<messageType>> \o HeaderRead ELSE <<>>)
           /\ rowDesc' = IF gathered THEN <<messageType>> \o HeaderRead ELSE rowDesc
           /\ IF d - 4 = 0 /\ ~gathered THEN finishMessage(<<>>)
              ELSE /\ header' = HeaderRead /\ remaining' = d - 4 /\ rfqFrame' = isRfq
                   /\ held' = IF isRfq THEN held \o SubSeq(chunk, 1, HeaderBytes) ELSE <<>>
                   /\ messageType' = messageType /\ dropping' = dropping
  <2> DEFINE rfq == messageType = READY_FOR_QUERY /\ d - 4 = 1
  <2> DEFINE gat == messageType = ROW_DESCRIPTION /\ rewrites /\ ~dropping
  <2> DEFINE fwd == ~rfq /\ ~dropping /\ ~gat
  <2>1. /\ received' = received \o (IF fwd THEN <<messageType>> \o HeaderRead ELSE <<>>)
        /\ rowDesc' = IF gat THEN <<messageType>> \o HeaderRead ELSE rowDesc
        /\ IF d - 4 = 0 /\ ~gat THEN finishMessage(<<>>)
           ELSE /\ header' = HeaderRead /\ remaining' = d - 4 /\ rfqFrame' = rfq
                /\ held' = IF rfq THEN held \o SubSeq(chunk, 1, HeaderBytes) ELSE <<>>
                /\ messageType' = messageType /\ dropping' = dropping
    <3>1. d = UInt32(HeaderRead)
      BY <1>7
    <3> QED BY <3>1, Zenon DEF HeaderEnd
  <2>2. rfq <=> IsReady(x)
    <3>1. d = 5 => d - 4 = 1
      OBVIOUS
    <3> QED BY <1>4, <1>9, <3>1, Zenon DEF IsReady
  <2>3. gat <=> TypeOf(x) = ROW_DESCRIPTION /\ rewrites
    <3>1. COPY_IN_RESPONSE # ROW_DESCRIPTION
      BY DEF COPY_IN_RESPONSE, ROW_DESCRIPTION
    <3> QED BY <1>4, <3>1, Zenon
  <2>4. rfq \in BOOLEAN /\ gat \in BOOLEAN /\ fwd \in BOOLEAN
    BY Zenon
  <2> HIDE DEF rfq, gat
  <2> QED BY <2>1, <2>2, <2>3, <2>4, Zenon
<1>11. <<messageType>> \o HeaderRead = Piece(x, 0, 5)
  <2>1. PICK z \in Nat : z = 0 /\ z <= 1 /\ z <= Len(x) /\ 1 = z + 1 /\ 1 <= 5 /\ 1 <= Len(x)
    <3>1. Len(x) \in Nat
      BY LenProperties
    <3>2. \A l \in Nat : 5 <= l => 0 <= l /\ 1 <= l
      OBVIOUS
    <3> QED BY <1>6, <3>1, <3>2
  <2>2. Piece(x, z, 1) = <<x[1]>>
    BY <2>1, PieceSmall
  <2>3. Cat(Piece(x, z, 1), Piece(x, 1, 5)) = Piece(x, z, 5)
    BY <1>6, <2>1, PieceJoin
  <2> QED BY <1>4, <1>6, <2>1, <2>2, <2>3, Zenon DEF Cat, TypeOf
<1>12. errSeen' <=> ErrorIn(R, j + 1)
  BY <1>1, <1>2, <1>4, Zenon
<1>13. READY_FOR_QUERY # COPY_IN_RESPONSE /\ READY_FOR_QUERY # ROW_DESCRIPTION
       /\ COPY_IN_RESPONSE # ROW_DESCRIPTION
  BY DEF READY_FOR_QUERY, COPY_IN_RESPONSE, ROW_DESCRIPTION
<1>14. /\ IsReady(x) => ~dropping /\ ~gathered
       /\ dropping => ~gathered
  BY <1>4, <1>10, <1>13, Zenon DEF IsReady
<1>15. PICK u : u = Upto(base, P, j) /\ u \in Seq(Nat) /\ received = u /\ Cat(u, <<>>) = u
  <2>1. Upto(base, P, j) \in Seq(Nat)
    BY <1>2, Zenon DEF NextPart
  <2> QED BY <1>4, <2>1, CatEmpty
<1>16. received' = IF forwarded THEN Cat(u, Piece(x, 0, 5)) ELSE u
  BY <1>10, <1>11, <1>15, Zenon DEF Cat
<1>17. rowDesc' = IF gathered THEN Piece(x, 0, 5) ELSE <<>>
  BY <1>4, <1>10, <1>11, Zenon
<1>18. CASE d - 4 = 0 /\ ~gathered
  <2>1. d = 4 /\ d # 5
    BY <1>18
  <2>2. Len(x) = 5
    <3>1. PICK l \in Nat : l = Len(x)
      BY LenProperties
    <3>2. 5 <= l /\ (l = 1 + d \/ l < 1 + d)
      BY <1>6, <1>9, <3>1, Zenon
    <3>3. l = 5
      BY <2>1, <3>2
    <3> QED BY <3>1, <3>3
  <2>3. ~IsReady(x)
    BY <1>9, <2>1, Zenon
  <2>4. Piece(x, 0, 5) = x /\ Drop(x, 5) = <<>> /\ Cat(<<>>, g) = g
    BY <2>2, RunEnds, CatEmpty
  <2>5. finishMessage(<<>>)
    BY <1>10, <1>18, Zenon
  <2>6. messageType' = NoType /\ ~rfqFrame' /\ ~dropping' /\ held' = <<>>
    BY <2>5, Zenon DEF finishMessage
  <2>7. P[j + 1] = IF forwarded THEN x ELSE <<>>
    <3>1. TypeOf(x) = ROW_DESCRIPTION => Seen(x) = x
      BY <1>10, <1>18, Zenon DEF Seen
    <3> QED BY <1>2, <1>4, <1>10, <1>18, <2>3, <3>1, Zenon DEF NextPart
  <2>8. Cat(received', passthrough') = Cat(u, P[j + 1])
    <3>1. Cat(Cat(u, x), <<>>) = Cat(u, x)
      BY <1>15, CatProperties, CatEmpty
    <3> QED BY <1>1, <1>4, <1>15, <1>16, <2>4, <2>7, <3>1, Zenon
  <2>9. Cat(chunk', response') = FlattenSeq(Drop(R, j + 1))
    BY <1>2, <1>6, <2>4, Zenon
  <2>10. rowDesc' = <<>> /\ (dropNext' <=> Awaited(R, j + 1)) /\ j \in Nat /\ j < Len(R)
    BY <1>1, <1>2, <1>4, <1>17, <1>18, Zenon DEF Reading
  <2>11. held' = <<>> /\ Cat(received', passthrough') = Cat(Upto(base, P, j), P[j + 1])
    BY <1>15, <2>6, <2>8, Zenon
  <2> QED BY <1>1, <1>2, <1>4, <1>12, <2>3, <2>6, <2>9, <2>10, <2>11, MessageFramed
<1>19. CASE ~(d - 4 = 0 /\ ~gathered)
  <2>1. /\ header' = Piece(x, 1, 5) /\ remaining' = d - 4 /\ (rfqFrame' <=> IsReady(x))
        /\ held' = IF IsReady(x) THEN Piece(x, 0, 5) ELSE <<>>
        /\ messageType' = messageType /\ dropping' = dropping
    <3>1. /\ header' = HeaderRead /\ remaining' = d - 4 /\ rfqFrame' = isRfq
          /\ held' = IF isRfq THEN held \o SubSeq(chunk, 1, HeaderBytes) ELSE <<>>
          /\ messageType' = messageType /\ dropping' = dropping
      BY <1>10, <1>19, Zenon
    <3>2. IsReady(x) => held \o SubSeq(chunk, 1, HeaderBytes) = Piece(x, 0, 5)
      BY <1>4, <1>6, Zenon DEF Cat
    <3> QED BY <1>6, <1>10, <3>1, <3>2, Zenon
  <2>2. /\ Len(header') = 4 /\ 5 <= 5 /\ 5 + remaining' = 1 + Declared(x, 1)
        /\ ~Malformed(Declared(x, 1))
    <3>1. Len(header') = 4
      BY <1>1, <1>6, <2>1, Zenon
    <3>2. 5 + (d - 4) = 1 + d /\ 5 <= 5
      OBVIOUS
    <3> QED BY <1>7, <1>8, <2>1, <3>1, <3>2, Zenon
  <2>3. rewrites' = rewrites
    BY Zenon DEF HeaderEnd
  <2>4. \/ rfqFrame' /\ ~dropping' /\ rowDesc' = <<>> /\ held' = Piece(x, 0, 5) /\ received' = u
        \/ ~rfqFrame' /\ dropping' /\ rowDesc' = <<>> /\ held' = <<>> /\ received' = u
        \/ /\ ~rfqFrame' /\ ~dropping' /\ held' = <<>> /\ rewrites' /\ TypeOf(x) = ROW_DESCRIPTION
           /\ rowDesc' = Piece(x, 0, 5) /\ received' = u
        \/ /\ ~rfqFrame' /\ ~dropping' /\ held' = <<>>
           /\ ~(rewrites' /\ TypeOf(x) = ROW_DESCRIPTION)
           /\ rowDesc' = <<>> /\ received' = Cat(u, Piece(x, 0, 5))
    <3>1. CASE IsReady(x)
      BY <1>10, <1>14, <1>16, <1>17, <2>1, <3>1, Zenon
    <3>2. CASE ~IsReady(x) /\ dropping
      BY <1>10, <1>14, <1>16, <1>17, <2>1, <3>2, Zenon
    <3>3. CASE ~IsReady(x) /\ ~dropping /\ gathered
      BY <1>10, <1>16, <1>17, <2>1, <2>3, <3>3, Zenon
    <3>4. CASE ~IsReady(x) /\ ~dropping /\ ~gathered
      BY <1>10, <1>16, <1>17, <2>1, <2>3, <3>4, Zenon
    <3> QED BY <3>1, <3>2, <3>3, <3>4, Zenon
  <2>5. InPayloadOf(R, P, base, x, j, 5)'
    BY <1>12, <1>15, <2>1, <2>2, <2>4, Zenon DEF InPayloadOf
  <2>6. 5 \in Nat /\ 1 <= 5
    OBVIOUS
  <2> QED BY <1>1, <1>2, <1>6, <2>1, <2>5, <2>6, StillWithin
<1> QED BY <1>18, <1>19

\* The status of a ReadyForQuery that spans chunks (RfqPayload).
LEMMA RfqPayloadAnswers ==
    ASSUME FramerOK, mode \in Modes, NEW R \in Seq(Seq(Nat)), NEW P, NEW base \in Seq(Nat),
           NEW before, Asked(R, P, base, before), NEW j \in 0..Len(R),
           Answering(R, P, base, before, j), RfqPayload, response' = response, mode' = mode
    PROVE  \E k \in 0..Len(R) : Answering(R, P, base, before, k)'
<1>1. /\ messageType # NoType /\ chunk # <<>> /\ Len(header) = 4 /\ rfqFrame
      /\ lastSeen' = chunk[1] /\ chunk' = SubSeq(chunk, 1 + 1, Len(chunk))
      /\ received' = received \o (IF suppress THEN <<>> ELSE Append(held, chunk[1]))
      /\ finishMessage(Append(held, chunk[1]))
      /\ suppress' = suppress /\ rowDesc' = rowDesc /\ dropNext' = dropNext
      /\ passthrough' = passthrough /\ errSeen' = errSeen
  BY Zenon DEF RfqPayload, InPayload, Skip
<1>2. PICK x, g \in Seq(Nat), n \in Nat :
          /\ Reading(R, P, base, before, x, j, g) /\ Within(R, P, base, before, x, j, n)
          /\ x = R[j + 1] /\ g = FlattenSeq(Drop(R, j + 1)) /\ NextPart(R, P, base, j, x)
  BY <1>1, ReadingIs, Zenon
<1>3. InPayloadOf(R, P, base, x, j, n)
  <2>1. ~InHeaderOf(R, P, base, x, j, n)
    <3>1. ~(4 < 4)
      OBVIOUS
    <3> QED BY <1>1, <3>1, Zenon DEF InHeaderOf
  <2> QED BY <1>2, <2>1, Zenon DEF Within
<1>4. /\ NextIs(R, j, x, g) /\ n <= Len(x) /\ Cat(chunk, response) = Cat(Drop(x, n), g)
      /\ n = 5 /\ held = Piece(x, 0, 5) /\ received = Upto(base, P, j) /\ rowDesc = <<>>
      /\ IsReady(x) /\ ~Malformed(Declared(x, 1)) /\ (errSeen <=> ErrorIn(R, j + 1))
      /\ passthrough = <<>> /\ StatusSeen(R, j, before, lastSeen)
      /\ (dropNext <=> Awaited(R, j + 1))
  BY <1>1, <1>2, <1>3, Zenon DEF Reading, Within, InPayloadOf
<1>5. PICK l \in Nat : l = Len(x) /\ 5 <= l
  <2>1. Len(x) \in Nat
    BY LenProperties
  <2> QED BY <1>4, <2>1, Zenon
<1>6. Declared(x, 1) = 5 /\ (l = 1 + 5 \/ l < 1 + 5)
  BY <1>4, <1>5, Zenon DEF NextIs
<1>7. g = <<>> \/ 6 <= Len(x)
  <2>1. l = 1 + 5 => 6 <= l
    OBVIOUS
  <2> QED BY <1>4, <1>5, <1>6, <2>1, Zenon DEF NextIs
<1>8. MoreRead(x, g, 5, 1, 6)
  <2>1. FramerTypes /\ chunk \in Seq(Nat)
    BY Zenon DEF FramerOK, FramerTypes
  <2>2. 1 <= Len(chunk)
    <3>1. Len(chunk) \in Nat /\ Len(chunk) # 0
      BY <1>1, <2>1, EmptySeq, LenProperties
    <3> QED BY <3>1
  <2>3. PICK a, b, c \in Nat : a = 5 /\ b = 1 /\ c = 6 /\ c = a + b
    OBVIOUS
  <2>4. MoreRead(x, g, a, b, c)
    <3>1. a <= Len(x) /\ b <= Len(chunk) /\ (g = <<>> \/ c <= Len(x))
          /\ Cat(chunk, response) = Cat(Drop(x, a), g)
      BY <1>4, <1>5, <1>7, <2>2, <2>3, Zenon
    <3> QED BY <2>1, <2>3, <3>1, MoreOf
  <2> QED BY <2>3, <2>4, Zenon
<1>9. /\ 6 <= Len(x) /\ SubSeq(chunk, 1, 1) = Piece(x, 5, 6)
      /\ Cat(chunk', response') = Cat(Drop(x, 6), g)
  BY <1>1, <1>8, Zenon DEF MoreRead
<1>10. Len(x) = 6
  <2>1. 6 <= l
    BY <1>5, <1>9, Zenon
  <2>2. l = 6
    BY <1>6, <2>1
  <2> QED BY <1>5, <2>2
<1>11. Piece(x, 5, 6) = <<x[6]>> /\ Cat(Piece(x, 0, 5), Piece(x, 5, 6)) = x
  <2>1. PICK z \in Nat : z = 0 /\ z <= 5 /\ 5 <= 6 /\ 6 = 5 + 1 /\ 5 \in Nat /\ 6 \in Nat
    OBVIOUS
  <2>2. 5 <= Len(x) /\ 6 <= Len(x)
    BY <1>5, <1>9
  <2>3. Piece(x, 5, 6) = <<x[6]>>
    BY <2>1, <2>2, PieceSmall
  <2>4. Cat(Piece(x, z, 5), Piece(x, 5, 6)) = Piece(x, z, 6)
    BY <2>1, <2>2, PieceJoin
  <2>5. Piece(x, 0, 6) = x
    BY <1>10, RunEnds
  <2> QED BY <2>1, <2>3, <2>4, <2>5, Zenon
<1>12. chunk[1] = x[6]
  <2>1. chunk \in Seq(Nat) /\ Len(chunk) \in Nat /\ Len(chunk) # 0
    BY <1>1, EmptySeq, LenProperties DEF FramerOK, FramerTypes
  <2>2. 1 \in 0..Len(chunk) /\ 1 \in 1..1
    BY <2>1
  <2>3. SubSeq(chunk, 1, 1)[1] = chunk[1]
    BY <2>1, <2>2, TakeProperties
  <2>4. <<x[6]>>[1] = x[6]
    OBVIOUS
  <2> QED BY <1>9, <1>11, <2>3, <2>4, Zenon
<1>13. Append(held, chunk[1]) = x
  <2>1. held \in Seq(Nat) /\ x[6] \in Nat
    <3>1. 6 \in 1..Len(x)
      BY <1>10
    <3> QED BY <3>1, ElementOfSeq DEF FramerOK, FramerTypes
  <2>2. Append(held, x[6]) = held \o <<x[6]>>
    BY <2>1
  <2> QED BY <1>4, <1>11, <1>12, <2>2, Zenon DEF Cat
<1>14. /\ messageType' = NoType /\ ~rfqFrame' /\ ~dropping'
       /\ held' = IF suppress THEN x ELSE <<>>
  BY <1>1, <1>13, Zenon DEF finishMessage
<1>15. PICK u : u = Upto(base, P, j) /\ u \in Seq(Nat) /\ received = u /\ Cat(u, <<>>) = u
  <2>1. Upto(base, P, j) \in Seq(Nat)
    BY <1>2, Zenon DEF NextPart
  <2> QED BY <1>4, <2>1, CatEmpty
<1>16. received' = IF suppress THEN u ELSE Cat(u, x)
  BY <1>1, <1>13, <1>15, Zenon DEF Cat
<1>17. \/ held' = <<>> /\ Cat(received', passthrough') = Cat(Upto(base, P, j), P[j + 1])
       \/ /\ suppress /\ IsReady(x) /\ held' = x
          /\ Cat(received', passthrough') = Upto(base, P, j)
  <2>1. CASE suppress
    BY <1>1, <1>4, <1>14, <1>15, <1>16, <2>1, Zenon
  <2>2. CASE ~suppress
    <3>1. P[j + 1] = x
      BY <1>2, <1>4, <2>2, Zenon DEF NextPart
    <3>2. Cat(Cat(u, x), <<>>) = Cat(u, x)
      BY <1>15, CatProperties, CatEmpty
    <3> QED BY <1>1, <1>4, <1>14, <1>15, <1>16, <2>2, <3>1, <3>2, Zenon
  <2> QED BY <2>1, <2>2
<1>18. Cat(chunk', response') = FlattenSeq(Drop(R, j + 1))
  <2>1. Drop(x, 6) = <<>> /\ Cat(<<>>, g) = g
    BY <1>10, RunEnds, CatEmpty
  <2> QED BY <1>2, <1>9, <2>1, Zenon
<1>19. /\ rowDesc' = <<>> /\ (dropNext' <=> Awaited(R, j + 1)) /\ (errSeen' <=> ErrorIn(R, j + 1))
       /\ IsReady(x) => Len(x) = 6 /\ lastSeen' = x[6]
       /\ ~IsReady(x) => lastSeen' = lastSeen
  BY <1>1, <1>4, <1>10, <1>12, Zenon
<1>20. j \in Nat /\ j < Len(R)
  BY <1>2, Zenon DEF Reading
<1> QED BY <1>1, <1>2, <1>4, <1>14, <1>17, <1>18, <1>19, <1>20, MessageFramed

\* Payload of a message that spans chunks (Payload).
LEMMA PayloadAnswers ==
    ASSUME FramerOK, mode \in Modes, NEW R \in Seq(Seq(Nat)), NEW P, NEW base \in Seq(Nat),
           NEW before, Asked(R, P, base, before), NEW j \in 0..Len(R),
           Answering(R, P, base, before, j), Payload, response' = response, mode' = mode
    PROVE  \E k \in 0..Len(R) : Answering(R, P, base, before, k)'
<1>1. /\ InPayload /\ messageType # NoType /\ chunk # <<>> /\ Len(header) = 4 /\ ~rfqFrame
      /\ suppress' = suppress /\ rewrites' = rewrites /\ dropNext' = dropNext
      /\ passthrough' = passthrough /\ errSeen' = errSeen /\ lastSeen' = lastSeen
  BY Zenon DEF Payload, InPayload
<1>2. PICK x, g \in Seq(Nat), n \in Nat :
          /\ Reading(R, P, base, before, x, j, g) /\ Within(R, P, base, before, x, j, n)
          /\ x = R[j + 1] /\ g = FlattenSeq(Drop(R, j + 1)) /\ NextPart(R, P, base, j, x)
  BY <1>1, ReadingIs, Zenon
<1>3. InPayloadOf(R, P, base, x, j, n)
  <2>1. ~InHeaderOf(R, P, base, x, j, n)
    <3>1. ~(4 < 4)
      OBVIOUS
    <3> QED BY <1>1, <3>1, Zenon DEF InHeaderOf
  <2> QED BY <1>2, <2>1, Zenon DEF Within
<1>4. /\ NextIs(R, j, x, g) /\ n <= Len(x) /\ Cat(chunk, response) = Cat(Drop(x, n), g)
      /\ 5 <= n /\ n + remaining = 1 + Declared(x, 1) /\ ~Malformed(Declared(x, 1)) /\ ~IsReady(x)
      /\ (errSeen <=> ErrorIn(R, j + 1))
      /\ passthrough = <<>> /\ StatusSeen(R, j, before, lastSeen)
      /\ (dropNext <=> Awaited(R, j + 1))
      /\ dropping <=> TypeOf(x) = COPY_IN_RESPONSE /\ Awaited(R, j)
  BY <1>1, <1>2, <1>3, Zenon DEF Reading, Within, InPayloadOf
<1>5. /\ held = <<>>
      /\ \/ dropping /\ rowDesc = <<>> /\ received = Upto(base, P, j)
         \/ /\ ~dropping /\ rewrites /\ TypeOf(x) = ROW_DESCRIPTION
            /\ rowDesc = Piece(x, 0, n) /\ received = Upto(base, P, j)
         \/ /\ ~dropping /\ ~(rewrites /\ TypeOf(x) = ROW_DESCRIPTION)
            /\ rowDesc = <<>> /\ received = Cat(Upto(base, P, j), Piece(x, 0, n))
  BY <1>1, <1>3, Zenon DEF InPayloadOf
<1>6. PICK k \in Nat :
          /\ k = Min({remaining, Len(chunk)}) /\ k <= Len(chunk) /\ k <= remaining
          /\ SubSeq(chunk, 1, k) = Piece(chunk, 0, k)
          /\ SubSeq(chunk, k + 1, Len(chunk)) = Drop(chunk, k)
  BY <1>1, PayloadTurn
<1>7. /\ chunk' = SubSeq(chunk, k + 1, Len(chunk))
      /\ rowDesc' = IF rowDesc # <<>> /\ k # remaining THEN rowDesc \o SubSeq(chunk, 1, k) ELSE <<>>
      /\ received' = received \o (IF dropping THEN <<>>
                                  ELSE IF rowDesc = <<>> THEN SubSeq(chunk, 1, k)
                                  ELSE IF k = remaining
                                  THEN Rewritten(rowDesc \o SubSeq(chunk, 1, k)) ELSE <<>>)
      /\ IF k = remaining THEN finishMessage(held)
         ELSE /\ remaining' = remaining - k
              /\ messageType' = messageType /\ header' = header /\ rfqFrame' = rfqFrame
              /\ dropping' = dropping /\ held' = held
  BY <1>6, Zenon DEF Payload, Skip
<1>8. PICK l, d, r \in Nat : l = Len(x) /\ d = Declared(x, 1) /\ r = remaining /\ 5 <= l
  <2>1. PICK l \in Nat : l = Len(x)
    BY LenProperties
  <2>2. n <= l
    BY <1>4, <2>1, Zenon
  <2>3. 5 <= l
    BY <1>4, <2>2
  <2>4. 1 + 4 <= Len(x)
    BY <2>1, <2>3
  <2>5. Declared(x, 1) \in Nat
    BY <2>4, DeclaredNat
  <2>6. remaining \in Nat
    BY Zenon DEF FramerOK, FramerTypes
  <2> QED BY <2>1, <2>3, <2>5, <2>6, Zenon
<1>9. n + r = 1 + d /\ k <= r /\ (l = 1 + d \/ l < 1 + d) /\ (g = <<>> \/ l = 1 + d)
  BY <1>4, <1>6, <1>8, Zenon DEF NextIs
<1>10. PICK m \in Nat : m = n + k /\ n <= m /\ m <= 1 + d /\ 5 <= m /\ 1 <= m
            /\ (k = r <=> m = 1 + d)
  <2>1. 5 <= n
    BY <1>4, Zenon
  <2>2. n + k \in Nat /\ n + k <= 1 + d /\ n <= n + k /\ 5 <= n + k /\ 1 <= n + k
        /\ (k = r <=> n + k = 1 + d)
    BY <1>9, <2>1
  <2> QED BY <2>2, Zenon
<1>11. MoreRead(x, g, n, k, m)
  <2>1. FramerTypes
    BY Zenon DEF FramerOK
  <2>2. l = 1 + d => m <= l
    BY <1>10
  <2>3. g = <<>> \/ m <= Len(x)
    BY <1>8, <1>9, <2>2, Zenon
  <2> QED BY <1>4, <1>6, <1>10, <2>1, <2>3, MoreOf
<1>12. /\ m <= Len(x) /\ SubSeq(chunk, 1, k) = Piece(x, n, m) /\ Piece(x, n, m) \in Seq(Nat)
       /\ Cat(chunk', response') = Cat(Drop(x, m), g)
  BY <1>7, <1>11, Zenon DEF MoreRead
<1>13. PICK p : p = Piece(x, 0, n) /\ p \in Seq(Nat) /\ p # <<>>
            /\ Cat(p, Piece(x, n, m)) = Piece(x, 0, m)
  <2>1. PICK z \in Nat : z = 0 /\ z <= n /\ n - z = n
    OBVIOUS
  <2>2. Cat(Piece(x, z, n), Piece(x, n, m)) = Piece(x, z, m)
    BY <1>10, <1>12, <2>1, PieceJoin
  <2>3. PICK p : p = Piece(x, z, n) /\ p \in Seq(Nat) /\ Len(p) = n
    <3>1. Piece(x, z, n) \in Seq(Nat) /\ Len(Piece(x, z, n)) = n - z
      BY <1>4, <2>1, PieceProperties
    <3> QED BY <2>1, <3>1, Zenon
  <2>4. n # 0
    BY <1>4
  <2>5. p # <<>>
    BY <2>3, <2>4, EmptySeq
  <2> QED BY <2>1, <2>2, <2>3, <2>5, Zenon
<1>14. PICK u : u = Upto(base, P, j) /\ u \in Seq(Nat) /\ Cat(u, <<>>) = u
  <2>1. Upto(base, P, j) \in Seq(Nat)
    BY <1>2, Zenon DEF NextPart
  <2> QED BY <1>4, <2>1, CatEmpty
<1>15. Cat(Cat(u, p), Piece(x, n, m)) = Cat(u, Piece(x, 0, m))
  <2>1. Cat(Cat(u, p), Piece(x, n, m)) = Cat(u, Cat(p, Piece(x, n, m)))
    BY <1>12, <1>13, <1>14, CatTwice
  <2> QED BY <1>13, <2>1, Zenon
<1>16. \/ dropping /\ rowDesc' = <<>> /\ received' = u
       \/ /\ ~dropping /\ rewrites /\ TypeOf(x) = ROW_DESCRIPTION
          /\ rowDesc' = IF k = remaining THEN <<>> ELSE Piece(x, 0, m)
          /\ received' = IF k = remaining THEN Cat(u, Rewritten(Piece(x, 0, m))) ELSE u
       \/ /\ ~dropping /\ ~(rewrites /\ TypeOf(x) = ROW_DESCRIPTION)
          /\ rowDesc' = <<>> /\ received' = Cat(u, Piece(x, 0, m))
  <2>1. CASE dropping /\ rowDesc = <<>> /\ received = u
    BY <1>7, <1>14, <2>1, Zenon DEF Cat
  <2>2. CASE ~dropping /\ rewrites /\ TypeOf(x) = ROW_DESCRIPTION /\ rowDesc = p /\ received = u
    <3>1. rowDesc \o SubSeq(chunk, 1, k) = Piece(x, 0, m) /\ rowDesc # <<>>
      BY <1>12, <1>13, <2>2, Zenon DEF Cat
    <3>2. rowDesc' = IF k = remaining THEN <<>> ELSE Piece(x, 0, m)
      BY <1>7, <3>1, Zenon
    <3>3. received' = IF k = remaining THEN Cat(u, Rewritten(Piece(x, 0, m))) ELSE Cat(u, <<>>)
      BY <1>7, <2>2, <3>1, Zenon DEF Cat
    <3> QED BY <1>14, <2>2, <3>2, <3>3, Zenon
  <2>3. CASE /\ ~dropping /\ ~(rewrites /\ TypeOf(x) = ROW_DESCRIPTION) /\ rowDesc = <<>>
             /\ received = Cat(u, p)
    <3>1. received' = Cat(Cat(u, p), Piece(x, n, m)) /\ rowDesc' = <<>>
      BY <1>7, <1>12, <2>3, Zenon DEF Cat
    <3> QED BY <1>15, <2>3, <3>1, Zenon
  <2> QED BY <1>5, <1>13, <1>14, <2>1, <2>2, <2>3, Zenon
<1>17. CASE k = remaining
  <2>1. Len(x) = m /\ Piece(x, 0, m) = x /\ Drop(x, m) = <<>> /\ Cat(<<>>, g) = g
    <3>1. m = 1 + d /\ m <= l
      BY <1>8, <1>10, <1>12, <1>17, Zenon
    <3>2. m = l
      BY <1>9, <3>1
    <3> QED BY <1>8, <3>2, RunEnds, CatEmpty
  <2>2. messageType' = NoType /\ ~rfqFrame' /\ ~dropping' /\ held' = <<>>
    BY <1>5, <1>7, <1>17, Zenon DEF finishMessage
  <2>3. /\ rowDesc' = <<>>
        /\ received' = IF dropping THEN u ELSE Cat(u, Seen(x))
    BY <1>16, <1>17, <2>1, Zenon DEF Seen
  <2>4. P[j + 1] = IF dropping THEN <<>> ELSE Seen(x)
    BY <1>2, <1>4, Zenon DEF NextPart
  <2>5. Seen(x) \in Seq(Nat)
    BY RewrittenType DEF Seen
  <2>6. Cat(received', passthrough') = Cat(Upto(base, P, j), P[j + 1])
    <3>1. Cat(Cat(u, Seen(x)), <<>>) = Cat(u, Seen(x))
      BY <1>14, <2>5, CatProperties, CatEmpty
    <3> QED BY <1>1, <1>4, <1>14, <2>3, <2>4, <3>1, Zenon
  <2>7. Cat(chunk', response') = FlattenSeq(Drop(R, j + 1))
    BY <1>2, <1>12, <2>1, Zenon
  <2>8. j \in Nat /\ j < Len(R) /\ (dropNext' <=> Awaited(R, j + 1))
        /\ (errSeen' <=> ErrorIn(R, j + 1))
    BY <1>1, <1>2, <1>4, Zenon DEF Reading
  <2> QED BY <1>1, <1>2, <1>4, <2>2, <2>3, <2>6, <2>7, <2>8, MessageFramed
<1>18. CASE k # remaining
  <2>1. /\ remaining' = remaining - k /\ messageType' = messageType /\ header' = header
        /\ rfqFrame' = rfqFrame /\ dropping' = dropping /\ held' = <<>>
    BY <1>5, <1>7, <1>18, Zenon
  <2>2. m + remaining' = 1 + Declared(x, 1)
    <3>1. m + (r - k) = 1 + d
      BY <1>9, <1>10
    <3> QED BY <1>8, <2>1, <3>1, Zenon
  <2>3. \/ ~rfqFrame' /\ dropping' /\ rowDesc' = <<>> /\ held' = <<>> /\ received' = u
        \/ /\ ~rfqFrame' /\ ~dropping' /\ held' = <<>> /\ rewrites' /\ TypeOf(x) = ROW_DESCRIPTION
           /\ rowDesc' = Piece(x, 0, m) /\ received' = u
        \/ /\ ~rfqFrame' /\ ~dropping' /\ held' = <<>>
           /\ ~(rewrites' /\ TypeOf(x) = ROW_DESCRIPTION)
           /\ rowDesc' = <<>> /\ received' = Cat(u, Piece(x, 0, m))
    BY <1>1, <1>16, <1>18, <2>1, Zenon
  <2>4. Len(header') = 4 /\ ~rfqFrame' /\ (errSeen' <=> ErrorIn(R, j + 1))
    BY <1>1, <1>4, <2>1, Zenon
  <2>5. InPayloadOf(R, P, base, x, j, m)'
    BY <1>4, <1>10, <1>14, <2>2, <2>3, <2>4, Zenon DEF InPayloadOf
  <2> QED BY <1>1, <1>2, <1>10, <1>12, <2>1, <2>5, StillWithin
<1> QED BY <1>17, <1>18

\* Whole frames are forwarded at the end of the chunk (WriteEnd).
LEMMA WriteEndAnswers ==
    ASSUME FramerOK, mode \in Modes, NEW R \in Seq(Seq(Nat)), NEW P, NEW base \in Seq(Nat),
           NEW before, Asked(R, P, base, before), NEW j \in 0..Len(R),
           Answering(R, P, base, before, j), WriteEnd, response' = response, mode' = mode
    PROVE  \E k \in 0..Len(R) : Answering(R, P, base, before, k)'
<1>1. /\ passthrough # <<>> /\ received' = Cat(received, passthrough) /\ passthrough' = <<>>
      /\ suppress' = suppress /\ rowDesc' = rowDesc /\ dropNext' = dropNext /\ chunk' = chunk
      /\ errSeen' = errSeen /\ lastSeen' = lastSeen /\ held' = held
  BY Zenon DEF WriteEnd, Cat
<1>2. /\ messageType' = messageType /\ rfqFrame' = rfqFrame /\ dropping' = dropping
  BY DEF WriteEnd, perFrame
<1>3. Between(R, P, base, before, j)
  BY <1>1, Zenon DEF Answering, Within
<1>4. Awaited(R, j)' <=> Awaited(R, j)
  BY DEF Awaited
<1>5. Cat(received', <<>>) = Cat(received, passthrough)
  BY <1>1, CatProperties, CatEmpty DEF FramerOK, FramerTypes
<1>6. Between(R, P, base, before, j)'
  BY <1>1, <1>2, <1>3, <1>4, <1>5, Zenon DEF Between
<1> QED BY <1>6, Zenon DEF Answering

\* Where no frame spans chunks, the answer is between two messages.
LEMMA BetweenIs ==
    ASSUME mode \in Modes, NEW R \in Seq(Seq(Nat)), NEW P, NEW base, NEW before,
           Asked(R, P, base, before), NEW j \in 0..Len(R),
           Answering(R, P, base, before, j), messageType = NoType
    PROVE  Between(R, P, base, before, j)
<1>1. ASSUME NEW n, j < Len(R), Within(R, P, base, before, R[j + 1], j, n)
      PROVE  FALSE
  <2>1. PICK i : i = j + 1 /\ i \in 1..Len(R)
    <3>1. Len(R) \in Nat /\ j \in Nat
      BY LenProperties
    <3>2. \A h, l \in Nat : h < l => h + 1 \in 1..l
      OBVIOUS
    <3> QED BY <1>1, <3>1, <3>2, Zenon
  <2>2. PICK x : x = R[i] /\ x \in Seq(Nat)
    BY <2>1, ElementOfSeq
  <2>3. messageType = x[1] /\ 1 <= n /\ n <= Len(x)
    BY <1>1, <2>1, <2>2, Zenon DEF Within, TypeOf
  <2>4. x # <<>>
    <3>1. WellAnswered(R, i)
      <4>1. R \in Replies(mode) /\ DOMAIN R = 1..Len(R)
        BY LenProperties DEF Asked
      <4> QED BY <2>1, <4>1, ReplyAssumption
    <3> QED BY <2>2, <3>1, Zenon DEF WellAnswered
  <2>5. x[1] \in Nat
    <3>1. Len(x) \in Nat /\ Len(x) # 0
      BY <2>2, <2>4, EmptySeq, LenProperties
    <3>2. 1 \in 1..Len(x)
      BY <3>1
    <3> QED BY <2>2, <3>2, ElementOfSeq
  <2> QED BY <1>1, <2>3, <2>5, NoTypeAssumption
<1> QED BY <1>1, Zenon DEF Answering

\* A turn of write's loop keeps to the answer.
LEMMA writeAnswers ==
    ASSUME FramerOK, mode \in Modes, NEW R \in Seq(Seq(Nat)), NEW P, NEW base \in Seq(Nat),
           NEW before, Asked(R, P, base, before), NEW j \in 0..Len(R),
           Answering(R, P, base, before, j), write, response' = response, mode' = mode
    PROVE  \E k \in 0..Len(R) : Answering(R, P, base, before, k)'
<1>2. CASE WholeFrame
  <2>1. messageType = NoType
    BY <1>2, Zenon DEF WholeFrame, AtFrameStart
  <2> QED BY <1>2, <2>1, BetweenIs, WholeFrameAnswers
<1>3. CASE FrameStart
  <2>1. messageType = NoType
    BY <1>3, Zenon DEF FrameStart, AtFrameStart
  <2> QED BY <1>3, <2>1, BetweenIs, FrameStartAnswers
<1>4. CASE HeaderPart
  BY <1>4, HeaderPartAnswers
<1>5. CASE HeaderEnd
  BY <1>5, HeaderEndAnswers
<1>6. CASE RfqPayload
  BY <1>6, RfqPayloadAnswers
<1>7. CASE Payload
  BY <1>7, PayloadAnswers
<1>8. CASE WriteEnd
  BY <1>8, WriteEndAnswers
<1> QED BY <1>2, <1>3, <1>4, <1>5, <1>6, <1>7, <1>8, Zenon DEF write

\* The framer is left alone; some of the answer may move into a chunk.
LEMMA AnsweringKept ==
    ASSUME NEW R, NEW P, NEW base, NEW before, NEW j,
           Answering(R, P, base, before, j), Cat(chunk', response') = Cat(chunk, response),
           suppress' = suppress, rewrites' = rewrites, perFrame' = perFrame, held' = held,
           rowDesc' = rowDesc, dropNext' = dropNext, passthrough' = passthrough,
           received' = received, errSeen' = errSeen, lastSeen' = lastSeen, mode' = mode
    PROVE  Answering(R, P, base, before, j)'
<1>1. /\ messageType' = messageType /\ header' = header /\ remaining' = remaining
      /\ rfqFrame' = rfqFrame /\ dropping' = dropping
  BY DEF perFrame
<1>2. ASSUME Between(R, P, base, before, j) PROVE Between(R, P, base, before, j)'
  <2>1. Awaited(R, j)' <=> Awaited(R, j)
    BY <1>1 DEF Awaited
  <2> QED BY <1>1, <1>2, <2>1, Zenon DEF Between
<1>3. ASSUME NEW k \in Nat, Within(R, P, base, before, R[j + 1], j, k)
      PROVE  Within(R, P, base, before, R[j + 1], j, k)'
  <2>1. (Awaited(R, j + 1)' <=> Awaited(R, j + 1)) /\ (Awaited(R, j)' <=> Awaited(R, j))
    BY <1>1 DEF Awaited
  <2>2. PICK x : x = R[j + 1]
    OBVIOUS
  <2>3. InHeaderOf(R, P, base, x, j, k) => InHeaderOf(R, P, base, x, j, k)'
    BY <1>1, Zenon DEF InHeaderOf
  <2>4. InPayloadOf(R, P, base, x, j, k) => InPayloadOf(R, P, base, x, j, k)'
    BY <1>1, Zenon DEF InPayloadOf
  <2>5. InHeaderOf(R, P, base, x, j, k) \/ InPayloadOf(R, P, base, x, j, k)
    BY <1>3, <2>2, Zenon DEF Within
  <2>6. /\ messageType = TypeOf(x) /\ 1 <= k /\ k <= Len(x) /\ passthrough = <<>>
        /\ Cat(chunk, response) = Cat(Drop(x, k), FlattenSeq(Drop(R, j + 1)))
        /\ StatusSeen(R, j, before, lastSeen)
        /\ dropNext <=> Awaited(R, j + 1)
        /\ dropping <=> TypeOf(x) = COPY_IN_RESPONSE /\ Awaited(R, j)
    BY <1>3, <2>2, Zenon DEF Within
  <2>7. Within(R, P, base, before, x, j, k)'
    BY <1>1, <2>1, <2>3, <2>4, <2>5, <2>6, Zenon DEF Within
  <2> QED BY <2>2, <2>7
<1> QED BY <1>2, <1>3, Zenon DEF Answering

\* At the end of the answer every message was framed.
LEMMA AllFramed ==
    ASSUME mode \in Modes, NEW R \in Seq(Seq(Nat)), NEW P, NEW base, NEW before,
           Asked(R, P, base, before), NEW j \in 0..Len(R),
           Between(R, P, base, before, j), chunk = <<>>, response = <<>>
    PROVE  j = Len(R)
<1>1. FlattenSeq(Drop(R, j)) = <<>>
  <2>1. Cat(<<>>, <<>>) = <<>>
    BY CatEmpty, EmptySeq
  <2> QED BY <2>1, Zenon DEF Between
<1>2. j \in Nat /\ Len(R) \in Nat /\ j <= Len(R)
  BY LenProperties
<1>3. SUFFICES ASSUME j < Len(R) PROVE FALSE
  BY <1>2
<1>4. \A i \in DOMAIN R : WellAnswered(R, i)
  <2>1. R \in Replies(mode)
    BY Zenon DEF Asked
  <2> QED BY <2>1, ReplyAssumption
<1>5. /\ \E x, g \in Seq(Nat) : NextIs(R, j, x, g)
      /\ \A x, g : NextIs(R, j, x, g) => FlattenSeq(Drop(R, j)) = Cat(x, g)
  BY <1>2, <1>3, <1>4, ReplyHas
<1>6. PICK x, g \in Seq(Nat) : NextIs(R, j, x, g)
  BY <1>5, Zenon
<1>7. Cat(x, g) = <<>> /\ x # <<>>
  BY <1>1, <1>5, <1>6, Zenon DEF NextIs
<1>8. Len(x) + Len(g) = 0 /\ Len(x) \in Nat /\ Len(g) \in Nat /\ Len(x) # 0
  BY <1>7, CatProperties, EmptySeq, LenProperties
<1> QED BY <1>8

\* The end of the call: nothing of its answer is missing (Return).
LEMMA ReturnAnswers ==
    ASSUME FramerOK, mode \in Modes, NEW R \in Seq(Seq(Nat)), NEW P \in Seq(Seq(Nat)),
           NEW base \in Seq(Nat), NEW before, Asked(R, P, base, before), NEW j \in 0..Len(R),
           Answering(R, P, base, before, j), Return
    PROVE  AtRest'
<1>1. /\ response = <<>> /\ chunk = <<>> /\ passthrough = <<>> /\ messageType = NoType
      /\ received' = Cat(received, IF suppress /\ ~DropsHeld /\ Len(held) = 6 THEN held ELSE <<>>)
  BY DEF Return, Delivered, flush, Cat
<1>2. /\ chunk' = chunk /\ passthrough' = passthrough /\ errSeen' = errSeen /\ lastSeen' = lastSeen
      /\ calls' = calls /\ expected' = expected
  BY DEF Return, historyVars
<1>3. Between(R, P, base, before, j)
  BY <1>1, BetweenIs
<1>4. j = Len(R) /\ Len(R) \in Nat
  BY <1>1, <1>3, AllFramed, LenProperties
<1>5. lastSeen = LastStatus
  <2>1. StatusSeen(R, Len(R), before, lastSeen)
    BY <1>3, <1>4, Zenon DEF Between
  <2>2. lastSeen = IF ReadyIn(R) = {} THEN before ELSE StatusOf(R)
    BY <2>1, StatusSeenWhole
  <2> QED BY <2>2, Zenon DEF Asked
<1>6. errSeen <=> Errored(R)
  <2>1. errSeen <=> ErrorIn(R, Len(R))
    BY <1>3, <1>4, Zenon DEF Between
  <2>2. DOMAIN R = 1..Len(R)
    BY LenProperties
  <2> QED BY <2>1, <2>2, Zenon DEF ErrorIn, Errored
<1>7. /\ Last(calls).reply = R /\ R \in Replies(mode) /\ P = ShownParts(mode, R)
      /\ expected = Cat(base, FlattenSeq(P))
      /\ suppress <=> mode \in {"suppress", "flush-boundary"}
  BY Zenon DEF Asked
<1>8. Len(P) = Len(R)
  BY <1>7, PartsAre
<1>9. Upto(base, P, j) = expected /\ Upto(base, P, j) \in Seq(Nat)
  <2>1. \A h, k \in Nat : h = k => h <= k
    OBVIOUS
  <2>2. j \in Nat /\ j <= Len(P) /\ j = Len(P)
    BY <1>4, <1>8, <2>1, Zenon
  <2>3. Upto(base, P, j) \in Seq(Nat) /\ Upto(base, P, Len(P)) = Cat(base, FlattenSeq(P))
    BY <2>2, UptoGrows
  <2> QED BY <1>7, <2>2, <2>3, Zenon
<1>10. received \in Seq(Nat) /\ Cat(received, <<>>) = received
       /\ Cat(received, passthrough) = received
  <2>1. received \in Seq(Nat)
    BY DEF FramerOK, FramerTypes
  <2> QED BY <1>1, <2>1, CatEmpty
<1>11. received' = expected
  <2>1. CASE held = <<>>
    <3>1. Cat(received, passthrough) = Upto(base, P, j)
      <4>1. R[j] # <<>> \/ j = 0
        <5>1. \A h \in Nat : h # 0 => h \in 1..h
          OBVIOUS
        <5>2. DOMAIN R = 1..Len(R)
          BY LenProperties
        <5>3. j # 0 => WellAnswered(R, j)
          BY <1>4, <1>7, <5>1, <5>2, ReplyAssumption
        <5> QED BY <5>3, Zenon DEF WellAnswered
      <4>2. j > 0 => j # 0
        BY <1>4
      <4> QED BY <1>3, <2>1, <4>1, <4>2, Zenon DEF Between
    <3>2. received' = Cat(received, <<>>)
      BY <1>1, <2>1, Zenon
    <3> QED BY <1>9, <1>10, <3>1, <3>2, Zenon
  <2>2. CASE held # <<>>
    <3>1. /\ suppress /\ j > 0 /\ IsReady(R[j]) /\ held = R[j]
          /\ Cat(received, passthrough) = Upto(base, P, j - 1)
      BY <1>3, <2>2, Zenon DEF Between
    <3>2. PICK i \in Nat : i = j - 1 /\ j = i + 1 /\ i < Len(R)
      BY <1>4, <3>1
    <3>3. R[i + 1] = R[j] /\ P[i + 1] = P[j] /\ Upto(base, P, i + 1) = Upto(base, P, j)
          /\ Upto(base, P, i) = Upto(base, P, j - 1)
      BY <3>2, Zenon
    <3>4. P[i + 1] = IF \/ ~suppress
                        \/ i + 1 = Len(R) /\ (mode = "suppress" \/ Errored(R))
                     THEN R[i + 1] ELSE <<>>
      <4>1. IsReady(R[i + 1])
        BY <3>1, <3>3, Zenon
      <4> QED BY <3>2, <4>1, PartIs
    <3>5. P[j] = IF mode = "suppress" \/ Errored(R) THEN held ELSE <<>>
      BY <1>4, <3>1, <3>2, <3>3, <3>4, Zenon
    <3>6. Upto(base, P, j) = Cat(Upto(base, P, j - 1), P[j])
      <4>1. \A h, k \in Nat : h < k => h <= k
        OBVIOUS
      <4>2. i < Len(P) /\ i <= Len(P)
        BY <1>4, <1>8, <3>2, <4>1, Zenon
      <4>3. Upto(base, P, i + 1) = Cat(Upto(base, P, i), P[i + 1])
        BY <4>2, UptoGrows
      <4> QED BY <3>3, <4>3, Zenon
    <3>7. Len(held) = 6
      <4>1. held \in Seq(Nat) /\ Len(held) \in {0, 6}
        BY <1>1, Zenon DEF FramerOK, FramerTypes, HeldFits
      <4>2. Len(held) # 0
        BY <2>2, <4>1, EmptySeq
      <4> QED BY <4>1, <4>2
    <3>8. ~DropsHeld <=> mode = "suppress" \/ Errored(R)
      <4>1. mode \in {"suppress", "flush-boundary"}
        BY <1>7, <3>1, Zenon
      <4>2. mode = "suppress" => mode # "flush-boundary"
        OBVIOUS
      <4> QED BY <1>6, <4>1, <4>2, Zenon DEF DropsHeld
    <3>9. received' = Cat(received, P[j])
      BY <1>1, <3>1, <3>5, <3>7, <3>8, Zenon
    <3> QED BY <1>9, <1>10, <3>1, <3>6, <3>9, Zenon
  <2> QED BY <2>1, <2>2, Zenon
<1>12. LastStatus' = LastStatus
  BY <1>2 DEF LastStatus
<1>13. (Errored(Last(calls).reply) <=> Errored(Last(calls).reply)') /\ (errSeen' <=> errSeen)
  BY <1>2 DEF Errored
<1>14. calls # <<>> => (errSeen' <=> Errored(Last(calls).reply)')
  BY <1>6, <1>7, <1>13, Zenon
<1> QED BY <1>1, <1>2, <1>5, <1>11, <1>12, <1>14, Zenon DEF AtRest

\* A run begins with what its beginning begins with.
LEMMA StartsOn ==
    \A s, t, u, w \in Seq(Nat) : t = Cat(s, u) => \A v : v = Cat(t, w) => Starts(s, v)
<1> TAKE s, t, u, w \in Seq(Nat)
<1>1. HAVE t = Cat(s, u)
<1> TAKE v
<1>2. HAVE v = Cat(t, w)
<1>3. Cat(Cat(s, u), w) = Cat(s, Cat(u, w)) /\ Cat(u, w) \in Seq(Nat)
  BY CatTwice, CatProperties
<1> QED BY <1>1, <1>2, <1>3, Zenon DEF Starts

\* Whenever the call fails, the client got no more than the beginning of the answer.
LEMMA AnsweringStarts ==
    ASSUME FramerOK, mode \in Modes, NEW R \in Seq(Seq(Nat)), NEW P \in Seq(Seq(Nat)),
           NEW base \in Seq(Nat), NEW before, Asked(R, P, base, before), NEW j \in 0..Len(R),
           Answering(R, P, base, before, j)
    PROVE  Starts(received, expected)
<1>1. received \in Seq(Nat) /\ passthrough \in Seq(Nat) /\ <<>> \in Seq(Nat)
  BY EmptySeq DEF FramerOK, FramerTypes
<1>2. expected = Cat(base, FlattenSeq(P)) /\ P = ShownParts(mode, R)
  BY Zenon DEF Asked
<1>3. Len(P) = Len(R) /\ Len(P) \in Nat
  BY <1>2, PartsAre, LenProperties
<1>4. ASSUME NEW k \in Nat, k <= Len(P), NEW u \in Seq(Nat), Upto(base, P, k) = Cat(received, u)
      PROVE  Starts(received, expected)
  <2>1. /\ Upto(base, P, k) \in Seq(Nat)
        /\ \E w \in Seq(Nat) : Cat(base, FlattenSeq(P)) = Cat(Upto(base, P, k), w)
    BY <1>4, UptoGrows
  <2> QED BY <1>1, <1>2, <1>4, <2>1, StartsOn
<1>5. CASE messageType = NoType
  <2>1. Between(R, P, base, before, j)
    BY <1>5, BetweenIs
  <2>2. \E k \in Nat : k <= Len(P) /\ Upto(base, P, k) = Cat(received, passthrough)
    <3>1. CASE Cat(received, passthrough) = Upto(base, P, j)
      <4>1. j \in Nat /\ j <= Len(P)
        BY <1>3
      <4> QED BY <3>1, <4>1
    <3>2. CASE j > 0 /\ Cat(received, passthrough) = Upto(base, P, j - 1)
      <4>1. j - 1 \in Nat /\ j - 1 <= Len(P)
        BY <1>3, <3>2
      <4> QED BY <3>2, <4>1, Zenon
    <3> QED BY <2>1, <3>1, <3>2, Zenon DEF Between
  <2> QED BY <1>1, <1>4, <2>2
<1>6. CASE messageType # NoType
  <2>1. PICK x, g \in Seq(Nat), n \in Nat :
            /\ Reading(R, P, base, before, x, j, g) /\ Within(R, P, base, before, x, j, n)
            /\ NextPart(R, P, base, j, x)
    <3>1. \E x, g \in Seq(Nat), n \in Nat :
              /\ Reading(R, P, base, before, x, j, g) /\ Within(R, P, base, before, x, j, n)
              /\ x = R[j + 1] /\ g = FlattenSeq(Drop(R, j + 1))
              /\ NextPart(R, P, base, j, x)
              /\ ErrorIn(R, j + 1) <=> ErrorIn(R, j) \/ TypeOf(x) = ERROR_RESPONSE
      BY <1>6, ReadingIs
    <3> QED BY <3>1, Zenon
  <2>2. /\ j \in Nat /\ j < Len(R) /\ Upto(base, P, j) \in Seq(Nat) /\ P[j + 1] \in Seq(Nat)
        /\ Upto(base, P, j + 1) = Cat(Upto(base, P, j), P[j + 1])
    BY <2>1, Zenon DEF Reading, NextPart
  <2>3. j <= Len(P) /\ j + 1 \in Nat /\ j + 1 <= Len(P)
    BY <1>3, <2>2
  <2>4. CASE received = Upto(base, P, j)
    <3>1. Upto(base, P, j) = Cat(received, <<>>)
      BY <1>1, <2>4, CatEmpty
    <3> QED BY <1>1, <1>4, <2>2, <2>3, <3>1
  <2>5. CASE /\ ~rfqFrame /\ ~dropping /\ ~(rewrites /\ TypeOf(x) = ROW_DESCRIPTION)
             /\ received = Cat(Upto(base, P, j), Piece(x, 0, n)) /\ (rfqFrame <=> IsReady(x))
    <3>1. Seen(x) = x
      BY <2>5, Zenon DEF Seen
    <3>2. P[j + 1] = x
      <4>1. ~IsReady(x) /\ ~(TypeOf(x) = COPY_IN_RESPONSE /\ Awaited(R, j))
        BY <2>1, <2>5, Zenon DEF Within
      <4> QED BY <2>1, <3>1, <4>1, Zenon DEF NextPart
    <3>3. /\ x = Cat(Piece(x, 0, n), Drop(x, n))
          /\ Piece(x, 0, n) \in Seq(Nat) /\ Drop(x, n) \in Seq(Nat)
      <4>1. n <= Len(x)
        BY <2>1, Zenon DEF Within
      <4>2. \A h \in Nat : 0 <= h
        OBVIOUS
      <4>3. 0 \in Nat /\ 0 <= n
        BY <4>2
      <4>4. Drop(x, 0) = Cat(Piece(x, 0, n), Drop(x, n)) /\ Piece(x, 0, n) \in Seq(Nat)
        BY <4>1, <4>3, PieceProperties
      <4> QED BY <4>1, <4>4, RunEnds, DropLength
    <3>4. Cat(Upto(base, P, j), x) = Cat(received, Drop(x, n))
      <4>1. Cat(Cat(Upto(base, P, j), Piece(x, 0, n)), Drop(x, n))
               = Cat(Upto(base, P, j), Cat(Piece(x, 0, n), Drop(x, n)))
        BY <2>2, <3>3, CatTwice
      <4> QED BY <2>5, <3>3, <4>1, Zenon
    <3>5. Upto(base, P, j + 1) = Cat(received, Drop(x, n))
      BY <2>2, <3>2, <3>4, Zenon
    <3> QED BY <1>4, <2>3, <3>3, <3>5
  <2> QED BY <2>1, <2>4, <2>5, Zenon DEF Within, InHeaderOf, InPayloadOf
<1> QED BY <1>5, <1>6

-----------------------------------------------------------------------------
(* A call, and the steps around it.                                         *)

\* A set of positions has a last one.
LEMMA LastOfPositions ==
    \A n \in Nat : \A A \in SUBSET (1..n) : A # {} => Max(A) \in A /\ \A y \in A : y <= Max(A)
<1> DEFINE HasLast(A) == \E m \in A : \A y \in A : y <= m
<1> DEFINE T == {n \in Nat : \A A \in SUBSET (1..n) : A # {} => HasLast(A)}
<1>1. 0 \in T
  <2>1. 1..0 = {} /\ 0 \in Nat
    OBVIOUS
  <2> QED BY <2>1
<1>2. ASSUME NEW n \in Nat, n \in T PROVE n + 1 \in T
  <2>1. SUFFICES ASSUME NEW A \in SUBSET (1..(n + 1)), A # {} PROVE HasLast(A)
    OBVIOUS
  <2>2. CASE n + 1 \in A
    <3>1. \A y \in A : y <= n + 1
      BY <2>1
    <3> QED BY <2>2, <3>1
  <2>3. CASE n + 1 \notin A
    <3>1. A \in SUBSET (1..n)
      BY <2>1, <2>3
    <3> QED BY <1>2, <2>1, <3>1
  <2> QED BY <2>2, <2>3
<1> HIDE DEF T
<1>3. Nat \subseteq T
  BY <1>1, <1>2, NatSetInduction
<1> SUFFICES ASSUME NEW n \in Nat, NEW A \in SUBSET (1..n), A # {}
             PROVE  Max(A) \in A /\ \A y \in A : y <= Max(A)
  OBVIOUS
<1>4. n \in T
  BY <1>3
<1>5. HasLast(A)
  BY <1>4 DEF T
<1>6. PICK m \in A : \A y \in A : y <= m
  BY <1>5
<1>7. A \subseteq Nat
  OBVIOUS
<1>8. Max(A) = m
  BY <1>6, <1>7, MaxIs
<1> QED BY <1>6, <1>8

\* The last status after one more call is that of its answer, if that has one.
LEMMA LastStatusNext ==
    ASSUME NEW S, calls \in Seq(S), NEW c, calls' = Append(calls, c)
    PROVE  /\ calls' \in Seq(S \cup {c}) /\ calls' # <<>> /\ Last(calls)' = c
           /\ LastStatus' = IF ReadyIn(c.reply) = {} THEN LastStatus ELSE StatusOf(c.reply)
<1>1. PICK cs, n : cs = calls /\ n = Len(cs)
  OBVIOUS
<1>2. PICK ds : ds = calls'
  OBVIOUS
<1>3. cs \in Seq(S) /\ n \in Nat /\ DOMAIN cs = 1..n /\ ds = Append(cs, c)
  BY <1>1, <1>2, LenProperties
<1>4. /\ ds \in Seq(S \cup {c}) /\ Len(ds) = n + 1 /\ DOMAIN ds = 1..(n + 1) /\ ds # <<>>
      /\ \A i \in 1..n : ds[i] = cs[i]
      /\ ds[n + 1] = c
  <2>1. cs \in Seq(S \cup {c}) /\ c \in S \cup {c}
    BY <1>3
  <2>2. /\ ds \in Seq(S \cup {c}) /\ Len(ds) = n + 1
        /\ \A i \in 1..n : ds[i] = cs[i]
        /\ ds[n + 1] = c
    BY <1>1, <1>3, <2>1, AppendProperties
  <2>3. n + 1 # 0
    BY <1>3
  <2> QED BY <2>2, <2>3, LenProperties, EmptySeq
<1> DEFINE A(q) == {i \in DOMAIN q : ReadyIn(q[i].reply) # {}}
<1>5. LastStatus = IF A(cs) = {} THEN RFQ_STATUS_IDLE ELSE StatusOf(cs[Max(A(cs))].reply)
  BY <1>1 DEF LastStatus
<1>6. LastStatus' = IF A(ds) = {} THEN RFQ_STATUS_IDLE ELSE StatusOf(ds[Max(A(ds))].reply)
  BY <1>2 DEF LastStatus
<1>7. ASSUME ReadyIn(c.reply) = {} PROVE LastStatus' = LastStatus
  <2>1. A(ds) = A(cs)
    <3>1. \A i : i \in 1..(n + 1) <=> i \in 1..n \/ i = n + 1
      BY <1>3
    <3> QED BY <1>3, <1>4, <1>7, <3>1, Zenon
  <2>2. A(cs) # {} => ds[Max(A(cs))] = cs[Max(A(cs))]
    <3>1. A(cs) \in SUBSET (1..n)
      BY <1>3
    <3>2. A(cs) # {} => Max(A(cs)) \in 1..n
      BY <1>3, <3>1, LastOfPositions
    <3> QED BY <1>4, <3>2
  <2> HIDE DEF A
  <2> QED BY <1>5, <1>6, <2>1, <2>2, Zenon
<1>8. ASSUME ReadyIn(c.reply) # {} PROVE LastStatus' = StatusOf(c.reply)
  <2>1. n + 1 \in A(ds) /\ A(ds) \subseteq Nat /\ \A y \in A(ds) : y <= n + 1
    BY <1>3, <1>4, <1>8
  <2>2. Max(A(ds)) = n + 1
    BY <2>1, MaxIs
  <2>3. A(ds) # {} /\ ds[Max(A(ds))] = c
    BY <1>4, <2>1, <2>2, Zenon
  <2> HIDE DEF A
  <2> QED BY <1>6, <2>3, Zenon
<1>9. Last(calls)' = c
  BY <1>2, <1>4 DEF Last
<1>10. calls' \in Seq(S \cup {c}) /\ calls' # <<>>
  BY <1>2, <1>4
<1> QED BY <1>7, <1>8, <1>9, <1>10, Zenon

\* A call starts: the framer is at the beginning of its answer (streamProtocol).
LEMMA streamProtocolAnswers ==
    ASSUME FramerOK, AtRest, NEW S, calls \in Seq(S), NEW message, NEW rfqMode \in Modes,
           streamProtocol(message, rfqMode)
    PROVE  (\E T : calls' \in Seq(T)) /\ BeingAnswered'
<1>1. PICK R \in Replies(rfqMode) :
          /\ response' = FlattenSeq(R)
          /\ calls' = Append(calls, [sent |-> message, mode |-> rfqMode, reply |-> R])
          /\ expected' = Cat(expected, Answer(rfqMode, R))
  BY DEF streamProtocol, Cat
<1>2. /\ mode' = rfqMode /\ ~errSeen' /\ messageType' = NoType /\ held' = <<>> /\ ~rfqFrame'
      /\ rowDesc' = <<>> /\ ~dropping' /\ rewrites' = rewrites /\ chunk' = chunk
      /\ passthrough' = passthrough /\ received' = received /\ lastSeen' = lastSeen
      /\ suppress' <=> rfqMode \in {"suppress", "flush-boundary"}
      /\ dropNext' <=> rfqMode = "copy-in"
  BY DEF streamProtocol, reset, ArmsDrop
<1>3. PICK c : c = [sent |-> message, mode |-> rfqMode, reply |-> R]
  OBVIOUS
<1>4. c.reply = R /\ calls' = Append(calls, c)
  BY <1>1, <1>3
<1>5. R \in Seq(Seq(Nat))
  BY ReplyAssumption
<1>6. PICK P : P = ShownParts(rfqMode, R)
  OBVIOUS
<1>7. P \in Seq(Seq(Nat)) /\ Len(P) \in Nat
  BY <1>5, <1>6, PartsAre, LenProperties
<1>8. PICK base \in Seq(Nat), before \in Nat : base = received /\ before = lastSeen
  BY DEF FramerOK, FramerTypes
<1>9. /\ calls' \in Seq(S \cup {c}) /\ calls' # <<>> /\ Last(calls)' = c
      /\ LastStatus' = IF ReadyIn(c.reply) = {} THEN LastStatus ELSE StatusOf(c.reply)
  BY <1>4, LastStatusNext
<1>10. received = expected /\ chunk = <<>> /\ passthrough = <<>> /\ lastSeen = LastStatus
  BY DEF AtRest
<1>11. Asked(R, P, base, before)'
  <2>1. Last(calls)'.reply = R /\ (R \in Replies(mode))'
    BY <1>1, <1>2, <1>4, <1>9, Zenon
  <2>2. P = ShownParts(mode, R)'
    <3>1. ShownParts(rfqMode, R)' = ShownParts(rfqMode, R)
      BY <1>2 DEF ShownParts, Seen
    <3>2. ShownParts(mode, R)' = ShownParts(rfqMode, R)'
      BY <1>2
    <3> QED BY <1>6, <3>1, <3>2, Zenon
  <2>3. expected' = Cat(base, FlattenSeq(P))
    BY <1>1, <1>6, <1>8, <1>10, Zenon DEF Answer
  <2>4. LastStatus' = IF ReadyIn(R) = {} THEN before ELSE StatusOf(R)
    BY <1>4, <1>8, <1>9, <1>10, Zenon
  <2>5. suppress' <=> mode' \in {"suppress", "flush-boundary"}
    BY <1>2, Zenon
  <2> QED BY <1>9, <2>1, <2>2, <2>3, <2>4, <2>5, Zenon DEF Asked
<1>12. PICK z \in Nat : z = 0
  OBVIOUS
<1>13. Between(R, P, base, before, z)'
  <2>1. Cat(chunk', response') = FlattenSeq(Drop(R, z))
    <3>1. FlattenSeq(R) \in Seq(Nat) /\ Drop(R, 0) = R
      BY <1>5, FlattenType, DropEnds
    <3>2. Cat(<<>>, FlattenSeq(R)) = FlattenSeq(R)
      BY <3>1, CatEmpty
    <3> QED BY <1>1, <1>2, <1>10, <1>12, <3>1, <3>2, Zenon
  <2>2. Cat(received', passthrough') = Upto(base, P, z)
    <3>1. SubSeq(P, 1, z) = <<>>
      <4>1. z \in 0..Len(P)
        BY <1>7, <1>12
      <4>2. SubSeq(P, 1, z) \in Seq(Seq(Nat)) /\ Len(SubSeq(P, 1, z)) = 0
        BY <1>7, <1>12, <4>1, TakeProperties
      <4> QED BY <4>2, EmptySeq
    <3>2. Cat(base, <<>>) = base
      BY CatEmpty
    <3> QED BY <1>2, <1>8, <1>10, <3>1, <3>2, FlattenEmpty, Zenon DEF Upto
  <2>3. \A i : i \notin 1..z
    BY <1>12
  <2>4. StatusSeen(R, z, before, lastSeen')
    BY <1>2, <1>8, <2>3, Zenon DEF StatusSeen
  <2>5. ~ErrorIn(R, z)
    BY <2>3, Zenon DEF ErrorIn
  <2>6. Awaited(R, z)' <=> mode' = "copy-in"
    BY <2>3, Zenon DEF Awaited
  <2>7. dropNext' <=> Awaited(R, z)'
    BY <1>2, <2>6, Zenon
  <2> QED BY <1>2, <2>1, <2>2, <2>4, <2>5, <2>7, Zenon DEF Between
<1>14. z \in 0..Len(R)
  BY <1>5, <1>12, LenProperties
<1>15. Answering(R, P, base, before, z)'
  BY <1>13, Zenon DEF Answering
<1> QED BY <1>5, <1>7, <1>9, <1>11, <1>14, <1>15, Zenon DEF BeingAnswered

\* Between calls the client has everything, whatever the duplex answers by itself.
LEMMA AtRestKept ==
    ASSUME AtRest, received' = expected', chunk' = chunk, passthrough' = passthrough,
           errSeen' = errSeen, lastSeen' = lastSeen, calls' = calls
    PROVE  AtRest'
<1>1. LastStatus' = LastStatus
  BY DEF LastStatus
<1>2. Errored(Last(calls).reply)' <=> Errored(Last(calls).reply)
  BY DEF Errored
<1> QED BY <1>1, <1>2, Zenon DEF AtRest

\* The steps that concern no answer.
LEMMA AnswerInvKept ==
    ASSUME TypeInv, AnswerInv, at \in {"idle", "wrote", "draining", "failed"},
           UNCHANGED <<framerVars, calls, expected>>,
           \/ at' \in {"idle", "wrote", "draining"} /\ at # "failed"
           \/ at' = "failed"
    PROVE  AnswerInv'
<1>1. /\ received' = received /\ chunk' = chunk /\ passthrough' = passthrough /\ errSeen' = errSeen
      /\ lastSeen' = lastSeen /\ calls' = calls /\ expected' = expected
  BY DEF framerVars
<1>2. at # "failed" => AtRest /\ AtRest'
  <2>1. at # "failed" => AtRest
    BY Zenon DEF AnswerInv
  <2>2. ASSUME AtRest PROVE AtRest'
    <3>1. received' = expected'
      BY <1>1, <2>2, Zenon DEF AtRest
    <3> QED BY <1>1, <2>2, <3>1, AtRestKept
  <2> QED BY <2>1, <2>2
<1>3. Starts(received, expected)
  <2>1. ASSUME AtRest PROVE Starts(received, expected)
    <3>1. received = Cat(received, <<>>) /\ <<>> \in Seq(Nat)
      BY CatEmpty, EmptySeq DEF TypeInv, FramerOK, FramerTypes
    <3> QED BY <2>1, <3>1, Zenon DEF AtRest, Starts
  <2> QED BY <1>2, <2>1, Zenon DEF AnswerInv
<1>4. Starts(received, expected)'
  BY <1>1, <1>3, Zenon DEF Starts
<1>5. \E S : calls' \in Seq(S)
  BY <1>1, Zenon DEF AnswerInv
<1>6. at' # "calling"
  OBVIOUS
<1>7. at' \in {"idle", "wrote", "draining"} => AtRest'
  <2>1. "failed" \notin {"idle", "wrote", "draining"}
    OBVIOUS
  <2> QED BY <1>2, <2>1, Zenon
<1> QED BY <1>4, <1>5, <1>6, <1>7, Zenon DEF AnswerInv

\* Taking a message starts a call, is answered by the duplex itself, or is not answered.
LEMMA AnswerInvProcess == TypeInv /\ AnswerInv /\ Process => AnswerInv'
<1> SUFFICES ASSUME TypeInv, AnswerInv, Process PROVE AnswerInv'
  OBVIOUS
<1>1. PICK message : message = NextMessage.message
  OBVIOUS
<1>2. at = "draining" /\ (processPreStartup \/ processMessage(message))
  BY <1>1 DEF Process
<1>3. PICK S : calls \in Seq(S)
  BY Zenon DEF AnswerInv
<1>4. FramerOK /\ AtRest
  BY <1>2, Zenon DEF TypeInv, AnswerInv
<1>5. ASSUME NEW sent, NEW rfqMode \in Modes, streamProtocol(sent, rfqMode) PROVE AnswerInv'
  <2>1. (\E T : calls' \in Seq(T)) /\ BeingAnswered'
    BY <1>3, <1>4, <1>5, streamProtocolAnswers
  <2>2. at' = "calling"
    BY <1>5, Zenon DEF streamProtocol
  <2>3. "calling" \notin {"idle", "wrote", "draining"} /\ "calling" # "failed"
    OBVIOUS
  <2> QED BY <2>1, <2>2, <2>3, Zenon DEF AnswerInv
<1>6. ASSUME NEW bytes, Push(bytes) PROVE AnswerInv'
  <2>1. /\ received' = received \o bytes /\ expected' = expected \o bytes /\ chunk' = chunk
        /\ passthrough' = passthrough /\ errSeen' = errSeen /\ lastSeen' = lastSeen
        /\ calls' = calls /\ at' = at
    BY <1>6 DEF Push
  <2>2. received' = expected'
    BY <1>4, <2>1, Zenon DEF AtRest
  <2>3. AtRest'
    BY <1>4, <2>1, <2>2, AtRestKept
  <2>4. at' = "draining" /\ "draining" # "calling" /\ "draining" # "failed"
    BY <1>2, <2>1
  <2> QED BY <1>3, <2>1, <2>3, <2>4, Zenon DEF AnswerInv
<1>7. ASSUME UNCHANGED <<framerVars, calls, expected>>, at' \in {"idle", "draining", "failed"}
      PROVE  AnswerInv'
  BY <1>2, <1>7, AnswerInvKept
<1>8. /\ "passthrough" \in Modes /\ "suppress" \in Modes /\ "flush-boundary" \in Modes
      /\ "copy-in" \in Modes
  BY DEF Modes
<1>9. ASSUME NoCall PROVE AnswerInv'
  <2>1. UNCHANGED <<framerVars, calls, expected>> /\ at' = at
    BY <1>9, Zenon DEF NoCall
  <2> QED BY <1>2, <1>7, <2>1
<1>10. CASE processPreStartup
  <2>1. \E sent : streamProtocol(sent, "passthrough")
    BY <1>10, Zenon DEF processPreStartup
  <2> QED BY <1>5, <1>8, <2>1
<1>11. CASE Terminate(message)
  BY <1>7, <1>11 DEF Terminate
<1>12. CASE CopyData(message)
  BY <1>9, <1>12, Zenon DEF CopyData
<1>13. CASE CopyEnd(message)
  <2>1. \/ Push(SyntheticError \o SyntheticReadyForQuery)
        \/ \E sent : streamProtocol(sent, "copy-in")
    BY <1>13 DEF CopyEnd
  <2> QED BY <1>5, <1>6, <1>8, <2>1
<1>14. CASE Batch(message)
  <2>1. NoCall \/ \E sent, rfqMode : /\ rfqMode \in {"suppress", "flush-boundary"}
                                     /\ streamProtocol(sent, rfqMode)
    BY <1>14 DEF Batch
  <2> QED BY <1>5, <1>8, <1>9, <2>1
<1>15. CASE Standalone(message)
  <2>1. \/ Push(SyntheticCopyInResponse) \/ Push(SyntheticError \o SyntheticReadyForQuery)
        \/ streamProtocol(message, "passthrough")
    BY <1>15, Zenon DEF Standalone
  <2> QED BY <1>5, <1>6, <1>8, <2>1
<1>16. CASE ProtocolViolation(message)
  BY <1>7, <1>16 DEF ProtocolViolation
<1> QED
  BY <1>2, <1>10, <1>11, <1>12, <1>13, <1>14, <1>15, <1>16, Zenon DEF processMessage

\* Every step keeps to the answers.
LEMMA AnswerInvNext ==
    TypeInv /\ FrameInv /\ AnswerInv /\ [WireNext]_wireVars => AnswerInv'
<1> SUFFICES ASSUME TypeInv, FrameInv, AnswerInv, [WireNext]_wireVars PROVE AnswerInv'
  OBVIOUS
<1>1. FramerOK /\ mode \in Modes /\ at \in {"idle", "wrote", "draining", "calling", "failed"}
  BY DEF TypeInv, FrameInv
<1>2. PICK S : calls \in Seq(S)
  BY Zenon DEF AnswerInv
<1>3. ASSUME at = "calling", NEW R \in Seq(Seq(Nat)), NEW P \in Seq(Seq(Nat)),
             NEW base \in Seq(Nat),
             NEW before \in Nat, Asked(R, P, base, before), at' = "calling",
             UNCHANGED <<calls, mode, suppress, rewrites, expected>>,
             \E j \in 0..Len(R) : Answering(R, P, base, before, j)'
      PROVE  AnswerInv'
  <2>1. Asked(R, P, base, before)'
    BY <1>3, AskedKept
  <2>2. BeingAnswered'
    BY <1>3, <2>1, Zenon DEF BeingAnswered
  <2>3. calls' = calls /\ "calling" \notin {"idle", "wrote", "draining"} /\ "calling" # "failed"
    BY <1>3
  <2> QED BY <1>2, <1>3, <2>2, <2>3, Zenon DEF AnswerInv
<1>4. ASSUME at = "calling"
      PROVE  \E R, P \in Seq(Seq(Nat)), base \in Seq(Nat), before \in Nat :
                 /\ Asked(R, P, base, before)
                 /\ \E j \in 0..Len(R) : Answering(R, P, base, before, j)
  BY <1>4, Zenon DEF AnswerInv, BeingAnswered
<1>5. CASE Write
  <2>1. UNCHANGED <<framerVars, calls, expected>> /\ at \in {"idle", "wrote"} /\ at' = "wrote"
    BY <1>5, Zenon DEF Write, historyVars
  <2> QED BY <2>1, AnswerInvKept
<1>6. CASE Drain
  <2>1. UNCHANGED <<framerVars, calls, expected>> /\ at = "wrote" /\ at' = "draining"
    BY <1>6, Zenon DEF Drain, historyVars
  <2> QED BY <2>1, AnswerInvKept
<1>7. CASE Process
  BY <1>7, AnswerInvProcess
<1>8. CASE Await
  <2>1. UNCHANGED <<framerVars, calls, expected>> /\ at = "draining" /\ at' = "idle"
    BY <1>8, Zenon DEF Await, historyVars
  <2> QED BY <2>1, AnswerInvKept
<1>9. CASE Refuse
  <2>1. UNCHANGED <<framerVars, calls, expected>> /\ at = "draining" /\ at' = "failed"
    BY <1>9, Zenon DEF Refuse, Fails, historyVars
  <2> QED BY <2>1, AnswerInvKept
<1>10. CASE Deliver
  <2>1. /\ at = "calling" /\ chunk = <<>> /\ at' = at /\ calls' = calls /\ expected' = expected
        /\ suppress' = suppress /\ rewrites' = rewrites /\ perFrame' = perFrame /\ held' = held
        /\ rowDesc' = rowDesc /\ dropNext' = dropNext /\ passthrough' = passthrough
        /\ received' = received /\ errSeen' = errSeen /\ lastSeen' = lastSeen /\ mode' = mode
    BY <1>10, Zenon DEF Deliver, historyVars
  <2>2. PICK n \in 1..Len(response) :
            chunk' = SubSeq(response, 1, n) /\ response' = SubSeq(response, n + 1, Len(response))
    BY <1>10 DEF Deliver
  <2>3. PICK R, P \in Seq(Seq(Nat)), base \in Seq(Nat), before \in Nat :
            /\ Asked(R, P, base, before)
            /\ \E j \in 0..Len(R) : Answering(R, P, base, before, j)
    BY <1>4, <2>1
  <2>4. PICK j \in 0..Len(R) : Answering(R, P, base, before, j)
    BY <2>3
  <2>5. Cat(chunk', response') = Cat(chunk, response)
    <3>1. response \in Seq(Nat)
      BY <1>1 DEF FramerOK, FramerTypes
    <3>2. n \in Nat /\ 0 <= n /\ n <= Len(response) /\ 0 \in Nat
      BY <3>1, LenProperties
    <3>3. Drop(response, 0) = Cat(Piece(response, 0, n), Drop(response, n))
      BY <3>1, <3>2, PieceProperties
    <3>4. chunk' = Piece(response, 0, n) /\ response' = Drop(response, n)
      BY <2>2 DEF Piece, Drop
    <3>5. Drop(response, 0) = response /\ Cat(<<>>, response) = response
      BY <3>1, RunEnds, CatEmpty
    <3> QED BY <2>1, <3>3, <3>4, <3>5, Zenon
  <2>6. Answering(R, P, base, before, j)'
    BY <1>1, <2>1, <2>4, <2>5, AnsweringKept
  <2> QED BY <1>3, <2>1, <2>3, <2>6
<1>11. CASE FrameChunk
  <2>1. /\ at = "calling" /\ write /\ at' = at /\ calls' = calls /\ expected' = expected
        /\ mode' = mode /\ response' = response
    BY <1>11, Zenon DEF FrameChunk, duplexVars, historyVars
  <2>2. suppress' = suppress /\ rewrites' = rewrites
    BY <2>1, Zenon DEF write, WholeFrame, FrameStart, HeaderPart, HeaderEnd, RfqPayload, Payload,
                       WriteEnd
  <2>3. PICK R, P \in Seq(Seq(Nat)), base \in Seq(Nat), before \in Nat :
            /\ Asked(R, P, base, before)
            /\ \E j \in 0..Len(R) : Answering(R, P, base, before, j)
    BY <1>4, <2>1
  <2>4. PICK j \in 0..Len(R) : Answering(R, P, base, before, j)
    BY <2>3
  <2>5. \E k \in 0..Len(R) : Answering(R, P, base, before, k)'
    BY <1>1, <2>1, <2>3, <2>4, writeAnswers
  <2> QED BY <1>3, <2>1, <2>2, <2>3, <2>5
<1>12. CASE Return
  <2>1. at = "calling" /\ at' = "draining" /\ calls' = calls
    BY <1>12, Zenon DEF Return, historyVars
  <2>2. PICK R, P \in Seq(Seq(Nat)), base \in Seq(Nat), before \in Nat :
            /\ Asked(R, P, base, before)
            /\ \E j \in 0..Len(R) : Answering(R, P, base, before, j)
    BY <1>4, <2>1
  <2>3. PICK j \in 0..Len(R) : Answering(R, P, base, before, j)
    BY <2>2
  <2>4. AtRest'
    BY <1>1, <1>12, <2>2, <2>3, ReturnAnswers
  <2>5. "draining" # "calling" /\ "draining" # "failed"
    OBVIOUS
  <2> QED BY <1>2, <2>1, <2>4, <2>5, Zenon DEF AnswerInv
<1>13. CASE CallFails
  <2>1. /\ at = "calling" /\ at' = "failed" /\ calls' = calls /\ received' = received
        /\ expected' = expected
    BY <1>13, Zenon DEF CallFails, Fails, historyVars, framerVars
  <2>2. PICK R, P \in Seq(Seq(Nat)), base \in Seq(Nat), before \in Nat :
            /\ Asked(R, P, base, before)
            /\ \E j \in 0..Len(R) : Answering(R, P, base, before, j)
    BY <1>4, <2>1
  <2>3. PICK j \in 0..Len(R) : Answering(R, P, base, before, j)
    BY <2>2
  <2>4. Starts(received, expected)
    BY <1>1, <2>2, <2>3, AnsweringStarts
  <2>5. Starts(received, expected)'
    BY <2>1, <2>4, Zenon DEF Starts
  <2>6. "failed" \notin {"idle", "wrote", "draining"} /\ "failed" # "calling"
    OBVIOUS
  <2> QED BY <1>2, <2>1, <2>5, <2>6, Zenon DEF AnswerInv
<1>14. CASE UNCHANGED wireVars
  <2>1. UNCHANGED <<framerVars, calls, expected>> /\ at' = at
    BY <1>14, Zenon DEF wireVars, duplexVars, historyVars
  <2>2. CASE at # "calling"
    BY <1>1, <2>1, <2>2, AnswerInvKept
  <2>3. CASE at = "calling"
    <3>1. /\ suppress' = suppress /\ rewrites' = rewrites /\ perFrame' = perFrame /\ held' = held
          /\ rowDesc' = rowDesc /\ dropNext' = dropNext /\ passthrough' = passthrough
          /\ received' = received /\ errSeen' = errSeen /\ lastSeen' = lastSeen /\ mode' = mode
          /\ chunk' = chunk /\ response' = response /\ calls' = calls /\ expected' = expected
      BY <1>14, Zenon DEF wireVars, duplexVars, historyVars, framerVars
    <3>2. PICK R, P \in Seq(Seq(Nat)), base \in Seq(Nat), before \in Nat :
              /\ Asked(R, P, base, before)
              /\ \E j \in 0..Len(R) : Answering(R, P, base, before, j)
      BY <1>4, <2>3
    <3>3. PICK j \in 0..Len(R) : Answering(R, P, base, before, j)
      BY <3>2
    <3>4. Answering(R, P, base, before, j)'
      BY <1>1, <3>1, <3>3, AnsweringKept
    <3> QED BY <1>3, <2>1, <2>3, <3>1, <3>2, <3>4
  <2> QED BY <2>2, <2>3
<1> QED
  BY <1>5, <1>6, <1>7, <1>8, <1>9, <1>10, <1>11, <1>12, <1>13, <1>14, Zenon DEF WireNext

\* Nothing was asked.
LEMMA AnswerInvInit == WireInit => AnswerInv
<1>1. HAVE WireInit
<1>2. /\ chunk = <<>> /\ passthrough = <<>> /\ received = <<>> /\ expected = <<>> /\ calls = <<>>
      /\ lastSeen = RFQ_STATUS_IDLE /\ at = "idle"
  BY <1>1, Zenon DEF WireInit, FramerInit
<1>3. LastStatus = RFQ_STATUS_IDLE
  <2>1. DOMAIN calls = {}
    BY <1>2
  <2> QED BY <2>1 DEF LastStatus
<1>4. AtRest
  BY <1>2, <1>3, Zenon DEF AtRest
<1>5. \E S : calls \in Seq(S)
  <2>1. calls \in Seq(Nat)
    BY <1>2, EmptySeq
  <2> QED BY <2>1
<1>6. at # "calling" /\ at # "failed"
  BY <1>2
<1> QED BY <1>4, <1>5, <1>6, Zenon DEF AnswerInv

\* What the invariants say of the client's bytes.
LEMMA AnswersFollow == FrameInv /\ TypeInv /\ AnswerInv => AnswersFaithful
<1> SUFFICES ASSUME FrameInv, TypeInv, AnswerInv PROVE AnswersFaithful
  OBVIOUS
<1>1. FramerOK /\ mode \in Modes /\ at \in {"idle", "wrote", "draining", "calling", "failed"}
  BY DEF TypeInv, FrameInv
<1>2. received \in Seq(Nat)
  BY <1>1 DEF FramerOK, FramerTypes
<1>3. at \notin {"calling", "failed"} => AtRest
  BY <1>1, Zenon DEF AnswerInv
<1>4. Starts(received, expected)
  <2>1. CASE AtRest
    <3>1. received = Cat(received, <<>>) /\ <<>> \in Seq(Nat)
      BY <1>2, CatEmpty, EmptySeq
    <3> QED BY <2>1, <3>1, Zenon DEF AtRest, Starts
  <2>2. CASE at = "calling"
    <3>1. PICK R, P \in Seq(Seq(Nat)), base \in Seq(Nat), before \in Nat :
              /\ Asked(R, P, base, before)
              /\ \E j \in 0..Len(R) : Answering(R, P, base, before, j)
      BY <2>2, Zenon DEF AnswerInv, BeingAnswered
    <3>2. PICK j \in 0..Len(R) : Answering(R, P, base, before, j)
      BY <3>1
    <3> QED BY <1>1, <3>1, <3>2, AnsweringStarts
  <2> QED BY <1>1, <1>3, <2>1, <2>2, Zenon DEF AnswerInv
<1>5. IsPrefix(received, expected)
  <2>1. PICK u \in Seq(Nat) : expected = Cat(received, u)
    BY <1>4 DEF Starts
  <2>2. /\ Len(expected) = Len(received) + Len(u) /\ Len(received) \in Nat /\ Len(u) \in Nat
        /\ expected \in Seq(Nat)
    BY <1>2, <2>1, CatProperties
  <2>3. Piece(expected, 0, Len(received)) = received
    BY <1>2, <2>1, CatParts
  <2>4. Piece(received, 0, Len(received)) = received
    BY <1>2, RunEnds
  <2>5. SubSeq(received, 1, Len(received)) = SubSeq(expected, 1, Len(received))
    BY <2>3, <2>4 DEF Piece
  <2>6. Len(received) <= Len(expected)
    BY <2>2
  <2> QED BY <2>5, <2>6, Zenon DEF IsPrefix
<1> QED BY <1>3, <1>5, Zenon DEF AnswersFaithful, AtRest

\* Whatever the chunks of the client's bytes and of PGlite's answers, the client gets the
\* answers in order, less what their mode withholds, and between calls it has all of them and
\* the duplex their last status and error (streamProtocol, backend-framer.ts).
THEOREM AnswersStayFaithful == WireSpec => []AnswersFaithful
<1>1. WireSpec => [](FrameInv /\ TypeInv)
  <2>1. WireSpec => []FrameInv
    BY FrameInvInit, FrameInvNext, PTL DEF WireSpec
  <2> QED BY <2>1, TypeInvInit, TypeInvNext, PTL DEF WireSpec
<1>2. WireSpec => [](FrameInv /\ TypeInv /\ AnswerInv)
  BY <1>1, AnswerInvInit, AnswerInvNext, PTL DEF WireSpec
<1> QED BY <1>2, AnswersFollow, PTL
=============================================================================
