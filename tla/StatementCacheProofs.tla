------------------------ MODULE StatementCacheProofs ------------------------
(***************************************************************************)
(* Proofs about StatementCache, for any set of clients and texts, any      *)
(* capacity and any number of calls: a name stands for one text for ever,  *)
(* the clients' books describe the session, a Bind without Parse meets its *)
(* statement, evicted names are freed.                                     *)
(***************************************************************************)
EXTENDS StatementCache, SequenceTheorems, FiniteSetTheorems, TLAPS

-----------------------------------------------------------------------------
(* Sequences as the sets of what they hold. *)

\* A sequence holds its head; an empty one holds nothing.
LEMMA HeldBy ==
    ASSUME NEW S, NEW s \in Seq(S)
    PROVE  /\ ToSet(s) = {s[i] : i \in 1..Len(s)} /\ ToSet(s) \subseteq S
           /\ s = <<>> => ToSet(s) = {}
           /\ s # <<>> => /\ Len(s) \in Nat \ {0} /\ Head(s) = s[1]
                          /\ Head(s) \in ToSet(s)
BY DEF ToSet

\* Append adds one element, at the end.
LEMMA AppendHolds ==
    ASSUME NEW S, NEW s \in Seq(S), NEW e \in S
    PROVE  /\ Append(s, e) \in Seq(S) /\ Append(s, e) # <<>>
           /\ Len(Append(s, e)) = Len(s) + 1
           /\ \A i \in 1..Len(s) : Append(s, e)[i] = s[i]
           /\ Append(s, e)[Len(s) + 1] = e
           /\ ToSet(Append(s, e)) = ToSet(s) \cup {e}
           /\ Head(Append(s, e)) = IF s = <<>> THEN e ELSE Head(s)
<1>1. /\ Append(s, e) \in Seq(S) /\ Append(s, e) # <<>>
      /\ Len(Append(s, e)) = Len(s) + 1
      /\ \A i \in 1..Len(s) : Append(s, e)[i] = s[i]
      /\ Append(s, e)[Len(s) + 1] = e
  BY AppendProperties
<1>2. Len(s) \in Nat
  OBVIOUS
<1>3. ToSet(Append(s, e)) = ToSet(s) \cup {e}
  <2>1. ToSet(Append(s, e)) = {Append(s, e)[i] : i \in 1..(Len(s) + 1)}
    BY <1>1, HeldBy
  <2>2. ToSet(s) = {s[i] : i \in 1..Len(s)}
    BY HeldBy
  <2> QED BY <2>1, <2>2, <1>1, <1>2
<1> QED BY <1>1, <1>3, HeadTailAppend

\* Two sequences hold together what each of them holds.
LEMMA ConcatHolds ==
    ASSUME NEW S, NEW s \in Seq(S), NEW t \in Seq(S)
    PROVE  s \o t \in Seq(S) /\ ToSet(s \o t) = ToSet(s) \cup ToSet(t)
<1>1. /\ s \o t \in Seq(S) /\ Len(s \o t) = Len(s) + Len(t)
      /\ \A i \in 1..(Len(s) + Len(t)) :
            (s \o t)[i] = IF i <= Len(s) THEN s[i] ELSE t[i - Len(s)]
  BY ConcatProperties
<1>2. Len(s) \in Nat /\ Len(t) \in Nat
  OBVIOUS
<1>3. /\ ToSet(s \o t) = {(s \o t)[i] : i \in 1..(Len(s) + Len(t))}
      /\ ToSet(s) = {s[i] : i \in 1..Len(s)} /\ ToSet(t) = {t[i] : i \in 1..Len(t)}
  <2>1. ToSet(s \o t) = {(s \o t)[i] : i \in 1..Len(s \o t)}
    BY <1>1, HeldBy
  <2>2. ToSet(s) = {s[i] : i \in 1..Len(s)} /\ ToSet(t) = {t[i] : i \in 1..Len(t)}
    BY HeldBy
  <2> QED BY <1>1, <2>1, <2>2
<1>4. ToSet(s \o t) \subseteq ToSet(s) \cup ToSet(t)
  BY <1>1, <1>2, <1>3
<1>5. ASSUME NEW i \in 1..Len(s) PROVE s[i] \in ToSet(s \o t)
  <2>1. i \in 1..(Len(s) + Len(t)) /\ (s \o t)[i] = s[i]
    BY <1>1, <1>2
  <2> QED BY <1>3, <2>1
<1>6. ASSUME NEW i \in 1..Len(t) PROVE t[i] \in ToSet(s \o t)
  <2>1. /\ Len(s) + i \in 1..(Len(s) + Len(t)) /\ ~(Len(s) + i <= Len(s))
        /\ (Len(s) + i) - Len(s) = i
    BY <1>2
  <2>2. (s \o t)[Len(s) + i] = t[i]
    BY <1>1, <2>1
  <2> QED BY <1>3, <2>1, <2>2
<1> QED BY <1>1, <1>3, <1>4, <1>5, <1>6

\* Tail drops the head.
LEMMA TailHolds ==
    ASSUME NEW S, NEW s \in Seq(S), s # <<>>
    PROVE  /\ Tail(s) \in Seq(S) /\ Len(Tail(s)) = Len(s) - 1
           /\ \A i \in 1..Len(Tail(s)) : Tail(s)[i] = s[i + 1]
           /\ ToSet(Tail(s)) \subseteq ToSet(s)
           /\ ToSet(s) = ToSet(Tail(s)) \cup {Head(s)}
<1>1. /\ Tail(s) \in Seq(S) /\ Len(Tail(s)) = Len(s) - 1
      /\ \A i \in 1..Len(Tail(s)) : Tail(s)[i] = s[i + 1]
  BY HeadTailProperties
<1>2. Len(s) \in Nat \ {0} /\ Head(s) = s[1]
  BY HeldBy
<1>3. /\ ToSet(s) = {s[i] : i \in 1..Len(s)}
      /\ ToSet(Tail(s)) = {Tail(s)[i] : i \in 1..(Len(s) - 1)}
  BY <1>1, HeldBy
<1>4. ToSet(Tail(s)) \subseteq ToSet(s)
  BY <1>1, <1>2, <1>3
<1>5. ASSUME NEW i \in 1..Len(s), i # 1 PROVE s[i] \in ToSet(Tail(s))
  <2>1. i - 1 \in 1..(Len(s) - 1) /\ (i - 1) + 1 = i
    BY <1>2, <1>5
  <2> QED BY <1>1, <1>3, <2>1
<1> QED BY <1>1, <1>2, <1>3, <1>4, <1>5

\* RemoveAt drops one element; the others keep their order.
LEMMA RemoveAtHolds ==
    ASSUME NEW S, NEW s \in Seq(S), NEW k \in 1..Len(s)
    PROVE  /\ RemoveAt(s, k) \in Seq(S) /\ Len(RemoveAt(s, k)) = Len(s) - 1
           /\ \A i \in 1..(Len(s) - 1) : RemoveAt(s, k)[i] = IF i < k THEN s[i] ELSE s[i + 1]
           /\ ToSet(RemoveAt(s, k)) \subseteq ToSet(s)
           /\ ToSet(s) = ToSet(RemoveAt(s, k)) \cup {s[k]}
           /\ k # 1 => RemoveAt(s, k) # <<>> /\ Head(RemoveAt(s, k)) = Head(s)
<1>1. Len(s) \in Nat \ {0} /\ k \in Nat \ {0} /\ k <= Len(s)
  OBVIOUS
<1>2. \A i \in 1..Len(s) : s[i] \in S
  OBVIOUS
<1>3. /\ SubSeq(s, 1, k - 1) \in Seq(S) /\ Len(SubSeq(s, 1, k - 1)) = k - 1
      /\ \A i \in 1..(k - 1) : SubSeq(s, 1, k - 1)[i] = s[i]
  <2>1. \A i \in 1..(k - 1) : s[i] \in S
    BY <1>1, <1>2
  <2> QED BY <1>1, <2>1, SubSeqProperties
<1>4. /\ SubSeq(s, k + 1, Len(s)) \in Seq(S) /\ Len(SubSeq(s, k + 1, Len(s))) = Len(s) - k
      /\ \A i \in 1..(Len(s) - k) : SubSeq(s, k + 1, Len(s))[i] = s[k + i]
  <2>1. \A i \in (k + 1)..Len(s) : s[i] \in S
    BY <1>1, <1>2
  <2>2. /\ SubSeq(s, k + 1, Len(s)) \in Seq(S)
        /\ Len(SubSeq(s, k + 1, Len(s))) = IF k + 1 <= Len(s) THEN Len(s) - (k + 1) + 1 ELSE 0
        /\ \A i \in 1..(Len(s) - (k + 1) + 1) : SubSeq(s, k + 1, Len(s))[i] = s[k + 1 + i - 1]
    BY <1>1, <2>1, SubSeqProperties
  <2> QED BY <1>1, <2>2
<1>5. /\ RemoveAt(s, k) \in Seq(S) /\ Len(RemoveAt(s, k)) = Len(s) - 1
      /\ \A i \in 1..(Len(s) - 1) : RemoveAt(s, k)[i] = IF i < k THEN s[i] ELSE s[i + 1]
  <2> DEFINE p == SubSeq(s, 1, k - 1)
             q == SubSeq(s, k + 1, Len(s))
  <2>1. RemoveAt(s, k) = p \o q
    BY DEF RemoveAt
  <2>2. /\ p \o q \in Seq(S) /\ Len(p \o q) = Len(p) + Len(q)
        /\ \A i \in 1..(Len(p) + Len(q)) :
              (p \o q)[i] = IF i <= Len(p) THEN p[i] ELSE q[i - Len(p)]
    BY <1>3, <1>4, ConcatProperties
  <2> HIDE DEF p, q
  <2>3. /\ Len(p) = k - 1 /\ Len(q) = Len(s) - k
        /\ \A i \in 1..(k - 1) : p[i] = s[i]
        /\ \A i \in 1..(Len(s) - k) : q[i] = s[k + i]
    BY <1>3, <1>4 DEF p, q
  <2>4. Len(p) + Len(q) = Len(s) - 1
    BY <1>1, <2>3
  <2>5. ASSUME NEW i \in 1..(Len(s) - 1)
        PROVE  (p \o q)[i] = IF i < k THEN s[i] ELSE s[i + 1]
    <3>1. CASE i < k
      BY <1>1, <2>2, <2>3, <2>4, <3>1
    <3>2. CASE ~(i < k)
      <4>1. /\ ~(i <= Len(p)) /\ i - Len(p) \in 1..(Len(s) - k) /\ k + (i - Len(p)) = i + 1
        BY <1>1, <2>3, <3>2
      <4> QED BY <2>2, <2>3, <2>4, <3>2, <4>1
    <3> QED BY <3>1, <3>2
  <2> QED BY <2>1, <2>2, <2>4, <2>5
<1>6. /\ ToSet(s) = {s[i] : i \in 1..Len(s)}
      /\ ToSet(RemoveAt(s, k)) = {RemoveAt(s, k)[i] : i \in 1..(Len(s) - 1)}
  BY <1>5, HeldBy
<1>7. ToSet(RemoveAt(s, k)) \subseteq ToSet(s)
  BY <1>1, <1>5, <1>6
<1>8. ASSUME NEW i \in 1..Len(s), i # k PROVE s[i] \in ToSet(RemoveAt(s, k))
  <2>1. CASE i < k
    BY <1>1, <1>5, <1>6, <2>1
  <2>2. CASE i > k
    <3>1. i - 1 \in 1..(Len(s) - 1) /\ ~(i - 1 < k) /\ (i - 1) + 1 = i
      BY <1>1, <2>2
    <3> QED BY <1>5, <1>6, <3>1
  <2> QED BY <1>1, <1>8, <2>1, <2>2
<1>9. ASSUME k # 1 PROVE RemoveAt(s, k) # <<>> /\ Head(RemoveAt(s, k)) = Head(s)
  <2>1. 1 \in 1..(Len(s) - 1) /\ 1 < k
    BY <1>1, <1>9
  <2>2. Len(RemoveAt(s, k)) # 0 /\ RemoveAt(s, k)[1] = s[1]
    BY <1>5, <2>1
  <2>3. RemoveAt(s, k) # <<>>
    BY <2>2
  <2> QED BY <1>1, <1>5, <2>2, <2>3, HeldBy
<1> QED BY <1>5, <1>6, <1>7, <1>8, <1>9

\* Deleting the entry of a text leaves the other entries.
LEMMA OthersHolds ==
    ASSUME NEW S, NEW s \in Seq(S), NEW text
    PROVE  /\ Others(s, text) \in Seq(S) /\ Len(Others(s, text)) <= Len(s)
           /\ ToSet(Others(s, text)) \subseteq ToSet(s)
           /\ \A e \in ToSet(s) : e.text # text => e \in ToSet(Others(s, text))
           /\ (\E e \in ToSet(s) : e.text = text) => Len(Others(s, text)) = Len(s) - 1
<1>1. ToSet(s) = {s[k] : k \in 1..Len(s)} /\ Len(s) \in Nat
  BY HeldBy
<1>2. CASE \E k \in 1..Len(s) : s[k].text = text
  <2> DEFINE k == CHOOSE k \in 1..Len(s) : s[k].text = text
  <2>1. k \in 1..Len(s) /\ s[k].text = text
    BY <1>2
  <2>2. Others(s, text) = RemoveAt(s, k)
    BY <1>2 DEF Others
  <2> HIDE DEF k
  <2>3. /\ RemoveAt(s, k) \in Seq(S) /\ Len(RemoveAt(s, k)) = Len(s) - 1
        /\ ToSet(RemoveAt(s, k)) \subseteq ToSet(s)
        /\ ToSet(s) = ToSet(RemoveAt(s, k)) \cup {s[k]}
    BY <2>1, RemoveAtHolds
  <2> QED BY <1>1, <2>1, <2>2, <2>3
<1>3. CASE ~\E k \in 1..Len(s) : s[k].text = text
  <2>1. Others(s, text) = s
    BY <1>3 DEF Others
  <2> QED BY <1>1, <1>3, <2>1
<1> QED BY <1>2, <1>3

-----------------------------------------------------------------------------
(* The invariant. *)

\* A query that carries a name stands for a text of the program.
NamedOK(q) == q.kind = "named" => q.name \in GivenNames /\ q.text \in Texts

\* Beyond CacheTypeOK: named queries are named, names are numbered by calls, and
\* a client closes its own names only.
FieldsInv == \A c \in Clients :
                /\ \A q \in ToSet(chain[c]) : NamedOK(q)
                /\ seq[c] <= calls
                /\ \A n \in ToSet(pendingCloses[c]) \cup Closing(c) : n.by = c

\* A batch in the line is the head of its live client's chain; the Closes that the
\* duplex held back went with it, or wait because it is not extended.
BatchOK(b) == /\ phase[b.by] = "live" /\ evicting.by # b.by
              /\ chain[b.by] # <<>> /\ b.query = Head(chain[b.by])
              /\ IF Extended(b.query) THEN pipeline[b.by] = <<>> ELSE b.closes = <<>>

\* Who is not live has nothing under way, and who is new has done nothing.
PhaseOK(c) == /\ phase[c] # "live" => chain[c] = <<>> /\ holder # c /\ evicting.by # c
              /\ phase[c] = "new" => seq[c] = 0 /\ fieldsCache[c] = {}

\* The clients that liveClientCount counts.
Counted == {c \in Clients : phase[c] \in {"live", "ended"}}

\* What is in the line, who is under way, who is counted.
LineInv == /\ \A b \in ToSet(line) : BatchOK(b)
           /\ \A c \in Clients : PhaseOK(c)
           /\ evicting.by \in Clients => chain[evicting.by] # <<>>
           /\ evicting.by = Nobody => evicting = noEviction
           /\ liveClientCount = Cardinality(Counted)

\* What client c takes a name to stand for.
ClientUses(c) == parsed[c] \cup {Statement(e) : e \in ToSet(names[c])}
                 \cup {Statement(q) : q \in {p \in ToSet(chain[c]) : p.kind = "named"}}

\* All that a name is taken to stand for.
Uses == prepared \cup UNION {ClientUses(c) : c \in Clients}

\* Every name was given by its client's generator, to one text, and a text has
\* one name at a time.
NamesInv == /\ \A c \in Clients : \A s \in ClientUses(c) : s.name.by = c
            /\ \A s \in Uses : s.name.seq < seq[s.name.by]
            /\ \A s, t \in Uses : s.name = t.name => s.text = t.text
            /\ \A c \in Clients : \A e, f \in ToSet(names[c]) : e.text = f.text => e = f

\* The names that c has not let go, or must still close, or parsed again.
Accounted(c) == {e.name : e \in ToSet(names[c])} \cup ToSet(pendingCloses[c]) \cup revived[c]

\* The books of a live client describe the session: what a DEALLOCATE took and is
\* still in the books is being evicted; what is not in the books is being closed.
BooksOK(c) ==
    /\ \A s \in parsed[c] : /\ s \in prepared \/ Covers(evicting.scope, s.name)
                            /\ s.name \notin Closing(c) /\ s.name \in Accounted(c)
    /\ \A s \in prepared : s.name.by = c => s \in parsed[c] \/ s.name \in Closing(c)
    /\ \A n \in fieldsCache[c] : Known(parsed[c], n)

\* A batch with Parse brings a name that is accounted for; one without binds what
\* the books have, unless it was overtaken.
BindOK(b) == b.query.kind = "named" =>
                IF b.parse THEN b.query.name \in Accounted(b.by)
                ELSE b.raced \/ Statement(b.query) \in parsed[b.by]

\* A DEALLOCATE under way has emptied its scope.
EvictionOK == evicting # noEviction =>
                 /\ \A s \in prepared : ~Covers(evicting.scope, s.name)
                 /\ \A b \in ToSet(line) : Covers(evicting.scope, b.query.name) => b.raced

\* Books, batches and the eviction under way, together.
BooksInv == /\ \A c \in Clients : phase[c] = "live" => BooksOK(c)
            /\ \A b \in ToSet(line) : BindOK(b)
            /\ EvictionOK

\* The wipe of the first client is the head of its chain and of the line, and
\* nobody alive has a statement until it ran.
ConnectInv ==
    /\ \A k \in 1..Len(line) :
          line[k].query.text = "connect"
             => k = 1 /\ holder = Nobody /\ \A s \in prepared : phase[s.name.by] # "live"
    /\ \A c \in Clients : \A i \in 1..Len(chain[c]) :
          chain[c][i].text = "connect" => i = 1 /\ (InLine(c) \/ evicting.by = c)

\* The inductive invariant.
CacheInv == CacheTypeOK /\ FieldsInv /\ LineInv /\ NamesInv /\ BooksInv /\ ConnectInv

-----------------------------------------------------------------------------
(* What a submission does. *)

\* The records that CacheTypeOK speaks of.
BatchType == [by : Clients, query : QueryType, parse : BOOLEAN, closes : Seq(GivenNames),
              raced : BOOLEAN]
EntryType == [text : Texts, name : GivenNames]
CountType == [text : Texts, count : 1..MinUsages]

\* A client has at most one batch in the line.
OneBatch == \A j, k \in 1..Len(line) : line[j].by = line[k].by => j = k

\* What CacheTypeOK says of the variables that a submission changes.
LEMMA TypeFacts ==
    ASSUME CacheTypeOK
    PROVE  /\ prepared \subseteq [name : GivenNames, text : Texts]
           /\ line \in Seq(BatchType) /\ OneBatch
           /\ names \in [Clients -> Seq(EntryType)]
           /\ pendingCloses \in [Clients -> Seq(GivenNames)]
           /\ pipeline \in [Clients -> Seq(GivenNames)]
           /\ parsed \in [Clients -> SUBSET [name : GivenNames, text : Texts]]
           /\ fieldsCache \in [Clients -> SUBSET GivenNames]
           /\ revived \in [Clients -> SUBSET GivenNames]
           /\ chain \in [Clients -> Seq(QueryType)] /\ handed \in [Clients -> BOOLEAN]
           /\ evicting \in [by : Clients \cup {Nobody},
                            scope : GivenNames \cup {unnamed, everything}]
BY DEF CacheTypeOK, BatchType, EntryType, OneBatch

\* The batch that submit appends, and what it does to the client's books.
LEMMA SubmitEffect ==
    ASSUME CacheTypeOK, NEW c \in Clients, NEW q \in QueryType, NEW closes \in Seq(GivenNames),
           NamedOK(q), submit(c, q, closes), names' \in [Clients -> Seq(EntryType)]
    PROVE  /\ parsed' = [parsed EXCEPT ![c] = {s \in parsed[c] : s.name \notin ToSet(closes)}]
           /\ fieldsCache' = [fieldsCache EXCEPT ![c] = fieldsCache[c] \ ToSet(closes)]
           /\ pipeline' \in [Clients -> Seq(GivenNames)]
           /\ \A d \in Clients \ {c} : pipeline'[d] = pipeline[d] /\ revived'[d] = revived[d]
           /\ revived' \in [Clients -> SUBSET GivenNames] /\ revived[c] \subseteq revived'[c]
           /\ \E b \in BatchType :
                 /\ b.by = c /\ b.query = q /\ b.raced = Covers(evicting.scope, q.name)
                 /\ b.parse <=> q.kind = "named" /\ \A s \in parsed'[c] : s.name # q.name
                 /\ b.parse => \/ \E e \in ToSet(names'[c]) : e.name = q.name
                               \/ q.name \in revived'[c]
                 /\ line' = Append(line, b)
                 /\ IF Extended(q) THEN pipeline'[c] = <<>> ELSE b.closes = <<>>
                 /\ ToSet(pipeline'[c]) \cup ToSet(b.closes)
                       = ToSet(pipeline[c]) \cup ToSet(closes)
<1> DEFINE kept == {s \in parsed[c] : s.name \notin ToSet(closes)}
           held == pipeline[c] \o closes
           parse == q.kind = "named" /\ \A s \in kept : s.name # q.name
           unknown == ~\E e \in ToSet(names'[c]) : e.name = q.name
           b == [by |-> c, query |-> q, parse |-> parse,
                 closes |-> IF Extended(q) THEN held ELSE <<>>,
                 raced |-> Covers(evicting.scope, q.name)]
<1>1. /\ pipeline' = [pipeline EXCEPT ![c] = IF Extended(q) THEN <<>> ELSE held]
      /\ parsed' = [parsed EXCEPT ![c] = kept]
      /\ fieldsCache' = [fieldsCache EXCEPT ![c] = fieldsCache[c] \ ToSet(closes)]
      /\ line' = Append(line, b)
      /\ revived' = [revived EXCEPT ![c] = IF parse /\ unknown THEN revived[c] \cup {q.name}
                                           ELSE revived[c]]
  BY DEF submit, Freed
<1>2. /\ held \in Seq(GivenNames) /\ ToSet(held) = ToSet(pipeline[c]) \cup ToSet(closes)
      /\ <<>> \in Seq(GivenNames) /\ ToSet(<<>>) = {}
  <2>1. pipeline[c] \in Seq(GivenNames)
    BY TypeFacts
  <2>2. <<>> \in Seq(GivenNames) /\ ToSet(<<>>) = {}
    BY EmptySeq DEF ToSet
  <2> QED BY <2>1, <2>2, ConcatHolds
<1>3. parse \in BOOLEAN /\ (Covers(evicting.scope, q.name)) \in BOOLEAN
  BY DEF Covers
<1>4. parse => q.name \in GivenNames
  BY DEF NamedOK
<1> HIDE DEF kept, held, parse, unknown
<1>5. b \in BatchType
  BY <1>2, <1>3 DEF BatchType
<1>6. pipeline'[c] = IF Extended(q) THEN <<>> ELSE held
  BY <1>1, TypeFacts
<1>7. parsed'[c] = kept
  BY <1>1, TypeFacts
<1>8. /\ b.by = c /\ b.query = q /\ b.raced = Covers(evicting.scope, q.name)
      /\ b.parse = parse /\ b.closes = IF Extended(q) THEN held ELSE <<>>
  OBVIOUS
<1>9. /\ revived' \in [Clients -> SUBSET GivenNames] /\ revived[c] \subseteq revived'[c]
      /\ parse /\ unknown => q.name \in revived'[c]
      /\ \A d \in Clients \ {c} : pipeline'[d] = pipeline[d] /\ revived'[d] = revived[d]
  BY <1>1, <1>4, TypeFacts
<1>10. pipeline' \in [Clients -> Seq(GivenNames)]
  BY <1>1, <1>2, TypeFacts
<1>11. b.parse => \/ \E e \in ToSet(names'[c]) : e.name = q.name
                  \/ q.name \in revived'[c]
  BY <1>8, <1>9 DEF unknown
<1>12. b.parse <=> q.kind = "named" /\ \A s \in parsed'[c] : s.name # q.name
  BY <1>7, <1>8 DEF parse
<1>13. ToSet(pipeline'[c]) \cup ToSet(b.closes) = ToSet(pipeline[c]) \cup ToSet(closes)
  BY <1>2, <1>6, <1>8
<1>14. IF Extended(q) THEN pipeline'[c] = <<>> ELSE b.closes = <<>>
  BY <1>6, <1>8
<1>15. parsed' = [parsed EXCEPT ![c] = {s \in parsed[c] : s.name \notin ToSet(closes)}]
  BY <1>1 DEF kept
<1> HIDE DEF b
<1> QED BY <1>1, <1>5, <1>8, <1>9, <1>10, <1>11, <1>12, <1>13, <1>14, <1>15

-----------------------------------------------------------------------------
(* Types, by the part of the state that an action changes. *)

\* The books of the clients, the chain and the line.
BookTypes == /\ line \in Seq(BatchType) /\ OneBatch
             /\ pendingCloses \in [Clients -> Seq(GivenNames)]
             /\ pipeline \in [Clients -> Seq(GivenNames)]
             /\ parsed \in [Clients -> SUBSET [name : GivenNames, text : Texts]]
             /\ fieldsCache \in [Clients -> SUBSET GivenNames]
             /\ revived \in [Clients -> SUBSET GivenNames]
             /\ chain \in [Clients -> Seq(QueryType)] /\ handed \in [Clients -> BOOLEAN]

\* The generator.
GenTypes == /\ counts \in [Clients -> Seq(CountType)]
            /\ names \in [Clients -> Seq(EntryType)]
            /\ \A c \in Clients : Len(counts[c]) <= Capacity /\ Len(names[c]) <= Capacity
            /\ seq \in [Clients -> 0..MaxCalls]

\* The session, the phases and the eviction under way.
RestTypes == /\ prepared \subseteq [name : GivenNames, text : Texts]
             /\ holder \in Clients \cup {Nobody}
             /\ phase \in [Clients -> {"new", "live", "ended", "removed"}]
             /\ evicting \in [by : Clients \cup {Nobody},
                              scope : GivenNames \cup {unnamed, everything}]
             /\ calls \in 0..MaxCalls

\* A count of some of the clients is no more than their number.
LEMMA CountBound ==
    ASSUME liveClientCount = Cardinality(Counted)
    PROVE  liveClientCount \in 0..Cardinality(Clients)
<1>1. IsFiniteSet(Clients) /\ Counted \subseteq Clients
  BY CacheAssumption DEF Counted
<1> QED BY <1>1, FS_Subset, FS_CardinalityType

\* CacheTypeOK is these parts, and the count.
LEMMA TypeParts ==
    /\ CacheTypeOK => BookTypes /\ GenTypes /\ RestTypes
    /\ BookTypes /\ GenTypes /\ RestTypes /\ LineInv => CacheTypeOK
<1>1. LineInv => liveClientCount \in 0..Cardinality(Clients)
  BY CountBound DEF LineInv
<1> QED BY <1>1 DEF CacheTypeOK, BookTypes, GenTypes, RestTypes, BatchType, EntryType, CountType,
                OneBatch

\* The same of the state that a step leads to.
LEMMA TypePartsNext ==
    ASSUME BookTypes', GenTypes', RestTypes', LineInv'
    PROVE  CacheTypeOK'
<1>1. liveClientCount' \in 0..Cardinality(Clients)
  <2>1. IsFiniteSet(Clients) /\ Counted' \subseteq Clients
    BY CacheAssumption DEF Counted
  <2>2. liveClientCount' = Cardinality(Counted')
    BY DEF LineInv
  <2> QED BY <2>1, <2>2, FS_Subset, FS_CardinalityType
<1> QED BY <1>1 DEF CacheTypeOK, BookTypes, GenTypes, RestTypes, BatchType, EntryType, CountType,
                OneBatch

\* A batch of a client that has none in the line may be appended.
LEMMA AppendBatch ==
    ASSUME line \in Seq(BatchType), OneBatch, NEW b \in BatchType, ~InLine(b.by),
           line' = Append(line, b)
    PROVE  /\ line' \in Seq(BatchType) /\ OneBatch' /\ ToSet(line') = ToSet(line) \cup {b}
           /\ Len(line') = Len(line) + 1 /\ line'[Len(line) + 1] = b
           /\ \A k \in 1..Len(line) : line'[k] = line[k]
<1>1. /\ line' \in Seq(BatchType) /\ ToSet(line') = ToSet(line) \cup {b}
      /\ Len(line') = Len(line) + 1 /\ line'[Len(line) + 1] = b
      /\ \A k \in 1..Len(line) : line'[k] = line[k]
  BY AppendHolds
<1>2. OneBatch'
  <2>1. Len(line) \in Nat
    OBVIOUS
  <2>2. \A j \in 1..Len(line) : line[j].by # b.by
    BY DEF InLine
  <2>3. ASSUME NEW j \in 1..Len(line'), NEW k \in 1..Len(line'), line'[j].by = line'[k].by
        PROVE  j = k
    <3>1. CASE j \in 1..Len(line) /\ k \in 1..Len(line)
      BY <1>1, <2>3, <3>1 DEF OneBatch
    <3>2. CASE j = Len(line) + 1 \/ k = Len(line) + 1
      BY <1>1, <2>1, <2>2, <2>3, <3>2
    <3> QED BY <1>1, <2>1, <3>1, <3>2
  <2> QED BY <2>3 DEF OneBatch
<1> QED BY <1>1, <1>2

\* One batch may leave the line.
LEMMA RemoveBatch ==
    ASSUME line \in Seq(BatchType), OneBatch, NEW k \in 1..Len(line), line' = RemoveAt(line, k)
    PROVE  /\ line' \in Seq(BatchType) /\ OneBatch' /\ Len(line') = Len(line) - 1
           /\ \A i \in 1..Len(line') : line'[i] = IF i < k THEN line[i] ELSE line[i + 1]
           /\ ToSet(line') = ToSet(line) \ {line[k]}
           /\ line[k] \in ToSet(line)
           /\ \A b \in ToSet(line') : b.by # line[k].by
<1>1. Len(line) \in Nat /\ k \in Nat
  OBVIOUS
<1>2. /\ line' \in Seq(BatchType) /\ Len(line') = Len(line) - 1
      /\ \A i \in 1..Len(line') : line'[i] = IF i < k THEN line[i] ELSE line[i + 1]
      /\ ToSet(line') \subseteq ToSet(line)
      /\ ToSet(line) = ToSet(line') \cup {line[k]}
  <2> DEFINE s == line
  <2>1. s \in Seq(BatchType) /\ k \in 1..Len(s)
    OBVIOUS
  <2> HIDE DEF s
  <2>2. /\ RemoveAt(s, k) \in Seq(BatchType) /\ Len(RemoveAt(s, k)) = Len(s) - 1
        /\ \A i \in 1..(Len(s) - 1) : RemoveAt(s, k)[i] = IF i < k THEN s[i] ELSE s[i + 1]
        /\ ToSet(RemoveAt(s, k)) \subseteq ToSet(s)
        /\ ToSet(s) = ToSet(RemoveAt(s, k)) \cup {s[k]}
    BY <2>1, RemoveAtHolds, SMTT(60)
  <2> QED BY <2>2 DEF s
<1>3. ASSUME NEW i \in 1..Len(line')
      PROVE  \E m \in 1..Len(line) \ {k} : /\ line'[i] = line[m]
                                           /\ m = IF i < k THEN i ELSE i + 1
  BY <1>1, <1>2
<1>4. OneBatch'
  <2>1. ASSUME NEW i \in 1..Len(line'), NEW j \in 1..Len(line'), line'[i].by = line'[j].by
        PROVE  i = j
    <3>1. PICK m \in 1..Len(line) : line'[i] = line[m] /\ m = IF i < k THEN i ELSE i + 1
      BY <1>3
    <3>2. PICK n \in 1..Len(line) : line'[j] = line[n] /\ n = IF j < k THEN j ELSE j + 1
      BY <1>3
    <3>3. m = n
      BY <2>1, <3>1, <3>2 DEF OneBatch
    <3> QED BY <1>1, <1>2, <3>1, <3>2, <3>3
  <2> QED BY <2>1 DEF OneBatch
<1>5. \A b \in ToSet(line') : b.by # line[k].by
  <2>1. ToSet(line') = {line'[i] : i \in 1..Len(line')}
    BY <1>2, HeldBy
  <2> QED BY <1>3, <2>1 DEF OneBatch
<1>6. line[k] \in ToSet(line)
  BY <1>2
<1> QED BY <1>2, <1>4, <1>5, <1>6

-----------------------------------------------------------------------------
(* What a sighting does. *)

\* The names that the generator of c holds.
GeneratorNames(c) == {e.name : e \in ToSet(names[c])}

\* A hit reorders the names.
LEMMA HitEffect ==
    ASSUME CacheTypeOK, NamesInv, NEW c \in Clients, NEW text \in Texts, Named(c, text),
           Hit(c, text)
    PROVE  /\ GenTypes' /\ seq' = seq
           /\ \A d \in Clients : ToSet(names'[d]) = ToSet(names[d])
           /\ [text |-> text, name |-> NameOf(c, text)] \in ToSet(names[c])
<1> DEFINE e == CHOOSE e \in ToSet(names[c]) : e.text = text
           entry == [text |-> text, name |-> NameOf(c, text)]
           others == Others(names[c], text)
<1>1. /\ names[c] \in Seq(EntryType) /\ names \in [Clients -> Seq(EntryType)]
      /\ Len(names[c]) <= Capacity /\ GenTypes
  BY TypeParts DEF GenTypes
<1>2. e \in ToSet(names[c]) /\ e.text = text
  BY DEF Named
<1>3. ToSet(names[c]) \subseteq EntryType
  BY <1>1, HeldBy
<1>4. entry = e /\ entry \in EntryType
  <2>1. NameOf(c, text) = e.name
    BY DEF NameOf
  <2>2. e \in EntryType
    BY <1>2, <1>3
  <2> HIDE DEF e
  <2> QED BY <1>2, <2>1, <2>2 DEF EntryType
<1> HIDE DEF e
<1>5. /\ others \in Seq(EntryType) /\ Len(others) = Len(names[c]) - 1
      /\ ToSet(others) \subseteq ToSet(names[c])
      /\ \A f \in ToSet(names[c]) : f.text # text => f \in ToSet(others)
  BY <1>1, <1>2, OthersHolds
<1> HIDE DEF others, entry
<1>6. /\ Append(others, entry) \in Seq(EntryType)
      /\ Len(Append(others, entry)) = Len(names[c])
      /\ ToSet(Append(others, entry)) = ToSet(others) \cup {entry}
  <2>1. /\ Append(others, entry) \in Seq(EntryType)
        /\ Len(Append(others, entry)) = Len(others) + 1
        /\ ToSet(Append(others, entry)) = ToSet(others) \cup {entry}
    BY <1>4, <1>5, AppendHolds
  <2>2. Len(names[c]) \in Nat
    BY <1>1
  <2> QED BY <1>5, <2>1, <2>2
<1>7. names' = [names EXCEPT ![c] = Append(others, entry)] /\ counts' = counts /\ seq' = seq
  BY DEF Hit, others, entry
<1>8. \A f \in ToSet(names[c]) : f.text = text => f = e
  BY <1>2 DEF NamesInv
<1>9. ToSet(Append(others, entry)) = ToSet(names[c])
  BY <1>2, <1>4, <1>5, <1>6, <1>8
<1>10. /\ names' \in [Clients -> Seq(EntryType)]
       /\ \A d \in Clients : /\ ToSet(names'[d]) = ToSet(names[d])
                             /\ Len(names'[d]) = Len(names[d])
  BY <1>1, <1>6, <1>7, <1>9
<1>11. GenTypes'
  BY <1>1, <1>7, <1>10 DEF GenTypes
<1> QED BY <1>2, <1>4, <1>7, <1>10, <1>11 DEF entry

\* A sighting below the gate touches no name.
LEMMA CountEffect ==
    ASSUME CacheTypeOK, NEW c \in Clients, NEW text \in Texts,
           Sightings(c, text) + 1 < MinUsages, Count(c, text)
    PROVE  GenTypes' /\ seq' = seq /\ names' = names
<1> DEFINE entry == [text |-> text, count |-> Sightings(c, text) + 1]
           others == Others(counts[c], text)
           all == Append(others, entry)
<1>1. /\ counts[c] \in Seq(CountType) /\ counts \in [Clients -> Seq(CountType)]
      /\ Len(counts[c]) <= Capacity /\ GenTypes /\ Capacity \in Nat \ {0} /\ MinUsages \in Nat
  BY TypeParts, CacheAssumption DEF GenTypes
<1>2. Sightings(c, text) \in 0..MinUsages
  <2>1. ToSet(counts[c]) \subseteq CountType
    BY <1>1, HeldBy
  <2>2. CASE \E e \in ToSet(counts[c]) : e.text = text
    <3> DEFINE e == CHOOSE e \in ToSet(counts[c]) : e.text = text
    <3>1. e \in CountType
      BY <2>1, <2>2
    <3>2. Sightings(c, text) = e.count
      BY <2>2 DEF Sightings
    <3> HIDE DEF e
    <3> QED BY <1>1, <3>1, <3>2 DEF CountType
  <2>3. CASE ~\E e \in ToSet(counts[c]) : e.text = text
    BY <1>1, <2>3 DEF Sightings
  <2> QED BY <2>2, <2>3
<1>3. entry \in CountType
  BY <1>1, <1>2 DEF CountType
<1>4. others \in Seq(CountType) /\ Len(others) <= Len(counts[c])
  BY <1>1, OthersHolds
<1>5. /\ counts' = [counts EXCEPT ![c] = IF Len(all) > Capacity THEN Tail(all) ELSE all]
      /\ names' = names /\ seq' = seq
  BY DEF Count
<1> HIDE DEF entry, others
<1>6. /\ all \in Seq(CountType) /\ all # <<>> /\ Len(all) = Len(others) + 1
      /\ Tail(all) \in Seq(CountType) /\ Len(Tail(all)) = Len(all) - 1
  <2>1. all \in Seq(CountType) /\ all # <<>> /\ Len(all) = Len(others) + 1
    BY <1>3, <1>4, AppendHolds
  <2> HIDE DEF all
  <2> QED BY <2>1, TailHolds
<1>7. Len(others) \in Nat /\ Len(counts[c]) \in Nat
  BY <1>1, <1>4
<1> HIDE DEF all
<1> DEFINE new == IF Len(all) > Capacity THEN Tail(all) ELSE all
<1>8. new \in Seq(CountType) /\ Len(new) <= Capacity
  BY <1>1, <1>4, <1>6, <1>7
<1> HIDE DEF new
<1>9. counts' = [counts EXCEPT ![c] = new]
  BY <1>5 DEF new
<1>10. /\ counts' \in [Clients -> Seq(CountType)]
       /\ \A d \in Clients : Len(counts'[d]) <= Capacity
  BY <1>1, <1>8, <1>9 DEF GenTypes
<1> QED BY <1>1, <1>5, <1>10 DEF GenTypes

\* At the gate a text gets the fresh name, and at capacity the least recently
\* used name goes, of which onEvict is told.
LEMMA PromoteEffect ==
    ASSUME CacheTypeOK, FieldsInv, NamesInv, NEW c \in Clients, NEW text \in Texts,
           calls < MaxCalls, Promote(c, text)
    PROVE  /\ GenTypes' /\ seq' = [seq EXCEPT ![c] = seq[c] + 1]
           /\ Fresh(c) \in GivenNames
           /\ \A d \in Clients \ {c} : names'[d] = names[d]
           /\ names'[c] # <<>> /\ names'[c][Len(names'[c])].name = Fresh(c)
           /\ ToSet(names'[c]) \subseteq ToSet(names[c])
                                         \cup {[text |-> text, name |-> Fresh(c)]}
           /\ Fresh(c) \in GeneratorNames(c)'
           /\ Evicted(c) \in Seq(GivenNames)
           /\ GeneratorNames(c) \subseteq GeneratorNames(c)' \cup ToSet(Evicted(c))
           /\ \A n \in ToSet(Evicted(c)) : n.by = c
<1> DEFINE entry == [text |-> text, name |-> Fresh(c)]
           kept == IF Full(c) THEN Tail(names[c]) ELSE names[c]
           others == Others(counts[c], text)
<1>1. /\ names[c] \in Seq(EntryType) /\ names \in [Clients -> Seq(EntryType)]
      /\ Len(names[c]) <= Capacity /\ Len(names[c]) \in Nat
      /\ counts \in [Clients -> Seq(CountType)]
      /\ GenTypes /\ RestTypes /\ Capacity \in Nat \ {0} /\ MaxCalls \in Nat
  <2>1. GenTypes /\ RestTypes
    BY TypeParts
  <2>2. names[c] \in Seq(EntryType)
    BY <2>1 DEF GenTypes
  <2> QED BY <2>1, <2>2, CacheAssumption DEF GenTypes
<1>2. seq[c] \in 0..MaxCalls /\ seq[c] + 1 \in 0..MaxCalls
  <2>1. seq[c] <= calls /\ calls \in 0..MaxCalls /\ seq[c] \in 0..MaxCalls
    BY <1>1 DEF FieldsInv, GenTypes, RestTypes
  <2> QED BY <1>1, <2>1
<1>3. Fresh(c) \in GivenNames /\ entry \in EntryType
  BY <1>2 DEF Fresh, GivenNames, EntryType
<1> DEFINE Fits == /\ kept \in Seq(EntryType) /\ Len(kept) <= Capacity - 1
                   /\ ToSet(kept) \subseteq ToSet(names[c])
                   /\ Evicted(c) \in Seq(GivenNames) /\ \A n \in ToSet(Evicted(c)) : n.by = c
                   /\ \A e \in ToSet(names[c]) : e \in ToSet(kept) \/ e.name \in ToSet(Evicted(c))
<1>4. ASSUME Full(c) PROVE Fits
  <2>1. names[c] # <<>> /\ Len(names[c]) = Capacity
    BY <1>1, <1>4 DEF Full
  <2>2. kept = Tail(names[c]) /\ Evicted(c) = <<Head(names[c]).name>>
    BY <1>4 DEF Evicted
  <2>3. /\ kept \in Seq(EntryType) /\ Len(kept) = Capacity - 1
        /\ ToSet(kept) \subseteq ToSet(names[c])
        /\ ToSet(names[c]) = ToSet(kept) \cup {Head(names[c])}
    BY <1>1, <2>1, <2>2, TailHolds
  <2>4. Head(names[c]) \in EntryType /\ Head(names[c]) \in ToSet(names[c])
    BY <1>1, <2>1, HeldBy
  <2>5. Head(names[c]).name \in GivenNames /\ Head(names[c]).name.by = c
    <3>1. Statement(Head(names[c])) \in ClientUses(c)
      BY <2>4 DEF ClientUses
    <3>2. Statement(Head(names[c])).name = Head(names[c]).name
      BY DEF Statement
    <3> QED BY <2>4, <3>1, <3>2 DEF NamesInv, EntryType
  <2>6. Evicted(c) \in Seq(GivenNames) /\ ToSet(Evicted(c)) = {Head(names[c]).name}
    <3>1. <<Head(names[c]).name>> \in Seq(GivenNames)
      BY <2>5
    <3>2. ToSet(<<Head(names[c]).name>>) = {Head(names[c]).name}
      BY DEF ToSet
    <3> QED BY <2>2, <3>1, <3>2
  <2> QED BY <2>3, <2>5, <2>6
<1>5. ASSUME ~Full(c) PROVE Fits
  <2>1. kept = names[c] /\ Evicted(c) = <<>> /\ Len(kept) <= Capacity - 1
    BY <1>1, <1>5 DEF Full, Evicted
  <2>2. <<>> \in Seq(GivenNames) /\ ToSet(<<>>) = {}
    BY EmptySeq DEF ToSet
  <2> QED BY <1>1, <2>1, <2>2
<1>6. Fits
  BY <1>4, <1>5
<1>7. others \in Seq(CountType) /\ Len(others) <= Len(counts[c])
  BY <1>1, OthersHolds
<1>8. /\ names' = [names EXCEPT ![c] = Append(kept, entry)]
      /\ counts' = [counts EXCEPT ![c] = others] /\ seq' = [seq EXCEPT ![c] = seq[c] + 1]
  BY DEF Promote
<1>9. entry.name = Fresh(c)
  OBVIOUS
<1> HIDE DEF entry, others, kept
<1>10. /\ Append(kept, entry) \in Seq(EntryType) /\ Append(kept, entry) # <<>>
       /\ Len(Append(kept, entry)) = Len(kept) + 1
       /\ Append(kept, entry)[Len(kept) + 1] = entry
       /\ ToSet(Append(kept, entry)) = ToSet(kept) \cup {entry}
  BY <1>3, <1>6, AppendHolds
<1>11. Len(kept) \in Nat
  BY <1>6
<1>12. names'[c] = Append(kept, entry) /\ \A d \in Clients \ {c} : names'[d] = names[d]
  BY <1>1, <1>8
<1>13. GenTypes'
  <2>1. /\ names' \in [Clients -> Seq(EntryType)] /\ counts' \in [Clients -> Seq(CountType)]
        /\ seq' \in [Clients -> 0..MaxCalls]
    BY <1>1, <1>2, <1>7, <1>8, <1>10 DEF GenTypes
  <2>2. Len(names'[c]) <= Capacity /\ Len(counts'[c]) <= Capacity
    <3>1. Len(counts[c]) <= Capacity /\ Len(counts[c]) \in Nat /\ counts'[c] = others
      BY <1>1, <1>8 DEF GenTypes
    <3>2. Len(others) \in Nat
      BY <1>7
    <3> QED BY <1>1, <1>6, <1>7, <1>10, <1>11, <1>12, <3>1, <3>2
  <2>3. \A d \in Clients \ {c} : Len(names'[d]) <= Capacity /\ Len(counts'[d]) <= Capacity
    BY <1>1, <1>8, <1>12 DEF GenTypes
  <2> QED BY <2>1, <2>2, <2>3 DEF GenTypes
<1>14. names'[c] # <<>> /\ names'[c][Len(names'[c])].name = Fresh(c)
  BY <1>9, <1>10, <1>12
<1>15. /\ ToSet(names'[c]) \subseteq ToSet(names[c]) \cup {entry}
       /\ Fresh(c) \in GeneratorNames(c)'
       /\ GeneratorNames(c) \subseteq GeneratorNames(c)' \cup ToSet(Evicted(c))
  <2>1. ToSet(names'[c]) = ToSet(kept) \cup {entry}
    BY <1>10, <1>12
  <2> QED BY <1>6, <1>9, <2>1 DEF GeneratorNames
<1> QED BY <1>3, <1>6, <1>8, <1>12, <1>13, <1>14, <1>15 DEF entry

-----------------------------------------------------------------------------
(* Names. *)

\* No name changes its meaning where nothing new is used.
LEMMA NamesKept ==
    ASSUME NamesInv, seq' = seq, prepared' \subseteq Uses,
           \A d \in Clients : /\ ClientUses(d)' \subseteq ClientUses(d)
                              /\ ToSet(names'[d]) \subseteq ToSet(names[d])
    PROVE  NamesInv'
<1>1. Uses' \subseteq Uses
  BY DEF Uses
<1> QED BY <1>1 DEF NamesInv

\* The statements in use by their places.
LEMMA UsesOf ==
    ASSUME NEW c \in Clients
    PROVE  /\ parsed[c] \subseteq ClientUses(c)
           /\ \A e \in ToSet(names[c]) : Statement(e) \in ClientUses(c)
           /\ \A q \in ToSet(chain[c]) : q.kind = "named" => Statement(q) \in ClientUses(c)
           /\ ClientUses(c) \subseteq Uses
BY DEF ClientUses, Uses

\* What is in use has its type.
LEMMA UsesTyped ==
    ASSUME CacheTypeOK, FieldsInv
    PROVE  Uses \subseteq [name : GivenNames, text : Texts]
<1>1. \A c \in Clients : \A e \in ToSet(names[c]) : e \in EntryType
  <2> SUFFICES ASSUME NEW c \in Clients PROVE ToSet(names[c]) \subseteq EntryType
    OBVIOUS
  <2>1. names[c] \in Seq(EntryType)
    BY TypeFacts
  <2> QED BY <2>1, HeldBy
<1>2. \A c \in Clients : \A q \in ToSet(chain[c]) :
         q.kind = "named" => q.name \in GivenNames /\ q.text \in Texts
  BY DEF FieldsInv, NamedOK
<1>3. \A c \in Clients : ClientUses(c) \subseteq [name : GivenNames, text : Texts]
  BY <1>1, <1>2, TypeFacts DEF ClientUses, Statement, EntryType
<1> QED BY <1>3, TypeFacts DEF Uses

\* A fresh name is nobody's.
LEMMA NamesPromoted ==
    ASSUME CacheTypeOK, FieldsInv, NamesInv, NEW c \in Clients, NEW text \in Texts,
           ~Named(c, text), seq' = [seq EXCEPT ![c] = seq[c] + 1], prepared' = prepared,
           \A d \in Clients \ {c} : /\ ClientUses(d)' \subseteq ClientUses(d)
                                    /\ ToSet(names'[d]) \subseteq ToSet(names[d]),
           ClientUses(c)' \subseteq ClientUses(c) \cup {[name |-> Fresh(c), text |-> text]},
           ToSet(names'[c]) \subseteq ToSet(names[c]) \cup {[text |-> text, name |-> Fresh(c)]}
    PROVE  NamesInv'
<1> DEFINE fresh == [name |-> Fresh(c), text |-> text]
<1>1. Uses' \subseteq Uses \cup {fresh}
  BY DEF Uses
<1>2. fresh.name.by = c /\ fresh.name.seq = seq[c] /\ fresh.name = Fresh(c)
  BY DEF Fresh
<1>3. seq \in [Clients -> 0..MaxCalls] /\ MaxCalls \in Nat
  BY TypeParts, CacheAssumption DEF GenTypes
<1>4. \A s \in Uses : s.name \in GivenNames
  BY UsesTyped
<1>5. \A s \in Uses : /\ s.name.seq < seq'[s.name.by] /\ s.name # fresh.name
  <2> SUFFICES ASSUME NEW s \in Uses
               PROVE  s.name.seq < seq'[s.name.by] /\ s.name # fresh.name
    OBVIOUS
  <2>1. /\ s.name.seq < seq[s.name.by] /\ s.name.by \in Clients
        /\ s.name.seq \in Nat
    BY <1>3, <1>4 DEF NamesInv, GivenNames
  <2>2. seq[s.name.by] \in Nat /\ seq'[s.name.by] \in {seq[s.name.by], seq[s.name.by] + 1}
    BY <1>3, <2>1
  <2> QED BY <1>2, <2>1, <2>2
<1>6. fresh.name.seq < seq'[fresh.name.by]
  BY <1>2, <1>3
<1>7. \A s \in Uses' : s.name.seq < seq'[s.name.by]
  BY <1>1, <1>5, <1>6
<1>8. \A s, t \in Uses' : s.name = t.name => s.text = t.text
  BY <1>1, <1>5 DEF NamesInv
<1>9. \A d \in Clients : \A s \in ClientUses(d)' : s.name.by = d
  <2> SUFFICES ASSUME NEW d \in Clients, NEW s \in ClientUses(d)' PROVE s.name.by = d
    OBVIOUS
  <2>1. s \in ClientUses(d) \/ (d = c /\ s = fresh)
    BY DEF fresh
  <2> QED BY <1>2, <2>1 DEF NamesInv
<1>10. \A d \in Clients : \A e, f \in ToSet(names'[d]) : e.text = f.text => e = f
  <2>1. \A e \in ToSet(names[c]) : e.text # text
    BY DEF Named
  <2>2. \A e, f \in ToSet(names'[c]) : e.text = f.text => e = f
    <3> DEFINE entry == [text |-> text, name |-> Fresh(c)]
    <3>1. entry.text = text /\ ToSet(names'[c]) \subseteq ToSet(names[c]) \cup {entry}
      OBVIOUS
    <3> HIDE DEF entry
    <3> QED BY <2>1, <3>1 DEF NamesInv
  <2> QED BY <2>2 DEF NamesInv
<1> QED BY <1>7, <1>8, <1>9, <1>10 DEF NamesInv

-----------------------------------------------------------------------------
(* The books of a client that submits. *)

\* The Closes of a client by their places.
LEMMA ClosingMembers ==
    ASSUME line \in Seq(BatchType), NEW c \in Clients
    PROVE  Closing(c) = ToSet(pipeline[c])
                        \cup {n \in GivenNames : \E b \in ToSet(line) :
                                                    b.by = c /\ n \in ToSet(b.closes)}
<1>1. ToSet(line) = {line[k] : k \in 1..Len(line)} /\ ToSet(line) \subseteq BatchType
  BY HeldBy
<1>2. \A b \in ToSet(line) : ToSet(b.closes) \subseteq GivenNames
  <2> SUFFICES ASSUME NEW b \in ToSet(line) PROVE ToSet(b.closes) \subseteq GivenNames
    OBVIOUS
  <2>1. b.closes \in Seq(GivenNames)
    BY <1>1 DEF BatchType
  <2> QED BY <2>1, HeldBy
<1> QED BY <1>1, <1>2 DEF Closing

\* The same after a step.
LEMMA ClosingMembersNext ==
    ASSUME line' \in Seq(BatchType), NEW c \in Clients
    PROVE  Closing(c)' = ToSet(pipeline'[c])
                         \cup {n \in GivenNames : \E b \in ToSet(line') :
                                                     b.by = c /\ n \in ToSet(b.closes)}
<1>1. ToSet(line') = {line'[k] : k \in 1..Len(line')} /\ ToSet(line') \subseteq BatchType
  BY HeldBy
<1>2. \A b \in ToSet(line') : ToSet(b.closes) \subseteq GivenNames
  <2> SUFFICES ASSUME NEW b \in ToSet(line') PROVE ToSet(b.closes) \subseteq GivenNames
    OBVIOUS
  <2>1. b.closes \in Seq(GivenNames)
    BY <1>1 DEF BatchType
  <2> QED BY <2>1, HeldBy
<1> QED BY <1>1, <1>2 DEF Closing

\* Who has a batch in the line.
LEMMA InLineMembers ==
    ASSUME line \in Seq(BatchType), NEW c \in Clients
    PROVE  InLine(c) <=> \E b \in ToSet(line) : b.by = c
BY HeldBy DEF InLine

\* The same after a step.
LEMMA InLineMembersNext ==
    ASSUME line' \in Seq(BatchType), NEW c \in Clients
    PROVE  InLine(c)' <=> \E b \in ToSet(line') : b.by = c
BY HeldBy DEF InLine

\* A client without anything chained has nothing in the line.
LEMMA NothingChained ==
    ASSUME CacheTypeOK, LineInv, NEW c \in Clients, chain[c] = <<>>
    PROVE  ~InLine(c)
BY TypeFacts, InLineMembers DEF LineInv, BatchOK

\* A step that leaves the books of d as they are, and its names and Closes.
SameBooks(d) == /\ parsed'[d] = parsed[d] /\ fieldsCache'[d] = fieldsCache[d]
                /\ Closing(d)' = Closing(d) /\ Accounted(d) \subseteq Accounted(d)'
                /\ \A s : s.name.by = d => (s \in prepared' <=> s \in prepared)

\* Such books stay right.
LEMMA BooksKept ==
    ASSUME NamesInv, NEW d \in Clients, BooksOK(d), SameBooks(d), evicting' = evicting
    PROVE  BooksOK(d)'
<1>1. \A s \in parsed[d] : s.name.by = d
  BY UsesOf DEF NamesInv
<1> QED BY <1>1 DEF BooksOK, SameBooks, Known

\* The names that the generator of c lets go are those it hands over for closing.
Lets(c, closes) ==
    /\ GeneratorNames(c) \cup ToSet(pendingCloses[c])
          \subseteq GeneratorNames(c)' \cup ToSet(closes)
    /\ \A n \in ToSet(closes) : n.by = c
    /\ \A d \in Clients \ {c} : GeneratorNames(d)' = GeneratorNames(d)

\* Of the Closes that are due, some are written and the others stay pending.
Writes(c, closes, written) ==
    /\ written \in Seq(GivenNames) /\ ToSet(closes) = ToSet(written) \cup ToSet(pendingCloses'[c])
    /\ \A d \in Clients \ {c} : pendingCloses'[d] = pendingCloses[d]
    /\ pendingCloses' \in [Clients -> Seq(GivenNames)] /\ handed' \in [Clients -> BOOLEAN]

\* The Closes go with an ordinary query that is handed over, all or none.
LEMMA HandWrites ==
    ASSUME CacheTypeOK, NEW c \in Clients, NEW closes \in Seq(GivenNames),
           NEW handsOver \in BOOLEAN, hand(c, closes, handsOver)
    PROVE  Writes(c, closes, IF handsOver THEN closes ELSE <<>>)
<1>1. <<>> \in Seq(GivenNames) /\ ToSet(<<>>) = {}
  BY EmptySeq DEF ToSet
<1>2. /\ pendingCloses' = [pendingCloses EXCEPT ![c] = IF handsOver THEN <<>> ELSE closes]
      /\ handed' = [handed EXCEPT ![c] = handed[c] \/ handsOver]
  BY DEF hand
<1>3. /\ pendingCloses' \in [Clients -> Seq(GivenNames)] /\ handed' \in [Clients -> BOOLEAN]
      /\ pendingCloses'[c] = IF handsOver THEN <<>> ELSE closes
      /\ \A d \in Clients \ {c} : pendingCloses'[d] = pendingCloses[d]
  BY <1>1, <1>2, TypeFacts
<1> QED BY <1>1, <1>3 DEF Writes

\* A submission: who it is and what it leaves alone.
Submits(c, q, closes, written) ==
    /\ submit(c, q, written) /\ Lets(c, closes) /\ Writes(c, closes, written)
    /\ ~InLine(c) /\ evicting.by # c /\ phase'[c] = "live" /\ BooksOK(c)
    /\ chain'[c] # <<>> /\ Head(chain'[c]) = q
    /\ \A d \in Clients \ {c} : phase'[d] = phase[d] /\ chain'[d] = chain[d]
    /\ UNCHANGED <<prepared, evicting>>

\* What a submission keeps of the types.
LEMMA SubmitTypes ==
    ASSUME CacheTypeOK, NEW c \in Clients, NEW q \in QueryType, NEW closes, NEW written,
           NamedOK(q), submit(c, q, written), Writes(c, closes, written), ~InLine(c),
           names' \in [Clients -> Seq(EntryType)], chain' \in [Clients -> Seq(QueryType)]
    PROVE  BookTypes'
<1>1. BookTypes
  BY TypeParts
<1>2. PICK b \in BatchType : b.by = c /\ line' = Append(line, b)
  BY SubmitEffect DEF Writes
<1>3. line' \in Seq(BatchType) /\ OneBatch'
  BY <1>1, <1>2, AppendBatch DEF BookTypes
<1>4. /\ parsed' = [parsed EXCEPT ![c] = {s \in parsed[c] : s.name \notin ToSet(written)}]
      /\ fieldsCache' = [fieldsCache EXCEPT ![c] = fieldsCache[c] \ ToSet(written)]
      /\ pipeline' \in [Clients -> Seq(GivenNames)]
      /\ revived' \in [Clients -> SUBSET GivenNames]
  BY SubmitEffect DEF Writes
<1>5. /\ parsed' \in [Clients -> SUBSET [name : GivenNames, text : Texts]]
      /\ fieldsCache' \in [Clients -> SUBSET GivenNames]
  BY <1>1, <1>4 DEF BookTypes
<1> QED BY <1>3, <1>4, <1>5 DEF BookTypes, Writes

\* A submission keeps the books.
LEMMA SubmitKeeps ==
    ASSUME CacheTypeOK, FieldsInv, LineInv, NamesInv, BooksInv, NamesInv',
           NEW c \in Clients, NEW q \in QueryType, NEW closes, NEW written,
           NamedOK(q), names' \in [Clients -> Seq(EntryType)],
           chain' \in [Clients -> Seq(QueryType)], Submits(c, q, closes, written)
    PROVE  /\ \A b \in ToSet(line') : BatchOK(b)'
           /\ \A d \in Clients : \A n \in ToSet(pendingCloses'[d]) \cup Closing(d)' : n.by = d
           /\ BooksInv'
<1>1. PICK b \in BatchType :
         /\ b.by = c /\ b.query = q /\ b.raced = Covers(evicting.scope, q.name)
         /\ b.parse <=> q.kind = "named" /\ \A s \in parsed'[c] : s.name # q.name
         /\ b.parse => \/ \E e \in ToSet(names'[c]) : e.name = q.name
                       \/ q.name \in revived'[c]
         /\ line' = Append(line, b)
         /\ IF Extended(q) THEN pipeline'[c] = <<>> ELSE b.closes = <<>>
         /\ ToSet(pipeline'[c]) \cup ToSet(b.closes) = ToSet(pipeline[c]) \cup ToSet(written)
  BY SubmitEffect DEF Submits, Writes
<1>2. /\ parsed' = [parsed EXCEPT ![c] = {s \in parsed[c] : s.name \notin ToSet(written)}]
      /\ fieldsCache' = [fieldsCache EXCEPT ![c] = fieldsCache[c] \ ToSet(written)]
      /\ \A d \in Clients \ {c} : pipeline'[d] = pipeline[d] /\ revived'[d] = revived[d]
      /\ revived[c] \subseteq revived'[c]
  BY SubmitEffect DEF Submits, Writes
<1>3. BookTypes /\ BookTypes'
  BY TypeParts, SubmitTypes DEF Submits
<1>4. ToSet(line') = ToSet(line) \cup {b}
  BY <1>1, <1>3, AppendBatch DEF BookTypes, Submits
<1>5. \A a \in ToSet(line) : a.by \in Clients \ {c} /\ a.query \in QueryType
  <2>1. ToSet(line) \subseteq BatchType
    BY <1>3, HeldBy DEF BookTypes
  <2> QED BY <1>3, <2>1, InLineMembers DEF BookTypes, Submits, BatchType
<1>6. \A a \in ToSet(line') : BatchOK(a)'
  <2>1. BatchOK(b)'
    BY <1>1 DEF BatchOK, Submits
  <2>2. \A a \in ToSet(line) : BatchOK(a)'
    BY <1>2, <1>5 DEF BatchOK, LineInv, Submits
  <2> QED BY <1>4, <2>1, <2>2
<1>7. /\ Closing(c)' = ToSet(pipeline[c]) \cup ToSet(written)
      /\ Closing(c) = ToSet(pipeline[c])
      /\ \A d \in Clients \ {c} : Closing(d)' = Closing(d)
  <2>1. ToSet(b.closes) \subseteq GivenNames
    <3>1. b.closes \in Seq(GivenNames)
      BY DEF BatchType
    <3> QED BY <3>1, HeldBy
  <2>2. Closing(c)' = ToSet(pipeline'[c]) \cup ToSet(b.closes)
    BY <1>1, <1>3, <1>4, <1>5, <2>1, ClosingMembersNext DEF BookTypes
  <2>3. Closing(c) = ToSet(pipeline[c])
    BY <1>3, <1>5, ClosingMembers DEF BookTypes
  <2>4. ASSUME NEW d \in Clients \ {c} PROVE Closing(d)' = Closing(d)
    <3>1. pipeline'[d] = pipeline[d] /\ b.by # d
      BY <1>1, <1>2
    <3>2. \A n : (\E a \in ToSet(line') : a.by = d /\ n \in ToSet(a.closes))
                 <=> (\E a \in ToSet(line) : a.by = d /\ n \in ToSet(a.closes))
      BY <1>4, <3>1
    <3>3. line \in Seq(BatchType) /\ line' \in Seq(BatchType)
      BY <1>3 DEF BookTypes
    <3>4. Closing(d) = ToSet(pipeline[d])
                       \cup {n \in GivenNames : \E a \in ToSet(line) :
                                                   a.by = d /\ n \in ToSet(a.closes)}
      BY <3>3, ClosingMembers
    <3>5. Closing(d)' = ToSet(pipeline'[d])
                        \cup {n \in GivenNames : \E a \in ToSet(line') :
                                                    a.by = d /\ n \in ToSet(a.closes)}
      BY <3>3, ClosingMembersNext
    <3> QED BY <3>1, <3>2, <3>4, <3>5
  <2> QED BY <1>1, <2>2, <2>3, <2>4
<1>8. /\ ToSet(closes) = ToSet(written) \cup ToSet(pendingCloses'[c])
      /\ \A d \in Clients \ {c} : pendingCloses'[d] = pendingCloses[d]
  BY DEF Submits, Writes
<1>9. ASSUME NEW d \in Clients, NEW n \in ToSet(pendingCloses'[d]) \cup Closing(d)'
      PROVE  n.by = d
  <2>1. CASE d = c
    <3>1. n \in Closing(c) \cup ToSet(closes)
      BY <1>7, <1>8, <2>1
    <3> QED BY <2>1, <3>1 DEF FieldsInv, Submits, Lets
  <2>2. CASE d # c
    BY <1>7, <1>8, <2>2 DEF FieldsInv
  <2> QED BY <2>1, <2>2
<1>10. parsed'[c] = {s \in parsed[c] : s.name \notin ToSet(written)}
  BY <1>2, <1>3 DEF BookTypes
<1>11. fieldsCache'[c] = fieldsCache[c] \ ToSet(written)
  BY <1>2, <1>3 DEF BookTypes
<1>12. BooksOK(c)'
  <2>1. \A s \in parsed'[c] : /\ s \in prepared' \/ Covers(evicting'.scope, s.name)
                              /\ s.name \notin Closing(c)' /\ s.name \in Accounted(c)'
    <3> SUFFICES ASSUME NEW s \in parsed'[c]
                 PROVE  /\ s \in prepared' \/ Covers(evicting'.scope, s.name)
                        /\ s.name \notin Closing(c)' /\ s.name \in Accounted(c)'
      OBVIOUS
    <3>1. s \in parsed[c] /\ s.name \notin ToSet(written)
      BY <1>10
    <3>2. /\ s \in prepared \/ Covers(evicting.scope, s.name)
          /\ s.name \notin Closing(c) /\ s.name \in Accounted(c)
      BY <3>1 DEF Submits, BooksOK
    <3>3. s.name \in Accounted(c)'
      BY <1>2, <1>8, <3>1, <3>2 DEF Submits, Lets, Accounted, GeneratorNames
    <3> QED BY <1>7, <3>1, <3>2, <3>3 DEF Submits
  <2>2. \A s \in prepared' : s.name.by = c => s \in parsed'[c] \/ s.name \in Closing(c)'
    BY <1>7, <1>10 DEF Submits, BooksOK
  <2>3. \A n \in fieldsCache'[c] : Known(parsed'[c], n)
    BY <1>10, <1>11 DEF Submits, BooksOK, Known
  <2> QED BY <2>1, <2>2, <2>3 DEF BooksOK
<1>13. \A d \in Clients \ {c} : phase'[d] = "live" => BooksOK(d)'
  <2> SUFFICES ASSUME NEW d \in Clients \ {c}, phase'[d] = "live" PROVE BooksOK(d)'
    OBVIOUS
  <2>1. SameBooks(d)
    BY <1>2, <1>7, <1>8, <1>3
       DEF SameBooks, Accounted, GeneratorNames, Submits, Lets, BookTypes
  <2> QED BY <2>1, BooksKept DEF BooksInv, Submits
<1>14. \A a \in ToSet(line') : BindOK(a)'
  <2>1. BindOK(b)'
    <3>1. CASE b.parse
      BY <1>1, <3>1 DEF BindOK, Accounted
    <3>2. CASE ~b.parse /\ q.kind = "named"
      <4>1. PICK s \in parsed'[c] : s.name = q.name
        BY <1>1, <3>2
      <4>2. s \in Uses' /\ Statement(q) \in Uses'
        <5>1. s \in ClientUses(c)'
          BY DEF ClientUses
        <5>2. q \in ToSet(chain'[c])
          BY HeldBy DEF Submits
        <5>3. Statement(q) \in ClientUses(c)'
          BY <3>2, <5>2 DEF ClientUses
        <5> QED BY <5>1, <5>3 DEF Uses
      <4>3. s.text = q.text
        BY <4>1, <4>2 DEF NamesInv, Statement
      <4>4. s = Statement(q)
        BY <1>3, <4>1, <4>3 DEF BookTypes, Statement
      <4> QED BY <1>1, <3>2, <4>4 DEF BindOK
    <3> QED BY <1>1, <3>1, <3>2 DEF BindOK
  <2>2. ASSUME NEW a \in ToSet(line) PROVE BindOK(a)'
    <3>1. a.by \in Clients \ {c}
      BY <1>5
    <3>2. parsed'[a.by] = parsed[a.by] /\ Accounted(a.by)' = Accounted(a.by)
      BY <1>2, <1>3, <1>8, <3>1 DEF Accounted, GeneratorNames, Submits, Lets, BookTypes
    <3> QED BY <3>2 DEF BindOK, BooksInv
  <2> QED BY <1>4, <2>1, <2>2
<1>15. EvictionOK'
  BY <1>1, <1>4 DEF EvictionOK, BooksInv, Submits
<1> QED BY <1>6, <1>9, <1>12, <1>13, <1>14, <1>15 DEF BooksInv

\* A call of query(): who it is and what it leaves alone.
Enqueues(c, q, closes) ==
    /\ enqueue(c, q, closes) /\ Lets(c, closes)
    /\ phase'[c] = "live" /\ BooksOK(c) /\ (chain[c] # <<>> => phase[c] = "live")
    /\ \A d \in Clients \ {c} : phase'[d] = phase[d]
    /\ UNCHANGED <<prepared, evicting>>

\* The chain after a call.
LEMMA EnqueueChain ==
    ASSUME CacheTypeOK, NEW c \in Clients, NEW q \in QueryType, NEW closes,
           enqueue(c, q, closes)
    PROVE  /\ chain' \in [Clients -> Seq(QueryType)]
           /\ \A d \in Clients \ {c} : chain'[d] = chain[d]
           /\ chain'[c] = Append(chain[c], q) /\ chain'[c] # <<>>
           /\ ToSet(chain'[c]) = ToSet(chain[c]) \cup {q}
           /\ Head(chain'[c]) = IF chain[c] = <<>> THEN q ELSE Head(chain[c])
<1>1. chain \in [Clients -> Seq(QueryType)] /\ chain[c] \in Seq(QueryType)
  BY TypeFacts
<1>2. chain' = [chain EXCEPT ![c] = Append(chain[c], q)]
  BY DEF enqueue
<1>3. /\ Append(chain[c], q) \in Seq(QueryType) /\ Append(chain[c], q) # <<>>
      /\ ToSet(Append(chain[c], q)) = ToSet(chain[c]) \cup {q}
      /\ Head(Append(chain[c], q)) = IF chain[c] = <<>> THEN q ELSE Head(chain[c])
  BY <1>1, AppendHolds
<1>4. chain'[c] = Append(chain[c], q)
  BY <1>1, <1>2
<1> QED BY <1>1, <1>2, <1>3, <1>4

\* What the duplex is given to close, and what the books lose with it.
LEMMA FlushEffect ==
    ASSUME CacheTypeOK, NEW c \in Clients, NEW closes \in Seq(GivenNames), flush(c, closes)
    PROVE  /\ pipeline' \in [Clients -> Seq(GivenNames)]
           /\ ToSet(pipeline'[c]) = ToSet(pipeline[c]) \cup ToSet(closes)
           /\ closes = <<>> => pipeline'[c] = pipeline[c]
           /\ \A d \in Clients \ {c} : /\ pipeline'[d] = pipeline[d] /\ parsed'[d] = parsed[d]
                                       /\ fieldsCache'[d] = fieldsCache[d]
           /\ parsed'[c] = {s \in parsed[c] : s.name \notin ToSet(closes)}
           /\ fieldsCache'[c] = fieldsCache[c] \ ToSet(closes)
           /\ parsed' \in [Clients -> SUBSET [name : GivenNames, text : Texts]]
           /\ fieldsCache' \in [Clients -> SUBSET GivenNames]
<1> DEFINE held == pipeline[c] \o closes
<1>1. /\ pipeline' = [pipeline EXCEPT ![c] = held]
      /\ parsed' = [parsed EXCEPT ![c] = {s \in parsed[c] : s.name \notin ToSet(closes)}]
      /\ fieldsCache' = [fieldsCache EXCEPT ![c] = fieldsCache[c] \ ToSet(closes)]
  BY DEF flush, Freed
<1>2. /\ held \in Seq(GivenNames) /\ ToSet(held) = ToSet(pipeline[c]) \cup ToSet(closes)
      /\ closes = <<>> => held = pipeline[c]
  <2>1. pipeline[c] \in Seq(GivenNames)
    BY TypeFacts
  <2>2. held \in Seq(GivenNames) /\ ToSet(held) = ToSet(pipeline[c]) \cup ToSet(closes)
    BY <2>1, ConcatHolds
  <2>3. pipeline[c] \o <<>> = pipeline[c]
    BY <2>1, ConcatEmptySeq
  <2> QED BY <2>2, <2>3
<1> HIDE DEF held
<1>3. pipeline'[c] = held /\ pipeline' \in [Clients -> Seq(GivenNames)]
  BY <1>1, <1>2, TypeFacts
<1>4. /\ parsed'[c] = {s \in parsed[c] : s.name \notin ToSet(closes)}
      /\ fieldsCache'[c] = fieldsCache[c] \ ToSet(closes)
      /\ parsed' \in [Clients -> SUBSET [name : GivenNames, text : Texts]]
      /\ fieldsCache' \in [Clients -> SUBSET GivenNames]
  BY <1>1, TypeFacts
<1>5. \A d \in Clients \ {c} : /\ pipeline'[d] = pipeline[d] /\ parsed'[d] = parsed[d]
                               /\ fieldsCache'[d] = fieldsCache[d]
  BY <1>1, TypeFacts
<1> QED BY <1>2, <1>3, <1>4, <1>5

\* What a call writes: behind an extended query nothing, for that one is ordinary.
LEMMA EnqueueWrites ==
    ASSUME CacheTypeOK, NEW c \in Clients, NEW q \in QueryType, NEW closes \in Seq(GivenNames),
           enqueue(c, q, closes)
    PROVE  \E written \in Seq(GivenNames) :
              /\ Writes(c, closes, written)
              /\ chain[c] = <<>> => submit(c, q, written)
              /\ chain[c] # <<>> => /\ flush(c, written) /\ UNCHANGED <<line, revived>>
                                    /\ written # <<>> => ~Extended(Head(chain[c]))
<1> DEFINE handsOver == Ordinary(q) /\ ~HasOrdinary(chain[c])
           written == IF handsOver THEN closes ELSE <<>>
<1>1. /\ hand(c, closes, handsOver) /\ handsOver \in BOOLEAN
      /\ chain[c] = <<>> => submit(c, q, written)
      /\ chain[c] # <<>> => flush(c, written) /\ UNCHANGED <<line, revived>>
  BY DEF enqueue, Ordinary, HasOrdinary
<1>2. Writes(c, closes, written) /\ written \in Seq(GivenNames)
  <2> HIDE DEF handsOver
  <2>1. Writes(c, closes, written)
    BY <1>1, HandWrites
  <2> QED BY <2>1 DEF Writes
<1>3. ASSUME chain[c] # <<>>, written # <<>> PROVE ~Extended(Head(chain[c]))
  <2>1. chain[c] \in Seq(QueryType)
    BY TypeFacts
  <2>2. 1 \in 1..Len(chain[c]) /\ Head(chain[c]) = chain[c][1]
    BY <1>3, <2>1, HeldBy
  <2>3. ~Ordinary(Head(chain[c]))
    BY <1>3, <2>2 DEF HasOrdinary
  <2> QED BY <2>3 DEF Ordinary, Extended
<1> HIDE DEF written
<1> QED BY <1>1, <1>2, <1>3

\* A call that waits behind others keeps the books: it changes what is to be
\* closed, and has the duplex close it when nothing but Submittables is before it.
LEMMA QueueKeeps ==
    ASSUME CacheTypeOK, FieldsInv, LineInv, NamesInv, BooksInv,
           NEW c \in Clients, NEW q \in QueryType, NEW closes \in Seq(GivenNames),
           chain[c] # <<>>, Enqueues(c, q, closes)
    PROVE  /\ BookTypes'
           /\ \A b \in ToSet(line') : BatchOK(b)'
           /\ \A d \in Clients : \A n \in ToSet(pendingCloses'[d]) \cup Closing(d)' : n.by = d
           /\ BooksInv'
<1>1. PICK written \in Seq(GivenNames) :
         /\ Writes(c, closes, written) /\ flush(c, written) /\ UNCHANGED <<line, revived>>
         /\ written # <<>> => ~Extended(Head(chain[c]))
  BY EnqueueWrites DEF Enqueues
<1>2. /\ pipeline' \in [Clients -> Seq(GivenNames)]
      /\ ToSet(pipeline'[c]) = ToSet(pipeline[c]) \cup ToSet(written)
      /\ written = <<>> => pipeline'[c] = pipeline[c]
      /\ \A d \in Clients \ {c} : /\ pipeline'[d] = pipeline[d] /\ parsed'[d] = parsed[d]
                                  /\ fieldsCache'[d] = fieldsCache[d]
      /\ parsed'[c] = {s \in parsed[c] : s.name \notin ToSet(written)}
      /\ fieldsCache'[c] = fieldsCache[c] \ ToSet(written)
      /\ parsed' \in [Clients -> SUBSET [name : GivenNames, text : Texts]]
      /\ fieldsCache' \in [Clients -> SUBSET GivenNames]
  BY <1>1, FlushEffect
<1>3. BookTypes
  BY TypeParts
<1>4. /\ chain' \in [Clients -> Seq(QueryType)]
      /\ \A d \in Clients : chain[d] # <<>> => chain'[d] # <<>> /\ Head(chain'[d]) = Head(chain[d])
  <2>1. /\ chain' \in [Clients -> Seq(QueryType)] /\ chain'[c] # <<>>
        /\ \A d \in Clients \ {c} : chain'[d] = chain[d]
        /\ Head(chain'[c]) = Head(chain[c])
    BY EnqueueChain DEF Enqueues
  <2> QED BY <2>1
<1>5. BookTypes'
  BY <1>1, <1>2, <1>3, <1>4 DEF BookTypes, OneBatch, Writes
<1>6. /\ ToSet(closes) = ToSet(written) \cup ToSet(pendingCloses'[c])
      /\ \A d \in Clients \ {c} : pendingCloses'[d] = pendingCloses[d]
      /\ Closing(c)' = Closing(c) \cup ToSet(written)
      /\ \A d \in Clients \ {c} : Closing(d)' = Closing(d)
  BY <1>1, <1>2 DEF Closing, Writes
<1>7. (\A d \in Clients : phase'[d] = phase[d]) /\ UNCHANGED <<prepared, evicting>>
  BY DEF Enqueues
<1>8. \A b \in ToSet(line) : b.by \in Clients /\ b.query \in QueryType
  <2>1. ToSet(line) \subseteq BatchType
    BY <1>3, HeldBy DEF BookTypes
  <2> QED BY <2>1 DEF BatchType
<1>9. \A b \in ToSet(line') : BatchOK(b)'
  <2> SUFFICES ASSUME NEW b \in ToSet(line) PROVE BatchOK(b)'
    BY <1>1
  <2>1. BatchOK(b) /\ b.by \in Clients
    BY <1>8 DEF LineInv
  <2>2. IF Extended(b.query) THEN pipeline'[b.by] = <<>> ELSE b.closes = <<>>
    <3>1. CASE b.by = c /\ written # <<>>
      BY <1>1, <2>1, <3>1 DEF BatchOK
    <3>2. CASE b.by # c \/ written = <<>>
      BY <1>2, <2>1, <3>2 DEF BatchOK
    <3> QED BY <3>1, <3>2
  <2> QED BY <1>4, <1>7, <2>1, <2>2 DEF BatchOK
<1>10. ASSUME NEW d \in Clients, NEW n \in ToSet(pendingCloses'[d]) \cup Closing(d)'
       PROVE  n.by = d
  <2>1. CASE d = c
    <3>1. n \in Closing(c) \cup ToSet(closes)
      BY <1>6, <2>1
    <3> QED BY <2>1, <3>1 DEF FieldsInv, Enqueues, Lets
  <2>2. CASE d # c
    BY <1>6, <2>2 DEF FieldsInv
  <2> QED BY <2>1, <2>2
<1>11. /\ \A n \in Accounted(c) : n \in Accounted(c)' \/ n \in ToSet(written)
       /\ \A d \in Clients \ {c} : Accounted(d) \subseteq Accounted(d)'
  BY <1>1, <1>6 DEF Accounted, GeneratorNames, Enqueues, Lets
<1>12. BooksOK(c)'
  <2>1. BooksOK(c)
    BY DEF Enqueues
  <2>2. \A s \in parsed'[c] : /\ s \in prepared' \/ Covers(evicting'.scope, s.name)
                              /\ s.name \notin Closing(c)' /\ s.name \in Accounted(c)'
    BY <1>2, <1>6, <1>7, <1>11, <2>1 DEF BooksOK
  <2>3. \A s \in prepared' : s.name.by = c => s \in parsed'[c] \/ s.name \in Closing(c)'
    BY <1>2, <1>6, <1>7, <2>1 DEF BooksOK
  <2>4. \A n \in fieldsCache'[c] : Known(parsed'[c], n)
    BY <1>2, <2>1 DEF BooksOK, Known
  <2> QED BY <2>2, <2>3, <2>4 DEF BooksOK
<1>13. \A d \in Clients \ {c} : phase'[d] = "live" => BooksOK(d)'
  <2> SUFFICES ASSUME NEW d \in Clients \ {c}, phase'[d] = "live" PROVE BooksOK(d)'
    OBVIOUS
  <2>1. SameBooks(d)
    BY <1>2, <1>6, <1>7, <1>11 DEF SameBooks
  <2> QED BY <1>7, <2>1, BooksKept DEF BooksInv
<1>14. \A b \in ToSet(line') : BindOK(b)'
  <2> SUFFICES ASSUME NEW b \in ToSet(line) PROVE BindOK(b)'
    BY <1>1
  <2>1. BindOK(b) /\ BatchOK(b) /\ b.by \in Clients
    BY <1>8 DEF BooksInv, LineInv
  <2>2. CASE b.by = c /\ written # <<>>
    <3>1. b.query.kind # "named"
      BY <1>1, <2>1, <2>2 DEF BatchOK, Extended
    <3> QED BY <3>1 DEF BindOK
  <2>3. CASE b.by # c \/ written = <<>>
    <3>1. Accounted(b.by) \subseteq Accounted(b.by)' /\ parsed'[b.by] = parsed[b.by]
      <4>1. written = <<>> => ToSet(written) = {}
        BY DEF ToSet
      <4> QED BY <1>2, <1>11, <2>1, <2>3, <4>1
    <3> QED BY <2>1, <3>1 DEF BindOK
  <2> QED BY <2>2, <2>3
<1>15. EvictionOK'
  BY <1>1, <1>7 DEF BooksInv, EvictionOK
<1> QED BY <1>5, <1>9, <1>10, <1>12, <1>13, <1>14, <1>15 DEF BooksInv

\* A call of query() keeps the books, whether it is written or waits.
LEMMA EnqueueKeeps ==
    ASSUME CacheTypeOK, FieldsInv, LineInv, NamesInv, BooksInv, NamesInv',
           NEW c \in Clients, NEW q \in QueryType, NEW closes \in Seq(GivenNames),
           NamedOK(q), names' \in [Clients -> Seq(EntryType)], Enqueues(c, q, closes)
    PROVE  /\ BookTypes'
           /\ \A b \in ToSet(line') : BatchOK(b)'
           /\ \A d \in Clients : \A n \in ToSet(pendingCloses'[d]) \cup Closing(d)' : n.by = d
           /\ BooksInv'
<1>1. CASE chain[c] = <<>>
  <2>1. /\ chain' \in [Clients -> Seq(QueryType)] /\ chain'[c] # <<>>
        /\ \A d \in Clients \ {c} : chain'[d] = chain[d]
        /\ Head(chain'[c]) = q
    BY <1>1, EnqueueChain DEF Enqueues
  <2>2. ~InLine(c) /\ evicting.by # c
    BY <1>1, NothingChained DEF LineInv
  <2>3. PICK written \in Seq(GivenNames) : submit(c, q, written) /\ Writes(c, closes, written)
    BY <1>1, EnqueueWrites DEF Enqueues
  <2>4. Submits(c, q, closes, written)
    BY <2>1, <2>2, <2>3 DEF Enqueues, Submits
  <2>5. BookTypes'
    BY <2>1, <2>2, <2>3, SubmitTypes
  <2> QED BY <2>1, <2>4, <2>5, SubmitKeeps
<1>2. CASE chain[c] # <<>>
  BY <1>2, QueueKeeps
<1> QED BY <1>1, <1>2

\* What a call does to the line and to the books of the others.
LEMMA EnqueueLine ==
    ASSUME CacheTypeOK, NEW c \in Clients, NEW q \in QueryType, NEW closes \in Seq(GivenNames),
           NamedOK(q), names' \in [Clients -> Seq(EntryType)], enqueue(c, q, closes)
    PROVE  /\ \/ line' = line
              \/ \E b \in BatchType : b.by = c /\ b.query = q /\ line' = Append(line, b)
           /\ \A d \in Clients : parsed'[d] \subseteq parsed[d]
           /\ \A d \in Clients \ {c} : fieldsCache'[d] = fieldsCache[d]
<1>1. PICK written \in Seq(GivenNames) :
         /\ chain[c] = <<>> => submit(c, q, written)
         /\ chain[c] # <<>> => flush(c, written) /\ UNCHANGED <<line, revived>>
  BY EnqueueWrites
<1>2. CASE chain[c] = <<>>
  <2>1. \E b \in BatchType : b.by = c /\ b.query = q /\ line' = Append(line, b)
    BY <1>1, <1>2, SubmitEffect
  <2>2. /\ parsed' = [parsed EXCEPT ![c] = {s \in parsed[c] : s.name \notin ToSet(written)}]
        /\ fieldsCache' = [fieldsCache EXCEPT ![c] = fieldsCache[c] \ ToSet(written)]
    BY <1>1, <1>2, SubmitEffect
  <2> QED BY <2>1, <2>2, TypeFacts
<1>3. CASE chain[c] # <<>>
  <2>1. /\ parsed'[c] = {s \in parsed[c] : s.name \notin ToSet(written)}
        /\ \A d \in Clients \ {c} : parsed'[d] = parsed[d] /\ fieldsCache'[d] = fieldsCache[d]
    BY <1>1, <1>3, FlushEffect
  <2> QED BY <1>1, <1>3, <2>1
<1> QED BY <1>2, <1>3

\* A query that is no connecting client's wipe takes nothing from what is said of one.
LEMMA EnqueueConnect ==
    ASSUME CacheTypeOK, ConnectInv, LineInv, NEW c \in Clients, NEW q \in QueryType,
           NEW closes \in Seq(GivenNames), NamedOK(q), names' \in [Clients -> Seq(EntryType)],
           enqueue(c, q, closes), BookTypes', q.text # "connect",
           UNCHANGED <<prepared, holder, phase, evicting>>
    PROVE  ConnectInv'
<1>1. BookTypes /\ Len(line) \in Nat
  <2>1. BookTypes
    BY TypeParts
  <2> QED BY <2>1 DEF BookTypes
<1>2. /\ \A k \in 1..Len(line') : \/ k \in 1..Len(line) /\ line'[k] = line[k]
                                  \/ line'[k].query = q
      /\ \A d \in Clients : InLine(d) => InLine(d)'
  <2>1. CASE line' = line
    BY <2>1 DEF InLine
  <2>2. CASE line' # line
    <3>1. PICK b \in BatchType : b.by = c /\ b.query = q /\ line' = Append(line, b)
      BY <2>2, EnqueueLine
    <3>2. /\ Len(line') = Len(line) + 1 /\ line'[Len(line) + 1] = b
          /\ \A k \in 1..Len(line) : line'[k] = line[k]
      BY <1>1, <3>1, AppendHolds DEF BookTypes
    <3>3. \A k \in 1..Len(line) : k \in 1..Len(line')
      BY <1>1, <3>2
    <3>4. \A d \in Clients : InLine(d) => InLine(d)'
      BY <3>2, <3>3 DEF InLine
    <3> QED BY <1>1, <3>1, <3>2, <3>4
  <2> QED BY <2>1, <2>2
<1>3. ASSUME NEW k \in 1..Len(line'), line'[k].query.text = "connect"
      PROVE  k = 1 /\ holder' = Nobody /\ \A s \in prepared' : phase'[s.name.by] # "live"
  BY <1>2, <1>3 DEF ConnectInv
<1>4. ASSUME NEW d \in Clients, NEW i \in 1..Len(chain'[d]), chain'[d][i].text = "connect"
      PROVE  i = 1 /\ (InLine(d)' \/ evicting'.by = d)
  <2>1. i \in 1..Len(chain[d]) /\ chain'[d][i] = chain[d][i]
    <3>1. CASE d = c
      <4>1. chain[c] \in Seq(QueryType) /\ chain'[c] = Append(chain[c], q)
        BY TypeFacts, EnqueueChain
      <4>2. /\ Len(chain[c]) \in Nat /\ Len(chain'[c]) = Len(chain[c]) + 1
            /\ \A j \in 1..Len(chain[c]) : chain'[c][j] = chain[c][j]
            /\ chain'[c][Len(chain[c]) + 1] = q
        BY <4>1, AppendHolds
      <4> QED BY <1>4, <3>1, <4>2
    <3>2. CASE d # c
      <4>1. chain'[d] = chain[d]
        BY <3>2, EnqueueChain
      <4> QED BY <4>1
    <3> QED BY <3>1, <3>2
  <2> QED BY <1>2, <1>4, <2>1 DEF ConnectInv
<1> QED BY <1>3, <1>4 DEF ConnectInv

\* What a call of query() keeps, whatever the generator made of the text.
LEMMA CallKeeps ==
    ASSUME CacheInv, NEW c \in Clients, Calls(c), NEW q \in QueryType,
           NEW closes \in Seq(GivenNames), NamedOK(q), q.text # "connect",
           enqueue(c, q, closes), Lets(c, closes), GenTypes', NamesInv',
           \A d \in Clients \ {c} : seq'[d] = seq[d], seq'[c] \in {seq[c], seq[c] + 1}
    PROVE  CacheInv'
<1>1. /\ phase[c] = "live" /\ calls < MaxCalls /\ calls' = calls + 1
      /\ UNCHANGED <<prepared, holder, phase, liveClientCount, evicting>>
  BY DEF Calls
<1>2. BookTypes /\ GenTypes /\ RestTypes /\ names' \in [Clients -> Seq(EntryType)]
  BY TypeParts DEF CacheInv, GenTypes
<1>3. Enqueues(c, q, closes)
  BY <1>1 DEF Enqueues, CacheInv, BooksInv
<1>4. /\ BookTypes' /\ BooksInv'
      /\ \A b \in ToSet(line') : BatchOK(b)'
      /\ \A d \in Clients : \A n \in ToSet(pendingCloses'[d]) \cup Closing(d)' : n.by = d
  BY <1>2, <1>3, EnqueueKeeps DEF CacheInv
<1>5. RestTypes'
  BY <1>1, <1>2, CacheAssumption DEF RestTypes
<1>6. /\ \A d \in Clients \ {c} : chain'[d] = chain[d]
      /\ ToSet(chain'[c]) = ToSet(chain[c]) \cup {q} /\ chain'[c] # <<>>
  BY EnqueueChain DEF CacheInv
<1>7. FieldsInv'
  <2>1. \A d \in Clients : \A p \in ToSet(chain'[d]) : NamedOK(p)
    BY <1>6 DEF CacheInv, FieldsInv
  <2>2. \A d \in Clients : seq'[d] <= calls'
    <3> SUFFICES ASSUME NEW d \in Clients PROVE seq'[d] <= calls'
      OBVIOUS
    <3>1. seq[d] <= calls /\ seq[d] \in Nat /\ calls \in Nat
      BY <1>2, CacheAssumption DEF CacheInv, FieldsInv, GenTypes, RestTypes
    <3>2. seq'[d] \in {seq[d], seq[d] + 1}
      OBVIOUS
    <3> QED BY <1>1, <3>1, <3>2
  <2> QED BY <1>4, <2>1, <2>2 DEF FieldsInv
<1>8. LineInv'
  <2>1. \A d \in Clients \ {c} : fieldsCache'[d] = fieldsCache[d]
    BY <1>2, EnqueueLine DEF CacheInv
  <2>2. \A d \in Clients : PhaseOK(d)'
    BY <1>1, <1>6, <2>1 DEF PhaseOK, CacheInv, LineInv
  <2>3. Counted' = Counted
    BY <1>1 DEF Counted
  <2> QED BY <1>1, <1>4, <1>6, <2>2, <2>3 DEF CacheInv, LineInv
<1>9. ConnectInv'
  BY <1>1, <1>2, <1>4, EnqueueConnect DEF CacheInv
<1>10. CacheTypeOK'
  BY <1>4, <1>5, <1>8, TypePartsNext
<1> QED BY <1>4, <1>7, <1>8, <1>9, <1>10 DEF CacheInv

\* A promoted, hit or merely counted text, and how it is called.
LEMMA DmlKeeps ==
    ASSUME CacheInv, NEW c \in Clients, NEW text \in Texts, queryDml(c, text)
    PROVE  CacheInv'
<1>1. /\ text # "connect" /\ CacheTypeOK /\ FieldsInv /\ NamesInv /\ Calls(c)
      /\ calls < MaxCalls /\ prepared' = prepared
      /\ text \in Texts \cup {"", "connect"}
  BY CacheAssumption DEF CacheInv, queryDml, Calls
<1>2. /\ pendingCloses[c] \in Seq(GivenNames) /\ \A n \in ToSet(pendingCloses[c]) : n.by = c
  BY <1>1, TypeFacts DEF FieldsInv
<1>3. unnamed \in GivenNames \cup {unnamed}
  OBVIOUS
<1>4. ASSUME Named(c, text), Hit(c, text),
             enqueue(c, Query("named", NameOf(c, text), text, unnamed), pendingCloses[c])
      PROVE  CacheInv'
  <2> DEFINE q == Query("named", NameOf(c, text), text, unnamed)
             e == [text |-> text, name |-> NameOf(c, text)]
  <2>1. /\ GenTypes' /\ seq' = seq /\ e \in ToSet(names[c])
        /\ \A d \in Clients : ToSet(names'[d]) = ToSet(names[d])
    BY <1>1, <1>4, HitEffect
  <2>2. Statement(e) \in ClientUses(c) /\ Statement(e) = Statement(q) /\ Statement(e) \in Uses
    BY <2>1, UsesOf DEF Statement, Query
  <2>3. NameOf(c, text) \in GivenNames
    BY <1>1, <2>2, UsesTyped DEF Statement
  <2>4. q \in QueryType /\ NamedOK(q) /\ q.text = text
    BY <1>1, <2>3 DEF Query, QueryType, Kinds, NamedOK
  <2> HIDE DEF q, e
  <2>5. enqueue(c, q, pendingCloses[c]) /\ names' \in [Clients -> Seq(EntryType)]
    BY <1>4, <2>1 DEF q, GenTypes
  <2>6. NamesInv'
    <3>1. ASSUME NEW d \in Clients PROVE ClientUses(d)' \subseteq ClientUses(d)
      <4>1. parsed'[d] \subseteq parsed[d]
        BY <1>1, <1>2, <2>4, <2>5, EnqueueLine
      <4>2. ToSet(chain'[d]) \subseteq ToSet(chain[d]) \cup (IF d = c THEN {q} ELSE {})
        BY <1>1, <2>4, <2>5, EnqueueChain
      <4> QED BY <2>1, <2>2, <4>1, <4>2 DEF ClientUses
    <3>2. prepared' \subseteq Uses
      BY <1>1 DEF Uses
    <3> QED BY <1>1, <2>1, <3>1, <3>2, NamesKept
  <2>7. Lets(c, pendingCloses[c])
    BY <1>2, <2>1 DEF Lets, GeneratorNames
  <2> QED BY <1>1, <1>2, <2>1, <2>4, <2>5, <2>6, <2>7, CallKeeps
<1>5. ASSUME Sightings(c, text) + 1 < MinUsages, Count(c, text),
             enqueue(c, Query("unnamed", unnamed, text, unnamed), pendingCloses[c])
      PROVE  CacheInv'
  <2> DEFINE q == Query("unnamed", unnamed, text, unnamed)
  <2>1. GenTypes' /\ seq' = seq /\ names' = names
    BY <1>1, <1>5, CountEffect
  <2>2. q \in QueryType /\ NamedOK(q) /\ q.text = text /\ q.kind # "named"
    BY <1>1 DEF Query, QueryType, Kinds, NamedOK
  <2> HIDE DEF q
  <2>3. enqueue(c, q, pendingCloses[c]) /\ names' \in [Clients -> Seq(EntryType)]
    BY <1>5, <2>1 DEF q, GenTypes
  <2>4. NamesInv'
    <3>1. ASSUME NEW d \in Clients PROVE ClientUses(d)' \subseteq ClientUses(d)
      <4>1. parsed'[d] \subseteq parsed[d]
        BY <1>1, <1>2, <2>2, <2>3, EnqueueLine
      <4>2. ToSet(chain'[d]) \subseteq ToSet(chain[d]) \cup {q}
        BY <1>1, <2>2, <2>3, EnqueueChain
      <4> QED BY <2>1, <2>2, <4>1, <4>2 DEF ClientUses
    <3>2. prepared' \subseteq Uses
      BY <1>1 DEF Uses
    <3> QED BY <1>1, <2>1, <3>1, <3>2, NamesKept
  <2>5. Lets(c, pendingCloses[c])
    BY <1>2, <2>1 DEF Lets, GeneratorNames
  <2> QED BY <1>1, <1>2, <2>1, <2>2, <2>3, <2>4, <2>5, CallKeeps
<1>6. ASSUME ~Named(c, text), Promote(c, text),
             enqueue(c, Query("named", names'[c][Len(names'[c])].name, text, unnamed),
                     pendingCloses[c] \o Evicted(c))
      PROVE  CacheInv'
  <2> DEFINE q == Query("named", Fresh(c), text, unnamed)
             closes == pendingCloses[c] \o Evicted(c)
             e == [text |-> text, name |-> Fresh(c)]
  <2>1. /\ GenTypes' /\ seq' = [seq EXCEPT ![c] = seq[c] + 1] /\ Fresh(c) \in GivenNames
        /\ \A d \in Clients \ {c} : names'[d] = names[d]
        /\ names'[c][Len(names'[c])].name = Fresh(c)
        /\ ToSet(names'[c]) \subseteq ToSet(names[c]) \cup {e}
        /\ Evicted(c) \in Seq(GivenNames)
        /\ GeneratorNames(c) \subseteq GeneratorNames(c)' \cup ToSet(Evicted(c))
        /\ \A n \in ToSet(Evicted(c)) : n.by = c
    BY <1>1, <1>6, PromoteEffect
  <2>2. q \in QueryType /\ NamedOK(q) /\ q.text = text
    BY <1>1, <2>1 DEF Query, QueryType, Kinds, NamedOK
  <2>3. /\ Statement(q) = [name |-> Fresh(c), text |-> text]
        /\ Statement(e) = [name |-> Fresh(c), text |-> text]
    BY DEF Statement, Query
  <2>4. closes \in Seq(GivenNames) /\ ToSet(closes) = ToSet(pendingCloses[c]) \cup ToSet(Evicted(c))
    BY <1>2, <2>1, ConcatHolds
  <2>5. enqueue(c, q, closes) /\ names' \in [Clients -> Seq(EntryType)]
    BY <1>6, <2>1 DEF GenTypes
  <2> HIDE DEF q, closes
  <2>6. \A d \in Clients : parsed'[d] \subseteq parsed[d]
    BY <1>1, <2>2, <2>4, <2>5, EnqueueLine
  <2>7. /\ \A d \in Clients \ {c} : chain'[d] = chain[d]
        /\ ToSet(chain'[c]) = ToSet(chain[c]) \cup {q}
    BY <1>1, <2>2, <2>5, EnqueueChain
  <2>8. NamesInv'
    <3>1. \A d \in Clients \ {c} : /\ ClientUses(d)' \subseteq ClientUses(d)
                                   /\ ToSet(names'[d]) \subseteq ToSet(names[d])
      BY <2>1, <2>6, <2>7 DEF ClientUses
    <3>2. ClientUses(c)' \subseteq ClientUses(c) \cup {[name |-> Fresh(c), text |-> text]}
      <4>1. parsed'[c] \subseteq parsed[c]
        BY <2>6
      <4> HIDE DEF e
      <4> QED BY <2>1, <2>3, <2>7, <4>1 DEF ClientUses
    <3> QED BY <1>1, <1>6, <2>1, <3>1, <3>2, NamesPromoted
  <2>9. Lets(c, closes)
    BY <1>2, <2>1, <2>4 DEF Lets, GeneratorNames
  <2>10. seq'[c] \in {seq[c], seq[c] + 1} /\ \A d \in Clients \ {c} : seq'[d] = seq[d]
    <3>1. seq \in [Clients -> 0..MaxCalls]
      BY <1>1, TypeParts DEF GenTypes
    <3> QED BY <2>1, <3>1
  <2> QED BY <1>1, <2>1, <2>2, <2>4, <2>5, <2>8, <2>9, <2>10, CallKeeps
<1> QED BY <1>4, <1>5, <1>6 DEF queryDml

\* A query on the simple protocol.
LEMMA SimpleKeeps ==
    ASSUME CacheInv, NEW c \in Clients, queryOther(c)
    PROVE  CacheInv'
<1>1. PICK kind \in {"simple", "deallocate", "submittable"}, scope \in Scopes \cup {unnamed} :
         querySimple(c, kind, scope)
  BY DEF queryOther
<1> DEFINE q == Query(kind, unnamed, "", scope)
<1>2. /\ CacheTypeOK /\ FieldsInv /\ NamesInv /\ Calls(c) /\ prepared' = prepared
      /\ UNCHANGED generatorVars /\ enqueue(c, q, pendingCloses[c])
  BY <1>1 DEF CacheInv, querySimple, Calls
<1>3. /\ pendingCloses[c] \in Seq(GivenNames) /\ \A n \in ToSet(pendingCloses[c]) : n.by = c
  BY <1>2, TypeFacts DEF FieldsInv
<1>4. scope \in GivenNames \cup {unnamed, everything}
  <2>1. \A s \in prepared : s.name \in GivenNames
    BY <1>2, TypeFacts
  <2> QED BY <2>1 DEF Scopes
<1>5. q \in QueryType /\ NamedOK(q) /\ q.text # "connect" /\ q.kind # "named"
  BY <1>4 DEF Query, QueryType, Kinds, NamedOK
<1> HIDE DEF q
<1>6. /\ seq' = seq /\ names' = names /\ GenTypes' /\ names' \in [Clients -> Seq(EntryType)]
  BY <1>2, TypeParts DEF generatorVars, GenTypes
<1>7. NamesInv'
  <2>1. ASSUME NEW d \in Clients PROVE ClientUses(d)' \subseteq ClientUses(d)
    <3>1. parsed'[d] \subseteq parsed[d]
      BY <1>2, <1>3, <1>5, <1>6, EnqueueLine
    <3>2. ToSet(chain'[d]) \subseteq ToSet(chain[d]) \cup {q}
      BY <1>2, <1>5, EnqueueChain
    <3> QED BY <1>5, <1>6, <3>1, <3>2 DEF ClientUses
  <2>2. prepared' \subseteq Uses
    BY <1>2 DEF Uses
  <2> QED BY <1>2, <1>6, <2>1, <2>2, NamesKept
<1>8. Lets(c, pendingCloses[c])
  BY <1>3, <1>6 DEF Lets, GeneratorNames
<1> QED BY <1>2, <1>3, <1>5, <1>6, <1>7, <1>8, CallKeeps

-----------------------------------------------------------------------------
(* The other steps of a client that touch no statement. *)

\* The chain goes on.
LEMMA SubmitNextKeeps ==
    ASSUME CacheInv, NEW c \in Clients, SubmitNext(c)
    PROVE  CacheInv'
<1> DEFINE q == Head(chain[c])
           closes == pendingCloses[c]
           handsOver == HasOrdinary(chain[c]) /\ ~handed[c]
           written == IF handsOver THEN closes ELSE <<>>
<1>1. /\ phase[c] = "live" /\ chain[c] # <<>> /\ ~InLine(c) /\ evicting.by # c
      /\ UNCHANGED <<prepared, holder, counts, names, seq, phase, chain, liveClientCount,
                     evicting, calls>>
      /\ hand(c, closes, handsOver) /\ submit(c, q, written) /\ handsOver \in BOOLEAN
  BY DEF SubmitNext, generatorVars, HasOrdinary
<1>2. CacheTypeOK /\ FieldsInv /\ LineInv /\ NamesInv /\ BooksInv /\ ConnectInv
  BY DEF CacheInv
<1>3. BookTypes /\ GenTypes /\ RestTypes
  BY <1>2, TypeParts
<1>4. /\ chain[c] \in Seq(QueryType) /\ chain' \in [Clients -> Seq(QueryType)]
      /\ closes \in Seq(GivenNames) /\ names' \in [Clients -> Seq(EntryType)]
  BY <1>1, <1>3 DEF BookTypes, GenTypes
<1>5. q \in QueryType /\ q \in ToSet(chain[c]) /\ q = chain[c][1] /\ Len(chain[c]) \in Nat \ {0}
  <2>1. ToSet(chain[c]) \subseteq QueryType
    BY <1>4, HeldBy
  <2> QED BY <1>1, <1>4, <2>1, HeldBy
<1>6. NamedOK(q) /\ \A n \in ToSet(closes) : n.by = c
  BY <1>2, <1>5 DEF FieldsInv
<1>7. q.text # "connect"
  <2>1. 1 \in 1..Len(chain[c])
    BY <1>5
  <2> QED BY <1>1, <1>2, <1>5, <2>1 DEF ConnectInv
<1> HIDE DEF q, closes, handsOver
<1> HIDE DEF written
<1>8. BookTypes' /\ Writes(c, closes, written) /\ written \in Seq(GivenNames)
  <2>1. Writes(c, closes, written)
    BY <1>1, <1>2, <1>4, HandWrites DEF written
  <2> QED BY <1>1, <1>2, <1>4, <1>5, <1>6, <2>1, SubmitTypes DEF Writes
<1>9. PICK b \in BatchType : b.by = c /\ b.query = q /\ line' = Append(line, b)
  BY <1>1, <1>2, <1>4, <1>5, <1>6, <1>8, SubmitEffect
<1>10. /\ parsed' = [parsed EXCEPT ![c] = {s \in parsed[c] : s.name \notin ToSet(written)}]
       /\ fieldsCache' = [fieldsCache EXCEPT ![c] = fieldsCache[c] \ ToSet(written)]
  BY <1>1, <1>2, <1>4, <1>5, <1>6, <1>8, SubmitEffect
<1>11. NamesInv'
  <2>1. ASSUME NEW d \in Clients PROVE ClientUses(d)' \subseteq ClientUses(d)
    <3>1. parsed'[d] \subseteq parsed[d]
      BY <1>3, <1>10 DEF BookTypes
    <3> QED BY <1>1, <3>1 DEF ClientUses
  <2>2. prepared' \subseteq Uses
    BY <1>1 DEF Uses
  <2> QED BY <1>1, <1>2, <2>1, <2>2, NamesKept
<1>12. Submits(c, q, closes, written)
  <2>1. Lets(c, closes)
    BY <1>1, <1>6 DEF Lets, GeneratorNames, closes
  <2> QED BY <1>1, <1>2, <1>8, <2>1 DEF Submits, BooksInv, q
<1>13. /\ BooksInv' /\ \A a \in ToSet(line') : BatchOK(a)'
       /\ \A d \in Clients : \A n \in ToSet(pendingCloses'[d]) \cup Closing(d)' : n.by = d
  BY <1>2, <1>4, <1>5, <1>6, <1>11, <1>12, SubmitKeeps
<1>14. FieldsInv'
  BY <1>1, <1>2, <1>13 DEF FieldsInv
<1>15. LineInv'
  <2>1. \A d \in Clients : PhaseOK(d)'
    <3> SUFFICES ASSUME NEW d \in Clients PROVE PhaseOK(d)'
      OBVIOUS
    <3>1. d # c => fieldsCache'[d] = fieldsCache[d]
      BY <1>3, <1>10 DEF BookTypes
    <3> QED BY <1>1, <1>2, <3>1 DEF PhaseOK, LineInv
  <2>2. Counted' = Counted
    BY <1>1 DEF Counted
  <2> QED BY <1>1, <1>2, <1>13, <2>1, <2>2 DEF LineInv
<1>16. ConnectInv'
  <2>1. /\ Len(line) \in Nat /\ Len(line') = Len(line) + 1 /\ line'[Len(line) + 1] = b
        /\ \A k \in 1..Len(line) : line'[k] = line[k]
    BY <1>3, <1>9, AppendHolds DEF BookTypes
  <2>2. \A k \in 1..Len(line) : k \in 1..Len(line')
    BY <2>1
  <2>3. \A d \in Clients : InLine(d) => InLine(d)'
    BY <2>1, <2>2 DEF InLine
  <2>4. ASSUME NEW k \in 1..Len(line'), line'[k].query.text = "connect"
        PROVE  k \in 1..Len(line) /\ line'[k] = line[k]
    <3>1. k # Len(line) + 1
      BY <1>7, <1>9, <2>1, <2>4
    <3> QED BY <2>1, <3>1
  <2> QED BY <1>1, <1>2, <2>3, <2>4 DEF ConnectInv
<1>17. GenTypes' /\ RestTypes'
  BY <1>1, <1>3 DEF GenTypes, RestTypes
<1>18. CacheTypeOK'
  BY <1>8, <1>15, <1>17, TypePartsNext
<1> QED BY <1>11, <1>13, <1>14, <1>15, <1>16, <1>18 DEF CacheInv

\* A query that is given up while it waits leaves the head of its chain alone.
LEMMA TimedOutKeeps ==
    ASSUME CacheInv, NEW c \in Clients, TimedOut(c)
    PROVE  CacheInv'
<1>1. PICK k \in 2..Len(chain[c]) : chain' = [chain EXCEPT ![c] = RemoveAt(chain[c], k)]
  BY DEF TimedOut
<1>2. /\ UNCHANGED <<prepared, line, holder, counts, names, seq, phase, liveClientCount,
                     evicting, calls>>
      /\ UNCHANGED <<pendingCloses, pipeline, parsed, fieldsCache, revived, handed>>
      /\ phase[c] = "live"
  BY DEF TimedOut, sessionVars, generatorVars, bookVars
<1>3. CacheTypeOK /\ FieldsInv /\ LineInv /\ NamesInv /\ BooksInv /\ ConnectInv
  BY DEF CacheInv
<1>4. BookTypes /\ GenTypes /\ RestTypes /\ chain[c] \in Seq(QueryType)
  BY <1>3, TypeParts DEF BookTypes
<1>5. Len(chain[c]) \in Nat /\ k \in 1..Len(chain[c]) /\ k # 1
  BY <1>4
<1> DEFINE r == RemoveAt(chain[c], k)
<1>6. /\ r \in Seq(QueryType) /\ Len(r) = Len(chain[c]) - 1
      /\ \A i \in 1..(Len(chain[c]) - 1) :
            r[i] = IF i < k THEN chain[c][i] ELSE chain[c][i + 1]
      /\ ToSet(r) \subseteq ToSet(chain[c]) /\ r # <<>> /\ Head(r) = Head(chain[c])
  <2> DEFINE s == chain[c]
  <2>1. s \in Seq(QueryType) /\ k \in 1..Len(s)
    BY <1>4, <1>5
  <2> HIDE DEF s
  <2>2. /\ RemoveAt(s, k) \in Seq(QueryType) /\ Len(RemoveAt(s, k)) = Len(s) - 1
        /\ \A i \in 1..(Len(s) - 1) : RemoveAt(s, k)[i] = IF i < k THEN s[i] ELSE s[i + 1]
        /\ ToSet(RemoveAt(s, k)) \subseteq ToSet(s)
        /\ k # 1 => RemoveAt(s, k) # <<>> /\ Head(RemoveAt(s, k)) = Head(s)
    BY <2>1, RemoveAtHolds
  <2> QED BY <1>5, <2>2 DEF s
<1> HIDE DEF r
<1>7. chain'[c] = r /\ \A d \in Clients \ {c} : chain'[d] = chain[d]
  BY <1>1, <1>4 DEF BookTypes, r
<1>8. /\ BookTypes' /\ GenTypes' /\ RestTypes'
  <2>1. chain' \in [Clients -> Seq(QueryType)]
    BY <1>1, <1>4, <1>6 DEF BookTypes, r
  <2> QED BY <1>2, <1>4, <2>1 DEF BookTypes, GenTypes, RestTypes, OneBatch
<1>9. \A d \in Clients : /\ ToSet(chain'[d]) \subseteq ToSet(chain[d])
                         /\ chain[d] # <<>> => chain'[d] # <<>> /\ Head(chain'[d]) = Head(chain[d])
                         /\ chain[d] = <<>> => chain'[d] = <<>>
  <2>1. chain[c] # <<>>
    BY <1>4, <1>5
  <2> QED BY <1>6, <1>7, <2>1
<1>10. FieldsInv'
  BY <1>2, <1>3, <1>9 DEF FieldsInv, Closing
<1>11. LineInv'
  <2>1. \A b \in ToSet(line) : b.by \in Clients
    <3>1. ToSet(line) \subseteq BatchType
      BY <1>4, HeldBy DEF BookTypes
    <3> QED BY <3>1 DEF BatchType
  <2>2. \A b \in ToSet(line') : BatchOK(b)'
    BY <1>2, <1>3, <1>9, <2>1 DEF LineInv, BatchOK
  <2>3. \A d \in Clients : PhaseOK(d)'
    BY <1>2, <1>3, <1>9 DEF LineInv, PhaseOK
  <2>4. Counted' = Counted
    BY <1>2 DEF Counted
  <2> QED BY <1>2, <1>3, <1>9, <2>2, <2>3, <2>4 DEF LineInv
<1>12. NamesInv'
  <2>1. \A d \in Clients : ClientUses(d)' \subseteq ClientUses(d)
    BY <1>2, <1>9 DEF ClientUses
  <2>2. prepared' \subseteq Uses
    BY <1>2 DEF Uses
  <2> QED BY <1>2, <1>3, <2>1, <2>2, NamesKept
<1>13. BooksInv'
  <2>1. \A d \in Clients : phase'[d] = "live" => BooksOK(d)'
    BY <1>2, <1>3 DEF BooksInv, BooksOK, Closing, Accounted
  <2> QED BY <1>2, <1>3, <2>1 DEF BooksInv, BindOK, EvictionOK, Accounted
<1>14. ConnectInv'
  <2>1. ASSUME NEW d \in Clients, NEW i \in 1..Len(chain'[d]), chain'[d][i].text = "connect"
        PROVE  i = 1 /\ (InLine(d)' \/ evicting'.by = d)
    <3>1. CASE d = c
      <4>1. r[i] = IF i < k THEN chain[c][i] ELSE chain[c][i + 1]
        BY <1>6, <1>7, <2>1, <3>1
      <4>2. i < k
        <5>1. ASSUME ~(i < k) PROVE FALSE
          <6>1. i + 1 \in 1..Len(chain[c]) /\ i + 1 # 1
            BY <1>5, <1>6, <1>7, <2>1, <3>1
          <6> QED BY <1>3, <1>7, <2>1, <3>1, <4>1, <5>1, <6>1 DEF ConnectInv
        <5> QED BY <5>1
      <4>3. i \in 1..Len(chain[c]) /\ chain[c][i].text = "connect"
        BY <1>5, <1>7, <2>1, <3>1, <4>1, <4>2
      <4> QED BY <1>2, <1>3, <3>1, <4>3 DEF ConnectInv, InLine
    <3>2. CASE d # c
      BY <1>2, <1>3, <1>7, <2>1, <3>2 DEF ConnectInv, InLine
    <3> QED BY <3>1, <3>2
  <2> QED BY <1>2, <1>3, <2>1 DEF ConnectInv
<1>15. CacheTypeOK'
  BY <1>8, <1>11, TypePartsNext
<1> QED BY <1>10, <1>11, <1>12, <1>13, <1>14, <1>15 DEF CacheInv

-----------------------------------------------------------------------------
(* Clients come and go. *)

\* The clients counted are finitely many.
LEMMA CountedFinite ==
    /\ IsFiniteSet(Counted) /\ Cardinality(Counted) \in Nat
    /\ Cardinality(Counted) = 0 <=> Counted = {}
<1>1. IsFiniteSet(Counted)
  BY CacheAssumption, FS_Subset DEF Counted
<1> QED BY <1>1, FS_CardinalityType, FS_EmptySet

\* A new client has no books, and the session nothing of it.
LEMMA NewBooks ==
    ASSUME CacheTypeOK, FieldsInv, LineInv, NamesInv, NEW c \in Clients, phase[c] = "new"
    PROVE  /\ BooksOK(c) /\ chain[c] = <<>> /\ \A s \in prepared : s.name.by # c
           /\ evicting.by # c /\ holder # c
<1>1. seq[c] = 0 /\ fieldsCache[c] = {} /\ chain[c] = <<>> /\ evicting.by # c /\ holder # c
  BY DEF LineInv, PhaseOK
<1>2. \A s \in Uses : s.name.by # c
  <2> SUFFICES ASSUME NEW s \in Uses, s.name.by = c PROVE FALSE
    OBVIOUS
  <2>1. s.name.seq < 0
    BY <1>1 DEF NamesInv
  <2>2. s.name.seq \in 0..MaxCalls /\ MaxCalls \in Nat
    BY UsesTyped, CacheAssumption DEF GivenNames
  <2> QED BY <2>1, <2>2
<1>3. parsed[c] = {}
  BY <1>2, UsesOf DEF NamesInv
<1>4. \A s \in prepared : s.name.by # c
  BY <1>2 DEF Uses
<1> QED BY <1>1, <1>3, <1>4 DEF BooksOK

\* With the first of all clients the session has no user.
LEMMA NobodyThere ==
    ASSUME CacheTypeOK, LineInv, liveClientCount = 0
    PROVE  /\ line = <<>> /\ holder = Nobody /\ evicting = noEviction
           /\ \A d \in Clients : phase[d] # "live" /\ chain[d] = <<>>
<1>1. BookTypes /\ RestTypes
  BY TypeParts
<1>2. \A d \in Clients : phase[d] # "live"
  BY CountedFinite DEF LineInv, Counted
<1>3. \A d \in Clients : chain[d] = <<>> /\ holder # d /\ evicting.by # d
  BY <1>2 DEF LineInv, PhaseOK
<1>4. holder = Nobody /\ evicting = noEviction
  BY <1>1, <1>3 DEF RestTypes, LineInv
<1>5. line = <<>>
  <2> SUFFICES ASSUME line # <<>> PROVE FALSE
    OBVIOUS
  <2>1. Head(line) \in ToSet(line) /\ ToSet(line) \subseteq BatchType
    BY <1>1, HeldBy DEF BookTypes
  <2>2. phase[Head(line).by] = "live" /\ Head(line).by \in Clients
    BY <2>1 DEF LineInv, BatchOK, BatchType
  <2> QED BY <1>2, <2>2
<1> QED BY <1>2, <1>3, <1>4, <1>5

\* A client connects.
LEMMA ConnectKeeps ==
    ASSUME CacheInv, NEW c \in Clients, connect(c)
    PROVE  CacheInv'
<1>1. /\ phase[c] = "new" /\ phase' = [phase EXCEPT ![c] = "live"]
      /\ liveClientCount' = liveClientCount + 1
      /\ UNCHANGED <<prepared, holder, counts, names, seq, evicting, calls>>
  BY DEF connect, generatorVars
<1>2. CacheTypeOK /\ FieldsInv /\ LineInv /\ NamesInv /\ BooksInv /\ ConnectInv
  BY DEF CacheInv
<1>3. BookTypes /\ GenTypes /\ RestTypes
  BY <1>2, TypeParts
<1>4. /\ BooksOK(c) /\ chain[c] = <<>> /\ \A s \in prepared : s.name.by # c
      /\ evicting.by # c /\ holder # c
  BY <1>1, <1>2, NewBooks
<1>5. phase'[c] = "live" /\ \A d \in Clients \ {c} : phase'[d] = phase[d]
  BY <1>1, <1>3 DEF RestTypes
<1>6. GenTypes' /\ RestTypes'
  <2>1. phase' \in [Clients -> {"new", "live", "ended", "removed"}]
    BY <1>1, <1>3 DEF RestTypes
  <2> QED BY <1>1, <1>3, <2>1 DEF GenTypes, RestTypes
<1>7. liveClientCount' = Cardinality(Counted')
  <2>1. Counted' = Counted \cup {c} /\ c \notin Counted
    BY <1>1, <1>5 DEF Counted
  <2> QED BY <1>1, <1>2, <2>1, CountedFinite, FS_AddElement DEF LineInv
<1>8. \A b \in ToSet(line) : b.by \in Clients /\ b.query \in QueryType
  <2>1. ToSet(line) \subseteq BatchType
    BY <1>3, HeldBy DEF BookTypes
  <2> QED BY <2>1 DEF BatchType
<1>9. \A s \in prepared : s.name.by \in Clients
  BY <1>3 DEF RestTypes, GivenNames
<1>10. CASE liveClientCount = 0
  <2> DEFINE q == Query("deallocate", unnamed, "connect", everything)
             closes == pendingCloses[c]
  <2>1. enqueue(c, q, closes)
    BY <1>10 DEF connect
  <2>2. /\ line = <<>> /\ holder = Nobody /\ evicting = noEviction
        /\ \A d \in Clients : phase[d] # "live" /\ chain[d] = <<>>
    BY <1>2, <1>10, NobodyThere
  <2>3. q \in QueryType /\ NamedOK(q) /\ q.kind # "named" /\ q.text = "connect"
    BY DEF Query, QueryType, Kinds, NamedOK
  <2>4. closes \in Seq(GivenNames) /\ names' \in [Clients -> Seq(EntryType)]
    BY <1>1, <1>3 DEF BookTypes, GenTypes
  <2> HIDE DEF q
  <2>5. /\ \/ line' = line
           \/ \E b \in BatchType : b.by = c /\ b.query = q /\ line' = Append(line, b)
        /\ \A d \in Clients : parsed'[d] \subseteq parsed[d]
        /\ \A d \in Clients \ {c} : fieldsCache'[d] = fieldsCache[d]
    BY <1>2, <2>1, <2>3, <2>4, EnqueueLine
  <2>6. /\ \A d \in Clients \ {c} : chain'[d] = chain[d]
        /\ chain'[c] = Append(chain[c], q) /\ chain'[c] # <<>>
        /\ ToSet(chain'[c]) = ToSet(chain[c]) \cup {q}
    BY <1>2, <2>1, <2>3, EnqueueChain
  <2>7. NamesInv'
    <3>1. \A d \in Clients : ClientUses(d)' \subseteq ClientUses(d)
      BY <1>1, <2>3, <2>5, <2>6 DEF ClientUses
    <3>2. prepared' \subseteq Uses
      BY <1>1 DEF Uses
    <3> QED BY <1>1, <1>2, <3>1, <3>2, NamesKept
  <2>8. Enqueues(c, q, closes)
    <3>1. Lets(c, closes)
      BY <1>1, <1>2 DEF Lets, GeneratorNames, FieldsInv
    <3> QED BY <1>1, <1>4, <1>5, <2>1, <3>1 DEF Enqueues
  <2>9. /\ BookTypes' /\ BooksInv' /\ \A b \in ToSet(line') : BatchOK(b)'
        /\ \A d \in Clients : \A n \in ToSet(pendingCloses'[d]) \cup Closing(d)' : n.by = d
    <3> HIDE DEF closes
    <3> QED BY <1>2, <2>3, <2>4, <2>7, <2>8, EnqueueKeeps
  <2>10. FieldsInv'
    BY <1>1, <1>2, <2>3, <2>6, <2>9 DEF FieldsInv
  <2>11. LineInv'
    <3>1. \A d \in Clients : PhaseOK(d)'
      BY <1>1, <1>2, <1>5, <2>5, <2>6 DEF LineInv, PhaseOK
    <3> QED BY <1>1, <1>2, <1>4, <1>7, <2>2, <2>6, <2>9, <3>1 DEF LineInv
  <2>12. ConnectInv'
    <3>1. PICK b \in BatchType : b.by = c /\ b.query = q /\ line' = Append(line, b)
      <4>1. PICK written \in Seq(GivenNames) : submit(c, q, written)
        BY <1>2, <1>4, <2>1, <2>3, <2>4, EnqueueWrites
      <4> QED BY <1>2, <2>3, <2>4, <4>1, SubmitEffect
    <3>2. Len(line') = 1 /\ line'[1] = b
      BY <2>2, <3>1
    <3>3. InLine(c)'
      BY <3>1, <3>2 DEF InLine
    <3>4. Len(chain'[c]) = 1
      BY <1>4, <2>6
    <3>5. \A d \in Clients \ {c} : Len(chain'[d]) = 0
      BY <2>2, <2>6
    <3>6. \A s \in prepared' : phase'[s.name.by] # "live"
      BY <1>1, <1>4, <1>5, <1>9, <2>2
    <3>7. ASSUME NEW k \in 1..Len(line')
          PROVE  k = 1 /\ holder' = Nobody
      BY <1>1, <2>2, <3>2
    <3>8. ASSUME NEW d \in Clients, NEW i \in 1..Len(chain'[d])
          PROVE  i = 1 /\ InLine(d)'
      <4>1. d = c /\ i = 1
        <5>1. CASE d = c
          <6>1. Len(chain'[d]) = 1
            BY <3>4, <5>1
          <6>2. i \in 1..1
            BY <6>1
          <6> QED BY <5>1, <6>2
        <5>2. CASE d # c
          BY <3>5, <5>2
        <5> QED BY <5>1, <5>2
      <4> QED BY <3>3, <4>1 DEF InLine
    <3> QED BY <3>6, <3>7, <3>8 DEF ConnectInv
  <2>13. CacheTypeOK'
    BY <1>6, <2>9, <2>11, TypePartsNext
  <2> QED BY <2>7, <2>9, <2>10, <2>11, <2>12, <2>13 DEF CacheInv
<1>11. CASE liveClientCount # 0
  <2>1. UNCHANGED <<line, chain, handed, pendingCloses, pipeline, parsed, fieldsCache, revived>>
    BY <1>11 DEF connect, chainVars, bookVars
  <2>2. BookTypes'
    BY <1>3, <2>1 DEF BookTypes, OneBatch
  <2>3. FieldsInv'
    BY <1>1, <1>2, <2>1 DEF FieldsInv, Closing
  <2>4. NamesInv'
    BY <1>1, <1>2, <2>1 DEF NamesInv, Uses, ClientUses
  <2>5. LineInv'
    <3>1. \A b \in ToSet(line') : BatchOK(b)'
      BY <1>1, <1>2, <1>5, <1>8, <2>1 DEF LineInv, BatchOK
    <3>2. \A d \in Clients : PhaseOK(d)'
      BY <1>1, <1>2, <1>5, <2>1 DEF LineInv, PhaseOK
    <3> QED BY <1>1, <1>2, <1>7, <2>1, <3>1, <3>2 DEF LineInv
  <2>6. BooksInv'
    <3>1. \A d \in Clients : BooksOK(d)' <=> BooksOK(d)
      BY <1>1, <2>1 DEF BooksOK, Closing, Accounted
    <3>2. \A d \in Clients : phase'[d] = "live" => BooksOK(d)'
      BY <1>2, <1>4, <1>5, <3>1 DEF BooksInv
    <3> QED BY <1>1, <1>2, <2>1, <3>2 DEF BooksInv, BindOK, EvictionOK, Accounted
  <2>7. ConnectInv'
    <3>1. \A s \in prepared : phase'[s.name.by] = phase[s.name.by]
      BY <1>4, <1>5, <1>9
    <3> QED BY <1>1, <1>2, <2>1, <3>1 DEF ConnectInv, InLine
  <2>8. CacheTypeOK'
    BY <1>6, <2>2, <2>5, TypePartsNext
  <2> QED BY <2>3, <2>4, <2>5, <2>6, <2>7, <2>8 DEF CacheInv
<1> QED BY <1>10, <1>11

\* A client ends, and its batch leaves the line.
LEMMA EndKeeps ==
    ASSUME CacheInv, NEW c \in Clients, end(c)
    PROVE  CacheInv'
<1>1. /\ phase[c] = "live" /\ evicting.by # c /\ phase' = [phase EXCEPT ![c] = "ended"]
      /\ holder' = (IF holder = c THEN Nobody ELSE holder)
      /\ chain' = [chain EXCEPT ![c] = <<>>] /\ handed' = [handed EXCEPT ![c] = FALSE]
      /\ UNCHANGED <<prepared, counts, names, seq, pendingCloses, pipeline, parsed, fieldsCache,
                     revived, liveClientCount, evicting, calls>>
  BY DEF end, generatorVars, bookVars
<1>2. CacheTypeOK /\ FieldsInv /\ LineInv /\ NamesInv /\ BooksInv /\ ConnectInv
  BY DEF CacheInv
<1>3. BookTypes /\ GenTypes /\ RestTypes
  BY <1>2, TypeParts
<1>4. /\ phase'[c] = "ended" /\ \A d \in Clients \ {c} : phase'[d] = phase[d]
      /\ chain'[c] = <<>> /\ \A d \in Clients \ {c} : chain'[d] = chain[d]
  BY <1>1, <1>3 DEF RestTypes, BookTypes
<1>5. /\ line' \in Seq(BatchType) /\ OneBatch'
      /\ ToSet(line') = {b \in ToSet(line) : b.by # c}
      /\ \A i \in 1..Len(line') : \E k \in 1..Len(line) : line'[i] = line[k] /\ (k = 1 => i = 1)
  <2>1. CASE InLine(c)
    <3> DEFINE k == CHOOSE k \in 1..Len(line) : line[k].by = c
    <3>1. k \in 1..Len(line) /\ line[k].by = c
      BY <2>1 DEF InLine
    <3>2. line' = RemoveAt(line, k)
      BY <2>1 DEF end
    <3> HIDE DEF k
    <3>3. /\ line' \in Seq(BatchType) /\ OneBatch' /\ Len(line') = Len(line) - 1
          /\ \A i \in 1..Len(line') : line'[i] = IF i < k THEN line[i] ELSE line[i + 1]
          /\ ToSet(line') = ToSet(line) \ {line[k]}
          /\ \A b \in ToSet(line') : b.by # line[k].by
      BY <1>3, <3>1, <3>2, RemoveBatch DEF BookTypes
    <3>4. ToSet(line') = {b \in ToSet(line) : b.by # c}
      BY <3>1, <3>3
    <3>5. ASSUME NEW i \in 1..Len(line')
          PROVE  \E m \in 1..Len(line) : line'[i] = line[m] /\ (m = 1 => i = 1)
      <4>1. Len(line) \in Nat
        BY <1>3 DEF BookTypes
      <4>2. i \in 1..Len(line) /\ i + 1 \in 1..Len(line) /\ i + 1 # 1
        BY <3>3, <4>1
      <4> QED BY <3>3, <4>2
    <3> QED BY <3>3, <3>4, <3>5
  <2>2. CASE ~InLine(c)
    <3>1. line' = line
      BY <2>2 DEF end
    <3>2. \A b \in ToSet(line) : b.by # c
      BY <1>3, <2>2, InLineMembers DEF BookTypes
    <3> QED BY <1>3, <3>1, <3>2 DEF BookTypes, OneBatch
  <2> QED BY <2>1, <2>2
<1>6. BookTypes' /\ GenTypes' /\ RestTypes'
  <2>1. <<>> \in Seq(QueryType)
    BY EmptySeq
  <2>2. chain' \in [Clients -> Seq(QueryType)] /\ handed' \in [Clients -> BOOLEAN]
    BY <1>1, <1>3, <2>1 DEF BookTypes
  <2>3. /\ phase' \in [Clients -> {"new", "live", "ended", "removed"}]
        /\ holder' \in Clients \cup {Nobody}
    BY <1>1, <1>3 DEF RestTypes
  <2> QED BY <1>1, <1>3, <1>5, <2>2, <2>3 DEF BookTypes, GenTypes, RestTypes
<1>7. \A b \in ToSet(line) : b.by \in Clients /\ b.query \in QueryType
  <2>1. ToSet(line) \subseteq BatchType
    BY <1>3, HeldBy DEF BookTypes
  <2> QED BY <2>1 DEF BatchType
<1>8. ASSUME NEW d \in Clients
      PROVE  Closing(d)' \subseteq Closing(d) /\ (d # c => Closing(d)' = Closing(d))
  <2>1. line \in Seq(BatchType) /\ line' \in Seq(BatchType) /\ pipeline' = pipeline
    BY <1>1, <1>3, <1>5 DEF BookTypes
  <2>2. Closing(d) = ToSet(pipeline[d])
                     \cup {n \in GivenNames : \E a \in ToSet(line) :
                                                 a.by = d /\ n \in ToSet(a.closes)}
    BY <2>1, ClosingMembers
  <2>3. Closing(d)' = ToSet(pipeline'[d])
                      \cup {n \in GivenNames : \E a \in ToSet(line') :
                                                  a.by = d /\ n \in ToSet(a.closes)}
    BY <2>1, ClosingMembersNext
  <2>4. \A a \in ToSet(line) : a.by = d /\ d # c => a \in ToSet(line')
    BY <1>5
  <2>5. ToSet(line') \subseteq ToSet(line)
    BY <1>5
  <2> QED BY <2>1, <2>2, <2>3, <2>4, <2>5
<1>9. FieldsInv'
  <2>1. \A d \in Clients : ToSet(chain'[d]) \subseteq ToSet(chain[d])
    BY <1>4 DEF ToSet
  <2> QED BY <1>1, <1>2, <1>8, <2>1 DEF FieldsInv
<1>10. LineInv'
  <2>1. \A b \in ToSet(line') : BatchOK(b)'
    BY <1>1, <1>2, <1>4, <1>5, <1>7 DEF LineInv, BatchOK
  <2>2. \A d \in Clients : PhaseOK(d)'
    <3>1. PhaseOK(c)'
      <4>1. c # Nobody
        BY CacheAssumption
      <4> QED BY <1>1, <1>4, <4>1 DEF PhaseOK
    <3>2. ASSUME NEW d \in Clients, d # c PROVE PhaseOK(d)'
      <4>1. holder' = d => holder = d
        BY <1>1, CacheAssumption
      <4> QED BY <1>1, <1>2, <1>4, <3>2, <4>1 DEF LineInv, PhaseOK
    <3> QED BY <3>1, <3>2
  <2>3. Counted' = Counted
    BY <1>1, <1>4 DEF Counted
  <2> QED BY <1>1, <1>2, <1>4, <2>1, <2>2, <2>3 DEF LineInv
<1>11. NamesInv'
  <2>1. \A d \in Clients : ClientUses(d)' \subseteq ClientUses(d)
    <3>1. ToSet(chain'[c]) = {}
      BY <1>4 DEF ToSet
    <3> QED BY <1>1, <1>4, <3>1 DEF ClientUses
  <2>2. prepared' \subseteq Uses
    BY <1>1 DEF Uses
  <2> QED BY <1>1, <1>2, <2>1, <2>2, NamesKept
<1>12. BooksInv'
  <2>1. ASSUME NEW d \in Clients, phase'[d] = "live" PROVE BooksOK(d)'
    <3>1. d # c /\ phase[d] = "live"
      BY <1>4, <2>1
    <3>2. SameBooks(d)
      BY <1>1, <1>8, <3>1 DEF SameBooks, Accounted
    <3> QED BY <1>1, <1>2, <3>1, <3>2, BooksKept DEF BooksInv
  <2>2. \A b \in ToSet(line') : BindOK(b)'
    BY <1>1, <1>2, <1>5 DEF BooksInv, BindOK, Accounted
  <2>3. EvictionOK'
    BY <1>1, <1>2, <1>5 DEF BooksInv, EvictionOK
  <2> QED BY <2>1, <2>2, <2>3 DEF BooksInv
<1>13. ConnectInv'
  <2>1. \A s \in prepared : s.name.by \in Clients
    BY <1>3 DEF RestTypes, GivenNames
  <2>2. ASSUME NEW i \in 1..Len(line'), line'[i].query.text = "connect"
        PROVE  i = 1 /\ holder' = Nobody /\ \A s \in prepared' : phase'[s.name.by] # "live"
    <3>1. PICK k \in 1..Len(line) : line'[i] = line[k] /\ (k = 1 => i = 1)
      BY <1>5
    <3>2. k = 1 /\ holder = Nobody /\ \A s \in prepared : phase[s.name.by] # "live"
      BY <1>2, <2>2, <3>1 DEF ConnectInv
    <3> QED BY <1>1, <1>4, <2>1, <3>1, <3>2
  <2>3. ASSUME NEW d \in Clients, NEW i \in 1..Len(chain'[d]), chain'[d][i].text = "connect"
        PROVE  i = 1 /\ (InLine(d)' \/ evicting'.by = d)
    <3>1. d # c
      <4>1. Len(chain'[c]) = 0
        BY <1>4
      <4> QED BY <2>3, <4>1
    <3>2. i = 1 /\ (InLine(d) \/ evicting.by = d)
      BY <1>2, <1>4, <2>3, <3>1 DEF ConnectInv
    <3>3. InLine(d) => InLine(d)'
      BY <1>3, <1>5, <3>1, InLineMembers, InLineMembersNext DEF BookTypes
    <3> QED BY <1>1, <3>2, <3>3
  <2> QED BY <2>2, <2>3 DEF ConnectInv
<1>14. CacheTypeOK'
  BY <1>6, <1>10, TypePartsNext
<1> QED BY <1>9, <1>10, <1>11, <1>12, <1>13, <1>14 DEF CacheInv

\* The pool takes note of a client that is gone.
LEMMA RemoveKeeps ==
    ASSUME CacheInv, NEW c \in Clients, remove(c)
    PROVE  CacheInv'
<1>1. /\ phase[c] = "ended" /\ phase' = [phase EXCEPT ![c] = "removed"]
      /\ liveClientCount' = liveClientCount - 1
      /\ UNCHANGED <<prepared, line, holder, counts, names, seq, pendingCloses, pipeline, parsed,
                     fieldsCache, revived, chain, handed, evicting, calls>>
  BY DEF remove, sessionVars, generatorVars, bookVars, chainVars
<1>2. CacheTypeOK /\ FieldsInv /\ LineInv /\ NamesInv /\ BooksInv /\ ConnectInv
  BY DEF CacheInv
<1>3. BookTypes /\ GenTypes /\ RestTypes
  BY <1>2, TypeParts
<1>4. phase'[c] = "removed" /\ \A d \in Clients \ {c} : phase'[d] = phase[d]
  BY <1>1, <1>3 DEF RestTypes
<1>5. liveClientCount' = Cardinality(Counted')
  <2>1. Counted' = Counted \ {c} /\ c \in Counted
    BY <1>1, <1>4 DEF Counted
  <2> QED BY <1>1, <1>2, <2>1, CountedFinite, FS_RemoveElement DEF LineInv
<1>6. BookTypes' /\ GenTypes' /\ RestTypes'
  <2>1. phase' \in [Clients -> {"new", "live", "ended", "removed"}]
    BY <1>1, <1>3 DEF RestTypes
  <2> QED BY <1>1, <1>3, <2>1 DEF BookTypes, GenTypes, RestTypes, OneBatch
<1>7. LineInv'
  <2>1. \A b \in ToSet(line) : b.by \in Clients
    <3>1. ToSet(line) \subseteq BatchType
      BY <1>3, HeldBy DEF BookTypes
    <3> QED BY <3>1 DEF BatchType
  <2>2. \A b \in ToSet(line') : BatchOK(b)'
    BY <1>1, <1>2, <1>4, <2>1 DEF LineInv, BatchOK
  <2>3. \A d \in Clients : PhaseOK(d)'
    BY <1>1, <1>2, <1>4 DEF LineInv, PhaseOK
  <2> QED BY <1>1, <1>2, <1>5, <2>2, <2>3 DEF LineInv
<1>8. FieldsInv' /\ NamesInv'
  BY <1>1, <1>2 DEF FieldsInv, Closing, NamesInv, Uses, ClientUses
<1>9. BooksInv'
  <2>1. \A d \in Clients : BooksOK(d)' <=> BooksOK(d)
    BY <1>1 DEF BooksOK, Closing, Accounted
  <2>2. \A d \in Clients : phase'[d] = "live" => BooksOK(d)'
    BY <1>2, <1>4, <2>1 DEF BooksInv
  <2> QED BY <1>1, <1>2, <2>2 DEF BooksInv, BindOK, EvictionOK, Accounted
<1>10. ConnectInv'
  <2>1. \A s \in prepared : phase[s.name.by] # "live" => phase'[s.name.by] # "live"
    <3>1. \A s \in prepared : s.name.by \in Clients
      BY <1>3 DEF RestTypes, GivenNames
    <3> QED BY <1>4, <3>1
  <2> QED BY <1>1, <1>2, <2>1 DEF ConnectInv, InLine
<1>11. CacheTypeOK'
  BY <1>6, <1>7, TypePartsNext
<1> QED BY <1>7, <1>8, <1>9, <1>10, <1>11 DEF CacheInv

-----------------------------------------------------------------------------
(* A batch leaves the line because it ran. *)

\* All that may happen to a batch that waits: it is overtaken.
SameBatch(a, b) == /\ a.by = b.by /\ a.query = b.query /\ a.parse = b.parse
                   /\ a.closes = b.closes /\ (b.raced => a.raced)

\* Batch k leaves the line; of the others some may be overtaken.
Leaves(k) ==
    /\ line' \in Seq(BatchType) /\ OneBatch'
    /\ \A a \in ToSet(line') : a.by # line[k].by /\ \E b \in ToSet(line) : SameBatch(a, b)
    /\ \A b \in ToSet(line) : b.by # line[k].by => \E a \in ToSet(line') : SameBatch(a, b)
    /\ \A i \in 1..Len(line') : \E j \in 1..Len(line) \ {k} :
          line'[i].query = line[j].query /\ (j = 1 => i = 1)

\* What is known of a batch in the line.
LEMMA BatchFacts ==
    ASSUME CacheTypeOK, FieldsInv, LineInv, NEW k \in 1..Len(line)
    PROVE  /\ line[k] \in ToSet(line) /\ line[k] \in BatchType /\ line[k].by \in Clients
           /\ phase[line[k].by] = "live" /\ evicting.by # line[k].by
           /\ chain[line[k].by] # <<>> /\ line[k].query = Head(chain[line[k].by])
           /\ line[k].query \in ToSet(chain[line[k].by]) /\ NamedOK(line[k].query)
           /\ IF Extended(line[k].query) THEN pipeline[line[k].by] = <<>>
              ELSE line[k].closes = <<>>
           /\ \A b \in ToSet(line) : b.by = line[k].by => b = line[k]
<1>1. BookTypes
  BY TypeParts
<1>2. ToSet(line) = {line[j] : j \in 1..Len(line)} /\ ToSet(line) \subseteq BatchType
  BY <1>1, HeldBy DEF BookTypes
<1>3. line[k] \in ToSet(line) /\ line[k] \in BatchType /\ line[k].by \in Clients
  BY <1>2 DEF BatchType
<1>4. BatchOK(line[k])
  BY <1>3 DEF LineInv
<1>5. Head(chain[line[k].by]) \in ToSet(chain[line[k].by])
  BY <1>1, <1>3, <1>4, HeldBy DEF BookTypes, BatchOK
<1>6. NamedOK(line[k].query)
  BY <1>3, <1>4, <1>5 DEF FieldsInv, BatchOK
<1>7. \A b \in ToSet(line) : b.by = line[k].by => b = line[k]
  BY <1>1, <1>2 DEF BookTypes, OneBatch
<1> QED BY <1>3, <1>4, <1>5, <1>6, <1>7 DEF BatchOK

\* A response takes its batch out of the line.
LEMMA ResponseLeaves ==
    ASSUME CacheTypeOK, NEW k \in 1..Len(line), line' = RemoveAt(line, k)
    PROVE  Leaves(k)
<1>1. line \in Seq(BatchType) /\ OneBatch /\ Len(line) \in Nat
  <2>1. line \in Seq(BatchType) /\ OneBatch
    BY TypeFacts
  <2> QED BY <2>1
<1>2. /\ line' \in Seq(BatchType) /\ OneBatch' /\ Len(line') = Len(line) - 1
      /\ \A i \in 1..Len(line') : line'[i] = IF i < k THEN line[i] ELSE line[i + 1]
      /\ ToSet(line') = ToSet(line) \ {line[k]}
      /\ \A b \in ToSet(line') : b.by # line[k].by
  BY <1>1, RemoveBatch
<1>3. \A b : SameBatch(b, b)
  BY DEF SameBatch
<1>4. ASSUME NEW i \in 1..Len(line')
      PROVE  \E j \in 1..Len(line) \ {k} : line'[i].query = line[j].query /\ (j = 1 => i = 1)
  <2>1. CASE i < k
    BY <1>1, <1>2, <2>1
  <2>2. CASE ~(i < k)
    <3>1. i + 1 \in 1..Len(line) \ {k} /\ i + 1 # 1
      BY <1>1, <1>2, <2>2
    <3> QED BY <1>2, <2>2, <3>1
  <2> QED BY <2>1, <2>2
<1> QED BY <1>2, <1>3, <1>4 DEF Leaves

\* A DEALLOCATE takes its batch out of the line, and overtakes those that bind
\* what it takes away.
LEMMA RacedLeaves ==
    ASSUME CacheTypeOK, NEW k \in 1..Len(line), NEW scope,
           line' = Raced(RemoveAt(line, k), scope)
    PROVE  /\ Leaves(k)
           /\ \A a \in ToSet(line') : Covers(scope, a.query.name) => a.raced
<1> DEFINE r == RemoveAt(line, k)
           late(b) == IF Covers(scope, b.query.name) THEN [b EXCEPT !.raced = TRUE] ELSE b
<1>1. line \in Seq(BatchType) /\ OneBatch /\ Len(line) \in Nat
  <2>1. line \in Seq(BatchType) /\ OneBatch
    BY TypeFacts
  <2> QED BY <2>1
<1>2. /\ r \in Seq(BatchType) /\ Len(r) = Len(line) - 1
      /\ \A i \in 1..(Len(line) - 1) : r[i] = IF i < k THEN line[i] ELSE line[i + 1]
  BY <1>1, RemoveAtHolds
<1>3. /\ line' = [i \in 1..Len(r) |-> late(r[i])] /\ Len(r) \in Nat
  BY <1>1, <1>2 DEF Raced
<1> HIDE DEF r
<1>4. ASSUME NEW b \in BatchType
      PROVE  /\ late(b) \in BatchType /\ SameBatch(late(b), b)
             /\ Covers(scope, late(b).query.name) => late(b).raced
  BY DEF BatchType, SameBatch
<1> HIDE DEF late
<1>5. \A i \in 1..Len(r) : r[i] \in BatchType
  BY <1>2, ElementOfSeq
<1>6. line' \in Seq(BatchType) /\ Len(line') = Len(r)
  BY <1>3, <1>4, <1>5
<1>7. \A i \in 1..Len(line') : /\ line'[i] = late(r[i]) /\ r[i] \in BatchType
                               /\ SameBatch(line'[i], r[i])
                               /\ Covers(scope, line'[i].query.name) => line'[i].raced
  BY <1>3, <1>4, <1>5, <1>6
<1>8. /\ ToSet(line') = {line'[i] : i \in 1..Len(line')}
      /\ ToSet(line) = {line[i] : i \in 1..Len(line)}
  <2>1. ToSet(line') = {line'[i] : i \in 1..Len(line')}
    BY <1>6, HeldBy
  <2>2. ToSet(line) = {line[i] : i \in 1..Len(line)}
    BY <1>1, HeldBy
  <2> QED BY <2>1, <2>2
<1>9. ASSUME NEW i \in 1..Len(line')
      PROVE  \E j \in 1..Len(line) \ {k} : /\ r[i] = line[j] /\ (j = 1 => i = 1)
                                           /\ j = IF i < k THEN i ELSE i + 1
  BY <1>1, <1>2, <1>6
<1>10. OneBatch'
  <2>1. ASSUME NEW i \in 1..Len(line'), NEW j \in 1..Len(line'), line'[i].by = line'[j].by
        PROVE  i = j
    <3>1. PICK m \in 1..Len(line) : r[i] = line[m] /\ m = IF i < k THEN i ELSE i + 1
      BY <1>9
    <3>2. PICK n \in 1..Len(line) : r[j] = line[n] /\ n = IF j < k THEN j ELSE j + 1
      BY <1>9
    <3>3. m = n
      BY <1>1, <1>7, <2>1, <3>1, <3>2 DEF OneBatch, SameBatch
    <3> QED BY <1>1, <1>2, <1>6, <3>1, <3>2, <3>3
  <2> QED BY <2>1 DEF OneBatch
<1>11. \A a \in ToSet(line') : /\ a.by # line[k].by /\ \E b \in ToSet(line) : SameBatch(a, b)
                               /\ Covers(scope, a.query.name) => a.raced
  <2> SUFFICES ASSUME NEW i \in 1..Len(line')
               PROVE  /\ line'[i].by # line[k].by /\ \E b \in ToSet(line) : SameBatch(line'[i], b)
                      /\ Covers(scope, line'[i].query.name) => line'[i].raced
    BY <1>8
  <2>1. PICK j \in 1..Len(line) \ {k} : r[i] = line[j]
    BY <1>9
  <2>2. line[j].by # line[k].by
    BY <1>1, <2>1 DEF OneBatch
  <2> QED BY <1>7, <1>8, <2>1, <2>2 DEF SameBatch
<1>12. ASSUME NEW b \in ToSet(line), b.by # line[k].by
       PROVE  \E a \in ToSet(line') : SameBatch(a, b)
  <2>1. PICK j \in 1..Len(line) : b = line[j] /\ j # k
    BY <1>8, <1>12
  <2>2. \E i \in 1..Len(line') : r[i] = line[j]
    <3>1. CASE j < k
      BY <1>1, <1>2, <1>6, <2>1, <3>1
    <3>2. CASE j > k
      <4>1. j - 1 \in 1..(Len(line) - 1) /\ ~(j - 1 < k) /\ (j - 1) + 1 = j
        BY <1>1, <3>2
      <4> QED BY <1>2, <1>6, <4>1
    <3> QED BY <1>1, <2>1, <3>1, <3>2
  <2> QED BY <1>7, <1>8, <2>1, <2>2
<1>13. \A i \in 1..Len(line') : \E j \in 1..Len(line) \ {k} :
          line'[i].query = line[j].query /\ (j = 1 => i = 1)
  BY <1>7, <1>9 DEF SameBatch
<1> QED BY <1>6, <1>10, <1>11, <1>12, <1>13 DEF Leaves

\* The Closes of the batch have reached PGlite.
LEMMA LeavesClosing ==
    ASSUME CacheTypeOK, FieldsInv, LineInv, NEW k \in 1..Len(line), Leaves(k),
           pipeline' = pipeline, NEW c \in Clients, c = line[k].by
    PROVE  /\ Closing(c) = ToSet(pipeline[c]) \cup ToSet(line[k].closes)
           /\ Closing(c)' = ToSet(pipeline[c])
           /\ \A d \in Clients : d # c => Closing(d)' = Closing(d)
<1> DEFINE b == line[k]
<1>1. /\ b \in ToSet(line) /\ b \in BatchType /\ b.by = c
      /\ \A a \in ToSet(line) : a.by = c => a = b
  BY BatchFacts
<1>2. line \in Seq(BatchType) /\ line' \in Seq(BatchType)
  BY TypeFacts DEF Leaves
<1>3. ToSet(b.closes) \subseteq GivenNames
  <2>1. b.closes \in Seq(GivenNames)
    BY <1>1 DEF BatchType
  <2> QED BY <2>1, HeldBy
<1>4. Closing(c) = ToSet(pipeline[c]) \cup ToSet(b.closes)
  <2> HIDE DEF b
  <2> QED BY <1>1, <1>2, <1>3, ClosingMembers
<1>5. Closing(c)' = ToSet(pipeline[c])
  <2>1. \A a \in ToSet(line') : a.by # c
    BY DEF Leaves
  <2>2. Closing(c)' = ToSet(pipeline'[c])
                      \cup {n \in GivenNames : \E a \in ToSet(line') :
                                                  a.by = c /\ n \in ToSet(a.closes)}
    BY <1>2, ClosingMembersNext
  <2> QED BY <2>1, <2>2
<1>6. ASSUME NEW d \in Clients, d # c PROVE Closing(d)' = Closing(d)
  <2>1. \A n : (\E a \in ToSet(line') : a.by = d /\ n \in ToSet(a.closes))
               <=> (\E a \in ToSet(line) : a.by = d /\ n \in ToSet(a.closes))
    <3>1. ASSUME NEW n, NEW a \in ToSet(line'), a.by = d, n \in ToSet(a.closes)
          PROVE  \E e \in ToSet(line) : e.by = d /\ n \in ToSet(e.closes)
      BY <3>1 DEF Leaves, SameBatch
    <3>2. ASSUME NEW n, NEW a \in ToSet(line), a.by = d, n \in ToSet(a.closes)
          PROVE  \E e \in ToSet(line') : e.by = d /\ n \in ToSet(e.closes)
      BY <1>6, <3>2 DEF Leaves, SameBatch
    <3> QED BY <3>1, <3>2
  <2>2. Closing(d) = ToSet(pipeline[d])
                     \cup {n \in GivenNames : \E a \in ToSet(line) :
                                                 a.by = d /\ n \in ToSet(a.closes)}
    BY <1>2, ClosingMembers
  <2>3. Closing(d)' = ToSet(pipeline'[d])
                      \cup {n \in GivenNames : \E a \in ToSet(line') :
                                                  a.by = d /\ n \in ToSet(a.closes)}
    BY <1>2, ClosingMembersNext
  <2> QED BY <2>1, <2>2, <2>3
<1> QED BY <1>4, <1>5, <1>6

\* The batches that stay are as they were.
LEMMA LeavesLine ==
    ASSUME CacheTypeOK, FieldsInv, LineInv, NEW k \in 1..Len(line), Leaves(k),
           UNCHANGED <<phase, pipeline>>, evicting'.by \in {evicting.by, line[k].by},
           \A d \in Clients : d # line[k].by => chain'[d] = chain[d]
    PROVE  \A a \in ToSet(line') : BatchOK(a)'
<1>1. line[k].by \in Clients /\ ToSet(line) \subseteq BatchType
  <2>1. line \in Seq(BatchType)
    BY TypeFacts
  <2> QED BY <2>1, BatchFacts, HeldBy
<1> SUFFICES ASSUME NEW a \in ToSet(line') PROVE BatchOK(a)'
  OBVIOUS
<1>2. PICK b \in ToSet(line) : SameBatch(a, b)
  BY DEF Leaves
<1>3. a.by # line[k].by
  BY DEF Leaves
<1>4. b.by \in Clients /\ BatchOK(b) /\ b.by = a.by /\ b.query = a.query /\ b.closes = a.closes
  BY <1>1, <1>2 DEF LineInv, SameBatch, BatchType
<1> QED BY <1>3, <1>4 DEF BatchOK

\* A chain whose head has settled.
LEMMA SettleFacts ==
    ASSUME CacheTypeOK, ConnectInv, NEW c \in Clients, chain[c] # <<>>, Settle(c)
    PROVE  /\ chain' \in [Clients -> Seq(QueryType)] /\ handed' \in [Clients -> BOOLEAN]
           /\ \A d \in Clients : d # c => chain'[d] = chain[d]
           /\ \A d \in Clients : ToSet(chain'[d]) \subseteq ToSet(chain[d])
           /\ \A i \in 1..Len(chain'[c]) : chain'[c][i].text # "connect"
<1>1. chain \in [Clients -> Seq(QueryType)] /\ chain[c] \in Seq(QueryType)
  BY TypeFacts
<1>2. /\ chain' = [chain EXCEPT ![c] = Tail(chain[c])]
      /\ handed' = [handed EXCEPT ![c] = handed[c] /\ ~Ordinary(Head(chain[c]))]
  BY DEF Settle
<1> DEFINE s == chain[c]
           r == Tail(chain[c])
<1>3. /\ r \in Seq(QueryType) /\ Len(r) = Len(s) - 1 /\ Len(s) \in Nat
      /\ \A i \in 1..Len(r) : r[i] = s[i + 1]
      /\ ToSet(r) \subseteq ToSet(s)
  BY <1>1, TailHolds
<1>4. chain'[c] = r /\ \A d \in Clients : d # c => chain'[d] = chain[d]
  BY <1>1, <1>2
<1>5. chain' \in [Clients -> Seq(QueryType)] /\ handed' \in [Clients -> BOOLEAN]
  <2>1. chain' \in [Clients -> Seq(QueryType)]
    BY <1>1, <1>2, <1>3
  <2> QED BY <1>2, <2>1, TypeFacts
<1>6. ASSUME NEW i \in 1..Len(r) PROVE r[i].text # "connect"
  <2>1. i + 1 \in 1..Len(s) /\ i + 1 # 1
    BY <1>3
  <2>2. s[i + 1].text # "connect"
    BY <2>1 DEF ConnectInv
  <2> QED BY <1>3, <2>2
<1> HIDE DEF r
<1> QED BY <1>3, <1>4, <1>5, <1>6

\* The turn of a batch is that of a connecting client's wipe, or there is none.
LEMMA LeavesConnect ==
    ASSUME CacheTypeOK, FieldsInv, LineInv, ConnectInv, NEW k \in 1..Len(line), Turn(k), Leaves(k),
           \A d \in Clients : d # line[k].by => chain'[d] = chain[d],
           \/ \A i \in 1..Len(chain'[line[k].by]) : chain'[line[k].by][i].text # "connect"
           \/ chain'[line[k].by] = chain[line[k].by] /\ evicting'.by = line[k].by
    PROVE  ConnectInv'
<1> DEFINE c == line[k].by
<1>1. line \in Seq(BatchType) /\ line' \in Seq(BatchType) /\ c \in Clients
  BY TypeFacts, BatchFacts DEF Leaves
<1>2. ASSUME NEW i \in 1..Len(line'), line'[i].query.text = "connect" PROVE FALSE
  <2>1. PICK j \in 1..Len(line) \ {k} : line'[i].query = line[j].query
    BY DEF Leaves
  <2>2. j = 1 /\ holder = Nobody
    BY <1>2, <2>1 DEF ConnectInv
  <2> QED BY <2>1, <2>2 DEF Turn
<1>3. ASSUME NEW d \in Clients, NEW i \in 1..Len(chain'[d]), chain'[d][i].text = "connect"
      PROVE  i = 1 /\ (InLine(d)' \/ evicting'.by = d)
  <2>1. CASE d = c
    BY <1>3, <2>1 DEF ConnectInv
  <2>2. CASE d # c
    <3>1. i = 1 /\ (InLine(d) \/ evicting.by = d)
      BY <1>3, <2>2 DEF ConnectInv
    <3>2. evicting.by # d
      BY CacheAssumption DEF Turn, noEviction
    <3>3. PICK b \in ToSet(line) : b.by = d
      BY <1>1, <3>1, <3>2, InLineMembers
    <3>4. \E a \in ToSet(line') : a.by = d
      BY <2>2, <3>3 DEF Leaves, SameBatch
    <3> QED BY <1>1, <3>1, <3>4, InLineMembersNext
  <2> QED BY <2>1, <2>2
<1> QED BY <1>2, <1>3 DEF ConnectInv

\* What a response leaves of the books: the statement that the batch prepared is in
\* them, everything else of other clients is as it was.
Answers(k, P) ==
    LET b == line[k]
    IN  /\ Turn(k) /\ Responds(k) /\ P \subseteq {Statement(b.query)}
        /\ P # {} => b.query.kind = "named" /\ b.parse
        /\ prepared' = AfterCloses(b) \cup P
        /\ parsed' = [parsed EXCEPT ![b.by] = parsed[b.by] \cup P]
        /\ \/ fieldsCache' = fieldsCache
           \/ /\ fieldsCache' = [fieldsCache EXCEPT ![b.by] = fieldsCache[b.by] \cup {b.query.name}]
              /\ b.query.kind = "named" /\ Known(parsed'[b.by], b.query.name)
        /\ holder' \in {holder, b.by, Nobody}

\* While no DEALLOCATE is under way, the books of a live client are prepared.
LEMMA BooksPrepared ==
    ASSUME CacheTypeOK, BooksInv, evicting = noEviction, NEW c \in Clients, phase[c] = "live"
    PROVE  parsed[c] \subseteq prepared
<1>1. \A s \in parsed[c] : s.name # unnamed /\ s.name # everything
  <2>1. parsed[c] \subseteq [name : GivenNames, text : Texts]
    BY TypeFacts
  <2>2. \A n \in GivenNames : n # unnamed /\ n # everything
    BY CacheAssumption DEF GivenNames, unnamed, everything
  <2> QED BY <2>1, <2>2
<1>2. unnamed # everything
  BY DEF unnamed, everything
<1> QED BY <1>1, <1>2 DEF BooksInv, BooksOK, Covers, noEviction

\* What was prepared with a Parse in the queue is in use, and accounted for.
LEMMA AnswerFacts ==
    ASSUME CacheInv, NEW k \in 1..Len(line), NEW P, Answers(k, P)
    PROVE  /\ P \subseteq ClientUses(line[k].by) /\ P \subseteq [name : GivenNames, text : Texts]
           /\ \A s \in P : s.name.by = line[k].by /\ s.name \in Accounted(line[k].by)
           /\ P # {} => pipeline[line[k].by] = <<>>
           /\ \A n \in ToSet(line[k].closes) : n.by = line[k].by
<1> DEFINE b == line[k]
           c == line[k].by
           q == line[k].query
<1>1. CacheTypeOK /\ FieldsInv /\ LineInv /\ NamesInv /\ BooksInv
  BY DEF CacheInv
<1>2. /\ b \in ToSet(line) /\ b \in BatchType /\ c \in Clients /\ q \in ToSet(chain[c])
      /\ NamedOK(q) /\ IF Extended(q) THEN pipeline[c] = <<>> ELSE b.closes = <<>>
  BY <1>1, BatchFacts
<1>3. P # {} => q.kind = "named" /\ b.parse /\ P \subseteq {Statement(q)}
  BY DEF Answers
<1>4. P # {} => Statement(q) \in ClientUses(c) /\ q.name \in GivenNames /\ q.text \in Texts
  BY <1>2, <1>3, UsesOf DEF NamedOK
<1>5. P # {} => q.name.by = c /\ q.name \in Accounted(c)
  <2>1. BindOK(b)
    BY <1>1, <1>2 DEF BooksInv
  <2>2. P # {} => Statement(q).name.by = c
    BY <1>1, <1>2, <1>4 DEF NamesInv
  <2> QED BY <1>3, <2>1, <2>2 DEF BindOK, Statement
<1>6. \A n \in ToSet(b.closes) : n.by = c
  <2>1. \A n \in ToSet(b.closes) : n \in Closing(c)
    <3>1. line \in Seq(BatchType)
      BY <1>1, TypeFacts
    <3>2. ToSet(b.closes) \subseteq GivenNames
      <4>1. b.closes \in Seq(GivenNames)
        BY <1>2 DEF BatchType
      <4> QED BY <4>1, HeldBy
    <3> QED BY <1>2, <3>1, <3>2, ClosingMembers
  <2> QED BY <1>1, <1>2, <2>1 DEF FieldsInv
<1> QED BY <1>2, <1>3, <1>4, <1>5, <1>6 DEF Statement, Extended

\* A response keeps the books right.
LEMMA AnswerBooks ==
    ASSUME CacheInv, NEW k \in 1..Len(line), NEW P, Answers(k, P)
    PROVE  BooksInv'
<1>1. CacheTypeOK /\ FieldsInv /\ LineInv /\ NamesInv /\ BooksInv
  BY DEF CacheInv
<1>2. PICK c \in Clients : c = line[k].by
  BY <1>1, BatchFacts
<1>3. PICK closes : closes = ToSet(line[k].closes)
  OBVIOUS
<1>4. PICK name : name = line[k].query.name
  OBVIOUS
<1>5. /\ phase[c] = "live" /\ evicting = noEviction /\ Leaves(k)
      /\ UNCHANGED <<names, pendingCloses, pipeline, revived, phase, evicting>>
  BY <1>1, <1>2, BatchFacts, ResponseLeaves DEF Answers, Turn, Responds, generatorVars
<1>6. /\ prepared' = {s \in prepared : s.name \notin closes} \cup P
      /\ parsed' = [parsed EXCEPT ![c] = parsed[c] \cup P]
      /\ \/ fieldsCache' = fieldsCache
         \/ /\ fieldsCache' = [fieldsCache EXCEPT ![c] = fieldsCache[c] \cup {name}]
            /\ Known(parsed'[c], name)
  BY <1>2, <1>3, <1>4 DEF Answers, AfterCloses
<1>7. /\ \A s \in P : s.name.by = c /\ s.name \in Accounted(c)
      /\ P # {} => pipeline[c] = <<>>
      /\ \A n \in closes : n.by = c
  BY <1>2, <1>3, AnswerFacts
<1>8. /\ Closing(c) = ToSet(pipeline[c]) \cup closes
      /\ Closing(c)' = ToSet(pipeline[c])
      /\ \A d \in Clients : d # c => Closing(d)' = Closing(d)
  BY <1>1, <1>2, <1>3, <1>5, LeavesClosing
<1>9. \A d \in Clients : Accounted(d)' = Accounted(d)
  BY <1>5 DEF Accounted
<1>10. /\ parsed'[c] = parsed[c] \cup P
       /\ \A d \in Clients : d # c => parsed'[d] = parsed[d] /\ fieldsCache'[d] = fieldsCache[d]
       /\ \A n \in fieldsCache'[c] : n \in fieldsCache[c] \/ Known(parsed'[c], n)
  <2>1. BookTypes
    BY <1>1, TypeParts
  <2> QED BY <1>6, <2>1 DEF BookTypes
<1>11. BooksOK(c) /\ parsed[c] \subseteq prepared
  BY <1>1, <1>5, BooksPrepared DEF BooksInv
<1>12. BooksOK(c)'
  <2>1. ASSUME NEW s \in parsed'[c]
        PROVE  s \in prepared' /\ s.name \notin Closing(c)' /\ s.name \in Accounted(c)'
    <3>1. CASE s \in parsed[c]
      BY <1>6, <1>8, <1>9, <1>11, <3>1 DEF BooksOK
    <3>2. CASE s \in P
      <4>1. ToSet(pipeline[c]) = {}
        BY <1>7, <3>2 DEF ToSet
      <4> QED BY <1>6, <1>7, <1>8, <1>9, <3>2, <4>1
    <3> QED BY <1>10, <2>1, <3>1, <3>2
  <2>2. ASSUME NEW s \in prepared', s.name.by = c
        PROVE  s \in parsed'[c] \/ s.name \in Closing(c)'
    BY <1>6, <1>8, <1>10, <1>11, <2>2 DEF BooksOK
  <2>3. \A n \in fieldsCache'[c] : Known(parsed'[c], n)
    BY <1>10, <1>11 DEF BooksOK, Known
  <2> QED BY <2>1, <2>2, <2>3 DEF BooksOK
<1>13. ASSUME NEW d \in Clients, d # c, phase'[d] = "live" PROVE BooksOK(d)'
  <2>1. \A s : s.name.by = d => (s \in prepared' <=> s \in prepared)
    BY <1>6, <1>7, <1>13
  <2>2. SameBooks(d)
    BY <1>8, <1>9, <1>10, <1>13, <2>1 DEF SameBooks
  <2> QED BY <1>1, <1>5, <1>13, <2>2, BooksKept DEF BooksInv
<1>14. ASSUME NEW a \in ToSet(line') PROVE BindOK(a)'
  <2>1. PICK e \in ToSet(line) : SameBatch(a, e) /\ a.by # c
    BY <1>2, <1>5 DEF Leaves
  <2>2. a.by \in Clients /\ BindOK(e)
    <3>1. line' \in Seq(BatchType)
      BY <1>5 DEF Leaves
    <3>2. ToSet(line') \subseteq BatchType
      BY <3>1, HeldBy
    <3> QED BY <1>1, <2>1, <3>2 DEF BooksInv, BatchType
  <2>3. parsed'[a.by] = parsed[a.by] /\ Accounted(a.by)' = Accounted(a.by)
    BY <1>9, <1>10, <2>1, <2>2
  <2> QED BY <2>1, <2>2, <2>3 DEF BindOK, SameBatch
<1>15. EvictionOK'
  BY <1>5 DEF EvictionOK
<1> QED BY <1>12, <1>13, <1>14, <1>15, <1>5 DEF BooksInv

\* A response keeps the invariant.
LEMMA AnswerKeeps ==
    ASSUME CacheInv, NEW k \in 1..Len(line), NEW P, Answers(k, P)
    PROVE  CacheInv'
<1>1. /\ CacheTypeOK /\ FieldsInv /\ LineInv /\ NamesInv /\ BooksInv /\ ConnectInv
      /\ BookTypes /\ GenTypes /\ RestTypes
  BY TypeParts DEF CacheInv
<1>2. PICK c \in Clients : c = line[k].by
  BY <1>1, BatchFacts
<1>3. PICK q : q = line[k].query
  OBVIOUS
<1>4. /\ Turn(k) /\ evicting = noEviction /\ Leaves(k) /\ Settle(c)
      /\ UNCHANGED <<counts, names, seq, pendingCloses, pipeline, revived, phase,
                     liveClientCount, evicting, calls>>
  BY <1>1, <1>2, ResponseLeaves DEF Answers, Turn, Responds, generatorVars
<1>5. /\ chain[c] # <<>> /\ phase[c] = "live" /\ q \in ToSet(chain[c]) /\ NamedOK(q)
      /\ ToSet(line[k].closes) \subseteq GivenNames
  <2>1. line[k].closes \in Seq(GivenNames)
    BY <1>1, BatchFacts DEF BatchType
  <2> QED BY <1>1, <1>2, <1>3, <2>1, BatchFacts, HeldBy
<1>6. /\ chain' \in [Clients -> Seq(QueryType)] /\ handed' \in [Clients -> BOOLEAN]
      /\ \A d \in Clients : d # c => chain'[d] = chain[d]
      /\ \A d \in Clients : ToSet(chain'[d]) \subseteq ToSet(chain[d])
      /\ \A i \in 1..Len(chain'[c]) : chain'[c][i].text # "connect"
  BY <1>1, <1>4, <1>5, SettleFacts
<1>7. /\ prepared' \subseteq prepared \cup P
      /\ parsed' = [parsed EXCEPT ![c] = parsed[c] \cup P]
      /\ \/ fieldsCache' = fieldsCache
         \/ fieldsCache' = [fieldsCache EXCEPT ![c] = fieldsCache[c] \cup {q.name}]
            /\ q.kind = "named"
      /\ holder' \in {holder, c, Nobody}
  BY <1>2, <1>3 DEF Answers, AfterCloses
<1>8. P \subseteq ClientUses(c) /\ P \subseteq [name : GivenNames, text : Texts]
  BY <1>2, AnswerFacts
<1>9. BookTypes' /\ GenTypes' /\ RestTypes'
  <2>1. line' \in Seq(BatchType) /\ OneBatch'
    BY <1>4 DEF Leaves
  <2>2. parsed' \in [Clients -> SUBSET [name : GivenNames, text : Texts]]
    BY <1>1, <1>7, <1>8 DEF BookTypes
  <2>3. fieldsCache' \in [Clients -> SUBSET GivenNames]
    <3>1. fieldsCache \in [Clients -> SUBSET GivenNames]
      BY <1>1 DEF BookTypes
    <3>2. ASSUME q.kind = "named", fieldsCache' = [fieldsCache EXCEPT ![c] = fieldsCache[c]
                                                                           \cup {q.name}]
          PROVE  fieldsCache' \in [Clients -> SUBSET GivenNames]
      <4>1. q.name \in GivenNames
        BY <1>5, <3>2 DEF NamedOK
      <4> QED BY <3>1, <3>2, <4>1
    <3> QED BY <1>7, <3>1, <3>2
  <2>4. prepared' \subseteq [name : GivenNames, text : Texts] /\ holder' \in Clients \cup {Nobody}
    BY <1>1, <1>7, <1>8 DEF RestTypes
  <2> QED BY <1>1, <1>4, <1>6, <2>1, <2>2, <2>3, <2>4 DEF BookTypes, GenTypes, RestTypes
<1>10. FieldsInv'
  <2>1. /\ Closing(c) = ToSet(pipeline[c]) \cup ToSet(line[k].closes)
        /\ Closing(c)' = ToSet(pipeline[c])
        /\ \A d \in Clients : d # c => Closing(d)' = Closing(d)
    BY <1>1, <1>2, <1>4, LeavesClosing
  <2>2. \A d \in Clients : Closing(d)' \subseteq Closing(d)
    BY <2>1
  <2> QED BY <1>1, <1>4, <1>6, <2>2 DEF FieldsInv
<1>11. LineInv'
  <2>1. \A a \in ToSet(line') : BatchOK(a)'
    BY <1>1, <1>2, <1>4, <1>6, LeavesLine
  <2>2. ASSUME NEW d \in Clients PROVE PhaseOK(d)'
    <3>1. d # c => fieldsCache'[d] = fieldsCache[d]
      BY <1>1, <1>7 DEF BookTypes
    <3>2. d # c /\ holder # d => holder' # d
      BY <1>7, CacheAssumption
    <3> QED BY <1>1, <1>4, <1>5, <1>6, <3>1, <3>2 DEF LineInv, PhaseOK
  <2>3. Counted' = Counted
    BY <1>4 DEF Counted
  <2>4. evicting'.by \notin Clients
    BY <1>4, CacheAssumption DEF noEviction
  <2> QED BY <1>1, <1>4, <2>1, <2>2, <2>3, <2>4 DEF LineInv
<1>12. NamesInv'
  <2>1. ASSUME NEW d \in Clients PROVE ClientUses(d)' \subseteq ClientUses(d)
    <3>1. parsed'[d] \subseteq parsed[d] \cup (IF d = c THEN P ELSE {})
      BY <1>1, <1>7 DEF BookTypes
    <3>2. parsed'[d] \subseteq ClientUses(d)
      BY <1>8, <3>1 DEF ClientUses
    <3> QED BY <1>4, <1>6, <3>2 DEF ClientUses
  <2>2. prepared' \subseteq Uses
    BY <1>7, <1>8 DEF Uses
  <2> QED BY <1>1, <1>4, <2>1, <2>2, NamesKept
<1>13. BooksInv'
  BY AnswerBooks
<1>14. ConnectInv'
  BY <1>1, <1>2, <1>4, <1>6, LeavesConnect
<1>15. CacheTypeOK'
  BY <1>9, <1>11, TypePartsNext
<1> QED BY <1>10, <1>11, <1>12, <1>13, <1>14, <1>15 DEF CacheInv

\* A named query runs: what it prepares is recorded, and its fields are learnt only
\* of a statement that the books have.
LEMMA ExecuteNamedKeeps ==
    ASSUME CacheInv, NEW k \in 1..Len(line), ExecuteNamed(k)
    PROVE  CacheInv'
<1> DEFINE b == line[k]
           c == line[k].by
           q == line[k].query
           rest == AfterCloses(line[k])
<1>1. CacheTypeOK /\ FieldsInv /\ LineInv /\ NamesInv /\ BooksInv
  BY DEF CacheInv
<1>2. PICK prepares \in BOOLEAN, succeeds \in BOOLEAN :
         /\ prepares => b.parse /\ ~Known(rest, q.name)
         /\ succeeds => prepares \/ (~b.parse /\ Known(rest, q.name))
         /\ prepared' = rest \cup IF prepares THEN {Statement(q)} ELSE {}
         /\ parsed' = [parsed EXCEPT ![c] = parsed[c] \cup IF prepares THEN {Statement(q)} ELSE {}]
         /\ \/ succeeds /\ fieldsCache' = [fieldsCache EXCEPT ![c] = fieldsCache[c] \cup {q.name}]
            \/ fieldsCache' = fieldsCache
  BY DEF ExecuteNamed
<1>3. q.kind = "named" /\ Turn(k) /\ Responds(k) /\ holder' = holder
  BY DEF ExecuteNamed
<1> DEFINE P == IF prepares THEN {Statement(q)} ELSE {}
<1>4. /\ b \in ToSet(line) /\ c \in Clients /\ phase[c] = "live" /\ q \in ToSet(chain[c])
      /\ pipeline[c] = <<>> /\ parsed \in [Clients -> SUBSET [name : GivenNames, text : Texts]]
  BY <1>1, <1>3, BatchFacts, TypeFacts DEF Extended
<1>5. parsed'[c] = parsed[c] \cup P
  BY <1>2, <1>4
<1>6. succeeds => Known(parsed'[c], q.name)
  <2>1. CASE prepares
    BY <1>5, <2>1 DEF Known, Statement
  <2>2. ASSUME ~prepares, succeeds PROVE Known(parsed[c], q.name)
    <3>1. PICK s \in prepared : s.name = q.name /\ s.name \notin ToSet(b.closes)
      BY <1>2, <2>2 DEF Known, AfterCloses
    <3>2. Statement(q) \in ClientUses(c)
      BY <1>3, <1>4, UsesOf
    <3>3. s.name.by = c
      BY <1>1, <1>4, <3>1, <3>2 DEF NamesInv, Statement
    <3>4. Closing(c) = ToSet(b.closes)
      <4>1. line \in Seq(BatchType)
        BY <1>1, TypeFacts
      <4>2. ToSet(pipeline[c]) = {}
        BY <1>4 DEF ToSet
      <4>3. \A a \in ToSet(line) : a.by = c => a = b
        BY <1>1, BatchFacts
      <4>4. ToSet(b.closes) \subseteq GivenNames
        <5>1. b.closes \in Seq(GivenNames)
          BY <1>1, BatchFacts DEF BatchType
        <5> QED BY <5>1, HeldBy
      <4> HIDE DEF q, rest, P
      <4> QED BY <1>4, <4>1, <4>2, <4>3, <4>4, ClosingMembers
    <3>5. BooksOK(c)
      BY <1>1, <1>4 DEF BooksInv
    <3>6. s \in parsed[c]
      BY <3>1, <3>3, <3>4, <3>5 DEF BooksOK
    <3> QED BY <3>1, <3>6 DEF Known
  <2> QED BY <1>5, <2>1, <2>2 DEF Known
<1>7. Answers(k, P)
  BY <1>2, <1>3, <1>6 DEF Answers
<1> QED BY <1>7, AnswerKeeps

\* Other queries run: the Closes they bring take their effect.
LEMMA ExecuteOtherKeeps ==
    ASSUME CacheInv, NEW k \in 1..Len(line), ExecuteOther(k)
    PROVE  CacheInv'
<1>1. /\ line[k].by \in Clients
      /\ parsed \in [Clients -> SUBSET [name : GivenNames, text : Texts]]
  BY BatchFacts, TypeFacts DEF CacheInv
<1>2. parsed' = [parsed EXCEPT ![line[k].by] = parsed[line[k].by] \cup {}]
  BY <1>1 DEF ExecuteOther
<1>3. Answers(k, {})
  BY <1>2 DEF ExecuteOther, Answers
<1> QED BY <1>3, AnswerKeeps

\* A DEALLOCATE that fails takes nothing.
LEMMA DeallocateFailsKeeps ==
    ASSUME CacheInv, NEW k \in 1..Len(line), DeallocateFails(k)
    PROVE  CacheInv'
<1>1. /\ line[k].by \in Clients /\ line[k].closes = <<>>
      /\ parsed \in [Clients -> SUBSET [name : GivenNames, text : Texts]]
  BY BatchFacts, TypeFacts DEF CacheInv, DeallocateFails, Extended
<1>2. parsed' = [parsed EXCEPT ![line[k].by] = parsed[line[k].by] \cup {}]
  BY <1>1 DEF DeallocateFails
<1>3. prepared' = AfterCloses(line[k])
  BY <1>1 DEF DeallocateFails, AfterCloses, ToSet
<1>4. Answers(k, {})
  BY <1>2, <1>3 DEF DeallocateFails, Answers
<1> QED BY <1>4, AnswerKeeps

-----------------------------------------------------------------------------
(* DEALLOCATE: its effect on the session, then on the books. *)

\* The eviction at every live client, client by client.
Forgets(d, scope) ==
    /\ parsed'[d] = IF phase[d] = "live" THEN {s \in parsed[d] : ~Covers(scope, s.name)}
                    ELSE parsed[d]
    /\ fieldsCache'[d] = IF phase[d] = "live" THEN {n \in fieldsCache[d] : ~Covers(scope, n)}
                         ELSE fieldsCache[d]

\* What everybody evicts stays within the types.
LEMMA EvictionTypes ==
    ASSUME CacheTypeOK, NEW scope, evictEverywhere(scope)
    PROVE  /\ parsed' \in [Clients -> SUBSET [name : GivenNames, text : Texts]]
           /\ fieldsCache' \in [Clients -> SUBSET GivenNames]
           /\ \A d \in Clients : Forgets(d, scope)
<1>1. /\ parsed \in [Clients -> SUBSET [name : GivenNames, text : Texts]]
      /\ fieldsCache \in [Clients -> SUBSET GivenNames]
  BY TypeFacts
<1>2. \A d \in Clients : Forgets(d, scope)
  BY DEF evictEverywhere, Forgets
<1>3. parsed' \in [Clients -> SUBSET [name : GivenNames, text : Texts]]
  BY <1>1 DEF evictEverywhere
<1>4. fieldsCache' \in [Clients -> SUBSET GivenNames]
  BY <1>1 DEF evictEverywhere
<1> QED BY <1>2, <1>3, <1>4

\* A client that forgot what the session forgot has right books.
LEMMA ForgetKeeps ==
    ASSUME CacheTypeOK, NEW d \in Clients, phase[d] = "live", BooksOK(d), NEW scope,
           Forgets(d, scope), prepared' = {s \in prepared : ~Covers(scope, s.name)},
           evicting.scope \in {unnamed, scope},
           Closing(d)' = Closing(d), Accounted(d)' = Accounted(d)
    PROVE  BooksOK(d)'
<1>1. \A s \in parsed[d] : ~Covers(unnamed, s.name)
  <2>1. parsed[d] \subseteq [name : GivenNames, text : Texts]
    BY TypeFacts
  <2>2. \A n \in GivenNames : n # unnamed
    BY CacheAssumption DEF GivenNames, unnamed
  <2>3. unnamed # everything
    BY DEF unnamed, everything
  <2> QED BY <2>1, <2>2, <2>3 DEF Covers
<1>2. /\ parsed'[d] = {s \in parsed[d] : ~Covers(scope, s.name)}
      /\ fieldsCache'[d] = {n \in fieldsCache[d] : ~Covers(scope, n)}
  BY DEF Forgets
<1>3. /\ \A s \in parsed[d] : /\ s \in prepared \/ Covers(evicting.scope, s.name)
                              /\ s.name \notin Closing(d) /\ s.name \in Accounted(d)
      /\ \A s \in prepared : s.name.by = d => s \in parsed[d] \/ s.name \in Closing(d)
      /\ \A n \in fieldsCache[d] : Known(parsed[d], n)
  BY DEF BooksOK
<1>4. \A s \in parsed'[d] : /\ s \in prepared' /\ s.name \notin Closing(d)'
                            /\ s.name \in Accounted(d)'
  BY <1>1, <1>2, <1>3
<1>5. \A s \in prepared' : s.name.by = d => s \in parsed'[d] \/ s.name \in Closing(d)'
  BY <1>2, <1>3
<1>6. \A n \in fieldsCache'[d] : Known(parsed'[d], n)
  BY <1>2, <1>3 DEF Known
<1> QED BY <1>4, <1>5, <1>6 DEF BooksOK

\* A DEALLOCATE runs: who it was, and what it takes from the session.
LEMMA DeallocateFacts ==
    ASSUME CacheInv, NEW k \in 1..Len(line), Deallocate(k), NEW c, c = line[k].by,
           NEW scope, scope = line[k].query.scope
    PROVE  /\ c \in Clients /\ phase[c] = "live" /\ chain[c] # <<>> /\ Turn(k) /\ Leaves(k)
           /\ evicting = noEviction /\ scope \in GivenNames \cup {unnamed, everything}
           /\ prepared' = {s \in prepared : ~Covers(scope, s.name)}
           /\ UNCHANGED <<holder, counts, names, seq, pendingCloses, pipeline, revived, phase,
                          liveClientCount, calls>>
           /\ \A a \in ToSet(line') : Covers(scope, a.query.name) => a.raced
           /\ \A d \in Clients : Closing(d)' = Closing(d) /\ Accounted(d)' = Accounted(d)
<1>1. CacheTypeOK /\ FieldsInv /\ LineInv
  BY DEF CacheInv
<1>2. /\ c \in Clients /\ phase[c] = "live" /\ chain[c] # <<>> /\ line[k] \in BatchType
      /\ line[k].closes = <<>>
  BY <1>1, BatchFacts DEF Deallocate, Extended
<1>3. /\ line' = Raced(RemoveAt(line, k), scope) /\ Turn(k)
      /\ prepared' = {s \in prepared : ~Covers(scope, s.name)}
      /\ UNCHANGED <<holder, counts, names, seq, pendingCloses, pipeline, revived, phase,
                     liveClientCount, calls>>
  BY DEF Deallocate, generatorVars
<1>4. Leaves(k) /\ \A a \in ToSet(line') : Covers(scope, a.query.name) => a.raced
  BY <1>1, <1>3, RacedLeaves
<1>5. \A d \in Clients : Closing(d)' = Closing(d)
  <2>1. /\ Closing(c) = ToSet(pipeline[c]) \cup ToSet(line[k].closes)
        /\ Closing(c)' = ToSet(pipeline[c])
        /\ \A d \in Clients : d # c => Closing(d)' = Closing(d)
    BY <1>1, <1>2, <1>3, <1>4, LeavesClosing
  <2>2. ToSet(line[k].closes) = {}
    BY <1>2 DEF ToSet
  <2> QED BY <2>1, <2>2
<1>6. \A d \in Clients : Accounted(d)' = Accounted(d)
  BY <1>3 DEF Accounted
<1>7. scope \in GivenNames \cup {unnamed, everything} /\ evicting = noEviction
  BY <1>2, <1>3 DEF BatchType, QueryType, Turn
<1> QED BY <1>2, <1>3, <1>4, <1>5, <1>6, <1>7

\* A DEALLOCATE that succeeds keeps the invariant, whether it evicts at once or
\* leaves that to its promise.
LEMMA DeallocateKeeps ==
    ASSUME CacheInv, NEW k \in 1..Len(line), Deallocate(k)
    PROVE  CacheInv'
<1>1. /\ CacheTypeOK /\ FieldsInv /\ LineInv /\ NamesInv /\ BooksInv /\ ConnectInv
      /\ BookTypes /\ GenTypes /\ RestTypes
  BY TypeParts DEF CacheInv
<1>2. PICK c, scope : c = line[k].by /\ scope = line[k].query.scope
  OBVIOUS
<1>3. /\ c \in Clients /\ phase[c] = "live" /\ chain[c] # <<>> /\ Turn(k) /\ Leaves(k)
      /\ evicting = noEviction /\ scope \in GivenNames \cup {unnamed, everything}
      /\ prepared' = {s \in prepared : ~Covers(scope, s.name)}
      /\ UNCHANGED <<holder, counts, names, seq, pendingCloses, pipeline, revived, phase,
                     liveClientCount, calls>>
      /\ \A a \in ToSet(line') : Covers(scope, a.query.name) => a.raced
      /\ \A d \in Clients : Closing(d)' = Closing(d) /\ Accounted(d)' = Accounted(d)
  BY <1>2, DeallocateFacts
<1>4. \/ evictEverywhere(scope) /\ Settle(c) /\ evicting' = evicting
      \/ evicting' = [by |-> c, scope |-> scope] /\ UNCHANGED <<parsed, fieldsCache, chain, handed>>
  BY <1>2 DEF Deallocate, chainVars
<1>5. /\ chain' \in [Clients -> Seq(QueryType)] /\ handed' \in [Clients -> BOOLEAN]
      /\ \A d \in Clients : d # c => chain'[d] = chain[d]
      /\ \A d \in Clients : ToSet(chain'[d]) \subseteq ToSet(chain[d])
      /\ \/ \A i \in 1..Len(chain'[c]) : chain'[c][i].text # "connect"
         \/ chain'[c] = chain[c] /\ evicting'.by = c
  BY <1>1, <1>3, <1>4, SettleFacts DEF BookTypes
<1>6. /\ parsed' \in [Clients -> SUBSET [name : GivenNames, text : Texts]]
      /\ fieldsCache' \in [Clients -> SUBSET GivenNames]
      /\ \/ UNCHANGED <<parsed, fieldsCache>> /\ evicting' = [by |-> c, scope |-> scope]
         \/ evicting' = evicting /\ \A d \in Clients : Forgets(d, scope)
  BY <1>1, <1>4, EvictionTypes DEF BookTypes
<1>7. \A d \in Clients : /\ parsed'[d] \subseteq parsed[d]
                         /\ phase[d] # "live" => fieldsCache'[d] = fieldsCache[d]
                         /\ \A s \in parsed[d] : s \in parsed'[d] \/ Covers(scope, s.name)
  BY <1>6 DEF Forgets
<1>8. BookTypes' /\ GenTypes' /\ RestTypes'
  <2>1. line' \in Seq(BatchType) /\ OneBatch'
    BY <1>3 DEF Leaves
  <2>2. prepared' \subseteq [name : GivenNames, text : Texts]
    BY <1>1, <1>3 DEF RestTypes
  <2>3. evicting' \in [by : Clients \cup {Nobody},
                       scope : GivenNames \cup {unnamed, everything}]
    BY <1>1, <1>3, <1>4 DEF RestTypes
  <2> QED BY <1>1, <1>3, <1>5, <1>6, <2>1, <2>2, <2>3 DEF BookTypes, GenTypes, RestTypes
<1>9. FieldsInv'
  BY <1>1, <1>3, <1>5 DEF FieldsInv
<1>10. LineInv'
  <2>1. evicting'.by \in {evicting.by, c}
    BY <1>4
  <2>2. \A a \in ToSet(line') : BatchOK(a)'
    BY <1>1, <1>2, <1>3, <1>5, <2>1, LeavesLine
  <2>3. \A d \in Clients : PhaseOK(d)'
    BY <1>1, <1>3, <1>5, <1>7, <2>1 DEF LineInv, PhaseOK
  <2>4. Counted' = Counted
    BY <1>3 DEF Counted
  <2>5. /\ evicting'.by \in Clients => chain'[evicting'.by] # <<>>
        /\ evicting'.by = Nobody => evicting' = noEviction
    BY <1>3, <1>4, CacheAssumption DEF noEviction
  <2> QED BY <1>1, <1>3, <2>2, <2>3, <2>4, <2>5 DEF LineInv
<1>11. NamesInv'
  <2>1. ASSUME NEW d \in Clients PROVE ClientUses(d)' \subseteq ClientUses(d)
    BY <1>3, <1>5, <1>7 DEF ClientUses
  <2>2. prepared' \subseteq Uses
    BY <1>3 DEF Uses
  <2> QED BY <1>1, <1>3, <2>1, <2>2, NamesKept
<1>12. BooksInv'
  <2>1. ASSUME NEW d \in Clients, phase'[d] = "live" PROVE BooksOK(d)'
    <3>1. BooksOK(d) /\ phase[d] = "live"
      BY <1>1, <1>3, <2>1 DEF BooksInv
    <3>2. CASE evicting' = evicting /\ Forgets(d, scope)
      <4>1. evicting.scope \in {unnamed, scope}
        BY <1>3 DEF noEviction
      <4> QED BY <1>1, <1>3, <3>1, <3>2, <4>1, ForgetKeeps
    <3>3. CASE UNCHANGED <<parsed, fieldsCache>> /\ evicting' = [by |-> c, scope |-> scope]
      <4>1. parsed[d] \subseteq prepared
        BY <1>1, <1>3, <3>1, BooksPrepared
      <4>2. \A s \in parsed[d] : s \in prepared' \/ Covers(evicting'.scope, s.name)
        BY <1>3, <3>3, <4>1
      <4>3. prepared' \subseteq prepared
        BY <1>3
      <4> QED BY <1>3, <3>1, <3>3, <4>2, <4>3 DEF BooksOK, Known
    <3> QED BY <1>6, <3>2, <3>3
  <2>2. ASSUME NEW a \in ToSet(line') PROVE BindOK(a)'
    <3>1. PICK e \in ToSet(line) : SameBatch(a, e)
      BY <1>3 DEF Leaves
    <3>2. a.by \in Clients /\ BindOK(e)
      <4>1. line' \in Seq(BatchType)
        BY <1>3 DEF Leaves
      <4>2. ToSet(line') \subseteq BatchType
        BY <4>1, HeldBy
      <4> QED BY <1>1, <4>2 DEF BooksInv, BatchType
    <3>3. /\ Accounted(a.by)' = Accounted(a.by)
          /\ Statement(a.query) \in parsed[a.by]
                => Statement(a.query) \in parsed'[a.by] \/ a.raced
      BY <1>3, <1>7, <3>2 DEF Statement
    <3> QED BY <3>1, <3>2, <3>3 DEF BindOK, SameBatch
  <2>3. EvictionOK'
    BY <1>3, <1>4 DEF EvictionOK
  <2> QED BY <2>1, <2>2, <2>3 DEF BooksInv
<1>13. ConnectInv'
  BY <1>1, <1>2, <1>3, <1>5, LeavesConnect
<1>14. CacheTypeOK'
  BY <1>8, <1>10, TypePartsNext
<1> QED BY <1>9, <1>10, <1>11, <1>12, <1>13, <1>14 DEF CacheInv

\* The promise of a DEALLOCATE: every live client forgets what is gone.
LEMMA EvictKeeps ==
    ASSUME CacheInv, Evict
    PROVE  CacheInv'
<1>1. /\ CacheTypeOK /\ FieldsInv /\ LineInv /\ NamesInv /\ BooksInv /\ ConnectInv
      /\ BookTypes /\ GenTypes /\ RestTypes
  BY TypeParts DEF CacheInv
<1>2. PICK c, scope : c = evicting.by /\ scope = evicting.scope
  OBVIOUS
<1>3. /\ evicting # noEviction /\ evictEverywhere(scope) /\ Settle(c) /\ evicting' = noEviction
      /\ UNCHANGED <<prepared, line, holder, counts, names, seq, pendingCloses, pipeline, revived,
                     phase, liveClientCount, calls>>
  BY <1>2 DEF Evict, sessionVars, generatorVars
<1>4. c \in Clients /\ phase[c] = "live" /\ chain[c] # <<>>
  <2>1. c \in Clients
    BY <1>1, <1>2, <1>3 DEF LineInv, RestTypes
  <2> QED BY <1>1, <1>2, <2>1 DEF LineInv, PhaseOK
<1>5. /\ chain' \in [Clients -> Seq(QueryType)] /\ handed' \in [Clients -> BOOLEAN]
      /\ \A d \in Clients : d # c => chain'[d] = chain[d]
      /\ \A d \in Clients : ToSet(chain'[d]) \subseteq ToSet(chain[d])
      /\ \A i \in 1..Len(chain'[c]) : chain'[c][i].text # "connect"
  BY <1>1, <1>3, <1>4, SettleFacts
<1>6. /\ parsed' \in [Clients -> SUBSET [name : GivenNames, text : Texts]]
      /\ fieldsCache' \in [Clients -> SUBSET GivenNames]
      /\ \A d \in Clients : Forgets(d, scope)
  BY <1>1, <1>3, EvictionTypes
<1>7. \A d \in Clients : /\ parsed'[d] \subseteq parsed[d]
                         /\ phase[d] # "live" => fieldsCache'[d] = fieldsCache[d]
                         /\ \A s \in parsed[d] : s \in parsed'[d] \/ Covers(scope, s.name)
  BY <1>6 DEF Forgets
<1>8. /\ \A s \in prepared : ~Covers(scope, s.name)
      /\ \A b \in ToSet(line) : Covers(scope, b.query.name) => b.raced
  BY <1>1, <1>2, <1>3 DEF BooksInv, EvictionOK
<1>9. \A d \in Clients : Closing(d)' = Closing(d) /\ Accounted(d)' = Accounted(d)
  BY <1>3 DEF Closing, Accounted
<1>10. \A b \in ToSet(line) : b.by \in Clients
  <2>1. ToSet(line) \subseteq BatchType
    BY <1>1, HeldBy DEF BookTypes
  <2> QED BY <2>1 DEF BatchType
<1>11. BookTypes' /\ GenTypes' /\ RestTypes'
  <2>1. noEviction \in [by : Clients \cup {Nobody}, scope : GivenNames \cup {unnamed, everything}]
    BY DEF noEviction
  <2> QED BY <1>1, <1>3, <1>5, <1>6, <2>1 DEF BookTypes, GenTypes, RestTypes, OneBatch
<1>12. FieldsInv'
  BY <1>1, <1>3, <1>5, <1>9 DEF FieldsInv
<1>13. LineInv'
  <2>1. noEviction.by \notin Clients
    BY CacheAssumption DEF noEviction
  <2>2. \A b \in ToSet(line') : BatchOK(b)'
    BY <1>1, <1>2, <1>3, <1>5, <1>10, <2>1 DEF LineInv, BatchOK
  <2>3. \A d \in Clients : PhaseOK(d)'
    BY <1>1, <1>3, <1>4, <1>5, <1>7, <2>1 DEF LineInv, PhaseOK
  <2>4. Counted' = Counted
    BY <1>3 DEF Counted
  <2> QED BY <1>1, <1>3, <2>1, <2>2, <2>3, <2>4 DEF LineInv
<1>14. NamesInv'
  <2>1. ASSUME NEW d \in Clients PROVE ClientUses(d)' \subseteq ClientUses(d)
    BY <1>3, <1>5, <1>7 DEF ClientUses
  <2>2. prepared' \subseteq Uses
    BY <1>3 DEF Uses
  <2> QED BY <1>1, <1>3, <2>1, <2>2, NamesKept
<1>15. BooksInv'
  <2>1. ASSUME NEW d \in Clients, phase'[d] = "live" PROVE BooksOK(d)'
    <3>1. BooksOK(d) /\ phase[d] = "live"
      BY <1>1, <1>3, <2>1 DEF BooksInv
    <3>2. prepared' = {s \in prepared : ~Covers(scope, s.name)}
      BY <1>3, <1>8
    <3> QED BY <1>1, <1>2, <1>6, <1>9, <3>1, <3>2, ForgetKeeps
  <2>2. ASSUME NEW b \in ToSet(line) PROVE BindOK(b)'
    <3>1. b.by \in Clients /\ BindOK(b) /\ Accounted(b.by)' = Accounted(b.by)
      BY <1>1, <1>9, <1>10 DEF BooksInv
    <3>2. Statement(b.query) \in parsed[b.by] => Statement(b.query) \in parsed'[b.by] \/ b.raced
      BY <1>7, <1>8, <3>1 DEF Statement
    <3> QED BY <3>1, <3>2 DEF BindOK
  <2>3. EvictionOK'
    BY <1>3 DEF EvictionOK
  <2> QED BY <1>3, <2>1, <2>2, <2>3 DEF BooksInv
<1>16. ConnectInv'
  <2>1. ASSUME NEW d \in Clients, NEW i \in 1..Len(chain'[d]), chain'[d][i].text = "connect"
        PROVE  i = 1 /\ (InLine(d)' \/ evicting'.by = d)
    <3>1. d # c
      BY <1>5, <2>1
    <3>2. i = 1 /\ (InLine(d) \/ evicting.by = d)
      BY <1>1, <1>5, <2>1, <3>1 DEF ConnectInv
    <3>3. InLine(d)' <=> InLine(d)
      BY <1>3 DEF InLine
    <3> QED BY <1>2, <3>1, <3>2, <3>3
  <2> QED BY <1>1, <1>3, <2>1 DEF ConnectInv
<1>17. CacheTypeOK'
  BY <1>11, <1>13, TypePartsNext
<1> QED BY <1>12, <1>13, <1>14, <1>15, <1>16, <1>17 DEF CacheInv

-----------------------------------------------------------------------------
(* The invariant holds. *)

\* It holds before the first client connects.
LEMMA InitKeeps ==
    ASSUME CacheInit
    PROVE  CacheInv
<1>1. /\ prepared = {} /\ line = <<>> /\ holder = Nobody
      /\ phase = [c \in Clients |-> "new"]
      /\ counts = [c \in Clients |-> <<>>] /\ names = [c \in Clients |-> <<>>]
      /\ seq = [c \in Clients |-> 0]
      /\ pendingCloses = [c \in Clients |-> <<>>] /\ pipeline = [c \in Clients |-> <<>>]
      /\ parsed = [c \in Clients |-> {}] /\ fieldsCache = [c \in Clients |-> {}]
      /\ chain = [c \in Clients |-> <<>>] /\ handed = [c \in Clients |-> FALSE]
      /\ revived = [c \in Clients |-> {}]
      /\ liveClientCount = 0 /\ evicting = noEviction /\ calls = 0
  BY DEF CacheInit
<1>2. /\ line \in Seq(BatchType) /\ Len(line) = 0 /\ ToSet(line) = {}
      /\ \A c \in Clients :
            /\ chain[c] = <<>> /\ Len(chain[c]) = 0 /\ ToSet(chain[c]) = {}
            /\ ToSet(names[c]) = {} /\ ToSet(pendingCloses[c]) = {} /\ ToSet(pipeline[c]) = {}
  BY <1>1 DEF ToSet
<1>3. \A c \in Clients : Closing(c) = {} /\ ClientUses(c) = {}
  BY <1>1, <1>2 DEF Closing, ClientUses
<1>4. Uses = {}
  BY <1>1, <1>3 DEF Uses
<1>5. BookTypes /\ GenTypes /\ RestTypes
  <2>1. \A S : <<>> \in Seq(S) /\ Len(<<>>) = 0
    OBVIOUS
  <2>2. noEviction \in [by : Clients \cup {Nobody}, scope : GivenNames \cup {unnamed, everything}]
    BY DEF noEviction
  <2>3. 0 <= Capacity /\ 0 \in 0..MaxCalls
    BY CacheAssumption
  <2>4. BookTypes
    BY <1>1, <1>2, <2>1 DEF BookTypes, OneBatch
  <2>5. GenTypes
    BY <1>1, <2>1, <2>3 DEF GenTypes
  <2>6. RestTypes
    BY <1>1, <2>2, <2>3 DEF RestTypes
  <2> QED BY <2>4, <2>5, <2>6
<1>6. FieldsInv
  BY <1>1, <1>2, <1>3 DEF FieldsInv
<1>7. LineInv
  <2>1. Counted = {}
    BY <1>1 DEF Counted
  <2>2. liveClientCount = Cardinality(Counted)
    BY <1>1, <2>1, FS_EmptySet
  <2>3. \A c \in Clients : PhaseOK(c)
    BY <1>1, CacheAssumption DEF PhaseOK, noEviction
  <2> QED BY <1>1, <1>2, <2>2, <2>3, CacheAssumption DEF LineInv, noEviction
<1>8. NamesInv
  BY <1>2, <1>3, <1>4 DEF NamesInv
<1>9. BooksInv
  BY <1>1, <1>2 DEF BooksInv, EvictionOK
<1>10. ConnectInv
  BY <1>2 DEF ConnectInv
<1> QED BY <1>5, <1>6, <1>7, <1>8, <1>9, <1>10, TypeParts DEF CacheInv

\* Every step keeps it.
LEMMA NextKeeps ==
    ASSUME CacheInv, [CacheNext]_cacheVars
    PROVE  CacheInv'
<1>1. CASE UNCHANGED cacheVars
  <2>1. UNCHANGED <<prepared, line, holder, phase, counts, names, seq, pendingCloses, pipeline,
                    parsed, fieldsCache, chain, handed, revived, liveClientCount, evicting, calls>>
    BY <1>1 DEF cacheVars, sessionVars, generatorVars, bookVars, chainVars
  <2>2. \A d : /\ Closing(d)' = Closing(d) /\ InLine(d)' = InLine(d)
               /\ ClientUses(d)' = ClientUses(d) /\ Accounted(d)' = Accounted(d)
    BY <2>1 DEF Closing, InLine, ClientUses, Accounted
  <2>3. CacheTypeOK'
    BY <2>1 DEF CacheInv, CacheTypeOK
  <2>4. FieldsInv' /\ LineInv'
    BY <2>1, <2>2 DEF CacheInv, FieldsInv, LineInv, BatchOK, PhaseOK, Counted
  <2>5. NamesInv' /\ ConnectInv'
    BY <2>1, <2>2 DEF CacheInv, NamesInv, Uses, ConnectInv
  <2>6. BooksInv'
    BY <2>1, <2>2 DEF CacheInv, BooksInv, BooksOK, BindOK, EvictionOK
  <2> QED BY <2>3, <2>4, <2>5, <2>6 DEF CacheInv
<1>2. CASE \E c \in Clients : \/ \E text \in Texts : queryDml(c, text)
                              \/ queryOther(c) \/ SubmitNext(c) \/ TimedOut(c)
                              \/ connect(c) \/ end(c) \/ remove(c)
  BY <1>2, DmlKeeps, SimpleKeeps, SubmitNextKeeps, TimedOutKeeps, ConnectKeeps, EndKeeps,
     RemoveKeeps
<1>3. CASE \E k \in 1..Len(line) : ExecuteNamed(k) \/ ExecuteOther(k)
                                   \/ Deallocate(k) \/ DeallocateFails(k)
  BY <1>3, ExecuteNamedKeeps, ExecuteOtherKeeps, DeallocateKeeps, DeallocateFailsKeeps
<1>4. CASE Evict
  BY <1>4, EvictKeeps
<1> QED BY <1>1, <1>2, <1>3, <1>4 DEF CacheNext

\* The invariant holds throughout: the books, the line, the chains and the names
\* fit together as the parts of CacheInv say.
THEOREM CacheInvariant == CacheSpec => []CacheInv
<1>1. CacheInv /\ [CacheNext]_cacheVars => CacheInv'
  BY NextKeeps
<1> QED BY <1>1, InitKeeps, PTL DEF CacheSpec

-----------------------------------------------------------------------------
(* What it says of the properties. *)

\* Every variable keeps its type: one batch per client in the line, generators
\* within their capacity, a count of live clients that never exceeds the clients.
THEOREM CacheTypes == CacheSpec => []CacheTypeOK
<1>1. CacheInv => CacheTypeOK
  BY DEF CacheInv
<1> QED BY <1>1, CacheInvariant, PTL

\* pg skips Parse for exactly the statements that PGlite has, and Describe only for
\* those: parsedStatements and the fields cache of every live client describe the
\* session, whatever the clients submit, evict, close and deallocate in between.
THEOREM BooksAreTruthful == CacheSpec => []CachesTruthful
<1>1. CacheInv => CachesTruthful
  <2> SUFFICES ASSUME CacheInv PROVE CachesTruthful
    OBVIOUS
  <2>1. ASSUME NEW c \in Clients, phase[c] = "live", evicting = noEviction
        PROVE  BooksOK(c) /\ parsed[c] \subseteq prepared
    BY <2>1, BooksPrepared DEF CacheInv, BooksInv
  <2> QED BY <2>1 DEF CachesTruthful, BooksOK
<1> QED BY <1>1, CacheInvariant, PTL

\* A Bind without Parse meets its statement, with the text it stands for, unless a
\* DEALLOCATE overtook it: the Parse that submit skips was made, and no Close of
\* the batch itself takes it away.
THEOREM OnlyOvertakenBindsFail == CacheSpec => []OnlyRacingBindFails
<1>1. CacheInv => OnlyRacingBindFails
  <2> SUFFICES ASSUME CacheInv, NEW k \in 1..Len(line), Turn(k),
                      line[k].query.kind = "named", ~line[k].parse, ~line[k].raced
               PROVE  Statement(line[k].query) \in AfterCloses(line[k])
    BY DEF OnlyRacingBindFails
  <2>1. CacheTypeOK /\ FieldsInv /\ LineInv /\ BooksInv /\ evicting = noEviction
    BY DEF CacheInv, Turn
  <2>2. PICK c \in Clients : c = line[k].by
    BY <2>1, BatchFacts
  <2>3. PICK s : s = Statement(line[k].query)
    OBVIOUS
  <2>4. phase[c] = "live" /\ line[k] \in ToSet(line)
    BY <2>1, <2>2, BatchFacts
  <2>5. s \in parsed[c]
    BY <2>1, <2>2, <2>3, <2>4 DEF BooksInv, BindOK
  <2>6. s \in prepared /\ s.name \notin Closing(c)
    BY <2>1, <2>4, <2>5, BooksPrepared DEF BooksInv, BooksOK
  <2>7. ToSet(line[k].closes) \subseteq Closing(c)
    BY <2>2 DEF Closing
  <2> QED BY <2>3, <2>6, <2>7 DEF AfterCloses
<1> QED BY <1>1, CacheInvariant, PTL

\* A name stands for one text for ever: in the session, in every client's books and
\* in the queries that still wait in a chain, evicted and promoted names included.
THEOREM NamesAreStable == CacheSpec => []NamesMeanOneText
<1>1. CacheInv => NamesMeanOneText
  <2> SUFFICES ASSUME CacheInv PROVE NamesMeanOneText
    OBVIOUS
  <2>1. /\ prepared \cup UNION {parsed[c] : c \in Clients} \subseteq Uses
        /\ UNION {{Statement(q) : q \in {p \in ToSet(chain[c]) : p.kind = "named"}}
                  : c \in Clients} \subseteq Uses
    BY DEF Uses, ClientUses
  <2> QED BY <2>1 DEF CacheInv, NamesInv, NamesMeanOneText
<1> QED BY <1>1, CacheInvariant, PTL

\* What a live client's generator let go is closed, or about to be, or was parsed
\* again by a query that waited: nothing else stays in the session.
THEOREM EvictedAreFreed == CacheSpec => []EvictedIsFreed
<1>1. CacheInv => EvictedIsFreed
  <2> SUFFICES ASSUME CacheInv, NEW c \in Clients, phase[c] = "live",
                      NEW s \in prepared, s.name.by = c
               PROVE  \/ \E e \in ToSet(names[c]) : e.name = s.name
                      \/ s.name \in Closing(c) \cup ToSet(pendingCloses[c]) \cup revived[c]
    BY DEF EvictedIsFreed
  <2>1. BooksOK(c)
    BY DEF CacheInv, BooksInv
  <2> QED BY <2>1 DEF BooksOK, Accounted
<1> QED BY <1>1, CacheInvariant, PTL

\* The wipe of a connecting client destroys no statement of another live client,
\* however many clients come and go while it waits for the session.
THEOREM WipesSpareSiblings == CacheSpec => []ConnectWipeSparesSiblings
<1>1. CacheInv => ConnectWipeSparesSiblings
  BY DEF CacheInv, ConnectInv, ConnectWipeSparesSiblings
<1> QED BY <1>1, CacheInvariant, PTL
=============================================================================
