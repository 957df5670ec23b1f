------------------------ MODULE FrontendBufferProofs ------------------------
(***************************************************************************)
(* Lemmas about runs of bytes cut into chunks, and what the operations of  *)
(* the frontend buffer do to the run of bytes it stands for.               *)
(***************************************************************************)
EXTENDS FrontendBuffer, SequenceTheorems, WellFoundedInduction, TLAPS

\* Induction over the natural numbers, for a set.
LEMMA NatSetInduction ==
    ASSUME NEW T, 0 \in T, \A n \in Nat : n \in T => n + 1 \in T
    PROVE  Nat \subseteq T
<1>1. SUFFICES ASSUME Nat \ T # {} PROVE FALSE
  OBVIOUS
<1>2. IsWellFoundedOn(OpToRel(<,Nat), Nat)
  BY NatLessThanWellFounded
<1>3. PICK x \in Nat \ T : \A y \in Nat \ T : ~(<<y, x>> \in OpToRel(<,Nat))
  BY <1>1, <1>2, WFMin
<1>4. \A y \in Nat \ T : ~(y < x)
  BY <1>3 DEF OpToRel
<1> QED
  BY <1>4

-----------------------------------------------------------------------------
(* The rest of a run of bytes.                                              *)

\* Concatenation, for the steps that only need that it is associative.
Cat(s, t) == s \o t

\* Concatenation is associative.
LEMMA CatAssoc ==
    \A S, s, t, u : s \in Seq(S) /\ t \in Seq(S) /\ u \in Seq(S) =>
        Cat(Cat(s, t), u) = Cat(s, Cat(t, u))
BY ConcatAssociative DEF Cat

\* A sequence without its first n elements.
Drop(s, n) == SubSeq(s, n + 1, Len(s))

\* What is left after n elements.
LEMMA DropProperties ==
    ASSUME NEW S, NEW s \in Seq(S), NEW n \in 0..Len(s)
    PROVE  /\ Drop(s, n) \in Seq(S)
           /\ Len(Drop(s, n)) = Len(s) - n
           /\ \A i \in 1..(Len(s) - n) : Drop(s, n)[i] = s[n + i]
<1>1. \A i \in (n + 1)..Len(s) : s[i] \in S
  BY ElementOfSeq
<1> QED
  BY <1>1, SubSeqProperties, LenProperties DEF Drop

\* The first n elements.
LEMMA TakeProperties ==
    ASSUME NEW S, NEW s \in Seq(S), NEW n \in 0..Len(s)
    PROVE  /\ SubSeq(s, 1, n) \in Seq(S)
           /\ Len(SubSeq(s, 1, n)) = n
           /\ \A i \in 1..n : SubSeq(s, 1, n)[i] = s[i]
<1>1. \A i \in 1..n : s[i] \in S
  BY ElementOfSeq, LenProperties
<1> QED
  BY <1>1, SubSeqProperties, LenProperties

\* A sequence is its first n elements and the others.
LEMMA TakeDrop ==
    ASSUME NEW S, NEW s \in Seq(S), NEW n \in 0..Len(s)
    PROVE  SubSeq(s, 1, n) \o Drop(s, n) = s
<1>1. Len(s) \in Nat /\ 1 \in 1..(Len(s) + 1) /\ n \in (1 - 1)..Len(s) /\ Len(s) \in n..Len(s)
  BY LenProperties
<1>2. SubSeq(s, 1, n) \o SubSeq(s, n + 1, Len(s)) = SubSeq(s, 1, Len(s))
  BY <1>1, ConcatAdjacentSubSeq
<1> QED
  BY <1>2, SubSeqFull DEF Drop

\* Nothing is dropped, or everything is.
LEMMA DropEnds ==
    ASSUME NEW S, NEW s \in Seq(S)
    PROVE  Drop(s, 0) = s /\ Drop(s, Len(s)) = <<>>
BY SubSeqFull, SubSeqEmpty, LenProperties DEF Drop

\* Dropping in two goes.
LEMMA DropDrop ==
    ASSUME NEW S, NEW s \in Seq(S), NEW m \in 0..Len(s), NEW n \in 0..(Len(s) - m)
    PROVE  Drop(Drop(s, m), n) = Drop(s, m + n)
<1> DEFINE t == Drop(Drop(s, m), n)
           u == Drop(s, m + n)
<1>1. /\ Drop(s, m) \in Seq(S) /\ Len(Drop(s, m)) = Len(s) - m
      /\ \A i \in 1..(Len(s) - m) : Drop(s, m)[i] = s[m + i]
  BY DropProperties
<1>0. Len(s) \in Nat /\ m \in Nat /\ n \in 0..Len(Drop(s, m)) /\ m + n \in 0..Len(s)
  BY <1>1, LenProperties
<1>2. /\ t \in Seq(S) /\ Len(t) = Len(Drop(s, m)) - n
      /\ \A i \in 1..(Len(Drop(s, m)) - n) : t[i] = Drop(s, m)[n + i]
  <2> DEFINE d == Drop(s, m)
  <2>1. d \in Seq(S) /\ n \in 0..Len(d)
    BY <1>0, <1>1
  <2> HIDE DEF d
  <2>2. /\ Drop(d, n) \in Seq(S) /\ Len(Drop(d, n)) = Len(d) - n
        /\ \A i \in 1..(Len(d) - n) : Drop(d, n)[i] = d[n + i]
    BY <2>1, DropProperties
  <2> QED BY <2>2 DEF d
<1>3. /\ u \in Seq(S) /\ Len(u) = Len(s) - (m + n)
      /\ \A i \in 1..(Len(s) - (m + n)) : u[i] = s[(m + n) + i]
  <2> DEFINE k == m + n
  <2>1. k \in 0..Len(s)
    BY <1>0
  <2> HIDE DEF k
  <2>2. /\ Drop(s, k) \in Seq(S) /\ Len(Drop(s, k)) = Len(s) - k
        /\ \A i \in 1..(Len(s) - k) : Drop(s, k)[i] = s[k + i]
    BY <2>1, DropProperties
  <2> QED BY <2>2 DEF k
<1> HIDE DEF t, u
<1>4. \A i \in 1..Len(t) : t[i] = u[i]
  <2> SUFFICES ASSUME NEW i \in 1..Len(t) PROVE t[i] = u[i]
    OBVIOUS
  <2>1. t[i] = Drop(s, m)[n + i] /\ n + i \in 1..(Len(s) - m)
    BY <1>0, <1>1, <1>2
  <2>2. u[i] = s[(m + n) + i]
    BY <1>0, <1>1, <1>2, <1>3
  <2>3. Drop(s, m)[n + i] = s[m + (n + i)] /\ m + (n + i) = (m + n) + i
    BY <1>0, <1>1, <2>1
  <2> QED BY <2>1, <2>2, <2>3
<1>5. t \in Seq(S) /\ u \in Seq(S) /\ Len(t) = Len(u)
  BY <1>0, <1>1, <1>2, <1>3
<1>6. t = u
  BY <1>4, <1>5, SeqEqual
<1> QED BY <1>6 DEF t, u

\* What is dropped or taken of a concatenation comes off its first part.
LEMMA DropConcat ==
    ASSUME NEW S, NEW s \in Seq(S), NEW t \in Seq(S), NEW n \in 0..Len(s)
    PROVE  Drop(s \o t, n) = Drop(s, n) \o t /\ SubSeq(s \o t, 1, n) = SubSeq(s, 1, n)
<1> DEFINE st == s \o t
           u == SubSeq(s, 1, n)
           v == Drop(s, n)
<1>1. /\ st \in Seq(S) /\ Len(st) = Len(s) + Len(t) /\ Len(s) \in Nat /\ Len(t) \in Nat
      /\ \A i \in 1..Len(st) : st[i] = IF i <= Len(s) THEN s[i] ELSE t[i - Len(s)]
  BY ConcatProperties, LenProperties
<1>2. /\ u \in Seq(S) /\ Len(u) = n /\ \A i \in 1..n : u[i] = s[i]
      /\ v \in Seq(S) /\ Len(v) = Len(s) - n /\ \A i \in 1..(Len(s) - n) : v[i] = s[n + i]
  BY TakeProperties, DropProperties
<1>3. st = u \o (v \o t)
  <2>1. s = u \o v
    BY TakeDrop
  <2> HIDE DEF u, v
  <2> QED BY <1>2, <2>1, ConcatAssociative
<1>4. n \in 0..Len(st)
  BY <1>1
<1>5. st = SubSeq(st, 1, n) \o Drop(st, n)
  BY <1>1, <1>4, TakeDrop
<1>6. /\ SubSeq(st, 1, n) \in Seq(S) /\ Len(SubSeq(st, 1, n)) = n
      /\ \A i \in 1..n : SubSeq(st, 1, n)[i] = st[i]
      /\ Drop(st, n) \in Seq(S)
  BY <1>1, <1>4, TakeProperties, DropProperties
<1>7. \A i \in 1..n : SubSeq(st, 1, n)[i] = u[i]
  BY <1>1, <1>2, <1>6
<1>8. SubSeq(st, 1, n) = u
  BY <1>2, <1>6, <1>7, SeqEqual
<1> HIDE DEF st, u, v
<1>9. v \o t \in Seq(S)
  BY <1>2, ConcatProperties
<1>10. Drop(st, n) = v \o t
  BY <1>2, <1>3, <1>5, <1>6, <1>8, <1>9, ConcatSimplifications
<1> QED BY <1>8, <1>10 DEF st, u, v

-----------------------------------------------------------------------------
(* Chunks laid end to end.                                                  *)

\* f is what FlattenSeq computes over the first n elements of s.
Flattens(f, s, n) == f = [i \in 1..n |-> IF i = 1 THEN s[i] ELSE f[i - 1] \o s[i]]

\* There is such an f.
LEMMA FlattensExists ==
    ASSUME NEW s, NEW n \in Nat
    PROVE  \E f : Flattens(f, s, n)
<1> DEFINE T == {m \in Nat : \E f : Flattens(f, s, m)}
<1>1. 0 \in T
  <2>1. Flattens([i \in 1..0 |-> <<>>], s, 0)
    BY DEF Flattens
  <2> QED BY <2>1
<1>2. ASSUME NEW m \in Nat, m \in T PROVE m + 1 \in T
  <2>1. PICK f : Flattens(f, s, m)
    BY <1>2
  <2> DEFINE g == [i \in 1..(m + 1) |-> IF i = 1 THEN s[i] ELSE f[i - 1] \o s[i]]
  <2>2. ASSUME NEW i \in 1..m PROVE f[i] = IF i = 1 THEN s[i] ELSE f[i - 1] \o s[i]
    BY <2>1 DEF Flattens
  <2>3. ASSUME NEW i \in 1..m PROVE g[i] = f[i]
    BY <2>2
  <2>4. ASSUME NEW i \in 1..(m + 1), i # 1 PROVE f[i - 1] = g[i - 1]
    <3>1. i - 1 \in 1..m
      BY <2>4
    <3> QED BY <3>1, <2>3
  <2>5. g = [i \in 1..(m + 1) |-> IF i = 1 THEN s[i] ELSE g[i - 1] \o s[i]]
    <3>1. ASSUME NEW i \in 1..(m + 1)
          PROVE  (IF i = 1 THEN s[i] ELSE f[i - 1] \o s[i])
                    = (IF i = 1 THEN s[i] ELSE g[i - 1] \o s[i])
      <4> HIDE DEF g
      <4> QED BY <2>4
    <3> QED BY <3>1
  <2>6. Flattens(g, s, m + 1)
    <3> HIDE DEF g
    <3> QED BY <2>5 DEF Flattens
  <2> QED BY <2>6
<1>3. Nat \subseteq T
  <2> HIDE DEF T
  <2> QED BY <1>1, <1>2, NatSetInduction
<1> QED BY <1>3

\* FlattenSeq is the last value of any such f.
LEMMA FlattenSeqIs ==
    ASSUME NEW s, Len(s) \in Nat, Len(s) # 0
    PROVE  \E f : Flattens(f, s, Len(s)) /\ FlattenSeq(s) = f[Len(s)]
BY FlattensExists DEF FlattenSeq, Flattens

\* Its values, one after the other.
LEMMA FlattensAt ==
    \A s, f : \A n \in Nat : Flattens(f, s, n) =>
        /\ n # 0 => f[1] = s[1]
        /\ \A i \in 1..(n - 1) : f[i + 1] = f[i] \o s[i + 1]
<1> SUFFICES ASSUME NEW s, NEW f, NEW n \in Nat, Flattens(f, s, n)
             PROVE  /\ n # 0 => f[1] = s[1]
                    /\ \A i \in 1..(n - 1) : f[i + 1] = f[i] \o s[i + 1]
  OBVIOUS
<1>1. \A i \in 1..n : f[i] = IF i = 1 THEN s[i] ELSE f[i - 1] \o s[i]
  BY DEF Flattens
<1>2. ASSUME NEW i \in 1..(n - 1) PROVE f[i + 1] = f[i] \o s[i + 1]
  <2>1. i + 1 \in 1..n /\ i + 1 # 1 /\ (i + 1) - 1 = i
    OBVIOUS
  <2> QED BY <1>1, <2>1
<1>3. ASSUME n # 0 PROVE f[1] = s[1]
  <2>1. 1 \in 1..n
    BY <1>3
  <2> QED BY <1>1, <2>1
<1> QED BY <1>2, <1>3

\* Its values depend on the elements so far alone.
LEMMA FlattensAgree ==
    \A s, t, f, g : \A m, n \in Nat :
        /\ m <= n
        /\ Flattens(f, s, m)
        /\ Flattens(g, t, n)
        /\ \A i \in 1..m : s[i] = t[i]
        => \A i \in 1..m : f[i] = g[i]
<1> SUFFICES ASSUME NEW s, NEW t, NEW f, NEW g, NEW m \in Nat, NEW n \in Nat,
                    m <= n, Flattens(f, s, m), Flattens(g, t, n),
                    \A i \in 1..m : s[i] = t[i]
             PROVE  \A i \in 1..m : f[i] = g[i]
  OBVIOUS
<1> DEFINE T == {k \in Nat : k \in 1..m => f[k] = g[k]}
<1>1. 0 \in T
  OBVIOUS
<1>2. ASSUME NEW k \in Nat, k \in T PROVE k + 1 \in T
  <2> SUFFICES ASSUME k + 1 \in 1..m PROVE f[k + 1] = g[k + 1]
    OBVIOUS
  <2>1. CASE k = 0
    <3>1. m # 0 /\ n # 0 /\ 1 \in 1..m
      BY <2>1
    <3>2. f[1] = s[1]
      BY <3>1, FlattensAt
    <3>4. g[1] = t[1]
      BY <3>1, FlattensAt
    <3> QED BY <2>1, <3>1, <3>2, <3>4
  <2>2. CASE k # 0
    <3>1. k \in 1..(m - 1) /\ k \in 1..(n - 1) /\ k \in 1..m
      BY <2>2
    <3>2. f[k + 1] = f[k] \o s[k + 1]
      BY <3>1, FlattensAt
    <3>3. g[k + 1] = g[k] \o t[k + 1]
      BY <3>1, FlattensAt
    <3> QED BY <1>2, <3>1, <3>2, <3>3
  <2> QED BY <2>1, <2>2
<1>3. Nat \subseteq T
  <2> HIDE DEF T
  <2> QED BY <1>1, <1>2, NatSetInduction
<1> QED BY <1>3

\* No chunks, no bytes.
LEMMA FlattenEmpty == FlattenSeq(<<>>) = <<>>
BY DEF FlattenSeq

\* One chunk.
LEMMA FlattenOne ==
    ASSUME NEW t, Len(t) = 1
    PROVE  FlattenSeq(t) = t[1]
<1>1. PICK g : Flattens(g, t, 1) /\ FlattenSeq(t) = g[1]
  <2>1. Len(t) \in Nat /\ Len(t) # 0
    OBVIOUS
  <2>2. \E g : Flattens(g, t, Len(t)) /\ FlattenSeq(t) = g[Len(t)]
    BY <2>1, FlattenSeqIs
  <2> QED BY <2>2
<1>2. g[1] = t[1]
  <2>1. 1 \in Nat /\ 1 # 0
    OBVIOUS
  <2> QED BY <1>1, <2>1, FlattensAt
<1> QED BY <1>1, <1>2

\* One more chunk at the end, of some.
LEMMA FlattenLonger ==
    ASSUME NEW s, NEW t, NEW n \in Nat, n # 0, Len(s) = n, Len(t) = n + 1,
           \A i \in 1..n : s[i] = t[i]
    PROVE  FlattenSeq(t) = FlattenSeq(s) \o t[n + 1]
<1>1. PICK f : Flattens(f, s, n) /\ FlattenSeq(s) = f[n]
  BY FlattenSeqIs
<1>2. PICK g : Flattens(g, t, n + 1) /\ FlattenSeq(t) = g[n + 1]
  <2>1. Len(t) \in Nat /\ Len(t) # 0
    OBVIOUS
  <2>2. \E g : Flattens(g, t, Len(t)) /\ FlattenSeq(t) = g[Len(t)]
    BY <2>1, FlattenSeqIs
  <2> QED BY <2>2
<1>3. n + 1 \in Nat /\ n <= n + 1 /\ n \in 1..n /\ n \in 1..((n + 1) - 1)
  OBVIOUS
<1>4. f[n] = g[n]
  <2>1. \A i \in 1..n : f[i] = g[i]
    BY <1>1, <1>2, <1>3, FlattensAgree
  <2> QED BY <1>3, <2>1
<1>5. g[n + 1] = g[n] \o t[n + 1]
  BY <1>2, <1>3, FlattensAt
<1> QED BY <1>1, <1>2, <1>4, <1>5

\* One more chunk at the end.
LEMMA FlattenAppend ==
    ASSUME NEW S, NEW s \in Seq(Seq(S)), NEW x \in Seq(S)
    PROVE  FlattenSeq(Append(s, x)) = FlattenSeq(s) \o x
<1> DEFINE t == Append(s, x)
           n == Len(s)
<1>1. /\ Len(t) = n + 1 /\ n \in Nat
      /\ \A i \in 1..n : s[i] = t[i]
      /\ t[n + 1] = x
  BY AppendProperties, LenProperties
<1> HIDE DEF t, n
<1>2. CASE n = 0
  <2>1. s = <<>>
    BY <1>2, EmptySeq DEF n
  <2>2. FlattenSeq(s) \o x = x
    BY <2>1, FlattenEmpty, ConcatEmptySeq
  <2>3. Len(t) = 1 /\ t[1] = x
    BY <1>1, <1>2
  <2>4. FlattenSeq(t) = t[1]
    BY <2>3, FlattenOne
  <2> QED BY <2>2, <2>3, <2>4 DEF t
<1>3. CASE n # 0
  BY <1>1, <1>3, FlattenLonger DEF t, n
<1> QED BY <1>2, <1>3

\* The bytes of chunks of bytes.
LEMMA FlattenType ==
    ASSUME NEW S, NEW s \in Seq(Seq(S))
    PROVE  FlattenSeq(s) \in Seq(S)
<1> DEFINE T == {n \in Nat : \A t \in Seq(Seq(S)) : Len(t) = n => FlattenSeq(t) \in Seq(S)}
<1>1. 0 \in T
  BY EmptySeq, FlattenEmpty
<1>2. ASSUME NEW n \in Nat, n \in T PROVE n + 1 \in T
  <2> SUFFICES ASSUME NEW t \in Seq(Seq(S)), Len(t) = n + 1 PROVE FlattenSeq(t) \in Seq(S)
    OBVIOUS
  <2>1. t # <<>>
    BY EmptySeq
  <2>2. PICK u \in Seq(Seq(S)), x \in Seq(S) : t = Append(u, x)
    BY <2>1, SequenceEmptyOrAppend
  <2>3. Len(u) = n
    BY <2>2, AppendProperties, LenProperties
  <2>4. FlattenSeq(u) \in Seq(S)
    BY <1>2, <2>3
  <2> QED BY <2>2, <2>4, FlattenAppend, ConcatProperties
<1>3. Nat \subseteq T
  <2> HIDE DEF T
  <2> QED BY <1>1, <1>2, NatSetInduction
<1>4. Len(s) \in T
  BY <1>3, LenProperties
<1> QED BY <1>4

\* Two runs of chunks, the second one longer by a chunk.
LEMMA FlattenConcatAppend ==
    ASSUME NEW S, NEW s \in Seq(Seq(S)), NEW v \in Seq(Seq(S)), NEW x \in Seq(S),
           FlattenSeq(s \o v) = FlattenSeq(s) \o FlattenSeq(v)
    PROVE  FlattenSeq(s \o Append(v, x)) = FlattenSeq(s) \o FlattenSeq(Append(v, x))
<1> DEFINE a == FlattenSeq(s)
           b == FlattenSeq(v)
           y == <<x>>
<1>1. a \in Seq(S) /\ b \in Seq(S) /\ s \o v \in Seq(Seq(S)) /\ y \in Seq(Seq(S))
  BY FlattenType, ConcatProperties
<1>2. Append(v, x) = v \o y /\ Append(s \o v, x) = (s \o v) \o y
  BY <1>1, AppendIsConcat
<1>3. FlattenSeq(Append(s \o v, x)) = (a \o b) \o x
  BY <1>1, FlattenAppend
<1>4. FlattenSeq(Append(v, x)) = b \o x
  BY FlattenAppend
<1> HIDE DEF a, b, y
<1>5. (a \o b) \o x = a \o (b \o x)
  <2>1. Cat(Cat(a, b), x) = Cat(a, Cat(b, x))
    BY <1>1, CatAssoc
  <2> QED BY <2>1 DEF Cat
<1>6. (s \o v) \o y = s \o (v \o y)
  <2>1. Cat(Cat(s, v), y) = Cat(s, Cat(v, y))
    BY <1>1, CatAssoc
  <2> QED BY <2>1 DEF Cat
<1> QED BY <1>2, <1>3, <1>4, <1>5, <1>6 DEF a

\* Two runs of chunks, one after the other.
LEMMA FlattenConcat ==
    ASSUME NEW S, NEW s \in Seq(Seq(S)), NEW t \in Seq(Seq(S))
    PROVE  FlattenSeq(s \o t) = FlattenSeq(s) \o FlattenSeq(t)
<1> DEFINE T == {n \in Nat : \A u \in Seq(Seq(S)) :
                    Len(u) = n => FlattenSeq(s \o u) = FlattenSeq(s) \o FlattenSeq(u)}
<1>0. FlattenSeq(s) \in Seq(S)
  BY FlattenType
<1>1. 0 \in T
  <2> SUFFICES ASSUME NEW u \in Seq(Seq(S)), Len(u) = 0
               PROVE  FlattenSeq(s \o u) = FlattenSeq(s) \o FlattenSeq(u)
    OBVIOUS
  <2>1. u = <<>>
    BY EmptySeq
  <2>2. s \o u = s
    BY <2>1, ConcatEmptySeq
  <2>3. FlattenSeq(s) \o <<>> = FlattenSeq(s)
    BY <1>0, ConcatEmptySeq
  <2> QED BY <2>1, <2>2, <2>3, FlattenEmpty
<1>2. ASSUME NEW n \in Nat, n \in T PROVE n + 1 \in T
  <2> SUFFICES ASSUME NEW u \in Seq(Seq(S)), Len(u) = n + 1
               PROVE  FlattenSeq(s \o u) = FlattenSeq(s) \o FlattenSeq(u)
    OBVIOUS
  <2>1. u # <<>>
    BY EmptySeq
  <2>2. PICK v \in Seq(Seq(S)), x \in Seq(S) : u = Append(v, x)
    BY <2>1, SequenceEmptyOrAppend
  <2>3. Len(v) = n
    BY <2>2, AppendProperties, LenProperties
  <2>4. FlattenSeq(s \o v) = FlattenSeq(s) \o FlattenSeq(v)
    BY <1>2, <2>3
  <2> QED BY <2>2, <2>4, FlattenConcatAppend
<1>3. Nat \subseteq T
  <2> HIDE DEF T
  <2> QED BY <1>1, <1>2, NatSetInduction
<1>4. Len(t) \in T
  BY <1>3, LenProperties
<1> QED BY <1>4

\* The first k + 1 chunks are the first k and another; and the chunks after k.
LEMMA FlattenSplit ==
    ASSUME NEW S, NEW s \in Seq(Seq(S)), NEW k \in 0..(Len(s) - 1)
    PROVE  /\ FlattenSeq(SubSeq(s, 1, k + 1)) = FlattenSeq(SubSeq(s, 1, k)) \o s[k + 1]
           /\ FlattenSeq(Drop(s, k)) = s[k + 1] \o FlattenSeq(Drop(s, k + 1))
<1>1. Len(s) \in Nat /\ k \in Nat /\ k + 1 \in 1..Len(s) /\ k + 1 \in 0..Len(s) /\ k \in 0..Len(s)
  BY LenProperties
<1> DEFINE a == SubSeq(s, 1, k)
           x == s[k + 1]
           y == <<x>>
           c == Drop(s, k + 1)
<1>2. a \in Seq(Seq(S)) /\ x \in Seq(S) /\ c \in Seq(Seq(S)) /\ y \in Seq(Seq(S))
  <2>1. a \in Seq(Seq(S))
    BY <1>1, TakeProperties
  <2>2. c \in Seq(Seq(S))
    BY <1>1, DropProperties
  <2>3. x \in Seq(S)
    BY <1>1, ElementOfSeq
  <2>4. y \in Seq(Seq(S))
    BY <2>3
  <2> QED BY <2>1, <2>2, <2>3, <2>4, Zenon
<1>3. SubSeq(s, 1, k + 1) = a \o y
  BY <1>1, SubSeqRecursiveSecond
<1>4. Drop(s, k) = y \o c
  BY <1>1, SubSeqRecursiveFirst DEF Drop
<1>5. FlattenSeq(y) = x
  BY FlattenOne
<1> HIDE DEF a, c, y
<1>6. FlattenSeq(a \o y) = FlattenSeq(a) \o FlattenSeq(y)
  BY <1>2, FlattenConcat
<1>7. FlattenSeq(y \o c) = FlattenSeq(y) \o FlattenSeq(c)
  BY <1>2, FlattenConcat
<1> QED BY <1>3, <1>4, <1>5, <1>6, <1>7 DEF a, c

\* Chunks, cut in two.
LEMMA FlattenTakeDrop ==
    ASSUME NEW S, NEW s \in Seq(Seq(S)), NEW k \in 0..Len(s)
    PROVE  /\ FlattenSeq(SubSeq(s, 1, k)) \in Seq(S)
           /\ FlattenSeq(Drop(s, k)) \in Seq(S)
           /\ FlattenSeq(s) = FlattenSeq(SubSeq(s, 1, k)) \o FlattenSeq(Drop(s, k))
<1> DEFINE a == SubSeq(s, 1, k)
           c == Drop(s, k)
<1>1. a \in Seq(Seq(S)) /\ c \in Seq(Seq(S))
  BY TakeProperties, DropProperties
<1>2. s = a \o c
  BY TakeDrop
<1> HIDE DEF a, c
<1>3. FlattenSeq(a \o c) = FlattenSeq(a) \o FlattenSeq(c)
  BY <1>1, FlattenConcat
<1> QED BY <1>1, <1>2, <1>3, FlattenType DEF a, c

-----------------------------------------------------------------------------
(* Runs of bytes, with nothing but these lemmas to go by: Cat, Drop and Piece   *)
(* stay closed in the proofs that follow.                                       *)

\* The elements of s after the first m, up to the first n.
Piece(s, m, n) == SubSeq(s, m + 1, n)

\* What is concatenated.
LEMMA CatProperties ==
    \A s, t \in Seq(Nat) : /\ Cat(s, t) \in Seq(Nat)
                           /\ Len(Cat(s, t)) = Len(s) + Len(t)
                           /\ Len(s) \in Nat /\ Len(t) \in Nat
BY ConcatProperties, LenProperties DEF Cat

\* Concatenation with nothing.
LEMMA CatEmpty ==
    \A s \in Seq(Nat) : Cat(s, <<>>) = s /\ Cat(<<>>, s) = s
BY ConcatEmptySeq DEF Cat

\* Concatenation is associative.
LEMMA CatTwice ==
    \A s, t, u \in Seq(Nat) : Cat(Cat(s, t), u) = Cat(s, Cat(t, u))
BY CatAssoc

\* What a piece is.
LEMMA PieceProperties ==
    \A s \in Seq(Nat) : \A m, n \in Nat : m <= n /\ n <= Len(s) =>
        /\ Piece(s, m, n) \in Seq(Nat)
        /\ Len(Piece(s, m, n)) = n - m
        /\ \A i \in 1..(n - m) : Piece(s, m, n)[i] = s[m + i]
        /\ Drop(s, m) = Cat(Piece(s, m, n), Drop(s, n))
<1> TAKE s \in Seq(Nat)
<1> TAKE m, n \in Nat
<1>0. HAVE m <= n /\ n <= Len(s)
<1>1. Len(s) \in Nat
  BY LenProperties
<1>2. m + 1 \in 1..(Len(s) + 1) /\ n \in ((m + 1) - 1)..Len(s) /\ Len(s) \in n..Len(s)
  BY <1>0, <1>1
<1>3. SubSeq(s, m + 1, n) \o SubSeq(s, n + 1, Len(s)) = SubSeq(s, m + 1, Len(s))
  BY <1>2, ConcatAdjacentSubSeq
<1>4. \A i \in (m + 1)..n : s[i] \in Nat
  BY <1>0, <1>1, ElementOfSeq
<1>5. /\ SubSeq(s, m + 1, n) \in Seq(Nat) /\ Len(SubSeq(s, m + 1, n)) = n - m
      /\ \A i \in 1..(n - m) : SubSeq(s, m + 1, n)[i] = s[m + i]
  BY <1>0, <1>1, <1>4, SubSeqProperties
<1> QED BY <1>3, <1>5 DEF Drop, Piece, Cat

\* What is left after n bytes.
LEMMA DropLength ==
    \A s \in Seq(Nat) : \A n \in Nat : n <= Len(s) =>
        Drop(s, n) \in Seq(Nat) /\ Len(Drop(s, n)) = Len(s) - n
BY DropProperties, LenProperties

\* What is left of a concatenation, after a part of the first.
LEMMA DropCat ==
    \A s, t \in Seq(Nat) : \A n \in Nat : n <= Len(s) =>
        /\ Drop(Cat(s, t), n) = Cat(Drop(s, n), t)
        /\ Piece(Cat(s, t), 0, n) = Piece(s, 0, n)
<1> TAKE s, t \in Seq(Nat)
<1> TAKE n \in Nat
<1>0. HAVE n <= Len(s)
<1>1. n \in 0..Len(s)
  BY <1>0, LenProperties
<1>2. Drop(s \o t, n) = Drop(s, n) \o t /\ SubSeq(s \o t, 1, n) = SubSeq(s, 1, n)
  BY <1>1, DropConcat
<1>3. Piece(s \o t, 0, n) = SubSeq(s \o t, 1, n) /\ Piece(s, 0, n) = SubSeq(s, 1, n)
  BY DEF Piece
<1> QED BY <1>2, <1>3 DEF Cat

\* The ends of a run.
LEMMA RunEnds ==
    \A s \in Seq(Nat) : /\ Drop(s, 0) = s /\ Drop(s, Len(s)) = <<>>
                        /\ Piece(s, 0, 0) = <<>> /\ Piece(s, 0, Len(s)) = s
BY DropEnds, SubSeqFull, SubSeqEmpty, LenProperties DEF Piece

\* The first part of a concatenation, and the second.
LEMMA CatParts ==
    \A s, t \in Seq(Nat) : Piece(Cat(s, t), 0, Len(s)) = s /\ Drop(Cat(s, t), Len(s)) = t
<1> TAKE s, t \in Seq(Nat)
<1>1. Len(s) \in Nat
  BY LenProperties
<1>2. Drop(Cat(s, t), Len(s)) = Cat(Drop(s, Len(s)), t)
      /\ Piece(Cat(s, t), 0, Len(s)) = Piece(s, 0, Len(s))
  BY <1>1, DropCat
<1> QED BY <1>2, RunEnds, CatEmpty

\* A piece of the first part, and what is left after it.
LEMMA PieceOfFirst ==
    \A s, t \in Seq(Nat) : \A m, n \in Nat : m <= n /\ n <= Len(s) =>
        Drop(Cat(s, t), m) = Cat(Piece(s, m, n), Drop(Cat(s, t), n))
<1> TAKE s, t \in Seq(Nat)
<1> TAKE m, n \in Nat
<1>0. HAVE m <= n /\ n <= Len(s)
<1>1. m <= Len(s)
  BY <1>0, LenProperties
<1>2. Drop(Cat(s, t), m) = Cat(Drop(s, m), t) /\ Drop(Cat(s, t), n) = Cat(Drop(s, n), t)
  BY <1>0, <1>1, DropCat
<1>3. Drop(s, m) = Cat(Piece(s, m, n), Drop(s, n)) /\ Piece(s, m, n) \in Seq(Nat)
  BY <1>0, PieceProperties
<1>4. Drop(s, n) \in Seq(Nat)
  BY <1>0, DropLength
<1> QED BY <1>2, <1>3, <1>4, CatTwice

\* What is left of a concatenation, after a part of the second.
LEMMA DropPast ==
    \A s, t \in Seq(Nat) : \A n \in Nat : n <= Len(t) =>
        Drop(Cat(s, t), Len(s) + n) = Drop(t, n)
<1> TAKE s, t \in Seq(Nat)
<1> TAKE n \in Nat
<1>0. HAVE n <= Len(t)
<1>1. Len(s) \in Nat /\ Len(t) \in Nat /\ Cat(s, t) \in Seq(Nat) /\ Len(Cat(s, t)) = Len(s) + Len(t)
  BY CatProperties
<1>2. Len(s) \in 0..Len(Cat(s, t)) /\ n \in 0..(Len(Cat(s, t)) - Len(s))
  BY <1>0, <1>1
<1>3. Drop(Drop(Cat(s, t), Len(s)), n) = Drop(Cat(s, t), Len(s) + n)
  BY <1>1, <1>2, DropDrop
<1> QED BY <1>3, CatParts

\* The smaller of two numbers.
LEMMA MinOfTwo ==
    ASSUME NEW a \in Int, NEW b \in Int
    PROVE  Min({a, b}) = IF a <= b THEN a ELSE b
<1> DEFINE m == IF a <= b THEN a ELSE b
<1>1. m \in {a, b} /\ \A y \in {a, b} : m =< y
  OBVIOUS
<1>2. \A x \in {a, b} : (\A y \in {a, b} : x =< y) => x = m
  OBVIOUS
<1> HIDE DEF m
<1>3. (CHOOSE x \in {a, b} : \A y \in {a, b} : x =< y) = m
  BY <1>1, <1>2
<1> QED BY <1>3 DEF Min, m

-----------------------------------------------------------------------------
(* Reading from chunks.                                                      *)

\* What is left of the chunks cs before turn k + 1, `skip' bytes of it being skipped.
Left(cs, k, skip) == Drop(FlattenSeq(Drop(cs, k)), skip)

\* f holds what Gather's loop has after each of the first m turns.
Gathers(f, cs, skip, n, m) ==
    f = [k \in 0..m |-> IF k = 0 THEN [bytes |-> <<>>, skip |-> skip]
                        ELSE Gathered(f[k - 1], cs[k], n)]

\* There is such an f.
LEMMA GathersExists ==
    ASSUME NEW cs, NEW skip, NEW n, NEW m \in Nat
    PROVE  \E f : Gathers(f, cs, skip, n, m)
<1> DEFINE zero == [bytes |-> <<>>, skip |-> skip]
           T == {k \in Nat : \E f : Gathers(f, cs, skip, n, k)}
<1>1. 0 \in T
  <2> DEFINE f == [k \in 0..0 |-> zero]
  <2>1. f = [k \in 0..0 |-> IF k = 0 THEN zero ELSE Gathered(f[k - 1], cs[k], n)]
    OBVIOUS
  <2>2. Gathers(f, cs, skip, n, 0)
    <3> HIDE DEF f
    <3> QED BY <2>1 DEF Gathers
  <2> QED BY <2>2
<1>2. ASSUME NEW k \in Nat, k \in T PROVE k + 1 \in T
  <2>1. PICK f : Gathers(f, cs, skip, n, k)
    BY <1>2
  <2> DEFINE g == [i \in 0..(k + 1) |-> IF i = 0 THEN zero ELSE Gathered(f[i - 1], cs[i], n)]
  <2>2. f = [i \in 0..k |-> IF i = 0 THEN zero ELSE Gathered(f[i - 1], cs[i], n)]
    BY <2>1 DEF Gathers
  <2>3. ASSUME NEW i \in 0..k PROVE g[i] = f[i]
    <3>1. f[i] = IF i = 0 THEN zero ELSE Gathered(f[i - 1], cs[i], n)
      BY <2>2
    <3> HIDE DEF zero
    <3> QED BY <3>1
  <2> HIDE DEF zero
  <2>4. ASSUME NEW i \in 0..(k + 1), i # 0 PROVE f[i - 1] = g[i - 1]
    <3>1. i - 1 \in 0..k
      BY <2>4
    <3> HIDE DEF g
    <3> QED BY <3>1, <2>3
  <2>5. ASSUME NEW i \in 0..(k + 1)
        PROVE  (IF i = 0 THEN zero ELSE Gathered(f[i - 1], cs[i], n))
                  = (IF i = 0 THEN zero ELSE Gathered(g[i - 1], cs[i], n))
    <3> HIDE DEF g
    <3> QED BY <2>4
  <2>6. g = [i \in 0..(k + 1) |-> IF i = 0 THEN zero ELSE Gathered(g[i - 1], cs[i], n)]
    BY <2>5
  <2>7. Gathers(g, cs, skip, n, k + 1)
    <3> HIDE DEF g
    <3> QED BY <2>6 DEF Gathers, zero
  <2> QED BY <2>7
<1>3. Nat \subseteq T
  <2> HIDE DEF T
  <2> QED BY <1>1, <1>2, NatSetInduction
<1> QED BY <1>3

\* What a turn of Gather's loop keeps: the bytes read so far, with what is left, are all
\* of them; once there are n, they are the first n.
Gathering(part, cs, k, whole, n) ==
    /\ part \in [bytes : Seq(Nat), skip : Nat]
    /\ Len(part.bytes) <= n
    /\ Len(part.bytes) = n => part.bytes = Piece(whole, 0, n)
    /\ Len(part.bytes) < n => /\ part.skip <= Len(FlattenSeq(Drop(cs, k)))
                              /\ whole = Cat(part.bytes, Left(cs, k, part.skip))

\* A turn that takes the bytes of the next chunk from `skip' to `to'.
LEMMA TakesPart ==
    \A bytes, c, rest \in Seq(Nat) : \A skip, to \in Nat : skip <= to /\ to <= Len(c) =>
        /\ Cat(bytes, Piece(c, skip, to)) \in Seq(Nat)
        /\ Len(Cat(bytes, Piece(c, skip, to))) = Len(bytes) + (to - skip)
        /\ Cat(bytes, Drop(Cat(c, rest), skip))
              = Cat(Cat(bytes, Piece(c, skip, to)), Drop(Cat(c, rest), to))
        /\ Piece(Cat(bytes, Drop(Cat(c, rest), skip)), 0, Len(bytes) + (to - skip))
              = Cat(bytes, Piece(c, skip, to))
<1> TAKE bytes, c, rest \in Seq(Nat)
<1> TAKE skip, to \in Nat
<1>0. HAVE skip <= to /\ to <= Len(c)
<1>1. Len(c) \in Nat /\ Len(rest) \in Nat /\ Cat(c, rest) \in Seq(Nat) /\ to <= Len(Cat(c, rest))
  BY <1>0, CatProperties
<1>2. Drop(Cat(c, rest), to) \in Seq(Nat)
  BY <1>1, DropLength
<1>3. Piece(c, skip, to) \in Seq(Nat) /\ Len(Piece(c, skip, to)) = to - skip
  BY <1>0, PieceProperties
<1>4. Drop(Cat(c, rest), skip) = Cat(Piece(c, skip, to), Drop(Cat(c, rest), to))
  BY <1>0, PieceOfFirst
<1>5. PICK more : more = Cat(bytes, Piece(c, skip, to))
  OBVIOUS
<1>6. more \in Seq(Nat) /\ Len(more) = Len(bytes) + Len(Piece(c, skip, to))
  BY <1>3, <1>5, CatProperties
<1>7. Len(more) = Len(bytes) + (to - skip)
  BY <1>3, <1>6
<1>8. Cat(bytes, Drop(Cat(c, rest), skip)) = Cat(more, Drop(Cat(c, rest), to))
  BY <1>2, <1>3, <1>4, <1>5, CatTwice
<1>9. Piece(Cat(bytes, Drop(Cat(c, rest), skip)), 0, Len(more)) = more
  BY <1>2, <1>6, <1>8, CatParts
<1> QED BY <1>5, <1>6, <1>7, <1>8, <1>9

\* A turn keeps it.
LEMMA GatheredKeeps ==
    ASSUME NEW cs \in Seq(Seq(Nat)), NEW k \in 0..(Len(cs) - 1), NEW whole \in Seq(Nat),
           NEW n \in Nat, NEW part, Gathering(part, cs, k, whole, n)
    PROVE  Gathering(Gathered(part, cs[k + 1], n), cs, k + 1, whole, n)
<1>1. k \in Nat /\ k + 1 \in 1..Len(cs) /\ k + 1 \in 0..Len(cs)
  BY LenProperties
<1>2. PICK c : c = cs[k + 1] /\ c \in Seq(Nat)
  BY <1>1, ElementOfSeq
<1>3. PICK rest : rest = FlattenSeq(Drop(cs, k + 1)) /\ rest \in Seq(Nat)
  BY <1>1, FlattenTakeDrop
<1>4. FlattenSeq(Drop(cs, k)) = Cat(c, rest)
  BY <1>2, <1>3, FlattenSplit DEF Cat
<1>5. PICK bytes, skip : part = [bytes |-> bytes, skip |-> skip] /\ bytes \in Seq(Nat)
           /\ skip \in Nat
  BY DEF Gathering
<1>6. /\ Len(bytes) \in Nat /\ Len(bytes) <= n /\ Len(c) \in Nat /\ Len(rest) \in Nat
      /\ part.bytes = bytes /\ part.skip = skip
  BY <1>2, <1>3, <1>5, LenProperties DEF Gathering
<1>7. \A i : Left(cs, k, i) = Drop(Cat(c, rest), i) /\ Left(cs, k + 1, i) = Drop(rest, i)
  BY <1>3, <1>4 DEF Left
<1>8. c \in Seq(Nat) /\ rest \in Seq(Nat) /\ bytes \in Seq(Nat) /\ skip \in Nat
  BY <1>2, <1>3, <1>5
<1>9. PICK next : next = Gathered(part, c, n)
  OBVIOUS
<1> SUFFICES Gathering(next, cs, k + 1, whole, n)
  BY <1>2, <1>9
<1>10. CASE Len(bytes) = n
  <2>1. next = part
    BY <1>6, <1>9, <1>10 DEF Gathered
  <2> QED BY <1>6, <2>1, <1>10 DEF Gathering
<1>11. CASE Len(bytes) < n /\ skip >= Len(c)
  <2>1. next = [part EXCEPT !.skip = @ - Len(c)]
    BY <1>6, <1>9, <1>11 DEF Gathered
  <2>2. next.bytes = bytes /\ next.skip = skip - Len(c)
        /\ next = [bytes |-> bytes, skip |-> skip - Len(c)]
    BY <1>5, <2>1
  <2>3. Len(Cat(c, rest)) = Len(c) + Len(rest)
    BY <1>8, CatProperties
  <2>4. skip <= Len(Cat(c, rest)) /\ whole = Cat(bytes, Drop(Cat(c, rest), skip))
    BY <1>4, <1>6, <1>7, <1>11 DEF Gathering
  <2>5. PICK i : i = skip - Len(c) /\ i \in Nat
    <3>1. skip - Len(c) \in Nat
      BY <1>6, <1>8, <1>11
    <3> QED BY <3>1
  <2>6. i <= Len(rest) /\ skip = Len(c) + i
    BY <1>5, <1>6, <2>3, <2>4, <2>5
  <2>7. Drop(Cat(c, rest), skip) = Drop(rest, i)
    BY <1>8, <2>5, <2>6, DropPast
  <2>8. whole = Cat(bytes, Left(cs, k + 1, i))
    BY <1>7, <2>4, <2>7
  <2>9. next \in [bytes : Seq(Nat), skip : Nat]
    BY <1>5, <2>2, <2>5
  <2> QED BY <1>3, <1>6, <1>11, <2>2, <2>5, <2>6, <2>8, <2>9 DEF Gathering
<1>12. CASE Len(bytes) < n /\ skip < Len(c)
  <2>1. PICK q : q = Min({n - Len(bytes), Len(c) - skip})
    OBVIOUS
  <2>2. PICK to : to = skip + q
    OBVIOUS
  <2>3. PICK more : more = Cat(bytes, Piece(c, skip, to))
    OBVIOUS
  <2>4. next = [bytes |-> more, skip |-> 0]
    BY <1>5, <1>6, <1>9, <1>12, <2>1, <2>2, <2>3 DEF Gathered, Cat, Piece
  <2>5. /\ to \in Nat /\ skip <= to /\ to <= Len(c) /\ Len(bytes) + (to - skip) <= n
        /\ Len(bytes) + (to - skip) < n => to = Len(c)
    <3>1. n - Len(bytes) \in Int /\ Len(c) - skip \in Int
      BY <1>5, <1>6
    <3>2. q = IF n - Len(bytes) <= Len(c) - skip THEN n - Len(bytes) ELSE Len(c) - skip
      BY <2>1, <3>1, MinOfTwo
    <3> QED BY <1>5, <1>6, <1>12, <2>2, <3>2
  <2>6. whole = Cat(bytes, Drop(Cat(c, rest), skip))
    BY <1>6, <1>7, <1>12 DEF Gathering
  <2>7. /\ more \in Seq(Nat) /\ Len(more) = Len(bytes) + (to - skip)
        /\ whole = Cat(more, Drop(Cat(c, rest), to))
        /\ Piece(whole, 0, Len(more)) = more
    <3>1. Cat(bytes, Piece(c, skip, to)) \in Seq(Nat)
      BY <1>8, <2>5, TakesPart
    <3>2. Len(Cat(bytes, Piece(c, skip, to))) = Len(bytes) + (to - skip)
      BY <1>8, <2>5, TakesPart
    <3>3. Cat(bytes, Drop(Cat(c, rest), skip))
             = Cat(Cat(bytes, Piece(c, skip, to)), Drop(Cat(c, rest), to))
      BY <1>8, <2>5, TakesPart
    <3>4. Piece(Cat(bytes, Drop(Cat(c, rest), skip)), 0, Len(bytes) + (to - skip))
             = Cat(bytes, Piece(c, skip, to))
      BY <1>8, <2>5, TakesPart
    <3> QED BY <2>3, <2>6, <3>1, <3>2, <3>3, <3>4
  <2>8. to = Len(c) => whole = Cat(more, Left(cs, k + 1, 0))
    BY <1>7, <1>8, <2>7, CatParts, RunEnds
  <2>9. next.bytes = more /\ next.skip = 0 /\ next \in [bytes : Seq(Nat), skip : Nat]
    BY <2>4, <2>7
  <2>10. Len(more) <= n /\ (Len(more) < n => whole = Cat(more, Left(cs, k + 1, 0)))
    BY <2>5, <2>7, <2>8
  <2>11. 0 <= Len(FlattenSeq(Drop(cs, k + 1)))
    BY <1>3, <1>6
  <2> QED BY <2>7, <2>9, <2>10, <2>11 DEF Gathering
<1> QED BY <1>5, <1>6, <1>10, <1>11, <1>12

\* Gather reads the n bytes after `skip', whatever chunks they are in.
LEMMA GatherReads ==
    ASSUME NEW cs \in Seq(Seq(Nat)), NEW skip \in Nat, NEW n \in Nat,
           skip + n <= Len(FlattenSeq(cs))
    PROVE  Gather(cs, skip, n) = Piece(Drop(FlattenSeq(cs), skip), 0, n)
<1> DEFINE whole == Drop(FlattenSeq(cs), skip)
           m == Len(cs)
<1>1. m \in Nat /\ FlattenSeq(cs) \in Seq(Nat) /\ Len(FlattenSeq(cs)) \in Nat
  BY FlattenType, LenProperties
<1>2. whole \in Seq(Nat) /\ Len(whole) = Len(FlattenSeq(cs)) - skip
  <2>1. skip <= Len(FlattenSeq(cs))
    BY <1>1
  <2> QED BY <1>1, <2>1, DropLength
<1>3. PICK f : Gathers(f, cs, skip, n, m) /\ Gather(cs, skip, n) = f[m].bytes
  <2> DEFINE f == CHOOSE f : Gathers(f, cs, skip, n, m)
  <2>1. Gathers(f, cs, skip, n, m)
    BY <1>1, GathersExists
  <2>2. Gather(cs, skip, n) = f[m].bytes
    BY DEF Gather, Gathers
  <2> QED BY <2>1, <2>2
<1>4. \A k \in 0..m : f[k] = IF k = 0 THEN [bytes |-> <<>>, skip |-> skip]
                             ELSE Gathered(f[k - 1], cs[k], n)
  BY <1>3 DEF Gathers
<1> DEFINE T == {k \in Nat : k <= m => Gathering(f[k], cs, k, whole, n)}
<1>5. 0 \in T
  <2>1. f[0] = [bytes |-> <<>>, skip |-> skip] /\ 0 \in 0..m
    BY <1>1, <1>4
  <2>2. f[0].bytes = <<>> /\ f[0].skip = skip /\ f[0] \in [bytes : Seq(Nat), skip : Nat]
    BY <2>1, EmptySeq
  <2>3. Left(cs, 0, skip) = whole
    BY DropEnds DEF Left
  <2>4. Cat(<<>>, whole) = whole /\ Len(<<>>) = 0 /\ Piece(whole, 0, 0) = <<>>
    <3> HIDE DEF whole
    <3> QED BY <1>2, CatEmpty, RunEnds, EmptySeq
  <2>5. skip <= Len(FlattenSeq(Drop(cs, 0)))
    BY <1>1, DropEnds
  <2> HIDE DEF whole
  <2>6. Gathering(f[0], cs, 0, whole, n)
    BY <2>2, <2>3, <2>4, <2>5 DEF Gathering
  <2> QED BY <2>6
<1>6. ASSUME NEW k \in Nat, k \in T PROVE k + 1 \in T
  <2> SUFFICES ASSUME k + 1 <= m PROVE Gathering(f[k + 1], cs, k + 1, whole, n)
    OBVIOUS
  <2>1. Gathering(f[k], cs, k, whole, n) /\ k \in 0..(Len(cs) - 1)
    BY <1>1, <1>6
  <2>2. f[k + 1] = Gathered(f[k], cs[k + 1], n)
    <3>1. k + 1 \in 0..m /\ k + 1 # 0 /\ (k + 1) - 1 = k
      BY <1>1
    <3> QED BY <1>4, <3>1
  <2> HIDE DEF whole, m
  <2> QED BY <1>2, <2>1, <2>2, GatheredKeeps
<1>7. Nat \subseteq T
  <2> HIDE DEF T
  <2> QED BY <1>5, <1>6, NatSetInduction
<1>8. Gathering(f[m], cs, m, whole, n)
  BY <1>1, <1>7
<1> HIDE DEF whole
<1>9. f[m].bytes \in Seq(Nat) /\ f[m].skip \in Nat
  BY <1>8 DEF Gathering
<1>10. Len(f[m].bytes) = n
  <2> SUFFICES ASSUME Len(f[m].bytes) < n PROVE FALSE
    BY <1>8, <1>9, LenProperties DEF Gathering
  <2>1. /\ f[m].skip <= Len(FlattenSeq(Drop(cs, m)))
        /\ whole = Cat(f[m].bytes, Left(cs, m, f[m].skip))
    BY <1>8 DEF Gathering
  <2>2. FlattenSeq(Drop(cs, m)) = <<>>
    BY DropEnds, FlattenEmpty
  <2>3. f[m].skip = 0
    BY <1>9, <2>1, <2>2
  <2>4. Left(cs, m, f[m].skip) = <<>>
    BY <2>2, <2>3, EmptySeq, DropEnds DEF Left
  <2>5. whole = f[m].bytes
    BY <1>9, <2>1, <2>4, CatEmpty
  <2> QED BY <1>1, <1>2, <2>5
<1> QED BY <1>3, <1>8, <1>10 DEF Gathering, whole

-----------------------------------------------------------------------------
(* The buffer.                                                               *)

\* No chunk is empty; the head chunk, if any, has bytes left, and without one no offset
\* is kept; the total is what is left.
BufferOK(b) ==
    /\ b \in [chunks : Seq(Seq(Nat)), headIndex : Nat, headOffset : Nat, totalLength : Nat]
    /\ \A i \in 1..Len(b.chunks) : b.chunks[i] # <<>>
    /\ b.headIndex <= Len(b.chunks)
    /\ b.headOffset # 0 => b.headIndex < Len(b.chunks) /\ b.headOffset < Len(HeadChunk(b))
    /\ b.totalLength = Len(Contents(b))

\* A buffer of the given fields.
Buffer(cs, k, off, total) ==
    [chunks |-> cs, headIndex |-> k, headOffset |-> off, totalLength |-> total]

\* A buffer is its fields, and a field of it can be set.
LEMMA BufferSet ==
    \A cs, k, off, total, x :
        /\ Buffer(cs, k, off, total).chunks = cs /\ Buffer(cs, k, off, total).headIndex = k
        /\ Buffer(cs, k, off, total).headOffset = off
        /\ Buffer(cs, k, off, total).totalLength = total
        /\ [Buffer(cs, k, off, total) EXCEPT !.chunks = x] = Buffer(x, k, off, total)
        /\ [Buffer(cs, k, off, total) EXCEPT !.headIndex = x] = Buffer(cs, x, off, total)
        /\ [Buffer(cs, k, off, total) EXCEPT !.headOffset = x] = Buffer(cs, k, x, total)
        /\ [Buffer(cs, k, off, total) EXCEPT !.totalLength = x] = Buffer(cs, k, off, x)
BY DEF Buffer

\* Its bytes, in the terms of the lemmas on runs.
LEMMA ContentsIs ==
    ASSUME NEW b
    PROVE  /\ Unused(b) = Drop(b.chunks, b.headIndex)
           /\ Contents(b) = Drop(FlattenSeq(Drop(b.chunks, b.headIndex)), b.headOffset)
BY DEF Contents, Unused, Drop

\* Where there is a head chunk: what is left of it, and the chunks after it.
LEMMA HeadOfBuffer ==
    ASSUME NEW b, b.chunks \in Seq(Seq(Nat)), b.headIndex \in Nat, b.headIndex < Len(b.chunks),
           b.headOffset \in Nat
    PROVE  LET rest == FlattenSeq(Drop(b.chunks, b.headIndex + 1))
           IN  /\ HeadChunk(b) \in Seq(Nat) /\ rest \in Seq(Nat)
               /\ FlattenSeq(Unused(b)) = Cat(HeadChunk(b), rest)
               /\ Contents(b) = Drop(Cat(HeadChunk(b), rest), b.headOffset)
<1> DEFINE cs == b.chunks
           k == b.headIndex
           rest == FlattenSeq(Drop(cs, k + 1))
<1>1. k \in 0..(Len(cs) - 1) /\ k + 1 \in 1..Len(cs) /\ k + 1 \in 0..Len(cs)
  BY LenProperties
<1>2. cs[k + 1] \in Seq(Nat)
  BY <1>1, ElementOfSeq
<1>3. FlattenSeq(Drop(cs, k)) = cs[k + 1] \o rest
  BY <1>1, FlattenSplit
<1>4. rest \in Seq(Nat)
  BY <1>1, FlattenTakeDrop
<1>5. HeadChunk(b) = cs[k + 1]
  BY DEF HeadChunk
<1>6. FlattenSeq(Drop(cs, k)) = Cat(HeadChunk(b), rest)
  BY <1>3, <1>5 DEF Cat
<1>7. FlattenSeq(Unused(b)) = Cat(HeadChunk(b), rest)
  BY <1>6, ContentsIs
<1>8. Contents(b) = Drop(Cat(HeadChunk(b), rest), b.headOffset)
  BY <1>6, ContentsIs
<1> QED BY <1>2, <1>4, <1>5, <1>7, <1>8

\* Its bytes are bytes, of which there are none without a head chunk.
LEMMA BufferContents ==
    ASSUME NEW b, BufferOK(b)
    PROVE  /\ Contents(b) \in Seq(Nat)
           /\ b.headIndex = Len(b.chunks) => Contents(b) = <<>> /\ b.headOffset = 0
           /\ b.headIndex < Len(b.chunks) => b.headOffset < Len(HeadChunk(b))
           /\ FlattenSeq(Unused(b)) \in Seq(Nat)
           /\ Len(FlattenSeq(Unused(b))) = b.headOffset + Len(Contents(b))
<1>1. /\ b.chunks \in Seq(Seq(Nat)) /\ b.headIndex \in Nat /\ b.headOffset \in Nat
      /\ Len(b.chunks) \in Nat /\ b.headIndex <= Len(b.chunks)
  BY LenProperties DEF BufferOK
<1>2. CASE b.headIndex = Len(b.chunks)
  <2>1. b.headOffset = 0
    BY <1>1, <1>2 DEF BufferOK
  <2>2. Drop(b.chunks, b.headIndex) = <<>>
    BY <1>1, <1>2, DropEnds
  <2>3. FlattenSeq(Unused(b)) = <<>> /\ Contents(b) = Drop(<<>>, 0)
    BY <2>1, <2>2, ContentsIs, FlattenEmpty
  <2>4. <<>> \in Seq(Nat) /\ Len(<<>>) = 0
    BY EmptySeq
  <2>5. Drop(<<>>, 0) = <<>>
    BY <2>4, RunEnds
  <2>6. ~(b.headIndex < Len(b.chunks))
    BY <1>1, <1>2
  <2>7. FlattenSeq(Unused(b)) \in Seq(Nat) /\ Contents(b) \in Seq(Nat) /\ Contents(b) = <<>>
    BY <2>3, <2>4, <2>5
  <2>8. Len(FlattenSeq(Unused(b))) = b.headOffset + Len(Contents(b))
    BY <2>1, <2>3, <2>4, <2>7
  <2> QED BY <2>1, <2>6, <2>7, <2>8
<1>3. CASE b.headIndex < Len(b.chunks)
  <2>1. PICK rest : /\ HeadChunk(b) \in Seq(Nat) /\ rest \in Seq(Nat)
                    /\ FlattenSeq(Unused(b)) = Cat(HeadChunk(b), rest)
                    /\ Contents(b) = Drop(Cat(HeadChunk(b), rest), b.headOffset)
    BY <1>1, <1>3, HeadOfBuffer
  <2>2. HeadChunk(b) # <<>>
    <3>1. b.headIndex + 1 \in 1..Len(b.chunks)
      BY <1>1, <1>3
    <3> QED BY <3>1 DEF BufferOK, HeadChunk
  <2>3. Len(HeadChunk(b)) \in Nat /\ Len(HeadChunk(b)) # 0
    BY <2>1, <2>2, LenProperties, EmptySeq
  <2>4. b.headOffset < Len(HeadChunk(b))
    BY <1>1, <2>3 DEF BufferOK
  <2>5. /\ Cat(HeadChunk(b), rest) \in Seq(Nat) /\ Len(rest) \in Nat
        /\ Len(Cat(HeadChunk(b), rest)) = Len(HeadChunk(b)) + Len(rest)
    BY <2>1, CatProperties
  <2>6. b.headOffset <= Len(Cat(HeadChunk(b), rest)) /\ Len(Cat(HeadChunk(b), rest)) \in Nat
    BY <1>1, <2>3, <2>4, <2>5
  <2>7. /\ Contents(b) \in Seq(Nat)
        /\ Len(Contents(b)) = Len(Cat(HeadChunk(b), rest)) - b.headOffset
    BY <1>1, <2>1, <2>5, <2>6, DropLength
  <2>8. Len(FlattenSeq(Unused(b))) = b.headOffset + Len(Contents(b))
    BY <1>1, <2>1, <2>6, <2>7
  <2>9. b.headIndex # Len(b.chunks)
    BY <1>1, <1>3
  <2> QED BY <2>1, <2>4, <2>5, <2>7, <2>8, <2>9
<1> QED BY <1>1, <1>2, <1>3

\* An empty buffer.
LEMMA EmptyBufferOK == BufferOK(EmptyBuffer) /\ Contents(EmptyBuffer) = <<>>
<1>1. /\ EmptyBuffer.chunks = <<>> /\ EmptyBuffer.headIndex = 0 /\ EmptyBuffer.headOffset = 0
      /\ EmptyBuffer.totalLength = 0 /\ <<>> \in Seq(Seq(Nat)) /\ Len(<<>>) = 0 /\ <<>> \in Seq(Nat)
  BY EmptySeq DEF EmptyBuffer
<1>2. Contents(EmptyBuffer) = <<>>
  <2>1. Drop(<<>>, 0) = <<>>
    BY <1>1, RunEnds
  <2> QED BY <1>1, <2>1, ContentsIs, FlattenEmpty
<1>3. EmptyBuffer \in [chunks : Seq(Seq(Nat)), headIndex : Nat, headOffset : Nat, totalLength : Nat]
  BY <1>1 DEF EmptyBuffer
<1> QED BY <1>1, <1>2, <1>3 DEF BufferOK

\* A read of four bytes.
LEMMA readUInt32BEReads ==
    ASSUME NEW b, BufferOK(b), NEW offset \in Nat, offset + 4 <= Len(Contents(b))
    PROVE  readUInt32BE(b, offset) = UInt32(Piece(Drop(Contents(b), offset), 0, 4))
<1>1. /\ b.chunks \in Seq(Seq(Nat)) /\ b.headIndex \in 0..Len(b.chunks) /\ b.headOffset \in Nat
  BY LenProperties DEF BufferOK
<1>2. Unused(b) \in Seq(Seq(Nat))
  BY <1>1, ContentsIs, DropProperties
<1>3. PICK whole : whole = FlattenSeq(Unused(b)) /\ whole \in Seq(Nat)
  BY BufferContents
<1>4. Len(whole) = b.headOffset + Len(Contents(b)) /\ Len(Contents(b)) \in Nat
  BY <1>3, BufferContents, LenProperties
<1>5. Contents(b) = Drop(whole, b.headOffset)
  BY <1>3, ContentsIs
<1>6. PICK skip \in Nat : skip = b.headOffset + offset
  BY <1>1
<1>7. skip + 4 <= Len(whole)
  BY <1>1, <1>4, <1>6
<1>8. Gather(Unused(b), skip, 4) = Piece(Drop(whole, skip), 0, 4)
  BY <1>2, <1>3, <1>7, GatherReads
<1>9. Drop(whole, skip) = Drop(Contents(b), offset)
  <2>1. b.headOffset \in 0..Len(whole) /\ offset \in 0..(Len(whole) - b.headOffset)
    BY <1>1, <1>4
  <2>2. Drop(Drop(whole, b.headOffset), offset) = Drop(whole, b.headOffset + offset)
    BY <1>3, <2>1, DropDrop
  <2> QED BY <1>5, <1>6, <2>2
<1> QED BY <1>6, <1>8, <1>9 DEF readUInt32BE

\* A chunk written.
LEMMA pushKeeps ==
    ASSUME NEW b, BufferOK(b), NEW chunk \in Seq(Nat)
    PROVE  BufferOK(push(b, chunk)) /\ Contents(push(b, chunk)) = Cat(Contents(b), chunk)
<1>1. CASE chunk = <<>>
  <2>1. Cat(Contents(b), <<>>) = Contents(b)
    BY BufferContents, CatEmpty
  <2> QED BY <1>1, <2>1 DEF push
<1>2. CASE chunk # <<>>
  <2>1. PICK cs, k, off, total : b = Buffer(cs, k, off, total)
    BY DEF BufferOK, Buffer
  <2>2. /\ cs \in Seq(Seq(Nat)) /\ k \in Nat /\ off \in Nat /\ total \in Nat /\ k \in 0..Len(cs)
        /\ Len(cs) \in Nat /\ k <= Len(cs)
        /\ \A i \in 1..Len(cs) : cs[i] # <<>>
        /\ total = Len(Contents(b)) /\ (off # 0 => k < Len(cs) /\ off < Len(cs[k + 1]))
    BY <2>1, LenProperties DEF BufferOK, HeadChunk, Buffer
  <2>3. PICK ds : ds = Append(cs, chunk)
    OBVIOUS
  <2>4. PICK c : c = Buffer(ds, k, off, total + Len(chunk))
    OBVIOUS
  <2>5. push(b, chunk) = c
    <3>1. b.chunks = cs /\ b.totalLength = total
      BY <2>1, BufferSet
    <3>2. [b EXCEPT !.chunks = ds] = Buffer(ds, k, off, total)
      BY <2>1, BufferSet
    <3>3. [Buffer(ds, k, off, total) EXCEPT !.totalLength = total + Len(chunk)] = c
      BY <2>4, BufferSet
    <3>4. push(b, chunk) = [[b EXCEPT !.chunks = ds] EXCEPT !.totalLength = total + Len(chunk)]
      BY <1>2, <2>3, <3>1 DEF push
    <3> QED BY <3>2, <3>3, <3>4
  <2>6. /\ ds \in Seq(Seq(Nat)) /\ Len(ds) = Len(cs) + 1
        /\ \A i \in 1..Len(cs) : ds[i] = cs[i]
        /\ ds[Len(cs) + 1] = chunk
    BY <2>2, <2>3, AppendProperties
  <2>7. PICK u : u = FlattenSeq(Drop(cs, k)) /\ u \in Seq(Nat)
    BY <2>2, FlattenTakeDrop
  <2>8. FlattenSeq(Drop(ds, k)) = Cat(u, chunk)
    <3>1. <<chunk>> \in Seq(Seq(Nat)) /\ ds = cs \o <<chunk>>
      BY <2>2, <2>3, AppendIsConcat
    <3>2. Drop(cs \o <<chunk>>, k) = Drop(cs, k) \o <<chunk>>
      BY <2>2, <3>1, DropConcat
    <3>3. PICK d : d = Drop(cs, k) /\ d \in Seq(Seq(Nat))
      BY <2>2, DropProperties
    <3>4. FlattenSeq(d \o <<chunk>>) = FlattenSeq(d) \o FlattenSeq(<<chunk>>)
      BY <3>1, <3>3, FlattenConcat
    <3>5. FlattenSeq(<<chunk>>) = chunk
      BY FlattenOne
    <3> QED BY <2>7, <3>1, <3>2, <3>3, <3>4, <3>5 DEF Cat
  <2>9. Contents(b) = Drop(u, off) /\ Contents(c) = Drop(Cat(u, chunk), off)
    <3>1. b.chunks = cs /\ b.headIndex = k /\ b.headOffset = off
      BY <2>1, BufferSet
    <3>2. c.chunks = ds /\ c.headIndex = k /\ c.headOffset = off
      BY <2>4, BufferSet
    <3> QED BY <2>7, <2>8, <3>1, <3>2, ContentsIs
  <2>10. off <= Len(u)
    <3>1. FlattenSeq(Unused(b)) = u /\ b.headOffset = off
      BY <2>1, <2>7, ContentsIs, BufferSet
    <3>2. Len(u) = off + Len(Contents(b)) /\ Len(Contents(b)) \in Nat
      BY <3>1, BufferContents, LenProperties
    <3> QED BY <2>2, <3>2
  <2>11. Contents(c) = Cat(Contents(b), chunk)
    BY <2>2, <2>7, <2>9, <2>10, DropCat
  <2>12. Len(Contents(c)) = total + Len(chunk) /\ Len(chunk) \in Nat
    BY <2>2, <2>11, BufferContents, CatProperties
  <2>13. BufferOK(c)
    <3>1. c \in [chunks : Seq(Seq(Nat)), headIndex : Nat, headOffset : Nat, totalLength : Nat]
      BY <2>2, <2>4, <2>6, <2>12 DEF Buffer
    <3>2. \A i \in 1..Len(ds) : ds[i] # <<>>
      <4>1. \A i \in 1..Len(ds) : i \in 1..Len(cs) \/ i = Len(cs) + 1
        BY <2>2, <2>6
      <4> QED BY <1>2, <2>2, <2>6, <4>1
    <3>3. off # 0 => k < Len(ds) /\ off < Len(ds[k + 1])
      <4>1. k < Len(cs) => k + 1 \in 1..Len(cs)
        BY <2>2
      <4> QED BY <2>2, <2>6, <4>1
    <3>4. k <= Len(ds)
      BY <2>2, <2>6
    <3>5. /\ c.chunks = ds /\ c.headIndex = k /\ c.headOffset = off
          /\ c.totalLength = total + Len(chunk)
      BY <2>4, BufferSet
    <3> QED BY <2>12, <3>1, <3>2, <3>3, <3>4, <3>5 DEF BufferOK, HeadChunk
  <2> QED BY <2>5, <2>11, <2>13
<1> QED BY <1>1, <1>2

\* Chunks that were used up are given back; what is left stays.
LEMMA compactChunksKeeps ==
    ASSUME NEW b, BufferOK(b)
    PROVE  BufferOK(compactChunks(b)) /\ Contents(compactChunks(b)) = Contents(b)
<1>1. PICK cs, k, off, total : b = Buffer(cs, k, off, total)
  BY DEF BufferOK, Buffer
<1>2. /\ cs \in Seq(Seq(Nat)) /\ k \in Nat /\ off \in Nat /\ total \in Nat /\ k \in 0..Len(cs)
      /\ Len(cs) \in Nat /\ k <= Len(cs)
      /\ \A i \in 1..Len(cs) : cs[i] # <<>>
      /\ total = Len(Contents(b)) /\ (off # 0 => k < Len(cs) /\ off < Len(cs[k + 1]))
  BY <1>1, LenProperties DEF BufferOK, HeadChunk, Buffer
<1>3. PICK ds : ds = Drop(cs, k)
  OBVIOUS
<1>4. PICK c : c = Buffer(ds, 0, off, total)
  OBVIOUS
<1>5. compactChunks(b) = b \/ compactChunks(b) = c
  <2>1. b.chunks = cs /\ b.headIndex = k
    BY <1>1, BufferSet
  <2>2. [[b EXCEPT !.chunks = ds] EXCEPT !.headIndex = 0] = c
    <3>1. [b EXCEPT !.chunks = ds] = Buffer(ds, k, off, total)
      BY <1>1, BufferSet
    <3>2. [Buffer(ds, k, off, total) EXCEPT !.headIndex = 0] = c
      BY <1>4, BufferSet
    <3> QED BY <3>1, <3>2
  <2>3. CASE k = Len(cs)
    <3>1. ds = <<>>
      BY <1>2, <1>3, <2>3, DropEnds
    <3> QED BY <2>1, <2>2, <2>3, <3>1 DEF compactChunks
  <2>4. CASE k # Len(cs)
    <3>1. Unused(b) = ds
      BY <1>3, <2>1, ContentsIs
    <3> QED BY <2>1, <2>2, <2>4, <3>1 DEF compactChunks
  <2> QED BY <2>3, <2>4
<1>6. /\ ds \in Seq(Seq(Nat)) /\ Len(ds) = Len(cs) - k
      /\ \A i \in 1..(Len(cs) - k) : ds[i] = cs[k + i]
  BY <1>2, <1>3, DropProperties
<1>7. Drop(ds, 0) = ds
  BY <1>6, DropEnds
<1>8. Contents(c) = Contents(b)
  BY <1>1, <1>3, <1>4, <1>7, ContentsIs, BufferSet
<1>9. BufferOK(c)
  <2>1. c \in [chunks : Seq(Seq(Nat)), headIndex : Nat, headOffset : Nat, totalLength : Nat]
    BY <1>2, <1>4, <1>6 DEF Buffer
  <2>2. \A i \in 1..Len(ds) : ds[i] # <<>>
    BY <1>2, <1>6
  <2>3. off # 0 => 0 < Len(ds) /\ off < Len(ds[0 + 1])
    <3>1. k < Len(cs) => 1 \in 1..(Len(cs) - k) /\ 0 < Len(ds) /\ ds[1] = cs[k + 1]
      BY <1>2, <1>6
    <3> QED BY <1>2, <3>1
  <2>4. /\ c.chunks = ds /\ c.headIndex = 0 /\ c.headOffset = off /\ c.totalLength = total
        /\ 0 <= Len(ds)
    BY <1>2, <1>4, <1>6, BufferSet
  <2> QED BY <1>2, <1>8, <2>1, <2>2, <2>3, <2>4 DEF BufferOK, HeadChunk
<1> QED BY <1>5, <1>8, <1>9

\* Bytes of the head chunk that are used up.
LEMMA UseKeeps ==
    ASSUME NEW b, BufferOK(b), b.headIndex < Len(b.chunks), NEW n \in Nat,
           b.headOffset + n <= Len(HeadChunk(b))
    PROVE  /\ BufferOK(Use(b, n))
           /\ Contents(Use(b, n))
                 = Drop(Cat(HeadChunk(b), FlattenSeq(Drop(b.chunks, b.headIndex + 1))),
                        b.headOffset + n)
<1>1. PICK cs, k, off, total : b = Buffer(cs, k, off, total)
  BY DEF BufferOK, Buffer
<1>2. b.chunks = cs /\ b.headIndex = k /\ b.headOffset = off /\ b.totalLength = total
  BY <1>1, BufferSet
<1>3. /\ cs \in Seq(Seq(Nat)) /\ k \in Nat /\ off \in Nat /\ total \in Nat
      /\ Len(cs) \in Nat /\ k < Len(cs)
      /\ \A i \in 1..Len(cs) : cs[i] # <<>>
      /\ total = Len(Contents(b))
  BY <1>2, LenProperties DEF BufferOK
<1>4. PICK c : c = HeadChunk(b) /\ c = cs[k + 1] /\ c \in Seq(Nat)
  BY <1>2, <1>3, HeadOfBuffer DEF HeadChunk
<1>5. PICK rest : rest = FlattenSeq(Drop(cs, k + 1)) /\ rest \in Seq(Nat)
  BY <1>2, <1>3, HeadOfBuffer
<1>6. Contents(b) = Drop(Cat(c, rest), off)
  BY <1>2, <1>3, <1>4, <1>5, HeadOfBuffer
<1>7. /\ Cat(c, rest) \in Seq(Nat) /\ Len(Cat(c, rest)) = Len(c) + Len(rest)
      /\ Len(c) \in Nat /\ Len(rest) \in Nat
  BY <1>4, <1>5, CatProperties
<1>8. PICK to \in Nat : to = off + n
  BY <1>3
<1>9. to <= Len(c) /\ to <= Len(Cat(c, rest)) /\ off <= Len(Cat(c, rest))
  BY <1>2, <1>3, <1>4, <1>7, <1>8
<1>10. /\ Drop(Cat(c, rest), to) \in Seq(Nat)
       /\ Len(Drop(Cat(c, rest), to)) = Len(Cat(c, rest)) - to
       /\ Len(Contents(b)) = Len(Cat(c, rest)) - off
  BY <1>3, <1>6, <1>7, <1>8, <1>9, DropLength
<1>11. total - n = Len(Drop(Cat(c, rest), to)) /\ total - n \in Nat
  BY <1>3, <1>7, <1>8, <1>9, <1>10
<1>12. CASE to = Len(c)
  <2>1. PICK d : d = Buffer(cs, k + 1, 0, total - n)
    OBVIOUS
  <2>2. Use(b, n) = compactChunks(d)
    <3>1. [b EXCEPT !.headIndex = k + 1] = Buffer(cs, k + 1, off, total)
      BY <1>1, BufferSet
    <3>2. [Buffer(cs, k + 1, off, total) EXCEPT !.headOffset = 0] = Buffer(cs, k + 1, 0, total)
      BY BufferSet
    <3>3. [Buffer(cs, k + 1, 0, total) EXCEPT !.totalLength = total - n] = d
      BY <2>1, BufferSet
    <3>4. [[[b EXCEPT !.headIndex = k + 1] EXCEPT !.headOffset = 0]
              EXCEPT !.totalLength = total - n] = d
      BY <3>1, <3>2, <3>3
    <3>5. b.headOffset + n = Len(HeadChunk(b))
      BY <1>2, <1>4, <1>8, <1>12
    <3> QED BY <1>2, <3>4, <3>5 DEF Use
  <2>3. d.chunks = cs /\ d.headIndex = k + 1 /\ d.headOffset = 0 /\ d.totalLength = total - n
    BY <2>1, BufferSet
  <2>4. Contents(d) = Drop(Cat(c, rest), to)
    <3>1. Drop(Cat(c, rest), Len(c)) = rest
      BY <1>4, <1>5, CatParts
    <3>2. Drop(rest, 0) = rest
      BY <1>5, RunEnds
    <3> QED BY <1>5, <1>12, <2>3, <3>1, <3>2, ContentsIs
  <2>5. BufferOK(d)
    <3>1. d \in [chunks : Seq(Seq(Nat)), headIndex : Nat, headOffset : Nat, totalLength : Nat]
      BY <1>3, <1>11, <2>1 DEF Buffer
    <3>2. k + 1 <= Len(cs)
      BY <1>3
    <3> QED BY <1>3, <1>11, <2>3, <2>4, <3>1, <3>2 DEF BufferOK
  <2> QED BY <1>2, <1>4, <1>5, <1>8, <2>2, <2>4, <2>5, compactChunksKeeps
<1>13. CASE to # Len(c)
  <2>1. PICK d : d = Buffer(cs, k, to, total - n)
    OBVIOUS
  <2>2. Use(b, n) = d
    <3>1. [b EXCEPT !.headOffset = to] = Buffer(cs, k, to, total)
      BY <1>1, BufferSet
    <3>2. [Buffer(cs, k, to, total) EXCEPT !.totalLength = total - n] = d
      BY <2>1, BufferSet
    <3>3. [[b EXCEPT !.headOffset = to] EXCEPT !.totalLength = total - n] = d
      BY <3>1, <3>2
    <3>4. b.headOffset + n # Len(HeadChunk(b))
      BY <1>2, <1>4, <1>8, <1>13
    <3> QED BY <1>2, <1>8, <3>3, <3>4 DEF Use
  <2>3. d.chunks = cs /\ d.headIndex = k /\ d.headOffset = to /\ d.totalLength = total - n
    BY <2>1, BufferSet
  <2>4. HeadChunk(d) = c
    BY <1>4, <2>3 DEF HeadChunk
  <2>5. Contents(d) = Drop(Cat(c, rest), to)
    BY <1>3, <1>5, <1>8, <2>3, <2>4, HeadOfBuffer
  <2>6. BufferOK(d)
    <3>1. d \in [chunks : Seq(Seq(Nat)), headIndex : Nat, headOffset : Nat, totalLength : Nat]
      BY <1>3, <1>11, <2>1 DEF Buffer
    <3>2. to < Len(c) /\ k <= Len(cs)
      BY <1>3, <1>7, <1>9, <1>13
    <3> QED BY <1>3, <1>11, <2>3, <2>4, <2>5, <3>1, <3>2 DEF BufferOK
  <2> QED BY <1>2, <1>4, <1>5, <1>8, <2>2, <2>5, <2>6
<1> QED BY <1>12, <1>13

\* What a turn of consume's loop keeps.
Consuming(part, whole, n) ==
    /\ part.message \in Seq(Nat) /\ BufferOK(part.left)
    /\ Len(part.message) <= n
    /\ whole = Cat(part.message, Contents(part.left))

\* A turn keeps it, and takes a byte at least.
LEMMA ConsumedKeeps ==
    ASSUME NEW part, NEW whole \in Seq(Nat), NEW n \in Nat, n <= Len(whole),
           Consuming(part, whole, n)
    PROVE  /\ Consuming(Consumed(part, n), whole, n)
           /\ \/ Len(part.message) = n /\ Consumed(part, n) = part
              \/ Len(Consumed(part, n).message) > Len(part.message)
<1>1. PICK message, b : message = part.message /\ b = part.left
  OBVIOUS
<1>2. /\ message \in Seq(Nat) /\ BufferOK(b) /\ Len(message) <= n /\ Len(message) \in Nat
      /\ whole = Cat(message, Contents(b)) /\ Contents(b) \in Seq(Nat) /\ Len(Contents(b)) \in Nat
      /\ Len(whole) = Len(message) + Len(Contents(b))
  <2>1. message \in Seq(Nat) /\ BufferOK(b) /\ Len(message) <= n
        /\ whole = Cat(message, Contents(b))
    BY <1>1 DEF Consuming
  <2>2. Contents(b) \in Seq(Nat)
    BY <2>1, BufferContents
  <2> QED BY <2>1, <2>2, CatProperties
<1>3. CASE Len(message) = n
  <2>1. Consumed(part, n) = part
    BY <1>1, <1>3 DEF Consumed
  <2> QED BY <1>1, <1>3, <2>1
<1>4. CASE Len(message) # n
  <2>1. Len(message) < n /\ Contents(b) # <<>>
    <3>1. Contents(b) = <<>> => Len(Contents(b)) = 0
      BY EmptySeq
    <3> QED BY <1>2, <1>4, <3>1
  <2>2. /\ b.chunks \in Seq(Seq(Nat)) /\ b.headIndex \in Nat /\ b.headOffset \in Nat
        /\ b.headIndex < Len(b.chunks)
    <3>1. b.chunks \in Seq(Seq(Nat)) /\ b.headIndex \in Nat /\ b.headOffset \in Nat
      BY <1>2 DEF BufferOK
    <3>2. b.headIndex <= Len(b.chunks) /\ b.headIndex # Len(b.chunks)
      BY <1>2, <2>1, BufferContents DEF BufferOK
    <3> QED BY <3>1, <3>2, LenProperties
  <2>3. PICK c, off : c = HeadChunk(b) /\ off = b.headOffset
    OBVIOUS
  <2>4. PICK rest : rest = FlattenSeq(Drop(b.chunks, b.headIndex + 1))
    OBVIOUS
  <2>5. c \in Seq(Nat) /\ rest \in Seq(Nat) /\ Contents(b) = Drop(Cat(c, rest), off)
    BY <2>2, <2>3, <2>4, HeadOfBuffer
  <2>6. off \in Nat /\ off < Len(c) /\ Len(c) \in Nat
    BY <1>2, <2>2, <2>3, <2>5, BufferContents, LenProperties
  <2>7. PICK copied : copied = Min({n - Len(message), Len(c) - off})
    OBVIOUS
  <2>8. copied \in Nat /\ copied > 0 /\ off + copied <= Len(c) /\ Len(message) + copied <= n
    <3>1. n - Len(message) \in Int /\ Len(c) - off \in Int
      BY <1>2, <2>6
    <3>2. copied = IF n - Len(message) <= Len(c) - off THEN n - Len(message) ELSE Len(c) - off
      BY <2>7, <3>1, MinOfTwo
    <3>3. Len(message) \in Nat /\ Len(message) < n
      BY <1>2, <2>1
    <3> QED BY <2>6, <3>2, <3>3
  <2>9. PICK to \in Nat : to = off + copied
    BY <2>6, <2>8
  <2>10. PICK more : more = Cat(message, Piece(c, off, to))
    OBVIOUS
  <2>11. Consumed(part, n) = [message |-> more, left |-> Use(b, copied)]
    BY <1>1, <1>4, <2>3, <2>7, <2>9, <2>10 DEF Consumed, Cat, Piece
  <2>12. BufferOK(Use(b, copied)) /\ Contents(Use(b, copied)) = Drop(Cat(c, rest), to)
    BY <1>2, <2>2, <2>3, <2>4, <2>8, <2>9, UseKeeps
  <2>13. off <= to /\ to <= Len(c) /\ to - off = copied
    BY <2>6, <2>8, <2>9
  <2> /\ message \in Seq(Nat) /\ c \in Seq(Nat) /\ rest \in Seq(Nat) /\ off \in Nat
      /\ off <= to /\ to <= Len(c)
    BY <1>2, <2>5, <2>6, <2>13
  <2>14. more \in Seq(Nat)
    BY <2>10, TakesPart
  <2>15. Len(more) = Len(message) + copied
    <3>1. Len(Cat(message, Piece(c, off, to))) = Len(message) + (to - off)
      BY TakesPart
    <3> QED BY <2>10, <2>13, <3>1
  <2>16. whole = Cat(more, Contents(Use(b, copied)))
    <3>1. Cat(message, Drop(Cat(c, rest), off))
             = Cat(Cat(message, Piece(c, off, to)), Drop(Cat(c, rest), to))
      BY TakesPart
    <3> QED BY <1>2, <2>5, <2>10, <2>12, <3>1
  <2> QED BY <1>1, <1>2, <2>8, <2>11, <2>12, <2>14, <2>15, <2>16 DEF Consuming
<1> QED BY <1>3, <1>4

\* f holds what consume's loop has after each of the first m turns.
Consumes(f, b, n, m) ==
    f = [k \in 0..m |-> IF k = 0 THEN [message |-> <<>>, left |-> b] ELSE Consumed(f[k - 1], n)]

\* There is such an f.
LEMMA ConsumesExists ==
    ASSUME NEW b, NEW n, NEW m \in Nat
    PROVE  \E f : Consumes(f, b, n, m)
<1> DEFINE zero == [message |-> <<>>, left |-> b]
           T == {k \in Nat : \E f : Consumes(f, b, n, k)}
<1>1. 0 \in T
  <2> DEFINE f == [k \in 0..0 |-> zero]
  <2>1. f = [k \in 0..0 |-> IF k = 0 THEN zero ELSE Consumed(f[k - 1], n)]
    OBVIOUS
  <2>2. Consumes(f, b, n, 0)
    <3> HIDE DEF f
    <3> QED BY <2>1 DEF Consumes
  <2> QED BY <2>2
<1>2. ASSUME NEW k \in Nat, k \in T PROVE k + 1 \in T
  <2>1. PICK f : Consumes(f, b, n, k)
    BY <1>2
  <2> DEFINE g == [i \in 0..(k + 1) |-> IF i = 0 THEN zero ELSE Consumed(f[i - 1], n)]
  <2>2. f = [i \in 0..k |-> IF i = 0 THEN zero ELSE Consumed(f[i - 1], n)]
    BY <2>1 DEF Consumes
  <2>3. ASSUME NEW i \in 0..k PROVE g[i] = f[i]
    <3>1. f[i] = IF i = 0 THEN zero ELSE Consumed(f[i - 1], n)
      BY <2>2
    <3> HIDE DEF zero
    <3> QED BY <3>1
  <2> HIDE DEF zero
  <2>4. ASSUME NEW i \in 0..(k + 1), i # 0 PROVE f[i - 1] = g[i - 1]
    <3>1. i - 1 \in 0..k
      BY <2>4
    <3> HIDE DEF g
    <3> QED BY <3>1, <2>3
  <2>5. ASSUME NEW i \in 0..(k + 1)
        PROVE  (IF i = 0 THEN zero ELSE Consumed(f[i - 1], n))
                  = (IF i = 0 THEN zero ELSE Consumed(g[i - 1], n))
    <3> HIDE DEF g
    <3> QED BY <2>4
  <2>6. g = [i \in 0..(k + 1) |-> IF i = 0 THEN zero ELSE Consumed(g[i - 1], n)]
    BY <2>5
  <2>7. Consumes(g, b, n, k + 1)
    <3> HIDE DEF g
    <3> QED BY <2>6 DEF Consumes, zero
  <2> QED BY <2>7
<1>3. Nat \subseteq T
  <2> HIDE DEF T
  <2> QED BY <1>1, <1>2, NatSetInduction
<1> QED BY <1>3

\* consume takes the first n bytes and leaves the others.
LEMMA consumeTakes ==
    ASSUME NEW b, BufferOK(b), NEW n \in Nat, n <= Len(Contents(b))
    PROVE  /\ consume(b, n).message = Piece(Contents(b), 0, n)
           /\ BufferOK(consume(b, n).left)
           /\ Contents(consume(b, n).left) = Drop(Contents(b), n)
<1>1. PICK whole : whole = Contents(b) /\ whole \in Seq(Nat) /\ n <= Len(whole)
  BY BufferContents
<1>2. PICK f : Consumes(f, b, n, n) /\ consume(b, n) = f[n]
  <2> DEFINE f == CHOOSE f : Consumes(f, b, n, n)
  <2>1. Consumes(f, b, n, n)
    BY ConsumesExists
  <2>2. consume(b, n) = f[n]
    BY DEF consume, Consumes
  <2> QED BY <2>1, <2>2
<1>3. \A k \in 0..n : f[k] = IF k = 0 THEN [message |-> <<>>, left |-> b] ELSE Consumed(f[k - 1], n)
  BY <1>2 DEF Consumes
<1> DEFINE T == {k \in Nat : k <= n => Consuming(f[k], whole, n) /\ Len(f[k].message) >= k}
<1>4. 0 \in T
  <2>1. f[0].message = <<>> /\ f[0].left = b
    BY <1>3
  <2>2. <<>> \in Seq(Nat) /\ Len(<<>>) = 0 /\ Cat(<<>>, whole) = whole
    BY <1>1, EmptySeq, CatEmpty
  <2>3. Len(f[0].message) = 0 /\ Cat(f[0].message, Contents(f[0].left)) = whole
    BY <1>1, <2>1, <2>2
  <2>4. Consuming(f[0], whole, n) /\ Len(f[0].message) >= 0
    BY <2>1, <2>2, <2>3 DEF Consuming
  <2> QED BY <2>4
<1>5. ASSUME NEW k \in Nat, k \in T PROVE k + 1 \in T
  <2> SUFFICES ASSUME k + 1 <= n
               PROVE  Consuming(f[k + 1], whole, n) /\ Len(f[k + 1].message) >= k + 1
    OBVIOUS
  <2>1. Consuming(f[k], whole, n) /\ Len(f[k].message) >= k
    BY <1>5
  <2>2. f[k + 1] = Consumed(f[k], n)
    <3>1. k + 1 \in 0..n /\ k + 1 # 0 /\ (k + 1) - 1 = k
      OBVIOUS
    <3> QED BY <1>3, <3>1
  <2>3. /\ Consuming(f[k + 1], whole, n)
        /\ \/ Len(f[k].message) = n /\ f[k + 1] = f[k]
           \/ Len(f[k + 1].message) > Len(f[k].message)
    BY <1>1, <2>1, <2>2, ConsumedKeeps
  <2>4. Len(f[k].message) \in Nat /\ Len(f[k + 1].message) \in Nat
    BY <2>1, <2>3, LenProperties DEF Consuming
  <2> QED BY <2>1, <2>3, <2>4
<1>6. Nat \subseteq T
  <2> HIDE DEF T
  <2> QED BY <1>4, <1>5, NatSetInduction
<1>7. Consuming(f[n], whole, n) /\ Len(f[n].message) >= n
  BY <1>6
<1>8. PICK message, c : message = f[n].message /\ c = f[n].left
  OBVIOUS
<1>9. message \in Seq(Nat) /\ BufferOK(c) /\ Len(message) = n /\ whole = Cat(message, Contents(c))
  <2>1. message \in Seq(Nat) /\ Len(message) <= n /\ Len(message) >= n
    BY <1>7, <1>8 DEF Consuming
  <2> QED BY <1>7, <1>8, <2>1, LenProperties DEF Consuming
<1>10. Contents(c) \in Seq(Nat)
  BY <1>9, BufferContents
<1>11. Piece(whole, 0, n) = message /\ Drop(whole, n) = Contents(c)
  BY <1>9, <1>10, CatParts
<1> QED BY <1>1, <1>2, <1>8, <1>9, <1>11
=============================================================================
