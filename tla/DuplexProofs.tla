---------------------------- MODULE DuplexProofs ----------------------------
(***************************************************************************)
(* Proofs about SessionLock for any set of bridges: its claims stay        *)
(* consistent, and it implements the first-come-first-served line.  Then   *)
(* what every step of a duplex and of PGlite keeps, whoever drives the     *)
(* duplexes: the inductive invariant that ServerProofs and PoolProofs      *)
(* complete with what their clients do.                                    *)
(***************************************************************************)
EXTENDS Duplex, SequenceTheorems, TLAPS

-----------------------------------------------------------------------------
(* Sequences without repetition. *)

Once(q) == \A i, j \in 1..Len(q) : q[i] = q[j] => i = j
In(q, id) == \E k \in 1..Len(q) : q[k] = id

\* Taking the head off a queue without repetition leaves exactly the others.
LEMMA TailLemma ==
    ASSUME NEW S, NEW q \in Seq(S), q # <<>>, Once(q)
    PROVE  /\ Head(q) \in S
           /\ Tail(q) \in Seq(S)
           /\ Once(Tail(q))
           /\ \A id : In(Tail(q), id) <=> In(q, id) /\ id # Head(q)
<1>1. /\ Head(q) \in S
      /\ Tail(q) \in Seq(S)
      /\ Len(Tail(q)) = Len(q) - 1
      /\ \A i \in 1..Len(Tail(q)) : Tail(q)[i] = q[i + 1]
  BY HeadTailProperties
<1>2. Len(q) \in Nat /\ Len(q) >= 1
  BY EmptySeq, LenProperties
<1>3. Head(q) = q[1]
  BY <1>2
<1>4. Once(Tail(q))
  BY <1>1, <1>2 DEF Once
<1>5. ASSUME NEW id PROVE In(Tail(q), id) <=> In(q, id) /\ id # Head(q)
  <2>1. ASSUME In(Tail(q), id) PROVE In(q, id) /\ id # Head(q)
    BY <1>1, <1>2, <1>3, <2>1 DEF In, Once
  <2>2. ASSUME In(q, id), id # Head(q) PROVE In(Tail(q), id)
    <3>1. PICK k \in 1..Len(q) : q[k] = id
      BY <2>2 DEF In
    <3>2. k # 1
      BY <1>3, <2>2, <3>1
    <3>3. k - 1 \in 1..Len(Tail(q)) /\ Tail(q)[k - 1] = id
      BY <1>1, <1>2, <3>1, <3>2
    <3> QED BY <3>3 DEF In
  <2> QED BY <2>1, <2>2
<1> QED BY <1>1, <1>4, <1>5

\* Without(q, id) drops id's only entry and keeps every other one.
LEMMA WithoutLemma ==
    ASSUME NEW S, NEW q \in Seq(S), NEW id, Once(q)
    PROVE  /\ Without(q, id) \in Seq(S)
           /\ Once(Without(q, id))
           /\ \A j : In(Without(q, id), j) <=> In(q, j) /\ j # id
<1>1. CASE ~In(q, id)
  <2>1. Without(q, id) = q
    BY <1>1 DEF Without, In
  <2> QED BY <1>1, <2>1 DEF In
<1>2. CASE In(q, id)
  <2> DEFINE k == CHOOSE k \in 1..Len(q) : q[k] = id
             r == [i \in 1..(Len(q) - 1) |-> IF i < k THEN q[i] ELSE q[i + 1]]
  <2>1. k \in 1..Len(q) /\ q[k] = id
    BY <1>2 DEF In
  <2>2. Without(q, id) = r
    BY <1>2 DEF Without, In
  <2>3. Len(q) \in Nat /\ Len(q) >= 1
    BY <2>1, LenProperties
  <2> HIDE DEF k
  <2>4. \A i \in 1..Len(q) : q[i] \in S
    BY ElementOfSeq
  <2>5. r \in Seq(S)
    <3>1. \A i \in 1..(Len(q) - 1) : (IF i < k THEN q[i] ELSE q[i + 1]) \in S
      BY <2>1, <2>3, <2>4
    <3>2. Len(q) - 1 \in Nat
      BY <2>3
    <3>3. r \in [1..(Len(q) - 1) -> S]
      BY <3>1
    <3> QED BY <3>2, <3>3, SeqDef
  <2>6. Len(r) = Len(q) - 1
    BY <2>3
  <2>7. Once(r)
    <3> SUFFICES ASSUME NEW i \in 1..(Len(q) - 1), NEW j \in 1..(Len(q) - 1), r[i] = r[j]
                 PROVE  i = j
      BY <2>6 DEF Once
    <3>1. /\ r[i] = IF i < k THEN q[i] ELSE q[i + 1]
          /\ r[j] = IF j < k THEN q[j] ELSE q[j + 1]
      OBVIOUS
    <3>2. /\ i \in 1..Len(q) /\ i + 1 \in 1..Len(q)
          /\ j \in 1..Len(q) /\ j + 1 \in 1..Len(q)
      BY <2>3
    <3> HIDE DEF r
    <3>3. \A m, n \in 1..Len(q) : q[m] = q[n] => m = n
      BY DEF Once
    <3>4. CASE i < k /\ j < k
      BY <3>1, <3>2, <3>3, <3>4
    <3>5. CASE i < k /\ ~(j < k)
      <4>1. q[i] = q[j + 1]
        BY <3>1, <3>5
      <4>2. i = j + 1
        BY <3>2, <3>3, <4>1
      <4> QED BY <2>1, <2>3, <3>5, <4>2
    <3>6. CASE ~(i < k) /\ j < k
      <4>1. q[i + 1] = q[j]
        BY <3>1, <3>6
      <4>2. i + 1 = j
        BY <3>2, <3>3, <4>1
      <4> QED BY <2>1, <2>3, <3>6, <4>2
    <3>7. CASE ~(i < k) /\ ~(j < k)
      <4>1. i + 1 = j + 1
        BY <3>1, <3>2, <3>3, <3>7
      <4> QED BY <4>1
    <3> QED BY <3>4, <3>5, <3>6, <3>7
  <2>8. ASSUME NEW j PROVE In(r, j) <=> In(q, j) /\ j # id
    <3>1. ASSUME In(r, j) PROVE In(q, j) /\ j # id
      <4>1. PICK i \in 1..(Len(q) - 1) : r[i] = j
        BY <2>6, <3>1 DEF In
      <4>2. j = IF i < k THEN q[i] ELSE q[i + 1]
        BY <4>1
      <4> HIDE DEF r
      <4> QED BY <2>1, <2>3, <4>2 DEF In, Once
    <3>2. ASSUME In(q, j), j # id PROVE In(r, j)
      <4>1. PICK i \in 1..Len(q) : q[i] = j
        BY <3>2 DEF In
      <4>2. i # k
        BY <2>1, <3>2, <4>1
      <4>3. CASE i < k
        <5>1. i \in 1..(Len(q) - 1) /\ r[i] = j
          BY <2>1, <2>3, <4>1, <4>3
        <5> QED BY <5>1, <2>6 DEF In
      <4>4. CASE i > k
        <5>1. i - 1 \in 1..(Len(q) - 1) /\ r[i - 1] = j
          BY <2>1, <2>3, <4>1, <4>4
        <5> QED BY <5>1, <2>6 DEF In
      <4> QED BY <2>1, <4>1, <4>2, <4>3, <4>4, <2>3
    <3> QED BY <3>1, <3>2
  <2> QED BY <2>2, <2>5, <2>7, <2>8
<1> QED BY <1>1, <1>2

-----------------------------------------------------------------------------
(* Claims stay consistent. *)

\* LockInv in terms of In and Once: what the steps below use.
LEMMA LockInvFacts ==
    LockInv <=> /\ owner \in Ids \cup {NoOwner}
                /\ waitQueue \in Seq(Ids)
                /\ acquired \in [Ids -> PromiseStates]
                /\ owner = NoOwner => waitQueue = <<>>
                /\ \A id \in Ids : acquired[id] = "waiting" <=> In(waitQueue, id)
                /\ Once(waitQueue)
                /\ ~In(waitQueue, owner)
BY DEF LockInv, LockTypeOK, ClaimsConsistent, NoLostWakeup, PendingIffQueued,
       WaitOnce, OwnerNeverWaits, Waiting, In, Once

\* The shared tail of release, updateStatus and cancel: what the hand-over
\* leaves behind, whoever the owner was.
LEMMA HandOver ==
    ASSUME LockInv
    PROVE  /\ Successor \in Ids \cup {NoOwner}
           /\ Successors \in Seq(Ids)
           /\ Once(Successors)
           /\ Successor = NoOwner => Successors = <<>>
           /\ \A id : In(Successors, id) <=> In(waitQueue, id) /\ id # Successor
<1>1. waitQueue \in Seq(Ids) /\ Once(waitQueue)
  BY LockInvFacts
<1>2. CASE waitQueue = <<>>
  <2>1. Successor = NoOwner /\ Successors = <<>>
    BY <1>2 DEF Successor, Successors
  <2>2. \A id : ~In(<<>>, id)
    BY DEF In
  <2>3. <<>> \in Seq(Ids) /\ Once(<<>>)
    BY DEF Once
  <2> QED BY <1>2, <2>1, <2>2, <2>3
<1>3. CASE waitQueue # <<>>
  <2>1. Successor = Head(waitQueue) /\ Successors = Tail(waitQueue)
    BY <1>3 DEF Successor, Successors
  <2> QED BY <1>1, <1>3, <2>1, TailLemma, NoOwnerAssumption
<1> QED BY <1>2, <1>3

LEMMA DrainPreserves ==
    ASSUME LockInv, drainWaitQueue
    PROVE  LockInv'
<1>1. /\ owner' = Successor
      /\ waitQueue' = Successors
      /\ acquired' = [i \in Ids |-> IF i = Successor THEN "resolved" ELSE acquired[i]]
  BY DEF drainWaitQueue
<1>2. acquired' \in [Ids -> PromiseStates]
  BY <1>1, LockInvFacts DEF PromiseStates
<1>3. \A id \in Ids : acquired'[id] = "waiting" <=> In(waitQueue', id)
  BY <1>1, HandOver, LockInvFacts
<1>4. ~In(waitQueue', owner')
  BY <1>1, HandOver
<1> QED BY <1>1, <1>2, <1>3, <1>4, HandOver
        DEF LockInv, LockTypeOK, ClaimsConsistent, NoLostWakeup, PendingIffQueued,
            WaitOnce, OwnerNeverWaits, Waiting, In, Once

LEMMA AcquirePreserves ==
    ASSUME LockInv, NEW id \in Ids, acquire(id)
    PROVE  LockInv'
<1>1. CASE owner \in {NoOwner, id} /\ owner' = id
             /\ acquired' = [acquired EXCEPT ![id] = "resolved"] /\ UNCHANGED waitQueue
  <2>1. acquired[id] # "waiting"
    BY DEF acquire
  <2>2. ~In(waitQueue, id)
    BY <2>1, LockInvFacts
  <2>3. acquired' \in [Ids -> PromiseStates]
    BY <1>1, LockInvFacts DEF PromiseStates
  <2>4. \A j \in Ids : acquired'[j] = "waiting" <=> In(waitQueue', j)
    BY <1>1, <2>2, LockInvFacts
  <2> QED BY <1>1, <2>2, <2>3, <2>4, LockInvFacts, NoOwnerAssumption
          DEF LockInv, LockTypeOK, ClaimsConsistent, NoLostWakeup, PendingIffQueued,
              WaitOnce, OwnerNeverWaits, Waiting, In, Once
<1>2. CASE owner \notin {NoOwner, id} /\ waitQueue' = Append(waitQueue, id)
             /\ acquired' = [acquired EXCEPT ![id] = "waiting"] /\ UNCHANGED owner
  <2>1. waitQueue \in Seq(Ids) /\ Once(waitQueue) /\ ~In(waitQueue, id)
    BY LockInvFacts DEF acquire
  <2>2. /\ waitQueue' \in Seq(Ids)
        /\ Len(waitQueue') = Len(waitQueue) + 1
        /\ \A i \in 1..Len(waitQueue) : waitQueue'[i] = waitQueue[i]
        /\ waitQueue'[Len(waitQueue) + 1] = id
        /\ Len(waitQueue) \in Nat
    BY <1>2, <2>1, AppendProperties, LenProperties
  <2>3. Once(waitQueue')
    BY <2>1, <2>2 DEF Once, In
  <2>4. \A j : In(waitQueue', j) <=> In(waitQueue, j) \/ j = id
    <3>1. ASSUME NEW j, In(waitQueue', j) PROVE In(waitQueue, j) \/ j = id
      BY <2>2, <3>1 DEF In
    <3>2. ASSUME NEW j, In(waitQueue, j) \/ j = id PROVE In(waitQueue', j)
      <4>1. CASE In(waitQueue, j)
        <5>1. PICK k \in 1..Len(waitQueue) : waitQueue[k] = j
          BY <4>1 DEF In
        <5>2. k \in 1..Len(waitQueue') /\ waitQueue'[k] = j
          BY <2>2, <5>1
        <5> QED BY <5>2 DEF In
      <4>2. CASE j = id
        BY <2>2, <4>2 DEF In
      <4> QED BY <3>2, <4>1, <4>2
    <3> QED BY <3>1, <3>2
  <2>5. acquired' \in [Ids -> PromiseStates]
    BY <1>2, LockInvFacts DEF PromiseStates
  <2>6. \A j \in Ids : acquired'[j] = "waiting" <=> In(waitQueue', j)
    BY <1>2, <2>4, LockInvFacts
  <2>7. ~In(waitQueue', owner')
    BY <1>2, <2>4, LockInvFacts
  <2> QED BY <1>2, <2>2, <2>3, <2>5, <2>6, <2>7, LockInvFacts
          DEF LockInv, LockTypeOK, ClaimsConsistent, NoLostWakeup, PendingIffQueued,
              WaitOnce, OwnerNeverWaits, Waiting, In, Once
<1> QED BY <1>1, <1>2 DEF acquire

LEMMA CancelPreserves ==
    ASSUME LockInv, NEW id \in Ids, cancel(id)
    PROVE  LockInv'
<1>1. CASE owner = id
  <2> DEFINE q == Successors
  <2>1. /\ owner' = Successor
        /\ waitQueue' = Without(q, id)
        /\ acquired' = [i \in Ids |-> IF i = Successor THEN "resolved"
                                     ELSE IF i = id /\ acquired[i] = "waiting" THEN "rejected"
                                     ELSE acquired[i]]
    BY <1>1 DEF cancel
  <2>2. /\ q \in Seq(Ids) /\ Once(q)
        /\ \A j : In(q, j) <=> In(waitQueue, j) /\ j # Successor
        /\ Successor \in Ids \cup {NoOwner}
        /\ Successor = NoOwner => q = <<>>
    BY HandOver
  <2> HIDE DEF q
  <2>3. /\ waitQueue' \in Seq(Ids) /\ Once(waitQueue')
        /\ \A j : In(waitQueue', j) <=> In(q, j) /\ j # id
    BY <2>1, <2>2, WithoutLemma
  <2>4. owner' = NoOwner => waitQueue' = <<>>
    <3> SUFFICES ASSUME Successor = NoOwner PROVE Without(q, id) = <<>>
      BY <2>1
    <3> QED BY <2>2 DEF Without
  <2>5. acquired' \in [Ids -> PromiseStates]
    BY <2>1, LockInvFacts DEF PromiseStates
  <2>6. \A j \in Ids : acquired'[j] = "waiting" <=> In(waitQueue', j)
    BY <1>1, <2>1, <2>2, <2>3, LockInvFacts
  <2>7. ~In(waitQueue', owner')
    BY <2>1, <2>2, <2>3
  <2> QED BY <2>1, <2>2, <2>3, <2>4, <2>5, <2>6, <2>7
          DEF LockInv, LockTypeOK, ClaimsConsistent, NoLostWakeup, PendingIffQueued,
              WaitOnce, OwnerNeverWaits, Waiting, In, Once
<1>2. CASE owner # id
  <2>1. /\ owner' = owner
        /\ waitQueue' = Without(waitQueue, id)
        /\ acquired' = [i \in Ids |-> IF i = id /\ acquired[i] = "waiting" THEN "rejected"
                                     ELSE acquired[i]]
    BY <1>2 DEF cancel
  <2>2. waitQueue \in Seq(Ids) /\ Once(waitQueue)
    BY LockInvFacts
  <2>3. /\ waitQueue' \in Seq(Ids) /\ Once(waitQueue')
        /\ \A j : In(waitQueue', j) <=> In(waitQueue, j) /\ j # id
    BY <2>1, <2>2, WithoutLemma
  <2>4. owner' = NoOwner => waitQueue' = <<>>
    <3> SUFFICES ASSUME waitQueue = <<>> PROVE Without(waitQueue, id) = <<>>
      BY <2>1, LockInvFacts
    <3> QED BY DEF Without
  <2>5. acquired' \in [Ids -> PromiseStates]
    BY <2>1, LockInvFacts DEF PromiseStates
  <2>6. \A j \in Ids : acquired'[j] = "waiting" <=> In(waitQueue', j)
    BY <2>1, <2>3, LockInvFacts
  <2>7. ~In(waitQueue', owner')
    BY <2>1, <2>3, LockInvFacts
  <2> QED BY <2>1, <2>3, <2>4, <2>5, <2>6, <2>7, LockInvFacts
          DEF LockInv, LockTypeOK, ClaimsConsistent, NoLostWakeup, PendingIffQueued,
              WaitOnce, OwnerNeverWaits, Waiting, In, Once
<1> QED BY <1>1, <1>2

\* hold() takes a free session, and nobody was waiting for it.
LEMMA HoldPreserves ==
    ASSUME LockInv, NEW id \in Ids, hold(id)
    PROVE  LockInv'
<1>1. /\ owner' = IF owner = NoOwner THEN id ELSE owner
      /\ waitQueue' = waitQueue
      /\ acquired' = acquired
  BY DEF hold
<1>2. ~In(waitQueue', owner')
  <2>1. CASE owner = NoOwner
    BY <1>1, <2>1, LockInvFacts DEF In
  <2>2. CASE owner # NoOwner
    BY <1>1, <2>2, LockInvFacts
  <2> QED BY <2>1, <2>2
<1> QED BY <1>1, <1>2, LockInvFacts, NoOwnerAssumption
        DEF LockInv, LockTypeOK, ClaimsConsistent, NoLostWakeup, PendingIffQueued,
            WaitOnce, OwnerNeverWaits, Waiting, In, Once

\* A step that leaves the lock alone leaves its invariant alone.
LEMMA StutterPreserves ==
    ASSUME LockInv, UNCHANGED lockVars
    PROVE  LockInv'
BY DEF lockVars, LockInv, LockTypeOK, ClaimsConsistent, NoLostWakeup, PendingIffQueued,
       WaitOnce, OwnerNeverWaits, Waiting

\* In every behaviour of the lock, for any set of bridges, the owner, the wait
\* queue and the pending promises agree: no wakeup is lost, no acquire() is
\* forgotten, and the owner never queues behind itself.
THEOREM LockInvariant == LockSpec => []LockInv
<1>1. LockInit => LockInv
  <2> SUFFICES ASSUME LockInit PROVE LockInv
    OBVIOUS
  <2>1. owner = NoOwner /\ waitQueue = <<>> /\ acquired = [id \in Ids |-> "none"]
    BY DEF LockInit
  <2>2. waitQueue \in Seq(Ids) /\ Once(waitQueue) /\ \A id : ~In(waitQueue, id)
    BY <2>1 DEF Once, In
  <2> QED BY <2>1, <2>2, LockInvFacts DEF PromiseStates
<1>2. LockInv /\ [LockNext]_lockVars => LockInv'
  <2> SUFFICES ASSUME LockInv, [LockNext]_lockVars PROVE LockInv'
    OBVIOUS
  <2>1. ASSUME NEW id \in Ids, acquire(id) PROVE LockInv'
    BY <2>1, AcquirePreserves
  <2>2. ASSUME NEW id \in Ids, hold(id) PROVE LockInv'
    BY <2>2, HoldPreserves
  <2>3. ASSUME NEW id \in Ids, release(id) PROVE LockInv'
    BY <2>3, DrainPreserves, StutterPreserves DEF release
  <2>4. ASSUME NEW id \in Ids, cancel(id) PROVE LockInv'
    BY <2>4, CancelPreserves
  <2>5. ASSUME NEW id \in Ids, NEW status \in Statuses, updateStatus(id, status)
        PROVE  LockInv'
    BY <2>5, DrainPreserves, StutterPreserves DEF updateStatus
  <2>6. CASE UNCHANGED lockVars
    BY <2>6, StutterPreserves
  <2> QED BY <2>1, <2>2, <2>3, <2>4, <2>5, <2>6 DEF LockNext
<1> QED BY <1>1, <1>2, PTL DEF LockSpec

-----------------------------------------------------------------------------
(* The lock implements the line. *)

\* With a holder, the line is the holder followed by the queue; without one it
\* is empty.
LEMMA LineFacts ==
    ASSUME LockInv
    PROVE  /\ lockLine \in Seq(Ids)
           /\ owner = NoOwner => lockLine = <<>>
           /\ owner # NoOwner =>
                 /\ Len(lockLine) = Len(waitQueue) + 1
                 /\ lockLine[1] = owner
                 /\ \A i \in 1..Len(waitQueue) : lockLine[i + 1] = waitQueue[i]
           /\ Len(waitQueue) \in Nat
<1>1. waitQueue \in Seq(Ids) /\ Len(waitQueue) \in Nat
  BY LockInvFacts, LenProperties
<1>2. CASE owner = NoOwner
  BY <1>1, <1>2, LockInvFacts DEF lockLine
<1>3. CASE owner # NoOwner
  <2>1. <<owner>> \in Seq(Ids) /\ Len(<<owner>>) = 1 /\ <<owner>>[1] = owner
    BY <1>3, LockInvFacts
  <2>2. lockLine = <<owner>> \o waitQueue
    BY <1>3 DEF lockLine
  <2>3. /\ lockLine \in Seq(Ids)
        /\ Len(lockLine) = 1 + Len(waitQueue)
        /\ \A i \in 1..(1 + Len(waitQueue)) : lockLine[i] =
              IF i <= 1 THEN <<owner>>[i] ELSE waitQueue[i - 1]
    BY <1>1, <2>1, <2>2, ConcatProperties
  <2>4. \A i \in 1..Len(waitQueue) : lockLine[i + 1] = waitQueue[i]
    BY <1>1, <2>3
  <2> QED BY <1>1, <1>3, <2>1, <2>3, <2>4
<1> QED BY <1>2, <1>3

\* A bridge stands in line exactly when it holds the session or waits for it.
LEMMA InLineFact ==
    ASSUME LockInv, NEW id \in Ids
    PROVE  Line!InLine(id) <=> owner = id \/ In(waitQueue, id)
<1>1. CASE owner = NoOwner
  BY <1>1, LineFacts, LockInvFacts, NoOwnerAssumption DEF Line!InLine, In
<1>2. CASE owner # NoOwner
  <2>1. ASSUME Line!InLine(id) PROVE owner = id \/ In(waitQueue, id)
    <3>1. PICK k \in 1..Len(lockLine) : lockLine[k] = id
      BY <2>1 DEF Line!InLine
    <3>2. CASE k = 1
      BY <1>2, <3>1, <3>2, LineFacts
    <3>3. CASE k # 1
      <4>1. k - 1 \in 1..Len(waitQueue) /\ waitQueue[k - 1] = id
        BY <1>2, <3>1, <3>3, LineFacts
      <4> QED BY <4>1 DEF In
    <3> QED BY <3>2, <3>3
  <2>2. ASSUME owner = id PROVE Line!InLine(id)
    BY <1>2, <2>2, LineFacts DEF Line!InLine
  <2>3. ASSUME In(waitQueue, id) PROVE Line!InLine(id)
    <3>1. PICK k \in 1..Len(waitQueue) : waitQueue[k] = id
      BY <2>3 DEF In
    <3>2. k + 1 \in 1..Len(lockLine) /\ lockLine[k + 1] = id
      BY <1>2, <3>1, LineFacts
    <3> QED BY <3>2 DEF Line!InLine
  <2> QED BY <2>1, <2>2, <2>3
<1> QED BY <1>1, <1>2

\* Taking a free session joins an empty line.
LEMMA TakeIsJoin ==
    ASSUME LockInv, LockInv', NEW id \in Ids,
           owner = NoOwner, owner' = id, waitQueue' = waitQueue
    PROVE  Line!Join(id)
<1>1. lockLine = <<>> /\ waitQueue = <<>>
  BY LineFacts, LockInvFacts
<1>2. lockLine' = <<id>>
  <2>1. lockLine' = <<id>> \o <<>>
    BY <1>1, NoOwnerAssumption DEF lockLine
  <2> QED BY <2>1
<1>3. Append(<<>>, id) = <<id>>
  OBVIOUS
<1>4. ~Line!InLine(id)
  BY <1>1 DEF Line!InLine
<1> QED BY <1>1, <1>2, <1>3, <1>4 DEF Line!Join

\* A queued acquire() joins at the end.
LEMMA QueueIsJoin ==
    ASSUME LockInv, NEW id \in Ids, ~In(waitQueue, id), owner \notin {NoOwner, id},
           owner' = owner, waitQueue' = Append(waitQueue, id)
    PROVE  Line!Join(id)
<1>1. waitQueue \in Seq(Ids) /\ <<owner>> \in Seq(Ids)
  BY LockInvFacts
<1>2. lockLine = <<owner>> \o waitQueue /\ lockLine' = <<owner>> \o Append(waitQueue, id)
  BY DEF lockLine
<1>3. lockLine' = Append(lockLine, id)
  <2>1. Append(waitQueue, id) = waitQueue \o <<id>> /\ <<id>> \in Seq(Ids)
    BY <1>1, AppendIsConcat
  <2>2. <<owner>> \o (waitQueue \o <<id>>) = (<<owner>> \o waitQueue) \o <<id>>
    BY <1>1, <2>1, ConcatAssociative
  <2>3. lockLine \in Seq(Ids)
    BY LineFacts
  <2>4. Append(lockLine, id) = lockLine \o <<id>>
    BY <2>3, AppendIsConcat
  <2> QED BY <1>2, <2>1, <2>2, <2>4
<1>4. ~Line!InLine(id)
  BY InLineFact
<1> QED BY <1>3, <1>4 DEF Line!Join

\* Handing the session over is the head of the line leaving it.
LEMMA HandOverIsLeave ==
    ASSUME LockInv, owner \in Ids, owner' = Successor, waitQueue' = Successors
    PROVE  1 \in 1..Len(lockLine) /\ Line!Leave(1)
<1>1. waitQueue \in Seq(Ids) /\ owner # NoOwner
  BY LockInvFacts, NoOwnerAssumption
<1>2. lockLine' = waitQueue
  <2>1. CASE waitQueue = <<>>
    BY <2>1 DEF lockLine, Successor, Successors
  <2>2. CASE waitQueue # <<>>
    <3>1. owner' = Head(waitQueue) /\ waitQueue' = Tail(waitQueue)
      BY <2>2 DEF Successor, Successors
    <3>2. /\ Head(waitQueue) \in Ids /\ Tail(waitQueue) \in Seq(Ids)
          /\ Len(Tail(waitQueue)) = Len(waitQueue) - 1
          /\ \A i \in 1..Len(Tail(waitQueue)) : Tail(waitQueue)[i] = waitQueue[i + 1]
      BY <1>1, <2>2, HeadTailProperties
    <3>3. lockLine' = <<Head(waitQueue)>> \o Tail(waitQueue)
      BY <3>1, <3>2, NoOwnerAssumption DEF lockLine
    <3>4. <<Head(waitQueue)>> \in Seq(Ids) /\ Len(<<Head(waitQueue)>>) = 1
      BY <3>2
    <3>5. /\ lockLine' \in Seq(Ids)
          /\ Len(lockLine') = 1 + Len(Tail(waitQueue))
          /\ \A i \in 1..(1 + Len(Tail(waitQueue))) : lockLine'[i] =
                IF i <= 1 THEN <<Head(waitQueue)>>[i] ELSE Tail(waitQueue)[i - 1]
      BY <3>2, <3>3, <3>4, ConcatProperties
    <3>6. Len(waitQueue) \in Nat /\ Len(waitQueue) >= 1 /\ Head(waitQueue) = waitQueue[1]
      BY <1>1, <2>2, EmptySeq, LenProperties
    <3>7. \A i \in 1..Len(waitQueue) : lockLine'[i] = waitQueue[i]
      <4> SUFFICES ASSUME NEW i \in 1..Len(waitQueue) PROVE lockLine'[i] = waitQueue[i]
        OBVIOUS
      <4>1. CASE i = 1
        BY <3>2, <3>5, <3>6, <4>1
      <4>2. CASE i # 1
        <5>1. i - 1 \in 1..Len(Tail(waitQueue)) /\ Tail(waitQueue)[i - 1] = waitQueue[i]
          BY <3>2, <3>6, <4>2
        <5> QED BY <3>2, <3>5, <3>6, <4>2, <5>1
      <4> QED BY <4>1, <4>2
    <3>8. Len(lockLine') = Len(waitQueue)
      BY <3>2, <3>5, <3>6
    <3> QED BY <1>1, <3>5, <3>7, <3>8, SeqEqual
  <2> QED BY <2>1, <2>2
<1>3. /\ Len(lockLine) = Len(waitQueue) + 1
      /\ \A i \in 1..Len(waitQueue) : lockLine[i + 1] = waitQueue[i]
      /\ Len(waitQueue) \in Nat
  BY <1>1, LineFacts
<1>4. waitQueue = [i \in 1..Len(waitQueue) |-> waitQueue[i]]
  BY <1>1, LenProperties
<1>5. waitQueue = [i \in 1..(Len(lockLine) - 1) |->
                     IF i < 1 THEN lockLine[i] ELSE lockLine[i + 1]]
  <2>1. Len(lockLine) - 1 = Len(waitQueue)
    BY <1>3
  <2>2. \A i \in 1..Len(waitQueue) :
          waitQueue[i] = IF i < 1 THEN lockLine[i] ELSE lockLine[i + 1]
    BY <1>3
  <2> QED BY <1>4, <2>1, <2>2
<1> QED BY <1>2, <1>3, <1>5 DEF Line!Leave

\* Cancelling a pending acquire() is leaving from one's place behind the holder.
LEMMA CancelIsLeave ==
    ASSUME LockInv, NEW id \in Ids, In(waitQueue, id),
           owner # NoOwner, owner' = owner, waitQueue' = Without(waitQueue, id)
    PROVE  \E k \in 1..Len(lockLine) : Line!Leave(k)
<1> DEFINE k == CHOOSE k \in 1..Len(waitQueue) : waitQueue[k] = id
<1>1. k \in 1..Len(waitQueue)
  BY DEF In
<1>2. waitQueue' = [i \in 1..(Len(waitQueue) - 1) |->
                      IF i < k THEN waitQueue[i] ELSE waitQueue[i + 1]]
  BY DEF Without, In
<1> HIDE DEF k
<1>3. waitQueue \in Seq(Ids) /\ Once(waitQueue) /\ owner \in Ids
  BY LockInvFacts
<1>4. waitQueue' \in Seq(Ids)
  BY <1>3, WithoutLemma
<1>5. /\ Len(lockLine) = Len(waitQueue) + 1
      /\ lockLine[1] = owner
      /\ \A i \in 1..Len(waitQueue) : lockLine[i + 1] = waitQueue[i]
      /\ Len(waitQueue) \in Nat
  BY LineFacts
<1> DEFINE r == [i \in 1..(Len(lockLine) - 1) |->
                   IF i < k + 1 THEN lockLine[i] ELSE lockLine[i + 1]]
<1>6. Len(waitQueue') = Len(waitQueue) - 1
  BY <1>1, <1>2, <1>5
<1>7. /\ lockLine' \in Seq(Ids)
      /\ Len(lockLine') = Len(waitQueue)
      /\ \A i \in 1..Len(waitQueue) : lockLine'[i] =
            IF i <= 1 THEN <<owner>>[i] ELSE waitQueue'[i - 1]
  <2>1. lockLine' = <<owner>> \o waitQueue'
    BY DEF lockLine
  <2>2. <<owner>> \in Seq(Ids) /\ Len(<<owner>>) = 1
    BY <1>3
  <2> QED BY <1>4, <1>5, <1>6, <2>1, <2>2, ConcatProperties
<1>8. \A i \in 1..Len(waitQueue) : lockLine'[i] = r[i]
  <2> SUFFICES ASSUME NEW i \in 1..Len(waitQueue) PROVE lockLine'[i] = r[i]
    OBVIOUS
  <2>1. r[i] = IF i < k + 1 THEN lockLine[i] ELSE lockLine[i + 1]
    BY <1>5
  <2> HIDE DEF r
  <2>2. CASE i = 1
    <3>1. i < k + 1
      BY <1>1, <2>2
    <3> QED BY <1>5, <1>7, <2>1, <2>2, <3>1
  <2>3. CASE i # 1
    <3>1. lockLine'[i] = IF i - 1 < k THEN waitQueue[i - 1] ELSE waitQueue[i]
      <4>1. i - 1 \in 1..(Len(waitQueue) - 1) /\ ~(i <= 1)
        BY <1>5, <2>3
      <4>2. lockLine'[i] = waitQueue'[i - 1]
        BY <1>7, <4>1
      <4>3. waitQueue'[i - 1] = IF i - 1 < k THEN waitQueue[i - 1] ELSE waitQueue[(i - 1) + 1]
        BY <1>2, <4>1
      <4> QED BY <4>2, <4>3
    <3>2. i - 1 \in 1..Len(waitQueue) /\ lockLine[i] = waitQueue[i - 1]
      <4>1. i - 1 \in 1..Len(waitQueue) /\ (i - 1) + 1 = i
        BY <1>5, <2>3
      <4> QED BY <1>5, <4>1
    <3>3. lockLine[i + 1] = waitQueue[i]
      BY <1>5
    <3>4. i - 1 < k <=> i < k + 1
      BY <1>1
    <3> QED BY <2>1, <3>1, <3>2, <3>3, <3>4
  <2> QED BY <2>2, <2>3
<1>9. lockLine' = r
  <2>1. Len(lockLine) - 1 = Len(waitQueue)
    BY <1>5
  <2>2. lockLine' = [i \in 1..Len(waitQueue) |-> lockLine'[i]]
    BY <1>7, LenProperties
  <2>3. r = [i \in 1..Len(waitQueue) |-> r[i]]
    BY <2>1
  <2> HIDE DEF r
  <2> QED BY <1>8, <2>2, <2>3
<1>10. k + 1 \in 1..Len(lockLine) /\ Line!Leave(k + 1)
  BY <1>1, <1>5, <1>9 DEF Line!Leave
<1> QED BY <1>10

\* The session lock is a first-come-first-served line: for any set of bridges,
\* nobody overtakes, nobody is in line twice, and leaving (an idle status, a
\* release, a cancel) never disturbs the order of the others.
THEOREM LockImplementsLine == LockSpec => ImplementsLine
<1>1. LockInit => Line!LineInit
  BY DEF LockInit, Line!LineInit, lockLine
<1>2. LockInv /\ LockInv' /\ [LockNext]_lockVars => [Line!LineNext]_lockLine
  <2> SUFFICES ASSUME LockInv, LockInv', [LockNext]_lockVars
               PROVE  Line!LineNext \/ UNCHANGED lockLine
    OBVIOUS
  <2>1. ASSUME NEW id \in Ids, owner = id, drainWaitQueue PROVE Line!LineNext
    BY <2>1, HandOverIsLeave DEF drainWaitQueue, Line!LineNext
  <2>2. ASSUME NEW id \in Ids, acquire(id) PROVE Line!LineNext \/ UNCHANGED lockLine
    <3>1. CASE owner = NoOwner
      BY <2>2, <3>1, TakeIsJoin DEF acquire, Line!LineNext
    <3>2. CASE owner = id
      BY <2>2, <3>2 DEF acquire, lockLine
    <3>3. CASE owner \notin {NoOwner, id}
      <4>1. ~In(waitQueue, id)
        BY <2>2, LockInvFacts DEF acquire
      <4> QED BY <2>2, <3>3, <4>1, QueueIsJoin DEF acquire, Line!LineNext
    <3> QED BY <3>1, <3>2, <3>3
  <2>3. ASSUME NEW id \in Ids, hold(id) PROVE Line!LineNext \/ UNCHANGED lockLine
    <3>1. CASE owner = NoOwner
      BY <2>3, <3>1, TakeIsJoin DEF hold, Line!LineNext
    <3>2. CASE owner # NoOwner
      BY <2>3, <3>2 DEF hold, lockLine
    <3> QED BY <3>1, <3>2
  <2>4. ASSUME NEW id \in Ids, release(id) PROVE Line!LineNext \/ UNCHANGED lockLine
    BY <2>1, <2>4 DEF release, lockVars, lockLine
  <2>5. ASSUME NEW id \in Ids, NEW status \in Statuses, updateStatus(id, status)
        PROVE  Line!LineNext \/ UNCHANGED lockLine
    BY <2>1, <2>5 DEF updateStatus, lockVars, lockLine
  <2>6. ASSUME NEW id \in Ids, cancel(id) PROVE Line!LineNext \/ UNCHANGED lockLine
    <3>1. CASE owner = id
      <4>1. ~In(Successors, id)
        BY <3>1, HandOver, LockInvFacts
      <4>2. waitQueue' = Successors /\ owner' = Successor
        BY <2>6, <3>1, <4>1 DEF cancel, Without, In
      <4> QED BY <3>1, <4>2, HandOverIsLeave DEF Line!LineNext
    <3>2. CASE owner # id /\ In(waitQueue, id)
      <4>1. owner # NoOwner
        BY <3>2, LockInvFacts DEF In
      <4>2. owner' = owner /\ waitQueue' = Without(waitQueue, id)
        BY <2>6, <3>2 DEF cancel
      <4> QED BY <3>2, <4>1, <4>2, CancelIsLeave DEF Line!LineNext
    <3>3. CASE owner # id /\ ~In(waitQueue, id)
      BY <2>6, <3>3 DEF cancel, Without, In, lockLine
    <3> QED BY <3>1, <3>2, <3>3
  <2>7. CASE UNCHANGED lockVars
    BY <2>7 DEF lockVars, lockLine
  <2> QED BY <2>2, <2>3, <2>4, <2>5, <2>6, <2>7 DEF LockNext
<1> QED BY <1>1, <1>2, LockInvariant, PTL DEF LockSpec, ImplementsLine, Line!LineSpec

-----------------------------------------------------------------------------
(* What one bridge's use of the lock does to the others. *)

\* The others keep the session if they have it, and get it only by waiting.
OthersClaim(x) ==
    \A i \in Ids \ {x} :
        /\ owner = i => owner' = i
        /\ owner' = i => owner = i \/ In(waitQueue, i)
        /\ acquired'[i] = acquired[i] \/ (acquired'[i] = "resolved" /\ owner' = i)
        /\ In(waitQueue', i) => In(waitQueue, i)

\* An acquire is granted or waits.
LEMMA AcquireStep ==
    ASSUME LockInv, NEW x \in Ids, acquire(x)
    PROVE  /\ LockInv' /\ OthersClaim(x) /\ (owner = x => owner' = x)
           /\ acquired'[x] \in {"waiting", "resolved"}
           /\ acquired'[x] = "resolved" => owner' = x
<1>1. LockInv'
  BY AcquirePreserves
<1>2. /\ owner \in Ids \cup {NoOwner} /\ waitQueue \in Seq(Ids)
      /\ acquired \in [Ids -> PromiseStates]
  BY LockInvFacts
<1>3. \A i : i # x /\ In(Append(waitQueue, x), i) => In(waitQueue, i)
  BY <1>2 DEF In
<1>4. OthersClaim(x)
  <2>1. CASE owner \in {NoOwner, x} /\ owner' = x /\ waitQueue' = waitQueue
             /\ acquired' = [acquired EXCEPT ![x] = "resolved"]
    BY <1>2, <2>1, NoOwnerAssumption DEF OthersClaim
  <2>2. CASE owner \notin {NoOwner, x} /\ waitQueue' = Append(waitQueue, x)
             /\ acquired' = [acquired EXCEPT ![x] = "waiting"] /\ owner' = owner
    <3>1. \A i \in Ids \ {x} : acquired'[i] = acquired[i]
      BY <1>2, <2>2
    <3>2. \A i \in Ids \ {x} : In(waitQueue', i) => In(waitQueue, i)
      BY <1>3, <2>2
    <3> QED BY <2>2, <3>1, <3>2 DEF OthersClaim
  <2> QED BY <2>1, <2>2 DEF acquire
<1>5. acquired'[x] \in {"waiting", "resolved"} /\ (acquired'[x] = "resolved" => owner' = x)
  BY <1>2 DEF acquire
<1>6. owner = x => owner' = x
  BY DEF acquire
<1> QED BY <1>1, <1>4, <1>5, <1>6

\* A release hands the session over to the oldest waiter.
LEMMA ReleaseStep ==
    ASSUME LockInv, NEW x \in Ids, release(x)
    PROVE  /\ LockInv' /\ OthersClaim(x)
           /\ owner' # x /\ acquired'[x] = acquired[x] /\ (In(waitQueue', x) => In(waitQueue, x))
<1>1. CASE owner = x
  <2>1. drainWaitQueue
    BY <1>1 DEF release
  <2>2. LockInv'
    BY <2>1, DrainPreserves
  <2>3. /\ owner' = Successor /\ waitQueue' = Successors
        /\ acquired' = [i \in Ids |-> IF i = Successor THEN "resolved" ELSE acquired[i]]
    BY <2>1 DEF drainWaitQueue
  <2>4. /\ \A id : In(Successors, id) <=> In(waitQueue, id) /\ id # Successor
        /\ ~In(waitQueue, owner) /\ (Successor # NoOwner => In(waitQueue, Successor))
    <3>1. ~In(waitQueue, owner) /\ waitQueue \in Seq(Ids)
      BY LockInvFacts
    <3>2. Successor # NoOwner => In(waitQueue, Successor)
      BY <3>1 DEF Successor, In
    <3> QED BY <3>1, <3>2, HandOver
  <2>5. x # Successor /\ owner' # x
    BY <1>1, <2>3, <2>4, NoOwnerAssumption
  <2>6. OthersClaim(x)
    BY <1>1, <2>3, <2>4, NoOwnerAssumption DEF OthersClaim
  <2> QED BY <2>2, <2>3, <2>4, <2>5, <2>6
<1>2. CASE owner # x
  BY <1>2, StutterPreserves DEF release, OthersClaim, lockVars
<1> QED BY <1>1, <1>2

\* A cancel gives up both the session and the place in the queue.
LEMMA CancelStep ==
    ASSUME LockInv, NEW x \in Ids, cancel(x)
    PROVE  /\ LockInv' /\ OthersClaim(x)
           /\ owner' # x /\ ~In(waitQueue', x)
           /\ acquired'[x] = IF acquired[x] = "waiting" THEN "rejected" ELSE acquired[x]
<1>1. LockInv'
  BY CancelPreserves
<1>2. /\ owner \in Ids \cup {NoOwner} /\ waitQueue \in Seq(Ids) /\ Once(waitQueue)
      /\ acquired \in [Ids -> PromiseStates] /\ ~In(waitQueue, owner)
  BY LockInvFacts
<1>3. /\ Successors \in Seq(Ids) /\ Once(Successors)
      /\ \A id : In(Successors, id) <=> In(waitQueue, id) /\ id # Successor
      /\ Successor # NoOwner => In(waitQueue, Successor)
  <2>1. Successor # NoOwner => In(waitQueue, Successor)
    BY <1>2 DEF Successor, In
  <2> QED BY <2>1, HandOver
<1>4. \A id : In(waitQueue', id) => In(waitQueue, id) /\ id # x
  <2>1. CASE owner = x
    <3>1. waitQueue' = Without(Successors, x)
      BY <2>1 DEF cancel
    <3>2. \A id : In(Without(Successors, x), id) <=> In(Successors, id) /\ id # x
      BY <1>3, WithoutLemma
    <3> QED BY <1>3, <3>1, <3>2
  <2>2. CASE owner # x
    <3>1. waitQueue' = Without(waitQueue, x)
      BY <2>2 DEF cancel
    <3>2. \A id : In(Without(waitQueue, x), id) <=> In(waitQueue, id) /\ id # x
      BY <1>2, WithoutLemma
    <3> QED BY <3>1, <3>2
  <2> QED BY <2>1, <2>2
<1>5. owner' # x
  BY <1>2, <1>3, NoOwnerAssumption DEF cancel
<1>6. acquired'[x] = IF acquired[x] = "waiting" THEN "rejected" ELSE acquired[x]
  BY <1>2, <1>3, NoOwnerAssumption DEF cancel
<1>7. OthersClaim(x)
  BY <1>2, <1>3, <1>4, NoOwnerAssumption DEF cancel, OthersClaim
<1> QED BY <1>1, <1>4, <1>5, <1>6, <1>7

\* Nor does a step that leaves the lock alone.
LEMMA LockKept ==
    ASSUME LockInv, UNCHANGED lockVars, NEW x
    PROVE  LockInv' /\ OthersClaim(x)
BY StutterPreserves DEF OthersClaim, lockVars

-----------------------------------------------------------------------------
(* PGlite's mutex. *)

\* An entry is added behind the others.
LEMMA AppendLemma ==
    ASSUME NEW S, NEW q \in Seq(S), NEW x \in S
    PROVE  /\ Append(q, x) \in Seq(S) /\ Append(q, x) # <<>>
           /\ \A y : In(Append(q, x), y) <=> In(q, y) \/ y = x
           /\ Once(q) /\ ~In(q, x) => Once(Append(q, x))
           /\ q # <<>> => Head(Append(q, x)) = Head(q)
<1> DEFINE r == Append(q, x)
<1>1. /\ r \in Seq(S) /\ Len(r) = Len(q) + 1 /\ Len(q) \in Nat
      /\ \A i \in 1..Len(q) : r[i] = q[i]
      /\ r[Len(q) + 1] = x
  BY AppendProperties, LenProperties
<1>2. r # <<>>
  BY <1>1, EmptySeq
<1>3. q # <<>> => Head(r) = Head(q)
  <2>1. q # <<>> => Len(q) >= 1
    BY <1>1, EmptySeq
  <2> QED BY <1>1, <2>1
<1> HIDE DEF r
<1>4. \A y : In(r, y) <=> In(q, y) \/ y = x
  <2>1. ASSUME NEW y, In(q, y) PROVE In(r, y)
    <3>1. PICK k \in 1..Len(q) : q[k] = y
      BY <2>1 DEF In
    <3>2. k \in 1..Len(r) /\ r[k] = y
      BY <1>1, <3>1
    <3> QED BY <3>2 DEF In
  <2>2. In(r, x)
    BY <1>1 DEF In
  <2>3. ASSUME NEW y, In(r, y), y # x PROVE In(q, y)
    BY <1>1, <2>3 DEF In
  <2> QED BY <2>1, <2>2, <2>3
<1>5. Once(q) /\ ~In(q, x) => Once(r)
  BY <1>1 DEF Once, In
<1> QED BY <1>1, <1>2, <1>3, <1>4, <1>5 DEF r

\* The frame of a duplex's drain loop, its recovery Sync, the ROLLBACK of its
\* teardown.
JobKinds == {"op", "recovery", "rollback"}
Job(d, j) == [by |-> d, job |-> j]

\* Each job has its duplex and its kind.
LEMMA JobFacts ==
    ASSUME NEW d \in Duplexes, NEW j \in JobKinds
    PROVE  /\ Job(d, j) \in Jobs /\ Job(d, j).by = d /\ Job(d, j).job = j
           /\ \A e \in Duplexes : \A k \in JobKinds : Job(d, j) = Job(e, k) => d = e /\ j = k
<1>1. Job(d, j).by = d /\ Job(d, j).job = j
  BY DEF Job
<1>2. \A e \in Duplexes : \A k \in JobKinds : Job(e, k).by = e /\ Job(e, k).job = k
  BY DEF Job
<1>3. Job(d, j) \in Jobs
  BY DEF Job, Jobs, JobKinds
<1> QED BY <1>1, <1>2, <1>3

-----------------------------------------------------------------------------
(* The inductive invariant of the duplexes. *)

\* The drain loop has a frame that claims the session.
Serving(d) == drain[d] \in {"acquiring", "queued"}

\* PGlite's mutex holds the frame of a drain loop that stands there, the recovery
\* and the ROLLBACK that are waited for, each once.
Owes(d, j) == \/ j = "op" /\ drain[d] = "queued"
              \/ j = "recovery" /\ recovery[d] = "queued"
              \/ j = "rollback" /\ rollback[d] = "queued"

JobsInv ==
    /\ busy => mutex # <<>>
    /\ Once(mutex)
    /\ \A d \in Duplexes : \A j \in JobKinds : In(mutex, Job(d, j)) => Owes(d, j)

\* Where the drain loop stands goes with the state of the stream.
StreamOK(d) ==
    /\ Serving(d) => op[d] # "none" /\ phase[d] = "ready"
    /\ phase[d] = "terminated" => input[d] = <<>>
    /\ tornDown[d] => input[d] = <<>> /\ buffered[d] = <<>>
    /\ final[d] \in {"pending", "done"} => drain[d] = "idle"
    /\ drain[d] = "terminating" => phase[d] = "terminated"

\* A frame that is being served keeps its claim on the session until its
\* duplex is closed, and a closed duplex has none.
ClaimOK(d) ==
    /\ Serving(d) /\ ~closed[d] => acquired[d] \in {"waiting", "resolved"}
    /\ Serving(d) /\ ~closed[d] /\ acquired[d] = "resolved" => owner = d
    /\ drain[d] = "queued" => acquired[d] # "waiting"
    /\ closed[d] => /\ tornDown[d] /\ rollback[d] = "done"
                    /\ owner # d /\ ~In(waitQueue, d)

\* A teardown's ROLLBACK waits for the call in flight, runs while the session is
\* still the duplex's, and is done only when no transaction of its is open.
RollbackOK(d) ==
    /\ rollback[d] = "await" => tornDown[d]
    /\ rollback[d] \in {"queued", "done"} =>
          tornDown[d] \/ phase[d] = "terminated" \/ final[d] \in {"pending", "done"}
    /\ rollback[d] = "queued" => owner = d
    /\ rollback[d] = "done" => ~inTransaction(d)
    /\ Executing(d) => rollback[d] \in {"none", "await"}

\* A recovery Sync is under way only while nothing else is: no frame is served or
\* left, the stream is open, and the session is the duplex's.  A duplex that is
\* torn down has its Sync dropped, unless PGlite executes it already.
Resting(d) == drain[d] \in {"idle", "loop"} /\ phase[d] = "ready" /\ final[d] = "no"
Spent(d) == input[d] = <<>> /\ buffered[d] = <<>>
RecoveryOK(d) ==
    /\ recovery[d] # "none" /\ ~tornDown[d] => Resting(d) /\ Spent(d)
    /\ recovery[d] \in {"entering", "queued"} /\ ~tornDown[d] => owner = d
    /\ Executing(d) /\ Head(mutex).job = "recovery" => Resting(d) /\ owner = d

\* The session's transaction belongs to a duplex that knows of it and holds the
\* session, unless it is the portal of one that is gone.
XactInv ==
    /\ xact = "idle" <=> openedBy = NoOwner
    /\ xact \in {"block", "failed"} => inTransaction(openedBy)
    /\ xact = "implicit" => Gone(openedBy) \/ owner = openedBy
    /\ \A d \in Duplexes : inTransaction(d) => owner = d

\* All that is said of one duplex, and of all of them.
DuplexOK(d) == StreamOK(d) /\ ClaimOK(d) /\ RollbackOK(d) /\ RecoveryOK(d)

DuplexInv == /\ DuplexTypeOK /\ LockInv /\ JobsInv /\ XactInv
             /\ \A d \in Duplexes : DuplexOK(d)

-----------------------------------------------------------------------------
(* What a step of one duplex does to the others. *)

\* No other duplex moves.
OnlyMoves(d) ==
    \A e \in Duplexes \ {d} :
        /\ phase'[e] = phase[e] /\ tornDown'[e] = tornDown[e] /\ closed'[e] = closed[e]
        /\ final'[e] = final[e] /\ input'[e] = input[e] /\ buffered'[e] = buffered[e]
        /\ drain'[e] = drain[e] /\ op'[e] = op[e] /\ lastSeen'[e] = lastSeen[e]
        /\ recovery'[e] = recovery[e] /\ rollback'[e] = rollback[e]

\* The call that PGlite executes is the one it executed before.
SameCall == busy' => busy /\ Head(mutex') = Head(mutex)

\* A duplex that does not move stays as it is, whatever the lock decides.
LEMMA Bystander ==
    ASSUME NEW d \in Ids, NEW e \in Duplexes, e # d, DuplexOK(e),
           OnlyMoves(d), OthersClaim(d), SameCall
    PROVE  DuplexOK(e)'
<1>1. /\ phase'[e] = phase[e] /\ tornDown'[e] = tornDown[e] /\ closed'[e] = closed[e]
      /\ final'[e] = final[e] /\ input'[e] = input[e] /\ buffered'[e] = buffered[e]
      /\ drain'[e] = drain[e] /\ op'[e] = op[e] /\ lastSeen'[e] = lastSeen[e]
      /\ recovery'[e] = recovery[e] /\ rollback'[e] = rollback[e]
  BY DEF OnlyMoves
<1>2. /\ owner = e => owner' = e
      /\ owner' = e => owner = e \/ In(waitQueue, e)
      /\ acquired'[e] = acquired[e] \/ (acquired'[e] = "resolved" /\ owner' = e)
      /\ In(waitQueue', e) => In(waitQueue, e)
  BY DuplexAssumption DEF OthersClaim
<1>3. StreamOK(e)'
  BY <1>1 DEF DuplexOK, StreamOK, Serving
<1>4. ClaimOK(e)'
  BY <1>1, <1>2 DEF DuplexOK, ClaimOK, Serving
<1>5. Executing(e)' => Executing(e) /\ Head(mutex') = Head(mutex)
  BY DEF SameCall, Executing
<1>6. RollbackOK(e)'
  BY <1>1, <1>2, <1>5 DEF DuplexOK, RollbackOK, inTransaction
<1>7. RecoveryOK(e)'
  BY <1>1, <1>2, <1>5 DEF DuplexOK, RecoveryOK, Resting, Spent
<1> QED BY <1>3, <1>4, <1>6, <1>7 DEF DuplexOK

\* Nor does a claim on the session of one that is not a duplex suffer from it.
OutsidersKeep ==
    \A i \in Ids \ Duplexes :
        /\ owner = i => owner' = i
        /\ acquired'[i] = acquired[i] \/ (acquired'[i] = "resolved" /\ owner' = i)

\* So a step of d keeps the invariant when it keeps d's part of it.
LEMMA StepOf ==
    ASSUME DuplexInv, NEW d \in Duplexes, DuplexTypeOK', LockInv', JobsInv', XactInv',
           OnlyMoves(d), OthersClaim(d), SameCall, DuplexOK(d)'
    PROVE  DuplexInv' /\ OutsidersKeep
<1>1. ASSUME NEW e \in Duplexes PROVE DuplexOK(e)'
  <2>1. CASE e = d
    BY <2>1
  <2>2. CASE e # d
    BY <2>2, Bystander, DuplexAssumption DEF DuplexInv
  <2> QED BY <2>1, <2>2
<1>2. OutsidersKeep
  BY DEF OutsidersKeep, OthersClaim
<1> QED BY <1>1, <1>2 DEF DuplexInv

\* A step that leaves the transaction and what is known of it alone, and gives up
\* the session only for a duplex without a transaction that is then gone.
LEMMA XactKept ==
    ASSUME DuplexInv, NEW d \in Duplexes, OnlyMoves(d), OthersClaim(d),
           UNCHANGED <<xact, openedBy, lastSeen>>, Gone(d) => Gone(d)',
           owner = d => owner' = d \/ (~inTransaction(d) /\ Gone(d)')
    PROVE  XactInv'
<1>1. /\ xact = "idle" <=> openedBy = NoOwner
      /\ xact \in {"block", "failed"} => inTransaction(openedBy)
      /\ xact = "implicit" => Gone(openedBy) \/ owner = openedBy
      /\ \A e \in Duplexes : inTransaction(e) => owner = e
      /\ openedBy \in Duplexes \cup {NoOwner}
  BY DEF DuplexInv, XactInv, DuplexTypeOK
<1>2. \A e \in Duplexes : inTransaction(e) => owner' = e
  BY <1>1, DuplexAssumption DEF OthersClaim
<1>3. xact = "implicit" => Gone(openedBy)' \/ owner' = openedBy
  <2>1. CASE openedBy = d
    BY <1>1, <2>1
  <2>2. ASSUME openedBy # d, xact = "implicit" PROVE Gone(openedBy)' \/ owner' = openedBy
    <3>1. openedBy \in Duplexes \ {d}
      BY <1>1, <2>2
    <3>2. Gone(openedBy) => Gone(openedBy)'
      BY <3>1 DEF OnlyMoves, Gone
    <3>3. owner = openedBy => owner' = openedBy
      BY <3>1, DuplexAssumption DEF OthersClaim
    <3> QED BY <1>1, <2>2, <3>2, <3>3
  <2> QED BY <2>1, <2>2
<1>4. \A e : inTransaction(e)' <=> inTransaction(e)
  BY DEF inTransaction
<1> QED BY <1>1, <1>2, <1>3, <1>4 DEF XactInv

-----------------------------------------------------------------------------
(* What a step does to the mutex. *)

\* The job at the head is one that its duplex waits for.
LEMMA HeadIsOwed ==
    ASSUME DuplexInv, mutex # <<>>
    PROVE  \E d \in Duplexes : \E j \in JobKinds : Head(mutex) = Job(d, j) /\ Owes(d, j)
<1>1. mutex \in Seq(Jobs)
  BY DEF DuplexInv, DuplexTypeOK
<1>2. Len(mutex) \in Nat /\ Len(mutex) >= 1 /\ Head(mutex) = mutex[1] /\ Head(mutex) \in Jobs
  BY <1>1, EmptySeq, LenProperties, HeadTailProperties
<1>3. In(mutex, Head(mutex))
  BY <1>2 DEF In
<1>4. PICK d \in Duplexes, j \in JobKinds : Head(mutex) = Job(d, j)
  BY <1>2 DEF Jobs, JobKinds, Job
<1> QED BY <1>3, <1>4 DEF DuplexInv, JobsInv

\* A duplex's call is its frame or its recovery Sync.
LEMMA ExecutingFact ==
    ASSUME DuplexInv, NEW d \in Duplexes, Executing(d)
    PROVE  /\ busy /\ mutex # <<>>
           /\ \/ Head(mutex) = Job(d, "op") /\ Head(mutex).job = "op" /\ drain[d] = "queued"
              \/ /\ Head(mutex) = Job(d, "recovery") /\ Head(mutex).job = "recovery"
                 /\ recovery[d] = "queued"
<1>1. /\ busy /\ mutex # <<>>
      /\ Head(mutex).by = d /\ Head(mutex).job # "rollback"
  BY DEF Executing, DuplexInv, JobsInv
<1>2. PICK e \in Duplexes, j \in JobKinds : Head(mutex) = Job(e, j) /\ Owes(e, j)
  BY <1>1, HeadIsOwed
<1>3. e = d /\ Head(mutex).job = j /\ j \in {"op", "recovery"}
  BY <1>1, <1>2, JobFacts DEF JobKinds
<1> QED BY <1>1, <1>2, <1>3 DEF Owes

\* While PGlite executes its frame, a duplex is open and owns the session; and so
\* it is while PGlite executes its recovery Sync.
LEMMA CallFacts ==
    ASSUME DuplexInv, NEW d \in Duplexes, Executing(d)
    PROVE  /\ phase[d] = "ready" /\ ~closed[d] /\ owner = d
           /\ rollback[d] \in {"none", "await"} /\ final[d] \notin {"pending", "done"}
           /\ Head(mutex).job = "op" => drain[d] = "queued" /\ op[d] \in Frames
           /\ Head(mutex).job = "recovery" => recovery[d] = "queued" /\ Resting(d)
<1>1. StreamOK(d) /\ ClaimOK(d) /\ RollbackOK(d) /\ RecoveryOK(d)
  BY DEF DuplexInv, DuplexOK
<1>2. rollback[d] \in {"none", "await"}
  BY <1>1 DEF RollbackOK
<1>3. CASE Head(mutex).job = "op" /\ drain[d] = "queued"
  <2>1. op[d] # "none" /\ phase[d] = "ready" /\ final[d] \notin {"pending", "done"}
    BY <1>1, <1>3 DEF StreamOK, Serving
  <2>2. op[d] \in Frames
    BY <2>1 DEF DuplexInv, DuplexTypeOK
  <2>3. ~closed[d] /\ owner = d
    BY <1>1, <1>2, <1>3 DEF ClaimOK, Serving
  <2> QED BY <1>2, <1>3, <2>1, <2>2, <2>3
<1>4. CASE Head(mutex).job = "recovery" /\ recovery[d] = "queued"
  BY <1>1, <1>2, <1>4 DEF RecoveryOK, ClaimOK, Resting
<1> QED BY <1>3, <1>4, ExecutingFact

\* Nothing is queued, and what is queued stays owed.
LEMMA MutexKept ==
    ASSUME DuplexInv, NEW d \in Duplexes, OnlyMoves(d), UNCHANGED <<mutex, busy>>,
           \A j \in JobKinds : Owes(d, j) => Owes(d, j)'
    PROVE  JobsInv' /\ SameCall /\ mutex' \in Seq(Jobs)
<1>1. /\ busy => mutex # <<>>
      /\ Once(mutex) /\ mutex \in Seq(Jobs)
      /\ \A e \in Duplexes : \A j \in JobKinds : In(mutex, Job(e, j)) => Owes(e, j)
  BY DEF DuplexInv, JobsInv, DuplexTypeOK
<1>2. \A e \in Duplexes : \A j \in JobKinds : Owes(e, j) => Owes(e, j)'
  BY DEF OnlyMoves, Owes
<1> QED BY <1>1, <1>2 DEF JobsInv, SameCall, Job

\* d queues a job.
LEMMA MutexTakes ==
    ASSUME DuplexInv, NEW d \in Duplexes, NEW k \in JobKinds, OnlyMoves(d), Enqueue(d, k),
           UNCHANGED busy, ~Owes(d, k), Owes(d, k)',
           \A j \in JobKinds : Owes(d, j) => Owes(d, j)'
    PROVE  JobsInv' /\ SameCall /\ mutex' \in Seq(Jobs)
<1>1. /\ busy => mutex # <<>>
      /\ Once(mutex) /\ mutex \in Seq(Jobs)
      /\ \A e \in Duplexes : \A j \in JobKinds : In(mutex, Job(e, j)) => Owes(e, j)
  BY DEF DuplexInv, JobsInv, DuplexTypeOK
<1>2. mutex' = Append(mutex, Job(d, k)) /\ Job(d, k) \in Jobs /\ ~In(mutex, Job(d, k))
  BY <1>1, JobFacts DEF Enqueue, Job
<1>3. /\ mutex' \in Seq(Jobs) /\ mutex' # <<>> /\ Once(mutex')
      /\ \A y : In(mutex', y) <=> In(mutex, y) \/ y = Job(d, k)
      /\ mutex # <<>> => Head(mutex') = Head(mutex)
  BY <1>1, <1>2, AppendLemma
<1>4. ASSUME NEW e \in Duplexes, NEW j \in JobKinds, In(mutex', Job(e, j))
      PROVE  Owes(e, j)'
  <2>1. \/ In(mutex, Job(e, j)) /\ Owes(e, j)
        \/ e = d /\ j = k
    BY <1>1, <1>3, <1>4, JobFacts
  <2>2. e # d => (Owes(e, j) => Owes(e, j)')
    BY DEF OnlyMoves, Owes
  <2> QED BY <2>1, <2>2
<1>5. SameCall
  BY <1>1, <1>3 DEF SameCall
<1> QED BY <1>3, <1>4, <1>5 DEF JobsInv, Job

\* PGlite is done with the job at the head.
LEMMA MutexMovesOn ==
    ASSUME DuplexInv, NEW d \in Duplexes, NEW k \in JobKinds, OnlyMoves(d), mutex # <<>>,
           ~busy', mutex' = Tail(mutex), Head(mutex) = Job(d, k),
           \A j \in JobKinds \ {k} : Owes(d, j) => Owes(d, j)'
    PROVE  JobsInv' /\ SameCall /\ mutex' \in Seq(Jobs)
<1>1. /\ Once(mutex) /\ mutex \in Seq(Jobs)
      /\ \A e \in Duplexes : \A j \in JobKinds : In(mutex, Job(e, j)) => Owes(e, j)
  BY DEF DuplexInv, JobsInv, DuplexTypeOK
<1>2. /\ mutex' \in Seq(Jobs) /\ Once(mutex')
      /\ \A y : In(mutex', y) <=> In(mutex, y) /\ y # Head(mutex)
  BY <1>1, TailLemma
<1>3. ASSUME NEW e \in Duplexes, NEW j \in JobKinds, In(mutex', Job(e, j))
      PROVE  Owes(e, j)'
  <2>1. Owes(e, j) /\ (e # d \/ j # k)
    BY <1>1, <1>2, <1>3
  <2>2. e # d => (Owes(e, j) => Owes(e, j)')
    BY DEF OnlyMoves, Owes
  <2> QED BY <2>1, <2>2
<1> QED BY <1>2, <1>3 DEF JobsInv, SameCall, Job

-----------------------------------------------------------------------------
(* The shared rollback. *)

\* A rollback is memoized, or waits for the call in flight, or is queued by the
\* owner, or is not needed.
RollbackMoves(d) ==
    \/ rollback[d] # "none" /\ UNCHANGED <<rollback, mutex>>
    \/ /\ Executing(d) /\ rollback[d] = "none"
       /\ rollback' = [rollback EXCEPT ![d] = "await"] /\ UNCHANGED mutex
    \/ /\ ~Executing(d) /\ rollback[d] \in {"none", "await"} /\ owner = d
       /\ rollback' = [rollback EXCEPT ![d] = "queued"] /\ Enqueue(d, "rollback")
    \/ /\ ~Executing(d) /\ rollback[d] \in {"none", "await"} /\ ~inTransaction(d)
       /\ rollback' = [rollback EXCEPT ![d] = "done"] /\ UNCHANGED mutex

\* A duplex in a transaction owns the session, so that the judgment never
\* leaves an open transaction behind.
LEMMA RollbackOutcome ==
    ASSUME DuplexInv, NEW d \in Duplexes,
           \/ rollbackIfInTransaction(d)
           \/ rollback[d] = "await" /\ ~Executing(d) /\ JudgeRollback(d)
    PROVE  /\ RollbackMoves(d)
           /\ rollback' \in [Duplexes -> {"none", "await", "queued", "done"}]
           /\ \A e \in Duplexes \ {d} : rollback'[e] = rollback[e]
           /\ rollback[d] = "done" => rollback'[d] = "done"
           /\ rollback'[d] # "none"
<1>1. inTransaction(d) => owner = d
  BY DEF DuplexInv, XactInv
<1>2. rollback \in [Duplexes -> {"none", "await", "queued", "done"}]
  BY DEF DuplexInv, DuplexTypeOK
<1>3. RollbackMoves(d)
  <2>1. ASSUME ~Executing(d), rollback[d] \in {"none", "await"}, JudgeRollback(d)
        PROVE  RollbackMoves(d)
    BY <1>1, <2>1 DEF JudgeRollback, isOwner, RollbackMoves
  <2>2. ASSUME rollbackIfInTransaction(d), rollback[d] # "none" PROVE RollbackMoves(d)
    BY <2>2 DEF rollbackIfInTransaction, RollbackMoves
  <2>3. ASSUME rollbackIfInTransaction(d), rollback[d] = "none", Executing(d)
        PROVE  RollbackMoves(d)
    BY <2>3 DEF rollbackIfInTransaction, RollbackMoves
  <2>4. ASSUME rollbackIfInTransaction(d), rollback[d] = "none", ~Executing(d)
        PROVE  RollbackMoves(d)
    BY <2>1, <2>4 DEF rollbackIfInTransaction
  <2> QED BY <2>1, <2>2, <2>3, <2>4
<1>4. /\ rollback' \in [Duplexes -> {"none", "await", "queued", "done"}]
      /\ \A e \in Duplexes \ {d} : rollback'[e] = rollback[e]
      /\ rollback[d] = "done" => rollback'[d] = "done"
      /\ rollback'[d] # "none"
  BY <1>2, <1>3 DEF RollbackMoves
<1> QED BY <1>3, <1>4

\* It leaves the jobs owed and its own duplex in order.
LEMMA RollbackStep ==
    ASSUME DuplexInv, NEW d \in Duplexes, RollbackMoves(d), OnlyMoves(d),
           UNCHANGED <<busy, owner, lastSeen>>,
           \A j \in {"op", "recovery"} : Owes(d, j) => Owes(d, j)',
           rollback'[d] = "await" => tornDown'[d],
           tornDown'[d] \/ phase'[d] = "terminated" \/ final'[d] \in {"pending", "done"}
    PROVE  JobsInv' /\ SameCall /\ mutex' \in Seq(Jobs) /\ RollbackOK(d)'
<1>1. rollback \in [Duplexes -> {"none", "await", "queued", "done"}] /\ RollbackOK(d)
  BY DEF DuplexInv, DuplexTypeOK, DuplexOK
<1>2. ASSUME UNCHANGED mutex, rollback[d] = "queued" => rollback'[d] = "queued"
      PROVE  JobsInv' /\ SameCall /\ mutex' \in Seq(Jobs)
  <2>1. \A j \in JobKinds : Owes(d, j) => Owes(d, j)'
    BY <1>2 DEF JobKinds, Owes
  <2> QED BY <1>2, <2>1, MutexKept
<1>3. SameCall => (Executing(d)' => Executing(d))
  BY DEF SameCall, Executing
<1>4. CASE rollback[d] # "none" /\ UNCHANGED <<rollback, mutex>>
  <2>1. JobsInv' /\ SameCall /\ mutex' \in Seq(Jobs)
    BY <1>2, <1>4
  <2>2. RollbackOK(d)'
    BY <1>1, <1>3, <1>4, <2>1 DEF RollbackOK, inTransaction
  <2> QED BY <2>1, <2>2
<1>5. CASE /\ Executing(d) /\ rollback[d] = "none"
           /\ rollback' = [rollback EXCEPT ![d] = "await"] /\ UNCHANGED mutex
  <2>1. rollback'[d] = "await"
    BY <1>1, <1>5
  <2>2. JobsInv' /\ SameCall /\ mutex' \in Seq(Jobs)
    BY <1>2, <1>5
  <2> QED BY <2>1, <2>2 DEF RollbackOK
<1>6. CASE /\ ~Executing(d) /\ rollback[d] \in {"none", "await"} /\ owner = d
           /\ rollback' = [rollback EXCEPT ![d] = "queued"] /\ Enqueue(d, "rollback")
  <2>1. rollback'[d] = "queued"
    BY <1>1, <1>6
  <2>2. /\ "rollback" \in JobKinds /\ ~Owes(d, "rollback") /\ Owes(d, "rollback")'
        /\ \A j \in JobKinds : Owes(d, j) => Owes(d, j)'
    BY <1>6, <2>1 DEF JobKinds, Owes
  <2>3. JobsInv' /\ SameCall /\ mutex' \in Seq(Jobs)
    BY <1>6, <2>2, MutexTakes
  <2>4. ~Executing(d)'
    BY <1>3, <1>6, <2>3
  <2> QED BY <1>6, <2>1, <2>3, <2>4 DEF RollbackOK
<1>7. CASE /\ ~Executing(d) /\ rollback[d] \in {"none", "await"} /\ ~inTransaction(d)
           /\ rollback' = [rollback EXCEPT ![d] = "done"] /\ UNCHANGED mutex
  <2>1. rollback'[d] = "done"
    BY <1>1, <1>7
  <2>2. JobsInv' /\ SameCall /\ mutex' \in Seq(Jobs)
    BY <1>2, <1>7
  <2>3. ~Executing(d)'
    BY <1>3, <1>7, <2>2
  <2> QED BY <1>7, <2>1, <2>2, <2>3 DEF RollbackOK, inTransaction
<1> QED BY <1>4, <1>5, <1>6, <1>7 DEF RollbackMoves

-----------------------------------------------------------------------------
(* The steps of a duplex. *)

\* A step that does not move the lock's or PGlite's state has only the duplex to
\* answer for.
LEMMA TypesFrom ==
    ASSUME DuplexInv, LockInv', mutex' \in Seq(Jobs), UNCHANGED <<xact, openedBy, busy>>,
           faults' \in 0..MaxFaults,
           phase' \in [Duplexes -> {"ready", "terminated"}],
           tornDown' \in [Duplexes -> BOOLEAN], closed' \in [Duplexes -> BOOLEAN],
           final' \in [Duplexes -> {"no", "ended", "pending", "done"}],
           input' \in [Duplexes -> Seq(Frames \cup {"terminate"})],
           buffered' \in [Duplexes -> Seq(Frames \cup {"terminate"})],
           drain' \in [Duplexes -> DrainStates], op' \in [Duplexes -> Frames \cup {"none"}],
           lastSeen' \in [Duplexes -> Statuses], portalSuspended' \in [Duplexes -> BOOLEAN],
           portalRecoveryRequested' \in [Duplexes -> BOOLEAN],
           recovery' \in [Duplexes -> {"none", "entering", "queued", "failed"}],
           rollback' \in [Duplexes -> {"none", "await", "queued", "done"}]
    PROVE  DuplexTypeOK'
<1>1. /\ xact \in {"idle", "implicit", "block", "failed"}
      /\ openedBy \in Duplexes \cup {NoOwner} /\ busy \in BOOLEAN
  BY DEF DuplexInv, DuplexTypeOK
<1>2. LockTypeOK'
  BY DEF LockInv
<1> QED BY <1>1, <1>2 DEF DuplexTypeOK

\* The drain loop takes the next frame: an acquire, or the Terminate teardown.
LEMMA ProcessKeeps ==
    ASSUME DuplexInv, NEW d \in Duplexes, NEW frames \in Seq(Frames \cup {"terminate"}),
           processMessages(d, frames),
           phase[d] = "ready", ~tornDown[d], final[d] \notin {"pending", "done"},
           drain[d] \in {"idle", "loop"}, recovery[d] = "none",
           final' = final \/ final' = [final EXCEPT ![d] = "ended"],
           UNCHANGED <<xact, openedBy, busy, faults, tornDown, closed, lastSeen, recovery>>,
           buffered' \in [Duplexes -> Seq(Frames \cup {"terminate"})],
           \A e \in Duplexes \ {d} : buffered'[e] = buffered[e]
    PROVE  DuplexInv' /\ OutsidersKeep
<1> USE DuplexAssumption
<1>1. /\ DuplexTypeOK /\ LockInv
      /\ StreamOK(d) /\ ClaimOK(d) /\ RollbackOK(d) /\ RecoveryOK(d)
  BY DEF DuplexInv, DuplexOK
<1>2. ~Executing(d) /\ ~closed[d]
  <2>1. ~Executing(d)
    BY ExecutingFact
  <2> QED BY <1>1, <2>1 DEF ClaimOK
<1>0. /\ final' \in [Duplexes -> {"no", "ended", "pending", "done"}]
      /\ \A e \in Duplexes \ {d} : final'[e] = final[e]
      /\ final'[d] \notin {"pending", "done"}
  BY <1>1 DEF DuplexTypeOK
<1>12. SameCall => ~Executing(d)' /\ RecoveryOK(d)'
  BY <1>2 DEF SameCall, Executing, RecoveryOK
<1>3. frames # <<>> => /\ Head(frames) \in Frames \cup {"terminate"}
                       /\ Tail(frames) \in Seq(Frames \cup {"terminate"})
  BY HeadTailProperties
<1>4. CASE BeginTerminate(d)
  <2>1. /\ phase' = [phase EXCEPT ![d] = "terminated"]
        /\ input' = [input EXCEPT ![d] = <<>>]
        /\ drain' = [drain EXCEPT ![d] = "terminating"]
        /\ portalSuspended' = [portalSuspended EXCEPT ![d] = FALSE]
        /\ portalRecoveryRequested' = [portalRecoveryRequested EXCEPT ![d] = FALSE]
        /\ rollbackIfInTransaction(d)
        /\ UNCHANGED <<lockVars, op>>
    BY <1>4 DEF BeginTerminate
  <2>2. /\ RollbackMoves(d)
        /\ rollback' \in [Duplexes -> {"none", "await", "queued", "done"}]
        /\ \A e \in Duplexes \ {d} : rollback'[e] = rollback[e]
        /\ rollback[d] = "done" => rollback'[d] = "done"
        /\ rollback'[d] # "none"
    BY <2>1, RollbackOutcome
  <2>3. OnlyMoves(d)
    BY <1>0, <1>1, <2>1, <2>2 DEF OnlyMoves, DuplexTypeOK
  <2>4. phase'[d] = "terminated" /\ drain'[d] = "terminating" /\ input'[d] = <<>>
    BY <1>1, <2>1 DEF DuplexTypeOK
  <2>5. LockInv' /\ OthersClaim(d) /\ owner' = owner
    BY <1>1, <2>1, LockKept DEF lockVars
  <2>6. rollback'[d] # "await"
    BY <1>1, <1>2, <2>2 DEF RollbackMoves, RollbackOK, DuplexTypeOK
  <2>7. JobsInv' /\ SameCall /\ mutex' \in Seq(Jobs) /\ RollbackOK(d)'
    <3>1. \A j \in {"op", "recovery"} : ~Owes(d, j)
      BY DEF Owes
    <3> QED BY <2>2, <2>3, <2>4, <2>5, <2>6, <3>1, RollbackStep
  <2>8. StreamOK(d)'
    BY <1>0, <1>1, <2>4 DEF StreamOK, Serving
  <2>9. ClaimOK(d)'
    BY <1>2, <2>4 DEF ClaimOK, Serving
  <2>10. XactInv'
    <3>1. Gone(d) => Gone(d)'
      BY <1>2 DEF Gone
    <3> QED BY <2>3, <2>5, <3>1, XactKept
  <2>11. DuplexTypeOK'
    <3>1. /\ phase' \in [Duplexes -> {"ready", "terminated"}]
          /\ input' \in [Duplexes -> Seq(Frames \cup {"terminate"})]
          /\ drain' \in [Duplexes -> DrainStates] /\ op' \in [Duplexes -> Frames \cup {"none"}]
          /\ portalSuspended' \in [Duplexes -> BOOLEAN]
          /\ portalRecoveryRequested' \in [Duplexes -> BOOLEAN]
      BY <1>1, <2>1 DEF DuplexTypeOK, DrainStates
    <3> QED BY <1>0, <1>1, <2>2, <2>5, <2>7, <3>1, TypesFrom DEF DuplexTypeOK
  <2> QED BY <1>12, <2>3, <2>5, <2>7, <2>8, <2>9, <2>10, <2>11, StepOf DEF DuplexOK
<1>5. CASE frames # <<>> /\ Head(frames) # "terminate" /\ BeginFrame(d, frames)
  <2>1. /\ op' = [op EXCEPT ![d] = Head(frames)]
        /\ input' = [input EXCEPT ![d] = Tail(frames)]
        /\ drain' = [drain EXCEPT ![d] = "acquiring"]
        /\ acquire(d)
        /\ UNCHANGED <<phase, portalSuspended, portalRecoveryRequested, rollback, mutex>>
    BY <1>5 DEF BeginFrame
  <2>2. OnlyMoves(d)
    BY <1>0, <1>1, <2>1 DEF OnlyMoves, DuplexTypeOK
  <2>3. /\ LockInv' /\ OthersClaim(d) /\ (owner = d => owner' = d)
        /\ acquired'[d] \in {"waiting", "resolved"}
        /\ acquired'[d] = "resolved" => owner' = d
    BY <1>1, <2>1, AcquireStep
  <2>4. Head(frames) \in Frames /\ Head(frames) # "none"
    BY <1>3, <1>5 DEF Frames
  <2>5. op'[d] # "none" /\ drain'[d] = "acquiring"
    BY <1>1, <2>1, <2>4 DEF DuplexTypeOK
  <2>6. JobsInv' /\ SameCall /\ mutex' \in Seq(Jobs)
    <3>1. \A j \in JobKinds : Owes(d, j) => Owes(d, j)'
      BY <2>1 DEF Owes
    <3> QED BY <2>1, <2>2, <3>1, MutexKept
  <2>7. StreamOK(d)'
    BY <1>0, <1>1, <2>1, <2>5 DEF StreamOK, Serving
  <2>8. ClaimOK(d)'
    BY <1>2, <2>3, <2>5 DEF ClaimOK, Serving
  <2>9. RollbackOK(d)'
    BY <1>0, <1>1, <1>12, <2>1, <2>3, <2>6 DEF RollbackOK, inTransaction
  <2>10. XactInv'
    <3>1. Gone(d) => Gone(d)'
      BY <1>2, <2>1 DEF Gone
    <3> QED BY <2>2, <2>3, <3>1, XactKept
  <2>11. DuplexTypeOK'
    <3>1. /\ input' \in [Duplexes -> Seq(Frames \cup {"terminate"})]
          /\ drain' \in [Duplexes -> DrainStates] /\ op' \in [Duplexes -> Frames \cup {"none"}]
      BY <1>1, <1>3, <1>5, <2>1, <2>4 DEF DuplexTypeOK, DrainStates
    <3> QED BY <1>0, <1>1, <2>1, <2>3, <2>6, <3>1, TypesFrom DEF DuplexTypeOK
  <2> QED BY <1>12, <2>2, <2>3, <2>6, <2>7, <2>8, <2>9, <2>10, <2>11, StepOf DEF DuplexOK
<1> QED BY <1>4, <1>5 DEF processMessages

\* A step of the stream alone: the lock and PGlite are not asked.
LEMMA QuietStep ==
    ASSUME DuplexInv, NEW d \in Duplexes, OnlyMoves(d), DuplexTypeOK', DuplexOK(d)',
           UNCHANGED <<lockVars, xact, openedBy, mutex, busy, lastSeen, rollback>>,
           Gone(d) => Gone(d)', drain[d] = "queued" => drain'[d] = "queued",
           recovery[d] = "queued" => recovery'[d] = "queued"
    PROVE  DuplexInv' /\ OutsidersKeep
<1>1. LockInv' /\ OthersClaim(d) /\ owner' = owner
  BY LockKept DEF DuplexInv, lockVars
<1>2. JobsInv' /\ SameCall
  <2>1. \A j \in JobKinds : Owes(d, j) => Owes(d, j)'
    BY DEF Owes
  <2> QED BY <2>1, MutexKept
<1>3. XactInv'
  BY <1>1, XactKept
<1> QED BY <1>1, <1>2, <1>3, StepOf

\* Nothing moves.
LEMMA DuplexStutter ==
    ASSUME DuplexInv, UNCHANGED duplexVars
    PROVE  DuplexInv' /\ OutsidersKeep
<1> USE DEF duplexVars, pgliteVars, streamVars, portalVars
<1>1. LockInv'
  BY StutterPreserves DEF DuplexInv
<1>2. DuplexTypeOK'
  BY <1>1 DEF DuplexInv, DuplexTypeOK, LockInv
<1>3. JobsInv'
  BY DEF DuplexInv, JobsInv, Owes, Job
<1>4. XactInv'
  BY DEF DuplexInv, XactInv, Gone, inTransaction, lockVars
<1>5. ASSUME NEW d \in Duplexes PROVE DuplexOK(d)'
  <2>1. Executing(d)' <=> Executing(d)
    BY DEF Executing
  <2> QED BY <2>1 DEF DuplexInv, DuplexOK, StreamOK, ClaimOK, RollbackOK, RecoveryOK, Serving,
          Resting, Spent, inTransaction, lockVars
<1>6. OutsidersKeep
  BY DEF OutsidersKeep, lockVars
<1> QED BY <1>1, <1>2, <1>3, <1>4, <1>5, <1>6 DEF DuplexInv

\* A chunk starts a drain, is held back by the Writable, or comes too late.
LEMMA WriteKeeps ==
    ASSUME DuplexInv, NEW d \in Duplexes, NEW frame \in Frames \cup {"terminate"},
           Write(d, frame), recovery[d] = "none"
    PROVE  DuplexInv' /\ OutsidersKeep
<1>1. DuplexTypeOK /\ StreamOK(d) /\ ClaimOK(d) /\ RollbackOK(d) /\ RecoveryOK(d)
  BY DEF DuplexInv, DuplexOK
<1>2. /\ ~tornDown[d] /\ final[d] = "no"
      /\ UNCHANGED <<xact, openedBy, busy, faults, tornDown, closed, final, lastSeen, recovery>>
  BY DEF Write
<1>3. CASE phase[d] = "ready" /\ ~Draining(d) /\ processMessages(d, <<frame>>) /\ UNCHANGED buffered
  <2>1. <<frame>> \in Seq(Frames \cup {"terminate"})
    OBVIOUS
  <2>2. drain[d] \in {"idle", "loop"} /\ final[d] \notin {"pending", "done"}
    BY <1>2, <1>3 DEF Draining
  <2> QED BY <1>1, <1>2, <1>3, <2>1, <2>2, ProcessKeeps DEF DuplexTypeOK
<1>4. CASE /\ Draining(d)
           /\ buffered' = [buffered EXCEPT ![d] = Append(@, frame)]
           /\ UNCHANGED <<lockVars, mutex, phase, input, drain, op,
                          portalSuspended, portalRecoveryRequested, rollback>>
  <2>1. buffered' \in [Duplexes -> Seq(Frames \cup {"terminate"})]
    <3>1. Append(buffered[d], frame) \in Seq(Frames \cup {"terminate"})
      BY <1>1, AppendProperties DEF DuplexTypeOK
    <3> QED BY <1>1, <1>4, <3>1 DEF DuplexTypeOK
  <2>2. OnlyMoves(d)
    BY <1>1, <1>2, <1>4 DEF OnlyMoves, DuplexTypeOK
  <2>3. DuplexTypeOK'
    <3>1. LockInv'
      BY <1>4, StutterPreserves DEF DuplexInv
    <3> QED BY <1>1, <1>2, <1>4, <2>1, <3>1 DEF DuplexTypeOK, LockInv
  <2>4. DuplexOK(d)'
    <3>1. Executing(d)' <=> Executing(d)
      BY <1>2, <1>4 DEF Executing
    <3> QED BY <1>1, <1>2, <1>4, <3>1
         DEF DuplexOK, StreamOK, ClaimOK, RollbackOK, RecoveryOK, Serving, Resting,
             inTransaction, lockVars
  <2>5. Gone(d) => Gone(d)'
    BY <1>2, <1>4 DEF Gone
  <2> QED BY <1>2, <1>4, <2>2, <2>3, <2>4, <2>5, QuietStep
<1>5. CASE UNCHANGED <<lockVars, mutex, phase, input, drain, op, buffered,
                       portalSuspended, portalRecoveryRequested, rollback>>
  BY <1>2, <1>5, DuplexStutter DEF duplexVars, pgliteVars, streamVars, portalVars
<1> QED BY <1>3, <1>4, <1>5 DEF Write, write

\* The drain loop goes on while frames are left.
LEMMA NextFrameKeeps ==
    ASSUME DuplexInv, NEW d \in Duplexes, NextFrame(d)
    PROVE  DuplexInv' /\ OutsidersKeep
<1>1. DuplexTypeOK /\ StreamOK(d) /\ RecoveryOK(d)
  BY DEF DuplexInv, DuplexOK
<1>2. /\ drain[d] = "loop" /\ ~tornDown[d] /\ processMessages(d, input[d])
      /\ UNCHANGED <<xact, openedBy, busy, faults, tornDown, closed, final, buffered,
                     lastSeen, recovery>>
  BY DEF NextFrame
<1>3. input[d] \in Seq(Frames \cup {"terminate"}) /\ input[d] # <<>>
  BY <1>1, <1>2 DEF DuplexTypeOK, processMessages
<1>4. phase[d] = "ready" /\ final[d] \notin {"pending", "done"}
  BY <1>1, <1>2, <1>3 DEF StreamOK, DuplexTypeOK
<1>5. recovery[d] = "none"
  BY <1>1, <1>2, <1>3 DEF RecoveryOK, Spent
<1> QED BY <1>1, <1>2, <1>3, <1>4, <1>5, ProcessKeeps DEF DuplexTypeOK

\* A recovery that is asked for is under way, or is not needed.
LEMMA DeliverMoves ==
    ASSUME DuplexTypeOK, NEW d \in Duplexes, deliverRecoverySync(d)
    PROVE  /\ portalSuspended' \in [Duplexes -> BOOLEAN]
           /\ recovery' \in [Duplexes -> {"none", "entering", "queued", "failed"}]
           /\ \A e \in Duplexes \ {d} : recovery'[e] = recovery[e]
           /\ \/ recovery' = recovery
              \/ /\ recovery[d] = "none" /\ recovery'[d] = "entering"
                 /\ owner = d /\ phase[d] = "ready"
BY DEF deliverRecoverySync, DuplexTypeOK, isOwner

\* A drain ends idle, or starts a nested one with what the Writable held back; a
\* deferred recovery is delivered to an open stream.
LEMMA DrainEndKeeps ==
    ASSUME DuplexInv, NEW d \in Duplexes, DrainEnd(d),
           portalRecoveryRequested[d] /\ portalSuspended[d] /\ ~tornDown[d] => final[d] = "no"
    PROVE  DuplexInv' /\ OutsidersKeep
<1>1. DuplexTypeOK /\ StreamOK(d) /\ ClaimOK(d) /\ RollbackOK(d) /\ RecoveryOK(d)
  BY DEF DuplexInv, DuplexOK
<1>2. /\ drain[d] = "loop" /\ buffered' = [buffered EXCEPT ![d] = <<>>]
      /\ tornDown[d] \/ input[d] = <<>>
      /\ UNCHANGED <<xact, openedBy, busy, faults, tornDown, closed, final, lastSeen>>
  BY DEF DrainEnd
<1>3. /\ buffered' \in [Duplexes -> Seq(Frames \cup {"terminate"})]
      /\ \A e \in Duplexes \ {d} : buffered'[e] = buffered[e]
      /\ buffered'[d] = <<>>
  BY <1>1, <1>2 DEF DuplexTypeOK
<1>4. CASE /\ buffered[d] # <<>> /\ phase[d] = "ready"
           /\ processMessages(d, buffered[d]) /\ UNCHANGED recovery
  <2>1. buffered[d] \in Seq(Frames \cup {"terminate"})
    BY <1>1 DEF DuplexTypeOK
  <2>2. ~tornDown[d] /\ final[d] \notin {"pending", "done"}
    BY <1>1, <1>2, <1>4 DEF StreamOK
  <2>3. recovery[d] = "none"
    BY <1>1, <1>4, <2>2 DEF RecoveryOK, Spent
  <2> QED BY <1>2, <1>3, <1>4, <2>1, <2>2, <2>3, ProcessKeeps
<1>5. CASE /\ drain' = [drain EXCEPT ![d] = "idle"]
           /\ portalRecoveryRequested' = [portalRecoveryRequested EXCEPT ![d] = FALSE]
           /\ IF portalRecoveryRequested[d] /\ portalSuspended[d]
              THEN deliverRecoverySync(d)
              ELSE UNCHANGED <<portalSuspended, recovery>>
           /\ UNCHANGED <<lockVars, mutex, phase, input, op, rollback>>
  <2>1. /\ portalSuspended' \in [Duplexes -> BOOLEAN]
        /\ recovery' \in [Duplexes -> {"none", "entering", "queued", "failed"}]
        /\ \A e \in Duplexes \ {d} : recovery'[e] = recovery[e]
        /\ \/ recovery' = recovery
           \/ /\ recovery[d] = "none" /\ recovery'[d] = "entering"
              /\ owner = d /\ phase[d] = "ready"
              /\ portalRecoveryRequested[d] /\ portalSuspended[d]
    BY <1>1, <1>5, DeliverMoves DEF DuplexTypeOK
  <2>2. OnlyMoves(d)
    BY <1>1, <1>2, <1>3, <1>5, <2>1 DEF OnlyMoves, DuplexTypeOK
  <2>3. drain'[d] = "idle"
    BY <1>1, <1>5 DEF DuplexTypeOK
  <2>4. DuplexTypeOK'
    <3>1. LockInv'
      BY <1>5, StutterPreserves DEF DuplexInv
    <3>2. /\ drain' \in [Duplexes -> DrainStates]
          /\ portalRecoveryRequested' \in [Duplexes -> BOOLEAN]
      BY <1>1, <1>5 DEF DuplexTypeOK, DrainStates
    <3> QED BY <1>1, <1>2, <1>3, <1>5, <2>1, <3>1, <3>2 DEF DuplexTypeOK, LockInv
  <2>5. StreamOK(d)'
    BY <1>1, <1>2, <1>3, <1>5, <2>3 DEF StreamOK, Serving
  <2>6. ClaimOK(d)'
    BY <1>1, <1>2, <1>5, <2>3 DEF ClaimOK, Serving, lockVars
  <2>7. Executing(d)' <=> Executing(d)
    BY <1>2, <1>5 DEF Executing
  <2>8. RollbackOK(d)'
    BY <1>1, <1>2, <1>5, <2>7 DEF RollbackOK, inTransaction, lockVars
  <2>9. RecoveryOK(d)'
    BY <1>1, <1>2, <1>3, <1>5, <2>1, <2>3, <2>7 DEF RecoveryOK, Resting, Spent, lockVars
  <2>10. Gone(d) => Gone(d)'
    BY <1>2, <1>5, <2>3 DEF Gone
  <2>11. recovery[d] = "queued" => recovery'[d] = "queued"
    BY <2>1
  <2> QED BY <1>2, <1>5, <2>2, <2>3, <2>4, <2>5, <2>6, <2>8, <2>9, <2>10, <2>11, QuietStep
          DEF DuplexOK
<1> QED BY <1>4, <1>5 DEF DrainEnd

\* A granted frame queues on PGlite's mutex.
LEMMA EnterMutexKeeps ==
    ASSUME DuplexInv, NEW d \in Duplexes, EnterMutex(d)
    PROVE  DuplexInv' /\ OutsidersKeep
<1>1. DuplexTypeOK /\ StreamOK(d) /\ ClaimOK(d) /\ RollbackOK(d) /\ RecoveryOK(d)
  BY DEF DuplexInv, DuplexOK
<1>2. /\ drain[d] = "acquiring" /\ acquired[d] = "resolved"
      /\ drain' = [drain EXCEPT ![d] = "queued"] /\ Enqueue(d, "op")
      /\ UNCHANGED <<lockVars, xact, openedBy, busy, faults, phase, tornDown, closed, final,
                     input, buffered, op, portalVars>>
  BY DEF EnterMutex
<1>3. drain' \in [Duplexes -> DrainStates] /\ drain'[d] = "queued" /\ OnlyMoves(d)
  BY <1>1, <1>2 DEF OnlyMoves, DuplexTypeOK, DrainStates, portalVars
<1>4. LockInv' /\ OthersClaim(d) /\ owner' = owner
  BY <1>2, LockKept DEF DuplexInv, lockVars
<1>5. JobsInv' /\ SameCall /\ mutex' \in Seq(Jobs)
  <2>1. /\ "op" \in JobKinds /\ ~Owes(d, "op") /\ Owes(d, "op")'
        /\ \A j \in JobKinds : Owes(d, j) => Owes(d, j)'
    BY <1>2, <1>3 DEF JobKinds, Owes, portalVars
  <2> QED BY <1>2, <1>3, <2>1, MutexTakes
<1>6. DuplexTypeOK'
  BY <1>1, <1>2, <1>3, <1>4, <1>5 DEF DuplexTypeOK, LockInv, portalVars
<1>7. StreamOK(d)'
  BY <1>1, <1>2, <1>3 DEF StreamOK, Serving, portalVars
<1>8. ClaimOK(d)'
  BY <1>1, <1>2, <1>3 DEF ClaimOK, Serving, lockVars, portalVars
<1>11. ~Executing(d)
  BY <1>2, ExecutingFact, CallFacts DEF Resting
<1>12. ~Executing(d)'
  BY <1>5, <1>11 DEF SameCall, Executing
<1>9. RollbackOK(d)' /\ RecoveryOK(d)'
  BY <1>1, <1>2, <1>12 DEF RollbackOK, RecoveryOK, Resting, inTransaction, lockVars, portalVars
<1>10. XactInv'
  <2>1. Gone(d) => Gone(d)'
    BY <1>2, <1>3 DEF Gone
  <2> QED BY <1>2, <1>3, <1>4, <2>1, XactKept DEF portalVars
<1> QED BY <1>3, <1>4, <1>5, <1>6, <1>7, <1>8, <1>9, <1>10, StepOf DEF DuplexOK

\* A frame whose claim is rejected, or that PGlite is not ready for, fails its drain.
LEMMA OpFailsKeeps ==
    ASSUME DuplexInv, NEW d \in Duplexes, OpFails(d)
    PROVE  DuplexInv' /\ OutsidersKeep
<1>1. DuplexTypeOK /\ StreamOK(d) /\ ClaimOK(d) /\ RollbackOK(d) /\ RecoveryOK(d)
  BY DEF DuplexInv, DuplexOK
<1>2. /\ drain[d] = "acquiring"
      /\ drain' = [drain EXCEPT ![d] = "failing"] /\ op' = [op EXCEPT ![d] = "none"]
      /\ UNCHANGED <<lockVars, xact, openedBy, mutex, busy, phase, tornDown, closed, final,
                     input, buffered, portalVars>>
  BY DEF OpFails
<1>3. faults' \in 0..MaxFaults
  <2>1. faults \in 0..MaxFaults /\ MaxFaults \in Nat
    BY <1>1, DuplexAssumption DEF DuplexTypeOK
  <2> QED BY <2>1 DEF OpFails
<1>4. /\ drain' \in [Duplexes -> DrainStates] /\ op' \in [Duplexes -> Frames \cup {"none"}]
      /\ drain'[d] = "failing" /\ OnlyMoves(d)
  BY <1>1, <1>2 DEF OnlyMoves, DuplexTypeOK, DrainStates, portalVars
<1>5. DuplexTypeOK'
  <2>1. LockInv'
    BY <1>2, StutterPreserves DEF DuplexInv
  <2> QED BY <1>1, <1>2, <1>3, <1>4, <2>1 DEF DuplexTypeOK, LockInv, portalVars
<1>6. DuplexOK(d)'
  <2>1. ~Executing(d)
    BY <1>2, ExecutingFact, CallFacts DEF Resting
  <2>2. ~Executing(d)'
    BY <1>2, <2>1 DEF Executing
  <2> QED BY <1>1, <1>2, <1>4, <2>2 DEF DuplexOK, StreamOK, ClaimOK, RollbackOK, RecoveryOK,
          Resting, Serving, inTransaction, lockVars, portalVars
<1>7. Gone(d) => Gone(d)'
  BY <1>2, <1>4 DEF Gone
<1> QED BY <1>2, <1>4, <1>5, <1>6, <1>7, QuietStep DEF portalVars

\* A client half-closes its stream.
LEMMA EndKeeps ==
    ASSUME DuplexInv, NEW d \in Duplexes, End(d), recovery[d] = "none"
    PROVE  DuplexInv' /\ OutsidersKeep
<1>1. DuplexTypeOK /\ StreamOK(d) /\ ClaimOK(d) /\ RollbackOK(d) /\ RecoveryOK(d)
  BY DEF DuplexInv, DuplexOK
<1>2. /\ final[d] = "no" /\ final' = [final EXCEPT ![d] = "ended"]
      /\ UNCHANGED <<lockVars, pgliteVars, phase, tornDown, closed, input, buffered, drain, op,
                     portalVars>>
  BY DEF End
<1>3. /\ final' \in [Duplexes -> {"no", "ended", "pending", "done"}]
      /\ final'[d] = "ended" /\ OnlyMoves(d)
  BY <1>1, <1>2 DEF OnlyMoves, DuplexTypeOK, portalVars
<1>4. DuplexTypeOK'
  <2>1. LockInv'
    BY <1>2, StutterPreserves DEF DuplexInv
  <2> QED BY <1>1, <1>2, <1>3, <2>1 DEF DuplexTypeOK, LockInv, portalVars, pgliteVars
<1>5. DuplexOK(d)'
  <2>1. Executing(d)' <=> Executing(d)
    BY <1>2 DEF Executing, pgliteVars
  <2>2. ~(Executing(d) /\ Head(mutex).job = "recovery")
    BY ExecutingFact
  <2>3. RecoveryOK(d)'
    BY <1>2, <2>1, <2>2 DEF RecoveryOK, portalVars, pgliteVars
  <2> QED BY <1>1, <1>2, <1>3, <2>1, <2>3 DEF DuplexOK, StreamOK, ClaimOK, RollbackOK, Serving,
          inTransaction, lockVars, portalVars, pgliteVars
<1>6. Gone(d) => Gone(d)'
  BY <1>2, <1>3 DEF Gone
<1> QED BY <1>2, <1>3, <1>4, <1>5, <1>6, QuietStep DEF portalVars, pgliteVars

\* The call in flight has settled: the rollback is judged.
LEMMA RollbackAfterCallKeeps ==
    ASSUME DuplexInv, NEW d \in Duplexes, RollbackAfterCall(d)
    PROVE  DuplexInv' /\ OutsidersKeep
<1>1. DuplexTypeOK /\ StreamOK(d) /\ ClaimOK(d) /\ RollbackOK(d) /\ RecoveryOK(d)
  BY DEF DuplexInv, DuplexOK
<1>2. /\ rollback[d] = "await" /\ ~Executing(d) /\ JudgeRollback(d)
      /\ UNCHANGED <<lockVars, xact, openedBy, busy, faults, streamVars,
                     lastSeen, portalSuspended, portalRecoveryRequested, recovery>>
  BY DEF RollbackAfterCall
<1>3. /\ RollbackMoves(d)
      /\ rollback' \in [Duplexes -> {"none", "await", "queued", "done"}]
      /\ \A e \in Duplexes \ {d} : rollback'[e] = rollback[e]
      /\ rollback[d] = "done" => rollback'[d] = "done"
  BY <1>2, RollbackOutcome
<1>4. OnlyMoves(d) /\ tornDown'[d]
  BY <1>1, <1>2, <1>3 DEF OnlyMoves, RollbackOK, streamVars
<1>5. LockInv' /\ OthersClaim(d) /\ owner' = owner
  BY <1>2, LockKept DEF DuplexInv, lockVars
<1>6. JobsInv' /\ SameCall /\ mutex' \in Seq(Jobs) /\ RollbackOK(d)'
  <2>1. \A j \in {"op", "recovery"} : Owes(d, j) => Owes(d, j)'
    BY <1>2 DEF Owes, streamVars
  <2> QED BY <1>2, <1>3, <1>4, <1>5, <2>1, RollbackStep
<1>7. DuplexTypeOK'
  BY <1>1, <1>2, <1>3, <1>5, <1>6 DEF DuplexTypeOK, LockInv, streamVars
<1>8. StreamOK(d)' /\ ClaimOK(d)' /\ RecoveryOK(d)'
  <2>1. ~Executing(d)'
    BY <1>2, <1>6 DEF SameCall, Executing
  <2> QED BY <1>1, <1>2, <1>3, <2>1
          DEF StreamOK, ClaimOK, RecoveryOK, Serving, Resting, Spent, streamVars, lockVars
<1>9. XactInv'
  <2>1. Gone(d) => Gone(d)'
    BY <1>2 DEF Gone, streamVars
  <2> QED BY <1>2, <1>4, <1>5, <2>1, XactKept
<1> QED BY <1>4, <1>5, <1>6, <1>7, <1>8, <1>9, StepOf DEF DuplexOK

\* A terminated stream lets the session go once its transaction is over.
LEMMA TerminateDoneKeeps ==
    ASSUME DuplexInv, NEW d \in Duplexes, TerminateDone(d)
    PROVE  DuplexInv' /\ OutsidersKeep
<1>1. DuplexTypeOK /\ StreamOK(d) /\ ClaimOK(d) /\ RollbackOK(d) /\ RecoveryOK(d)
  BY DEF DuplexInv, DuplexOK
<1>2. /\ drain[d] = "terminating" /\ rollback[d] = "done"
      /\ drain' = [drain EXCEPT ![d] = "loop"] /\ release(d)
      /\ UNCHANGED <<pgliteVars, phase, tornDown, closed, final, input, buffered, op, portalVars>>
  BY DEF TerminateDone
<1>3. /\ drain' \in [Duplexes -> DrainStates] /\ drain'[d] = "loop" /\ OnlyMoves(d)
  BY <1>1, <1>2 DEF OnlyMoves, DuplexTypeOK, DrainStates, portalVars
<1>4. /\ LockInv' /\ OthersClaim(d)
      /\ owner' # d /\ acquired'[d] = acquired[d] /\ (In(waitQueue', d) => In(waitQueue, d))
  BY <1>2, ReleaseStep, DuplexAssumption DEF DuplexInv
<1>5. JobsInv' /\ SameCall
  <2>1. \A j \in JobKinds : Owes(d, j) => Owes(d, j)'
    BY <1>2, <1>3 DEF Owes, streamVars, portalVars
  <2> QED BY <1>2, <1>3, <2>1, MutexKept DEF pgliteVars
<1>6. DuplexTypeOK'
  BY <1>1, <1>2, <1>3, <1>4 DEF DuplexTypeOK, LockInv, pgliteVars, portalVars
<1>7. phase[d] = "terminated" /\ ~inTransaction(d)
  BY <1>1, <1>2 DEF StreamOK, RollbackOK
<1>8. StreamOK(d)'
  BY <1>1, <1>2, <1>3 DEF StreamOK, Serving, portalVars
<1>9. ClaimOK(d)'
  BY <1>1, <1>2, <1>3, <1>4 DEF ClaimOK, Serving, portalVars
<1>10. RollbackOK(d)' /\ RecoveryOK(d)'
  <2>1. ~Executing(d)
    BY <1>2, <1>7, CallFacts
  <2>2. ~Executing(d)'
    BY <1>5, <2>1 DEF SameCall, Executing
  <2> QED BY <1>1, <1>2, <1>7, <2>2
          DEF RollbackOK, RecoveryOK, Resting, inTransaction, pgliteVars, portalVars
<1>11. XactInv'
  <2>1. Gone(d)'
    BY <1>2, <1>3, <1>7 DEF Gone
  <2> QED BY <1>2, <1>3, <1>4, <1>7, <2>1, XactKept DEF pgliteVars, portalVars
<1> QED BY <1>3, <1>4, <1>5, <1>6, <1>8, <1>9, <1>10, <1>11, StepOf DEF DuplexOK

\* A stream that ended lets the session go as well.
LEMMA FinalDoneKeeps ==
    ASSUME DuplexInv, NEW d \in Duplexes, FinalDone(d)
    PROVE  DuplexInv' /\ OutsidersKeep
<1>1. DuplexTypeOK /\ StreamOK(d) /\ ClaimOK(d) /\ RollbackOK(d) /\ RecoveryOK(d)
  BY DEF DuplexInv, DuplexOK
<1>2. /\ final[d] = "pending" /\ rollback[d] = "done"
      /\ final' = [final EXCEPT ![d] = "done"]
      /\ UNCHANGED <<pgliteVars, phase, tornDown, closed, input, buffered, drain, op, portalVars>>
  BY DEF FinalDone
<1>3. /\ final' \in [Duplexes -> {"no", "ended", "pending", "done"}]
      /\ final'[d] = "done" /\ OnlyMoves(d)
  BY <1>1, <1>2 DEF OnlyMoves, DuplexTypeOK, portalVars
<1>4. /\ LockInv' /\ OthersClaim(d)
      /\ owner = d \/ owner' # d
      /\ acquired'[d] = acquired[d] /\ (In(waitQueue', d) => In(waitQueue, d))
  <2>1. CASE phase[d] # "terminated"
    <3>1. release(d)
      BY <2>1 DEF FinalDone
    <3> QED BY <3>1, ReleaseStep, DuplexAssumption DEF DuplexInv
  <2>2. CASE phase[d] = "terminated"
    <3>1. UNCHANGED lockVars
      BY <2>2 DEF FinalDone
    <3> QED BY <3>1, LockKept DEF DuplexInv, lockVars
  <2> QED BY <2>1, <2>2
<1>5. JobsInv' /\ SameCall
  <2>1. \A j \in JobKinds : Owes(d, j) => Owes(d, j)'
    BY <1>2, <1>3 DEF Owes, streamVars, portalVars
  <2> QED BY <1>2, <1>3, <2>1, MutexKept DEF pgliteVars
<1>6. DuplexTypeOK'
  BY <1>1, <1>2, <1>3, <1>4 DEF DuplexTypeOK, LockInv, pgliteVars, portalVars
<1>7. drain[d] = "idle" /\ ~inTransaction(d)
  BY <1>1, <1>2 DEF StreamOK, RollbackOK
<1>8. StreamOK(d)'
  BY <1>1, <1>2, <1>3, <1>7 DEF StreamOK, Serving, portalVars
<1>9. ClaimOK(d)'
  BY <1>1, <1>2, <1>3, <1>4, <1>7 DEF ClaimOK, Serving, portalVars
<1>10. RollbackOK(d)' /\ RecoveryOK(d)'
  <2>1. ~Executing(d)
    BY <1>2, CallFacts
  <2>2. ~Executing(d)'
    BY <1>5, <2>1 DEF SameCall, Executing
  <2> QED BY <1>1, <1>2, <1>3, <1>7, <2>2
          DEF RollbackOK, RecoveryOK, Resting, inTransaction, pgliteVars, portalVars
<1>11. XactInv'
  <2>1. Gone(d)'
    BY <1>3 DEF Gone
  <2> QED BY <1>2, <1>3, <1>4, <1>7, <2>1, XactKept DEF pgliteVars, portalVars
<1> QED BY <1>3, <1>4, <1>5, <1>6, <1>8, <1>9, <1>10, <1>11, StepOf DEF DuplexOK

\* A destroyed duplex gives up the session and its place in the queue.
LEMMA DestroyDoneKeeps ==
    ASSUME DuplexInv, NEW d \in Duplexes, DestroyDone(d)
    PROVE  DuplexInv' /\ OutsidersKeep
<1>1. DuplexTypeOK /\ StreamOK(d) /\ ClaimOK(d) /\ RollbackOK(d) /\ RecoveryOK(d)
  BY DEF DuplexInv, DuplexOK
<1>2. /\ tornDown[d] /\ rollback[d] = "done" /\ cancel(d)
      /\ closed' = [closed EXCEPT ![d] = TRUE]
      /\ UNCHANGED <<pgliteVars, phase, tornDown, final, input, buffered, drain, op, portalVars>>
  BY DEF DestroyDone
<1>3. closed' \in [Duplexes -> BOOLEAN] /\ closed'[d] /\ OnlyMoves(d)
  BY <1>1, <1>2 DEF OnlyMoves, DuplexTypeOK, portalVars
<1>4. /\ LockInv' /\ OthersClaim(d)
      /\ owner' # d /\ ~In(waitQueue', d)
      /\ acquired'[d] = IF acquired[d] = "waiting" THEN "rejected" ELSE acquired[d]
  BY <1>2, CancelStep, DuplexAssumption DEF DuplexInv
<1>5. JobsInv' /\ SameCall
  <2>1. \A j \in JobKinds : Owes(d, j) => Owes(d, j)'
    BY <1>2, <1>3 DEF Owes, streamVars, portalVars
  <2> QED BY <1>2, <1>3, <2>1, MutexKept DEF pgliteVars
<1>6. DuplexTypeOK'
  BY <1>1, <1>2, <1>3, <1>4 DEF DuplexTypeOK, LockInv, pgliteVars, portalVars
<1>7. ~inTransaction(d)
  BY <1>1, <1>2 DEF RollbackOK
<1>8. StreamOK(d)'
  BY <1>1, <1>2 DEF StreamOK, Serving, portalVars
<1>9. ClaimOK(d)'
  BY <1>2, <1>3, <1>4 DEF ClaimOK, Serving, portalVars
<1>10. RollbackOK(d)' /\ RecoveryOK(d)'
  <2>1. ~Executing(d)
    BY <1>2, CallFacts
  <2>2. ~Executing(d)'
    BY <1>5, <2>1 DEF SameCall, Executing
  <2> QED BY <1>1, <1>2, <1>7, <2>2
          DEF RollbackOK, RecoveryOK, inTransaction, pgliteVars, portalVars
<1>11. XactInv'
  <2>1. Gone(d)'
    BY <1>3 DEF Gone
  <2> QED BY <1>2, <1>3, <1>4, <1>7, <2>1, XactKept DEF pgliteVars, portalVars
<1> QED BY <1>3, <1>4, <1>5, <1>6, <1>8, <1>9, <1>10, <1>11, StepOf DEF DuplexOK

\* _final asks for the rollback once the drain is idle.
LEMMA FinalKeeps ==
    ASSUME DuplexInv, NEW d \in Duplexes, Final(d)
    PROVE  DuplexInv' /\ OutsidersKeep
<1>1. DuplexTypeOK /\ StreamOK(d) /\ ClaimOK(d) /\ RollbackOK(d) /\ RecoveryOK(d)
  BY DEF DuplexInv, DuplexOK
<1>2. /\ final[d] = "ended" /\ ~tornDown[d] /\ drain[d] = "idle"
      /\ final' = [final EXCEPT ![d] = "pending"] /\ rollbackIfInTransaction(d)
      /\ UNCHANGED <<lockVars, xact, openedBy, busy, faults, phase, tornDown, closed, input,
                     buffered, drain, op,
                     lastSeen, portalSuspended, portalRecoveryRequested, recovery>>
  BY DEF Final, Draining
<1>3. /\ RollbackMoves(d)
      /\ rollback' \in [Duplexes -> {"none", "await", "queued", "done"}]
      /\ \A e \in Duplexes \ {d} : rollback'[e] = rollback[e]
      /\ rollback[d] = "done" => rollback'[d] = "done"
  BY <1>2, RollbackOutcome
<1>4. /\ final' \in [Duplexes -> {"no", "ended", "pending", "done"}]
      /\ final'[d] = "pending" /\ OnlyMoves(d)
  BY <1>1, <1>2, <1>3 DEF OnlyMoves, DuplexTypeOK
<1>5. LockInv' /\ OthersClaim(d) /\ owner' = owner
  BY <1>2, LockKept DEF DuplexInv, lockVars
<1>6. ~Executing(d)
  BY <1>2, CallFacts, ExecutingFact DEF Resting
<1>7. rollback'[d] # "await"
  BY <1>1, <1>2, <1>3, <1>6 DEF RollbackMoves, RollbackOK, DuplexTypeOK
<1>8. JobsInv' /\ SameCall /\ mutex' \in Seq(Jobs) /\ RollbackOK(d)'
  <2>1. \A j \in {"op", "recovery"} : Owes(d, j) => Owes(d, j)'
    BY <1>2 DEF Owes
  <2> QED BY <1>2, <1>3, <1>4, <1>5, <1>7, <2>1, RollbackStep
<1>9. DuplexTypeOK'
  BY <1>1, <1>2, <1>3, <1>4, <1>5, <1>8 DEF DuplexTypeOK, LockInv
<1>10. StreamOK(d)' /\ ClaimOK(d)' /\ RecoveryOK(d)'
  <2>1. ~Executing(d)'
    BY <1>6, <1>8 DEF SameCall, Executing
  <2> QED BY <1>1, <1>2, <1>3, <1>4, <2>1
          DEF StreamOK, ClaimOK, RecoveryOK, Serving, Resting, lockVars
<1>11. XactInv'
  <2>1. Gone(d) => Gone(d)'
    BY <1>2, <1>4 DEF Gone
  <2> QED BY <1>2, <1>4, <1>5, <2>1, XactKept
<1> QED BY <1>4, <1>5, <1>8, <1>9, <1>10, <1>11, StepOf DEF DuplexOK

\* A duplex is torn down: by its client, or because its drain or its recovery
\* failed.  A recovery that was asked for in the same step is dropped later.
LEMMA TearDown ==
    ASSUME DuplexInv, NEW d \in Duplexes, ~tornDown[d], destroy(d), OnlyMoves(d),
           drain'[d] = drain[d] \/ (drain[d] = "failing" /\ drain'[d] = "idle"),
           drain' \in [Duplexes -> DrainStates],
           portalSuspended' \in [Duplexes -> BOOLEAN],
           portalRecoveryRequested' \in [Duplexes -> BOOLEAN],
           recovery' \in [Duplexes -> {"none", "entering", "queued", "failed"}],
           recovery[d] = "queued" => recovery'[d] = "queued",
           UNCHANGED <<lockVars, xact, openedBy, busy, faults, phase, closed, final, op, lastSeen>>
    PROVE  DuplexInv' /\ OutsidersKeep
<1>1. DuplexTypeOK /\ StreamOK(d) /\ ClaimOK(d) /\ RollbackOK(d) /\ RecoveryOK(d)
  BY DEF DuplexInv, DuplexOK
<1>2. /\ tornDown' = [tornDown EXCEPT ![d] = TRUE]
      /\ input' = [input EXCEPT ![d] = <<>>] /\ buffered' = [buffered EXCEPT ![d] = <<>>]
      /\ rollbackIfInTransaction(d)
  BY DEF destroy
<1>3. /\ tornDown'[d] /\ input'[d] = <<>> /\ buffered'[d] = <<>>
      /\ tornDown' \in [Duplexes -> BOOLEAN]
      /\ input' \in [Duplexes -> Seq(Frames \cup {"terminate"})]
      /\ buffered' \in [Duplexes -> Seq(Frames \cup {"terminate"})]
  BY <1>1, <1>2 DEF DuplexTypeOK
<1>4. /\ RollbackMoves(d)
      /\ rollback' \in [Duplexes -> {"none", "await", "queued", "done"}]
      /\ rollback[d] = "done" => rollback'[d] = "done"
  BY <1>2, RollbackOutcome
<1>5. LockInv' /\ OthersClaim(d) /\ owner' = owner
  BY LockKept DEF DuplexInv, lockVars
<1>6. JobsInv' /\ SameCall /\ mutex' \in Seq(Jobs) /\ RollbackOK(d)'
  <2>1. \A j \in {"op", "recovery"} : Owes(d, j) => Owes(d, j)'
    BY DEF Owes
  <2> QED BY <1>3, <1>4, <1>5, <2>1, RollbackStep
<1>7. DuplexTypeOK'
  BY <1>1, <1>3, <1>4, <1>5, <1>6 DEF DuplexTypeOK, LockInv
<1>8. StreamOK(d)'
  BY <1>1, <1>3 DEF StreamOK, Serving
<1>9. ClaimOK(d)'
  BY <1>1, <1>3, <1>4 DEF ClaimOK, Serving, lockVars
<1>10. RecoveryOK(d)'
  <2>1. Executing(d)' => Executing(d) /\ Head(mutex') = Head(mutex)
    BY <1>6 DEF SameCall, Executing
  <2> QED BY <1>1, <1>3, <1>5, <2>1 DEF RecoveryOK, Resting
<1>11. XactInv'
  <2>1. Gone(d) => Gone(d)'
    BY DEF Gone
  <2> QED BY <1>5, <2>1, XactKept
<1> QED BY <1>5, <1>6, <1>7, <1>8, <1>9, <1>10, <1>11, StepOf DEF DuplexOK

\* Whom destroy() moves.
LEMMA DestroyMoves ==
    ASSUME DuplexInv, NEW d \in Duplexes, destroy(d)
    PROVE  \A e \in Duplexes \ {d} : /\ tornDown'[e] = tornDown[e] /\ rollback'[e] = rollback[e]
                                      /\ input'[e] = input[e] /\ buffered'[e] = buffered[e]
<1>1. DuplexTypeOK
  BY DEF DuplexInv
<1>2. CASE ~tornDown[d]
  <2>1. rollbackIfInTransaction(d)
    BY <1>2 DEF destroy
  <2>2. \A e \in Duplexes \ {d} : rollback'[e] = rollback[e]
    BY <2>1, RollbackOutcome
  <2> QED BY <1>1, <1>2, <2>2 DEF destroy, DuplexTypeOK
<1>3. CASE tornDown[d]
  BY <1>3 DEF destroy
<1> QED BY <1>2, <1>3

\* A client drops its stream.
LEMMA DestroyKeeps ==
    ASSUME DuplexInv, NEW d \in Duplexes, Destroy(d)
    PROVE  DuplexInv' /\ OutsidersKeep
<1>1. DuplexTypeOK
  BY DEF DuplexInv
<1>2. /\ ~tornDown[d] /\ destroy(d)
      /\ UNCHANGED <<lockVars, xact, openedBy, busy, faults, phase, closed, final, drain, op,
                     lastSeen, portalSuspended, portalRecoveryRequested, recovery>>
  BY DEF Destroy
<1>3. OnlyMoves(d)
  BY <1>2, DestroyMoves DEF OnlyMoves
<1> QED BY <1>1, <1>2, <1>3, TearDown DEF DuplexTypeOK

\* A step that only forgets what a duplex is asked to recover, or that a drain or a
\* recovery of it failed.
LEMMA ForgetKeeps ==
    ASSUME DuplexInv, NEW d \in Duplexes, tornDown[d] \/ phase[d] = "terminated",
           UNCHANGED <<lockVars, pgliteVars, lastSeen, rollback, phase, tornDown, closed, final,
                       input, buffered, op>>,
           drain'[d] = drain[d] \/ (drain[d] = "failing" /\ drain'[d] = "idle"),
           \A e \in Duplexes \ {d} : drain'[e] = drain[e] /\ recovery'[e] = recovery[e],
           drain' \in [Duplexes -> DrainStates],
           portalSuspended' \in [Duplexes -> BOOLEAN],
           portalRecoveryRequested' \in [Duplexes -> BOOLEAN],
           recovery' \in [Duplexes -> {"none", "entering", "queued", "failed"}],
           recovery[d] = "queued" => recovery'[d] = "queued",
           phase[d] = "terminated" => recovery'[d] \in {"none", recovery[d]}
    PROVE  DuplexInv' /\ OutsidersKeep
<1> USE DEF pgliteVars
<1>1. DuplexTypeOK /\ StreamOK(d) /\ ClaimOK(d) /\ RollbackOK(d) /\ RecoveryOK(d)
  BY DEF DuplexInv, DuplexOK
<1>2. OnlyMoves(d)
  BY DEF OnlyMoves
<1>3. DuplexTypeOK'
  <2>1. LockInv'
    BY StutterPreserves DEF DuplexInv
  <2> QED BY <1>1, <2>1 DEF DuplexTypeOK, LockInv
<1>4. Executing(d)' <=> Executing(d)
  BY DEF Executing
<1>5. StreamOK(d)' /\ ClaimOK(d)' /\ RollbackOK(d)'
  BY <1>1, <1>4 DEF StreamOK, ClaimOK, RollbackOK, Serving, inTransaction, lockVars
<1>6. RecoveryOK(d)'
  BY <1>1, <1>4 DEF RecoveryOK, Resting, Spent, lockVars
<1>7. Gone(d) => Gone(d)'
  BY DEF Gone
<1> QED BY <1>2, <1>3, <1>5, <1>6, <1>7, QuietStep DEF DuplexOK

\* A failed drain takes its duplex down, unless that has happened already.
LEMMA DrainFailedKeeps ==
    ASSUME DuplexInv, NEW d \in Duplexes, DrainFailed(d)
    PROVE  DuplexInv' /\ OutsidersKeep
<1>1. DuplexTypeOK
  BY DEF DuplexInv
<1>2. /\ drain[d] = "failing" /\ drain' = [drain EXCEPT ![d] = "idle"]
      /\ portalRecoveryRequested' = [portalRecoveryRequested EXCEPT ![d] = FALSE]
      /\ destroy(d)
      /\ UNCHANGED <<lockVars, xact, openedBy, busy, faults, phase, closed, final, op,
                     lastSeen, portalSuspended, recovery>>
  BY DEF DrainFailed
<1>3. /\ drain'[d] = "idle" /\ drain' \in [Duplexes -> DrainStates]
      /\ portalRecoveryRequested' \in [Duplexes -> BOOLEAN]
      /\ \A e \in Duplexes \ {d} : drain'[e] = drain[e]
  BY <1>1, <1>2 DEF DuplexTypeOK, DrainStates
<1>4. CASE ~tornDown[d]
  <2>1. OnlyMoves(d)
    BY <1>2, <1>3, DestroyMoves DEF OnlyMoves
  <2> QED BY <1>1, <1>2, <1>3, <1>4, <2>1, TearDown DEF DuplexTypeOK
<1>5. CASE tornDown[d]
  <2>1. UNCHANGED <<tornDown, input, buffered, rollback, mutex>>
    BY <1>2, <1>5 DEF destroy
  <2> QED BY <1>1, <1>2, <1>3, <1>5, <2>1, ForgetKeeps DEF DuplexTypeOK, pgliteVars
<1> QED BY <1>4, <1>5

\* So does a failed recovery, unless its stream is terminated anyway.
LEMMA RecoveryFailedKeeps ==
    ASSUME DuplexInv, NEW d \in Duplexes, RecoveryFailed(d)
    PROVE  DuplexInv' /\ OutsidersKeep
<1>1. DuplexTypeOK
  BY DEF DuplexInv
<1>2. /\ recovery[d] = "failed" /\ recovery' = [recovery EXCEPT ![d] = "none"]
      /\ UNCHANGED <<lockVars, xact, openedBy, busy, faults, phase, closed, final, drain, op,
                     lastSeen, portalSuspended, portalRecoveryRequested>>
  BY DEF RecoveryFailed
<1>3. /\ recovery'[d] = "none"
      /\ recovery' \in [Duplexes -> {"none", "entering", "queued", "failed"}]
      /\ \A e \in Duplexes \ {d} : recovery'[e] = recovery[e]
  BY <1>1, <1>2 DEF DuplexTypeOK
<1>4. CASE phase[d] # "terminated" /\ ~tornDown[d]
  <2>1. destroy(d)
    BY <1>4 DEF RecoveryFailed
  <2>2. OnlyMoves(d)
    BY <1>2, <1>3, <2>1, DestroyMoves DEF OnlyMoves
  <2> QED BY <1>1, <1>2, <1>3, <1>4, <2>1, <2>2, TearDown DEF DuplexTypeOK
<1>5. CASE phase[d] = "terminated" \/ tornDown[d]
  <2>1. UNCHANGED <<tornDown, input, buffered, rollback, mutex>>
    BY <1>5 DEF RecoveryFailed, destroy
  <2> QED BY <1>1, <1>2, <1>3, <1>5, <2>1, ForgetKeeps DEF DuplexTypeOK, pgliteVars
<1> QED BY <1>4, <1>5

\* The recovery Sync queues on PGlite's mutex.
LEMMA EnterRecoveryKeeps ==
    ASSUME DuplexInv, NEW d \in Duplexes, EnterRecovery(d)
    PROVE  DuplexInv' /\ OutsidersKeep
<1>1. DuplexTypeOK /\ StreamOK(d) /\ ClaimOK(d) /\ RollbackOK(d) /\ RecoveryOK(d)
  BY DEF DuplexInv, DuplexOK
<1>2. /\ recovery[d] = "entering" /\ Enqueue(d, "recovery")
      /\ recovery' = [recovery EXCEPT ![d] = "queued"]
      /\ UNCHANGED <<lockVars, xact, openedBy, busy, faults, streamVars,
                     lastSeen, portalSuspended, portalRecoveryRequested, rollback>>
  BY DEF EnterRecovery
<1>3. /\ recovery'[d] = "queued" /\ OnlyMoves(d)
      /\ recovery' \in [Duplexes -> {"none", "entering", "queued", "failed"}]
  BY <1>1, <1>2 DEF OnlyMoves, DuplexTypeOK, streamVars
<1>4. LockInv' /\ OthersClaim(d) /\ owner' = owner
  BY <1>2, LockKept DEF DuplexInv, lockVars
<1>5. JobsInv' /\ SameCall /\ mutex' \in Seq(Jobs)
  <2>1. /\ "recovery" \in JobKinds /\ ~Owes(d, "recovery") /\ Owes(d, "recovery")'
        /\ \A j \in JobKinds : Owes(d, j) => Owes(d, j)'
    BY <1>2, <1>3 DEF JobKinds, Owes, streamVars
  <2> QED BY <1>2, <1>3, <2>1, MutexTakes
<1>6. DuplexTypeOK'
  BY <1>1, <1>2, <1>3, <1>4, <1>5 DEF DuplexTypeOK, LockInv, streamVars
<1>7. Executing(d)' => Executing(d) /\ Head(mutex') = Head(mutex)
  BY <1>5 DEF SameCall, Executing
<1>8. StreamOK(d)' /\ ClaimOK(d)' /\ RollbackOK(d)'
  BY <1>1, <1>2, <1>7 DEF StreamOK, ClaimOK, RollbackOK, Serving, inTransaction, streamVars,
                          lockVars
<1>9. RecoveryOK(d)'
  BY <1>1, <1>2, <1>3, <1>4, <1>7 DEF RecoveryOK, Resting, Spent, streamVars
<1>10. XactInv'
  <2>1. Gone(d) => Gone(d)'
    BY <1>2 DEF Gone, streamVars
  <2> QED BY <1>2, <1>3, <1>4, <2>1, XactKept
<1> QED BY <1>3, <1>4, <1>5, <1>6, <1>8, <1>9, <1>10, StepOf DEF DuplexOK

-----------------------------------------------------------------------------
(* The session's transaction. *)

\* Only the owner's own transaction, or the portal of a duplex that is gone, can be
\* open while PGlite executes the owner's frame.
LEMMA OwnersTransaction ==
    ASSUME DuplexInv, NEW d \in Duplexes, owner = d
    PROVE  /\ \A e \in Duplexes \ {d} : ~inTransaction(e)
           /\ xact = "idle" <=> openedBy = NoOwner
           /\ xact \in {"block", "failed"} => openedBy = d /\ inTransaction(d)
           /\ xact = "implicit" => openedBy = d \/ Gone(openedBy)
           /\ openedBy \in Duplexes \cup {NoOwner}
           /\ xact \in {"idle", "implicit", "block", "failed"}
<1>1. /\ xact = "idle" <=> openedBy = NoOwner
      /\ xact \in {"block", "failed"} => inTransaction(openedBy)
      /\ xact = "implicit" => Gone(openedBy) \/ owner = openedBy
      /\ \A e \in Duplexes : inTransaction(e) => owner = e
      /\ openedBy \in Duplexes \cup {NoOwner}
      /\ xact \in {"idle", "implicit", "block", "failed"}
  BY DEF DuplexInv, XactInv, DuplexTypeOK
<1>2. \A e \in Duplexes \ {d} : ~inTransaction(e)
  BY <1>1
<1>3. xact \in {"block", "failed"} => openedBy = d /\ inTransaction(d)
  BY <1>1
<1> QED BY <1>1, <1>2, <1>3

\* Where a frame can take the session from where it is.
Reaches(frame, x) ==
    \/ frame # "flush" /\ x \in After(frame, xact)
    \/ frame = "flush" /\ x \in {AfterFlush(xact), AfterError(xact)}

\* A transaction that is open after the owner's frame is the owner's, or still the
\* portal of a duplex that is gone.
LEMMA OpenerFact ==
    ASSUME DuplexInv, NEW d \in Duplexes, owner = d, NEW frame \in Frames, NEW x,
           Reaches(frame, x)
    PROVE  /\ x \in {"idle", "implicit", "block", "failed"}
           /\ x = "idle" => OpenerAfter(d, frame, x) = NoOwner
           /\ x # "idle" => \/ OpenerAfter(d, frame, x) = d
                            \/ /\ x = "implicit" /\ OpenerAfter(d, frame, x) = openedBy
                               /\ openedBy \in Duplexes \ {d} /\ Gone(openedBy)
<1>1. /\ xact = "idle" <=> openedBy = NoOwner
      /\ xact \in {"block", "failed"} => openedBy = d
      /\ xact = "implicit" => openedBy = d \/ Gone(openedBy)
      /\ openedBy \in Duplexes \cup {NoOwner}
      /\ xact \in {"idle", "implicit", "block", "failed"}
  BY OwnersTransaction
<1>2. /\ x \in {"idle", "implicit", "block", "failed"}
      /\ x \in {"block", "failed"} =>
            xact \in {"block", "failed"} \/ (frame = "begin" /\ x = "block")
  <2>1. CASE frame = "query"
    BY <1>1, <2>1 DEF Reaches, After
  <2>2. CASE frame = "begin"
    BY <1>1, <2>2 DEF Reaches, After
  <2>3. CASE frame = "end"
    BY <1>1, <2>3 DEF Reaches, After
  <2>4. CASE frame = "sync"
    BY <1>1, <2>4 DEF Reaches, After
  <2>5. CASE frame = "flush"
    BY <1>1, <2>5 DEF Reaches, AfterFlush, AfterError
  <2> QED BY <2>1, <2>2, <2>3, <2>4, <2>5 DEF Frames
<1>3. OpenerAfter(d, frame, x) = IF x = "idle" THEN NoOwner
                                 ELSE IF xact = "idle" \/ (frame = "begin" /\ x = "block") THEN d
                                 ELSE openedBy
  BY DEF OpenerAfter
<1> QED BY <1>1, <1>2, <1>3

\* An answered frame leaves the session's transaction with an owner that knows it.
LEMMA AnsweredKeeps ==
    ASSUME DuplexInv, NEW d \in Duplexes, owner = d, phase[d] = "ready",
           NEW frame \in Frames, NEW x, Reaches(frame, x), Answered(d, frame, x), OnlyMoves(d)
    PROVE  /\ LockInv' /\ OthersClaim(d) /\ XactInv'
           /\ xact' \in {"idle", "implicit", "block", "failed"}
           /\ openedBy' \in Duplexes \cup {NoOwner}
           /\ lastSeen' \in [Duplexes -> Statuses] /\ portalSuspended' \in [Duplexes -> BOOLEAN]
<1> USE DuplexAssumption
<1>1. /\ xact' = x /\ openedBy' = OpenerAfter(d, frame, x)
      /\ lastSeen' = [lastSeen EXCEPT ![d] = StatusOf(x)]
      /\ portalSuspended' = [portalSuspended EXCEPT ![d] = FALSE]
      /\ updateStatus(d, StatusOf(x))
  BY DEF Answered, onReadyForQuery
<1>2. /\ x \in {"idle", "implicit", "block", "failed"}
      /\ x = "idle" => OpenerAfter(d, frame, x) = NoOwner
      /\ x # "idle" => \/ OpenerAfter(d, frame, x) = d
                       \/ /\ x = "implicit" /\ OpenerAfter(d, frame, x) = openedBy
                          /\ openedBy \in Duplexes \ {d} /\ Gone(openedBy)
  BY OpenerFact
<1>3. /\ x = "idle" => StatusOf(x) = "I"
      /\ x # "idle" => StatusOf(x) \in {"T", "E"}
  BY <1>2 DEF StatusOf
<1>4. /\ lastSeen' \in [Duplexes -> Statuses] /\ portalSuspended' \in [Duplexes -> BOOLEAN]
      /\ lastSeen'[d] = StatusOf(x)
  BY <1>1, <1>2, <1>3 DEF DuplexInv, DuplexTypeOK, Statuses
<1>5. LockInv' /\ OthersClaim(d) /\ (x # "idle" => owner' = d)
  <2>1. CASE x = "idle"
    <3>1. release(d)
      BY <1>1, <1>3, <2>1 DEF updateStatus, release
    <3> QED BY <2>1, <3>1, ReleaseStep DEF DuplexInv
  <2>2. CASE x # "idle"
    <3>1. UNCHANGED lockVars
      BY <1>1, <1>3, <2>2 DEF updateStatus
    <3> QED BY <3>1, LockKept DEF DuplexInv, lockVars
  <2> QED BY <2>1, <2>2
<1>6. \A e \in Duplexes : inTransaction(e)' => e = d /\ x # "idle"
  <2>1. \A e \in Duplexes \ {d} : ~inTransaction(e)'
    BY OwnersTransaction DEF inTransaction, OnlyMoves
  <2>2. inTransaction(d)' => x # "idle"
    BY <1>3, <1>4 DEF inTransaction
  <2> QED BY <2>1, <2>2
<1>7. x # "idle" => inTransaction(d)'
  BY <1>3, <1>4 DEF inTransaction
<1>8. \A e \in Duplexes \ {d} : Gone(e) => Gone(e)'
  BY DEF OnlyMoves, Gone
<1>9. XactInv'
  <2>1. xact' = "idle" <=> openedBy' = NoOwner
    BY <1>1, <1>2, NoOwnerAssumption
  <2>2. xact' \in {"block", "failed"} => inTransaction(openedBy)'
    <3>1. xact' \in {"block", "failed"} => openedBy' = d
      BY <1>1, <1>2
    <3> QED BY <1>1, <1>7, <3>1 DEF inTransaction
  <2>3. xact' = "implicit" => Gone(openedBy)' \/ owner' = openedBy'
    <3>1. CASE openedBy' = d
      BY <1>1, <1>5, <3>1
    <3>2. ASSUME openedBy' = openedBy, openedBy \in Duplexes \ {d}, Gone(openedBy)
          PROVE  Gone(openedBy)'
      BY <3>2, <1>8 DEF Gone, OnlyMoves
    <3> QED BY <1>1, <1>2, <3>1, <3>2
  <2> QED BY <1>5, <1>6, <2>1, <2>2, <2>3 DEF XactInv
<1>10. openedBy' \in Duplexes \cup {NoOwner}
  BY <1>1, <1>2
<1> QED BY <1>1, <1>2, <1>4, <1>5, <1>9, <1>10

\* A frame runs to the end of its response.
LEMMA ProtocolKeeps ==
    ASSUME DuplexInv, NEW d \in Duplexes, owner = d, phase[d] = "ready",
           NEW frame \in Frames, streamProtocol(d, frame), OnlyMoves(d)
    PROVE  /\ LockInv' /\ OthersClaim(d) /\ XactInv'
           /\ xact' \in {"idle", "implicit", "block", "failed"}
           /\ openedBy' \in Duplexes \cup {NoOwner}
           /\ lastSeen' \in [Duplexes -> Statuses] /\ portalSuspended' \in [Duplexes -> BOOLEAN]
<1> USE DuplexAssumption
<1>0. \A e \in Duplexes \ {d} : Gone(e) => Gone(e)'
  BY DEF OnlyMoves, Gone
<1>1. ASSUME NEW x, Reaches(frame, x), Answered(d, frame, x)
      PROVE  /\ LockInv' /\ OthersClaim(d) /\ XactInv'
             /\ xact' \in {"idle", "implicit", "block", "failed"}
             /\ openedBy' \in Duplexes \cup {NoOwner}
             /\ lastSeen' \in [Duplexes -> Statuses] /\ portalSuspended' \in [Duplexes -> BOOLEAN]
  BY <1>1, AnsweredKeeps
<1>2. CASE frame # "flush" /\ \E x \in After(frame, xact) : Answered(d, frame, x)
  <2>1. PICK x \in After(frame, xact) : Answered(d, frame, x)
    BY <1>2
  <2>2. Reaches(frame, x)
    BY <1>2 DEF Reaches
  <2> QED BY <1>1, <2>1, <2>2
<1>3. CASE frame = "flush" /\ Answered(d, "flush", AfterError(xact))
  <2>1. Reaches(frame, AfterError(xact))
    BY <1>3 DEF Reaches
  <2> QED BY <1>1, <1>3, <2>1
<1>4. CASE frame = "flush" /\ FlushSuspends(d)
  <2> DEFINE x == AfterFlush(xact)
  <2>1. /\ xact # "failed" /\ xact' = x /\ openedBy' = OpenerAfter(d, frame, x)
        /\ portalSuspended' = [portalSuspended EXCEPT ![d] = TRUE]
        /\ UNCHANGED <<lockVars, lastSeen>>
    BY <1>4 DEF FlushSuspends
  <2>2. Reaches(frame, x)
    BY <1>4 DEF Reaches
  <2>3. /\ x \in {"idle", "implicit", "block", "failed"}
        /\ x = "idle" => OpenerAfter(d, frame, x) = NoOwner
        /\ x # "idle" => \/ OpenerAfter(d, frame, x) = d
                         \/ /\ x = "implicit" /\ OpenerAfter(d, frame, x) = openedBy
                            /\ openedBy \in Duplexes \ {d} /\ Gone(openedBy)
    BY <2>2, OpenerFact
  <2>4. x \in {"block", "failed"} => inTransaction(d)
    <3>1. x \in {"block", "failed"} => xact \in {"block", "failed"}
      BY DEF AfterFlush
    <3> QED BY <3>1, OwnersTransaction
  <2> HIDE DEF x
  <2>5. LockInv' /\ OthersClaim(d) /\ owner' = owner
    BY <2>1, LockKept DEF DuplexInv, lockVars
  <2>6. XactInv'
    <3>1. xact' = "idle" <=> openedBy' = NoOwner
      BY <2>1, <2>3, NoOwnerAssumption
    <3>2. xact' \in {"block", "failed"} => inTransaction(openedBy)'
      <4>1. xact' \in {"block", "failed"} => openedBy' = d
        BY <2>1, <2>3
      <4> QED BY <2>1, <2>4, <4>1 DEF inTransaction
    <3>3. xact' = "implicit" => Gone(openedBy)' \/ owner' = openedBy'
      <4>1. CASE openedBy' = d
        BY <2>5, <4>1
      <4>2. ASSUME openedBy' = openedBy, openedBy \in Duplexes \ {d}, Gone(openedBy)
            PROVE  Gone(openedBy)'
        BY <4>2, <1>0 DEF Gone, OnlyMoves
      <4> QED BY <2>1, <2>3, <4>1, <4>2
    <3>4. \A e \in Duplexes : inTransaction(e)' => owner' = e
      BY <2>1, <2>5 DEF DuplexInv, XactInv, inTransaction
    <3> QED BY <3>1, <3>2, <3>3, <3>4 DEF XactInv
  <2> QED BY <2>1, <2>3, <2>5, <2>6 DEF DuplexInv, DuplexTypeOK
<1>5. CASE /\ frame = "flush"
           /\ xact' = AfterError(xact) /\ openedBy' = OpenerAfter(d, "flush", xact')
           /\ portalSuspended' = [portalSuspended EXCEPT ![d] = FALSE]
           /\ IF inTransaction(d) THEN UNCHANGED lockVars ELSE release(d)
           /\ UNCHANGED lastSeen
  <2> DEFINE x == AfterError(xact)
  <2>1. /\ xact' = x /\ openedBy' = OpenerAfter(d, frame, x) /\ x \in {"idle", "failed"}
        /\ x = "failed" => xact \in {"block", "failed"}
    BY <1>5 DEF AfterError
  <2>2. Reaches(frame, x)
    BY <1>5 DEF Reaches
  <2>3. /\ x = "idle" => OpenerAfter(d, frame, x) = NoOwner
        /\ x = "failed" => OpenerAfter(d, frame, x) = d
    BY <2>1, <2>2, OpenerFact
  <2>4. x = "failed" => inTransaction(d)
    BY <2>1, OwnersTransaction
  <2> HIDE DEF x
  <2>5. LockInv' /\ OthersClaim(d) /\ (inTransaction(d) => owner' = d)
    <3>1. CASE inTransaction(d)
      BY <1>5, <3>1, LockKept DEF DuplexInv, lockVars
    <3>2. CASE ~inTransaction(d)
      BY <1>5, <3>2, ReleaseStep DEF DuplexInv
    <3> QED BY <3>1, <3>2
  <2>6. XactInv'
    <3>1. xact' = "idle" <=> openedBy' = NoOwner
      BY <2>1, <2>3, NoOwnerAssumption
    <3>2. xact' \in {"block", "failed"} => inTransaction(openedBy)'
      BY <1>5, <2>1, <2>3, <2>4 DEF inTransaction
    <3>3. xact' # "implicit"
      BY <2>1
    <3>4. \A e \in Duplexes : inTransaction(e)' => owner' = e
      <4>1. \A e \in Duplexes : inTransaction(e) => e = d
        BY OwnersTransaction
      <4> QED BY <1>5, <2>5, <4>1 DEF inTransaction
    <3> QED BY <3>1, <3>2, <3>3, <3>4 DEF XactInv
  <2>7. portalSuspended' \in [Duplexes -> BOOLEAN] /\ lastSeen' \in [Duplexes -> Statuses]
    BY <1>5 DEF DuplexInv, DuplexTypeOK
  <2> QED BY <2>1, <2>3, <2>5, <2>6, <2>7
<1> QED BY <1>2, <1>3, <1>4, <1>5 DEF streamProtocol, FlushFails

-----------------------------------------------------------------------------
(* The jobs of PGlite's mutex. *)

\* A duplex whose job is dropped.
LEMMA DropKeeps ==
    ASSUME DuplexInv, NEW d \in Duplexes, NEW k \in {"op", "recovery"}, ~busy, mutex # <<>>,
           Head(mutex) = Job(d, k), Owes(d, k), tornDown[d] \/ phase[d] = "terminated",
           mutex' = Tail(mutex),
           drain' = IF k = "op" THEN [drain EXCEPT ![d] = "loop"] ELSE drain,
           op' = IF k = "op" THEN [op EXCEPT ![d] = "none"] ELSE op,
           recovery' = IF k = "recovery" THEN [recovery EXCEPT ![d] = "none"] ELSE recovery,
           UNCHANGED <<lockVars, xact, openedBy, busy, faults, phase, tornDown, closed, final,
                       input, buffered, lastSeen, portalSuspended, portalRecoveryRequested,
                       rollback>>
    PROVE  DuplexInv' /\ OutsidersKeep
<1>1. DuplexTypeOK /\ StreamOK(d) /\ ClaimOK(d) /\ RollbackOK(d) /\ RecoveryOK(d)
  BY DEF DuplexInv, DuplexOK
<1>2. /\ drain' \in [Duplexes -> DrainStates] /\ op' \in [Duplexes -> Frames \cup {"none"}]
      /\ recovery' \in [Duplexes -> {"none", "entering", "queued", "failed"}]
      /\ k = "op" => drain'[d] = "loop"
      /\ k # "op" => drain'[d] = drain[d] /\ op'[d] = op[d]
      /\ recovery'[d] = IF k = "recovery" THEN "none" ELSE recovery[d]
      /\ OnlyMoves(d)
  BY <1>1 DEF OnlyMoves, DuplexTypeOK, DrainStates
<1>3. LockInv' /\ OthersClaim(d) /\ owner' = owner
  BY LockKept DEF DuplexInv, lockVars
<1>4. JobsInv' /\ SameCall /\ mutex' \in Seq(Jobs)
  <2>1. k \in JobKinds /\ \A j \in JobKinds \ {k} : Owes(d, j) => Owes(d, j)'
    BY <1>2 DEF JobKinds, Owes
  <2> QED BY <1>2, <2>1, MutexMovesOn
<1>5. DuplexTypeOK'
  BY <1>1, <1>2, <1>3, <1>4 DEF DuplexTypeOK, LockInv
<1>6. ~Executing(d)'
  BY DEF Executing
<1>7. StreamOK(d)'
  BY <1>1, <1>2 DEF StreamOK, Serving, Owes
<1>8. ClaimOK(d)'
  BY <1>1, <1>2 DEF ClaimOK, Serving, lockVars
<1>9. RollbackOK(d)'
  BY <1>1, <1>6 DEF RollbackOK, inTransaction, lockVars
<1>10. RecoveryOK(d)'
  BY <1>1, <1>2, <1>6 DEF RecoveryOK, Resting, Spent, Owes, lockVars
<1>11. XactInv'
  <2>1. Gone(d) => Gone(d)'
    BY <1>1, <1>2 DEF Gone, StreamOK, Serving, Owes
  <2> QED BY <1>2, <1>3, <2>1, XactKept
<1> QED BY <1>2, <1>3, <1>4, <1>5, <1>7, <1>8, <1>9, <1>10, <1>11, StepOf DEF DuplexOK

\* A job starts: the duplex is open and not rolling back, or it is a ROLLBACK.
LEMMA BeginJobKeeps ==
    ASSUME DuplexInv, NEW d \in Duplexes, NEW k \in JobKinds, ~busy, mutex # <<>>,
           Head(mutex) = Job(d, k), Owes(d, k),
           k # "rollback" => ~tornDown[d] /\ phase[d] # "terminated", busy' = TRUE,
           UNCHANGED <<lockVars, xact, openedBy, mutex, faults, streamVars, portalVars>>
    PROVE  DuplexInv' /\ OutsidersKeep
<1> USE DEF streamVars, portalVars
<1>1. DuplexTypeOK /\ JobsInv
  BY DEF DuplexInv
<1>2. Head(mutex).by = d /\ Head(mutex).job = k
  BY JobFacts
<1>3. LockInv' /\ OthersClaim(d) /\ owner' = owner
  BY LockKept DEF DuplexInv, lockVars
<1>4. OnlyMoves(d) /\ DuplexTypeOK'
  BY <1>1, <1>3 DEF OnlyMoves, DuplexTypeOK, LockInv
<1>5. JobsInv'
  BY <1>1 DEF JobsInv, Owes, Job
<1>6. XactInv'
  <2>1. Gone(d) => Gone(d)'
    BY DEF Gone
  <2> QED BY <1>3, <1>4, <2>1, XactKept
<1>7. ASSUME NEW e \in Duplexes PROVE DuplexOK(e)'
  <2>1. StreamOK(e) /\ ClaimOK(e) /\ RollbackOK(e) /\ RecoveryOK(e)
    BY DEF DuplexInv, DuplexOK
  <2>2. StreamOK(e)' /\ ClaimOK(e)'
    BY <2>1 DEF StreamOK, ClaimOK, Serving, lockVars
  <2>3. Executing(e)' => e = d /\ k # "rollback"
    BY <1>2 DEF Executing
  <2>4. Executing(e)' => rollback[e] \in {"none", "await"}
    <3>1. SUFFICES ASSUME e = d, k # "rollback" PROVE rollback[e] \notin {"queued", "done"}
      BY <1>1, <2>3 DEF DuplexTypeOK
    <3>2. final[d] \notin {"pending", "done"}
      BY <2>1, <3>1 DEF StreamOK, RecoveryOK, Owes, Resting, Serving, JobKinds
    <3> QED BY <2>1, <3>1, <3>2 DEF RollbackOK
  <2>5. RollbackOK(e)'
    BY <2>1, <2>4 DEF RollbackOK, inTransaction, lockVars
  <2>6. Executing(e)' /\ k = "recovery" => Resting(e) /\ owner = e
    BY <2>1, <2>3 DEF RecoveryOK, Owes
  <2>7. RecoveryOK(e)'
    BY <1>2, <2>1, <2>6 DEF RecoveryOK, Resting, Spent, lockVars
  <2> QED BY <2>2, <2>5, <2>7 DEF DuplexOK
<1>8. OutsidersKeep
  BY DEF OutsidersKeep, lockVars
<1> QED BY <1>3, <1>4, <1>5, <1>6, <1>7, <1>8 DEF DuplexInv

\* The job at the head starts, unless its duplex was torn down while it waited.
LEMMA StartJobKeeps ==
    ASSUME DuplexInv, StartJob
    PROVE  DuplexInv' /\ OutsidersKeep
<1>1. /\ ~busy /\ mutex # <<>>
      /\ UNCHANGED <<lockVars, xact, openedBy, faults, phase, tornDown, closed, final, input,
                     buffered, lastSeen, portalSuspended, portalRecoveryRequested, rollback>>
  BY DEF StartJob
<1>2. PICK d \in Duplexes, k \in JobKinds : Head(mutex) = Job(d, k) /\ Owes(d, k)
  BY <1>1, HeadIsOwed
<1>3. Head(mutex).by = d /\ Head(mutex).job = k
  BY <1>2, JobFacts
<1>4. CASE k # "rollback" /\ (tornDown[d] \/ phase[d] = "terminated")
  <2>1. k \in {"op", "recovery"}
    BY <1>4 DEF JobKinds
  <2>2. /\ mutex' = Tail(mutex) /\ UNCHANGED busy
        /\ drain' = IF k = "op" THEN [drain EXCEPT ![d] = "loop"] ELSE drain
        /\ op' = IF k = "op" THEN [op EXCEPT ![d] = "none"] ELSE op
        /\ recovery' = IF k = "recovery" THEN [recovery EXCEPT ![d] = "none"] ELSE recovery
    BY <1>3, <1>4 DEF StartJob
  <2> QED BY <1>1, <1>2, <1>4, <2>1, <2>2, DropKeeps
<1>5. CASE ~(k # "rollback" /\ (tornDown[d] \/ phase[d] = "terminated"))
  <2>1. busy' = TRUE /\ UNCHANGED <<mutex, drain, op, recovery>>
    BY <1>3, <1>5 DEF StartJob
  <2> QED BY <1>1, <1>2, <1>5, <2>1, BeginJobKeeps DEF streamVars, portalVars
<1> QED BY <1>4, <1>5

\* A call of a duplex returns, or throws before PGlite did anything.
LEMMA CallEnds ==
    ASSUME DuplexInv, NEW d \in Duplexes, Executing(d), NEW frame \in Frames, OnlyMoves(d),
           UNCHANGED <<phase, tornDown, closed, final>>,
           (streamProtocol(d, frame) /\ UNCHANGED faults) \/ CallThrows
    PROVE  /\ LockInv' /\ OthersClaim(d) /\ XactInv' /\ faults' \in 0..MaxFaults
           /\ xact' \in {"idle", "implicit", "block", "failed"}
           /\ openedBy' \in Duplexes \cup {NoOwner}
           /\ lastSeen' \in [Duplexes -> Statuses] /\ portalSuspended' \in [Duplexes -> BOOLEAN]
<1>1. DuplexTypeOK
  BY DEF DuplexInv
<1>2. phase[d] = "ready" /\ owner = d /\ ~closed[d] /\ final[d] \notin {"pending", "done"}
  BY CallFacts
<1>3. CASE streamProtocol(d, frame) /\ UNCHANGED faults
  <2>1. faults' \in 0..MaxFaults
    BY <1>1, <1>3 DEF DuplexTypeOK
  <2> QED BY <1>2, <1>3, <2>1, ProtocolKeeps
<1>4. CASE CallThrows
  <2>1. /\ faults < MaxFaults /\ faults' = faults + 1
        /\ UNCHANGED <<lockVars, xact, openedBy, lastSeen, portalSuspended>>
    BY <1>4 DEF CallThrows
  <2>2. LockInv' /\ OthersClaim(d) /\ owner' = owner
    BY <2>1, LockKept DEF DuplexInv, lockVars
  <2>3. ~Gone(d)
    BY <1>2 DEF Gone
  <2>4. XactInv'
    BY <2>1, <2>2, <2>3, XactKept
  <2>5. faults' \in 0..MaxFaults
    BY <1>1, <2>1, DuplexAssumption DEF DuplexTypeOK
  <2> QED BY <1>1, <2>1, <2>2, <2>4, <2>5 DEF DuplexTypeOK
<1> QED BY <1>3, <1>4

\* What a response does to lastSeenRfqStatus concerns its own duplex.
LEMMA ResponseMoves ==
    ASSUME DuplexTypeOK, NEW d \in Duplexes, NEW frame, streamProtocol(d, frame) \/ CallThrows
    PROVE  \A e \in Duplexes \ {d} : lastSeen'[e] = lastSeen[e]
<1>1. lastSeen' = lastSeen \/ \E x : lastSeen' = [lastSeen EXCEPT ![d] = x]
  BY DEF streamProtocol, FlushSuspends, FlushFails, Answered, onReadyForQuery, CallThrows
<1> QED BY <1>1 DEF DuplexTypeOK

\* A frame's call ends.
LEMMA FinishOpKeeps ==
    ASSUME DuplexInv, NEW d \in Duplexes, FinishOp(d)
    PROVE  DuplexInv' /\ OutsidersKeep
<1>1. DuplexTypeOK /\ StreamOK(d) /\ ClaimOK(d) /\ RollbackOK(d) /\ RecoveryOK(d)
  BY DEF DuplexInv, DuplexOK
<1>2. /\ Executing(d) /\ Head(mutex).job = "op" /\ busy' = FALSE /\ mutex' = Tail(mutex)
      /\ op' = [op EXCEPT ![d] = "none"]
      /\ UNCHANGED <<phase, tornDown, closed, final, input, buffered,
                     portalRecoveryRequested, recovery, rollback>>
  BY DEF FinishOp
<1>3. /\ mutex # <<>> /\ Head(mutex) = Job(d, "op") /\ drain[d] = "queued"
      /\ op[d] \in Frames /\ phase[d] = "ready" /\ ~closed[d]
      /\ final[d] \notin {"pending", "done"}
  BY <1>2, CallFacts, ExecutingFact
<1>4. \/ /\ streamProtocol(d, op[d]) /\ drain' = [drain EXCEPT ![d] = "loop"] /\ UNCHANGED faults
      \/ CallThrows /\ drain' = [drain EXCEPT ![d] = "failing"]
  BY DEF FinishOp
<1>5. /\ drain' \in [Duplexes -> DrainStates] /\ op' \in [Duplexes -> Frames \cup {"none"}]
      /\ drain'[d] \in {"loop", "failing"}
      /\ \A e \in Duplexes \ {d} : drain'[e] = drain[e]
  BY <1>1, <1>2, <1>4 DEF DuplexTypeOK, DrainStates
<1>6. OnlyMoves(d)
  <2>1. \A e \in Duplexes \ {d} : lastSeen'[e] = lastSeen[e]
    BY <1>1, <1>4, ResponseMoves
  <2> QED BY <1>1, <1>2, <1>5, <2>1 DEF OnlyMoves, DuplexTypeOK
<1>7. /\ LockInv' /\ OthersClaim(d) /\ XactInv' /\ faults' \in 0..MaxFaults
      /\ xact' \in {"idle", "implicit", "block", "failed"}
      /\ openedBy' \in Duplexes \cup {NoOwner}
      /\ lastSeen' \in [Duplexes -> Statuses] /\ portalSuspended' \in [Duplexes -> BOOLEAN]
  BY <1>2, <1>3, <1>4, <1>6, CallEnds
<1>8. JobsInv' /\ SameCall /\ mutex' \in Seq(Jobs)
  <2>1. "op" \in JobKinds /\ \A j \in JobKinds \ {"op"} : Owes(d, j) => Owes(d, j)'
    BY <1>2 DEF JobKinds, Owes
  <2> QED BY <1>2, <1>3, <1>6, <2>1, MutexMovesOn
<1>9. DuplexTypeOK'
  BY <1>1, <1>2, <1>5, <1>7, <1>8 DEF DuplexTypeOK, LockInv
<1>10. ~Executing(d)'
  BY <1>2 DEF Executing
<1>11. StreamOK(d)'
  BY <1>1, <1>2, <1>3, <1>5 DEF StreamOK, Serving
<1>12. ClaimOK(d)'
  BY <1>2, <1>3, <1>5 DEF ClaimOK, Serving
<1>13. RollbackOK(d)'
  <2>1. rollback[d] \in {"none", "await"}
    BY <1>2, CallFacts
  <2> QED BY <1>1, <1>2, <1>10, <2>1 DEF RollbackOK
<1>14. RecoveryOK(d)'
  BY <1>1, <1>2, <1>3, <1>10 DEF RecoveryOK, Resting
<1> QED BY <1>6, <1>7, <1>8, <1>9, <1>11, <1>12, <1>13, <1>14, StepOf DEF DuplexOK

\* The recovery's call ends.
LEMMA FinishRecoveryKeeps ==
    ASSUME DuplexInv, NEW d \in Duplexes, FinishRecovery(d)
    PROVE  DuplexInv' /\ OutsidersKeep
<1>1. DuplexTypeOK /\ StreamOK(d) /\ ClaimOK(d) /\ RollbackOK(d) /\ RecoveryOK(d)
  BY DEF DuplexInv, DuplexOK
<1>2. /\ Executing(d) /\ Head(mutex).job = "recovery" /\ busy' = FALSE /\ mutex' = Tail(mutex)
      /\ UNCHANGED <<streamVars, portalRecoveryRequested, rollback>>
  BY DEF FinishRecovery
<1>3. /\ mutex # <<>> /\ Head(mutex) = Job(d, "recovery") /\ recovery[d] = "queued"
      /\ Resting(d) /\ ~closed[d]
  BY <1>2, CallFacts, ExecutingFact
<1>4. \/ /\ streamProtocol(d, "sync") /\ recovery' = [recovery EXCEPT ![d] = "none"]
         /\ UNCHANGED faults
      \/ CallThrows /\ recovery' = [recovery EXCEPT ![d] = "failed"]
  BY DEF FinishRecovery
<1>5. /\ recovery' \in [Duplexes -> {"none", "entering", "queued", "failed"}]
      /\ recovery'[d] \in {"none", "failed"}
      /\ \A e \in Duplexes \ {d} : recovery'[e] = recovery[e]
  BY <1>1, <1>4 DEF DuplexTypeOK
<1>6. OnlyMoves(d)
  <2>1. \A e \in Duplexes \ {d} : lastSeen'[e] = lastSeen[e]
    BY <1>1, <1>4, ResponseMoves
  <2> QED BY <1>2, <1>5, <2>1 DEF OnlyMoves, streamVars
<1>7. /\ LockInv' /\ OthersClaim(d) /\ XactInv' /\ faults' \in 0..MaxFaults
      /\ xact' \in {"idle", "implicit", "block", "failed"}
      /\ openedBy' \in Duplexes \cup {NoOwner}
      /\ lastSeen' \in [Duplexes -> Statuses] /\ portalSuspended' \in [Duplexes -> BOOLEAN]
  <2>1. "sync" \in Frames /\ UNCHANGED <<phase, tornDown, closed, final>>
    BY <1>2 DEF Frames, streamVars
  <2> QED BY <1>2, <1>4, <1>6, <2>1, CallEnds
<1>8. JobsInv' /\ SameCall /\ mutex' \in Seq(Jobs)
  <2>1. "recovery" \in JobKinds /\ \A j \in JobKinds \ {"recovery"} : Owes(d, j) => Owes(d, j)'
    BY <1>2 DEF JobKinds, Owes, streamVars
  <2> QED BY <1>2, <1>3, <1>6, <2>1, MutexMovesOn
<1>9. DuplexTypeOK'
  BY <1>1, <1>2, <1>5, <1>7, <1>8 DEF DuplexTypeOK, LockInv, streamVars
<1>10. ~Executing(d)'
  BY <1>2 DEF Executing
<1>11. StreamOK(d)' /\ ClaimOK(d)'
  BY <1>1, <1>2, <1>3 DEF StreamOK, ClaimOK, Serving, Resting, streamVars
<1>12. RollbackOK(d)'
  <2>1. rollback[d] \in {"none", "await"}
    BY <1>2, CallFacts
  <2> QED BY <1>1, <1>2, <1>10, <2>1 DEF RollbackOK, streamVars
<1>13. RecoveryOK(d)'
  BY <1>1, <1>2, <1>3, <1>5, <1>10 DEF RecoveryOK, Resting, Spent, streamVars
<1> QED BY <1>6, <1>7, <1>8, <1>9, <1>11, <1>12, <1>13, StepOf DEF DuplexOK

\* The ROLLBACK ends its duplex's transaction.
LEMMA FinishRollbackKeeps ==
    ASSUME DuplexInv, NEW d \in Duplexes, FinishRollback(d)
    PROVE  DuplexInv' /\ OutsidersKeep
<1>1. DuplexTypeOK /\ StreamOK(d) /\ ClaimOK(d) /\ RollbackOK(d) /\ RecoveryOK(d)
  BY DEF DuplexInv, DuplexOK
<1>2. /\ busy /\ Head(mutex) = Job(d, "rollback")
      /\ busy' = FALSE /\ mutex' = Tail(mutex)
      /\ xact' = "idle" /\ openedBy' = NoOwner
      /\ lastSeen' = [lastSeen EXCEPT ![d] = "I"] /\ rollback' = [rollback EXCEPT ![d] = "done"]
      /\ UNCHANGED <<lockVars, faults, streamVars, portalSuspended, portalRecoveryRequested,
                     recovery>>
  BY DEF FinishRollback, Job
<1>3. mutex # <<>> /\ "rollback" \in JobKinds
  BY <1>2 DEF DuplexInv, JobsInv, JobKinds
<1>4. rollback[d] = "queued"
  <2>1. PICK e \in Duplexes, j \in JobKinds : Head(mutex) = Job(e, j) /\ Owes(e, j)
    BY <1>3, HeadIsOwed
  <2>2. e = d /\ j = "rollback"
    BY <1>2, <1>3, <2>1, JobFacts
  <2> QED BY <2>1, <2>2 DEF Owes
<1>5. owner = d /\ ~closed[d]
  BY <1>1, <1>4 DEF RollbackOK, ClaimOK
<1>6. /\ lastSeen' \in [Duplexes -> Statuses] /\ lastSeen'[d] = "I"
      /\ rollback' \in [Duplexes -> {"none", "await", "queued", "done"}] /\ rollback'[d] = "done"
      /\ OnlyMoves(d)
  BY <1>1, <1>2 DEF OnlyMoves, DuplexTypeOK, Statuses, streamVars
<1>7. LockInv' /\ OthersClaim(d) /\ owner' = owner
  BY <1>2, LockKept DEF DuplexInv, lockVars
<1>8. JobsInv' /\ SameCall /\ mutex' \in Seq(Jobs)
  <2>1. \A j \in JobKinds \ {"rollback"} : Owes(d, j) => Owes(d, j)'
    BY <1>2 DEF Owes, streamVars
  <2> QED BY <1>2, <1>3, <1>6, <2>1, MutexMovesOn
<1>9. DuplexTypeOK'
  BY <1>1, <1>2, <1>6, <1>7, <1>8 DEF DuplexTypeOK, LockInv, streamVars
<1>10. ~Executing(d)'
  BY <1>2 DEF Executing
<1>11. StreamOK(d)'
  BY <1>1, <1>2 DEF StreamOK, Serving, streamVars
<1>12. ClaimOK(d)'
  BY <1>1, <1>2, <1>5, <1>6 DEF ClaimOK, Serving, streamVars, lockVars
<1>13. RollbackOK(d)' /\ RecoveryOK(d)'
  BY <1>1, <1>2, <1>4, <1>6, <1>10
     DEF RollbackOK, RecoveryOK, Resting, Spent, inTransaction, streamVars, lockVars
<1>14. XactInv'
  <2>1. \A e \in Duplexes \ {d} : ~inTransaction(e)'
    BY <1>5, <1>6, OwnersTransaction DEF inTransaction, OnlyMoves
  <2>2. \A e \in Duplexes : ~inTransaction(e)'
    BY <1>6, <2>1 DEF inTransaction
  <2> QED BY <1>2, <2>2 DEF XactInv
<1> QED BY <1>6, <1>7, <1>8, <1>9, <1>11, <1>12, <1>13, <1>14, StepOf DEF DuplexOK

\* Every step that a duplex takes on its own, and every step of PGlite.
LEMMA DuplexStepKeeps ==
    ASSUME DuplexInv, NEW d \in Duplexes, DuplexStep(d),
           portalRecoveryRequested[d] /\ portalSuspended[d] /\ ~tornDown[d] => final[d] = "no"
    PROVE  DuplexInv' /\ OutsidersKeep
BY NextFrameKeeps, DrainEndKeeps, EnterMutexKeeps, OpFailsKeeps, DrainFailedKeeps,
   EnterRecoveryKeeps, RecoveryFailedKeeps, RollbackAfterCallKeeps, TerminateDoneKeeps,
   FinalKeeps, FinalDoneKeeps, DestroyDoneKeeps DEF DuplexStep

\* PGlite is done with a job.
LEMMA FinishJobKeeps ==
    ASSUME DuplexInv, FinishJob
    PROVE  DuplexInv' /\ OutsidersKeep
BY FinishOpKeeps, FinishRecoveryKeeps, FinishRollbackKeeps DEF FinishJob

\* At the start nothing is claimed.
LEMMA DuplexStarts == DuplexInit => DuplexInv
<1> SUFFICES ASSUME DuplexInit PROVE DuplexInv
  OBVIOUS
<1>1. LockInit /\ DuplexInit
  BY DEF DuplexInit
<1>2. owner = NoOwner /\ waitQueue = <<>> /\ acquired = [id \in Ids |-> "none"]
  BY <1>1 DEF LockInit
<1>3. \A q : q = <<>> => q \in Seq(Ids) /\ Once(q) /\ \A id : ~In(q, id)
  BY DEF Once, In
<1>4. LockInv
  BY <1>2, <1>3, LockInvFacts DEF PromiseStates
<1>5. DuplexTypeOK
  <2>1. /\ LockTypeOK
        /\ xact \in {"idle", "implicit", "block", "failed"} /\ openedBy \in Duplexes \cup {NoOwner}
        /\ busy \in BOOLEAN
    BY <1>1, <1>4 DEF DuplexInit, LockInv
  <2>2. \A S : <<>> \in Seq(S)
    OBVIOUS
  <2>3. /\ mutex \in Seq(Jobs)
        /\ input \in [Duplexes -> Seq(Frames \cup {"terminate"})]
        /\ buffered \in [Duplexes -> Seq(Frames \cup {"terminate"})]
    BY <1>1, <2>2 DEF DuplexInit
  <2>4. /\ phase \in [Duplexes -> {"ready", "terminated"}]
        /\ tornDown \in [Duplexes -> BOOLEAN] /\ closed \in [Duplexes -> BOOLEAN]
        /\ final \in [Duplexes -> {"no", "ended", "pending", "done"}]
        /\ drain \in [Duplexes -> DrainStates] /\ op \in [Duplexes -> Frames \cup {"none"}]
        /\ lastSeen \in [Duplexes -> Statuses]
        /\ portalSuspended \in [Duplexes -> BOOLEAN]
        /\ portalRecoveryRequested \in [Duplexes -> BOOLEAN]
        /\ recovery \in [Duplexes -> {"none", "entering", "queued", "failed"}]
        /\ rollback \in [Duplexes -> {"none", "await", "queued", "done"}]
    BY <1>1 DEF DuplexInit, DrainStates, Statuses
  <2>5. faults \in 0..MaxFaults
    <3>1. faults = 0 /\ MaxFaults \in Nat
      BY <1>1, DuplexAssumption DEF DuplexInit
    <3> QED BY <3>1
  <2> QED BY <2>1, <2>3, <2>4, <2>5 DEF DuplexTypeOK
<1>6. JobsInv
  BY <1>1, <1>3 DEF DuplexInit, JobsInv
<1>7. \A d \in Duplexes : ~inTransaction(d)
  BY <1>1 DEF DuplexInit, inTransaction
<1>8. XactInv
  BY <1>1, <1>7 DEF DuplexInit, XactInv
<1>9. ASSUME NEW d \in Duplexes PROVE DuplexOK(d)
  <2>1. /\ phase[d] = "ready" /\ ~tornDown[d] /\ ~closed[d] /\ final[d] = "no"
        /\ drain[d] = "idle" /\ recovery[d] = "none"
        /\ rollback[d] = "none" /\ busy = FALSE
    BY <1>1 DEF DuplexInit
  <2> QED BY <2>1 DEF DuplexOK, StreamOK, ClaimOK, RollbackOK, RecoveryOK, Serving, Executing
<1> QED BY <1>4, <1>5, <1>6, <1>8, <1>9 DEF DuplexInv

-----------------------------------------------------------------------------
(* What the invariant says. *)

\* The job that PGlite executes is the owner's.
LEMMA BusyFacts ==
    ASSUME DuplexInv, busy
    PROVE  \E d \in Duplexes : Head(mutex).by = d /\ owner = d /\ ~closed[d]
<1>1. mutex # <<>>
  BY DEF DuplexInv, JobsInv
<1>2. PICK d \in Duplexes, j \in JobKinds : Head(mutex) = Job(d, j) /\ Owes(d, j)
  BY <1>1, HeadIsOwed
<1>3. Head(mutex).by = d /\ Head(mutex).job = j
  BY <1>2, JobFacts
<1>4. CASE j # "rollback"
  <2>1. Executing(d)
    BY <1>3, <1>4 DEF Executing
  <2> QED BY <1>3, <2>1, CallFacts
<1>5. CASE j = "rollback"
  BY <1>2, <1>3, <1>5 DEF DuplexInv, DuplexOK, RollbackOK, ClaimOK, Owes
<1> QED BY <1>4, <1>5

\* PGlite runs only for the owner of the session, and a frame never in a transaction
\* of a sibling but the portal that PGlite keeps of one that is gone; an open
\* transaction and a suspended portal keep the session; a duplex that is gone
\* has neither the session nor an explicit transaction.
LEMMA InvariantSays ==
    ASSUME DuplexInv
    PROVE  /\ ExecutesAsOwner /\ NoForeignTransactionButPortal
           /\ TransactionHeld /\ PortalHeld /\ GoneLeavesNothing
<1>1. /\ xact = "idle" <=> openedBy = NoOwner
      /\ xact \in {"block", "failed"} => inTransaction(openedBy)
      /\ xact = "implicit" => Gone(openedBy) \/ owner = openedBy
      /\ \A d \in Duplexes : inTransaction(d) => owner = d
      /\ openedBy \in Duplexes \cup {NoOwner}
      /\ xact \in {"idle", "implicit", "block", "failed"}
  BY DEF DuplexInv, XactInv, DuplexTypeOK
<1>2. ExecutesAsOwner
  BY BusyFacts DEF ExecutesAsOwner, isOwner
<1>3. NoForeignTransactionButPortal
  <2> SUFFICES ASSUME busy, Head(mutex).job = "op"
               PROVE  openedBy \in {NoOwner, Head(mutex).by} \/ DanglingPortal
    BY DEF NoForeignTransactionButPortal, NoForeignTransaction
  <2>1. PICK d \in Duplexes : Head(mutex).by = d /\ owner = d
    BY BusyFacts
  <2> QED BY <2>1, OwnersTransaction DEF DanglingPortal
<1>4. TransactionHeld
  <2> SUFFICES ASSUME xact \in {"block", "failed"}
               PROVE  isOwner(openedBy) /\ inTransaction(openedBy)
    BY DEF TransactionHeld
  <2>1. openedBy \in Duplexes
    BY <1>1
  <2> QED BY <1>1, <2>1 DEF isOwner
<1>5. PortalHeld
  BY <1>1 DEF PortalHeld, isOwner
<1>6. GoneLeavesNothing
  <2> SUFFICES ASSUME NEW d \in Duplexes, closed[d]
               PROVE  ~isOwner(d) /\ ~Waiting(d) /\ (openedBy = d => xact = "implicit")
    BY DEF GoneLeavesNothing
  <2>1. owner # d /\ ~In(waitQueue, d)
    BY DEF DuplexInv, DuplexOK, ClaimOK
  <2>2. ASSUME openedBy = d PROVE xact = "implicit"
    <3>1. d # NoOwner
      BY DuplexAssumption, NoOwnerAssumption
    <3> QED BY <1>1, <2>1, <2>2, <3>1
  <2> QED BY <2>1, <2>2 DEF isOwner, Waiting, In
<1> QED BY <1>2, <1>3, <1>4, <1>5, <1>6
=============================================================================
