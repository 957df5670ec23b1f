------------------------------ MODULE PoolProofs ------------------------------
(***************************************************************************)
(* Proofs about PoolEnd, for any number of clients, submissions, checkouts *)
(* and faults, when no borrower runs one of the races of PoolClients.      *)
(***************************************************************************)
EXTENDS PoolEnd, DuplexProofs

-----------------------------------------------------------------------------
(* The inductive invariant of the pool. *)

\* What pg has sent of its active query, and waits to have answered.
Awaiting(d) == active[d].kind \in {"query", "begin", "end", "rollback", "reading", "closing"}
Sent(kind) == CASE kind = "reading" -> "flush"
                [] kind = "closing" -> "sync"
                [] OTHER -> FrameOf(kind)

\* A duplex has one frame of its client at most: the drain loop serves it, or the
\* Writable holds it back until the drain before it has ended.
OneFrame(d) ==
    /\ input[d] = <<>>
    /\ Awaiting(d) => \/ Serving(d) /\ op[d] = Sent(active[d].kind) /\ buffered[d] = <<>>
                      \/ drain[d] = "loop" /\ buffered[d] = <<Sent(active[d].kind)>>
                      \/ drain[d] = "failing" /\ buffered[d] = <<>>
    /\ ~Awaiting(d) => /\ ~Serving(d) /\ drain[d] # "failing"
                       /\ buffered[d] \in {<<>>, <<"terminate">>}
    /\ active[d].kind # "none" => final[d] = "no"
    /\ phase[d] = "terminated" \/ buffered[d] = <<"terminate">> => final[d] # "no"
    /\ buffered[d] = <<"terminate">> => phase[d] = "ready"
    /\ final[d] # "no" => removed[d]

\* A suspended portal is one of pg's active cursor, and keeps the session; it is
\* recovered, now or at the end of the drain, only when its borrower has gone.
PortalOK(d) ==
    /\ portalSuspended[d] => active[d].kind \in CursorStates /\ owner = d
    /\ active[d].kind \in {"parked", "exhausted", "closing"} => portalSuspended[d]
    /\ openedBy = d /\ xact = "implicit" => portalSuspended[d]
    /\ recovery[d] # "none" => active[d].kind = "parked" /\ ~Holds(d)
    /\ portalRecoveryRequested[d] => Draining(d)
    /\ portalRecoveryRequested[d] /\ out[d] =>
          /\ active[d].kind \in CursorStates => active[d].lease # lease[d]
          /\ \A k \in DOMAIN queue[d] :
                queue[d][k].kind = "cursor" => queue[d][k].lease # lease[d]

\* Leases are counted up.
LeaseOK(d) ==
    /\ lease[d] <= leases /\ active[d].lease <= lease[d]
    /\ \A k \in DOMAIN queue[d] : queue[d][k].lease <= lease[d]
    /\ out[d] => lease[d] # 0 /\ ~removed[d]

\* A client that was never checked out is untouched.
UnmadeOK(d) ==
    lease[d] = 0 =>
        /\ ~out[d] /\ active[d] = NoQuery /\ queue[d] = <<>>
        /\ ~tornDown[d] /\ drain[d] = "idle" /\ final[d] = "no" /\ recovery[d] = "none"
        /\ owner # d /\ ~In(waitQueue, d)

\* A client whose duplex is torn down has only its leases to account for.
ClientOK(d) == /\ LeaseOK(d) /\ UnmadeOK(d)
               /\ ~tornDown[d] => OneFrame(d) /\ PortalOK(d)

\* All of it, with what DuplexProofs knows of the duplexes.
PoolInv == Races = {} /\ DuplexInv /\ PoolTypeOK /\ \A d \in Duplexes : ClientOK(d)

-----------------------------------------------------------------------------
(* The transaction of a borrower that has gone. *)

\* d's client has an explicit transaction open.
Open(d) == openedBy = d /\ xact \in {"block", "failed"}

\* What ends it: the cleanup link, or the ROLLBACK that this put in its place.
Marked(q) == q.kind \in {"cleanup", "rollback"}

\* Behind the place i of a queue s, nothing of another lease than l comes without a
\* mark before it; there is a mark.
Covered(s, i, l) ==
    \A k \in DOMAIN s : k > i /\ s[k].lease # l => \E j \in (i + 1)..k : Marked(s[j])
HasMark(s, i) == \E j \in DOMAIN s : j > i /\ Marked(s[j])

\* Another borrower than that of lease l may yet submit something.
Unheld(d, l) == ~removed[d] /\ ~(out[d] /\ lease[d] = l)
GuardedFrom(d, i, l) == Covered(queue[d], i, l) /\ (Unheld(d, l) => HasMark(queue[d], i))

\* The frame that a drain loop serves is the one of pg's active query, whatever has
\* become of the duplex, and does not run behind the client's own portal unless it
\* is that cursor's.
ServedOK(d) ==
    Serving(d) => /\ Awaiting(d) /\ op[d] = Sent(active[d].kind)
                  /\ openedBy = d /\ xact = "implicit" => active[d].kind \in CursorStates

\* What runs in an open transaction is of the borrower that opened it.
OfOne(d) ==
    Open(d) /\ active[d].kind \notin {"none", "rollback"} => active[d].lease = openedIn

\* A transaction is guarded from the moment that its BEGIN is submitted.
Guarded(d) ==
    /\ Open(d) /\ active[d].kind # "rollback" => GuardedFrom(d, 0, openedIn)
    /\ active[d].kind = "begin" => GuardedFrom(d, 0, active[d].lease)
    /\ \A i \in DOMAIN queue[d] :
          queue[d][i].kind = "begin" => GuardedFrom(d, i, queue[d][i].lease)

CleanOK(d) == ServedOK(d) /\ OfOne(d) /\ (~tornDown[d] => Guarded(d))
CleanInv == \A d \in Duplexes : CleanOK(d)

\* What guards a transaction after a step.
UnheldThen(d, l) == ~removed'[d] /\ ~(out'[d] /\ lease'[d] = l)
GuardedThen(d, i, l) ==
    Covered(queue'[d], i, l) /\ (UnheldThen(d, l) => HasMark(queue'[d], i))

-----------------------------------------------------------------------------
(* end(). *)

\* The slot is freed once, and nothing settles before the teardowns have, unless
\* the bound on them expired.
EndOK ==
    /\ ending \in {"no", "clients", "teardowns", "ended"}
    /\ again \in {"no", "teardowns", "ended"}
    /\ freed \in 0..1 /\ releaseAfterDrain \in BOOLEAN /\ expired \in BOOLEAN
    /\ ending = "no" => freed = 0 /\ again = "no"
    /\ freed = 1 => ~releaseAfterDrain \/ ending = "ended"
    /\ (freed = 1 \/ ending = "ended" \/ again = "ended") /\ ~expired => pendingTeardowns = {}

-----------------------------------------------------------------------------
(* Facts that the steps below share. *)

\* A chunk of one frame.
LEMMA OneFact ==
    ASSUME NEW f
    PROVE  /\ <<f>> # <<>> /\ Head(<<f>>) = f /\ Tail(<<f>>) = <<>> /\ Append(<<>>, f) = <<f>>
           /\ \A g : <<g>> = <<f>> => g = f
<1>1. <<f>> # <<>> /\ Head(<<f>>) = f /\ Append(<<>>, f) = <<f>> /\ \A g : <<g>> = <<f>> => g = f
  OBVIOUS
<1>2. Tail(<<f>>) = <<>>
  OBVIOUS
<1> QED BY <1>1, <1>2

\* What waits for an answer was sent as a frame.
LEMMA SentFact ==
    ASSUME PoolTypeOK, NEW d \in Duplexes
    PROVE  /\ Awaiting(d) => Sent(active[d].kind) \in Frames /\ Sent(active[d].kind) # "terminate"
           /\ Awaiting(d) /\ Sent(active[d].kind) = "flush" => active[d].kind = "reading"
           /\ ~Awaiting(d) <=> active[d].kind \in {"none", "parked", "exhausted"}
           /\ Idle(d) <=> active[d].kind = "none"
<1>1. active[d] \in Queries
  BY DEF PoolTypeOK
<1>2. active[d].kind \in {"query", "begin", "end", "rollback", "none"} \cup CursorStates
  BY <1>1 DEF Queries, NoQuery
<1>3. active[d].kind = "none" <=> active[d] = NoQuery
  BY <1>1 DEF Queries, NoQuery, CursorStates
<1> QED BY <1>2, <1>3 DEF Awaiting, Sent, FrameOf, Frames, Idle, CursorStates

\* Leases are numbers.
LEMMA LeaseTypes ==
    ASSUME PoolTypeOK, NEW d \in Duplexes
    PROVE  /\ leases \in Nat /\ lease[d] \in Nat /\ active[d].lease \in 0..MaxLeases
           /\ MaxLeases \in Nat /\ NoQuery.lease = 0 /\ NoQuery.kind = "none"
           /\ NoQuery \in Queries
<1>1. MaxLeases \in Nat
  BY PoolAssumption, Zenon
<1>2. NoQuery.lease = 0 /\ NoQuery.kind = "none" /\ NoQuery \in Queries
  BY DEF NoQuery, Queries
<1>3. leases \in 0..MaxLeases /\ lease[d] \in 0..MaxLeases /\ active[d] \in Queries
  BY DEF PoolTypeOK
<1>4. active[d].lease \in 0..MaxLeases
  <2>1. CASE active[d] = NoQuery
    BY <1>1, <1>2, <2>1
  <2>2. CASE active[d] # NoQuery
    BY <1>3, <2>2 DEF Queries
  <2> QED BY <2>1, <2>2
<1> QED BY <1>1, <1>2, <1>3, <1>4

\* No other client moves, nor its duplex.
Alone(d) ==
    /\ OnlyMoves(d) /\ OthersClaim(d)
    /\ \A e \in Duplexes \ {d} :
          /\ portalSuspended'[e] = portalSuspended[e]
          /\ portalRecoveryRequested'[e] = portalRecoveryRequested[e]
          /\ openedBy' = e /\ xact' = "implicit" => openedBy = e /\ xact = "implicit"
          /\ out'[e] = out[e] /\ lease'[e] = lease[e] /\ removed'[e] = removed[e]
          /\ active'[e] = active[e] /\ queue'[e] = queue[e]

\* So a step of d keeps the invariant when it keeps d's part of it.
LEMMA StepOfClient ==
    ASSUME PoolInv, NEW d \in Duplexes, DuplexInv', PoolTypeOK', leases <= leases', Alone(d),
           ClientOK(d)'
    PROVE  PoolInv'
<1>1. ASSUME NEW e \in Duplexes, e # d PROVE ClientOK(e)'
  <2>1. /\ phase'[e] = phase[e] /\ tornDown'[e] = tornDown[e] /\ final'[e] = final[e]
        /\ input'[e] = input[e] /\ buffered'[e] = buffered[e] /\ drain'[e] = drain[e]
        /\ op'[e] = op[e] /\ recovery'[e] = recovery[e]
        /\ portalSuspended'[e] = portalSuspended[e]
        /\ portalRecoveryRequested'[e] = portalRecoveryRequested[e]
        /\ openedBy' = e /\ xact' = "implicit" => openedBy = e /\ xact = "implicit"
        /\ out'[e] = out[e] /\ lease'[e] = lease[e] /\ removed'[e] = removed[e]
        /\ active'[e] = active[e] /\ queue'[e] = queue[e]
    BY <1>1 DEF Alone, OnlyMoves
  <2>2. /\ owner = e => owner' = e
        /\ owner' = e => owner = e \/ In(waitQueue, e)
        /\ In(waitQueue', e) => In(waitQueue, e)
    BY <1>1, DuplexAssumption DEF Alone, OthersClaim
  <2>3. ClientOK(e)
    BY DEF PoolInv
  <2>4. LeaseOK(e)'
    <3>1. leases \in Nat /\ leases' \in Nat /\ lease[e] \in Nat
      BY LeaseTypes DEF PoolInv, PoolTypeOK
    <3> QED BY <2>1, <2>3, <3>1 DEF ClientOK, LeaseOK
  <2>5. UnmadeOK(e)'
    BY <2>1, <2>2, <2>3 DEF ClientOK, UnmadeOK
  <2>6. ~tornDown'[e] => OneFrame(e)'
    BY <2>1, <2>3 DEF ClientOK, OneFrame, Awaiting, Serving
  <2>7. ~tornDown'[e] => PortalOK(e)'
    BY <2>1, <2>2, <2>3 DEF ClientOK, PortalOK, Holds, Draining
  <2> QED BY <2>4, <2>5, <2>6, <2>7 DEF ClientOK
<1> QED BY <1>1 DEF PoolInv

-----------------------------------------------------------------------------
(* What a duplex does by itself. *)

\* A use of the lock spares the others.
LEMMA LockMoves ==
    ASSUME LockInv, NEW d \in Ids, UNCHANGED lockVars \/ acquire(d) \/ release(d) \/ cancel(d)
    PROVE  OthersClaim(d)
BY LockKept, AcquireStep, ReleaseStep, CancelStep

\* A drain loop that takes a frame moves no other duplex.
LEMMA ProcessMoves ==
    ASSUME DuplexInv, NEW d \in Duplexes, NEW frames, processMessages(d, frames)
    PROVE  /\ OthersClaim(d)
           /\ \A e \in Duplexes \ {d} :
                 /\ phase'[e] = phase[e] /\ input'[e] = input[e] /\ drain'[e] = drain[e]
                 /\ op'[e] = op[e] /\ rollback'[e] = rollback[e]
                 /\ portalSuspended'[e] = portalSuspended[e]
                 /\ portalRecoveryRequested'[e] = portalRecoveryRequested[e]
<1>1. /\ DuplexTypeOK /\ LockInv /\ d \in Ids
  BY DuplexAssumption DEF DuplexInv
<1>2. CASE BeginTerminate(d)
  <2>1. \A e \in Duplexes \ {d} : rollback'[e] = rollback[e]
    BY <1>2, RollbackOutcome DEF BeginTerminate
  <2> QED BY <1>1, <1>2, <2>1, LockMoves DEF BeginTerminate, DuplexTypeOK
<1>3. CASE BeginFrame(d, frames)
  BY <1>1, <1>3, LockMoves DEF BeginFrame, DuplexTypeOK
<1> QED BY <1>2, <1>3 DEF processMessages

\* No step of a drain, a recovery or a teardown moves another duplex.
LEMMA DuplexStepAlone ==
    ASSUME DuplexInv, NEW d \in Duplexes, DuplexStep(d), UNCHANGED clientVars
    PROVE  Alone(d) /\ UNCHANGED <<xact, openedBy>>
<1>1. /\ DuplexTypeOK /\ LockInv /\ d \in Ids
  BY DuplexAssumption DEF DuplexInv
<1> USE DEF Alone, OnlyMoves, clientVars, portalVars, streamVars, pgliteVars
<1>2. CASE NextFrame(d)
  BY <1>2, ProcessMoves DEF NextFrame
<1>3. CASE DrainEnd(d)
  <2>1. /\ \A e \in Duplexes \ {d} : buffered'[e] = buffered[e]
        /\ UNCHANGED <<xact, openedBy, busy, faults, tornDown, closed, final, lastSeen>>
    BY <1>1, <1>3 DEF DrainEnd, DuplexTypeOK
  <2>2. CASE processMessages(d, buffered[d]) /\ UNCHANGED recovery
    BY <2>1, <2>2, ProcessMoves
  <2>3. CASE /\ drain' = [drain EXCEPT ![d] = "idle"]
             /\ portalRecoveryRequested' = [portalRecoveryRequested EXCEPT ![d] = FALSE]
             /\ deliverRecoverySync(d) \/ UNCHANGED <<portalSuspended, recovery>>
             /\ UNCHANGED <<lockVars, mutex, phase, input, op, rollback>>
    <3>1. \A e \in Duplexes \ {d} : /\ portalSuspended'[e] = portalSuspended[e]
                                    /\ recovery'[e] = recovery[e]
      BY <1>1, <2>3 DEF deliverRecoverySync, DuplexTypeOK
    <3>2. \A e \in Duplexes \ {d} : /\ drain'[e] = drain[e]
                                    /\ portalRecoveryRequested'[e] = portalRecoveryRequested[e]
      BY <1>1, <2>3 DEF DuplexTypeOK
    <3> QED BY <1>1, <2>1, <2>3, <3>1, <3>2, LockMoves
  <2> QED BY <1>3, <2>2, <2>3 DEF DrainEnd
<1>4. CASE EnterMutex(d) \/ OpFails(d)
  BY <1>1, <1>4, LockMoves DEF EnterMutex, OpFails, DuplexTypeOK
<1>5. CASE DrainFailed(d) \/ RecoveryFailed(d)
  <2>1. \A e \in Duplexes \ {d} : /\ tornDown'[e] = tornDown[e] /\ rollback'[e] = rollback[e]
                                  /\ input'[e] = input[e] /\ buffered'[e] = buffered[e]
    BY <1>5, DestroyMoves DEF DrainFailed, RecoveryFailed
  <2> QED BY <1>1, <1>5, <2>1, LockMoves DEF DrainFailed, RecoveryFailed, DuplexTypeOK
<1>6. CASE EnterRecovery(d)
  BY <1>1, <1>6, LockMoves DEF EnterRecovery, DuplexTypeOK
<1>7. CASE RollbackAfterCall(d)
  <2>1. \A e \in Duplexes \ {d} : rollback'[e] = rollback[e]
    BY <1>7, RollbackOutcome DEF RollbackAfterCall
  <2> QED BY <1>1, <1>7, <2>1, LockMoves DEF RollbackAfterCall
<1>8. CASE TerminateDone(d) \/ FinalDone(d) \/ DestroyDone(d)
  BY <1>1, <1>8, LockMoves DEF TerminateDone, FinalDone, DestroyDone, DuplexTypeOK
<1>9. CASE Final(d)
  <2>1. \A e \in Duplexes \ {d} : rollback'[e] = rollback[e]
    BY <1>9, RollbackOutcome DEF Final
  <2> QED BY <1>1, <1>9, <2>1, LockMoves DEF Final, DuplexTypeOK
<1> QED BY <1>2, <1>3, <1>4, <1>5, <1>6, <1>7, <1>8, <1>9 DEF DuplexStep

\* What the invariant says of an open client.
LEMMA LiveFacts ==
    ASSUME PoolInv, NEW d \in Duplexes, ~tornDown[d]
    PROVE  /\ OneFrame(d) /\ PortalOK(d) /\ LeaseOK(d) /\ StreamOK(d) /\ d \in Ids
           /\ DuplexTypeOK /\ LockInv
           /\ recovery[d] # "none" => Resting(d)
           /\ Awaiting(d) => Sent(active[d].kind) \in Frames /\ Sent(active[d].kind) # "terminate"
           /\ Awaiting(d) /\ Sent(active[d].kind) = "flush" => active[d].kind = "reading"
           /\ ~Awaiting(d) <=> active[d].kind \in {"none", "parked", "exhausted"}
           /\ Idle(d) <=> active[d].kind = "none"
<1>1. ClientOK(d) /\ DuplexInv /\ PoolTypeOK
  BY DEF PoolInv
<1>2. DuplexOK(d) /\ DuplexTypeOK /\ LockInv /\ d \in Ids
  BY <1>1, DuplexAssumption DEF DuplexInv
<1> QED BY <1>1, <1>2, SentFact DEF ClientOK, DuplexOK, RecoveryOK

\* A drain that ends takes what the Writable held back.
LEMMA DrainEndLive ==
    ASSUME PoolInv, NEW d \in Duplexes, ~tornDown[d], DrainEnd(d), ~Reacting(d),
           UNCHANGED clientVars
    PROVE  OneFrame(d)' /\ PortalOK(d)'
<1>1. /\ OneFrame(d) /\ PortalOK(d) /\ StreamOK(d) /\ d \in Ids /\ DuplexTypeOK /\ LockInv
      /\ recovery[d] # "none" => Resting(d)
      /\ Awaiting(d) => Sent(active[d].kind) \in Frames /\ Sent(active[d].kind) # "terminate"
      /\ ~Awaiting(d) <=> active[d].kind \in {"none", "parked", "exhausted"}
  BY LiveFacts
<1>2. /\ drain[d] = "loop" /\ buffered'[d] = <<>>
      /\ UNCHANGED <<xact, openedBy, final>> /\ input[d] = <<>>
  BY <1>1 DEF DrainEnd, DuplexTypeOK, OneFrame
<1>3. UNCHANGED <<out, lease, removed, active, queue>> /\ (Awaiting(d)' <=> Awaiting(d))
  BY DEF clientVars, Awaiting
<1>4. CASE Awaiting(d)
  <2> DEFINE f == Sent(active[d].kind)
  <2>1. /\ buffered[d] = <<f>> /\ phase[d] = "ready" /\ f # "terminate" /\ f \in Frames
        /\ final[d] = "no" /\ active[d].kind \notin {"none", "parked", "exhausted"}
    <3>1. phase[d] \in {"ready", "terminated"}
      BY <1>1 DEF DuplexTypeOK
    <3> QED BY <1>1, <1>2, <1>4, <3>1 DEF OneFrame, Serving
  <2>2. BeginFrame(d, buffered[d]) /\ UNCHANGED recovery
    BY <2>1, OneFact DEF DrainEnd, processMessages
  <2>3. op'[d] = f /\ input'[d] = <<>> /\ drain'[d] = "acquiring"
    BY <1>1, <2>1, <2>2, OneFact DEF BeginFrame, DuplexTypeOK
  <2>4. owner = d => owner' = d
    BY <1>1, <2>2, AcquireStep DEF BeginFrame
  <2>5. OneFrame(d)'
    BY <1>2, <1>3, <1>4, <2>1, <2>2, <2>3 DEF OneFrame, BeginFrame, Serving
  <2>6. PortalOK(d)'
    BY <1>1, <1>2, <1>3, <2>2, <2>3, <2>4 DEF PortalOK, BeginFrame, Holds, Draining
  <2> QED BY <2>5, <2>6
<1>5. CASE ~Awaiting(d) /\ buffered[d] = <<"terminate">>
  <2>1. phase[d] = "ready" /\ final[d] # "no" /\ active[d].kind = "none"
    BY <1>1, <1>5 DEF OneFrame
  <2>2. BeginTerminate(d) /\ UNCHANGED recovery
    BY <1>5, <2>1, OneFact DEF DrainEnd, processMessages
  <2>3. /\ input'[d] = <<>> /\ drain'[d] = "terminating" /\ ~portalSuspended'[d]
        /\ ~portalRecoveryRequested'[d]
    BY <1>1, <2>2 DEF BeginTerminate, DuplexTypeOK
  <2>4. OneFrame(d)'
    BY <1>1, <1>2, <1>3, <1>5, <2>1, <2>3, OneFact DEF OneFrame, Serving
  <2>5. PortalOK(d)'
    BY <1>1, <1>2, <1>3, <2>1, <2>2, <2>3 DEF PortalOK, CursorStates
  <2> QED BY <2>4, <2>5
<1>6. CASE ~Awaiting(d) /\ buffered[d] = <<>>
  <2>1. /\ drain' = [drain EXCEPT ![d] = "idle"]
        /\ portalRecoveryRequested' = [portalRecoveryRequested EXCEPT ![d] = FALSE]
        /\ IF portalRecoveryRequested[d] /\ portalSuspended[d]
           THEN deliverRecoverySync(d)
           ELSE UNCHANGED <<portalSuspended, recovery>>
        /\ UNCHANGED <<lockVars, mutex, phase, input, op, rollback>>
    BY <1>6 DEF DrainEnd
  <2>2. /\ portalSuspended' = portalSuspended
        /\ recovery'[d] # "none" => recovery[d] # "none"
                                    \/ (portalRecoveryRequested[d] /\ portalSuspended[d])
    BY <1>1, <2>1 DEF deliverRecoverySync, PortalOK, isOwner
  <2>3. portalRecoveryRequested[d] /\ portalSuspended[d] => active[d].kind = "parked" /\ ~Holds(d)
    <3>1. ASSUME portalRecoveryRequested[d] /\ portalSuspended[d]
          PROVE  active[d].kind = "parked" /\ ~Holds(d)
      <4>1. active[d].kind \in CursorStates /\ active[d].kind # "exhausted"
        BY <3>1, <1>1 DEF PortalOK, Reacting
      <4>2. active[d].kind = "parked"
        BY <1>1, <1>6, <4>1 DEF CursorStates
      <4> QED BY <1>1, <3>1, <4>1, <4>2 DEF PortalOK, Holds
    <3> QED BY <3>1
  <2>4. drain'[d] = "idle" /\ ~portalRecoveryRequested'[d] /\ owner' = owner
    BY <1>1, <2>1 DEF DuplexTypeOK, lockVars
  <2>5. OneFrame(d)'
    BY <1>1, <1>2, <1>3, <1>6, <2>1, <2>4, OneFact DEF OneFrame, Serving
  <2>6. PortalOK(d)'
    BY <1>1, <1>2, <1>3, <2>2, <2>3, <2>4 DEF PortalOK, Holds
  <2> QED BY <2>5, <2>6
<1> QED BY <1>1, <1>4, <1>5, <1>6 DEF OneFrame

\* The other steps of a duplex that stays open.
LEMMA DuplexStepLive ==
    ASSUME PoolInv, NEW d \in Duplexes, ~tornDown'[d], DuplexStep(d),
           drain[d] = "loop" => ~Reacting(d), UNCHANGED clientVars
    PROVE  ~tornDown[d] /\ OneFrame(d)' /\ PortalOK(d)'
<1>1. ~tornDown[d]
  <2>1. DuplexTypeOK
    BY DEF PoolInv, DuplexInv
  <2> QED BY <2>1 DEF DuplexStep, NextFrame, DrainEnd, EnterMutex, OpFails, DrainFailed,
                      EnterRecovery, RecoveryFailed, RollbackAfterCall, TerminateDone, Final,
                      FinalDone, DestroyDone, destroy, streamVars, DuplexTypeOK
<1>2. /\ OneFrame(d) /\ PortalOK(d) /\ StreamOK(d) /\ d \in Ids /\ DuplexTypeOK /\ LockInv
      /\ recovery[d] # "none" => Resting(d)
      /\ ~Awaiting(d) <=> active[d].kind \in {"none", "parked", "exhausted"}
  BY <1>1, LiveFacts
<1>3. UNCHANGED <<out, lease, removed, active, queue>> /\ (Awaiting(d)' <=> Awaiting(d))
  BY DEF clientVars, Awaiting
<1>4. UNCHANGED <<xact, openedBy>>
  BY DuplexStepAlone DEF PoolInv
<1>5. CASE NextFrame(d)
  BY <1>2, <1>5 DEF NextFrame, processMessages, OneFrame
<1>6. CASE DrainEnd(d)
  BY <1>1, <1>6, DrainEndLive DEF DrainEnd
<1>7. CASE EnterMutex(d) \/ OpFails(d)
  <2>1. /\ drain[d] = "acquiring" /\ drain'[d] \in {"queued", "failing"}
        /\ drain'[d] = "queued" => op' = op
        /\ UNCHANGED <<lockVars, phase, final, input, buffered, portalVars>>
    BY <1>2, <1>7 DEF EnterMutex, OpFails, DuplexTypeOK
  <2>2. Awaiting(d) /\ buffered[d] = <<>>
    BY <1>2, <2>1 DEF OneFrame, Serving
  <2>3. OneFrame(d)'
    BY <1>2, <1>3, <2>1, <2>2 DEF OneFrame, Serving
  <2>4. PortalOK(d)'
    BY <1>2, <1>3, <1>4, <2>1 DEF PortalOK, Holds, Draining, portalVars, lockVars
  <2> QED BY <1>1, <2>3, <2>4
<1>8. CASE DrainFailed(d) \/ RecoveryFailed(d)
  <2>1. phase[d] # "terminated" \/ DrainFailed(d)
    BY <1>2, <1>8 DEF RecoveryFailed, Resting
  <2>2. destroy(d)
    BY <1>8, <2>1 DEF DrainFailed, RecoveryFailed
  <2> QED BY <1>1, <1>2, <2>2 DEF destroy, DuplexTypeOK
<1>9. CASE EnterRecovery(d) \/ RollbackAfterCall(d)
  <2>1. /\ UNCHANGED <<lockVars, streamVars, portalSuspended, portalRecoveryRequested>>
        /\ recovery'[d] # "none" => recovery[d] # "none"
    BY <1>2, <1>9 DEF EnterRecovery, RollbackAfterCall
  <2>2. OneFrame(d)'
    BY <1>2, <1>3, <2>1 DEF OneFrame, Serving, streamVars
  <2>3. PortalOK(d)'
    BY <1>2, <1>3, <1>4, <2>1 DEF PortalOK, Holds, Draining, lockVars, streamVars
  <2> QED BY <1>1, <2>2, <2>3
<1>10. CASE TerminateDone(d) \/ Final(d) \/ FinalDone(d)
  <2>1. /\ final'[d] # "no" <=> final[d] # "no"
        /\ UNCHANGED <<phase, input, buffered, op, portalSuspended, portalRecoveryRequested,
                       recovery>>
        /\ drain[d] \in {"terminating", "idle", "loop"} => drain'[d] \in {drain[d], "loop"}
        /\ Draining(d) => Draining(d)'
        /\ drain'[d] = drain[d] \/ drain[d] = "terminating"
    BY <1>2, <1>10 DEF TerminateDone, Final, FinalDone, portalVars, DuplexTypeOK, Draining
  <2>2. final[d] # "no"
    BY <1>2, <1>10 DEF TerminateDone, Final, FinalDone, StreamOK, OneFrame
  <2>3. active[d].kind = "none"
    BY <1>2, <2>2 DEF OneFrame
  <2>4. OneFrame(d)'
    BY <1>2, <1>3, <2>1, <2>2, <2>3 DEF OneFrame, Serving
  <2>5. PortalOK(d)'
    BY <1>2, <1>3, <1>4, <2>1, <2>3 DEF PortalOK, Holds, CursorStates
  <2> QED BY <1>1, <2>4, <2>5
<1>11. CASE DestroyDone(d)
  BY <1>1, <1>11 DEF DestroyDone
<1> QED BY <1>1, <1>5, <1>6, <1>7, <1>8, <1>9, <1>10, <1>11 DEF DuplexStep

\* A client that was never checked out has nothing to do.
LEMMA UnmadeRests ==
    ASSUME PoolInv, NEW d \in Duplexes, lease[d] = 0
    PROVE  /\ ~DuplexStep(d) /\ ~Executing(d)
           /\ ~Owes(d, "op") /\ ~Owes(d, "recovery") /\ ~Owes(d, "rollback")
<1>1. /\ ~out[d] /\ active[d] = NoQuery /\ queue[d] = <<>>
      /\ ~tornDown[d] /\ drain[d] = "idle" /\ final[d] = "no" /\ recovery[d] = "none"
      /\ owner # d
  BY DEF PoolInv, ClientOK, UnmadeOK
<1>2. rollback[d] \notin {"await", "queued"}
  BY <1>1 DEF PoolInv, DuplexInv, DuplexOK, RollbackOK
<1>3. ~Executing(d)
  BY <1>1, CallFacts DEF PoolInv
<1>4. ~DuplexStep(d)
  BY <1>1, <1>2 DEF DuplexStep, NextFrame, DrainEnd, EnterMutex, OpFails, DrainFailed,
                    EnterRecovery, RecoveryFailed, RollbackAfterCall, TerminateDone, Final,
                    FinalDone, DestroyDone
<1> QED BY <1>1, <1>2, <1>3, <1>4 DEF Owes

\* A step that moves no client leaves types and leases as they are.
LEMMA ClientsRest ==
    ASSUME PoolInv, DuplexInv', UNCHANGED clientVars, NEW d \in Duplexes
    PROVE  PoolTypeOK' /\ LeaseOK(d)' /\ leases <= leases'
<1>1. PoolTypeOK /\ LeaseOK(d) /\ DuplexTypeOK'
  BY DEF PoolInv, ClientOK, DuplexInv
<1>2. leases \in Nat
  BY LeaseTypes DEF PoolInv
<1> QED BY <1>1, <1>2 DEF PoolTypeOK, LeaseOK, clientVars

\* What a duplex does by itself.
LEMMA DuplexStepPool ==
    ASSUME PoolInv, NEW d \in Duplexes, DuplexStep(d), drain[d] = "loop" => ~Reacting(d),
           UNCHANGED clientVars
    PROVE  PoolInv'
<1>1. DuplexInv'
  <2>1. portalSuspended[d] /\ ~tornDown[d] => final[d] = "no"
    BY LiveFacts DEF PortalOK, OneFrame, CursorStates
  <2> QED BY <2>1, DuplexStepKeeps DEF PoolInv
<1>2. PoolTypeOK' /\ LeaseOK(d)' /\ leases <= leases'
  BY <1>1, ClientsRest
<1>3. Alone(d)
  BY DuplexStepAlone DEF PoolInv
<1>4. UnmadeOK(d)'
  BY UnmadeRests DEF UnmadeOK, clientVars
<1>5. ~tornDown'[d] => OneFrame(d)' /\ PortalOK(d)'
  BY DuplexStepLive
<1> QED BY <1>1, <1>2, <1>3, <1>4, <1>5, StepOfClient DEF ClientOK

-----------------------------------------------------------------------------
(* What the client sees of a call. *)

\* A cursor changes its state.
LEMMA CursorMoves ==
    ASSUME PoolTypeOK, NEW d \in Duplexes, NEW state \in CursorStates,
           active[d].kind \in CursorStates, active' = [active EXCEPT ![d].kind = state]
    PROVE  /\ active' \in [Duplexes -> Queries]
           /\ active'[d].kind = state /\ active'[d].lease = active[d].lease
           /\ \A e \in Duplexes \ {d} : active'[e] = active[e]
<1>1. active \in [Duplexes -> Queries] /\ active[d] \in Queries
  BY DEF PoolTypeOK
<1>2. active[d] \in [kind : {"query", "begin", "end", "rollback"} \cup CursorStates,
                     lease : 0..MaxLeases]
  BY <1>1 DEF Queries, NoQuery, CursorStates
<1>3. [active[d] EXCEPT !.kind = state] \in Queries
  BY <1>2 DEF Queries
<1>4. active' = [active EXCEPT ![d] = [active[d] EXCEPT !.kind = state]]
  OBVIOUS
<1> QED BY <1>1, <1>2, <1>3, <1>4

\* What a response leaves of the portal.
LEMMA ResponseFacts ==
    ASSUME DuplexTypeOK, NEW d \in Duplexes, NEW frame \in Frames, streamProtocol(d, frame)
    PROVE  /\ portalSuspended'[d] => frame = "flush" /\ UNCHANGED lockVars
           /\ openedBy' = d /\ xact' = "implicit" =>
                 portalSuspended'[d] \/ (frame = "query" /\ xact = "implicit" /\ openedBy = d)
<1>1. CASE FlushSuspends(d) /\ frame = "flush"
  BY <1>1 DEF FlushSuspends, DuplexTypeOK
<1>2. CASE FlushFails(d)
  BY <1>2 DEF FlushFails, AfterError, Answered, onReadyForQuery, DuplexTypeOK
<1>3. ASSUME NEW x \in After(frame, xact), frame # "flush", Answered(d, frame, x)
      PROVE  /\ ~portalSuspended'[d]
             /\ openedBy' = d /\ xact' = "implicit" =>
                   frame = "query" /\ xact = "implicit" /\ openedBy = d
  <2>1. ~portalSuspended'[d] /\ xact' = x /\ openedBy' = OpenerAfter(d, frame, x)
    BY <1>3 DEF Answered, onReadyForQuery, DuplexTypeOK
  <2>2. x = "implicit" => xact = "implicit" /\ frame \in {"query", "end", "sync", "begin"}
    BY <1>3 DEF After, Frames, DuplexTypeOK
  <2>3. x = "implicit" => frame = "query"
    BY <1>3, <2>2 DEF After, Frames
  <2>4. x = "implicit" => openedBy' = openedBy
    BY <2>1, <2>2, <2>3 DEF OpenerAfter
  <2> QED BY <2>1, <2>2, <2>3, <2>4
<1> QED BY <1>1, <1>2, <1>3 DEF streamProtocol

\* A call concerns its own duplex.
LEMMA ResponseAlone ==
    ASSUME DuplexInv, NEW d \in Duplexes, owner = d, NEW frame \in Frames,
           streamProtocol(d, frame) \/ CallThrows
    PROVE  \A e \in Duplexes \ {d} :
              /\ portalSuspended'[e] = portalSuspended[e]
              /\ openedBy' = e /\ xact' = "implicit" => openedBy = e /\ xact = "implicit"
<1>1. /\ DuplexTypeOK /\ (xact \in {"block", "failed"} => openedBy = d)
      /\ xact = "idle" <=> openedBy = NoOwner
      /\ xact \in {"idle", "implicit", "block", "failed"}
  BY OwnersTransaction DEF DuplexInv
<1>2. \/ portalSuspended' = portalSuspended
      \/ \E x : portalSuspended' = [portalSuspended EXCEPT ![d] = x]
  BY DEF streamProtocol, FlushSuspends, FlushFails, Answered, onReadyForQuery, CallThrows
<1>3. \/ UNCHANGED <<xact, openedBy>>
      \/ openedBy' \in {d, NoOwner}
      \/ openedBy' = openedBy /\ xact # "idle"
  BY DEF streamProtocol, FlushSuspends, FlushFails, Answered, CallThrows, OpenerAfter
<1>4. NoOwner \notin Duplexes
  BY DuplexAssumption, NoOwnerAssumption
<1> QED BY <1>1, <1>2, <1>3, <1>4 DEF DuplexTypeOK

\* A call's end moves no other client.
LEMMA CallAlone ==
    ASSUME PoolInv, NEW d \in Duplexes, CallReturns(d)
    PROVE  /\ Alone(d) /\ leases' = leases /\ lease[d] # 0
           /\ \/ active' = active
              \/ active[d].kind = "reading" /\ \E state \in {"parked", "exhausted"} :
                     active' = [active EXCEPT ![d].kind = state]
              \/ active' = [active EXCEPT ![d] = NoQuery]
<1>1. DuplexInv /\ DuplexTypeOK /\ LockInv /\ PoolTypeOK /\ d \in Ids
  BY DuplexAssumption DEF PoolInv, DuplexInv
<1>2. UNCHANGED <<out, lease, leases, submits, removed, queue>>
  BY DEF CallReturns
<1>3. /\ active' = active \/ (active[d].kind = "reading" /\ \E state \in {"parked", "exhausted"} :
                                 active' = [active EXCEPT ![d].kind = state])
         \/ active' = [active EXCEPT ![d] = NoQuery]
  BY DEF CallReturns, Responds, Completes
<1>4. \A e \in Duplexes \ {d} : active'[e] = active[e]
  <2>1. \A state \in {"parked", "exhausted"} : state \in CursorStates
    BY DEF CursorStates
  <2>2. active[d].kind = "reading" => active[d].kind \in CursorStates
    BY DEF CursorStates
  <2> QED BY <1>1, <1>3, <2>1, <2>2, CursorMoves DEF PoolTypeOK
<1>5. CASE FinishOp(d) \/ FinishRecovery(d)
  <2> DEFINE frame == IF FinishOp(d) THEN op[d] ELSE "sync"
  <2>1. Executing(d) /\ (streamProtocol(d, frame) \/ CallThrows)
    BY <1>5 DEF FinishOp, FinishRecovery
  <2>2. frame \in Frames
    BY <1>5, <1>1, CallFacts DEF FinishOp, Frames
  <2>3. owner = d
    BY <1>1, <2>1, CallFacts
  <2>4. /\ \A e \in Duplexes \ {d} :
              /\ portalSuspended'[e] = portalSuspended[e]
              /\ openedBy' = e /\ xact' = "implicit" => openedBy = e /\ xact = "implicit"
        /\ \A e \in Duplexes \ {d} : lastSeen'[e] = lastSeen[e]
    <3> HIDE DEF frame
    <3> QED BY <1>1, <2>1, <2>2, <2>3, ResponseAlone, ResponseMoves
  <2>5. /\ UNCHANGED <<phase, tornDown, closed, final, input, buffered, portalRecoveryRequested,
                       rollback>>
        /\ \A e \in Duplexes \ {d} : /\ drain'[e] = drain[e] /\ op'[e] = op[e]
                                     /\ recovery'[e] = recovery[e]
    BY <1>1, <1>5 DEF FinishOp, FinishRecovery, streamVars, DuplexTypeOK
  <2>6. OnlyMoves(d)
    BY <2>4, <2>5 DEF OnlyMoves
  <2>7. OthersClaim(d)
    <3>1. (streamProtocol(d, frame) /\ UNCHANGED faults) \/ CallThrows
      BY <1>5 DEF FinishOp, FinishRecovery
    <3> HIDE DEF frame
    <3> QED BY <1>1, <2>1, <2>2, <2>5, <2>6, <3>1, CallEnds
  <2>8. lease[d] # 0
    BY <2>1, UnmadeRests
  <2> QED BY <1>2, <1>3, <1>4, <2>4, <2>5, <2>6, <2>7, <2>8 DEF Alone
<1>6. CASE FinishRollback(d)
  <2>1. /\ busy /\ Head(mutex) = Job(d, "rollback") /\ openedBy' = NoOwner
        /\ lastSeen' = [lastSeen EXCEPT ![d] = "I"] /\ rollback' = [rollback EXCEPT ![d] = "done"]
        /\ UNCHANGED <<lockVars, streamVars, portalSuspended, portalRecoveryRequested, recovery>>
    BY <1>6 DEF FinishRollback, Job
  <2>2. OnlyMoves(d) /\ OthersClaim(d) /\ NoOwner \notin Duplexes
    BY <1>1, <2>1, LockMoves, DuplexAssumption, NoOwnerAssumption
       DEF OnlyMoves, streamVars, DuplexTypeOK
  <2>3. lease[d] # 0
    <3>1. mutex # <<>>
      BY <1>1, <2>1 DEF DuplexInv, JobsInv
    <3>2. PICK e \in Duplexes, j \in JobKinds : Head(mutex) = Job(e, j) /\ Owes(e, j)
      BY <1>1, <3>1, HeadIsOwed
    <3>3. e = d /\ j = "rollback"
      BY <2>1, <3>2, JobFacts DEF JobKinds
    <3> QED BY <3>2, <3>3, UnmadeRests
  <2> QED BY <1>2, <1>3, <1>4, <2>1, <2>2, <2>3 DEF Alone
<1> QED BY <1>5, <1>6 DEF CallReturns

\* A frame's response completes what pg has active, or parks its cursor.
LEMMA FinishOpLive ==
    ASSUME PoolInv, NEW d \in Duplexes, ~tornDown[d], FinishOp(d), CallReturns(d)
    PROVE  OneFrame(d)' /\ PortalOK(d)'
<1>1. /\ OneFrame(d) /\ PortalOK(d) /\ DuplexTypeOK /\ DuplexInv /\ PoolTypeOK
      /\ recovery[d] # "none" => Resting(d)
      /\ Awaiting(d) => Sent(active[d].kind) \in Frames /\ Sent(active[d].kind) # "terminate"
      /\ Awaiting(d) /\ Sent(active[d].kind) = "flush" => active[d].kind = "reading"
      /\ ~Awaiting(d) <=> active[d].kind \in {"none", "parked", "exhausted"}
  BY LiveFacts DEF PoolInv
<1>2. /\ Executing(d) /\ Head(mutex).job = "op"
      /\ UNCHANGED <<phase, tornDown, closed, final, input, buffered,
                     portalRecoveryRequested, recovery, rollback>>
      /\ UNCHANGED <<out, lease, leases, submits, removed, queue>>
  BY DEF FinishOp, CallReturns
<1>3. drain[d] = "queued" /\ owner = d /\ phase[d] = "ready"
  BY <1>1, <1>2, CallFacts
<1>4. /\ Awaiting(d) /\ op[d] = Sent(active[d].kind) /\ buffered[d] = <<>> /\ input[d] = <<>>
      /\ final[d] = "no" /\ recovery[d] = "none"
  BY <1>1, <1>3 DEF OneFrame, Serving, Resting
<1>5. Responds(d)
  <2>1. ~FinishRecovery(d)
    BY <1>2 DEF FinishRecovery
  <2>2. ~FinishRollback(d)
    BY <1>2 DEF FinishRollback
  <2> QED BY <2>1, <2>2 DEF CallReturns
<1>6. CASE streamProtocol(d, op[d]) /\ drain' = [drain EXCEPT ![d] = "loop"]
  <2>1. /\ portalSuspended'[d] => active[d].kind = "reading" /\ owner' = owner
        /\ openedBy' = d /\ xact' = "implicit" => portalSuspended'[d]
    <3>1. /\ portalSuspended'[d] => op[d] = "flush" /\ UNCHANGED lockVars
          /\ openedBy' = d /\ xact' = "implicit" =>
                portalSuspended'[d] \/ (op[d] = "query" /\ xact = "implicit" /\ openedBy = d)
      BY <1>1, <1>4, <1>6, ResponseFacts
    <3>2. op[d] = "query" => active[d].kind \notin CursorStates
      BY <1>4 DEF Sent, FrameOf, CursorStates
    <3> QED BY <1>1, <1>4, <3>1, <3>2 DEF PortalOK, lockVars
  <2>2. drain'[d] = "loop" /\ recovery'[d] = "none"
    BY <1>1, <1>2, <1>4, <1>6 DEF DuplexTypeOK
  <2>3. CASE portalSuspended'[d]
    <3>1. PICK state \in {"parked", "exhausted"} : active' = [active EXCEPT ![d].kind = state]
      BY <1>5, <2>1, <2>2, <2>3 DEF Responds
    <3>2. active'[d].kind \in {"parked", "exhausted"} /\ active'[d].lease = active[d].lease
      BY <1>1, <2>1, <2>3, <3>1, CursorMoves DEF CursorStates
    <3>3. OneFrame(d)'
      BY <1>2, <1>3, <1>4, <2>2, <3>2, OneFact DEF OneFrame, Awaiting, Serving
    <3>4. PortalOK(d)'
      BY <1>1, <1>2, <1>3, <2>1, <2>2, <2>3, <3>2 DEF PortalOK, CursorStates, Draining
    <3> QED BY <3>3, <3>4
  <2>4. CASE ~portalSuspended'[d]
    <3>1. active'[d].kind = "none"
      BY <1>1, <1>5, <2>2, <2>4 DEF Responds, Completes, PoolTypeOK, NoQuery
    <3>2. OneFrame(d)'
      BY <1>2, <1>3, <1>4, <2>2, <3>1, OneFact DEF OneFrame, Awaiting, Serving
    <3>3. PortalOK(d)'
      BY <1>1, <1>2, <2>1, <2>2, <2>4, <3>1 DEF PortalOK, CursorStates, Draining
    <3> QED BY <3>2, <3>3
  <2> QED BY <2>3, <2>4
<1>7. CASE CallThrows /\ drain' = [drain EXCEPT ![d] = "failing"]
  <2>1. drain'[d] = "failing" /\ UNCHANGED <<active, lockVars, xact, openedBy, portalSuspended>>
    BY <1>1, <1>5, <1>7 DEF Responds, CallThrows, DuplexTypeOK
  <2>2. OneFrame(d)'
    BY <1>2, <1>3, <1>4, <2>1 DEF OneFrame, Awaiting, Serving
  <2>3. PortalOK(d)'
    BY <1>1, <1>2, <2>1 DEF PortalOK, Holds, Draining, lockVars
  <2> QED BY <2>2, <2>3
<1> QED BY <1>6, <1>7 DEF FinishOp

\* The recovery Sync's response completes the parked cursor.
LEMMA FinishRecoveryLive ==
    ASSUME PoolInv, NEW d \in Duplexes, ~tornDown[d], FinishRecovery(d), CallReturns(d)
    PROVE  OneFrame(d)' /\ PortalOK(d)'
<1>1. /\ OneFrame(d) /\ PortalOK(d) /\ DuplexTypeOK /\ DuplexInv /\ PoolTypeOK
      /\ ~Awaiting(d) <=> active[d].kind \in {"none", "parked", "exhausted"}
  BY LiveFacts DEF PoolInv
<1>2. /\ Executing(d) /\ Head(mutex).job = "recovery"
      /\ UNCHANGED <<streamVars, portalRecoveryRequested, rollback>>
      /\ UNCHANGED <<out, lease, leases, submits, removed, queue>>
  BY DEF FinishRecovery, CallReturns
<1>3. recovery[d] = "queued" /\ Resting(d) /\ owner = d
  BY <1>1, <1>2, CallFacts
<1>4. active[d].kind = "parked" /\ ~Holds(d)
  BY <1>1, <1>3 DEF PortalOK
<1>5. Responds(d) /\ ~tornDown[d] /\ drain'[d] # "failing"
  <2>1. ~FinishOp(d)
    BY <1>2 DEF FinishOp
  <2>2. ~FinishRollback(d)
    BY <1>2 DEF FinishRollback
  <2> QED BY <1>2, <1>3, <2>1, <2>2 DEF CallReturns, Resting, streamVars
<1>6. CASE streamProtocol(d, "sync") /\ recovery' = [recovery EXCEPT ![d] = "none"]
  <2>1. /\ ~portalSuspended'[d]
        /\ openedBy' = d /\ xact' = "implicit" => portalSuspended'[d]
    <3>1. "sync" \in Frames
      BY DEF Frames
    <3> QED BY <1>1, <1>6, <3>1, ResponseFacts
  <2>2. recovery'[d] = "none"
    BY <1>1, <1>6 DEF DuplexTypeOK
  <2>3. active'[d].kind = "none"
    BY <1>1, <1>5, <2>1, <2>2 DEF Responds, Completes, PoolTypeOK, NoQuery
  <2>4. OneFrame(d)'
    BY <1>1, <1>2, <1>4, <2>3 DEF OneFrame, Awaiting, Serving, streamVars
  <2>5. PortalOK(d)'
    BY <1>1, <1>2, <2>1, <2>2, <2>3 DEF PortalOK, CursorStates, Draining, streamVars
  <2> QED BY <2>4, <2>5
<1>7. CASE CallThrows /\ recovery' = [recovery EXCEPT ![d] = "failed"]
  <2>1. recovery'[d] = "failed" /\ UNCHANGED <<active, lockVars, xact, openedBy, portalSuspended>>
    BY <1>1, <1>5, <1>7 DEF Responds, CallThrows, DuplexTypeOK
  <2>2. OneFrame(d)'
    BY <1>1, <1>2, <2>1 DEF OneFrame, Awaiting, Serving, streamVars
  <2>3. PortalOK(d)'
    BY <1>1, <1>2, <1>4, <2>1 DEF PortalOK, Holds, Draining, lockVars, streamVars
  <2> QED BY <2>2, <2>3
<1> QED BY <1>6, <1>7 DEF FinishRecovery

\* PGlite is done with a call of a client.
LEMMA CallReturnsKeeps ==
    ASSUME PoolInv, NEW d \in Duplexes, CallReturns(d)
    PROVE  PoolInv'
<1>1. DuplexInv'
  BY FinishOpKeeps, FinishRecoveryKeeps, FinishRollbackKeeps DEF PoolInv, CallReturns
<1>2. /\ PoolTypeOK /\ LeaseOK(d) /\ DuplexTypeOK'
      /\ UNCHANGED <<out, lease, leases, submits, removed, queue>>
  BY <1>1 DEF PoolInv, ClientOK, CallReturns, DuplexInv
<1>3. /\ Alone(d) /\ leases' = leases /\ lease[d] # 0
      /\ active' = active \/ (active[d].kind = "reading" /\ \E state \in {"parked", "exhausted"} :
                                 active' = [active EXCEPT ![d].kind = state])
         \/ active' = [active EXCEPT ![d] = NoQuery]
  BY CallAlone
<1>4. active' \in [Duplexes -> Queries] /\ (active'[d].lease \in {0, active[d].lease})
  <2>1. CASE active' = [active EXCEPT ![d] = NoQuery]
    BY <1>2, <2>1 DEF PoolTypeOK, Queries, NoQuery
  <2>2. ASSUME NEW state \in {"parked", "exhausted"}, active[d].kind = "reading",
               active' = [active EXCEPT ![d].kind = state]
        PROVE  active' \in [Duplexes -> Queries] /\ active'[d].lease = active[d].lease
    BY <1>2, <2>2, CursorMoves DEF CursorStates
  <2> QED BY <1>2, <1>3, <2>1, <2>2 DEF PoolTypeOK
<1>5. leases \in Nat /\ lease[d] \in Nat /\ active[d].lease \in 0..MaxLeases /\ MaxLeases \in Nat
  BY <1>2, LeaseTypes
<1>6. openedIn' \in 0..MaxLeases
  BY <1>2, <1>5 DEF CallReturns, OpenedInAfter, PoolTypeOK
<1>7. PoolTypeOK'
  BY <1>2, <1>4, <1>6 DEF PoolTypeOK
<1>8. LeaseOK(d)' /\ UnmadeOK(d)'
  BY <1>2, <1>3, <1>4, <1>5 DEF LeaseOK, UnmadeOK
<1>9. ASSUME ~tornDown'[d] PROVE OneFrame(d)' /\ PortalOK(d)'
  <2>1. ~tornDown[d]
    BY <1>9 DEF CallReturns, FinishOp, FinishRecovery, FinishRollback, streamVars
  <2>2. CASE FinishOp(d)
    BY <2>1, <2>2, FinishOpLive
  <2>3. CASE FinishRecovery(d)
    BY <2>1, <2>3, FinishRecoveryLive
  <2>4. CASE FinishRollback(d) /\ UNCHANGED active
    <3>1. /\ OneFrame(d) /\ PortalOK(d)
          /\ UNCHANGED <<lockVars, streamVars, portalSuspended, portalRecoveryRequested, recovery>>
          /\ openedBy' = NoOwner /\ d # NoOwner
      BY <2>1, <2>4, LiveFacts, DuplexAssumption, NoOwnerAssumption DEF FinishRollback
    <3>2. OneFrame(d)'
      BY <1>2, <2>4, <3>1 DEF OneFrame, Awaiting, Serving, streamVars
    <3>3. PortalOK(d)'
      BY <1>2, <2>4, <3>1 DEF PortalOK, Holds, Draining, streamVars, lockVars
    <3> QED BY <3>2, <3>3
  <2> QED BY <2>2, <2>3, <2>4 DEF CallReturns
<1> QED BY <1>1, <1>3, <1>7, <1>8, <1>9, StepOfClient, <1>5 DEF ClientOK

\* PGlite takes its next job, or drops one of a duplex that is torn down.
LEMMA StartJobPool ==
    ASSUME PoolInv, StartJob, UNCHANGED clientVars
    PROVE  PoolInv'
<1>1. DuplexInv' /\ DuplexInv /\ DuplexTypeOK /\ LockInv
  BY StartJobKeeps DEF PoolInv, DuplexInv
<1>2. ~busy /\ mutex # <<>>
  BY DEF StartJob
<1>3. PICK d \in Duplexes, j \in JobKinds : Head(mutex) = Job(d, j) /\ Owes(d, j)
  BY <1>1, <1>2, HeadIsOwed
<1>4. Head(mutex).by = d /\ Head(mutex).job = j
  BY <1>3, JobFacts
<1>5. /\ IF j # "rollback" /\ (tornDown[d] \/ phase[d] = "terminated")
         THEN /\ drain' = IF j = "op" THEN [drain EXCEPT ![d] = "loop"] ELSE drain
              /\ op' = IF j = "op" THEN [op EXCEPT ![d] = "none"] ELSE op
              /\ recovery' = IF j = "recovery" THEN [recovery EXCEPT ![d] = "none"] ELSE recovery
         ELSE UNCHANGED <<drain, op, recovery>>
      /\ UNCHANGED <<lockVars, xact, openedBy, faults, phase, tornDown, closed, final, input,
                     buffered, lastSeen, portalSuspended, portalRecoveryRequested, rollback>>
  BY <1>4 DEF StartJob
<1>6. PoolTypeOK' /\ LeaseOK(d)' /\ leases <= leases'
  BY <1>1, ClientsRest
<1>7. Alone(d)
  <2>1. OthersClaim(d)
    BY <1>1, <1>5, LockMoves, DuplexAssumption
  <2> QED BY <1>1, <1>5, <2>1 DEF Alone, OnlyMoves, clientVars, DuplexTypeOK
<1>8. UnmadeOK(d)'
  <2>1. lease[d] # 0
    BY <1>3, UnmadeRests DEF JobKinds
  <2> QED BY <2>1 DEF UnmadeOK, clientVars
<1>9. ASSUME ~tornDown'[d] PROVE OneFrame(d)' /\ PortalOK(d)'
  <2>1. ~tornDown[d]
    BY <1>5, <1>9
  <2>2. /\ OneFrame(d) /\ PortalOK(d) /\ StreamOK(d) /\ (recovery[d] # "none" => Resting(d))
    BY <2>1, LiveFacts
  <2>3. j # "rollback" => phase[d] # "terminated"
    BY <1>3, <2>2 DEF Owes, StreamOK, Serving, Resting, JobKinds
  <2>4. UNCHANGED <<drain, op, recovery>>
    BY <1>5, <2>1, <2>3
  <2>5. OneFrame(d)'
    BY <1>5, <2>2, <2>4 DEF OneFrame, Awaiting, Serving, clientVars
  <2>6. PortalOK(d)'
    BY <1>5, <2>2, <2>4 DEF PortalOK, Holds, Draining, lockVars, clientVars
  <2> QED BY <2>5, <2>6
<1> QED BY <1>1, <1>6, <1>7, <1>8, <1>9, StepOfClient DEF ClientOK

-----------------------------------------------------------------------------
(* What clients send. *)

\* A write moves no other duplex.
LEMMA WriteAlone ==
    ASSUME DuplexInv, NEW d \in Duplexes, NEW frame, Write(d, frame)
    PROVE  /\ OnlyMoves(d) /\ OthersClaim(d) /\ UNCHANGED <<xact, openedBy>>
           /\ \A e \in Duplexes \ {d} :
                 /\ portalSuspended'[e] = portalSuspended[e]
                 /\ portalRecoveryRequested'[e] = portalRecoveryRequested[e]
<1>1. DuplexTypeOK /\ LockInv /\ d \in Ids
  BY DuplexAssumption DEF DuplexInv
<1>2. /\ UNCHANGED <<xact, openedBy, busy, faults, tornDown, closed, final, lastSeen, recovery>>
      /\ write(d, frame)
  BY DEF Write
<1>3. CASE processMessages(d, <<frame>>) /\ UNCHANGED buffered
  BY <1>2, <1>3, ProcessMoves DEF OnlyMoves
<1>4. CASE UNCHANGED <<lockVars, mutex, phase, input, drain, op, portalSuspended,
                       portalRecoveryRequested, rollback>>
           /\ (buffered' = [buffered EXCEPT ![d] = Append(@, frame)] \/ UNCHANGED buffered)
  BY <1>1, <1>2, <1>4, LockMoves DEF OnlyMoves, DuplexTypeOK
<1> QED BY <1>2, <1>3, <1>4 DEF write

\* A client that waits for nothing has its next frame served at once, or by the
\* drain loop that is about to end.
LEMMA WriteLive ==
    ASSUME PoolInv, NEW d \in Duplexes, NEW frame \in Frames, Write(d, frame), ~Awaiting(d),
           Awaiting(d)', frame = Sent(active'[d].kind), recovery[d] = "none"
    PROVE  /\ DuplexInv' /\ OneFrame(d)' /\ ~tornDown[d] /\ ~tornDown'[d] /\ Draining(d)'
           /\ final[d] = "no" /\ (owner = d => owner' = d) /\ recovery'[d] = "none"
           /\ UNCHANGED <<xact, openedBy, portalSuspended, portalRecoveryRequested>>
<1>1. /\ write(d, frame) /\ ~tornDown[d] /\ final[d] = "no"
      /\ UNCHANGED <<xact, openedBy, busy, faults, tornDown, closed, final, lastSeen, recovery>>
  BY DEF Write
<1>2. /\ OneFrame(d) /\ StreamOK(d) /\ d \in Ids /\ DuplexTypeOK /\ LockInv
  BY <1>1, LiveFacts
<1>3. /\ drain[d] \in {"idle", "loop"} /\ buffered[d] = <<>> /\ phase[d] = "ready"
      /\ input[d] = <<>> /\ frame # "terminate"
  BY <1>1, <1>2 DEF OneFrame, Serving, StreamOK, Frames, DuplexTypeOK, DrainStates
<1>4. DuplexInv'
  BY WriteKeeps DEF PoolInv
<1>5. CASE drain[d] = "idle"
  <2>1. BeginFrame(d, <<frame>>) /\ UNCHANGED buffered
    BY <1>1, <1>3, <1>5, OneFact DEF write, Draining, processMessages
  <2>2. op'[d] = frame /\ input'[d] = <<>> /\ drain'[d] = "acquiring"
    BY <1>2, <2>1, OneFact DEF BeginFrame, DuplexTypeOK
  <2>3. owner = d => owner' = d
    BY <1>2, <2>1, AcquireStep DEF BeginFrame
  <2>4. OneFrame(d)'
    BY <1>1, <1>2, <1>3, <2>1, <2>2, OneFact DEF OneFrame, Serving, BeginFrame
  <2> QED BY <1>1, <1>4, <2>1, <2>2, <2>3, <2>4 DEF BeginFrame, Draining
<1>6. CASE drain[d] = "loop"
  <2>1. /\ buffered' = [buffered EXCEPT ![d] = Append(@, frame)]
        /\ UNCHANGED <<lockVars, mutex, phase, input, drain, op, portalSuspended,
                       portalRecoveryRequested, rollback>>
    BY <1>1, <1>6 DEF write, Draining
  <2>2. buffered'[d] = <<frame>>
    BY <1>2, <1>3, <2>1, OneFact DEF DuplexTypeOK
  <2>3. OneFrame(d)'
    BY <1>1, <1>2, <1>3, <1>6, <2>1, <2>2, OneFact DEF OneFrame, Serving
  <2> QED BY <1>1, <1>4, <1>6, <2>1, <2>3 DEF Draining, lockVars
<1> QED BY <1>3, <1>5, <1>6

\* pg's next active query and its frame.
LEMMA SendMoves ==
    ASSUME PoolTypeOK, NEW d \in Duplexes, NEW q \in Queued, q.kind # "cleanup", Send(d, q)
    PROVE  /\ active' \in [Duplexes -> Queries] /\ active'[d].lease = q.lease
           /\ active'[d].kind = IF q.kind = "cursor" THEN "reading" ELSE q.kind
           /\ q.kind \in {"query", "begin", "end", "rollback", "cursor"}
           /\ \A e \in Duplexes \ {d} : active'[e] = active[e]
           /\ Awaiting(d)' /\ Sent(active'[d].kind) = FrameOf(q.kind)
           /\ FrameOf(q.kind) \in Frames /\ Write(d, FrameOf(q.kind))
<1> DEFINE r == IF q.kind = "cursor" THEN [q EXCEPT !.kind = "reading"] ELSE q
<1>1. q.kind \in {"query", "begin", "end", "rollback", "cursor"} /\ q.lease \in 0..MaxLeases
  BY DEF Queued
<1>2. r \in Queries /\ r.lease = q.lease /\ r.kind = IF q.kind = "cursor" THEN "reading" ELSE q.kind
  <2>1. CASE q.kind = "cursor"
    <3>1. r = [kind |-> "reading", lease |-> q.lease]
      BY <2>1 DEF Queued
    <3> QED BY <1>1, <2>1, <3>1 DEF Queries, CursorStates
  <2>2. CASE q.kind # "cursor"
    <3>1. q = [kind |-> q.kind, lease |-> q.lease]
      BY DEF Queued
    <3> QED BY <1>1, <2>2, <3>1 DEF Queries
  <2> QED BY <2>1, <2>2
<1>3. active' = [active EXCEPT ![d] = r] /\ Write(d, FrameOf(q.kind))
  BY DEF Send
<1>4. active \in [Duplexes -> Queries]
  BY DEF PoolTypeOK
<1> HIDE DEF r
<1>5. active'[d] = r /\ active' \in [Duplexes -> Queries]
  BY <1>2, <1>3, <1>4
<1>6. Awaiting(d)' /\ Sent(active'[d].kind) = FrameOf(q.kind) /\ FrameOf(q.kind) \in Frames
  BY <1>1, <1>2, <1>5 DEF Awaiting, Sent, FrameOf, Frames
<1> QED BY <1>1, <1>2, <1>3, <1>4, <1>5, <1>6

\* pg makes what it has submitted its active query.
LEMMA SendKeeps ==
    ASSUME PoolInv, NEW d \in Duplexes, NEW q \in Queued, q.kind # "cleanup", Send(d, q),
           Idle(d), q.lease <= lease[d], lease[d] # 0,
           UNCHANGED <<out, lease, leases, removed, openedIn>>, submits' \in 0..MaxSubmits,
           queue' \in [Duplexes -> Seq(Queued)],
           \A e \in Duplexes \ {d} : queue'[e] = queue[e],
           \A k \in DOMAIN queue'[d] : \E j \in DOMAIN queue[d] : queue'[d][k] = queue[d][j],
           portalRecoveryRequested[d] /\ out[d] /\ q.kind = "cursor" => q.lease # lease[d]
    PROVE  PoolInv'
<1>1. /\ active' \in [Duplexes -> Queries] /\ active'[d].lease = q.lease
      /\ active'[d].kind = IF q.kind = "cursor" THEN "reading" ELSE q.kind
      /\ q.kind \in {"query", "begin", "end", "rollback", "cursor"}
      /\ \A e \in Duplexes \ {d} : active'[e] = active[e]
      /\ Awaiting(d)' /\ Sent(active'[d].kind) = FrameOf(q.kind)
      /\ FrameOf(q.kind) \in Frames /\ Write(d, FrameOf(q.kind))
  BY SendMoves DEF PoolInv
<1>2. ~tornDown[d] /\ PoolTypeOK /\ DuplexInv
  BY <1>1 DEF Write, PoolInv
<1>3. PortalOK(d) /\ LeaseOK(d) /\ active[d].kind = "none" /\ ~Awaiting(d)
  BY <1>2, LiveFacts DEF Idle, Awaiting
<1>4. recovery[d] = "none" /\ ~portalSuspended[d]
  BY <1>3 DEF PortalOK, CursorStates
<1>5. /\ DuplexInv' /\ OneFrame(d)' /\ ~tornDown'[d] /\ Draining(d)'
      /\ (owner = d => owner' = d) /\ recovery'[d] = "none"
      /\ UNCHANGED <<xact, openedBy, portalSuspended, portalRecoveryRequested>>
  BY <1>1, <1>3, <1>4, WriteLive
<1>6. Alone(d)
  BY <1>1, <1>2, WriteAlone DEF Alone
<1>7. PortalOK(d)'
  <2>1. portalRecoveryRequested[d] /\ out[d] =>
           /\ active'[d].kind \in CursorStates => active'[d].lease # lease[d]
           /\ \A k \in DOMAIN queue'[d] :
                 queue'[d][k].kind = "cursor" => queue'[d][k].lease # lease[d]
    BY <1>1, <1>3 DEF PortalOK, CursorStates
  <2> QED BY <1>1, <1>3, <1>4, <1>5, <2>1 DEF PortalOK
<1>8. LeaseOK(d)' /\ UnmadeOK(d)'
  BY <1>1, <1>3 DEF LeaseOK, UnmadeOK
<1>9. PoolTypeOK'
  BY <1>1, <1>2, <1>5 DEF PoolTypeOK, DuplexInv
<1>10. leases <= leases'
  BY <1>2, LeaseTypes
<1> QED BY <1>5, <1>6, <1>7, <1>8, <1>9, <1>10, StepOfClient DEF ClientOK

\* Something else is submitted, or waits no more.
LEMMA QueueKeeps ==
    ASSUME PoolInv, NEW d \in Duplexes, UNCHANGED duplexVars, lease[d] # 0,
           UNCHANGED <<out, lease, leases, removed, active, openedIn>>, submits' \in 0..MaxSubmits,
           queue' \in [Duplexes -> Seq(Queued)],
           \A e \in Duplexes \ {d} : queue'[e] = queue[e],
           \A k \in DOMAIN queue'[d] :
              /\ queue'[d][k].lease <= lease[d]
              /\ ~tornDown[d] /\ portalRecoveryRequested[d] /\ out[d]
                    /\ queue'[d][k].kind = "cursor" => queue'[d][k].lease # lease[d]
    PROVE  PoolInv'
<1>1. DuplexInv' /\ PoolTypeOK /\ LeaseOK(d) /\ d \in Ids /\ LockInv
  BY DuplexStutter, DuplexAssumption DEF PoolInv, DuplexInv, ClientOK
<1>2. PoolTypeOK'
  BY <1>1 DEF PoolTypeOK, DuplexInv
<1>3. Alone(d)
  BY <1>1, LockMoves DEF Alone, OnlyMoves, duplexVars, streamVars, portalVars, pgliteVars
<1>4. LeaseOK(d)' /\ UnmadeOK(d)'
  BY <1>1 DEF LeaseOK, UnmadeOK
<1>5. ASSUME ~tornDown'[d] PROVE OneFrame(d)' /\ PortalOK(d)'
  <2>1. OneFrame(d) /\ PortalOK(d)
    BY <1>5, LiveFacts DEF duplexVars, streamVars
  <2>2. OneFrame(d)'
    BY <2>1 DEF OneFrame, Awaiting, Serving, duplexVars, streamVars
  <2>3. PortalOK(d)'
    BY <1>5, <2>1 DEF PortalOK, Holds, Draining, duplexVars, streamVars, portalVars, pgliteVars,
                      lockVars
  <2> QED BY <2>2, <2>3
<1>6. leases <= leases'
  BY <1>1, LeaseTypes
<1> QED BY <1>1, <1>2, <1>3, <1>4, <1>5, <1>6, StepOfClient DEF ClientOK

\* Something is added to a submission queue.
LEMMA Submitted ==
    ASSUME PoolTypeOK, NEW d \in Duplexes, NEW q \in Queued,
           queue' = [queue EXCEPT ![d] = Append(@, q)]
    PROVE  /\ queue' \in [Duplexes -> Seq(Queued)]
           /\ \A e \in Duplexes \ {d} : queue'[e] = queue[e]
           /\ DOMAIN queue[d] = 1..Len(queue[d]) /\ Len(queue[d]) \in Nat
           /\ DOMAIN queue'[d] = 1..(Len(queue[d]) + 1)
           /\ \A k \in DOMAIN queue[d] : queue'[d][k] = queue[d][k]
           /\ queue'[d][Len(queue[d]) + 1] = q
           /\ \A k \in DOMAIN queue'[d] : k \in DOMAIN queue[d] \/ k = Len(queue[d]) + 1
<1>1. queue \in [Duplexes -> Seq(Queued)] /\ queue[d] \in Seq(Queued)
  BY DEF PoolTypeOK
<1>2. queue'[d] = Append(queue[d], q) /\ queue' \in [Duplexes -> Seq(Queued)]
  BY <1>1
<1> QED BY <1>1, <1>2

\* A borrower submits a query.
LEMMA QueryKeeps ==
    ASSUME PoolInv, NEW d \in Duplexes, NEW kind \in Kinds, query(d, kind)
    PROVE  PoolInv'
<1> DEFINE q == [kind |-> kind, lease |-> lease[d]]
<1>1. /\ out[d] /\ ~tornDown[d] /\ submits' = submits + 1 /\ submits < MaxSubmits
      /\ UNCHANGED <<out, lease, leases, removed, openedIn>>
      /\ IF Idle(d) /\ queue[d] = <<>>
         THEN Send(d, q) /\ UNCHANGED queue
         ELSE queue' = [queue EXCEPT ![d] = Append(@, q)] /\ UNCHANGED <<duplexVars, active>>
  BY DEF query
<1>2. kind \in {"query", "begin", "end", "cursor"} /\ MaxSubmits \in Nat
  BY PoolAssumption, Zenon
<1>3. kind = "cursor" => ~(Draining(d) /\ portalRecoveryRequested[d])
  <2>1. kind = "cursor" => (Draining(d) /\ portalRecoveryRequested[d] => "early cursor" \in {})
    BY Zenon DEF query, MayQuery, PoolInv
  <2> QED BY <2>1, Zenon
<1>4. PoolTypeOK /\ PortalOK(d) /\ LeaseOK(d)
  BY <1>1, LiveFacts DEF PoolInv
<1>5. /\ q \in Queued /\ q.kind = kind /\ q.lease = lease[d] /\ lease[d] \in Nat /\ lease[d] # 0
      /\ submits' \in 0..MaxSubmits /\ queue \in [Duplexes -> Seq(Queued)]
  <2>1. /\ lease[d] \in 0..MaxLeases /\ submits \in 0..MaxSubmits
        /\ queue \in [Duplexes -> Seq(Queued)]
    BY <1>4 DEF PoolTypeOK
  <2>2. q \in Queued /\ q.kind = kind /\ q.lease = lease[d]
    BY <1>2, <2>1 DEF Queued
  <2>3. submits' \in 0..MaxSubmits
    BY <1>1, <1>2, <2>1
  <2>4. lease[d] # 0 /\ lease[d] \in Nat
    BY <1>1, <1>4, LeaseTypes DEF LeaseOK
  <2> QED BY <2>1, <2>2, <2>3, <2>4
<1> HIDE DEF q
<1>6. kind = "cursor" => ~portalRecoveryRequested[d]
  BY <1>3, <1>4 DEF PortalOK
<1>7. CASE Idle(d) /\ queue[d] = <<>>
  <2>1. Send(d, q) /\ UNCHANGED queue /\ q.kind # "cleanup"
    BY <1>1, <1>2, <1>5, <1>7
  <2> QED BY <1>1, <1>5, <1>6, <1>7, <2>1, SendKeeps
<1>8. CASE ~(Idle(d) /\ queue[d] = <<>>)
  <2>1. queue' = [queue EXCEPT ![d] = Append(@, q)] /\ UNCHANGED <<duplexVars, active>>
    BY <1>1, <1>8
  <2>2. \A k \in DOMAIN queue'[d] : (k \in DOMAIN queue[d] /\ queue'[d][k] = queue[d][k])
                                    \/ queue'[d][k] = q
    BY <1>4, <1>5, <2>1, Submitted
  <2>3. \A k \in DOMAIN queue'[d] :
              /\ queue'[d][k].lease <= lease[d]
              /\ portalRecoveryRequested[d] /\ out[d] /\ queue'[d][k].kind = "cursor" =>
                    queue'[d][k].lease # lease[d]
    BY <1>4, <1>5, <1>6, <2>2 DEF LeaseOK, PortalOK
  <2>4. queue' \in [Duplexes -> Seq(Queued)] /\ \A e \in Duplexes \ {d} : queue'[e] = queue[e]
    BY <1>4, <1>5, <2>1, Submitted
  <2> QED BY <1>1, <1>5, <2>1, <2>3, <2>4, QueueKeeps
<1> QED BY <1>7, <1>8

\* The head of a submission queue, and what is behind it.
LEMMA QueueHead ==
    ASSUME PoolTypeOK, NEW d \in Duplexes, queue[d] # <<>>, queue' = [queue EXCEPT ![d] = Tail(@)]
    PROVE  /\ queue' \in [Duplexes -> Seq(Queued)] /\ 1 \in DOMAIN queue[d]
           /\ Head(queue[d]) = queue[d][1] /\ Head(queue[d]) \in Queued
           /\ \A e \in Duplexes \ {d} : queue'[e] = queue[e]
           /\ DOMAIN queue[d] = 1..Len(queue[d]) /\ Len(queue[d]) \in Nat
           /\ DOMAIN queue'[d] = 1..(Len(queue[d]) - 1)
           /\ \A k \in DOMAIN queue'[d] :
                 k + 1 \in DOMAIN queue[d] /\ queue'[d][k] = queue[d][k + 1]
<1>1. queue \in [Duplexes -> Seq(Queued)] /\ queue[d] \in Seq(Queued)
  BY DEF PoolTypeOK
<1>2. queue'[d] = Tail(queue[d])
  BY <1>1
<1>3. Tail(queue[d]) \in Seq(Queued) /\ Len(queue[d]) \in Nat \ {0}
  BY <1>1, EmptySeq
<1>4. queue' \in [Duplexes -> Seq(Queued)]
  BY <1>1, <1>3
<1> QED BY <1>1, <1>2, <1>3, <1>4

\* pg takes the next query of its queue.
LEMMA PulseKeeps ==
    ASSUME PoolInv, NEW d \in Duplexes, Pulse(d)
    PROVE  PoolInv'
<1>1. /\ Idle(d) /\ queue[d] # <<>> /\ Head(queue[d]).kind # "cleanup"
      /\ Send(d, Head(queue[d])) /\ queue' = [queue EXCEPT ![d] = Tail(@)]
      /\ UNCHANGED <<out, lease, leases, submits, removed, openedIn>>
  BY DEF Pulse
<1>2. PoolTypeOK /\ ~tornDown[d]
  BY <1>1 DEF PoolInv, Send, Write
<1>3. /\ Head(queue[d]) = queue[d][1] /\ Head(queue[d]) \in Queued /\ 1 \in DOMAIN queue[d]
      /\ queue' \in [Duplexes -> Seq(Queued)] /\ \A e \in Duplexes \ {d} : queue'[e] = queue[e]
      /\ \A k \in DOMAIN queue'[d] : k + 1 \in DOMAIN queue[d] /\ queue'[d][k] = queue[d][k + 1]
  BY <1>1, <1>2, QueueHead
<1>4. PortalOK(d) /\ LeaseOK(d) /\ lease[d] # 0
  BY <1>1, <1>2, LiveFacts DEF PoolInv, ClientOK, UnmadeOK
<1>5. /\ Head(queue[d]).lease <= lease[d] /\ submits' \in 0..MaxSubmits
      /\ portalRecoveryRequested[d] /\ out[d] /\ Head(queue[d]).kind = "cursor" =>
            Head(queue[d]).lease # lease[d]
  BY <1>1, <1>2, <1>3, <1>4 DEF LeaseOK, PortalOK, PoolTypeOK
<1> QED BY <1>1, <1>3, <1>4, <1>5, SendKeeps

\* A cursor reads on or is closed.
LEMMA CursorWritesKeeps ==
    ASSUME PoolInv, NEW d \in Duplexes,
           CursorRead(d) \/ CursorClose(d) \/ CursorExhausted(d)
    PROVE  PoolInv'
<1>1. PICK frame \in {"flush", "sync"}, state \in {"reading", "closing"} :
         /\ CursorWrites(d, frame, state) /\ frame = IF state = "reading" THEN "flush" ELSE "sync"
         /\ active[d].kind \in {"parked", "exhausted"} /\ (active[d].kind = "parked" => Holds(d))
  BY DEF CursorRead, CursorClose, CursorExhausted
<1>2. /\ active' = [active EXCEPT ![d].kind = state] /\ Write(d, frame)
      /\ UNCHANGED <<out, lease, leases, submits, removed, queue, openedIn>>
  BY <1>1 DEF CursorWrites
<1>3. PoolTypeOK /\ ~tornDown[d] /\ DuplexInv
  BY <1>2 DEF PoolInv, Write
<1>4. /\ active' \in [Duplexes -> Queries]
      /\ active'[d].kind = state /\ active'[d].lease = active[d].lease
      /\ \A e \in Duplexes \ {d} : active'[e] = active[e]
  BY <1>1, <1>2, <1>3, CursorMoves DEF CursorStates
<1>5. PortalOK(d) /\ LeaseOK(d) /\ ~Awaiting(d)
  BY <1>1, <1>3, LiveFacts
<1>6. recovery[d] = "none"
  BY <1>1, <1>5 DEF PortalOK
<1>7. Awaiting(d)' /\ frame = Sent(active'[d].kind) /\ frame \in Frames
  BY <1>1, <1>4 DEF Awaiting, Sent, Frames
<1>8. /\ DuplexInv' /\ OneFrame(d)' /\ ~tornDown'[d] /\ Draining(d)'
      /\ (owner = d => owner' = d) /\ recovery'[d] = "none"
      /\ UNCHANGED <<xact, openedBy, portalSuspended, portalRecoveryRequested>>
  BY <1>2, <1>5, <1>6, <1>7, WriteLive
<1>9. Alone(d)
  BY <1>2, <1>3, <1>4, WriteAlone DEF Alone
<1>10. PortalOK(d)'
  BY <1>1, <1>2, <1>4, <1>5, <1>8 DEF PortalOK, CursorStates
<1>11. lease[d] # 0 /\ LeaseOK(d)' /\ UnmadeOK(d)'
  <2>1. lease[d] # 0
    BY <1>1, LeaseTypes, <1>3 DEF PoolInv, ClientOK, UnmadeOK
  <2> QED BY <1>2, <1>4, <1>5, <2>1 DEF LeaseOK, UnmadeOK
<1>12. PoolTypeOK'
  BY <1>2, <1>3, <1>4, <1>8 DEF PoolTypeOK, DuplexInv
<1>13. leases <= leases'
  BY <1>2, <1>3, LeaseTypes
<1> QED BY <1>8, <1>9, <1>10, <1>11, <1>12, <1>13, StepOfClient DEF ClientOK

-----------------------------------------------------------------------------
(* The cleanup link, and what destroys a client's duplex. *)

\* What is left of a sequence when one entry is taken out.
LEMMA RemoveFact ==
    ASSUME NEW S, NEW q \in Seq(S), NEW k \in 1..Len(q)
    PROVE  /\ RemoveAt(q, k) \in Seq(S) /\ Len(RemoveAt(q, k)) = Len(q) - 1 /\ Len(q) \in Nat
           /\ \A i \in 1..(Len(q) - 1) : RemoveAt(q, k)[i] = IF i < k THEN q[i] ELSE q[i + 1]
<1> DEFINE a == SubSeq(q, 1, k - 1)
           b == SubSeq(q, k + 1, Len(q))
<1>1. Len(q) \in Nat /\ \A i \in 1..Len(q) : q[i] \in S
  BY ElementOfSeq, LenProperties
<1>2. a \in Seq(S) /\ Len(a) = k - 1 /\ \A i \in 1..(k - 1) : a[i] = q[i]
  <2>1. \A i \in 1..(k - 1) : q[i] \in S
    BY <1>1
  <2>2. /\ a \in Seq(S) /\ Len(a) = IF 1 <= k - 1 THEN k - 1 - 1 + 1 ELSE 0
        /\ \A i \in 1..(k - 1 - 1 + 1) : a[i] = q[1 + i - 1]
    BY <1>1, <2>1, SubSeqProperties
  <2> HIDE DEF a
  <2> QED BY <1>1, <2>2
<1>3. b \in Seq(S) /\ Len(b) = Len(q) - k /\ \A i \in 1..(Len(q) - k) : b[i] = q[k + i]
  <2>1. \A i \in (k + 1)..Len(q) : q[i] \in S
    BY <1>1
  <2>2. /\ b \in Seq(S)
        /\ Len(b) = IF k + 1 <= Len(q) THEN Len(q) - (k + 1) + 1 ELSE 0
        /\ \A i \in 1..(Len(q) - (k + 1) + 1) : b[i] = q[k + 1 + i - 1]
    BY <1>1, <2>1, SubSeqProperties
  <2> HIDE DEF b
  <2> QED BY <1>1, <2>2
<1>4. RemoveAt(q, k) = a \o b
  BY DEF RemoveAt
<1> HIDE DEF a, b
<1>5. /\ a \o b \in Seq(S) /\ Len(a \o b) = Len(a) + Len(b)
      /\ \A i \in 1..(Len(a) + Len(b)) : (a \o b)[i] = IF i <= Len(a) THEN a[i] ELSE b[i - Len(a)]
  BY <1>2, <1>3, ConcatProperties
<1> QED BY <1>1, <1>2, <1>3, <1>4, <1>5

\* An entry is taken out of a submission queue.
LEMMA QueueShrinks ==
    ASSUME PoolTypeOK, NEW d \in Duplexes, NEW k \in DOMAIN queue[d],
           queue' = [queue EXCEPT ![d] = RemoveAt(@, k)]
    PROVE  /\ queue' \in [Duplexes -> Seq(Queued)]
           /\ \A e \in Duplexes \ {d} : queue'[e] = queue[e]
           /\ DOMAIN queue[d] = 1..Len(queue[d]) /\ Len(queue[d]) \in Nat
           /\ DOMAIN queue'[d] = 1..(Len(queue[d]) - 1)
           /\ \A i \in DOMAIN queue'[d] :
                 queue'[d][i] = IF i < k THEN queue[d][i] ELSE queue[d][i + 1]
<1>1. queue \in [Duplexes -> Seq(Queued)] /\ queue[d] \in Seq(Queued)
  BY DEF PoolTypeOK
<1>2. queue'[d] = RemoveAt(queue[d], k) /\ \A e \in Duplexes \ {d} : queue'[e] = queue[e]
  BY <1>1
<1>3. DOMAIN queue[d] = 1..Len(queue[d])
  BY <1>1
<1>4. /\ RemoveAt(queue[d], k) \in Seq(Queued) /\ Len(queue[d]) \in Nat
      /\ Len(RemoveAt(queue[d], k)) = Len(queue[d]) - 1
      /\ \A i \in 1..(Len(queue[d]) - 1) :
            RemoveAt(queue[d], k)[i] = IF i < k THEN queue[d][i] ELSE queue[d][i + 1]
  BY <1>1, <1>3, RemoveFact
<1>5. DOMAIN RemoveAt(queue[d], k) = 1..(Len(queue[d]) - 1)
  BY <1>4
<1>6. queue' \in [Duplexes -> Seq(Queued)]
  BY <1>1, <1>4
<1> QED BY <1>2, <1>3, <1>4, <1>5, <1>6

\* A duplex is destroyed under its client.
LEMMA DestroyPool ==
    ASSUME PoolInv, NEW d \in Duplexes, Destroy(d), lease[d] # 0,
           UNCHANGED <<out, lease, leases, submits, removed, active, openedIn>>,
           queue' \in [Duplexes -> Seq(Queued)],
           \A e \in Duplexes \ {d} : queue'[e] = queue[e],
           \A k \in DOMAIN queue'[d] : queue'[d][k].lease <= lease[d]
    PROVE  PoolInv'
<1>1. DuplexInv' /\ DuplexInv /\ PoolTypeOK /\ LeaseOK(d) /\ LockInv /\ d \in Ids
  BY DestroyKeeps, DuplexAssumption DEF PoolInv, DuplexInv, ClientOK
<1>2. /\ destroy(d) /\ ~tornDown[d]
      /\ UNCHANGED <<lockVars, xact, openedBy, busy, faults, phase, closed, final, drain, op,
                     lastSeen, portalSuspended, portalRecoveryRequested, recovery>>
  BY DEF Destroy
<1>3. tornDown'[d]
  BY <1>1, <1>2 DEF destroy, DuplexInv, DuplexTypeOK
<1>4. Alone(d)
  <2>1. OthersClaim(d)
    BY <1>1, <1>2, LockMoves
  <2> QED BY <1>1, <1>2, <2>1, DestroyMoves DEF Alone, OnlyMoves
<1>5. PoolTypeOK' /\ LeaseOK(d)' /\ UnmadeOK(d)'
  BY <1>1 DEF PoolTypeOK, DuplexInv, LeaseOK, UnmadeOK
<1>6. leases <= leases'
  BY <1>1, LeaseTypes
<1> QED BY <1>1, <1>3, <1>4, <1>5, <1>6, StepOfClient DEF ClientOK

\* The cleanup link judges, and sends its ROLLBACK, or leaves.
LEMMA CleanupLinkKeeps ==
    ASSUME PoolInv, NEW d \in Duplexes, CleanupLink(d)
    PROVE  PoolInv'
<1>1. UNCHANGED <<out, lease, leases, submits, removed, openedIn>> /\ PoolTypeOK /\ LeaseOK(d)
  BY DEF CleanupLink, PoolInv, ClientOK
<1>2. PICK k \in DOMAIN queue[d] :
          /\ queue[d][k].kind = "cleanup" /\ (Idle(d) => k = 1)
          /\ IF tornDown[d] \/ ~inTransaction(d)
             THEN /\ queue' = [queue EXCEPT ![d] = RemoveAt(@, k)]
                  /\ UNCHANGED <<duplexVars, active>>
             ELSE IF final[d] # "no"
             THEN /\ queue' = [queue EXCEPT ![d] = RemoveAt(@, k)]
                  /\ Destroy(d) /\ UNCHANGED active
             ELSE IF Idle(d)
             THEN /\ queue' = [queue EXCEPT ![d] = RemoveAt(@, k)]
                  /\ Send(d, [kind |-> "rollback", lease |-> queue[d][k].lease])
             ELSE /\ queue' = [queue EXCEPT ![d][k].kind = "rollback"]
                  /\ UNCHANGED <<duplexVars, active>>
  BY DEF CleanupLink
<1>3. /\ lease[d] # 0 /\ submits' \in 0..MaxSubmits
      /\ queue \in [Duplexes -> Seq(Queued)] /\ queue[d] \in Seq(Queued)
      /\ DOMAIN queue[d] = 1..Len(queue[d]) /\ Len(queue[d]) \in Nat
      /\ \A j \in DOMAIN queue[d] : queue[d][j] \in Queued
  BY <1>1, <1>2 DEF PoolInv, ClientOK, UnmadeOK, PoolTypeOK
<1>4. queue' = [queue EXCEPT ![d] = RemoveAt(@, k)] =>
         /\ queue' \in [Duplexes -> Seq(Queued)]
         /\ \A e \in Duplexes \ {d} : queue'[e] = queue[e]
         /\ \A i \in DOMAIN queue'[d] : \E j \in DOMAIN queue[d] : queue'[d][i] = queue[d][j]
  <2>1. ASSUME queue' = [queue EXCEPT ![d] = RemoveAt(@, k)]
        PROVE  /\ queue' \in [Duplexes -> Seq(Queued)]
               /\ \A e \in Duplexes \ {d} : queue'[e] = queue[e]
               /\ DOMAIN queue'[d] = 1..(Len(queue[d]) - 1)
               /\ \A i \in DOMAIN queue'[d] :
                     queue'[d][i] = IF i < k THEN queue[d][i] ELSE queue[d][i + 1]
    BY <1>1, <2>1, QueueShrinks
  <2>2. \A i \in 1..(Len(queue[d]) - 1) : i \in DOMAIN queue[d] /\ i + 1 \in DOMAIN queue[d]
    BY <1>3
  <2> QED BY <2>1, <2>2
<1>5. CASE queue' = [queue EXCEPT ![d] = RemoveAt(@, k)] /\ UNCHANGED <<duplexVars, active>>
  <2>1. ~tornDown[d] => PortalOK(d)
    BY LiveFacts
  <2>2. \A i \in DOMAIN queue'[d] :
           /\ queue'[d][i].lease <= lease[d]
           /\ ~tornDown[d] /\ portalRecoveryRequested[d] /\ out[d]
                 /\ queue'[d][i].kind = "cursor" => queue'[d][i].lease # lease[d]
    BY <1>1, <1>4, <1>5, <2>1 DEF LeaseOK, PortalOK
  <2> QED BY <1>1, <1>3, <1>4, <1>5, <2>2, QueueKeeps
<1>6. CASE queue' = [queue EXCEPT ![d] = RemoveAt(@, k)] /\ Destroy(d) /\ UNCHANGED active
  <2>1. \A i \in DOMAIN queue'[d] : queue'[d][i].lease <= lease[d]
    BY <1>1, <1>4, <1>6 DEF LeaseOK
  <2> QED BY <1>1, <1>3, <1>4, <1>6, <2>1, DestroyPool
<1>7. CASE /\ Idle(d) /\ queue' = [queue EXCEPT ![d] = RemoveAt(@, k)]
           /\ Send(d, [kind |-> "rollback", lease |-> queue[d][k].lease])
  <2> DEFINE q == [kind |-> "rollback", lease |-> queue[d][k].lease]
  <2>1. q \in Queued /\ q.kind = "rollback" /\ q.lease <= lease[d]
    BY <1>1, <1>3 DEF Queued, LeaseOK
  <2>2. Send(d, q)
    BY <1>7
  <2> HIDE DEF q
  <2> QED BY <1>1, <1>3, <1>4, <1>7, <2>1, <2>2, SendKeeps
<1>8. CASE /\ ~tornDown[d] /\ queue' = [queue EXCEPT ![d][k].kind = "rollback"]
           /\ UNCHANGED <<duplexVars, active>>
  <2> DEFINE q == [queue[d][k] EXCEPT !.kind = "rollback"]
  <2>1. q \in Queued /\ q.kind = "rollback" /\ q.lease = queue[d][k].lease
    BY <1>3 DEF Queued
  <2>2. queue' = [queue EXCEPT ![d] = [queue[d] EXCEPT ![k] = q]]
    BY <1>8
  <2> HIDE DEF q
  <2>3. /\ queue' \in [Duplexes -> Seq(Queued)] /\ \A e \in Duplexes \ {d} : queue'[e] = queue[e]
        /\ DOMAIN queue'[d] = DOMAIN queue[d]
        /\ \A i \in DOMAIN queue[d] : queue'[d][i] = IF i = k THEN q ELSE queue[d][i]
    <3>1. [queue[d] EXCEPT ![k] = q] \in Seq(Queued)
      BY <1>3, <2>1
    <3> QED BY <1>3, <2>1, <2>2, <3>1
  <2>4. PortalOK(d)
    BY <1>8, LiveFacts
  <2>5. \A i \in DOMAIN queue'[d] :
           /\ queue'[d][i].lease <= lease[d]
           /\ portalRecoveryRequested[d] /\ out[d] /\ queue'[d][i].kind = "cursor" =>
                 queue'[d][i].lease # lease[d]
    BY <1>1, <2>1, <2>3, <2>4 DEF LeaseOK, PortalOK
  <2> QED BY <1>1, <1>3, <1>8, <2>3, <2>5, QueueKeeps
<1> QED BY <1>2, <1>5, <1>6, <1>7, <1>8

\* A teardown that is not the client's own doing.
LEMMA DestroysKeep ==
    ASSUME PoolInv, NEW d \in Duplexes, Destroy(d), UNCHANGED clientVars, lease[d] # 0
    PROVE  PoolInv'
<1>1. PoolTypeOK /\ LeaseOK(d)
  BY DEF PoolInv, ClientOK
<1>2. /\ queue' \in [Duplexes -> Seq(Queued)] /\ UNCHANGED queue
      /\ \A k \in DOMAIN queue[d] : queue[d][k].lease <= lease[d]
  BY <1>1 DEF PoolTypeOK, LeaseOK, clientVars
<1> QED BY <1>2, DestroyPool DEF clientVars

-----------------------------------------------------------------------------
(* Checkouts and releases. *)

\* A new lease is above all that there are.
LEMMA CheckoutKeeps ==
    ASSUME PoolInv, NEW d \in Duplexes, Checkout(d)
    PROVE  PoolInv'
<1>1. /\ ~out[d] /\ ~removed[d] /\ ~tornDown[d] /\ leases < MaxLeases
      /\ out' = [out EXCEPT ![d] = TRUE] /\ leases' = leases + 1
      /\ lease' = [lease EXCEPT ![d] = leases + 1]
      /\ UNCHANGED <<duplexVars, submits, removed, active, queue, openedIn>>
  BY DEF Checkout
<1>2. DuplexInv' /\ DuplexInv /\ PoolTypeOK /\ LockInv /\ d \in Ids
  BY <1>1, DuplexStutter, DuplexAssumption DEF PoolInv, DuplexInv
<1>3. /\ leases \in Nat /\ lease[d] \in Nat /\ MaxLeases \in Nat /\ active[d].lease \in Nat
      /\ \A k \in DOMAIN queue[d] : queue[d][k].lease \in Nat
  <2>1. /\ leases \in Nat /\ lease[d] \in Nat /\ MaxLeases \in Nat
        /\ active[d].lease \in 0..MaxLeases
    BY <1>2, LeaseTypes
  <2>2. queue[d] \in Seq(Queued) /\ \A k \in DOMAIN queue[d] : queue[d][k] \in Queued
    BY <1>2 DEF PoolTypeOK
  <2>3. \A q \in Queued : q.lease \in 0..MaxLeases
    BY DEF Queued
  <2> QED BY <2>1, <2>2, <2>3
<1>4. OneFrame(d) /\ PortalOK(d) /\ LeaseOK(d)
  BY <1>1, LiveFacts
<1>5. /\ out'[d] /\ lease'[d] = leases + 1 /\ active'[d].lease < lease'[d]
      /\ \A k \in DOMAIN queue'[d] : queue'[d][k].lease < lease'[d]
  BY <1>1, <1>2, <1>3, <1>4 DEF LeaseOK, PoolTypeOK
<1>6. PoolTypeOK'
  <2>1. out' \in [Duplexes -> BOOLEAN] /\ leases' \in 0..MaxLeases
        /\ lease' \in [Duplexes -> 0..MaxLeases]
    BY <1>1, <1>2, <1>3 DEF PoolTypeOK
  <2> QED BY <1>1, <1>2, <2>1 DEF PoolTypeOK, DuplexInv
<1>7. Alone(d)
  BY <1>1, <1>2, LockMoves DEF Alone, OnlyMoves, duplexVars, streamVars, portalVars, pgliteVars,
                               PoolTypeOK
<1>8. LeaseOK(d)' /\ UnmadeOK(d)'
  BY <1>1, <1>3, <1>5 DEF LeaseOK, UnmadeOK
<1>9. OneFrame(d)'
  BY <1>1, <1>4 DEF OneFrame, Awaiting, Serving, duplexVars, streamVars
<1>10. PortalOK(d)'
  <2>1. /\ active'[d].lease # lease'[d]
        /\ \A k \in DOMAIN queue'[d] : queue'[d][k].lease # lease'[d]
    BY <1>1, <1>3, <1>5
  <2> QED BY <1>1, <1>4, <2>1 DEF PortalOK, Holds, Draining, duplexVars, streamVars, portalVars,
                                  pgliteVars, lockVars
<1> QED BY <1>1, <1>2, <1>3, <1>6, <1>7, <1>8, <1>9, <1>10, StepOfClient DEF ClientOK

\* What looking at the portal hold may do.
HoldLooked(d) == \/ releaseAbandonedPortalHold(d)
                 \/ UNCHANGED <<portalSuspended, portalRecoveryRequested, recovery>>

\* A recovery starts only for a suspended portal that has the session.
LEMMA HoldFacts ==
    ASSUME DuplexTypeOK, NEW d \in Duplexes, HoldLooked(d)
    PROVE  /\ portalSuspended' \in [Duplexes -> BOOLEAN]
           /\ portalRecoveryRequested' \in [Duplexes -> BOOLEAN]
           /\ recovery' \in [Duplexes -> {"none", "entering", "queued", "failed"}]
           /\ \A e \in Duplexes \ {d} :
                 /\ portalSuspended'[e] = portalSuspended[e] /\ recovery'[e] = recovery[e]
                 /\ portalRecoveryRequested'[e] = portalRecoveryRequested[e]
           /\ \/ recovery' = recovery
              \/ /\ recovery[d] = "none" /\ recovery'[d] = "entering"
                 /\ owner = d /\ phase[d] = "ready" /\ portalSuspended[d]
           /\ portalSuspended[d] /\ owner = d => portalSuspended'[d]
           /\ portalSuspended'[d] => portalSuspended[d]
           /\ portalRecoveryRequested'[d] => portalRecoveryRequested[d] \/ Draining(d)
<1>1. CASE portalSuspended[d] /\ deliverRecoverySync(d) /\ UNCHANGED portalRecoveryRequested
  <2>1. \A e \in Duplexes \ {d} : portalSuspended'[e] = portalSuspended[e]
    BY <1>1 DEF deliverRecoverySync, DuplexTypeOK
  <2>2. portalSuspended'[d] => portalSuspended[d]
    BY <1>1
  <2>3. portalSuspended[d] /\ owner = d => portalSuspended'[d]
    BY <1>1 DEF deliverRecoverySync, isOwner
  <2> QED BY <1>1, <2>1, <2>2, <2>3, DeliverMoves DEF DuplexTypeOK
<1>2. CASE /\ portalRecoveryRequested' = [portalRecoveryRequested EXCEPT ![d] = @ \/ Draining(d)]
           /\ UNCHANGED <<portalSuspended, recovery>>
  BY <1>2 DEF DuplexTypeOK
<1>3. CASE UNCHANGED <<portalSuspended, portalRecoveryRequested, recovery>>
  BY <1>3 DEF DuplexTypeOK
<1> QED BY <1>1, <1>2, <1>3 DEF HoldLooked, releaseAbandonedPortalHold

\* What is put behind the work in flight at a release.
LEMMA RollbackLink ==
    ASSUME PoolInv, NEW d \in Duplexes, rollbackAbandonedTransaction(d) \/ UNCHANGED queue
    PROVE  /\ queue' \in [Duplexes -> Seq(Queued)]
           /\ \A e \in Duplexes \ {d} : queue'[e] = queue[e]
           /\ \A k \in DOMAIN queue'[d] : queue'[d][k].lease <= lease[d]
<1>1. PoolTypeOK /\ LeaseOK(d) /\ lease[d] \in Nat
  BY LeaseTypes DEF PoolInv, ClientOK
<1>2. CASE UNCHANGED queue
  BY <1>1, <1>2 DEF PoolTypeOK, LeaseOK
<1>3. CASE queue' = [queue EXCEPT ![d] = Append(@, [kind |-> "cleanup", lease |-> lease[d]])]
  <2> DEFINE q == [kind |-> "cleanup", lease |-> lease[d]]
  <2>1. q \in Queued /\ q.lease = lease[d]
    BY <1>1 DEF Queued, PoolTypeOK
  <2>2. queue' = [queue EXCEPT ![d] = Append(@, q)]
    BY <1>3
  <2> HIDE DEF q
  <2>3. /\ queue' \in [Duplexes -> Seq(Queued)] /\ \A e \in Duplexes \ {d} : queue'[e] = queue[e]
        /\ \A k \in DOMAIN queue'[d] : (k \in DOMAIN queue[d] /\ queue'[d][k] = queue[d][k])
                                       \/ queue'[d][k] = q
    BY <1>1, <2>1, <2>2, Submitted
  <2>4. \A k \in DOMAIN queue'[d] : queue'[d][k].lease <= lease[d]
    BY <1>1, <2>1, <2>3 DEF LeaseOK
  <2> QED BY <2>3, <2>4
<1> QED BY <1>2, <1>3 DEF rollbackAbandonedTransaction

\* A borrower lets go of its client.
LEMMA ReleaseKeeps ==
    ASSUME PoolInv, NEW d \in Duplexes, release_(d)
    PROVE  PoolInv'
<1>1. /\ out[d] /\ MayRelease(d) /\ out' = [out EXCEPT ![d] = FALSE]
      /\ HoldLooked(d) /\ rollbackAbandonedTransaction(d)
      /\ UNCHANGED <<lockVars, pgliteVars, streamVars, lastSeen, rollback,
                     lease, leases, submits, removed, active, openedIn>>
  BY DEF release_, HoldLooked
<1>2. /\ DuplexInv /\ PoolTypeOK /\ LockInv /\ d \in Ids /\ LeaseOK(d) /\ DuplexOK(d)
      /\ DuplexTypeOK
  BY DuplexAssumption DEF PoolInv, DuplexInv, ClientOK
<1>3. portalSuspended[d] => active[d].kind = "parked"
  <2>1. portalSuspended[d] /\ active[d].kind # "parked" => FALSE
    BY <1>1, Zenon DEF MayRelease, PoolInv
  <2> QED BY <2>1
<1>4. /\ portalSuspended' \in [Duplexes -> BOOLEAN]
      /\ portalRecoveryRequested' \in [Duplexes -> BOOLEAN]
      /\ recovery' \in [Duplexes -> {"none", "entering", "queued", "failed"}]
      /\ \A e \in Duplexes \ {d} :
            /\ portalSuspended'[e] = portalSuspended[e] /\ recovery'[e] = recovery[e]
            /\ portalRecoveryRequested'[e] = portalRecoveryRequested[e]
      /\ \/ recovery' = recovery
         \/ /\ recovery[d] = "none" /\ recovery'[d] = "entering"
            /\ owner = d /\ phase[d] = "ready" /\ portalSuspended[d]
      /\ portalSuspended[d] /\ owner = d => portalSuspended'[d]
      /\ portalSuspended'[d] => portalSuspended[d]
      /\ portalRecoveryRequested'[d] => portalRecoveryRequested[d] \/ Draining(d)
  BY <1>1, <1>2, HoldFacts
<1>5. /\ queue' \in [Duplexes -> Seq(Queued)]
      /\ \A e \in Duplexes \ {d} : queue'[e] = queue[e]
      /\ \A k \in DOMAIN queue'[d] : queue'[d][k].lease <= lease[d]
  BY <1>1, RollbackLink
<1>6. Alone(d)
  BY <1>1, <1>2, <1>4, <1>5, LockMoves DEF Alone, OnlyMoves, streamVars, pgliteVars, PoolTypeOK
<1>7. ASSUME ~tornDown[d], portalSuspended[d] PROVE Resting(d) /\ Spent(d)
  BY <1>3, <1>7, LiveFacts, OneFact
     DEF OneFrame, Resting, Spent, Serving, StreamOK, DuplexTypeOK, DrainStates
<1>8. DuplexOK(d)'
  <2>1. StreamOK(d)' /\ ClaimOK(d)' /\ RollbackOK(d)'
    BY <1>1, <1>2 DEF DuplexOK, StreamOK, ClaimOK, RollbackOK, Serving, inTransaction, Executing,
                      streamVars, lockVars, pgliteVars
  <2>2. RecoveryOK(d)'
    <3>1. UNCHANGED <<drain, phase, final, input, buffered, tornDown, owner, busy, mutex>>
      BY <1>1 DEF streamVars, lockVars, pgliteVars
    <3>2. RecoveryOK(d)
      BY <1>2 DEF DuplexOK
    <3> QED BY <1>4, <1>7, <3>1, <3>2 DEF RecoveryOK, Resting, Spent, Executing
  <2> QED BY <2>1, <2>2 DEF DuplexOK
<1>9. DuplexInv'
  <2>1. DuplexTypeOK'
    BY <1>1, <1>2, <1>4 DEF DuplexTypeOK, LockTypeOK, streamVars, lockVars, pgliteVars
  <2>2. UNCHANGED <<lockVars, xact, openedBy, mutex, busy, lastSeen, rollback>>
    BY <1>1 DEF pgliteVars
  <2>3. /\ Gone(d) => Gone(d)'
        /\ drain[d] = "queued" => drain'[d] = "queued"
        /\ recovery[d] = "queued" => recovery'[d] = "queued"
    BY <1>1, <1>4 DEF streamVars, Gone
  <2>4. OnlyMoves(d)
    BY <1>6 DEF Alone
  <2> QED BY <1>2, <1>8, <2>1, <2>2, <2>3, <2>4, QuietStep
<1>10. PoolTypeOK' /\ ~out'[d]
  BY <1>1, <1>2, <1>5, <1>9 DEF PoolTypeOK, DuplexInv
<1>11. LeaseOK(d)' /\ UnmadeOK(d)'
  BY <1>1, <1>2, <1>5, <1>10 DEF LeaseOK, UnmadeOK
<1>12. ASSUME ~tornDown'[d] PROVE OneFrame(d)' /\ PortalOK(d)'
  <2>1. ~tornDown[d] /\ UNCHANGED <<drain, xact, openedBy, owner>>
    BY <1>1, <1>12 DEF streamVars, pgliteVars, lockVars
  <2>2. OneFrame(d) /\ PortalOK(d)
    BY <2>1, LiveFacts
  <2>3. OneFrame(d)'
    BY <1>1, <2>2 DEF OneFrame, Awaiting, Serving, streamVars
  <2>4. PortalOK(d)'
    BY <1>1, <1>3, <1>4, <1>10, <2>1, <2>2 DEF PortalOK, Holds, Draining
  <2> QED BY <2>3, <2>4
<1>13. leases <= leases'
  BY <1>1, <1>2, LeaseTypes
<1> QED BY <1>6, <1>9, <1>10, <1>11, <1>12, <1>13, StepOfClient DEF ClientOK

\* The stream of a client that waits for an answer is destroyed.
LEMMA BusyEnds ==
    ASSUME PoolInv, NEW d \in Duplexes, HoldLooked(d), destroy(d), ~Idle(d) \/ tornDown[d],
           UNCHANGED <<lockVars, xact, openedBy, busy, faults, phase, closed, final, drain, op,
                       lastSeen>>
    PROVE  /\ DuplexInv' /\ tornDown'[d] /\ OnlyMoves(d) /\ OthersClaim(d)
           /\ \A e \in Duplexes \ {d} :
                 /\ portalSuspended'[e] = portalSuspended[e]
                 /\ portalRecoveryRequested'[e] = portalRecoveryRequested[e]
<1>1. DuplexInv /\ DuplexTypeOK /\ LockInv /\ d \in Ids
  BY DuplexAssumption DEF PoolInv, DuplexInv
<1>2. /\ portalSuspended' \in [Duplexes -> BOOLEAN]
      /\ portalRecoveryRequested' \in [Duplexes -> BOOLEAN]
      /\ recovery' \in [Duplexes -> {"none", "entering", "queued", "failed"}]
      /\ \A e \in Duplexes \ {d} :
            /\ portalSuspended'[e] = portalSuspended[e] /\ recovery'[e] = recovery[e]
            /\ portalRecoveryRequested'[e] = portalRecoveryRequested[e]
      /\ \/ recovery' = recovery
         \/ /\ recovery[d] = "none" /\ recovery'[d] = "entering"
            /\ owner = d /\ phase[d] = "ready" /\ portalSuspended[d]
  BY <1>1, HoldFacts
<1>3. OthersClaim(d)
  BY <1>1, LockMoves
<1>4. OnlyMoves(d)
  BY <1>1, <1>2, DestroyMoves DEF OnlyMoves
<1>5. tornDown'[d]
  BY <1>1 DEF destroy, DuplexTypeOK
<1>6. drain' \in [Duplexes -> DrainStates] /\ drain'[d] = drain[d]
  BY <1>1 DEF DuplexTypeOK
<1>7. recovery[d] = "queued" => recovery'[d] = "queued"
  BY <1>2
<1>8. CASE ~tornDown[d]
  <2>1. DuplexInv' /\ OutsidersKeep
    BY <1>1, <1>2, <1>4, <1>6, <1>7, <1>8, TearDown
  <2> QED BY <1>2, <1>3, <1>4, <1>5, <2>1
<1>9. CASE tornDown[d]
  <2>1. UNCHANGED <<tornDown, input, buffered, rollback, mutex>>
    BY <1>9 DEF destroy
  <2>2. phase[d] = "terminated" => recovery'[d] \in {"none", recovery[d]}
    BY <1>2
  <2>3. UNCHANGED <<lockVars, pgliteVars, lastSeen, rollback, phase, tornDown, closed, final,
                    input, buffered, op>>
    BY <2>1 DEF pgliteVars
  <2>4. \A e \in Duplexes \ {d} : drain'[e] = drain[e] /\ recovery'[e] = recovery[e]
    BY <1>2
  <2>5. DuplexInv' /\ OutsidersKeep
    BY <1>1, <1>2, <1>6, <1>7, <1>9, <2>2, <2>3, <2>4, ForgetKeeps
  <2> QED BY <1>2, <1>3, <1>4, <1>5, <2>5
<1> QED BY <1>8, <1>9

\* An idle client whose drain is about to end says Terminate then.
LEMMA TerminateWaits ==
    ASSUME PoolInv, NEW d \in Duplexes, HoldLooked(d), Idle(d), ~tornDown[d], Draining(d),
           ~removed[d], removed'[d], ~out'[d],
           buffered' = [buffered EXCEPT ![d] = Append(@, "terminate")],
           final' = [final EXCEPT ![d] = "ended"],
           UNCHANGED <<lockVars, mutex, phase, tornDown, input, drain, op, rollback,
                       xact, openedBy, busy, faults, closed, lastSeen, active>>
    PROVE  /\ DuplexInv' /\ OnlyMoves(d) /\ OthersClaim(d) /\ OneFrame(d)' /\ PortalOK(d)'
           /\ \A e \in Duplexes \ {d} :
                 /\ portalSuspended'[e] = portalSuspended[e]
                 /\ portalRecoveryRequested'[e] = portalRecoveryRequested[e]
<1>1. DuplexInv /\ DuplexTypeOK /\ LockInv /\ d \in Ids /\ DuplexOK(d)
  BY DuplexAssumption DEF PoolInv, DuplexInv
<1>2. /\ portalSuspended' \in [Duplexes -> BOOLEAN]
      /\ portalRecoveryRequested' \in [Duplexes -> BOOLEAN]
      /\ recovery' \in [Duplexes -> {"none", "entering", "queued", "failed"}]
      /\ \A e \in Duplexes \ {d} :
            /\ portalSuspended'[e] = portalSuspended[e] /\ recovery'[e] = recovery[e]
            /\ portalRecoveryRequested'[e] = portalRecoveryRequested[e]
      /\ \/ recovery' = recovery
         \/ /\ recovery[d] = "none" /\ recovery'[d] = "entering"
            /\ owner = d /\ phase[d] = "ready" /\ portalSuspended[d]
      /\ portalSuspended'[d] => portalSuspended[d]
  BY <1>1, HoldFacts
<1>3. OneFrame(d) /\ PortalOK(d) /\ StreamOK(d) /\ active[d].kind = "none" /\ ~Awaiting(d)
  BY LiveFacts
<1>4. ~portalSuspended[d] /\ recovery[d] = "none" /\ recovery' = recovery
  BY <1>2, <1>3 DEF PortalOK, CursorStates
<1>5. final[d] = "no" /\ phase[d] = "ready" /\ drain[d] = "loop" /\ buffered[d] = <<>>
  BY <1>1, <1>3 DEF OneFrame, StreamOK, Serving, Draining, DuplexTypeOK, DrainStates
<1>6. buffered'[d] = <<"terminate">> /\ final'[d] = "ended"
  BY <1>1, <1>5, OneFact DEF DuplexTypeOK
<1>7. OnlyMoves(d) /\ OthersClaim(d)
  <2>1. OthersClaim(d)
    BY <1>1, LockMoves
  <2> QED BY <1>1, <1>2, <2>1 DEF OnlyMoves, DuplexTypeOK
<1>8. OneFrame(d)'
  BY <1>3, <1>5, <1>6 DEF OneFrame, Awaiting, Serving
<1>9. PortalOK(d)'
  <2>1. ~portalSuspended'[d] /\ recovery'[d] = "none" /\ Draining(d)' /\ active'[d].kind = "none"
    BY <1>2, <1>3, <1>4 DEF Draining
  <2>2. ~(openedBy' = d /\ xact' = "implicit")
    BY <1>3, <1>4 DEF PortalOK
  <2> QED BY <2>1, <2>2 DEF PortalOK, CursorStates
<1>10. DuplexInv'
  <2>1. DuplexTypeOK'
    <3>1. buffered' \in [Duplexes -> Seq(Frames \cup {"terminate"})]
      BY <1>1 DEF DuplexTypeOK
    <3>2. final' \in [Duplexes -> {"no", "ended", "pending", "done"}]
      BY <1>1 DEF DuplexTypeOK
    <3> QED BY <1>1, <1>2, <3>1, <3>2 DEF DuplexTypeOK, LockTypeOK, lockVars
  <2>2. DuplexOK(d)'
    <3>1. StreamOK(d)' /\ ClaimOK(d)' /\ RollbackOK(d)'
      BY <1>1, <1>5, <1>6 DEF DuplexOK, StreamOK, ClaimOK, RollbackOK, Serving, inTransaction,
                              Executing, lockVars
    <3>2. RecoveryOK(d)'
      <4>1. ~(Executing(d) /\ Head(mutex).job = "recovery")
        BY <1>1, <1>4, CallFacts
      <4> QED BY <1>4, <4>1 DEF RecoveryOK, Executing
    <3> QED BY <3>1, <3>2 DEF DuplexOK
  <2>3. /\ Gone(d) => Gone(d)'
        /\ drain[d] = "queued" => drain'[d] = "queued"
        /\ recovery[d] = "queued" => recovery'[d] = "queued"
    BY <1>4, <1>5 DEF Gone
  <2> QED BY <1>1, <1>7, <2>1, <2>2, <2>3, QuietStep
<1> QED BY <1>2, <1>7, <1>8, <1>9, <1>10

\* One that has nothing under way says it at once.
LEMMA TerminateNow ==
    ASSUME PoolInv, NEW d \in Duplexes, Idle(d), ~tornDown[d], ~Draining(d),
           ~removed[d], removed'[d], write(d, "terminate"),
           final' = [final EXCEPT ![d] = "ended"],
           UNCHANGED <<tornDown, recovery, xact, openedBy, busy, faults, closed, lastSeen, active>>
    PROVE  /\ DuplexInv' /\ OnlyMoves(d) /\ OthersClaim(d) /\ OneFrame(d)' /\ PortalOK(d)'
           /\ \A e \in Duplexes \ {d} :
                 /\ portalSuspended'[e] = portalSuspended[e]
                 /\ portalRecoveryRequested'[e] = portalRecoveryRequested[e]
<1>1. DuplexInv /\ DuplexTypeOK
  BY DEF PoolInv, DuplexInv
<1>2. OneFrame(d) /\ PortalOK(d) /\ active[d].kind = "none" /\ ~Awaiting(d)
  BY LiveFacts
<1>3. /\ final[d] = "no" /\ phase[d] = "ready" /\ drain[d] = "idle" /\ buffered[d] = <<>>
      /\ recovery[d] = "none" /\ ~portalSuspended[d]
  BY <1>1, <1>2 DEF OneFrame, PortalOK, CursorStates, Draining, DuplexTypeOK
<1>4. processMessages(d, <<"terminate">>) /\ UNCHANGED buffered
  BY <1>3 DEF write, Draining
<1>5. <<"terminate">> \in Seq(Frames \cup {"terminate"})
  OBVIOUS
<1>6. DuplexInv'
  <2>1. DuplexInv' /\ OutsidersKeep
    BY <1>1, <1>3, <1>4, <1>5, ProcessKeeps DEF DuplexTypeOK
  <2> QED BY <2>1
<1>7. /\ OnlyMoves(d) /\ OthersClaim(d)
      /\ \A e \in Duplexes \ {d} :
            /\ portalSuspended'[e] = portalSuspended[e]
            /\ portalRecoveryRequested'[e] = portalRecoveryRequested[e]
  BY <1>1, <1>4, ProcessMoves DEF OnlyMoves, DuplexTypeOK
<1>8. BeginTerminate(d)
  BY <1>4, OneFact DEF processMessages
<1>9. /\ phase'[d] = "terminated" /\ input'[d] = <<>> /\ drain'[d] = "terminating"
      /\ ~portalSuspended'[d] /\ ~portalRecoveryRequested'[d] /\ final'[d] = "ended"
  BY <1>1, <1>8 DEF BeginTerminate, DuplexTypeOK
<1>10. OneFrame(d)'
  BY <1>2, <1>3, <1>4, <1>9, OneFact DEF OneFrame, Awaiting, Serving
<1>11. PortalOK(d)'
  BY <1>2, <1>3, <1>9 DEF PortalOK, CursorStates
<1> QED BY <1>6, <1>7, <1>10, <1>11

\* client.end(), whatever the release listener did before.
LEMMA ClientEndMoves ==
    ASSUME PoolInv, NEW d \in Duplexes, lease[d] # 0, ~removed[d],
           \/ clientEnd(d, releaseAbandonedPortalHold(d))
           \/ clientEnd(d, UNCHANGED <<portalSuspended, portalRecoveryRequested, recovery>>),
           out' \in [Duplexes -> BOOLEAN], ~out'[d], \A e \in Duplexes \ {d} : out'[e] = out[e],
           rollbackAbandonedTransaction(d) \/ UNCHANGED queue
    PROVE  /\ DuplexInv' /\ Alone(d) /\ removed'[d]
           /\ tornDown'[d] \/ (OneFrame(d)' /\ PortalOK(d)')
           /\ removed' \in [Duplexes -> BOOLEAN] /\ queue' \in [Duplexes -> Seq(Queued)]
           /\ \A k \in DOMAIN queue'[d] : queue'[d][k].lease <= lease[d]
           /\ UNCHANGED <<xact, openedBy, lease, leases, submits, active, openedIn>>
<1>1. /\ removed' = [removed EXCEPT ![d] = TRUE]
      /\ UNCHANGED <<xact, openedBy, busy, faults, closed, lastSeen,
                     lease, leases, submits, active, openedIn>>
      /\ \/ /\ ~Idle(d) \/ tornDown[d]
            /\ HoldLooked(d) /\ destroy(d)
            /\ UNCHANGED <<lockVars, phase, final, drain, op>>
         \/ /\ Idle(d) /\ ~tornDown[d] /\ Draining(d)
            /\ HoldLooked(d)
            /\ buffered' = [buffered EXCEPT ![d] = Append(@, "terminate")]
            /\ final' = [final EXCEPT ![d] = "ended"]
            /\ UNCHANGED <<lockVars, mutex, phase, tornDown, input, drain, op, rollback>>
         \/ /\ Idle(d) /\ ~tornDown[d] /\ ~Draining(d)
            /\ write(d, "terminate")
            /\ final' = [final EXCEPT ![d] = "ended"]
            /\ UNCHANGED <<tornDown, recovery>>
  BY DEF clientEnd, HoldLooked
<1>2. PoolTypeOK /\ LeaseOK(d) /\ removed'[d] /\ \A e \in Duplexes \ {d} : removed'[e] = removed[e]
  BY <1>1 DEF PoolInv, ClientOK, PoolTypeOK
<1>3. /\ queue' \in [Duplexes -> Seq(Queued)]
      /\ \A e \in Duplexes \ {d} : queue'[e] = queue[e]
      /\ \A k \in DOMAIN queue'[d] : queue'[d][k].lease <= lease[d]
  BY RollbackLink
<1>4. /\ DuplexInv' /\ OnlyMoves(d) /\ OthersClaim(d)
      /\ \A e \in Duplexes \ {d} :
            /\ portalSuspended'[e] = portalSuspended[e]
            /\ portalRecoveryRequested'[e] = portalRecoveryRequested[e]
      /\ tornDown'[d] \/ (OneFrame(d)' /\ PortalOK(d)')
  <2>1. CASE /\ ~Idle(d) \/ tornDown[d]
             /\ HoldLooked(d) /\ destroy(d)
             /\ UNCHANGED <<lockVars, phase, final, drain, op>>
    BY <1>1, <2>1, BusyEnds
  <2>2. CASE /\ Idle(d) /\ ~tornDown[d] /\ Draining(d)
             /\ HoldLooked(d)
             /\ buffered' = [buffered EXCEPT ![d] = Append(@, "terminate")]
             /\ final' = [final EXCEPT ![d] = "ended"]
             /\ UNCHANGED <<lockVars, mutex, phase, tornDown, input, drain, op, rollback>>
    BY <1>1, <1>2, <2>2, TerminateWaits
  <2>3. CASE /\ Idle(d) /\ ~tornDown[d] /\ ~Draining(d)
             /\ write(d, "terminate")
             /\ final' = [final EXCEPT ![d] = "ended"]
             /\ UNCHANGED <<tornDown, recovery>>
    BY <1>1, <1>2, <2>3, TerminateNow
  <2> QED BY <1>1, <2>1, <2>2, <2>3
<1>5. Alone(d)
  BY <1>1, <1>2, <1>3, <1>4 DEF Alone
<1>6. removed' \in [Duplexes -> BOOLEAN]
  BY <1>1, <1>2 DEF PoolTypeOK
<1> QED BY <1>1, <1>2, <1>3, <1>4, <1>5, <1>6

\* So does client.end() keep the invariant.
LEMMA ClientEndKeeps ==
    ASSUME PoolInv, NEW d \in Duplexes, lease[d] # 0, ~removed[d],
           \/ clientEnd(d, releaseAbandonedPortalHold(d))
           \/ clientEnd(d, UNCHANGED <<portalSuspended, portalRecoveryRequested, recovery>>),
           out' \in [Duplexes -> BOOLEAN], ~out'[d], \A e \in Duplexes \ {d} : out'[e] = out[e],
           rollbackAbandonedTransaction(d) \/ UNCHANGED queue
    PROVE  PoolInv'
<1>1. /\ DuplexInv' /\ Alone(d) /\ removed'[d]
      /\ tornDown'[d] \/ (OneFrame(d)' /\ PortalOK(d)')
      /\ removed' \in [Duplexes -> BOOLEAN] /\ queue' \in [Duplexes -> Seq(Queued)]
      /\ \A k \in DOMAIN queue'[d] : queue'[d][k].lease <= lease[d]
      /\ UNCHANGED <<xact, openedBy, lease, leases, submits, active, openedIn>>
  BY ClientEndMoves
<1>2. PoolTypeOK /\ LeaseOK(d)
  BY DEF PoolInv, ClientOK
<1>3. PoolTypeOK'
  BY <1>1, <1>2 DEF PoolTypeOK, DuplexInv
<1>4. LeaseOK(d)' /\ UnmadeOK(d)'
  BY <1>1, <1>2 DEF LeaseOK, UnmadeOK
<1>5. leases <= leases'
  BY <1>1, <1>2, LeaseTypes
<1> QED BY <1>1, <1>3, <1>4, <1>5, StepOfClient DEF ClientOK

-----------------------------------------------------------------------------
(* Every step of the pool. *)

\* What a client, its borrower and PGlite do.
LEMMA PoolStepKeeps ==
    ASSUME PoolInv, NEW d \in Duplexes, PoolStep(d)
    PROVE  PoolInv'
<1>1. CASE CallReturns(d)
  BY <1>1, CallReturnsKeeps
<1>2. CASE (drain[d] = "loop" => ~Reacting(d)) /\ DuplexStep(d) /\ UNCHANGED clientVars
  BY <1>2, DuplexStepPool
<1>3. CASE ClientStep(d)
  BY <1>3, PulseKeeps, CursorWritesKeeps, CleanupLinkKeeps DEF ClientStep
<1>4. CASE CleanupTimesOut(d) \/ StreamEnds(d)
  <2>1. Destroy(d) /\ UNCHANGED clientVars
    BY <1>4 DEF CleanupTimesOut, StreamEnds
  <2>2. UnmadeOK(d)
    BY DEF PoolInv, ClientOK
  <2>3. lease[d] # 0
    <3>1. CASE CleanupTimesOut(d)
      <4>1. active[d].kind = "rollback" => active[d] # NoQuery
        BY DEF NoQuery
      <4>2. (\E k \in DOMAIN queue[d] : queue[d][k].kind = "rollback") => queue[d] # <<>>
        OBVIOUS
      <4> QED BY <2>2, <3>1, <4>1, <4>2 DEF CleanupTimesOut, UnmadeOK
    <3>2. CASE StreamEnds(d)
      BY <2>2, <3>2 DEF StreamEnds, UnmadeOK
    <3> QED BY <1>4, <3>1, <3>2
  <2> QED BY <2>1, <2>3, DestroysKeep
<1> QED BY <1>1, <1>2, <1>3, <1>4 DEF PoolStep

\* pg-pool ends a client: it was idle, or is released only now, or with an error.
LEMMA EndsClient ==
    ASSUME PoolInv, NEW d \in Duplexes, Expel(d) \/ ReleaseAtEnd(d) \/ ReleaseWithError(d)
    PROVE  /\ lease[d] # 0 /\ ~removed[d]
           /\ \/ clientEnd(d, releaseAbandonedPortalHold(d))
              \/ clientEnd(d, UNCHANGED <<portalSuspended, portalRecoveryRequested, recovery>>)
           /\ out' \in [Duplexes -> BOOLEAN] /\ ~out'[d]
           /\ \A e \in Duplexes \ {d} : out'[e] = out[e]
           /\ rollbackAbandonedTransaction(d) \/ UNCHANGED queue
<1>1. out \in [Duplexes -> BOOLEAN] /\ (out[d] => lease[d] # 0 /\ ~removed[d])
  BY DEF PoolInv, PoolTypeOK, ClientOK, LeaseOK
<1>2. CASE Expel(d)
  <2>1. /\ clientEnd(d, UNCHANGED <<portalSuspended, portalRecoveryRequested, recovery>>)
        /\ UNCHANGED out /\ UNCHANGED queue
        /\ lease[d] # 0 /\ ~removed[d] /\ ~out[d]
    BY <1>2 DEF Expel, Left, Members, Made
  <2> QED BY <1>1, <2>1
<1>3. CASE ReleaseAtEnd(d) \/ ReleaseWithError(d)
  <2>1. /\ clientEnd(d, releaseAbandonedPortalHold(d))
        /\ rollbackAbandonedTransaction(d) \/ UNCHANGED queue
        /\ out[d] /\ out' = [out EXCEPT ![d] = FALSE]
    BY <1>3 DEF ReleaseAtEnd, ReleaseWithError
  <2> QED BY <1>1, <2>1
<1> QED BY <1>2, <1>3

\* What a borrower does with the client that it holds.
LEMMA UsesKeep ==
    ASSUME PoolInv, NEW d \in Duplexes, Uses(d)
    PROVE  PoolInv'
<1>1. CASE \E kind \in Kinds : query(d, kind)
  BY <1>1, QueryKeeps
<1>2. CASE CursorRead(d) \/ CursorClose(d)
  BY <1>2, CursorWritesKeeps
<1>3. CASE ReleaseWithError(d)
  BY <1>3, EndsClient, ClientEndKeeps
<1> QED BY <1>1, <1>2, <1>3 DEF Uses

\* A step of something else.
LEMMA PoolStutter ==
    ASSUME PoolInv, UNCHANGED poolVars
    PROVE  PoolInv'
<1>1. DuplexInv'
  BY DuplexStutter DEF PoolInv, poolVars
<1>2. PoolTypeOK'
  BY <1>1 DEF PoolInv, PoolTypeOK, poolVars, clientVars, DuplexInv
<1>3. ASSUME NEW d \in Duplexes PROVE ClientOK(d)'
  <2>1. ClientOK(d)
    BY DEF PoolInv
  <2> QED BY <2>1 DEF ClientOK, LeaseOK, UnmadeOK, OneFrame, PortalOK, Awaiting, Serving, Holds,
             Draining, poolVars, clientVars, duplexVars, streamVars, portalVars, pgliteVars,
             lockVars
<1> QED BY <1>1, <1>2, <1>3 DEF PoolInv

\* end() is called, or gets on.
LEMMA EndStepKeeps ==
    ASSUME PoolInv, EndStep
    PROVE  PoolInv'
<1>1. CASE UNCHANGED poolVars
  BY <1>1, PoolStutter
<1>2. CASE Counts
  <2>1. DuplexInv'
    BY <1>2, DuplexStutter DEF PoolInv, Counts
  <2>2. PoolTypeOK'
    <3>1. MaxSubmits \in Nat
      BY PoolAssumption, Zenon
    <3>2. submits' \in 0..MaxSubmits
      BY <1>2, <3>1 DEF PoolInv, PoolTypeOK, Counts
    <3> QED BY <1>2, <2>1, <3>2 DEF PoolInv, PoolTypeOK, Counts, DuplexInv
  <2>3. ASSUME NEW d \in Duplexes PROVE ClientOK(d)'
    <3>1. ClientOK(d)
      BY DEF PoolInv
    <3> QED BY <1>2, <3>1 DEF ClientOK, LeaseOK, UnmadeOK, OneFrame, PortalOK, Awaiting,
                              Serving, Holds, Draining, Counts, duplexVars, streamVars,
                              portalVars, pgliteVars, lockVars
  <2> QED BY <2>1, <2>2, <2>3 DEF PoolInv
<1> QED BY <1>1, <1>2 DEF EndStep, end, endAgain, ClientsGone, TeardownsSettled, DrainExpires,
                          Drained

\* The invariant is kept whatever happens.
LEMMA EndNextKeeps ==
    ASSUME PoolInv, EndNext
    PROVE  PoolInv'
<1>1. CASE \E d \in Duplexes : Expel(d) \/ ReleaseAtEnd(d)
  BY <1>1, EndsClient, ClientEndKeeps
<1>2. CASE EndStep
  BY <1>2, EndStepKeeps
<1>3. CASE StartJob /\ UNCHANGED clientVars
  BY <1>3, StartJobPool
<1>4. CASE \E d \in Duplexes : Going(d)
  BY <1>4, PoolStepKeeps, UsesKeep, CheckoutKeeps, ReleaseKeeps DEF Going
<1>5. CASE \E d \in Duplexes : Abort(d)
  <2>1. PICK d \in Duplexes : Destroy(d) /\ UNCHANGED clientVars /\ lease[d] # 0
    BY <1>5 DEF Abort, pendingTeardowns, Made
  <2> QED BY <2>1, DestroysKeep
<1> QED BY <1>1, <1>2, <1>3, <1>4, <1>5 DEF EndNext

-----------------------------------------------------------------------------
(* What guards a transaction against the next borrower. *)

\* An entry leaves the queue before the place in question.
LEMMA CoverShifts ==
    ASSUME NEW s \in Seq(Queued), NEW r \in Seq(Queued), NEW i \in Nat, NEW l,
           DOMAIN s = 1..Len(s), Len(s) \in Nat, DOMAIN r = 1..(Len(s) - 1),
           \A m \in DOMAIN r : m > i => r[m] = s[m + 1]
    PROVE  /\ Covered(s, i + 1, l) => Covered(r, i, l)
           /\ HasMark(s, i + 1) => HasMark(r, i)
<1>1. ASSUME Covered(s, i + 1, l), NEW k \in DOMAIN r, k > i, r[k].lease # l
      PROVE  \E j \in (i + 1)..k : Marked(r[j])
  <2>1. k + 1 \in DOMAIN s /\ s[k + 1] = r[k] /\ k + 1 > i + 1
    BY <1>1
  <2>2. PICK j \in (i + 2)..(k + 1) : Marked(s[j])
    BY <1>1, <2>1 DEF Covered
  <2>3. j - 1 \in (i + 1)..k /\ j - 1 \in DOMAIN r /\ r[j - 1] = s[j]
    BY <1>1, <2>2
  <2> QED BY <2>2, <2>3
<1>2. ASSUME HasMark(s, i + 1) PROVE HasMark(r, i)
  <2>1. PICK j \in DOMAIN s : j > i + 1 /\ Marked(s[j])
    BY <1>2 DEF HasMark
  <2>2. j - 1 \in DOMAIN r /\ j - 1 > i /\ r[j - 1] = s[j]
    BY <2>1
  <2> QED BY <2>1, <2>2 DEF HasMark
<1>3. Covered(s, i + 1, l) => Covered(r, i, l)
  BY <1>1 DEF Covered
<1> QED BY <1>2, <1>3

\* The head is no mark.
LEMMA CoverSkips ==
    ASSUME NEW s \in Seq(Queued), NEW l, DOMAIN s = 1..Len(s), Len(s) \in Nat, ~Marked(s[1])
    PROVE  /\ Covered(s, 0, l) => Covered(s, 1, l)
           /\ HasMark(s, 0) => HasMark(s, 1)
<1>1. ASSUME Covered(s, 0, l), NEW k \in DOMAIN s, k > 1, s[k].lease # l
      PROVE  \E j \in 2..k : Marked(s[j])
  <2>1. PICK j \in 1..k : Marked(s[j])
    BY <1>1 DEF Covered
  <2>2. j \in 2..k
    BY <2>1
  <2> QED BY <2>1, <2>2
<1>2. Covered(s, 0, l) => Covered(s, 1, l)
  BY <1>1 DEF Covered
<1>3. HasMark(s, 0) => HasMark(s, 1)
  BY DEF HasMark
<1> QED BY <1>2, <1>3

\* Something comes to the end of the queue.
LEMMA CoverGrows ==
    ASSUME NEW s \in Seq(Queued), NEW r \in Seq(Queued), NEW i \in Nat, NEW l, NEW q,
           DOMAIN s = 1..Len(s), Len(s) \in Nat, DOMAIN r = 1..(Len(s) + 1),
           \A k \in DOMAIN s : r[k] = s[k], r[Len(s) + 1] = q
    PROVE  /\ Covered(s, i, l) /\ (q.lease = l \/ Marked(q) \/ HasMark(s, i)) => Covered(r, i, l)
           /\ HasMark(s, i) => HasMark(r, i)
           /\ Marked(q) /\ i <= Len(s) => HasMark(r, i)
<1>1. ASSUME Covered(s, i, l), q.lease = l \/ Marked(q) \/ HasMark(s, i),
             NEW k \in DOMAIN r, k > i, r[k].lease # l
      PROVE  \E j \in (i + 1)..k : Marked(r[j])
  <2>1. CASE k \in DOMAIN s
    <3>1. PICK j \in (i + 1)..k : Marked(s[j])
      BY <1>1, <2>1 DEF Covered
    <3>2. j \in DOMAIN s
      BY <2>1, <3>1
    <3> QED BY <3>1, <3>2
  <2>2. CASE k = Len(s) + 1 /\ Marked(q)
    BY <1>1, <2>2
  <2>3. CASE k = Len(s) + 1 /\ HasMark(s, i)
    <3>1. PICK j \in DOMAIN s : j > i /\ Marked(s[j])
      BY <2>3 DEF HasMark
    <3>2. j \in (i + 1)..k /\ r[j] = s[j]
      BY <2>3, <3>1
    <3> QED BY <3>1, <3>2
  <2> QED BY <1>1, <2>1, <2>2, <2>3
<1>2. Covered(s, i, l) /\ (q.lease = l \/ Marked(q) \/ HasMark(s, i)) => Covered(r, i, l)
  BY <1>1 DEF Covered
<1>3. HasMark(s, i) => HasMark(r, i)
  <2>1. \A j \in DOMAIN s : j \in DOMAIN r
    OBVIOUS
  <2> QED BY <2>1 DEF HasMark
<1>4. Marked(q) /\ i <= Len(s) => HasMark(r, i)
  <2>1. Len(s) + 1 \in DOMAIN r /\ (i <= Len(s) => Len(s) + 1 > i)
    OBVIOUS
  <2> QED BY <2>1 DEF HasMark
<1> QED BY <1>2, <1>3, <1>4

\* A mark changes its form.
LEMMA CoverKept ==
    ASSUME NEW s, NEW r, NEW i, NEW l, DOMAIN r = DOMAIN s, DOMAIN s \subseteq Nat,
           \A k \in DOMAIN s : r[k].lease = s[k].lease /\ (Marked(s[k]) => Marked(r[k])),
           \A k \in DOMAIN s : 1..k \subseteq DOMAIN s, i \in Nat
    PROVE  /\ Covered(s, i, l) => Covered(r, i, l)
           /\ HasMark(s, i) => HasMark(r, i)
<1>1. ASSUME Covered(s, i, l), NEW k \in DOMAIN s, k > i, s[k].lease # l
      PROVE  \E j \in (i + 1)..k : Marked(r[j])
  <2>1. PICK j \in (i + 1)..k : Marked(s[j])
    BY <1>1 DEF Covered
  <2>2. j \in DOMAIN s
    BY <1>1, <2>1
  <2> QED BY <2>1, <2>2
<1> QED BY <1>1 DEF Covered, HasMark

\* A client that stays as it is, with one more entry in its queue: a mark, or what
\* its borrower submits.
LEMMA GuardGrows ==
    ASSUME PoolTypeOK, NEW d \in Duplexes, NEW q \in Queued, NEW i \in Nat, NEW l,
           queue' = [queue EXCEPT ![d] = Append(@, q)], i <= Len(queue[d]),
           GuardedFrom(d, i, l),
           \/ Marked(q)
           \/ /\ q.lease = lease[d] /\ out[d] /\ ~removed[d]
              /\ UNCHANGED <<out, lease, removed>>
    PROVE  GuardedThen(d, i, l)
<1>1. /\ queue' \in [Duplexes -> Seq(Queued)] /\ queue \in [Duplexes -> Seq(Queued)]
      /\ DOMAIN queue[d] = 1..Len(queue[d]) /\ Len(queue[d]) \in Nat
      /\ DOMAIN queue'[d] = 1..(Len(queue[d]) + 1)
      /\ \A k \in DOMAIN queue[d] : queue'[d][k] = queue[d][k]
      /\ queue'[d][Len(queue[d]) + 1] = q
  BY Submitted DEF PoolTypeOK
<1>2. Covered(queue[d], i, l) /\ (Unheld(d, l) => HasMark(queue[d], i))
  BY DEF GuardedFrom
<1>3. /\ Covered(queue[d], i, l) /\ (q.lease = l \/ Marked(q) \/ HasMark(queue[d], i)) =>
            Covered(queue'[d], i, l)
      /\ HasMark(queue[d], i) => HasMark(queue'[d], i)
      /\ Marked(q) /\ i <= Len(queue[d]) => HasMark(queue'[d], i)
  BY <1>1, CoverGrows
<1>4. CASE Marked(q)
  BY <1>2, <1>3, <1>4 DEF GuardedThen
<1>5. CASE q.lease = lease[d] /\ out[d] /\ ~removed[d] /\ UNCHANGED <<out, lease, removed>>
  <2>1. lease[d] # l => Unheld(d, l)
    BY <1>5 DEF Unheld
  <2>2. UnheldThen(d, l) => Unheld(d, l)
    BY <1>5 DEF Unheld, UnheldThen
  <2> QED BY <1>2, <1>3, <1>5, <2>1, <2>2 DEF GuardedThen
<1> QED BY <1>4, <1>5

\* A client is guarded after a step when all of its parts are.
LEMMA GuardedAfter ==
    ASSUME NEW d \in Duplexes,
           Open(d)' /\ active'[d].kind # "rollback" => GuardedThen(d, 0, openedIn'),
           active'[d].kind = "begin" => GuardedThen(d, 0, active'[d].lease),
           \A i \in DOMAIN queue'[d] :
              queue'[d][i].kind = "begin" => GuardedThen(d, i, queue'[d][i].lease)
    PROVE  Guarded(d)'
BY DEF Guarded, GuardedFrom, GuardedThen, Unheld, UnheldThen

\* Its queue and its checkout do not move.
LEMMA GuardStays ==
    ASSUME NEW d \in Duplexes, queue'[d] = queue[d], out'[d] = out[d], lease'[d] = lease[d],
           removed'[d] = removed[d], NEW i, NEW l, GuardedFrom(d, i, l)
    PROVE  GuardedThen(d, i, l)
BY DEF GuardedFrom, GuardedThen, Unheld, UnheldThen

-----------------------------------------------------------------------------
(* No transaction is inherited. *)

\* A live duplex serves what pg has active.
LEMMA LiveServed ==
    ASSUME PoolInv', NEW d \in Duplexes, ~tornDown'[d]
    PROVE  ServedOK(d)'
<1>1. OneFrame(d)' /\ PortalOK(d)'
  BY DEF PoolInv, ClientOK
<1> QED BY <1>1 DEF OneFrame, PortalOK, ServedOK, Serving

\* A step of d keeps the others' transactions as they are.
LEMMA CleanStep ==
    ASSUME CleanInv, NEW d \in Duplexes, Alone(d),
           \A e \in Duplexes \ {d} : Open(e)' => Open(e) /\ openedIn' = openedIn,
           CleanOK(d)'
    PROVE  CleanInv'
<1>1. ASSUME NEW e \in Duplexes, e # d PROVE CleanOK(e)'
  <2>1. /\ tornDown'[e] = tornDown[e] /\ drain'[e] = drain[e] /\ op'[e] = op[e]
        /\ openedBy' = e /\ xact' = "implicit" => openedBy = e /\ xact = "implicit"
        /\ out'[e] = out[e] /\ lease'[e] = lease[e] /\ removed'[e] = removed[e]
        /\ active'[e] = active[e] /\ queue'[e] = queue[e]
        /\ Open(e)' => Open(e) /\ openedIn' = openedIn
    BY <1>1 DEF Alone, OnlyMoves
  <2>2. ServedOK(e) /\ OfOne(e) /\ (~tornDown[e] => Guarded(e))
    BY DEF CleanInv, CleanOK
  <2>3. ServedOK(e)'
    BY <2>1, <2>2 DEF ServedOK, Serving, Awaiting
  <2>4. OfOne(e)'
    BY <2>1, <2>2 DEF OfOne
  <2>5. ~tornDown'[e] => Guarded(e)'
    <3>1. \A i, l : GuardedFrom(e, i, l) => GuardedThen(e, i, l)
      BY <2>1, GuardStays
    <3> QED BY <2>1, <2>2, <3>1, GuardedAfter DEF Guarded
  <2> QED BY <2>3, <2>4, <2>5 DEF CleanOK
<1> QED BY <1>1 DEF CleanInv

\* No client moves, and the session's transaction stays.
LEMMA CleanRests ==
    ASSUME PoolInv', CleanInv, NEW d \in Duplexes, Alone(d), UNCHANGED <<xact, openedBy>>,
           UNCHANGED clientVars, tornDown[d] => tornDown'[d],
           tornDown'[d] /\ Serving(d)' => Serving(d) /\ op'[d] = op[d]
    PROVE  CleanInv'
<1>1. ServedOK(d) /\ OfOne(d) /\ (~tornDown[d] => Guarded(d))
  BY DEF CleanInv, CleanOK
<1>2. ServedOK(d)'
  <2>1. CASE tornDown'[d]
    BY <1>1, <2>1 DEF ServedOK, Awaiting, clientVars
  <2> QED BY <2>1, LiveServed
<1>3. OfOne(d)'
  BY <1>1 DEF OfOne, Open, clientVars
<1>4. ~tornDown'[d] => Guarded(d)'
  BY <1>1 DEF Guarded, GuardedFrom, Unheld, Open, clientVars
<1>5. \A e \in Duplexes : Open(e)' => Open(e) /\ openedIn' = openedIn
  BY DEF Open, clientVars
<1> QED BY <1>2, <1>3, <1>4, <1>5, CleanStep DEF CleanOK

\* A duplex that is torn down takes no more frames.
LEMMA TornServes ==
    ASSUME DuplexInv, NEW d \in Duplexes, DuplexStep(d)
    PROVE  /\ tornDown[d] => tornDown'[d]
           /\ tornDown'[d] /\ Serving(d)' => Serving(d) /\ op'[d] = op[d]
<1>1. DuplexTypeOK /\ StreamOK(d)
  BY DEF DuplexInv, DuplexOK
<1>2. CASE NextFrame(d)
  BY <1>2 DEF NextFrame
<1>3. CASE DrainEnd(d)
  <2>1. CASE tornDown[d]
    BY <1>1, <1>3, <2>1 DEF DrainEnd, StreamOK, Serving, DuplexTypeOK
  <2> QED BY <1>3, <2>1 DEF DrainEnd
<1>4. CASE EnterMutex(d) \/ OpFails(d)
  BY <1>1, <1>4 DEF EnterMutex, OpFails, Serving, DuplexTypeOK
<1>5. CASE DrainFailed(d)
  BY <1>1, <1>5 DEF DrainFailed, destroy, Serving, DuplexTypeOK
<1>6. CASE EnterRecovery(d) \/ RecoveryFailed(d) \/ RollbackAfterCall(d) \/ Final(d)
           \/ FinalDone(d) \/ DestroyDone(d)
  BY <1>1, <1>6 DEF EnterRecovery, RecoveryFailed, RollbackAfterCall, Final, FinalDone, DestroyDone,
                    destroy, Serving, streamVars, DuplexTypeOK
<1>7. CASE TerminateDone(d)
  BY <1>1, <1>7 DEF TerminateDone, Serving, DuplexTypeOK
<1> QED BY <1>2, <1>3, <1>4, <1>5, <1>6, <1>7 DEF DuplexStep

\* What a duplex and PGlite's mutex do by themselves.
LEMMA DuplexStepClean ==
    ASSUME PoolInv, PoolInv', CleanInv, NEW d \in Duplexes, DuplexStep(d), UNCHANGED clientVars
    PROVE  CleanInv'
<1>1. Alone(d) /\ UNCHANGED <<xact, openedBy>>
  BY DuplexStepAlone DEF PoolInv
<1>2. /\ tornDown[d] => tornDown'[d]
      /\ tornDown'[d] /\ Serving(d)' => Serving(d) /\ op'[d] = op[d]
  BY TornServes DEF PoolInv
<1> QED BY <1>1, <1>2, CleanRests

\* PGlite takes its next job, or drops it.
LEMMA StartJobClean ==
    ASSUME PoolInv, PoolInv', CleanInv, StartJob, UNCHANGED clientVars
    PROVE  CleanInv'
<1>1. DuplexInv /\ DuplexTypeOK /\ LockInv
  BY DEF PoolInv, DuplexInv
<1>2. PICK d \in Duplexes : Head(mutex).by = d
  <2>1. mutex # <<>>
    BY DEF StartJob
  <2>2. PICK d \in Duplexes, j \in JobKinds : Head(mutex) = Job(d, j)
    BY <1>1, <2>1, HeadIsOwed
  <2> QED BY <2>2, JobFacts
<1>3. /\ \/ UNCHANGED <<drain, op>>
         \/ drain' = [drain EXCEPT ![d] = "loop"] /\ op' = [op EXCEPT ![d] = "none"]
      /\ UNCHANGED recovery \/ recovery' = [recovery EXCEPT ![d] = "none"]
      /\ UNCHANGED <<lockVars, xact, openedBy, phase, tornDown, closed, final, input,
                     buffered, lastSeen, portalSuspended, portalRecoveryRequested, rollback>>
  BY <1>2 DEF StartJob
<1>4. Alone(d)
  <2>1. OthersClaim(d)
    BY <1>1, <1>3, LockMoves, DuplexAssumption
  <2> QED BY <1>1, <1>3, <2>1 DEF Alone, OnlyMoves, clientVars, DuplexTypeOK
<1>5. Serving(d)' => Serving(d) /\ op'[d] = op[d]
  BY <1>1, <1>3 DEF Serving, DuplexTypeOK
<1> QED BY <1>3, <1>4, <1>5, CleanRests

\* A teardown that is not the client's own doing.
LEMMA DestroysClean ==
    ASSUME PoolInv, PoolInv', CleanInv, NEW d \in Duplexes, Destroy(d), UNCHANGED clientVars
    PROVE  CleanInv'
<1>1. DuplexInv /\ DuplexTypeOK /\ LockInv /\ d \in Ids
  BY DuplexAssumption DEF PoolInv, DuplexInv
<1>2. /\ destroy(d) /\ ~tornDown[d]
      /\ UNCHANGED <<lockVars, xact, openedBy, busy, faults, phase, closed, final, drain, op,
                     lastSeen, portalSuspended, portalRecoveryRequested, recovery>>
  BY DEF Destroy
<1>3. Alone(d)
  <2>1. OthersClaim(d)
    BY <1>1, <1>2, LockMoves
  <2> QED BY <1>1, <1>2, <2>1, DestroyMoves DEF Alone, OnlyMoves, clientVars
<1> QED BY <1>2, <1>3, CleanRests DEF Serving

\* Nothing of a client and its duplex moves.
LEMMA CleanStutter ==
    ASSUME CleanInv, UNCHANGED <<duplexVars, out, lease, removed, active, queue, openedIn>>
    PROVE  CleanInv'
<1>1. ASSUME NEW d \in Duplexes PROVE CleanOK(d)'
  <2>1. CleanOK(d)
    BY DEF CleanInv
  <2> QED BY <2>1 DEF CleanOK, ServedOK, OfOne, Guarded, GuardedFrom, Unheld, Open, Serving,
                      Awaiting, duplexVars, streamVars, pgliteVars
<1> QED BY <1>1 DEF CleanInv

-----------------------------------------------------------------------------
(* What a call leaves open. *)

\* A transaction that is open after a client's call was open before, or is that of
\* the BEGIN which the call ran.
LEMMA CallOpens ==
    ASSUME PoolInv, CleanInv, NEW d \in Duplexes, CallReturns(d)
    PROVE  /\ \A e \in Duplexes \ {d} : ~Open(e)'
           /\ Open(d)' => \/ Open(d) /\ openedIn' = openedIn
                          \/ active[d].kind = "begin" /\ openedIn' = active[d].lease
           /\ Open(d)' /\ active[d].kind = "rollback" /\ ~tornDown[d] => UNCHANGED active
           /\ ~Serving(d)' \/ (UNCHANGED <<drain, op, active>> /\ openedBy' # d)
<1>1. DuplexInv /\ DuplexTypeOK /\ ServedOK(d) /\ (~tornDown[d] => OneFrame(d) /\ PortalOK(d))
  BY DEF PoolInv, DuplexInv, CleanInv, CleanOK, ClientOK
<1>2. OpenedInAfter(d)
  BY DEF CallReturns
<1>3. CASE FinishOp(d) \/ FinishRecovery(d)
  <2> DEFINE frame == IF FinishOp(d) THEN op[d] ELSE "sync"
  <2>1. Executing(d) /\ (streamProtocol(d, frame) \/ CallThrows)
    BY <1>3 DEF FinishOp, FinishRecovery
  <2>2. frame \in Frames /\ owner = d
    BY <1>1, <1>3, <2>1, CallFacts DEF FinishOp, Frames
  <2>3. /\ xact \in {"block", "failed"} => openedBy = d
        /\ xact \in {"idle", "implicit", "block", "failed"}
        /\ xact = "idle" <=> openedBy = NoOwner
    BY <1>1, <2>2, OwnersTransaction
  <2>4. ~Serving(d)'
    <3>1. FinishRecovery(d) => Resting(d) /\ UNCHANGED streamVars
      BY <1>1, CallFacts DEF FinishRecovery
    <3>2. FinishOp(d) => drain'[d] \in {"loop", "failing"}
      BY <1>1 DEF FinishOp, DuplexTypeOK
    <3> QED BY <1>3, <3>1, <3>2 DEF Serving, Resting, streamVars
  <2>5. FinishOp(d) => /\ drain[d] = "queued" /\ Awaiting(d) /\ op[d] = Sent(active[d].kind)
                       /\ openedBy = d /\ xact = "implicit" => active[d].kind \in CursorStates
    BY <1>1, CallFacts DEF FinishOp, ServedOK, Serving
  <2>6. CASE CallThrows
    <3>1. UNCHANGED <<xact, openedBy>>
      BY <2>6 DEF CallThrows
    <3>2. Open(d)' => Open(d) /\ openedIn' = openedIn
      BY <1>2, <3>1 DEF OpenedInAfter, Open
    <3>3. \A e \in Duplexes \ {d} : ~Open(e)'
      BY <2>3, <3>1 DEF Open
    <3>4. faults' = faults + 1 /\ faults \in Nat
      BY <1>1, <2>6, DuplexAssumption DEF CallThrows, DuplexTypeOK
    <3>5. FinishOp(d) => UNCHANGED active
      <4>1. ASSUME FinishOp(d) PROVE drain'[d] = "failing"
        BY <1>1, <3>4, <4>1 DEF FinishOp, DuplexTypeOK
      <4>2. ASSUME FinishOp(d) PROVE Responds(d)
        <5>1. ~FinishRecovery(d) /\ ~FinishRollback(d)
          BY <4>2 DEF FinishOp, FinishRecovery, FinishRollback
        <5> QED BY <5>1 DEF CallReturns
      <4> QED BY <4>1, <4>2 DEF Responds
    <3>6. FinishRecovery(d) /\ ~tornDown[d] => active[d].kind = "parked"
      BY <1>1, CallFacts DEF FinishRecovery, PortalOK
    <3> QED BY <1>3, <2>4, <3>2, <3>3, <3>5, <3>6
  <2>7. CASE streamProtocol(d, frame)
    <3> HIDE DEF frame
    <3>1. openedBy' = OpenerAfter(d, frame, xact') /\ Reaches(frame, xact')
      BY <2>2, <2>7 DEF streamProtocol, FlushSuspends, FlushFails, Answered, Reaches
    <3>2. \A e \in Duplexes \ {d} : ~Open(e)'
      BY <1>1, <2>2, <3>1, OpenerFact, DuplexAssumption, NoOwnerAssumption DEF Open
    <3>3. frame = "end" => xact' = "idle"
      BY <3>1 DEF Reaches, After
    <3>4. xact \in {"idle", "implicit"} /\ xact' \in {"block", "failed"} =>
             frame = "begin" /\ xact' = "block" /\ openedBy' = d
      BY <2>2, <3>1 DEF Reaches, After, AfterFlush, AfterError, OpenerAfter, Frames
    <3> USE DEF frame
    <3>5. Open(d)' /\ ~Open(d) => active[d].kind = "begin" /\ openedIn' = active[d].lease
      <4>1. SUFFICES ASSUME Open(d)', ~Open(d)
                     PROVE  active[d].kind = "begin" /\ openedIn' = active[d].lease
        OBVIOUS
      <4>2. xact \in {"idle", "implicit"} /\ xact' \in {"block", "failed"}
        BY <2>3, <4>1 DEF Open
      <4>3. frame = "begin" /\ openedBy' = d
        BY <3>4, <4>2
      <4>4. FinishOp(d) /\ op[d] = "begin"
        BY <4>3
      <4>5. active[d].kind = "begin"
        BY <2>5, <4>4 DEF Sent, FrameOf, Awaiting
      <4>6. xact = "idle" \/ openedBy' # openedBy
        BY <2>5, <4>2, <4>3, <4>4, <4>5 DEF CursorStates
      <4> QED BY <1>2, <4>2, <4>5, <4>6 DEF OpenedInAfter
    <3>6. Open(d)' /\ Open(d) => openedIn' = openedIn
      BY <1>2 DEF OpenedInAfter, Open
    <3>7. active[d].kind = "rollback" /\ ~tornDown[d] => ~Open(d)'
      <4>1. ASSUME active[d].kind = "rollback", ~tornDown[d] PROVE frame = "end"
        <5>1. ~FinishRecovery(d)
          BY <1>1, <4>1, CallFacts DEF FinishRecovery, PortalOK
        <5> QED BY <1>3, <2>5, <4>1, <5>1 DEF Sent, FrameOf
      <4> QED BY <3>3, <4>1 DEF Open
    <3> QED BY <2>4, <3>2, <3>5, <3>6, <3>7
  <2> QED BY <2>1, <2>6, <2>7
<1>4. CASE FinishRollback(d) /\ UNCHANGED active
  <2>1. openedBy' = NoOwner /\ NoOwner \notin Duplexes /\ UNCHANGED streamVars
    BY <1>4, DuplexAssumption, NoOwnerAssumption DEF FinishRollback
  <2> QED BY <1>4, <2>1 DEF Open, streamVars
<1> QED BY <1>3, <1>4 DEF CallReturns

\* PGlite is done with a call of a client.
LEMMA CallReturnsClean ==
    ASSUME PoolInv, PoolInv', CleanInv, NEW d \in Duplexes, CallReturns(d)
    PROVE  CleanInv'
<1>1. /\ \A e \in Duplexes \ {d} : ~Open(e)'
      /\ Open(d)' => \/ Open(d) /\ openedIn' = openedIn
                     \/ active[d].kind = "begin" /\ openedIn' = active[d].lease
      /\ Open(d)' /\ active[d].kind = "rollback" /\ ~tornDown[d] => UNCHANGED active
      /\ ~Serving(d)' \/ (UNCHANGED <<drain, op, active>> /\ openedBy' # d)
  BY CallOpens
<1>2. /\ Alone(d)
      /\ \/ active' = active
         \/ active[d].kind = "reading" /\ \E state \in {"parked", "exhausted"} :
                active' = [active EXCEPT ![d].kind = state]
         \/ active' = [active EXCEPT ![d] = NoQuery]
  BY CallAlone
<1>3. /\ ServedOK(d) /\ OfOne(d) /\ (~tornDown[d] => Guarded(d)) /\ PoolTypeOK
      /\ UNCHANGED <<out, lease, removed, queue, tornDown>>
  BY DEF CleanInv, CleanOK, PoolInv, CallReturns, FinishOp, FinishRecovery, FinishRollback,
         streamVars
<1>4. \/ active' = active
      \/ active'[d].kind = "none"
      \/ /\ active[d].kind = "reading" /\ active'[d].kind \in {"parked", "exhausted"}
         /\ active'[d].lease = active[d].lease
  <2>1. ASSUME active[d].kind = "reading", NEW state \in {"parked", "exhausted"},
               active' = [active EXCEPT ![d].kind = state]
        PROVE  active'[d].kind = state /\ active'[d].lease = active[d].lease
    BY <1>3, <2>1, CursorMoves DEF CursorStates
  <2>2. active' = [active EXCEPT ![d] = NoQuery] => active'[d].kind = "none"
    BY <1>3 DEF NoQuery, PoolTypeOK
  <2> QED BY <1>2, <2>1, <2>2
<1>5. ServedOK(d)'
  <2>1. CASE UNCHANGED <<drain, op, active>> /\ openedBy' # d
    BY <1>3, <2>1 DEF ServedOK, Serving, Awaiting
  <2>2. CASE ~Serving(d)'
    BY <2>2 DEF ServedOK
  <2> QED BY <1>1, <2>1, <2>2
<1>6. OfOne(d)'
  BY <1>1, <1>3, <1>4 DEF OfOne
<1>7. ASSUME ~tornDown'[d] PROVE Guarded(d)'
  <2>1. Guarded(d) /\ ~tornDown[d]
    BY <1>3, <1>7
  <2>2. \A i, l : GuardedFrom(d, i, l) => GuardedThen(d, i, l)
    BY <1>3, GuardStays
  <2>3. Open(d)' /\ active'[d].kind # "rollback" => GuardedFrom(d, 0, openedIn')
    BY <1>1, <1>4, <2>1 DEF Guarded
  <2>4. active'[d].kind = "begin" => active' = active
    BY <1>4
  <2> QED BY <1>3, <2>1, <2>2, <2>3, <2>4, GuardedAfter DEF Guarded
<1>8. \A e \in Duplexes \ {d} : Open(e)' => Open(e) /\ openedIn' = openedIn
  BY <1>1
<1> QED BY <1>2, <1>5, <1>6, <1>7, <1>8, CleanStep DEF CleanOK

-----------------------------------------------------------------------------
(* What is submitted, and sent. *)

\* pg makes q its active query: q is of whoever opened the transaction, if one is
\* open, and what is left in the queue is guarded.
LEMMA SendClean ==
    ASSUME PoolInv, PoolInv', CleanInv, NEW d \in Duplexes, NEW q \in Queued,
           q.kind # "cleanup", Send(d, q), UNCHANGED <<out, lease, removed, openedIn>>,
           \A e \in Duplexes \ {d} : queue'[e] = queue[e],
           Open(d) /\ q.kind # "rollback" => q.lease = openedIn /\ GuardedThen(d, 0, openedIn),
           q.kind = "begin" => GuardedThen(d, 0, q.lease),
           \A i \in DOMAIN queue'[d] :
              queue'[d][i].kind = "begin" => GuardedThen(d, i, queue'[d][i].lease)
    PROVE  CleanInv'
<1>1. /\ active'[d].lease = q.lease
      /\ active'[d].kind = IF q.kind = "cursor" THEN "reading" ELSE q.kind
      /\ \A e \in Duplexes \ {d} : active'[e] = active[e]
      /\ FrameOf(q.kind) \in Frames /\ Write(d, FrameOf(q.kind))
  BY SendMoves DEF PoolInv
<1>2. /\ OnlyMoves(d) /\ OthersClaim(d) /\ UNCHANGED <<xact, openedBy>>
      /\ \A e \in Duplexes \ {d} : /\ portalSuspended'[e] = portalSuspended[e]
                                   /\ portalRecoveryRequested'[e] = portalRecoveryRequested[e]
  BY <1>1, WriteAlone DEF PoolInv
<1>3. Alone(d)
  BY <1>1, <1>2 DEF Alone
<1>4. ServedOK(d)'
  <2>1. ~tornDown'[d]
    BY <1>1 DEF Write
  <2> QED BY <2>1, LiveServed
<1>5. Open(d)' <=> Open(d)
  BY <1>2 DEF Open
<1>6. active'[d].kind # "rollback" => q.kind # "rollback"
  BY <1>1
<1>7. OfOne(d)'
  BY <1>1, <1>5, <1>6 DEF OfOne
<1>8. Guarded(d)'
  <2>1. active'[d].kind = "begin" => q.kind = "begin"
    BY <1>1
  <2> QED BY <1>1, <1>5, <1>6, <2>1, GuardedAfter
<1>9. \A e \in Duplexes : Open(e)' => Open(e) /\ openedIn' = openedIn
  BY <1>2 DEF Open
<1> QED BY <1>3, <1>4, <1>7, <1>8, <1>9, CleanStep DEF CleanOK

\* A client's own state changes, its duplex and pg's active query do not.
LEMMA QueueClean ==
    ASSUME PoolInv, CleanInv, NEW d \in Duplexes,
           UNCHANGED <<duplexVars, active, openedIn>>, Alone(d),
           ~tornDown[d] => Guarded(d)'
    PROVE  CleanInv'
<1>1. ServedOK(d) /\ OfOne(d)
  BY DEF CleanInv, CleanOK
<1>2. ServedOK(d)' /\ OfOne(d)' /\ (~tornDown'[d] => Guarded(d)')
  BY <1>1 DEF ServedOK, OfOne, Open, Serving, Awaiting, duplexVars, streamVars, pgliteVars
<1>3. \A e \in Duplexes : Open(e)' => Open(e) /\ openedIn' = openedIn
  BY DEF Open, duplexVars, pgliteVars
<1> QED BY <1>2, <1>3, CleanStep DEF CleanOK

\* A borrower submits something.
LEMMA QueryClean ==
    ASSUME PoolInv, PoolInv', CleanInv, NEW d \in Duplexes, NEW kind \in Kinds, query(d, kind)
    PROVE  CleanInv'
<1> DEFINE q == [kind |-> kind, lease |-> lease[d]]
<1>1. /\ out[d] /\ ~tornDown[d] /\ UNCHANGED <<out, lease, leases, removed, openedIn>>
      /\ IF Idle(d) /\ queue[d] = <<>>
         THEN Send(d, q) /\ UNCHANGED queue
         ELSE queue' = [queue EXCEPT ![d] = Append(@, q)] /\ UNCHANGED <<duplexVars, active>>
  BY DEF query
<1>2. kind \in {"query", "begin", "end", "cursor"}
  BY PoolAssumption, Zenon
<1>3. /\ PoolTypeOK /\ LeaseOK(d) /\ OfOne(d) /\ Guarded(d)
      /\ DuplexInv /\ DuplexTypeOK /\ LockInv /\ d \in Ids
  BY <1>1, LiveFacts DEF PoolInv, CleanInv, CleanOK
<1>4. q \in Queued /\ q.kind = kind /\ q.lease = lease[d] /\ ~removed[d]
  <2>1. lease[d] \in 0..MaxLeases
    BY <1>3 DEF PoolTypeOK
  <2> QED BY <1>1, <1>2, <1>3, <2>1 DEF Queued, LeaseOK
<1> HIDE DEF q
<1>5. CASE Idle(d) /\ queue[d] = <<>>
  <2>1. Send(d, q) /\ UNCHANGED queue /\ q.kind \notin {"cleanup", "rollback"}
    BY <1>1, <1>2, <1>4, <1>5
  <2>2. DOMAIN queue[d] = {} /\ \A l : Covered(queue[d], 0, l) /\ ~HasMark(queue[d], 0)
    <3>1. DOMAIN queue[d] = {}
      BY <1>5
    <3> QED BY <3>1 DEF Covered, HasMark
  <2>3. Open(d) => q.lease = openedIn
    <3>1. active[d].kind # "rollback"
      BY <1>1, <1>5, LiveFacts
    <3> QED BY <1>1, <1>3, <1>4, <2>2, <3>1 DEF Guarded, GuardedFrom, Unheld
  <2>4. GuardedThen(d, 0, q.lease)
    BY <1>1, <1>4, <2>1, <2>2 DEF GuardedThen, UnheldThen
  <2>5. \A e \in Duplexes \ {d} : queue'[e] = queue[e]
    BY <2>1
  <2> QED BY <1>1, <1>4, <2>1, <2>2, <2>3, <2>4, <2>5, SendClean
<1>6. CASE ~(Idle(d) /\ queue[d] = <<>>)
  <2>1. queue' = [queue EXCEPT ![d] = Append(@, q)] /\ UNCHANGED <<duplexVars, active>>
    BY <1>1, <1>6
  <2>2. /\ DOMAIN queue[d] = 1..Len(queue[d]) /\ Len(queue[d]) \in Nat
        /\ DOMAIN queue'[d] = 1..(Len(queue[d]) + 1)
        /\ \A k \in DOMAIN queue[d] : queue'[d][k] = queue[d][k]
        /\ queue'[d][Len(queue[d]) + 1] = q
        /\ \A k \in DOMAIN queue'[d] : k \in DOMAIN queue[d] \/ k = Len(queue[d]) + 1
        /\ \A e \in Duplexes \ {d} : queue'[e] = queue[e]
    BY <1>3, <1>4, <2>1, Submitted
  <2>3. \A l : \A i \in Nat :
           i <= Len(queue[d]) /\ GuardedFrom(d, i, l) => GuardedThen(d, i, l)
    BY <1>1, <1>3, <1>4, <2>1, GuardGrows
  <2>4. GuardedThen(d, Len(queue[d]) + 1, q.lease)
    <3>1. Covered(queue'[d], Len(queue[d]) + 1, q.lease)
      BY <2>2 DEF Covered
    <3> QED BY <1>1, <1>4, <3>1 DEF GuardedThen, UnheldThen
  <2>5. Guarded(d)'
    <3>1. Open(d)' /\ active'[d].kind # "rollback" => GuardedFrom(d, 0, openedIn)
      BY <1>1, <1>3, <2>1 DEF Guarded, Open, duplexVars, pgliteVars
    <3>2. active'[d].kind = "begin" => GuardedFrom(d, 0, active[d].lease)
      BY <1>3, <2>1 DEF Guarded
    <3>3. ASSUME NEW i \in DOMAIN queue'[d], queue'[d][i].kind = "begin"
          PROVE  GuardedThen(d, i, queue'[d][i].lease)
      <4>1. CASE i \in DOMAIN queue[d]
        <5>1. i \in Nat /\ i <= Len(queue[d]) /\ queue'[d][i] = queue[d][i]
          BY <2>2, <4>1
        <5>2. GuardedFrom(d, i, queue[d][i].lease)
          BY <1>3, <3>3, <4>1, <5>1 DEF Guarded
        <5> QED BY <2>3, <5>1, <5>2
      <4>2. CASE i = Len(queue[d]) + 1
        BY <2>2, <2>4, <4>2
      <4> QED BY <2>2, <4>1, <4>2
    <3>4. 0 <= Len(queue[d])
      BY <2>2
    <3> QED BY <1>1, <2>1, <2>3, <3>1, <3>2, <3>3, <3>4, GuardedAfter
  <2>6. Alone(d)
    BY <1>1, <1>3, <2>1, <2>2, LockMoves DEF Alone, OnlyMoves, duplexVars, streamVars, portalVars,
                                             pgliteVars
  <2> QED BY <1>1, <2>1, <2>5, <2>6, QueueClean
<1> QED BY <1>5, <1>6

\* An entry leaves the queue of a client that stays as it is, and what was behind it
\* moves up by one place.
LEMMA GuardShifts ==
    ASSUME PoolTypeOK, NEW d \in Duplexes, queue' \in [Duplexes -> Seq(Queued)],
           DOMAIN queue'[d] = 1..(Len(queue[d]) - 1), NEW i \in Nat, NEW l,
           \A m \in DOMAIN queue'[d] : m > i => queue'[d][m] = queue[d][m + 1],
           UNCHANGED <<out, lease, removed>>, GuardedFrom(d, i + 1, l)
    PROVE  GuardedThen(d, i, l)
<1>1. /\ queue[d] \in Seq(Queued) /\ queue'[d] \in Seq(Queued)
      /\ DOMAIN queue[d] = 1..Len(queue[d]) /\ Len(queue[d]) \in Nat
  BY DEF PoolTypeOK
<1>2. /\ Covered(queue[d], i + 1, l) => Covered(queue'[d], i, l)
      /\ HasMark(queue[d], i + 1) => HasMark(queue'[d], i)
  BY <1>1, CoverShifts
<1> QED BY <1>2 DEF GuardedFrom, GuardedThen, Unheld, UnheldThen

\* pg takes the next query of its queue.
LEMMA PulseClean ==
    ASSUME PoolInv, PoolInv', CleanInv, NEW d \in Duplexes, Pulse(d)
    PROVE  CleanInv'
<1> DEFINE h == queue[d][1]
<1>1. /\ Idle(d) /\ queue[d] # <<>> /\ Head(queue[d]).kind # "cleanup"
      /\ Send(d, Head(queue[d])) /\ queue' = [queue EXCEPT ![d] = Tail(@)]
      /\ UNCHANGED <<out, lease, removed, openedIn>> /\ ~tornDown[d]
  BY DEF Pulse, Send, Write
<1>2. PoolTypeOK /\ Guarded(d) /\ active[d].kind = "none"
  BY <1>1, LiveFacts DEF PoolInv, CleanInv, CleanOK
<1>3. /\ queue' \in [Duplexes -> Seq(Queued)] /\ 1 \in DOMAIN queue[d]
      /\ Head(queue[d]) = h /\ h \in Queued
      /\ \A e \in Duplexes \ {d} : queue'[e] = queue[e]
      /\ DOMAIN queue[d] = 1..Len(queue[d]) /\ Len(queue[d]) \in Nat
      /\ DOMAIN queue'[d] = 1..(Len(queue[d]) - 1)
      /\ \A k \in DOMAIN queue'[d] : k + 1 \in DOMAIN queue[d] /\ queue'[d][k] = queue[d][k + 1]
  BY <1>1, <1>2, QueueHead
<1>4. \A l : \A i \in Nat : GuardedFrom(d, i + 1, l) => GuardedThen(d, i, l)
  BY <1>1, <1>2, <1>3, GuardShifts
<1>5. h.kind # "cleanup" /\ Send(d, h)
  BY <1>1, <1>3
<1>6. ASSUME Open(d), h.kind # "rollback"
      PROVE  h.lease = openedIn /\ GuardedThen(d, 0, openedIn)
  <2>1. GuardedFrom(d, 0, openedIn) /\ ~Marked(h)
    BY <1>2, <1>5, <1>6 DEF Guarded, Marked
  <2>2. h.lease = openedIn
    <3>1. h.lease # openedIn => \E j \in (0 + 1)..1 : Marked(queue[d][j])
      BY <1>3, <2>1 DEF GuardedFrom, Covered
    <3>2. \A j \in (0 + 1)..1 : j = 1
      OBVIOUS
    <3> QED BY <2>1, <3>1, <3>2
  <2>3. GuardedFrom(d, 0 + 1, openedIn)
    <3>1. queue[d] \in Seq(Queued)
      BY <1>2 DEF PoolTypeOK
    <3>2. /\ Covered(queue[d], 0, openedIn) => Covered(queue[d], 1, openedIn)
          /\ HasMark(queue[d], 0) => HasMark(queue[d], 1)
      BY <1>3, <2>1, <3>1, CoverSkips
    <3> QED BY <2>1, <3>2 DEF GuardedFrom
  <2> QED BY <1>4, <2>2, <2>3
<1>7. h.kind = "begin" => GuardedThen(d, 0, h.lease)
  <2>1. h.kind = "begin" => GuardedFrom(d, 0 + 1, h.lease)
    BY <1>2, <1>3 DEF Guarded
  <2> QED BY <1>4, <2>1
<1>8. ASSUME NEW i \in DOMAIN queue'[d], queue'[d][i].kind = "begin"
      PROVE  GuardedThen(d, i, queue'[d][i].lease)
  <2>1. i \in Nat /\ i + 1 \in DOMAIN queue[d] /\ queue'[d][i] = queue[d][i + 1]
    BY <1>3
  <2>2. GuardedFrom(d, i + 1, queue[d][i + 1].lease)
    BY <1>2, <1>8, <2>1 DEF Guarded
  <2> QED BY <1>4, <2>1, <2>2
<1> HIDE DEF h
<1> QED BY <1>1, <1>3, <1>5, <1>6, <1>7, <1>8, SendClean

\* A cursor reads on or is closed.
LEMMA CursorWritesClean ==
    ASSUME PoolInv, PoolInv', CleanInv, NEW d \in Duplexes,
           CursorRead(d) \/ CursorClose(d) \/ CursorExhausted(d)
    PROVE  CleanInv'
<1>1. PICK frame \in {"flush", "sync"}, state \in {"reading", "closing"} :
         /\ active' = [active EXCEPT ![d].kind = state] /\ Write(d, frame)
         /\ UNCHANGED <<out, lease, removed, queue, openedIn>>
         /\ active[d].kind \in {"parked", "exhausted"}
  BY DEF CursorRead, CursorClose, CursorExhausted, CursorWrites
<1>2. PoolTypeOK /\ DuplexInv /\ ~tornDown[d] /\ ~tornDown'[d] /\ OfOne(d) /\ Guarded(d)
  BY <1>1 DEF PoolInv, Write, CleanInv, CleanOK
<1>3. /\ active'[d].kind = state /\ active'[d].lease = active[d].lease
      /\ \A e \in Duplexes \ {d} : active'[e] = active[e]
  BY <1>1, <1>2, CursorMoves DEF CursorStates
<1>4. Alone(d) /\ UNCHANGED <<xact, openedBy>>
  BY <1>1, <1>2, <1>3, WriteAlone DEF Alone
<1>5. OfOne(d)'
  BY <1>1, <1>2, <1>3, <1>4 DEF OfOne, Open
<1>6. Guarded(d)'
  <2>1. \A i, l : GuardedFrom(d, i, l) => GuardedThen(d, i, l)
    BY <1>1, GuardStays
  <2>2. Open(d)' => GuardedFrom(d, 0, openedIn)
    BY <1>1, <1>2, <1>4 DEF Guarded, Open
  <2> QED BY <1>1, <1>2, <1>3, <2>1, <2>2, GuardedAfter DEF Guarded
<1>7. \A e \in Duplexes : Open(e)' => Open(e) /\ openedIn' = openedIn
  BY <1>1, <1>4 DEF Open
<1> QED BY <1>2, <1>4, <1>5, <1>6, <1>7, LiveServed, CleanStep DEF CleanOK

-----------------------------------------------------------------------------
(* Checkouts and releases. *)

\* The client comes to its next borrower: whatever is open on it is marked.
LEMMA CheckoutClean ==
    ASSUME PoolInv, CleanInv, NEW d \in Duplexes, Checkout(d)
    PROVE  CleanInv'
<1>1. /\ ~out[d] /\ ~removed[d] /\ ~tornDown[d]
      /\ out' = [out EXCEPT ![d] = TRUE] /\ lease' = [lease EXCEPT ![d] = leases + 1]
      /\ UNCHANGED <<duplexVars, removed, active, queue, openedIn>>
  BY DEF Checkout
<1>2. /\ PoolTypeOK /\ LockInv /\ d \in Ids /\ Guarded(d)
  BY <1>1, DuplexAssumption DEF PoolInv, DuplexInv, CleanInv, CleanOK
<1>3. \A i, l : GuardedFrom(d, i, l) => GuardedThen(d, i, l)
  BY <1>1 DEF GuardedFrom, GuardedThen, Unheld
<1>4. Guarded(d)'
  <2>1. Open(d)' => Open(d)
    BY <1>1 DEF Open, duplexVars, pgliteVars
  <2> QED BY <1>1, <1>2, <1>3, <2>1, GuardedAfter DEF Guarded
<1>5. Alone(d)
  BY <1>1, <1>2, LockMoves DEF Alone, OnlyMoves, duplexVars, streamVars, portalVars, pgliteVars,
                               PoolTypeOK
<1> QED BY <1>1, <1>4, <1>5, QueueClean

\* The cleanup link is put behind the work in flight, or the queue stays.
LEMMA LinkGuards ==
    ASSUME PoolInv, NEW d \in Duplexes, Guarded(d),
           rollbackAbandonedTransaction(d) \/ UNCHANGED queue,
           UNCHANGED <<xact, openedBy, active, openedIn>>,
           \/ UNCHANGED queue => /\ ~Open(d) /\ active[d].kind # "begin"
                                 /\ \A i \in DOMAIN queue[d] : queue[d][i].kind # "begin"
           \/ removed'[d]
    PROVE  Guarded(d)'
<1> DEFINE q == [kind |-> "cleanup", lease |-> lease[d]]
<1>1. PoolTypeOK
  BY DEF PoolInv
<1>2. CASE queue' = [queue EXCEPT ![d] = Append(@, q)]
  <2>1. q \in Queued /\ Marked(q) /\ q.kind # "begin"
    <3>1. lease[d] \in 0..MaxLeases
      BY <1>1 DEF PoolTypeOK
    <3> QED BY <3>1 DEF Queued, Marked
  <2> HIDE DEF q
  <2>2. /\ DOMAIN queue[d] = 1..Len(queue[d]) /\ Len(queue[d]) \in Nat
        /\ \A k \in DOMAIN queue[d] : queue'[d][k] = queue[d][k]
        /\ queue'[d][Len(queue[d]) + 1] = q
        /\ \A k \in DOMAIN queue'[d] : k \in DOMAIN queue[d] \/ k = Len(queue[d]) + 1
    BY <1>1, <1>2, <2>1, Submitted
  <2>3. \A l : \A i \in Nat :
           i <= Len(queue[d]) /\ GuardedFrom(d, i, l) => GuardedThen(d, i, l)
    BY <1>1, <1>2, <2>1, GuardGrows
  <2>4. Open(d)' => Open(d)
    BY DEF Open
  <2>5. ASSUME NEW i \in DOMAIN queue'[d], queue'[d][i].kind = "begin"
        PROVE  GuardedThen(d, i, queue'[d][i].lease)
    <3>1. /\ i \in DOMAIN queue[d] /\ i \in Nat /\ i <= Len(queue[d])
          /\ queue'[d][i] = queue[d][i]
      BY <2>1, <2>2, <2>5
    <3> QED BY <2>3, <2>5, <3>1 DEF Guarded
  <2>6. 0 <= Len(queue[d])
    BY <2>2
  <2> QED BY <2>3, <2>4, <2>5, <2>6, GuardedAfter DEF Guarded
<1>3. CASE UNCHANGED queue
  <2>1. Open(d)' => Open(d)
    BY DEF Open
  <2>2. CASE removed'[d]
    <3>1. \A i, l : GuardedFrom(d, i, l) => GuardedThen(d, i, l)
      BY <1>3, <2>2 DEF GuardedFrom, GuardedThen, UnheldThen
    <3> QED BY <1>3, <2>1, <3>1, GuardedAfter DEF Guarded
  <2>3. CASE /\ ~Open(d) /\ active[d].kind # "begin"
             /\ \A i \in DOMAIN queue[d] : queue[d][i].kind # "begin"
    BY <1>3, <2>1, <2>3, GuardedAfter
  <2> QED BY <1>3, <2>2, <2>3
<1> QED BY <1>2, <1>3 DEF rollbackAbandonedTransaction

\* A borrower lets go of its client: a transaction that it leaves is marked.
LEMMA ReleaseClean ==
    ASSUME PoolInv, PoolInv', CleanInv, NEW d \in Duplexes, release_(d)
    PROVE  CleanInv'
<1>1. /\ out[d] /\ MayRelease(d) /\ out' = [out EXCEPT ![d] = FALSE]
      /\ HoldLooked(d) /\ rollbackAbandonedTransaction(d)
      /\ UNCHANGED <<lockVars, pgliteVars, streamVars, lastSeen, rollback,
                     lease, leases, submits, removed, active, openedIn>>
  BY DEF release_, HoldLooked
<1>2. /\ DuplexInv /\ PoolTypeOK /\ LockInv /\ d \in Ids /\ DuplexTypeOK /\ XactInv
  BY DuplexAssumption DEF PoolInv, DuplexInv
<1>3. /\ \A e \in Duplexes \ {d} :
            /\ portalSuspended'[e] = portalSuspended[e] /\ recovery'[e] = recovery[e]
            /\ portalRecoveryRequested'[e] = portalRecoveryRequested[e]
      /\ portalSuspended[d] /\ owner = d => portalSuspended'[d]
  BY <1>1, <1>2, HoldFacts
<1>4. \A e \in Duplexes \ {d} : queue'[e] = queue[e]
  BY <1>1, RollbackLink
<1>5. Alone(d)
  BY <1>1, <1>2, <1>3, <1>4, LockMoves DEF Alone, OnlyMoves, streamVars, pgliteVars, PoolTypeOK
<1>6. UNCHANGED <<tornDown, drain, op, xact, openedBy>>
  BY <1>1 DEF streamVars, pgliteVars
<1>7. ServedOK(d)' /\ OfOne(d)'
  BY <1>1, <1>6 DEF CleanInv, CleanOK, ServedOK, OfOne, Open, Serving, Awaiting
<1>8. ASSUME ~tornDown[d], UNCHANGED queue
      PROVE  /\ ~Open(d) /\ active[d].kind # "begin"
             /\ \A i \in DOMAIN queue[d] : queue[d][i].kind # "begin"
  <2>1. PortalOK(d) /\ (Idle(d) <=> active[d].kind = "none")
    BY <1>8, LiveFacts
  <2>2. active[d].kind = "reading" => ~inTransaction(d)
    <3>1. active[d].kind = "reading" /\ inTransaction(d) => FALSE
      BY <1>1, Zenon DEF MayRelease, PoolInv
    <3> QED BY <3>1
  <2>3. Open(d) => inTransaction(d)
    BY <1>2 DEF XactInv, Open
  <2>4. \/ ~Idle(d) /\ ~chainDefined(d) /\ ~portalSuspended'[d]
        \/ ~chainDefined(d) /\ ~inTransaction(d)
    <3>1. queue' # [queue EXCEPT ![d] = Append(@, [kind |-> "cleanup", lease |-> lease[d]])]
      <4> DEFINE q == [kind |-> "cleanup", lease |-> lease[d]]
      <4>1. q \in Queued
        BY <1>2 DEF Queued, PoolTypeOK
      <4> HIDE DEF q
      <4>2. ASSUME queue' = [queue EXCEPT ![d] = Append(@, q)] PROVE FALSE
        <5>1. /\ DOMAIN queue[d] = 1..Len(queue[d]) /\ Len(queue[d]) \in Nat
              /\ DOMAIN queue'[d] = 1..(Len(queue[d]) + 1)
          BY <1>2, <4>1, <4>2, Submitted
        <5> QED BY <1>8, <5>1
      <4> QED BY <4>2 DEF q
    <3> QED BY <1>1, <3>1 DEF rollbackAbandonedTransaction
  <2>5. ~chainDefined(d)
    BY <2>4
  <2>6. /\ active[d].kind \notin {"query", "begin", "end", "rollback"}
        /\ \A i \in DOMAIN queue[d] : queue[d][i].kind # "begin"
    BY <2>5 DEF chainDefined, Chained
  <2>7. ~Open(d)
    <3>1. ASSUME Open(d) PROVE FALSE
      <4>1. ~Idle(d) /\ ~portalSuspended'[d]
        BY <2>3, <2>4, <3>1
      <4>2. active[d].kind \in CursorStates /\ active[d].kind # "reading"
        <5>1. active[d] \in Queries
          BY <1>2 DEF PoolTypeOK
        <5>2. active[d].kind \in {"query", "begin", "end", "rollback", "none"} \cup CursorStates
          BY <5>1 DEF Queries, NoQuery
        <5> QED BY <2>1, <2>2, <2>3, <2>6, <3>1, <4>1, <5>2
      <4> QED BY <1>3, <2>1, <4>1, <4>2 DEF PortalOK, CursorStates
    <3> QED BY <3>1
  <2> QED BY <2>6, <2>7
<1>9. ASSUME ~tornDown'[d] PROVE Guarded(d)'
  <2>1. Guarded(d) /\ ~tornDown[d]
    BY <1>6, <1>9 DEF CleanInv, CleanOK
  <2> QED BY <1>1, <1>6, <1>8, <2>1, LinkGuards
<1>10. \A e \in Duplexes : Open(e)' => Open(e) /\ openedIn' = openedIn
  BY <1>1, <1>6 DEF Open
<1> QED BY <1>5, <1>7, <1>9, <1>10, CleanStep DEF CleanOK

\* pg-pool ends a client: nobody submits anything to it any more.
LEMMA ClientEndClean ==
    ASSUME PoolInv, PoolInv', CleanInv, NEW d \in Duplexes, lease[d] # 0, ~removed[d],
           \/ clientEnd(d, releaseAbandonedPortalHold(d))
           \/ clientEnd(d, UNCHANGED <<portalSuspended, portalRecoveryRequested, recovery>>),
           out' \in [Duplexes -> BOOLEAN], ~out'[d], \A e \in Duplexes \ {d} : out'[e] = out[e],
           rollbackAbandonedTransaction(d) \/ UNCHANGED queue
    PROVE  CleanInv'
<1>1. /\ Alone(d) /\ removed'[d]
      /\ UNCHANGED <<xact, openedBy, lease, leases, submits, active, openedIn>>
  BY ClientEndMoves
<1>2. DuplexTypeOK /\ ServedOK(d) /\ OfOne(d) /\ (~tornDown[d] => Guarded(d))
  BY DEF PoolInv, DuplexInv, CleanInv, CleanOK
<1>3. /\ tornDown'[d] => UNCHANGED <<drain, op>>
      /\ tornDown[d] => tornDown'[d]
  BY <1>2 DEF clientEnd, destroy
<1>4. ServedOK(d)'
  <2>1. CASE tornDown'[d]
    BY <1>1, <1>2, <1>3, <2>1 DEF ServedOK, Serving, Awaiting
  <2> QED BY <2>1, LiveServed
<1>5. OfOne(d)'
  BY <1>1, <1>2 DEF OfOne, Open
<1>6. ASSUME ~tornDown'[d] PROVE Guarded(d)'
  <2>1. Guarded(d)
    BY <1>2, <1>3, <1>6
  <2> QED BY <1>1, <2>1, LinkGuards
<1>7. \A e \in Duplexes : Open(e)' => Open(e) /\ openedIn' = openedIn
  BY <1>1 DEF Open
<1> QED BY <1>1, <1>4, <1>5, <1>6, <1>7, CleanStep DEF CleanOK

\* The cleanup link judges when no BEGIN is before it any more.
LEMMA CleanupLinkClean ==
    ASSUME PoolInv, PoolInv', CleanInv, NEW d \in Duplexes, CleanupLink(d)
    PROVE  CleanInv'
<1>1. UNCHANGED <<out, lease, leases, submits, removed, openedIn>> /\ PoolTypeOK
      /\ DuplexInv /\ LockInv /\ d \in Ids /\ XactInv
  BY DuplexAssumption DEF CleanupLink, PoolInv, DuplexInv
<1>2. PICK k \in DOMAIN queue[d] :
          /\ queue[d][k].kind = "cleanup" /\ (Idle(d) => k = 1)
          /\ ~Chained(active[d].kind) /\ \A j \in 1..(k - 1) : ~Chained(queue[d][j].kind)
          /\ IF tornDown[d] \/ ~inTransaction(d)
             THEN /\ queue' = [queue EXCEPT ![d] = RemoveAt(@, k)]
                  /\ UNCHANGED <<duplexVars, active>>
             ELSE IF final[d] # "no"
             THEN /\ queue' = [queue EXCEPT ![d] = RemoveAt(@, k)]
                  /\ Destroy(d) /\ UNCHANGED active
             ELSE IF Idle(d)
             THEN /\ queue' = [queue EXCEPT ![d] = RemoveAt(@, k)]
                  /\ Send(d, [kind |-> "rollback", lease |-> queue[d][k].lease])
             ELSE /\ queue' = [queue EXCEPT ![d][k].kind = "rollback"]
                  /\ UNCHANGED <<duplexVars, active>>
  BY DEF CleanupLink
<1>3. /\ queue \in [Duplexes -> Seq(Queued)] /\ queue[d] \in Seq(Queued)
      /\ DOMAIN queue[d] = 1..Len(queue[d]) /\ Len(queue[d]) \in Nat
      /\ \A j \in DOMAIN queue[d] : queue[d][j] \in Queued
      /\ ~tornDown[d] => Guarded(d)
  BY <1>1 DEF PoolTypeOK, CleanInv, CleanOK
<1>4. active[d].kind # "begin" /\ \A j \in 1..(k - 1) : queue[d][j].kind # "begin"
  BY <1>2 DEF Chained
<1>5. ASSUME queue' = [queue EXCEPT ![d] = RemoveAt(@, k)]
      PROVE  /\ queue' \in [Duplexes -> Seq(Queued)]
             /\ \A e \in Duplexes \ {d} : queue'[e] = queue[e]
             /\ DOMAIN queue'[d] = 1..(Len(queue[d]) - 1)
             /\ \A i \in DOMAIN queue'[d] :
                   queue'[d][i] = IF i < k THEN queue[d][i] ELSE queue[d][i + 1]
  BY <1>1, <1>5, QueueShrinks
<1>6. ASSUME queue' = [queue EXCEPT ![d] = RemoveAt(@, k)], ~tornDown[d],
             NEW i \in DOMAIN queue'[d], queue'[d][i].kind = "begin"
      PROVE  GuardedThen(d, i, queue'[d][i].lease)
  <2>1. /\ i \in Nat /\ i \in 1..(Len(queue[d]) - 1) /\ k \in Nat
        /\ DOMAIN queue'[d] = 1..(Len(queue[d]) - 1)
        /\ queue'[d][i] = IF i < k THEN queue[d][i] ELSE queue[d][i + 1]
    BY <1>3, <1>5, <1>6
  <2>2. ~(i < k)
    BY <1>4, <1>6, <2>1
  <2>3. queue'[d][i] = queue[d][i + 1] /\ i + 1 \in DOMAIN queue[d]
    BY <1>3, <2>1, <2>2
  <2>4. GuardedFrom(d, i + 1, queue[d][i + 1].lease)
    BY <1>3, <1>6, <2>3 DEF Guarded
  <2>5. \A m \in DOMAIN queue'[d] : m > i => queue'[d][m] = queue[d][m + 1]
    BY <1>5, <1>6, <2>1, <2>2
  <2>6. queue' \in [Duplexes -> Seq(Queued)]
    BY <1>5, <1>6
  <2> QED BY <1>1, <2>1, <2>3, <2>4, <2>5, <2>6, GuardShifts
<1>7. CASE queue' = [queue EXCEPT ![d] = RemoveAt(@, k)] /\ UNCHANGED <<duplexVars, active>>
           /\ (tornDown[d] \/ ~inTransaction(d))
  <2>1. Alone(d)
    BY <1>1, <1>5, <1>7, LockMoves DEF Alone, OnlyMoves, duplexVars, streamVars, portalVars,
                                       pgliteVars
  <2>2. ASSUME ~tornDown[d] PROVE Guarded(d)'
    <3>1. ~Open(d)'
      BY <1>1, <1>7, <2>2 DEF XactInv, Open, duplexVars, pgliteVars
    <3>2. active'[d].kind # "begin"
      BY <1>4, <1>7
    <3> QED BY <1>6, <1>7, <2>2, <3>1, <3>2, GuardedAfter
  <2> QED BY <1>1, <1>7, <2>1, <2>2, QueueClean
<1>8. CASE queue' = [queue EXCEPT ![d] = RemoveAt(@, k)] /\ Destroy(d) /\ UNCHANGED active
  <2>1. /\ destroy(d) /\ ~tornDown[d]
        /\ UNCHANGED <<lockVars, xact, openedBy, busy, faults, phase, closed, final, drain, op,
                       lastSeen, portalSuspended, portalRecoveryRequested, recovery>>
    BY <1>8 DEF Destroy
  <2>2. tornDown'[d]
    BY <1>1, <2>1 DEF destroy, DuplexInv, DuplexTypeOK
  <2>3. Alone(d)
    <3>1. OthersClaim(d)
      BY <1>1, <2>1, LockMoves
    <3> QED BY <1>1, <1>5, <1>8, <2>1, <3>1, DestroyMoves DEF Alone, OnlyMoves
  <2>4. ServedOK(d)' /\ OfOne(d)'
    BY <1>1, <1>8, <2>1 DEF CleanInv, CleanOK, ServedOK, OfOne, Open, Serving, Awaiting
  <2>5. \A e \in Duplexes : Open(e)' => Open(e) /\ openedIn' = openedIn
    BY <1>1, <2>1 DEF Open
  <2> QED BY <2>2, <2>3, <2>4, <2>5, CleanStep DEF CleanOK
<1>9. CASE /\ ~tornDown[d] /\ queue' = [queue EXCEPT ![d] = RemoveAt(@, k)]
           /\ Send(d, [kind |-> "rollback", lease |-> queue[d][k].lease])
  <2> DEFINE q == [kind |-> "rollback", lease |-> queue[d][k].lease]
  <2>1. q \in Queued /\ q.kind = "rollback"
    BY <1>3 DEF Queued
  <2>2. Send(d, q)
    BY <1>9
  <2> HIDE DEF q
  <2> QED BY <1>1, <1>5, <1>6, <1>9, <2>1, <2>2, SendClean
<1>10. CASE /\ ~tornDown[d] /\ queue' = [queue EXCEPT ![d][k].kind = "rollback"]
            /\ UNCHANGED <<duplexVars, active>>
  <2> DEFINE q == [queue[d][k] EXCEPT !.kind = "rollback"]
  <2>1. q \in Queued /\ q.kind = "rollback" /\ q.lease = queue[d][k].lease
    BY <1>3 DEF Queued
  <2>2. queue' = [queue EXCEPT ![d] = [queue[d] EXCEPT ![k] = q]]
    BY <1>10
  <2> HIDE DEF q
  <2>3. /\ \A e \in Duplexes \ {d} : queue'[e] = queue[e]
        /\ DOMAIN queue'[d] = DOMAIN queue[d]
        /\ \A i \in DOMAIN queue[d] : queue'[d][i] = IF i = k THEN q ELSE queue[d][i]
    <3>1. [queue[d] EXCEPT ![k] = q] \in Seq(Queued)
      BY <1>3, <2>1
    <3> QED BY <1>3, <2>1, <2>2, <3>1
  <2>4. \A l : \A i \in Nat : GuardedFrom(d, i, l) => GuardedThen(d, i, l)
    <3>1. \A l : \A i \in Nat : /\ Covered(queue[d], i, l) => Covered(queue'[d], i, l)
                                /\ HasMark(queue[d], i) => HasMark(queue'[d], i)
      <4>1. \A j \in DOMAIN queue[d] : /\ queue'[d][j].lease = queue[d][j].lease
                                       /\ Marked(queue[d][j]) => Marked(queue'[d][j])
        BY <2>1, <2>3 DEF Marked
      <4>2. /\ DOMAIN queue[d] \subseteq Nat
            /\ \A j \in DOMAIN queue[d] : 1..j \subseteq DOMAIN queue[d]
        BY <1>3
      <4> QED BY <2>3, <4>1, <4>2, CoverKept
    <3> QED BY <1>1, <3>1 DEF GuardedFrom, GuardedThen, Unheld, UnheldThen
  <2>5. Guarded(d)'
    <3>1. Open(d)' => Open(d)
      BY <1>10 DEF Open, duplexVars, pgliteVars
    <3>2. ASSUME NEW i \in DOMAIN queue'[d], queue'[d][i].kind = "begin"
          PROVE  GuardedThen(d, i, queue'[d][i].lease)
      <4>1. i \in DOMAIN queue[d] /\ i \in Nat /\ queue'[d][i] = queue[d][i]
        BY <1>3, <2>1, <2>3, <3>2
      <4> QED BY <1>3, <1>10, <2>4, <3>2, <4>1 DEF Guarded
    <3> QED BY <1>1, <1>3, <1>10, <2>4, <3>1, <3>2, GuardedAfter DEF Guarded
  <2>6. Alone(d)
    BY <1>1, <1>10, <2>3, LockMoves DEF Alone, OnlyMoves, duplexVars, streamVars, portalVars,
                                        pgliteVars
  <2> QED BY <1>1, <1>10, <2>5, <2>6, QueueClean
<1> QED BY <1>2, <1>7, <1>8, <1>9, <1>10

-----------------------------------------------------------------------------
(* Every step again. *)

\* What a client, its borrower and PGlite do.
LEMMA GoingClean ==
    ASSUME PoolInv, PoolInv', CleanInv, NEW d \in Duplexes, Going(d)
    PROVE  CleanInv'
<1>1. CASE CallReturns(d)
  BY <1>1, CallReturnsClean
<1>2. CASE DuplexStep(d) /\ UNCHANGED clientVars
  BY <1>2, DuplexStepClean
<1>3. CASE ClientStep(d) \/ CursorRead(d) \/ CursorClose(d)
  BY <1>3, PulseClean, CursorWritesClean, CleanupLinkClean DEF ClientStep
<1>4. CASE CleanupTimesOut(d) \/ StreamEnds(d)
  BY <1>4, DestroysClean DEF CleanupTimesOut, StreamEnds
<1>5. CASE \E kind \in Kinds : query(d, kind)
  BY <1>5, QueryClean
<1>6. CASE ReleaseWithError(d)
  BY <1>6, EndsClient, ClientEndClean
<1>7. CASE Checkout(d) \/ release_(d)
  BY <1>7, CheckoutClean, ReleaseClean
<1> QED BY <1>1, <1>2, <1>3, <1>4, <1>5, <1>6, <1>7 DEF Going, PoolStep, Uses

\* No step leaves a transaction unguarded.
LEMMA EndNextClean ==
    ASSUME PoolInv, PoolInv', CleanInv, [EndNext]_<<poolVars, endVars>>
    PROVE  CleanInv'
<1>1. CASE \E d \in Duplexes : Expel(d) \/ ReleaseAtEnd(d)
  BY <1>1, EndsClient, ClientEndClean
<1>2. CASE EndStep
  BY <1>2, CleanStutter DEF EndStep, end, endAgain, ClientsGone, TeardownsSettled, DrainExpires,
                            Drained, Counts, poolVars, clientVars
<1>3. CASE StartJob /\ UNCHANGED clientVars
  BY <1>3, StartJobClean
<1>4. CASE \E d \in Duplexes : Going(d)
  BY <1>4, GoingClean
<1>5. CASE \E d \in Duplexes : Abort(d)
  BY <1>5, DestroysClean DEF Abort
<1>6. CASE UNCHANGED poolVars
  BY <1>6, CleanStutter DEF poolVars, clientVars
<1> QED BY <1>1, <1>2, <1>3, <1>4, <1>5, <1>6 DEF EndNext

\* Nothing is open where the pool starts.
LEMMA CleanStarts == EndInit => CleanInv
<1> SUFFICES ASSUME EndInit, NEW d \in Duplexes PROVE CleanOK(d)
  BY DEF CleanInv
<1>1. xact = "idle" /\ drain[d] = "idle" /\ active[d] = NoQuery /\ queue[d] = <<>>
  BY DEF EndInit, PoolInit, DuplexInit
<1>2. NoQuery.kind = "none" /\ DOMAIN queue[d] = {}
  BY <1>1 DEF NoQuery
<1> QED BY <1>1, <1>2 DEF CleanOK, ServedOK, OfOne, Guarded, Open, Serving

-----------------------------------------------------------------------------
(* end() is a barrier. *)

\* Nothing opens a duplex again, and no step but a checkout makes a client.
LEMMA ClosedStays ==
    ASSUME PoolInv, NEW d \in Duplexes,
           \/ PoolStep(d) \/ Uses(d) \/ Expel(d) \/ ReleaseAtEnd(d)
    PROVE  lease' = lease /\ \A e \in Duplexes : closed[e] => closed'[e]
<1>1. closed \in [Duplexes -> BOOLEAN]
  BY DEF PoolInv, DuplexInv, DuplexTypeOK
<1>2. \A frame : Write(d, frame) => closed' = closed
  BY DEF Write
<1>3. CASE DuplexStep(d) /\ UNCHANGED clientVars
  <2>1. CASE DestroyDone(d)
    BY <1>1, <1>3, <2>1 DEF DestroyDone, clientVars
  <2>2. CASE ~DestroyDone(d)
    <3>1. closed' = closed
      BY <1>3, <2>2 DEF DuplexStep, NextFrame, DrainEnd, EnterMutex, OpFails, DrainFailed,
                        EnterRecovery, RecoveryFailed, RollbackAfterCall, TerminateDone, Final,
                        FinalDone, streamVars
    <3> QED BY <1>3, <3>1 DEF clientVars
  <2> QED BY <2>1, <2>2
<1>4. CASE CallReturns(d)
  BY <1>4 DEF CallReturns, FinishOp, FinishRecovery, FinishRollback, streamVars
<1>5. CASE ClientStep(d)
  <2>1. CASE Pulse(d) \/ CursorExhausted(d)
    BY <1>2, <2>1 DEF Pulse, CursorExhausted, CursorWrites, Send
  <2>2. CASE CleanupLink(d)
    <3>1. lease' = lease /\ (UNCHANGED duplexVars \/ Destroy(d) \/ \E q : Send(d, q))
      BY <2>2 DEF CleanupLink
    <3> QED BY <1>2, <3>1 DEF Send, Destroy, duplexVars, streamVars
  <2> QED BY <1>5, <2>1, <2>2 DEF ClientStep
<1>6. CASE CleanupTimesOut(d) \/ StreamEnds(d)
  BY <1>6 DEF CleanupTimesOut, StreamEnds, Destroy, clientVars
<1>7. CASE \E kind \in Kinds : query(d, kind)
  <2>1. lease' = lease /\ (UNCHANGED duplexVars \/ \E q : Send(d, q))
    BY <1>7 DEF query
  <2> QED BY <1>2, <2>1 DEF Send, duplexVars, streamVars
<1>8. CASE CursorRead(d) \/ CursorClose(d)
  BY <1>2, <1>8 DEF CursorRead, CursorClose, CursorWrites
<1>9. CASE ReleaseWithError(d) \/ Expel(d) \/ ReleaseAtEnd(d)
  BY <1>9 DEF ReleaseWithError, Expel, ReleaseAtEnd, clientEnd
<1> QED BY <1>3, <1>4, <1>5, <1>6, <1>7, <1>8, <1>9 DEF PoolStep, Uses

\* Teardowns that have settled remain settled.
LEMMA SettledStays ==
    ASSUME lease' = lease, \A e \in Duplexes : closed[e] => closed'[e], pendingTeardowns = {}
    PROVE  pendingTeardowns' = {}
BY DEF pendingTeardowns, Made

\* end() keeps its account.
LEMMA EndOKKeeps ==
    ASSUME PoolInv, EndOK, EndNext
    PROVE  EndOK'
<1>1. ASSUME lease' = lease, \A e \in Duplexes : closed[e] => closed'[e], UNCHANGED endVars
      PROVE  EndOK'
  BY <1>1, SettledStays DEF EndOK, endVars
<1>2. CASE \E d \in Duplexes : Expel(d) \/ ReleaseAtEnd(d)
  BY <1>1, <1>2, ClosedStays DEF Expel, ReleaseAtEnd
<1>3. CASE \E d \in Duplexes : Going(d) /\ UNCHANGED endVars
  <2>1. CASE \E d \in Duplexes : (PoolStep(d) \/ Uses(d)) /\ UNCHANGED endVars
    BY <1>1, <2>1, ClosedStays
  <2>2. CASE ending = "no" /\ UNCHANGED endVars
    BY <2>2 DEF EndOK, endVars
  <2> QED BY <1>3, <2>1, <2>2 DEF Going
<1>4. CASE StartJob /\ UNCHANGED <<clientVars, endVars>>
  BY <1>1, <1>4 DEF StartJob, clientVars
<1>5. CASE \E d \in Duplexes : Abort(d)
  BY <1>1, <1>5 DEF Abort, Destroy, clientVars
<1>6. CASE EndStep
  <2>1. lease' = lease /\ closed' = closed
    BY <1>6 DEF EndStep, end, endAgain, ClientsGone, TeardownsSettled, DrainExpires, Drained,
                Counts, poolVars, clientVars, duplexVars, streamVars
  <2>2. pendingTeardowns = {} => pendingTeardowns' = {}
    BY <2>1, SettledStays
  <2>3. CASE end
    <3>1. releaseAfterDrain' \in BOOLEAN
      BY <2>3, Zenon DEF end
    <3>2. freed' \in 0..1 /\ (freed' = 1 => ~releaseAfterDrain' /\ pendingTeardowns = {})
      <4>1. CASE Members = {} /\ pendingTeardowns = {}
        <5>1. releaseAfterDrain' = FALSE /\ freed' = freed + 1 /\ freed = 0
          BY <2>3, <4>1, Zenon DEF end, EndOK
        <5> QED BY <4>1, <5>1
      <4>2. CASE ~(Members = {} /\ pendingTeardowns = {})
        <5>1. freed' = 0
          BY <2>3, <4>2 DEF end, EndOK
        <5> QED BY <5>1
      <4> QED BY <4>1, <4>2
    <3>3. /\ ending' = "clients" /\ again' = "no" /\ UNCHANGED expired /\ expired \in BOOLEAN
      BY <2>3 DEF end, EndOK
    <3> QED BY <2>2, <3>1, <3>2, <3>3 DEF EndOK
  <2>4. CASE endAgain \/ ClientsGone
    BY <2>2, <2>4 DEF endAgain, ClientsGone, EndOK
  <2>5. CASE TeardownsSettled
    BY <2>2, <2>5 DEF TeardownsSettled, Drained, EndOK
  <2>6. CASE DrainExpires
    BY <2>2, <2>6 DEF DrainExpires, Drained, EndOK
  <2> QED BY <1>6, <2>3, <2>4, <2>5, <2>6 DEF EndStep
<1> QED BY <1>2, <1>3, <1>4, <1>5, <1>6 DEF EndNext

\* Where the pool starts.
LEMMA PoolStarts == Races = {} /\ EndInit => PoolInv /\ EndOK
<1> SUFFICES ASSUME Races = {}, EndInit PROVE PoolInv /\ EndOK
  OBVIOUS
<1>1. PoolInit /\ ending = "no" /\ again = "no" /\ releaseAfterDrain = FALSE /\ freed = 0
      /\ expired = FALSE
  BY DEF EndInit
<1>2. DuplexInv /\ DuplexInit
  BY <1>1, DuplexStarts DEF PoolInit
<1>3. MaxLeases \in Nat /\ MaxSubmits \in Nat
  BY PoolAssumption, Zenon
<1>4. PoolTypeOK
  <2>1. DuplexTypeOK
    BY <1>2 DEF DuplexInv
  <2>2. NoQuery \in Queries
    BY DEF Queries
  <2>3. queue \in [Duplexes -> Seq(Queued)]
    BY <1>1 DEF PoolInit
  <2> QED BY <1>1, <1>3, <2>1, <2>2, <2>3 DEF PoolInit, PoolTypeOK
<1>5. ASSUME NEW d \in Duplexes PROVE ClientOK(d)
  <2>1. /\ owner = NoOwner /\ waitQueue = <<>> /\ xact = "idle" /\ phase[d] = "ready"
        /\ ~tornDown[d] /\ final[d] = "no" /\ input[d] = <<>> /\ buffered[d] = <<>>
        /\ drain[d] = "idle" /\ ~portalSuspended[d] /\ ~portalRecoveryRequested[d]
        /\ recovery[d] = "none"
    BY <1>2 DEF DuplexInit, LockInit
  <2>2. /\ ~out[d] /\ lease[d] = 0 /\ leases = 0 /\ ~removed[d] /\ active[d] = NoQuery
        /\ queue[d] = <<>>
    BY <1>1 DEF PoolInit
  <2>3. owner # d /\ ~In(waitQueue, d) /\ DOMAIN queue[d] = {}
    BY <2>1, <2>2, DuplexAssumption, NoOwnerAssumption DEF In
  <2>4. NoQuery.kind = "none" /\ NoQuery.lease = 0
    BY DEF NoQuery
  <2>5. LeaseOK(d) /\ UnmadeOK(d)
    BY <2>1, <2>2, <2>3, <2>4 DEF LeaseOK, UnmadeOK
  <2>6. OneFrame(d)
    BY <2>1, <2>2, <2>4, OneFact DEF OneFrame, Awaiting, Serving
  <2>7. PortalOK(d)
    BY <2>1, <2>2, <2>4 DEF PortalOK, CursorStates
  <2> QED BY <2>5, <2>6, <2>7 DEF ClientOK
<1>6. EndOK
  <2>1. releaseAfterDrain \in BOOLEAN /\ expired \in BOOLEAN /\ ~releaseAfterDrain
    BY <1>1, Zenon
  <2>2. freed \in 0..1 /\ freed # 1 /\ freed = 0
    BY <1>1
  <2> QED BY <1>1, <2>1, <2>2, Zenon DEF EndOK
<1> QED BY <1>2, <1>4, <1>5, <1>6 DEF PoolInv

\* The invariant of the pool and of its end.
LEMMA PoolInvariant == Races = {} /\ EndSpec => [](PoolInv /\ EndOK)
<1>1. PoolInv /\ EndOK /\ [EndNext]_<<poolVars, endVars>> => PoolInv' /\ EndOK'
  <2> SUFFICES ASSUME PoolInv, EndOK, [EndNext]_<<poolVars, endVars>> PROVE PoolInv' /\ EndOK'
    OBVIOUS
  <2>1. CASE EndNext
    BY <2>1, EndNextKeeps, EndOKKeeps
  <2>2. CASE UNCHANGED <<poolVars, endVars>>
    <3>1. PoolInv'
      BY <2>2, PoolStutter
    <3>2. EndOK'
      BY <2>2, SettledStays DEF EndOK, endVars, poolVars, clientVars, duplexVars, streamVars
    <3> QED BY <3>1, <3>2
  <2> QED BY <2>1, <2>2
<1> QED BY <1>1, PoolStarts, PTL DEF EndSpec

\* The guards hold all along.
LEMMA CleanInvariant == Races = {} /\ EndSpec => [](PoolInv /\ CleanInv)
<1>1. PoolInv /\ PoolInv' /\ CleanInv /\ [EndNext]_<<poolVars, endVars>> => CleanInv'
  BY EndNextClean
<1> QED BY <1>1, CleanStarts, PoolInvariant, PTL DEF EndSpec

-----------------------------------------------------------------------------
(* What it says, as long as no borrower runs one of the races that the five *)
(* runs of the findings are about.                                          *)

\* Every variable keeps its type.
THEOREM PoolTypes == Races = {} /\ EndSpec => []PoolTypeOK
<1>1. PoolInv => PoolTypeOK
  BY DEF PoolInv
<1> QED BY <1>1, PoolInvariant, PTL

\* PGlite executes a client's call only while its duplex has the session, from the
\* call's first moment to its last: terminated, destroyed or recovered meanwhile.
THEOREM CallsAreOwners == Races = {} /\ EndSpec => []ExecutesAsOwner
<1>1. PoolInv => ExecutesAsOwner
  BY InvariantSays DEF PoolInv
<1> QED BY <1>1, PoolInvariant, PTL

\* No client's call runs in a transaction of a sibling, unless that is the implicit
\* one of a portal whose client has gone.
THEOREM SiblingsApart == Races = {} /\ EndSpec => []NoForeignTransactionButPortal
<1>1. PoolInv => NoForeignTransactionButPortal
  BY InvariantSays DEF PoolInv
<1> QED BY <1>1, PoolInvariant, PTL

\* A suspended portal keeps its client the session.
THEOREM PortalsKeepSession == Races = {} /\ EndSpec => []PortalHeld
<1>1. PoolInv => PortalHeld
  BY InvariantSays DEF PoolInv
<1> QED BY <1>1, PoolInvariant, PTL

\* A recovery that PGlite executes is one of a parked cursor, whose borrower has
\* gone.
LEMMA RecoveryFacts ==
    ASSUME PoolInv, busy, Head(mutex).job = "recovery"
    PROVE  \E d \in Duplexes :
              /\ Head(mutex).by = d
              /\ ~tornDown[d] => active[d].kind = "parked" /\ ~Holds(d)
<1>1. PICK d \in Duplexes : Head(mutex).by = d
  BY BusyFacts DEF PoolInv
<1>2. recovery[d] = "queued"
  BY <1>1, CallFacts DEF PoolInv, Executing
<1>3. ~tornDown[d] => active[d].kind = "parked" /\ ~Holds(d)
  BY <1>2, LiveFacts DEF PortalOK
<1> QED BY <1>1, <1>3

\* deliverRecoverySync's Sync reaches PGlite only while pg waits behind a
\* suspended cursor.
THEOREM RecoveryIsForPortals == Races = {} /\ EndSpec => []RecoveryFindsPortal
<1>1. PoolInv => RecoveryFindsPortal
  BY RecoveryFacts DEF RecoveryFindsPortal
<1> QED BY <1>1, PoolInvariant, PTL

\* And the cursor that it ends is not one of the client's present borrower.
THEOREM RecoveryIsForTheAbandoned == Races = {} /\ EndSpec => []RecoverySparesBorrower
<1>1. PoolInv => RecoverySparesBorrower
  BY RecoveryFacts DEF RecoverySparesBorrower
<1> QED BY <1>1, PoolInvariant, PTL

\* No borrower's frame runs in a transaction of an earlier borrower: the pool has
\* rolled it back before.
THEOREM NothingInherited == Races = {} /\ EndSpec => []NoInheritedTransaction
<1>1. PoolInv /\ CleanInv => NoInheritedTransaction
  <2> SUFFICES ASSUME PoolInv, CleanInv, NEW d \in Duplexes, Executing(d), Open(d),
                      Head(mutex).job = "op", active[d].kind # "rollback"
               PROVE  active[d].lease = openedIn
    BY DEF NoInheritedTransaction, Open
  <2>1. drain[d] = "queued"
    BY CallFacts DEF PoolInv
  <2>2. ServedOK(d) /\ OfOne(d)
    BY DEF CleanInv, CleanOK
  <2>3. active[d].kind # "none"
    BY <2>1, <2>2 DEF ServedOK, Serving, Awaiting
  <2> QED BY <2>2, <2>3 DEF OfOne
<1> QED BY <1>1, CleanInvariant, PTL

\* When end() gives up the slot, no statement of the pool runs and none will, and
\* none of its transactions is open.
THEOREM EndWaits == Races = {} /\ EndSpec => []EndIsBarrier
<1>1. PoolInv /\ EndOK => EndIsBarrier
  <2> SUFFICES ASSUME PoolInv, EndOK PROVE EndIsBarrier
    OBVIOUS
  <2>1. freed <= 1
    BY DEF EndOK
  <2>2. ASSUME freed = 1 \/ ending = "ended" \/ again = "ended", ~expired
        PROVE  ~busy /\ (xact = "idle" \/ DanglingPortal)
    <3>1. \A d \in Duplexes : lease[d] = 0 \/ closed[d]
      BY <2>2 DEF EndOK, pendingTeardowns, Made
    <3>2. \A d \in Duplexes : owner # d
      BY <3>1 DEF PoolInv, ClientOK, UnmadeOK, DuplexInv, DuplexOK, ClaimOK
    <3>3. ~busy
      BY <3>2, BusyFacts DEF PoolInv
    <3>4. /\ xact \in {"idle", "implicit", "block", "failed"}
          /\ openedBy \in Duplexes \cup {NoOwner} /\ XactInv
      BY DEF PoolInv, DuplexInv, DuplexTypeOK
    <3>5. xact # "idle" => openedBy \in Duplexes
      BY <3>4 DEF XactInv
    <3>6. xact \notin {"block", "failed"}
      BY <3>2, <3>4, <3>5 DEF XactInv
    <3>7. xact = "implicit" => Gone(openedBy)
      BY <3>2, <3>4, <3>5 DEF XactInv
    <3> QED BY <3>3, <3>4, <3>6, <3>7 DEF DanglingPortal
  <2> QED BY <2>1, <2>2 DEF EndIsBarrier
<1> QED BY <1>1, PoolInvariant, PTL
=============================================================================
