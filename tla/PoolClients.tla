---------------------------- MODULE PoolClients ----------------------------
(***************************************************************************)
(* The clients of a PgBridgePool (src/pool/index.ts and                    *)
(* src/pool/pg-bridge-client.ts): each is a pg.Client over its own duplex, *)
(* checked out by one borrower after the other.  pg runs one query at a    *)
(* time per client, in submission order, and takes the next when the       *)
(* ReadyForQuery of the last arrives.  A borrower may release a client     *)
(* with a transaction or a cursor open, or with work in flight; what the   *)
(* pool then does, so that the next borrower finds a clean client and the  *)
(* siblings the session, is the subject of this module.                    *)
(*                                                                         *)
(* pg.Client, pg-cursor and pg-pool are external: modelled as far as the   *)
(* bridge relies on them.                                                  *)
(***************************************************************************)
EXTENDS Duplex, SequencesExt

CONSTANTS Kinds,       \* what borrowers submit
          Races,       \* what borrowers may do too early, see below
          MaxSubmits,  \* bound on submissions, all clients together
          MaxLeases    \* bound on checkouts, all clients together

ASSUME PoolAssumption == /\ Kinds \subseteq {"query", "begin", "end", "cursor"}
                         /\ Races \subseteq {"busy portal", "reading in transaction",
                                             "early cursor", "second cursor"}
                         /\ MaxSubmits \in Nat /\ MaxLeases \in Nat

VARIABLES out,         \* the client is checked out
          lease,       \* which checkout is the client's current or latest one
          leases,      \* checkouts so far
          submits,     \* submissions so far
          removed,     \* the pool dropped the client
          active,      \* pg's active query
          queue,       \* what waits behind it, the cleanup link included
          openedIn     \* ghost: the lease whose frame opened the transaction

clientVars == <<out, lease, leases, submits, removed, active, queue, openedIn>>
poolVars == <<duplexVars, clientVars>>

\* A cursor is reading (its Flush batch is unanswered), parked (its portal is
\* suspended), exhausted (its last rows came, pg-cursor is about to close it)
\* or closing (its Close and Sync are unanswered).
CursorStates == {"reading", "parked", "exhausted", "closing"}
NoQuery == [kind |-> "none", lease |-> 0]
Queries == [kind : {"query", "begin", "end", "rollback"} \cup CursorStates,
            lease : 0..MaxLeases] \cup {NoQuery}
Queued == [kind : {"query", "begin", "end", "cursor", "rollback", "cleanup"},
           lease : 0..MaxLeases]

PoolInit == /\ DuplexInit
            /\ out = [d \in Duplexes |-> FALSE]
            /\ lease = [d \in Duplexes |-> 0]
            /\ leases = 0 /\ submits = 0
            /\ removed = [d \in Duplexes |-> FALSE]
            /\ active = [d \in Duplexes |-> NoQuery]
            /\ queue = [d \in Duplexes |-> <<>>]
            /\ openedIn = 0

-----------------------------------------------------------------------------
(* Submission.                                                              *)

FrameOf(kind) == CASE kind = "cursor" -> "flush"
                   [] kind = "rollback" -> "end"
                   [] OTHER -> kind

Idle(d) == active[d] = NoQuery

\* What pg is about to send once the promise jobs at hand have run.
Reacting(d) == ~tornDown[d] /\ (active[d].kind = "exhausted" \/ (Idle(d) /\ queue[d] # <<>>))

\* The promise of connect() settles after the jobs that a release left behind.
Checkout(d) ==
    /\ ~out[d] /\ ~removed[d] /\ ~tornDown[d] /\ ~Reacting(d) /\ leases < MaxLeases
    /\ out' = [out EXCEPT ![d] = TRUE]
    /\ leases' = leases + 1
    /\ lease' = [lease EXCEPT ![d] = leases + 1]
    /\ UNCHANGED <<duplexVars, submits, removed, active, queue, openedIn>>

\* pg makes q the active query and writes its frame; a cursor's submit sends
\* its first batch.
Send(d, q) ==
    /\ active' = [active EXCEPT ![d] =
                    IF q.kind = "cursor" THEN [q EXCEPT !.kind = "reading"] ELSE q]
    /\ Write(d, FrameOf(q.kind))

\* Unless Races says otherwise, a borrower opens no cursor before the drain that
\* its predecessor left behind has ended, and no second one behind a first.
HasCursor(d) == \/ active[d].kind \in CursorStates
                \/ \E k \in DOMAIN queue[d] : queue[d][k].kind = "cursor"

MayQuery(d, kind) ==
    kind = "cursor" => /\ Draining(d) /\ portalRecoveryRequested[d] => "early cursor" \in Races
                       /\ HasCursor(d) => "second cursor" \in Races

query(d, kind) ==
    /\ out[d] /\ ~tornDown[d] /\ submits < MaxSubmits /\ MayQuery(d, kind)
    /\ submits' = submits + 1
    /\ LET q == [kind |-> kind, lease |-> lease[d]]
       IN  IF Idle(d) /\ queue[d] = <<>>
           THEN Send(d, q) /\ UNCHANGED queue
           ELSE /\ queue' = [queue EXCEPT ![d] = Append(@, q)]
                /\ UNCHANGED <<duplexVars, active>>
    /\ UNCHANGED <<out, lease, leases, removed, openedIn>>

\* pg's _pulseQueryQueue.  What waited behind a cursor was in pg's own queue and
\* goes out with the cursor's ReadyForQuery; what waited behind a promise query
\* was admitted when that had settled.
Pulse(d) ==
    /\ Idle(d) /\ queue[d] # <<>> /\ Head(queue[d]).kind # "cleanup"
    /\ Send(d, Head(queue[d]))
    /\ queue' = [queue EXCEPT ![d] = Tail(@)]
    /\ UNCHANGED <<out, lease, leases, submits, removed, openedIn>>

\* The borrower reads on, or closes its cursor; pg-cursor closes an exhausted one.
CursorWrites(d, frame, state) ==
    /\ active' = [active EXCEPT ![d].kind = state]
    /\ Write(d, frame)
    /\ UNCHANGED <<out, lease, leases, submits, removed, queue, openedIn>>

Holds(d) == out[d] /\ active[d].lease = lease[d]

CursorRead(d) == active[d].kind = "parked" /\ Holds(d) /\ CursorWrites(d, "flush", "reading")
CursorClose(d) == active[d].kind = "parked" /\ Holds(d) /\ CursorWrites(d, "sync", "closing")
CursorExhausted(d) == active[d].kind = "exhausted" /\ CursorWrites(d, "sync", "closing")

-----------------------------------------------------------------------------
(* Responses.  A duplex that is torn down pushes nothing to its client.     *)

Completes(d) == active' = [active EXCEPT ![d] = NoQuery]

\* What the client sees of a finished call: a clean Flush batch ends with rows
\* or the last rows, everything else with a ReadyForQuery, which completes
\* whatever pg has active; a call that threw leaves no response.
Responds(d) ==
    IF tornDown[d] \/ drain'[d] = "failing" \/ recovery'[d] = "failed"
    THEN UNCHANGED active
    ELSE IF portalSuspended'[d]
    THEN \E state \in {"parked", "exhausted"} :
            active' = IF active[d].kind = "reading" THEN [active EXCEPT ![d].kind = state]
                      ELSE active
    ELSE Completes(d)

\* The lease is ghost state: whose frame opened what the session is left in.
OpenedInAfter(d) ==
    openedIn' = IF xact' = "idle" THEN 0
                ELSE IF xact = "idle" \/ openedBy' # openedBy THEN active[d].lease
                ELSE openedIn

CallReturns(d) ==
    /\ \/ FinishOp(d) /\ Responds(d)
       \/ FinishRecovery(d) /\ Responds(d)
       \/ FinishRollback(d) /\ UNCHANGED active
    /\ OpenedInAfter(d)
    /\ UNCHANGED <<out, lease, leases, submits, removed, queue>>

-----------------------------------------------------------------------------
(* Release.                                                                 *)

\* Entries of the submission chain: promise queries and the cleanup link.  A
\* cursor is a bare Submittable and does not extend the chain.
Chained(kind) == kind \in {"query", "begin", "end", "rollback", "cleanup"}
chainDefined(d) == \/ Chained(active[d].kind)
                   \/ \E k \in DOMAIN queue[d] : Chained(queue[d][k].kind)

\* Mutant of rollbackAbandonedTransaction: the transaction is judged at release,
\* not when the work in flight has settled.
rollbackJudgedAtRelease(d) ==
    IF ~inTransaction(d) THEN UNCHANGED queue
    ELSE queue' = [queue EXCEPT ![d] = Append(@, [kind |-> "cleanup", lease |-> lease[d]])]

\* The release listener's second half, after the portal hold was looked at:
\* skip a client that nothing can unwedge and one with nothing left open, or
\* else put the cleanup link behind the work in flight.
rollbackAbandonedTransaction(d) ==
    IF \/ ~Idle(d) /\ ~chainDefined(d) /\ ~portalSuspended'[d]
       \/ ~chainDefined(d) /\ ~inTransaction(d)
    THEN UNCHANGED queue
    ELSE queue' = [queue EXCEPT ![d] = Append(@, [kind |-> "cleanup", lease |-> lease[d]])]

\* Unless Races says otherwise, a borrower lets a batch that follows a suspended
\* one end before it releases the client, and a cursor's first batch as well when
\* it runs in a transaction.
MayRelease(d) ==
    /\ portalSuspended[d] /\ active[d].kind # "parked" => "busy portal" \in Races
    /\ active[d].kind = "reading" /\ inTransaction(d) => "reading in transaction" \in Races

release_(d) ==
    /\ out[d] /\ MayRelease(d)
    /\ out' = [out EXCEPT ![d] = FALSE]
    /\ releaseAbandonedPortalHold(d)
    /\ rollbackAbandonedTransaction(d)
    /\ UNCHANGED <<lockVars, pgliteVars, streamVars, lastSeen, rollback,
                   lease, leases, submits, removed, active, openedIn>>

\* client.end(): the stream of a client that is busy, or has lost its connection, is
\* destroyed, an idle one says Terminate and ends its stream.  portalHold is what the
\* release listener did before.
clientEnd(d, portalHold) ==
    /\ removed' = [removed EXCEPT ![d] = TRUE]
    /\ \/ /\ ~Idle(d) \/ tornDown[d]
          /\ portalHold /\ destroy(d)
          /\ UNCHANGED <<lockVars, phase, final, drain, op>>
       \/ /\ Idle(d) /\ ~tornDown[d] /\ Draining(d)
          /\ portalHold
          /\ buffered' = [buffered EXCEPT ![d] = Append(@, "terminate")]
          /\ final' = [final EXCEPT ![d] = "ended"]
          /\ UNCHANGED <<lockVars, mutex, phase, tornDown, input, drain, op, rollback>>
       \/ /\ Idle(d) /\ ~tornDown[d] /\ ~Draining(d)
          /\ write(d, "terminate")
          /\ final' = [final EXCEPT ![d] = "ended"]
          /\ UNCHANGED <<tornDown, recovery>>
    /\ UNCHANGED <<xact, openedBy, busy, faults, closed, lastSeen,
                   lease, leases, submits, active, openedIn>>

\* release(err): the hold is looked at, then pg-pool ends the client.
ReleaseWithError(d) ==
    /\ out[d] /\ ~tornDown[d]
    /\ out' = [out EXCEPT ![d] = FALSE]
    /\ clientEnd(d, releaseAbandonedPortalHold(d))
    /\ UNCHANGED queue

\* The stream is over in both directions: node destroys it.
StreamEnds(d) == final[d] = "done" /\ Destroy(d) /\ UNCHANGED clientVars

\* The cleanup link runs once the chain before it has settled, and judges then.
\* A client that has been ended refuses its ROLLBACK, and its duplex is destroyed.
CleanupLink(d) ==
    /\ \E k \in DOMAIN queue[d] :
          /\ queue[d][k].kind = "cleanup" /\ (Idle(d) => k = 1)
          /\ ~Chained(active[d].kind) /\ \A j \in 1..(k - 1) : ~Chained(queue[d][j].kind)
          /\ IF tornDown[d] \/ ~inTransaction(d)
             THEN /\ queue' = [queue EXCEPT ![d] = RemoveAt(@, k)]
                  /\ UNCHANGED <<duplexVars, active>>
             ELSE IF final[d] # "no"
             THEN /\ queue' = [queue EXCEPT ![d] = RemoveAt(@, k)]
                  /\ Destroy(d) /\ UNCHANGED active
             ELSE IF Idle(d)
             THEN /\ queue' = [queue EXCEPT ![d] = RemoveAt(@, k)]
                  /\ Send(d, [kind |-> "rollback", lease |-> queue[d][k].lease])
             ELSE /\ queue' = [queue EXCEPT ![d][k].kind = "rollback"]
                  /\ UNCHANGED <<duplexVars, active>>
    /\ UNCHANGED <<out, lease, leases, submits, removed, openedIn>>

\* The ROLLBACK has pg's own query_timeout.  When that expires, whether the
\* session was busy or the statement slow, the link destroys the duplex.
CleanupTimesOut(d) ==
    /\ ~tornDown[d]
    /\ active[d].kind = "rollback" \/ \E k \in DOMAIN queue[d] : queue[d][k].kind = "rollback"
    /\ Destroy(d) /\ UNCHANGED clientVars

-----------------------------------------------------------------------------
\* pg reacts to a response in the turn that brought it: at once, or, for what the
\* submission chain held back, three promise hops later.  The drain loop, which
\* has PGlite's call, its mutex and four awaits of its own to return through, goes
\* on only after (the guard on DuplexStep in PoolNext).
ClientStep(d) == Pulse(d) \/ CursorExhausted(d) \/ CleanupLink(d)

Uses(d) == \/ \E kind \in Kinds : query(d, kind)
           \/ CursorRead(d) \/ CursorClose(d) \/ ReleaseWithError(d)

PoolStep(d) == \/ CallReturns(d)
               \/ /\ drain[d] = "loop" => ~Reacting(d)
                  /\ DuplexStep(d) /\ UNCHANGED clientVars
               \/ ClientStep(d) \/ CleanupTimesOut(d) \/ StreamEnds(d)

PoolNext == \/ StartJob /\ UNCHANGED clientVars
            \/ \E d \in Duplexes : PoolStep(d) \/ Checkout(d) \/ Uses(d) \/ release_(d)

PoolSpec == /\ PoolInit /\ [][PoolNext]_poolVars
            /\ DuplexFairness
            /\ \A d \in Duplexes : WF_poolVars(ClientStep(d))

-----------------------------------------------------------------------------
PoolTypeOK ==
    /\ DuplexTypeOK
    /\ out \in [Duplexes -> BOOLEAN] /\ removed \in [Duplexes -> BOOLEAN]
    /\ leases \in 0..MaxLeases /\ submits \in 0..MaxSubmits
    /\ lease \in [Duplexes -> 0..MaxLeases] /\ openedIn \in 0..MaxLeases
    /\ active \in [Duplexes -> Queries]
    /\ queue \in [Duplexes -> Seq(Queued)]

\* The manufactured Sync reaches PGlite only when pg waits behind a suspended
\* cursor; it is never injected into a live operation.
RecoveryFindsPortal ==
    busy /\ Head(mutex).job = "recovery" /\ ~tornDown[Head(mutex).by]
        => active[Head(mutex).by].kind = "parked"

\* "A recycled borrower's later batches can never trigger a spurious delivery":
\* the cursor it ends is an abandoned one.
RecoverySparesBorrower ==
    busy /\ Head(mutex).job = "recovery" /\ ~tornDown[Head(mutex).by] => ~Holds(Head(mutex).by)

\* "The pool rolls the transaction back automatically before the client's next
\* checkout": no borrower's frame runs in a transaction of an earlier borrower.
NoInheritedTransaction ==
    \A d \in Duplexes :
        Executing(d) /\ openedBy = d /\ xact \in {"block", "failed"}
            /\ Head(mutex).job = "op" /\ active[d].kind # "rollback"
        => active[d].lease = openedIn

\* "Siblings unblock": a client that was released and not checked out again ends
\* up without the session.
ReleaseFreesSession == \A d \in Duplexes : ~out[d] ~> out[d] \/ ~isOwner(d)
=============================================================================
