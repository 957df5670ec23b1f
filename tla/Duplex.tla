------------------------------- MODULE Duplex -------------------------------
(***************************************************************************)
(* The bridges between pg clients and one PGlite instance                  *)
(* (src/duplex/index.ts), sharing a SessionLock.                           *)
(*                                                                         *)
(* A duplex frames what its client writes and runs one PGlite call at a    *)
(* time from a single-flight drain loop: acquire the session, queue on     *)
(* PGlite's runExclusive mutex, execute, frame the response.  Three more   *)
(* activities of the same duplex interleave with that loop: the recovery   *)
(* Sync for a portal its client abandoned, the teardown paths (Terminate,  *)
(* _final, _destroy), and the ROLLBACK these share.  A step below is the   *)
(* code between two awaits.                                                *)
(*                                                                         *)
(* A frame is one unit of submission, a simple query or a batch up to its  *)
(* Sync or Flush.  PGlite itself, its mutex and its transaction state, is  *)
(* external: it is modelled from what the duplex relies on.                *)
(***************************************************************************)
EXTENDS SessionLock, FiniteSets

CONSTANTS Duplexes,         \* the lock's ids that belong to a duplex
          MaxFaults,        \* bound on PGlite calls that fail without a response
          AllErrorsAnswered \* an errored flush batch always carries an RFQ

ASSUME DuplexAssumption == /\ Duplexes \subseteq Ids
                           /\ MaxFaults \in Nat
                           /\ AllErrorsAnswered \in BOOLEAN

VARIABLES
    \* the PGlite session
    xact,        \* "idle", "implicit" (open portal, no BEGIN), "block", "failed"
    openedBy,    \* ghost: the duplex whose frame opened the transaction
    mutex,       \* runExclusive: jobs in arrival order
    busy,        \* the job at Head(mutex) is executing
    faults,      \* failed PGlite calls so far
    \* per duplex
    phase,       \* "ready" or "terminated"
    tornDown,    \* _destroy has run
    closed,      \* _destroy has settled
    final,       \* _final: "no", "pending", "done"
    input,       \* framed by the current drain
    buffered,    \* held by the Writable until the outstanding write calls back
    drain,       \* where the drain loop stands
    op,          \* the frame it is working on
    lastSeen,    \* lastSeenRfqStatus
    portalSuspended,
    portalRecoveryRequested,
    recovery,    \* portalRecoveryInFlight, and where the delivery stands
    rollback     \* rollbackPromise

pgliteVars == <<xact, openedBy, mutex, busy, faults>>
streamVars == <<phase, tornDown, closed, final, input, buffered, drain, op>>
portalVars == <<lastSeen, portalSuspended, portalRecoveryRequested, recovery, rollback>>
duplexVars == <<lockVars, pgliteVars, streamVars, portalVars>>

Frames == {"query", "begin", "end", "flush", "sync"}
DrainStates == {"idle", "loop", "acquiring", "queued", "terminating", "failing"}
Jobs == [by : Duplexes, job : {"op", "recovery", "rollback"}]

DuplexInit ==
    /\ LockInit
    /\ xact = "idle" /\ openedBy = NoOwner /\ mutex = <<>> /\ busy = FALSE /\ faults = 0
    /\ phase = [d \in Duplexes |-> "ready"]
    /\ tornDown = [d \in Duplexes |-> FALSE] /\ closed = [d \in Duplexes |-> FALSE]
    /\ final = [d \in Duplexes |-> "no"]
    /\ input = [d \in Duplexes |-> <<>>] /\ buffered = [d \in Duplexes |-> <<>>]
    /\ drain = [d \in Duplexes |-> "idle"] /\ op = [d \in Duplexes |-> "none"]
    /\ lastSeen = [d \in Duplexes |-> "I"]
    /\ portalSuspended = [d \in Duplexes |-> FALSE]
    /\ portalRecoveryRequested = [d \in Duplexes |-> FALSE]
    /\ recovery = [d \in Duplexes |-> "none"] /\ rollback = [d \in Duplexes |-> "none"]

-----------------------------------------------------------------------------
(* The PGlite session: what a call does to its transaction, and the status  *)
(* byte its ReadyForQuery then carries.  An open portal keeps an implicit   *)
(* transaction alive, which reports T like an explicit one.                 *)

StatusOf(x) == CASE x = "idle" -> "I"
                 [] x \in {"implicit", "block"} -> "T"
                 [] x = "failed" -> "E"

After(frame, x) ==
    CASE frame = "query" -> (CASE x = "block" -> {"block", "failed"}
                               [] x = "implicit" -> {"implicit", "idle"}
                               [] OTHER -> {x})
      [] frame = "begin" -> {IF x = "failed" THEN x ELSE "block"}
      [] frame = "end" -> {"idle"}
      [] frame = "sync" -> {IF x = "implicit" THEN "idle" ELSE x}

AfterFlush(x) == IF x = "idle" THEN "implicit" ELSE x
AfterError(x) == IF x \in {"block", "failed"} THEN "failed" ELSE "idle"

\* Whose transaction it is once d's frame has left the session in state x.
OpenerAfter(d, frame, x) == IF x = "idle" THEN NoOwner
                            ELSE IF xact = "idle" \/ (frame = "begin" /\ x = "block") THEN d
                            ELSE openedBy

Enqueue(d, job) == mutex' = Append(mutex, [by |-> d, job |-> job])

\* currentPGliteCall is set: a call of d's drain loop or recovery is executing.
Executing(d) == busy /\ Head(mutex).by = d /\ Head(mutex).job # "rollback"

inTransaction(d) == lastSeen[d] \in {"T", "E"}
Draining(d) == drain[d] # "idle"

-----------------------------------------------------------------------------
(* Rollback and recovery, which the paths below share.                      *)

\* Mutant of rollbackIfInTransaction: it does not wait for the call in flight.
rollbackAtOnce(d) ==
    IF rollback[d] # "none" THEN UNCHANGED <<rollback, mutex>>
    ELSE IF inTransaction(d) /\ isOwner(d)
    THEN rollback' = [rollback EXCEPT ![d] = "queued"] /\ Enqueue(d, "rollback")
    ELSE rollback' = [rollback EXCEPT ![d] = "done"] /\ UNCHANGED mutex

\* Mutant of JudgeRollback: the transaction is left to the client.
JudgeNothing(d) == rollback' = [rollback EXCEPT ![d] = "done"] /\ UNCHANGED mutex

\* runRollback after its await: a transaction this duplex saw and still owns
\* the session for gets its ROLLBACK queued.
JudgeRollback(d) ==
    IF inTransaction(d) /\ isOwner(d)
    THEN rollback' = [rollback EXCEPT ![d] = "queued"] /\ Enqueue(d, "rollback")
    ELSE rollback' = [rollback EXCEPT ![d] = "done"] /\ UNCHANGED mutex

\* rollbackIfInTransaction is memoized, and first awaits a call in flight.
rollbackIfInTransaction(d) ==
    IF rollback[d] # "none" THEN UNCHANGED <<rollback, mutex>>
    ELSE IF Executing(d) THEN rollback' = [rollback EXCEPT ![d] = "await"] /\ UNCHANGED mutex
    ELSE JudgeRollback(d)

\* At most one delivery, and only while the session is still this duplex's.
deliverRecoverySync(d) ==
    IF phase[d] = "terminated" \/ recovery[d] # "none"
    THEN UNCHANGED <<portalSuspended, recovery>>
    ELSE IF ~isOwner(d)
    THEN portalSuspended' = [portalSuspended EXCEPT ![d] = FALSE] /\ UNCHANGED recovery
    ELSE recovery' = [recovery EXCEPT ![d] = "entering"] /\ UNCHANGED portalSuspended

\* Mutant of releaseAbandonedPortalHold: ownership alone triggers the recovery.
recoverWhateverIsOwned(d) ==
    /\ IF isOwner(d) THEN deliverRecoverySync(d) ELSE UNCHANGED <<portalSuspended, recovery>>
    /\ UNCHANGED portalRecoveryRequested

\* Mutant of releaseAbandonedPortalHold: no deferred judgment.
recoverOnlyNow(d) ==
    /\ IF portalSuspended[d] THEN deliverRecoverySync(d)
       ELSE UNCHANGED <<portalSuspended, recovery>>
    /\ UNCHANGED portalRecoveryRequested

\* Mutant of releaseAbandonedPortalHold: the judgment is requested, and kept for a
\* later conversation, even when nothing is under way.
requestAlways(d) ==
    /\ IF portalSuspended[d] THEN deliverRecoverySync(d)
       ELSE UNCHANGED <<portalSuspended, recovery>>
    /\ portalRecoveryRequested' = [portalRecoveryRequested EXCEPT ![d] = ~portalSuspended[d]]

\* The pool's release hook: recover a suspended portal now, or leave the
\* judgment to the end of the drain that is under way.
releaseAbandonedPortalHold(d) ==
    \/ /\ phase[d] = "ready" /\ portalSuspended[d]
       /\ deliverRecoverySync(d)
       /\ UNCHANGED portalRecoveryRequested
    \/ /\ phase[d] = "ready" /\ ~portalSuspended[d]
       /\ portalRecoveryRequested' = [portalRecoveryRequested EXCEPT ![d] = @ \/ Draining(d)]
       /\ UNCHANGED <<portalSuspended, recovery>>
    \/ /\ phase[d] = "terminated"
       /\ UNCHANGED <<portalSuspended, portalRecoveryRequested, recovery>>

-----------------------------------------------------------------------------
(* The drain loop.                                                          *)

\* A Terminate frame: the stream is terminal before anything is awaited.
BeginTerminate(d) ==
    /\ phase' = [phase EXCEPT ![d] = "terminated"]
    /\ input' = [input EXCEPT ![d] = <<>>]
    /\ drain' = [drain EXCEPT ![d] = "terminating"]
    /\ portalSuspended' = [portalSuspended EXCEPT ![d] = FALSE]
    /\ portalRecoveryRequested' = [portalRecoveryRequested EXCEPT ![d] = FALSE]
    /\ rollbackIfInTransaction(d)
    /\ UNCHANGED <<lockVars, op>>

\* Any other frame is taken off the input and asks for the session.
BeginFrame(d, frames) ==
    /\ op' = [op EXCEPT ![d] = Head(frames)]
    /\ input' = [input EXCEPT ![d] = Tail(frames)]
    /\ drain' = [drain EXCEPT ![d] = "acquiring"]
    /\ acquire(d)
    /\ UNCHANGED <<phase, portalSuspended, portalRecoveryRequested, rollback, mutex>>

processMessages(d, frames) ==
    /\ frames # <<>>
    /\ IF Head(frames) = "terminate" THEN BeginTerminate(d) ELSE BeginFrame(d, frames)

\* _write: the first chunk starts the drain, the Writable holds back the ones
\* that come while that write has not called back.
write(d, frame) ==
    \/ /\ phase[d] = "ready" /\ ~Draining(d)
       /\ processMessages(d, <<frame>>)
       /\ UNCHANGED buffered
    \/ /\ Draining(d)
       /\ buffered' = [buffered EXCEPT ![d] = Append(@, frame)]
       /\ UNCHANGED <<lockVars, mutex, phase, input, drain, op,
                      portalSuspended, portalRecoveryRequested, rollback>>
    \/ /\ phase[d] = "terminated" /\ ~Draining(d)
       /\ UNCHANGED <<lockVars, mutex, phase, input, drain, op, buffered,
                      portalSuspended, portalRecoveryRequested, rollback>>

Write(d, frame) ==
    /\ ~tornDown[d] /\ final[d] = "no"
    /\ write(d, frame)
    /\ UNCHANGED <<xact, openedBy, busy, faults, tornDown, closed, final, lastSeen, recovery>>

\* The next frame of the same drain.
NextFrame(d) ==
    /\ drain[d] = "loop" /\ ~tornDown[d]
    /\ processMessages(d, input[d])
    /\ UNCHANGED <<xact, openedBy, busy, faults, tornDown, closed, final, buffered,
                   lastSeen, recovery>>

\* The drain ends and calls back.  The Writable answers with everything it held
\* back, which starts a nested drain; only a drain that leaves none behind
\* consumes a deferred recovery request.
DrainEnd(d) ==
    /\ drain[d] = "loop" /\ (tornDown[d] \/ input[d] = <<>>)
    /\ buffered' = [buffered EXCEPT ![d] = <<>>]
    /\ IF buffered[d] # <<>> /\ phase[d] = "ready"
       THEN processMessages(d, buffered[d]) /\ UNCHANGED recovery
       ELSE /\ drain' = [drain EXCEPT ![d] = "idle"]
            /\ portalRecoveryRequested' = [portalRecoveryRequested EXCEPT ![d] = FALSE]
            /\ IF portalRecoveryRequested[d] /\ portalSuspended[d]
               THEN deliverRecoverySync(d)
               ELSE UNCHANGED <<portalSuspended, recovery>>
            /\ UNCHANGED <<lockVars, mutex, phase, input, op, rollback>>
    /\ UNCHANGED <<xact, openedBy, busy, faults, tornDown, closed, final, lastSeen>>

\* Mutant of EnterMutex: the frame does not await its acquire.
EnterUnclaimed(d) ==
    /\ drain[d] = "acquiring"
    /\ drain' = [drain EXCEPT ![d] = "queued"]
    /\ Enqueue(d, "op")
    /\ UNCHANGED <<lockVars, xact, openedBy, busy, faults, phase, tornDown, closed, final,
                   input, buffered, op, portalVars>>

\* The session is granted: queue on PGlite's mutex once PGlite is ready.
EnterMutex(d) ==
    /\ drain[d] = "acquiring" /\ acquired[d] = "resolved"
    /\ drain' = [drain EXCEPT ![d] = "queued"]
    /\ Enqueue(d, "op")
    /\ UNCHANGED <<lockVars, xact, openedBy, busy, faults, phase, tornDown, closed, final,
                   input, buffered, op, portalVars>>

\* acquire() was rejected by a cancel, or PGlite did not become ready in time.
OpFails(d) ==
    /\ drain[d] = "acquiring"
    /\ \/ acquired[d] = "rejected" /\ UNCHANGED faults
       \/ acquired[d] = "resolved" /\ faults < MaxFaults /\ faults' = faults + 1
    /\ drain' = [drain EXCEPT ![d] = "failing"]
    /\ op' = [op EXCEPT ![d] = "none"]
    /\ UNCHANGED <<lockVars, xact, openedBy, mutex, busy, phase, tornDown, closed, final,
                   input, buffered, portalVars>>

-----------------------------------------------------------------------------
(* PGlite executes one job of its mutex at a time, in arrival order.        *)

\* A job of a duplex that was torn down or terminated while it queued is
\* dropped when its turn comes; ROLLBACK always runs.
StartJob ==
    /\ ~busy /\ mutex # <<>>
    /\ LET d == Head(mutex).by
           job == Head(mutex).job
       IN  IF job # "rollback" /\ (tornDown[d] \/ phase[d] = "terminated")
           THEN /\ mutex' = Tail(mutex)
                /\ drain' = IF job = "op" THEN [drain EXCEPT ![d] = "loop"] ELSE drain
                /\ op' = IF job = "op" THEN [op EXCEPT ![d] = "none"] ELSE op
                /\ recovery' = IF job = "recovery" THEN [recovery EXCEPT ![d] = "none"]
                               ELSE recovery
                /\ UNCHANGED busy
           ELSE busy' = TRUE /\ UNCHANGED <<mutex, drain, op, recovery>>
    /\ UNCHANGED <<lockVars, xact, openedBy, faults, phase, tornDown, closed, final, input,
                   buffered, lastSeen, portalSuspended, portalRecoveryRequested, rollback>>

\* Mutant of onReadyForQuery: every ReadyForQuery releases the session.
releaseOnAnyStatus(d, status) ==
    /\ lastSeen' = [lastSeen EXCEPT ![d] = status]
    /\ portalSuspended' = [portalSuspended EXCEPT ![d] = FALSE]
    /\ release(d)

\* onReadyForQuery: the status is remembered, ends any portal, and drives the
\* lock unless the stream is terminated.
onReadyForQuery(d, status) ==
    /\ lastSeen' = [lastSeen EXCEPT ![d] = status]
    /\ portalSuspended' = [portalSuspended EXCEPT ![d] = FALSE]
    /\ IF phase[d] # "terminated" THEN updateStatus(d, status) ELSE UNCHANGED lockVars

\* Mutant of Answered: the session's state is taken for the status byte.
AnsweredRaw(d, frame, x) ==
    /\ xact' = x
    /\ openedBy' = OpenerAfter(d, frame, x)
    /\ onReadyForQuery(d, x)

\* A frame of d takes the session to state x and is answered.
Answered(d, frame, x) ==
    /\ xact' = x
    /\ openedBy' = OpenerAfter(d, frame, x)
    /\ onReadyForQuery(d, StatusOf(x))

\* Mutant of FlushSuspends: a portal outside a transaction does not keep the session.
FlushLetsGo(d) ==
    /\ xact # "failed"
    /\ xact' = AfterFlush(xact)
    /\ openedBy' = OpenerAfter(d, "flush", xact')
    /\ portalSuspended' = [portalSuspended EXCEPT ![d] = TRUE]
    /\ IF inTransaction(d) THEN UNCHANGED lockVars ELSE release(d)
    /\ UNCHANGED lastSeen

\* A clean Flush batch leaves its portal suspended and no ReadyForQuery.
FlushSuspends(d) ==
    /\ xact # "failed"
    /\ xact' = AfterFlush(xact)
    /\ openedBy' = OpenerAfter(d, "flush", xact')
    /\ portalSuspended' = [portalSuspended EXCEPT ![d] = TRUE]
    /\ UNCHANGED <<lockVars, lastSeen>>

\* An errored one dooms it: PGlite answers the error, and the duplex clears the
\* backend's ignore-till-sync state before it returns.  Without an RFQ the
\* session is released unless the last status said transaction.
FlushFails(d) ==
    \/ Answered(d, "flush", AfterError(xact))
    \/ /\ ~AllErrorsAnswered
       /\ xact' = AfterError(xact)
       /\ openedBy' = OpenerAfter(d, "flush", xact')
       /\ portalSuspended' = [portalSuspended EXCEPT ![d] = FALSE]
       /\ IF inTransaction(d) THEN UNCHANGED lockVars ELSE release(d)
       /\ UNCHANGED lastSeen

\* streamProtocol: one frame runs to the end of its response.
streamProtocol(d, frame) ==
    \/ frame = "flush" /\ (FlushSuspends(d) \/ FlushFails(d))
    \/ frame # "flush" /\ \E x \in After(frame, xact) : Answered(d, frame, x)

\* The call throws before PGlite did anything.
CallThrows == /\ faults < MaxFaults /\ faults' = faults + 1
              /\ UNCHANGED <<lockVars, xact, openedBy, lastSeen, portalSuspended>>

FinishOp(d) ==
    /\ Executing(d) /\ Head(mutex).job = "op"
    /\ busy' = FALSE /\ mutex' = Tail(mutex)
    /\ \/ /\ streamProtocol(d, op[d])
          /\ drain' = [drain EXCEPT ![d] = "loop"]
          /\ UNCHANGED faults
       \/ CallThrows /\ drain' = [drain EXCEPT ![d] = "failing"]
    /\ op' = [op EXCEPT ![d] = "none"]
    /\ UNCHANGED <<phase, tornDown, closed, final, input, buffered,
                   portalRecoveryRequested, recovery, rollback>>

\* The manufactured Sync of deliverRecoverySync.
EnterRecovery(d) ==
    /\ recovery[d] = "entering"
    /\ Enqueue(d, "recovery")
    /\ recovery' = [recovery EXCEPT ![d] = "queued"]
    /\ UNCHANGED <<lockVars, xact, openedBy, busy, faults, streamVars,
                   lastSeen, portalSuspended, portalRecoveryRequested, rollback>>

FinishRecovery(d) ==
    /\ Executing(d) /\ Head(mutex).job = "recovery"
    /\ busy' = FALSE /\ mutex' = Tail(mutex)
    /\ \/ /\ streamProtocol(d, "sync")
          /\ recovery' = [recovery EXCEPT ![d] = "none"]
          /\ UNCHANGED faults
       \/ CallThrows /\ recovery' = [recovery EXCEPT ![d] = "failed"]
    /\ UNCHANGED <<streamVars, portalRecoveryRequested, rollback>>

FinishRollback(d) ==
    /\ busy /\ Head(mutex) = [by |-> d, job |-> "rollback"]
    /\ busy' = FALSE /\ mutex' = Tail(mutex)
    /\ xact' = "idle" /\ openedBy' = NoOwner
    /\ lastSeen' = [lastSeen EXCEPT ![d] = "I"]
    /\ rollback' = [rollback EXCEPT ![d] = "done"]
    /\ UNCHANGED <<lockVars, faults, streamVars, portalSuspended, portalRecoveryRequested,
                   recovery>>

-----------------------------------------------------------------------------
(* Teardown: whichever path comes, the rollback precedes the lock's release. *)

\* The call runRollback waited for has settled.
RollbackAfterCall(d) ==
    /\ rollback[d] = "await" /\ ~Executing(d)
    /\ JudgeRollback(d)
    /\ UNCHANGED <<lockVars, xact, openedBy, busy, faults, streamVars,
                   lastSeen, portalSuspended, portalRecoveryRequested, recovery>>

TerminateDone(d) ==
    /\ drain[d] = "terminating" /\ rollback[d] = "done"
    /\ drain' = [drain EXCEPT ![d] = "loop"]
    /\ release(d)
    /\ UNCHANGED <<pgliteVars, phase, tornDown, closed, final, input, buffered, op, portalVars>>

\* end() on the stream; _final runs once every write has called back.
End(d) ==
    /\ final[d] = "no" /\ ~tornDown[d]
    /\ final' = [final EXCEPT ![d] = "ended"]
    /\ UNCHANGED <<lockVars, pgliteVars, phase, tornDown, closed, input, buffered, drain, op,
                   portalVars>>

Final(d) ==
    /\ final[d] = "ended" /\ ~tornDown[d] /\ ~Draining(d)
    /\ final' = [final EXCEPT ![d] = "pending"]
    /\ rollbackIfInTransaction(d)
    /\ UNCHANGED <<lockVars, xact, openedBy, busy, faults, phase, tornDown, closed, input,
                   buffered, drain, op,
                   lastSeen, portalSuspended, portalRecoveryRequested, recovery>>

FinalDone(d) ==
    /\ final[d] = "pending" /\ rollback[d] = "done"
    /\ final' = [final EXCEPT ![d] = "done"]
    /\ IF phase[d] # "terminated" THEN release(d) ELSE UNCHANGED lockVars
    /\ UNCHANGED <<pgliteVars, phase, tornDown, closed, input, buffered, drain, op, portalVars>>

\* Mutant of destroy: no rollback is started.
destroyOnly(d) ==
    /\ tornDown' = [tornDown EXCEPT ![d] = TRUE]
    /\ input' = [input EXCEPT ![d] = <<>>]
    /\ buffered' = [buffered EXCEPT ![d] = <<>>]
    /\ UNCHANGED <<rollback, mutex>>

\* destroy() drops all input at once and rolls back; a second call is a no-op.
destroy(d) ==
    IF tornDown[d] THEN UNCHANGED <<tornDown, input, buffered, rollback, mutex>>
    ELSE /\ tornDown' = [tornDown EXCEPT ![d] = TRUE]
         /\ input' = [input EXCEPT ![d] = <<>>]
         /\ buffered' = [buffered EXCEPT ![d] = <<>>]
         /\ rollbackIfInTransaction(d)

Destroy(d) ==
    /\ ~tornDown[d]
    /\ destroy(d)
    /\ UNCHANGED <<lockVars, xact, openedBy, busy, faults, phase, closed, final, drain, op,
                   lastSeen, portalSuspended, portalRecoveryRequested, recovery>>

\* Every failed drain is terminal.
DrainFailed(d) ==
    /\ drain[d] = "failing"
    /\ drain' = [drain EXCEPT ![d] = "idle"]
    /\ portalRecoveryRequested' = [portalRecoveryRequested EXCEPT ![d] = FALSE]
    /\ destroy(d)
    /\ UNCHANGED <<lockVars, xact, openedBy, busy, faults, phase, closed, final, op,
                   lastSeen, portalSuspended, recovery>>

RecoveryFailed(d) ==
    /\ recovery[d] = "failed"
    /\ recovery' = [recovery EXCEPT ![d] = "none"]
    /\ IF phase[d] # "terminated" THEN destroy(d)
       ELSE UNCHANGED <<tornDown, input, buffered, rollback, mutex>>
    /\ UNCHANGED <<lockVars, xact, openedBy, busy, faults, phase, closed, final, drain, op,
                   lastSeen, portalSuspended, portalRecoveryRequested>>

DestroyDone(d) ==
    /\ tornDown[d] /\ ~closed[d] /\ rollback[d] = "done"
    /\ closed' = [closed EXCEPT ![d] = TRUE]
    /\ cancel(d)
    /\ UNCHANGED <<pgliteVars, phase, tornDown, final, input, buffered, drain, op, portalVars>>

-----------------------------------------------------------------------------
\* What a duplex and PGlite do on their own, once started.
DuplexStep(d) == \/ NextFrame(d) \/ DrainEnd(d) \/ EnterMutex(d) \/ OpFails(d) \/ DrainFailed(d)
                 \/ EnterRecovery(d) \/ RecoveryFailed(d)
                 \/ RollbackAfterCall(d) \/ TerminateDone(d)
                 \/ Final(d) \/ FinalDone(d) \/ DestroyDone(d)

FinishJob == \E d \in Duplexes : FinishOp(d) \/ FinishRecovery(d) \/ FinishRollback(d)

\* Promise callbacks run and PGlite works off its mutex: each step of a duplex
\* that stays possible is taken.  Nothing is assumed of the clients.
DuplexFairness ==
    /\ WF_duplexVars(StartJob) /\ WF_duplexVars(FinishJob)
    /\ \A d \in Duplexes : WF_duplexVars(DuplexStep(d))

-----------------------------------------------------------------------------
DuplexTypeOK ==
    /\ LockTypeOK
    /\ xact \in {"idle", "implicit", "block", "failed"}
    /\ openedBy \in Duplexes \cup {NoOwner}
    /\ mutex \in Seq(Jobs) /\ busy \in BOOLEAN /\ faults \in 0..MaxFaults
    /\ phase \in [Duplexes -> {"ready", "terminated"}]
    /\ tornDown \in [Duplexes -> BOOLEAN] /\ closed \in [Duplexes -> BOOLEAN]
    /\ final \in [Duplexes -> {"no", "ended", "pending", "done"}]
    /\ input \in [Duplexes -> Seq(Frames \cup {"terminate"})]
    /\ buffered \in [Duplexes -> Seq(Frames \cup {"terminate"})]
    /\ drain \in [Duplexes -> DrainStates] /\ op \in [Duplexes -> Frames \cup {"none"}]
    /\ lastSeen \in [Duplexes -> Statuses]
    /\ portalSuspended \in [Duplexes -> BOOLEAN]
    /\ portalRecoveryRequested \in [Duplexes -> BOOLEAN]
    /\ recovery \in [Duplexes -> {"none", "entering", "queued", "failed"}]
    /\ rollback \in [Duplexes -> {"none", "await", "queued", "done"}]

\* A duplex whose stream is over, however it ended.
Gone(d) == closed[d] \/ final[d] = "done" \/ (phase[d] = "terminated" /\ drain[d] # "terminating")

\* The implicit transaction of a portal that was still open when its duplex
\* went away: PGlite keeps it until the next Sync, and no path rolls it back.
DanglingPortal == xact = "implicit" /\ Gone(openedBy)

\* "An operation can never execute inside a sibling's transaction."
NoForeignTransaction ==
    busy /\ Head(mutex).job = "op" => openedBy \in {NoOwner, Head(mutex).by}

NoForeignTransactionButPortal == NoForeignTransaction \/ DanglingPortal

\* "No operation may reach the backend without" a resolved acquire: whatever
\* PGlite executes, a frame, the Sync of a recovery or a teardown's ROLLBACK, the
\* session is its duplex's from the call's first moment to its last, also when
\* the duplex is terminated or destroyed under it.
ExecutesAsOwner == busy => isOwner(Head(mutex).by)

\* An explicit transaction keeps the session until it ends: between two frames
\* its opener owns the lock and knows the transaction is open, so that COMMIT,
\* ROLLBACK and every teardown path find both.
TransactionHeld ==
    ~busy /\ xact \in {"block", "failed"} => isOwner(openedBy) /\ inTransaction(openedBy)

\* A suspended portal keeps the session as well, until its duplex is gone.
PortalHeld ==
    ~busy /\ xact = "implicit" /\ ~Gone(openedBy) => isOwner(openedBy)

\* A duplex that is gone neither holds the session nor waits for it, and its
\* explicit transaction is over.
GoneLeavesNothing ==
    \A d \in Duplexes : closed[d] =>
        /\ ~isOwner(d) /\ ~Waiting(d)
        /\ openedBy = d => xact = "implicit"

\* Teardown ends: a destroyed duplex closes even with its frame in PGlite, its
\* acquire pending or its ROLLBACK queued behind siblings.
DestroyedCloses == \A d \in Duplexes : tornDown[d] ~> closed[d]
=============================================================================
