----------------------------- MODULE ServerProofs -----------------------------
(***************************************************************************)
(* Proofs about PGliteServer, for any set of sockets and session           *)
(* operations and any number of frames and faults: a frame runs only as    *)
(* the owner of the session, a transaction keeps the session until it      *)
(* ends, a duplex that is gone leaves nothing behind but the portal that   *)
(* PGlite keeps, and a session operation runs alone.  What the duplexes    *)
(* keep is proved in DuplexProofs; a socket's duplex never recovers a      *)
(* portal, for only a pool asks for that.                                  *)
(***************************************************************************)
EXTENDS PGliteServer, DuplexProofs

-----------------------------------------------------------------------------
(* The session operations and close(). *)

\* A session operation that is granted the session keeps it until it is done,
\* unless close() robs it; only a robbed one can meet a client's transaction.
SessionOK(s) ==
    /\ session[s] = "waiting" => acquired[s] \in {"waiting", "resolved"}
    /\ session[s] = "waiting" /\ acquired[s] = "resolved" /\ s \notin robbed => owner = s
    /\ session[s] = "running" /\ s \notin robbed => owner = s
    /\ session[s] = "invariantBroken" => s \in robbed

\* close() leaves no operation waiting but those it robbed, awaits the others,
\* and then the duplexes that are left.
ClosingInv ==
    /\ closing \in {"draining", "sweeping", "closed"} =>
          \A s \in Ops : session[s] = "waiting" => s \in robbed
    /\ closing = "draining" => sessionOps \ robbed \subseteq awaited
    /\ closing \in {"sweeping", "closed"} =>
          sessionOps \subseteq robbed /\ awaited \subseteq Duplexes
    /\ closing = "closed" => \A d \in awaited : closed[d]

\* The server's own variables.
CloseTypeOK ==
    /\ sent \in 0..MaxFrames
    /\ session \in [Ops -> {"none", "waiting", "running", "done", "refused", "invariantBroken"}]
    /\ closing \in {"no", "cancelling", "draining", "sweeping", "closed"}
    /\ awaited \subseteq Duplexes \cup Ops /\ robbed \subseteq Ops

\* Nobody asks for the recovery of a portal.
Unasked == \A d \in Duplexes : recovery[d] = "none" /\ ~portalRecoveryRequested[d]

\* The inductive invariant of the server.
ServerInv == /\ DuplexInv /\ Unasked /\ CloseTypeOK /\ ClosingInv
             /\ \A s \in Ops : SessionOK(s)

\* A drain asks for nothing on its own.
LEMMA DuplexAsksNothing ==
    ASSUME DuplexTypeOK, Unasked, NEW d \in Duplexes, DuplexStep(d)
    PROVE  Unasked'
<1>1. /\ recovery \in [Duplexes -> {"none", "entering", "queued", "failed"}]
      /\ portalRecoveryRequested \in [Duplexes -> BOOLEAN]
  BY DEF DuplexTypeOK
<1>2. /\ recovery[d] = "none" /\ ~portalRecoveryRequested[d]
  BY DEF Unasked
<1>3. CASE NextFrame(d) \/ DrainEnd(d)
  <2>1. recovery' = recovery
    BY <1>2, <1>3 DEF NextFrame, DrainEnd
  <2>2. portalRecoveryRequested' \in {portalRecoveryRequested,
                                      [portalRecoveryRequested EXCEPT ![d] = FALSE]}
    BY <1>3 DEF NextFrame, DrainEnd, processMessages, BeginTerminate, BeginFrame
  <2> QED BY <1>1, <2>1, <2>2 DEF Unasked
<1>4. CASE EnterMutex(d) \/ OpFails(d) \/ RollbackAfterCall(d) \/ TerminateDone(d)
           \/ Final(d) \/ FinalDone(d) \/ DestroyDone(d)
  BY <1>4 DEF Unasked, EnterMutex, OpFails, RollbackAfterCall, TerminateDone, Final, FinalDone,
              DestroyDone, portalVars
<1>5. CASE DrainFailed(d)
  BY <1>1, <1>5 DEF Unasked, DrainFailed
<1>6. CASE EnterRecovery(d) \/ RecoveryFailed(d)
  BY <1>2, <1>6 DEF EnterRecovery, RecoveryFailed
<1> QED BY <1>3, <1>4, <1>5, <1>6 DEF DuplexStep

\* Nor does PGlite.
LEMMA PGliteAsksNothing ==
    ASSUME DuplexInv, Unasked, StartJob \/ FinishJob
    PROVE  Unasked'
<1>1. recovery \in [Duplexes -> {"none", "entering", "queued", "failed"}]
  BY DEF DuplexInv, DuplexTypeOK
<1>2. CASE StartJob
  <2>1. /\ portalRecoveryRequested' = portalRecoveryRequested
        /\ \E e : recovery' \in {recovery, [recovery EXCEPT ![e] = "none"]}
    BY <1>2 DEF StartJob
  <2> QED BY <1>1, <2>1 DEF Unasked
<1>3. ASSUME NEW d \in Duplexes, FinishOp(d) \/ FinishRollback(d) PROVE Unasked'
  BY <1>3 DEF Unasked, FinishOp, FinishRollback
<1>4. ASSUME NEW d \in Duplexes PROVE ~FinishRecovery(d)
  <2>1. FinishRecovery(d) => Executing(d) /\ Head(mutex).job = "recovery"
    BY DEF FinishRecovery
  <2>2. Executing(d) /\ Head(mutex).job = "recovery" => recovery[d] = "queued"
    BY CallFacts
  <2> QED BY <2>1, <2>2 DEF Unasked
<1> QED BY <1>2, <1>3, <1>4 DEF FinishJob

\* Nor does a socket.
LEMMA SocketAsksNothing ==
    ASSUME DuplexTypeOK, Unasked, NEW d \in Duplexes, NEW frame,
           Write(d, frame) \/ End(d) \/ Destroy(d)
    PROVE  Unasked'
<1>1. /\ recovery \in [Duplexes -> {"none", "entering", "queued", "failed"}]
      /\ portalRecoveryRequested \in [Duplexes -> BOOLEAN]
  BY DEF DuplexTypeOK
<1>2. CASE Write(d, frame)
  <2>1. /\ recovery' = recovery
        /\ portalRecoveryRequested' \in {portalRecoveryRequested,
                                         [portalRecoveryRequested EXCEPT ![d] = FALSE]}
    BY <1>2 DEF Write, write, processMessages, BeginTerminate, BeginFrame
  <2> QED BY <1>1, <2>1 DEF Unasked
<1>3. CASE End(d) \/ Destroy(d)
  BY <1>3 DEF Unasked, End, Destroy, portalVars
<1> QED BY <1>2, <1>3

\* What an operation does to the lock leaves the duplexes as they are.
LEMMA OpMovesLock ==
    ASSUME DuplexInv, NEW s \in Ops, LockInv', OthersClaim(s),
           UNCHANGED <<pgliteVars, streamVars, portalVars>>
    PROVE  DuplexInv'
<1> USE DEF pgliteVars, streamVars, portalVars
<1>1. s \in Ids /\ s \notin Duplexes /\ Duplexes \subseteq Ids
  BY DuplexAssumption, ServerAssumption
<1>2. OnlyMoves(s) /\ SameCall
  BY DEF OnlyMoves, SameCall
<1>3. ASSUME NEW e \in Duplexes PROVE DuplexOK(e)'
  <2>1. e # s
    BY <1>1
  <2> QED BY <1>1, <1>2, <2>1, Bystander DEF DuplexInv
<1>4. DuplexTypeOK'
  BY DEF DuplexInv, DuplexTypeOK, LockInv
<1>5. JobsInv'
  <2>1. \A e \in Duplexes : \A j \in JobKinds : Owes(e, j)' <=> Owes(e, j)
    BY DEF Owes
  <2> QED BY <2>1 DEF DuplexInv, JobsInv, Job
<1>6. XactInv'
  <2>1. /\ xact = "idle" <=> openedBy = NoOwner
        /\ xact \in {"block", "failed"} => inTransaction(openedBy)
        /\ xact = "implicit" => Gone(openedBy) \/ owner = openedBy
        /\ \A e \in Duplexes : inTransaction(e) => owner = e
        /\ openedBy \in Duplexes \cup {NoOwner}
    BY DEF DuplexInv, XactInv, DuplexTypeOK
  <2>2. \A e \in Duplexes : owner = e => owner' = e
    BY <1>1 DEF OthersClaim
  <2>3. /\ \A e : inTransaction(e)' <=> inTransaction(e)
        /\ Gone(openedBy)' <=> Gone(openedBy)
    BY DEF inTransaction, Gone
  <2>4. xact = "implicit" => openedBy \in Duplexes
    BY <2>1
  <2> QED BY <2>1, <2>2, <2>3, <2>4 DEF XactInv
<1> QED BY <1>3, <1>4, <1>5, <1>6 DEF DuplexInv

\* A step of a duplex or of PGlite leaves the operations their claims.
LEMMA OpsBystand ==
    ASSUME ServerInv, DuplexInv', Unasked', OutsidersKeep, sent' \in 0..MaxFrames,
           UNCHANGED <<session, closeVars>>, closing # "closed"
    PROVE  ServerInv'
<1>1. ASSUME NEW s \in Ops PROVE SessionOK(s)'
  <2>1. s \in Ids \ Duplexes /\ SessionOK(s)
    BY DuplexAssumption, ServerAssumption DEF ServerInv
  <2>2. /\ owner = s => owner' = s
        /\ acquired'[s] = acquired[s] \/ (acquired'[s] = "resolved" /\ owner' = s)
    BY <2>1 DEF OutsidersKeep
  <2> QED BY <2>1, <2>2 DEF SessionOK, closeVars
<1>2. CloseTypeOK'
  BY DEF ServerInv, CloseTypeOK, closeVars
<1>3. ClosingInv'
  BY DEF ServerInv, ClosingInv, closeVars, sessionOps
<1> QED BY <1>1, <1>2, <1>3 DEF ServerInv

\* A step of one operation leaves the others theirs.
LEMMA OpStep ==
    ASSUME ServerInv, NEW s \in Ops, LockInv', OthersClaim(s),
           UNCHANGED <<pgliteVars, streamVars, portalVars>>,
           \A t \in Ops \ {s} : session'[t] = session[t] /\ (t \in robbed => t \in robbed'),
           SessionOK(s)', CloseTypeOK', ClosingInv'
    PROVE  ServerInv'
<1>1. DuplexInv'
  BY OpMovesLock DEF ServerInv
<1>2. ASSUME NEW t \in Ops PROVE SessionOK(t)'
  <2>1. CASE t = s
    BY <2>1
  <2>2. CASE t # s
    <3>1. /\ t \in Ids \ {s} /\ SessionOK(t)
          /\ session'[t] = session[t] /\ (t \in robbed => t \in robbed')
      BY <2>2, ServerAssumption DEF ServerInv
    <3>2. /\ owner = t => owner' = t
          /\ acquired'[t] = acquired[t] \/ (acquired'[t] = "resolved" /\ owner' = t)
      BY <3>1 DEF OthersClaim
    <3> QED BY <3>1, <3>2 DEF SessionOK
  <2> QED BY <2>1, <2>2
<1>3. Unasked'
  BY DEF ServerInv, Unasked, portalVars
<1> QED BY <1>1, <1>2, <1>3 DEF ServerInv

\* An operation is refused, or joins the line.
LEMMA WithSessionKeeps ==
    ASSUME ServerInv, NEW s \in Ops, withSession(s)
    PROVE  ServerInv'
<1>1. CloseTypeOK /\ LockInv /\ s \in Ids
  BY ServerAssumption DEF ServerInv, DuplexInv
<1>2. /\ closing = "no"
      /\ UNCHANGED <<pgliteVars, streamVars, portalVars, sent, closeVars>>
  BY DEF withSession
<1>3. \/ /\ session' = [session EXCEPT ![s] = "refused"] /\ UNCHANGED lockVars
      \/ /\ session' = [session EXCEPT ![s] = "waiting"] /\ acquire(s)
  BY DEF withSession
<1>4. /\ CloseTypeOK' /\ ClosingInv'
      /\ \A t \in Ops \ {s} : session'[t] = session[t] /\ (t \in robbed => t \in robbed')
  BY <1>1, <1>2, <1>3 DEF CloseTypeOK, ClosingInv, closeVars
<1>5. CASE session' = [session EXCEPT ![s] = "refused"] /\ UNCHANGED lockVars
  <2>1. session'[s] = "refused"
    BY <1>1, <1>5 DEF CloseTypeOK
  <2>2. SessionOK(s)'
    BY <2>1 DEF SessionOK
  <2>3. LockInv' /\ OthersClaim(s)
    BY <1>1, <1>5, LockKept
  <2> QED BY <1>2, <1>4, <2>2, <2>3, OpStep
<1>6. CASE session' = [session EXCEPT ![s] = "waiting"] /\ acquire(s)
  <2>1. session'[s] = "waiting"
    BY <1>1, <1>6 DEF CloseTypeOK
  <2>2. /\ LockInv' /\ OthersClaim(s) /\ acquired'[s] \in {"waiting", "resolved"}
        /\ acquired'[s] = "resolved" => owner' = s
    BY <1>1, <1>6, AcquireStep
  <2>3. SessionOK(s)'
    BY <2>1, <2>2 DEF SessionOK
  <2> QED BY <1>2, <1>4, <2>2, <2>3, OpStep
<1> QED BY <1>3, <1>5, <1>6

\* The timer fires while the operation waits.
LEMMA SessionExpiresKeeps ==
    ASSUME ServerInv, NEW s \in Ops, SessionExpires(s)
    PROVE  ServerInv'
<1>1. CloseTypeOK /\ LockInv /\ s \in Ids /\ ClosingInv
  BY ServerAssumption DEF ServerInv, DuplexInv
<1>2. /\ session' = [session EXCEPT ![s] = "refused"] /\ cancel(s)
      /\ UNCHANGED <<pgliteVars, streamVars, portalVars, sent, closeVars>>
  BY DEF SessionExpires
<1>3. /\ \A t \in Ops \ {s} : session'[t] = session[t] /\ (t \in robbed => t \in robbed')
      /\ session'[s] = "refused" /\ CloseTypeOK'
  BY <1>1, <1>2 DEF CloseTypeOK, closeVars
<1>4. ClosingInv'
  BY <1>1, <1>2, <1>3 DEF ClosingInv, sessionOps, closeVars, streamVars
<1>5. SessionOK(s)'
  BY <1>3 DEF SessionOK
<1>6. LockInv' /\ OthersClaim(s)
  BY <1>1, <1>2, CancelStep
<1> QED BY <1>2, <1>3, <1>4, <1>5, <1>6, OpStep

\* At its grant no socket can be in a transaction, for it would hold the session.
LEMMA SessionGrantedKeeps ==
    ASSUME ServerInv, NEW s \in Ops, SessionGranted(s)
    PROVE  ServerInv'
<1>1. CloseTypeOK /\ LockInv /\ s \in Ids \ Duplexes /\ ClosingInv /\ SessionOK(s)
  BY ServerAssumption DEF ServerInv, DuplexInv
<1>2. /\ session[s] = "waiting" /\ acquired[s] = "resolved"
      /\ session' = [session EXCEPT ![s] =
                       IF openTransactions = {} THEN "running" ELSE "invariantBroken"]
      /\ UNCHANGED <<duplexVars, sent, closeVars>>
  BY DEF SessionGranted
<1>3. s \notin robbed => owner = s /\ openTransactions = {}
  <2>1. s \notin robbed => owner = s
    BY <1>1, <1>2 DEF SessionOK
  <2>2. \A d \in Duplexes : inTransaction(d) => owner = d
    BY DEF ServerInv, DuplexInv, XactInv
  <2> QED BY <1>1, <2>1, <2>2 DEF openTransactions
<1>4. /\ \A t \in Ops \ {s} : session'[t] = session[t] /\ (t \in robbed => t \in robbed')
      /\ session'[s] \in {"running", "invariantBroken"}
      /\ s \notin robbed => session'[s] = "running"
      /\ CloseTypeOK'
  BY <1>1, <1>2, <1>3 DEF CloseTypeOK, closeVars
<1>5. ClosingInv'
  <2>1. closing \in {"draining", "sweeping", "closed"} => s \in robbed
    BY <1>1, <1>2 DEF ClosingInv
  <2>2. /\ sessionOps' \subseteq sessionOps \cup {s}
        /\ \A t \in Ops : session'[t] = "waiting" => session[t] = "waiting"
    BY <1>4 DEF sessionOps
  <2>3. UNCHANGED <<closing, awaited, robbed, closed>>
    BY <1>2 DEF closeVars, duplexVars, streamVars
  <2> QED BY <1>1, <2>1, <2>2, <2>3 DEF ClosingInv
<1>6. LockInv' /\ OthersClaim(s) /\ UNCHANGED <<lockVars, pgliteVars, streamVars, portalVars>>
  BY <1>1, <1>2, LockKept DEF duplexVars
<1>7. SessionOK(s)'
  BY <1>2, <1>3, <1>4, <1>6 DEF SessionOK, lockVars, closeVars
<1> QED BY <1>4, <1>5, <1>6, <1>7, OpStep

\* A finished operation hands the session over.
LEMMA SessionDoneKeeps ==
    ASSUME ServerInv, NEW s \in Ops, SessionDone(s)
    PROVE  ServerInv'
<1>1. CloseTypeOK /\ LockInv /\ s \in Ids /\ ClosingInv
  BY ServerAssumption DEF ServerInv, DuplexInv
<1>2. /\ session' = [session EXCEPT ![s] = "done"] /\ release(s)
      /\ UNCHANGED <<pgliteVars, streamVars, portalVars, sent, closeVars>>
  BY DEF SessionDone
<1>3. /\ \A t \in Ops \ {s} : session'[t] = session[t] /\ (t \in robbed => t \in robbed')
      /\ session'[s] = "done" /\ CloseTypeOK'
  BY <1>1, <1>2 DEF CloseTypeOK, closeVars
<1>4. ClosingInv'
  BY <1>1, <1>2, <1>3 DEF ClosingInv, sessionOps, closeVars, streamVars
<1>5. SessionOK(s)'
  BY <1>3 DEF SessionOK
<1>6. LockInv' /\ OthersClaim(s)
  BY <1>1, <1>2, ReleaseStep
<1> QED BY <1>2, <1>3, <1>4, <1>5, <1>6, OpStep

\* close() rejects a waiter, or robs one that was granted the session.
LEMMA CloseCancelsKeeps ==
    ASSUME ServerInv, NEW s \in Ops, CloseCancels(s)
    PROVE  ServerInv'
<1>1. CloseTypeOK /\ LockInv /\ s \in Ids /\ ClosingInv /\ SessionOK(s)
  BY ServerAssumption DEF ServerInv, DuplexInv
<1>2. /\ closing = "cancelling" /\ session[s] = "waiting" /\ s \notin robbed /\ cancel(s)
      /\ UNCHANGED <<pgliteVars, streamVars, portalVars, sent, closing, awaited>>
      /\ IF isOwner(s) THEN robbed' = robbed \cup {s} /\ UNCHANGED session
         ELSE session' = [session EXCEPT ![s] = "refused"] /\ UNCHANGED robbed
  BY DEF CloseCancels, sessionWaiters
<1>3. /\ \A t \in Ops \ {s} : session'[t] = session[t] /\ (t \in robbed => t \in robbed')
      /\ CloseTypeOK' /\ ClosingInv'
  BY <1>1, <1>2 DEF CloseTypeOK, ClosingInv
<1>4. /\ LockInv' /\ OthersClaim(s)
      /\ acquired'[s] = IF acquired[s] = "waiting" THEN "rejected" ELSE acquired[s]
  BY <1>1, <1>2, CancelStep
<1>5. SessionOK(s)'
  <2>1. CASE owner = s
    <3>1. acquired[s] # "waiting"
      BY <1>1, <2>1, LockInvFacts
    <3>2. acquired'[s] = "resolved" /\ s \in robbed' /\ session'[s] = "waiting"
      BY <1>1, <1>2, <1>4, <2>1, <3>1 DEF SessionOK, isOwner
    <3> QED BY <3>2 DEF SessionOK
  <2>2. CASE owner # s
    <3>1. session'[s] = "refused"
      BY <1>1, <1>2, <2>2 DEF isOwner, CloseTypeOK
    <3> QED BY <3>1 DEF SessionOK
  <2> QED BY <2>1, <2>2
<1> QED BY <1>2, <1>3, <1>4, <1>5, OpStep

\* The steps of close() that touch neither the lock nor an operation.
LEMMA CloseMoves ==
    ASSUME ServerInv, UNCHANGED <<duplexVars, session, robbed>>, CloseTypeOK', ClosingInv'
    PROVE  ServerInv'
<1>1. DuplexInv' /\ UNCHANGED lockVars
  BY DuplexStutter DEF ServerInv, duplexVars
<1>2. ASSUME NEW s \in Ops PROVE SessionOK(s)'
  BY <1>1 DEF ServerInv, SessionOK, lockVars
<1>3. Unasked'
  BY DEF ServerInv, Unasked, duplexVars, portalVars
<1> QED BY <1>1, <1>2, <1>3 DEF ServerInv

\* close() begins, waits for the operations, sweeps the sockets and is done.
LEMMA CloseKeeps ==
    ASSUME ServerInv, Close \/ CloseDrains \/ CloseSweeps \/ CloseDone
    PROVE  ServerInv'
<1>1. CloseTypeOK /\ ClosingInv /\ MaxFrames \in Nat
  BY ServerAssumption DEF ServerInv
<1>2. CASE Close
  <2>1. CloseTypeOK' /\ ClosingInv'
    BY <1>1, <1>2 DEF Close, CloseTypeOK, ClosingInv
  <2> QED BY <1>2, <2>1, CloseMoves DEF Close
<1>3. CASE CloseDrains
  <2>1. /\ sessionWaiters = {} /\ closing' = "draining" /\ awaited' = sessionOps
        /\ UNCHANGED <<duplexVars, sent, session, robbed>>
    BY <1>3 DEF CloseDrains, CloseAwaits
  <2>2. \A s \in Ops : session[s] = "waiting" => s \in robbed
    BY <2>1 DEF sessionWaiters
  <2>3. CloseTypeOK'
    BY <1>1, <2>1 DEF CloseTypeOK, sessionOps
  <2>4. sessionOps' = sessionOps
    BY <2>1 DEF sessionOps
  <2>5. ClosingInv'
    BY <2>1, <2>2, <2>4 DEF ClosingInv
  <2> QED BY <2>1, <2>3, <2>5, CloseMoves
<1>4. CASE CloseSweeps
  <2>1. /\ closing = "draining" /\ \A s \in awaited : session[s] = "done"
        /\ closing' = "sweeping" /\ awaited' \subseteq Duplexes
        /\ UNCHANGED <<duplexVars, sent, session, robbed>>
    BY <1>4 DEF CloseSweeps
  <2>2. CloseTypeOK'
    BY <1>1, <2>1 DEF CloseTypeOK
  <2>3. sessionOps \subseteq robbed /\ sessionOps' = sessionOps
    BY <1>1, <2>1 DEF ClosingInv, sessionOps
  <2>4. ClosingInv'
    BY <1>1, <2>1, <2>3 DEF ClosingInv
  <2> QED BY <2>1, <2>2, <2>4, CloseMoves
<1>5. CASE CloseDone
  <2>1. /\ closing = "sweeping" /\ \A d \in awaited : closed[d]
        /\ closing' = "closed"
        /\ UNCHANGED <<duplexVars, sent, session, awaited, robbed>>
    BY <1>5 DEF CloseDone
  <2>2. CloseTypeOK' /\ sessionOps' = sessionOps /\ closed' = closed
    BY <1>1, <2>1 DEF CloseTypeOK, sessionOps, duplexVars, streamVars
  <2>3. ClosingInv'
    BY <1>1, <2>1, <2>2 DEF ClosingInv
  <2> QED BY <2>1, <2>2, <2>3, CloseMoves
<1> QED BY <1>2, <1>3, <1>4, <1>5

-----------------------------------------------------------------------------
(* Every behaviour of the server. *)

\* At the start nothing is claimed.
LEMMA ServerStarts == ServerInit => ServerInv
<1> SUFFICES ASSUME ServerInit PROVE ServerInv
  OBVIOUS
<1>1. DuplexInit
  BY DEF ServerInit
<1>2. DuplexInv
  BY <1>1, DuplexStarts
<1>3. Unasked
  BY <1>1 DEF DuplexInit, Unasked
<1>4. /\ sent = 0 /\ session = [s \in Ops |-> "none"]
      /\ closing = "no" /\ awaited = {} /\ robbed = {}
  BY DEF ServerInit
<1>5. CloseTypeOK /\ ClosingInv /\ \A s \in Ops : SessionOK(s)
  BY <1>4, ServerAssumption DEF CloseTypeOK, ClosingInv, SessionOK
<1> QED BY <1>2, <1>3, <1>5 DEF ServerInv

\* Every step of the server keeps the invariant.
LEMMA ServerStepKeeps ==
    ASSUME ServerInv, ServerNext
    PROVE  ServerInv'
<1>1. ASSUME closing # "closed", DuplexInv' /\ OutsidersKeep, Unasked', sent' = sent,
             UNCHANGED <<session, closeVars>>
      PROVE  ServerInv'
  <2>1. sent' \in 0..MaxFrames
    BY <1>1 DEF ServerInv, CloseTypeOK
  <2> QED BY <1>1, <2>1, OpsBystand
<1>2. CASE Close \/ CloseDrains \/ CloseSweeps \/ CloseDone
  BY <1>2, CloseKeeps
<1>3. ASSUME NEW s \in Ops, CloseCancels(s) PROVE ServerInv'
  BY <1>3, CloseCancelsKeeps
<1>4. CASE closing \notin {"cancelling", "closed"} /\ Others
  <2> DEFINE Rest == UNCHANGED <<sent, session, closeVars>>
  <2>1. ASSUME StartJob \/ FinishJob, Rest PROVE ServerInv'
    <3>1. Unasked'
      BY <2>1, PGliteAsksNothing DEF ServerInv
    <3>2. DuplexInv' /\ OutsidersKeep
      BY <2>1, StartJobKeeps, FinishJobKeeps DEF ServerInv
    <3> QED BY <1>1, <1>4, <2>1, <3>1, <3>2
  <2>2. ASSUME NEW d \in Duplexes, DuplexStep(d), Rest PROVE ServerInv'
    <3>1. Unasked'
      BY <2>2, DuplexAsksNothing DEF ServerInv, DuplexInv
    <3>2. ~portalRecoveryRequested[d]
      BY DEF ServerInv, Unasked
    <3>3. DuplexInv' /\ OutsidersKeep
      BY <2>2, <3>2, DuplexStepKeeps DEF ServerInv
    <3> QED BY <1>1, <1>4, <2>2, <3>1, <3>3
  <2>3. ASSUME NEW d \in Duplexes, ClientSends(d) PROVE ServerInv'
    <3>1. PICK frame \in Frames \cup {"terminate"} : Write(d, frame)
      BY <2>3 DEF ClientSends
    <3>2. sent' \in 0..MaxFrames /\ UNCHANGED <<session, closeVars>>
      BY <2>3, ServerAssumption DEF ClientSends, ServerInv, CloseTypeOK
    <3>3. recovery[d] = "none"
      BY DEF ServerInv, Unasked
    <3>4. DuplexInv' /\ OutsidersKeep
      BY <3>1, <3>3, WriteKeeps DEF ServerInv
    <3>5. Unasked'
      BY <3>1, SocketAsksNothing DEF ServerInv, DuplexInv
    <3> QED BY <1>4, <3>2, <3>4, <3>5, OpsBystand
  <2>4. ASSUME NEW d \in Duplexes, ClientHalfCloses(d) \/ SocketCloses(d) PROVE ServerInv'
    <3>1. (End(d) \/ Destroy(d)) /\ Rest
      BY <2>4 DEF ClientHalfCloses, SocketCloses
    <3>2. recovery[d] = "none"
      BY DEF ServerInv, Unasked
    <3>3. DuplexInv' /\ OutsidersKeep
      BY <3>1, <3>2, EndKeeps, DestroyKeeps DEF ServerInv
    <3>4. Unasked'
      BY <3>1, SocketAsksNothing DEF ServerInv, DuplexInv
    <3> QED BY <1>1, <1>4, <3>1, <3>3, <3>4
  <2>5. ASSUME NEW s \in Ops, withSession(s) \/ SessionExpires(s) \/ SessionStep(s)
        PROVE  ServerInv'
    BY <2>5, WithSessionKeeps, SessionExpiresKeeps, SessionGrantedKeeps, SessionDoneKeeps
       DEF SessionStep
  <2> QED BY <1>4, <2>1, <2>2, <2>3, <2>4, <2>5 DEF Others
<1> QED BY <1>2, <1>3, <1>4 DEF ServerNext, CloseStep

\* The server's invariant, for any set of sockets and operations.
THEOREM ServerInvariant == ServerSpec => []ServerInv
<1>1. ServerInv /\ [ServerNext]_serverVars => ServerInv'
  <2> SUFFICES ASSUME ServerInv, [ServerNext]_serverVars PROVE ServerInv'
    OBVIOUS
  <2>1. CASE ServerNext
    BY <2>1, ServerStepKeeps
  <2>2. CASE UNCHANGED serverVars
    <3>1. UNCHANGED <<duplexVars, session, robbed>> /\ UNCHANGED <<sent, closing, awaited>>
      BY <2>2 DEF serverVars, closeVars
    <3>2. CloseTypeOK' /\ ClosingInv'
      BY <3>1 DEF ServerInv, CloseTypeOK, ClosingInv, sessionOps, duplexVars, streamVars
    <3> QED BY <3>1, <3>2, CloseMoves
  <2> QED BY <2>1, <2>2
<1> QED BY <1>1, ServerStarts, PTL DEF ServerSpec

\* Types are kept.
THEOREM ServerTypes == ServerSpec => []ServerTypeOK
<1>1. ServerInv => ServerTypeOK
  BY DEF ServerInv, DuplexInv, CloseTypeOK, ServerTypeOK
<1> QED BY <1>1, ServerInvariant, PTL

\* PGlite executes only for the duplex that owns the session, and that duplex owns
\* it until the call returns: no operation of #acquireAndExec, and no ROLLBACK of a
\* teardown, reaches the backend without a resolved acquire, and neither the
\* termination nor the destruction of the duplex gives the claim up under its call.
THEOREM FramesRunAsOwner == ServerSpec => []ExecutesAsOwner
<1>1. ServerInv => ExecutesAsOwner
  BY InvariantSays DEF ServerInv
<1> QED BY <1>1, ServerInvariant, PTL

\* A frame never runs inside a sibling's transaction, except where PGlite still
\* keeps the portal of a duplex that is gone.
THEOREM TransactionsAreNotShared == ServerSpec => []NoForeignTransactionButPortal
<1>1. ServerInv => NoForeignTransactionButPortal
  BY InvariantSays DEF ServerInv
<1> QED BY <1>1, ServerInvariant, PTL

\* An explicit transaction keeps the session, and its opener knows that it is open,
\* until it ends: COMMIT, ROLLBACK and every teardown path find both.
THEOREM TransactionsKeepTheSession == ServerSpec => []TransactionHeld
<1>1. ServerInv => TransactionHeld
  BY InvariantSays DEF ServerInv
<1> QED BY <1>1, ServerInvariant, PTL

\* A suspended portal keeps the session until its duplex is gone.
THEOREM PortalsKeepTheSession == ServerSpec => []PortalHeld
<1>1. ServerInv => PortalHeld
  BY InvariantSays DEF ServerInv
<1> QED BY <1>1, ServerInvariant, PTL

\* A closed duplex neither holds the session nor waits for it, and no explicit
\* transaction of its is open.
THEOREM TeardownLeavesNothing == ServerSpec => []GoneLeavesNothing
<1>1. ServerInv => GoneLeavesNothing
  BY InvariantSays DEF ServerInv
<1> QED BY <1>1, ServerInvariant, PTL

\* A session operation that close() did not rob runs as the owner, with no client's
\* explicit transaction open and nothing of a client in PGlite.
THEOREM SessionOpsRunAlone == ServerSpec => []SessionOpAlone
<1>1. ServerInv => SessionOpAlone
  <2> SUFFICES ASSUME ServerInv, NEW s \in Ops \ robbed
               PROVE  /\ session[s] # "invariantBroken"
                      /\ session[s] = "running" => /\ isOwner(s) /\ ~busy
                                                   /\ xact \in {"idle", "implicit"}
                                                   /\ xact = "implicit" => DanglingPortal
    BY DEF SessionOpAlone
  <2>1. s \notin Duplexes /\ SessionOK(s)
    BY ServerAssumption DEF ServerInv
  <2>2. ASSUME session[s] = "running"
        PROVE  /\ isOwner(s) /\ ~busy
               /\ xact \in {"idle", "implicit"} /\ (xact = "implicit" => DanglingPortal)
    <3>1. owner = s
      BY <2>1, <2>2 DEF SessionOK
    <3>2. ~busy
      BY <2>1, <3>1, BusyFacts DEF ServerInv
    <3>3. /\ xact = "idle" <=> openedBy = NoOwner
          /\ xact \in {"block", "failed"} => inTransaction(openedBy)
          /\ xact = "implicit" => Gone(openedBy) \/ owner = openedBy
          /\ \A d \in Duplexes : inTransaction(d) => owner = d
          /\ openedBy \in Duplexes \cup {NoOwner}
          /\ xact \in {"idle", "implicit", "block", "failed"}
      BY DEF ServerInv, DuplexInv, XactInv, DuplexTypeOK
    <3>4. xact \notin {"block", "failed"}
      BY <2>1, <3>1, <3>3
    <3>5. xact = "implicit" => Gone(openedBy)
      BY <2>1, <3>1, <3>3
    <3> QED BY <3>1, <3>2, <3>3, <3>4, <3>5 DEF isOwner, DanglingPortal
  <2> QED BY <2>1, <2>2 DEF SessionOK
<1> QED BY <1>1, ServerInvariant, PTL

\* When close() has settled no operation is running but a robbed one, and nothing
\* of a duplex it swept is in PGlite.
THEOREM CloseWaitsForAll == ServerSpec => []CloseWaits
<1>1. ServerInv => CloseWaits
  <2> SUFFICES ASSUME ServerInv, closing = "closed"
               PROVE  /\ sessionOps \subseteq robbed
                      /\ \A d \in awaited : ~isOwner(d) /\ ~Waiting(d)
                      /\ busy => Head(mutex).by \notin awaited
    BY DEF CloseWaits
  <2>1. sessionOps \subseteq robbed /\ awaited \subseteq Duplexes /\ \A d \in awaited : closed[d]
    BY DEF ServerInv, ClosingInv
  <2>2. \A d \in Duplexes : closed[d] => owner # d /\ ~In(waitQueue, d)
    BY DEF ServerInv, DuplexInv, DuplexOK, ClaimOK
  <2>3. busy => Head(mutex).by \notin awaited
    BY <2>1, BusyFacts DEF ServerInv
  <2> QED BY <2>1, <2>2, <2>3 DEF isOwner, Waiting, In
<1> QED BY <1>1, ServerInvariant, PTL
=============================================================================
