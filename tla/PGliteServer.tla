---------------------------- MODULE PGliteServer ----------------------------
(***************************************************************************)
(* The TCP server (src/pglite-server/index.ts): one duplex per socket, and *)
(* the session operations (resetDb, snapshotDb, resetSnapshot) that take   *)
(* the shared session themselves.  Its clients are any program that speaks *)
(* the wire protocol: they pipeline frames as they like, half-close their  *)
(* socket or drop it.                                                      *)
(***************************************************************************)
EXTENDS Duplex

CONSTANTS Ops,       \* session operations: their ids in the lock
          MaxFrames  \* bound on the frames the clients send, all together;
                     \* close() counts as one

ASSUME ServerAssumption == /\ Ops \subseteq Ids /\ Ops \cap Duplexes = {}
                           /\ MaxFrames \in Nat

VARIABLES sent,      \* frames sent so far, and close()
          session,   \* per session operation, where it stands
          closing,   \* close(): "no", "cancelling", "draining", "sweeping", "closed"
          awaited,   \* the session operations, then the duplexes, it waits for
          robbed     \* ghost: operations whose session it cancelled after the grant

closeVars == <<closing, awaited, robbed>>
serverVars == <<duplexVars, sent, session, closeVars>>

ServerInit == /\ DuplexInit
              /\ sent = 0
              /\ session = [s \in Ops |-> "none"]
              /\ closing = "no" /\ awaited = {} /\ robbed = {}

-----------------------------------------------------------------------------
\* socket.pipe(duplex): what the client writes, its half-close, its loss.
Swept(d) == closing = "sweeping" /\ d \in awaited

ClientSends(d) ==
    /\ ~Swept(d) /\ sent < MaxFrames /\ sent' = sent + 1
    /\ \E frame \in Frames \cup {"terminate"} : Write(d, frame)
    /\ UNCHANGED <<session, closeVars>>

ClientHalfCloses(d) == ~Swept(d) /\ End(d) /\ UNCHANGED <<sent, session, closeVars>>

\* The client dropped it, its duplex failed, or close() destroyed it.
SocketCloses(d) == Destroy(d) /\ UNCHANGED <<sent, session, closeVars>>

-----------------------------------------------------------------------------
\* A socket that closed is not asked any more, though its rollback may be pending.
openTransactions == {d \in Duplexes : ~tornDown[d] /\ inTransaction(d)}

\* Fail fast on an open transaction, queue for the session otherwise.
withSession(s) ==
    /\ session[s] = "none" /\ closing = "no"
    /\ \/ /\ openTransactions # {}
          /\ session' = [session EXCEPT ![s] = "refused"]
          /\ UNCHANGED lockVars
       \/ /\ openTransactions = {}
          /\ session' = [session EXCEPT ![s] = "waiting"]
          /\ acquire(s)
    /\ UNCHANGED <<pgliteVars, streamVars, portalVars, sent, closeVars>>

\* The timer fires before the grant; after it, the timer does nothing.
SessionExpires(s) ==
    /\ session[s] = "waiting" /\ acquired[s] = "waiting"
    /\ session' = [session EXCEPT ![s] = "refused"]
    /\ cancel(s)
    /\ UNCHANGED <<pgliteVars, streamVars, portalVars, sent, closeVars>>

\* Mutant of SessionGranted: the operation does not await its acquire.
SessionUnclaimed(s) ==
    /\ session[s] = "waiting"
    /\ session' = [session EXCEPT ![s] =
                     IF openTransactions = {} THEN "running" ELSE "invariantBroken"]
    /\ UNCHANGED <<duplexVars, sent, closeVars>>

\* The grant: transactions are counted once more, then the operation runs.
SessionGranted(s) ==
    /\ session[s] = "waiting" /\ acquired[s] = "resolved"
    /\ session' = [session EXCEPT ![s] =
                     IF openTransactions = {} THEN "running" ELSE "invariantBroken"]
    /\ UNCHANGED <<duplexVars, sent, closeVars>>

SessionDone(s) ==
    /\ session[s] \in {"running", "invariantBroken"}
    /\ session' = [session EXCEPT ![s] = "done"]
    /\ release(s)
    /\ UNCHANGED <<pgliteVars, streamVars, portalVars, sent, closeVars>>

-----------------------------------------------------------------------------
(* close().                                                                 *)

Close == /\ closing = "no" /\ closing' = "cancelling"
         /\ sent < MaxFrames /\ sent' = sent + 1
         /\ UNCHANGED <<duplexVars, session, awaited, robbed>>

\* #sessionWaiters: an operation stays among them until the turn after its grant.
sessionWaiters == {s \in Ops : session[s] = "waiting"} \ robbed
sessionOps == {s \in Ops : session[s] \in {"running", "invariantBroken"}}

\* A waiter is rejected.  One that was granted the session loses it, and runs.
CloseCancels(s) ==
    /\ closing = "cancelling" /\ s \in sessionWaiters
    /\ cancel(s)
    /\ IF isOwner(s) THEN robbed' = robbed \cup {s} /\ UNCHANGED session
       ELSE session' = [session EXCEPT ![s] = "refused"] /\ UNCHANGED robbed
    /\ UNCHANGED <<pgliteVars, streamVars, portalVars, sent, closing, awaited>>

\* Mutant of CloseAwaits: the running operations are not waited for.
CloseAwaitsNone == {}

CloseAwaits == sessionOps

CloseDrains == /\ closing = "cancelling" /\ sessionWaiters = {}
               /\ closing' = "draining" /\ awaited' = CloseAwaits
               /\ UNCHANGED <<duplexVars, sent, session, robbed>>

\* The sockets that are left are destroyed.  One whose duplex is being torn down
\* may have left already.
CloseSweeps ==
    /\ closing = "draining" /\ \A s \in awaited : session[s] = "done"
    /\ closing' = "sweeping"
    /\ \E gone \in SUBSET {d \in Duplexes : tornDown[d]} : awaited' = Duplexes \ gone
    /\ UNCHANGED <<duplexVars, sent, session, robbed>>

\* With every onClose settled, PGlite is closed if the server made it.
CloseDone == /\ closing = "sweeping" /\ \A d \in awaited : closed[d]
             /\ closing' = "closed"
             /\ UNCHANGED <<duplexVars, sent, session, awaited, robbed>>

CloseStep == CloseDrains \/ CloseSweeps \/ CloseDone \/ \E s \in Ops : CloseCancels(s)

-----------------------------------------------------------------------------
SessionStep(s) == SessionGranted(s) \/ SessionDone(s)

\* The cancelling is one turn of the event loop; a closed PGlite runs nothing.
Others ==
    \/ StartJob /\ UNCHANGED <<sent, session, closeVars>>
    \/ FinishJob /\ UNCHANGED <<sent, session, closeVars>>
    \/ \E d \in Duplexes : \/ DuplexStep(d) /\ UNCHANGED <<sent, session, closeVars>>
                           \/ ClientSends(d) \/ ClientHalfCloses(d) \/ SocketCloses(d)
    \/ \E s \in Ops : withSession(s) \/ SessionExpires(s) \/ SessionStep(s)

ServerNext == Close \/ CloseStep \/ (closing \notin {"cancelling", "closed"} /\ Others)

ServerSpec == /\ ServerInit /\ [][ServerNext]_serverVars
              /\ DuplexFairness
              /\ \A s \in Ops : WF_serverVars(SessionStep(s))

-----------------------------------------------------------------------------
ServerTypeOK == DuplexTypeOK /\ sent \in 0..MaxFrames
                /\ session \in [Ops -> {"none", "waiting", "running", "done", "refused",
                                        "invariantBroken"}]
                /\ closing \in {"no", "cancelling", "draining", "sweeping", "closed"}
                /\ awaited \subseteq Duplexes \cup Ops /\ robbed \subseteq Ops

\* "A transaction holds the lock from BEGIN to COMMIT, so none can be open now
\* that we own it": a session operation runs as the owner, with no client's
\* explicit transaction open and none of a client's frames in PGlite.  One that
\* close() robbed of its session between the grant and its first step has no
\* such guarantee.
SessionOpAlone ==
    \A s \in Ops \ robbed :
        /\ session[s] # "invariantBroken"
        /\ session[s] = "running" => /\ isOwner(s) /\ ~busy
                                     /\ xact \in {"idle", "implicit"}
                                     /\ xact = "implicit" => DanglingPortal

\* "One that holds it runs to completion before the PGlite goes away", and so
\* does what the swept sockets had in PGlite (#doClose): when PGlite is closed,
\* no operation is running but a robbed one, and no statement but the last of a
\* client that had left before the sweep.
CloseWaits ==
    closing = "closed" => /\ sessionOps \subseteq robbed
                          /\ \A d \in awaited : ~isOwner(d) /\ ~Waiting(d)
                          /\ busy => Head(mutex).by \notin awaited
=============================================================================
