------------------------------- MODULE PoolEnd -------------------------------
(***************************************************************************)
(* PgBridgePool.end (src/pool/index.ts) over the clients of PoolClients.   *)
(* pg-pool ends the idle clients at once and the others when they are      *)
(* released; the bridge then waits until the duplex of every client it     *)
(* ever made has been torn down, ten seconds at most, before it gives up   *)
(* the pool's slot on the PGlite instance and closes an instance of its    *)
(* own.                                                                    *)
(***************************************************************************)
EXTENDS PoolClients

VARIABLES ending,   \* end(): "no", "clients", "teardowns", "ended"
          again,    \* a second end(callback): "no", "teardowns", "ended"
          releaseAfterDrain,
          freed,    \* how often the live slot was released
          expired   \* a teardown outlived the drain bound

endVars == <<ending, again, releaseAfterDrain, freed, expired>>

EndInit == /\ PoolInit
           /\ ending = "no" /\ again = "no"
           /\ releaseAfterDrain = FALSE /\ freed = 0 /\ expired = FALSE

-----------------------------------------------------------------------------
\* A client is made for its first checkout.
Made == {d \in Duplexes : lease[d] # 0}

\* pg-pool's clients: totalCount is their number.
Members == {d \in Made : ~removed[d]}

\* Mutant of pendingTeardowns: a client is forgotten when the pool drops it.
teardownsOfMembers == {d \in Members : ~closed[d]}

\* The teardowns of all clients ever made that have not settled.
pendingTeardowns == {d \in Made : ~closed[d]}

\* A call of end() counts as a submission, to bound the model.
Counts == /\ submits < MaxSubmits /\ submits' = submits + 1
          /\ UNCHANGED <<duplexVars, out, lease, leases, removed, active, queue, openedIn>>

\* The first call decides when the slot is released.
end == /\ ending = "no" /\ ending' = "clients" /\ Counts
       /\ LET unused == Members = {} /\ pendingTeardowns = {}
          IN  /\ freed' = IF unused THEN freed + 1 ELSE freed
              /\ releaseAfterDrain' = ~unused
       /\ UNCHANGED <<again, expired>>

\* pg-pool refuses a second call, and with a callback its teardown wait starts
\* at once, whoever still holds a client.
endAgain == /\ ending # "no" /\ again = "no" /\ again' = "teardowns" /\ Counts
            /\ UNCHANGED <<ending, releaseAfterDrain, freed, expired>>

\* The call's own turn: every idle client is ended.
Left == {d \in Members : ending # "no" /\ ~out[d]}
Expel(d) == /\ d \in Left
            /\ clientEnd(d, UNCHANGED <<portalSuspended, portalRecoveryRequested, recovery>>)
            /\ UNCHANGED <<out, queue, endVars>>

\* A client that is released from now on is ended, after the release listener.
ReleaseAtEnd(d) ==
    /\ ending # "no" /\ out[d] /\ MayRelease(d)
    /\ out' = [out EXCEPT ![d] = FALSE]
    /\ clientEnd(d, releaseAbandonedPortalHold(d))
    /\ rollbackAbandonedTransaction(d)
    /\ UNCHANGED endVars

\* pg-pool has no client left; it may learn that later than here.
ClientsGone == /\ ending = "clients" /\ Members = {}
               /\ ending' = "teardowns"
               /\ UNCHANGED <<poolVars, again, releaseAfterDrain, freed, expired>>

\* drainAndClose goes on, for the first call or the second.
Drained == /\ \/ /\ ending = "teardowns" /\ ending' = "ended"
                 /\ freed' = IF releaseAfterDrain THEN freed + 1 ELSE freed
                 /\ UNCHANGED again
              \/ again = "teardowns" /\ again' = "ended" /\ UNCHANGED <<ending, freed>>
           /\ UNCHANGED <<poolVars, releaseAfterDrain>>

TeardownsSettled == pendingTeardowns = {} /\ Drained /\ UNCHANGED expired

\* The bound expires: what is left is destroyed, and nothing waits for that.
DrainExpires == pendingTeardowns # {} /\ Drained /\ expired' = TRUE
Abort(d) == /\ expired /\ d \in pendingTeardowns
            /\ Destroy(d) /\ UNCHANGED <<clientVars, endVars>>

-----------------------------------------------------------------------------
EndStep == end \/ endAgain \/ ClientsGone \/ TeardownsSettled \/ DrainExpires

Going(d) == \/ PoolStep(d) \/ Uses(d)
            \/ ending = "no" /\ (Checkout(d) \/ release_(d))

EndNext == \/ \E d \in Duplexes : Expel(d)
           \/ /\ Left = {}
              /\ \/ EndStep
                 \/ StartJob /\ UNCHANGED <<clientVars, endVars>>
                 \/ \E d \in Duplexes : \/ Going(d) /\ UNCHANGED endVars
                                        \/ ReleaseAtEnd(d) \/ Abort(d)

EndSpec == EndInit /\ [][EndNext]_<<poolVars, endVars>>

-----------------------------------------------------------------------------
\* "No destroy-path ROLLBACK can still be in flight against PGlite": when end()
\* gives up the slot or closes PGlite, no statement of the pool is executing or
\* will, and no transaction is left open but a dangling portal's, unless the
\* drain bound expired; and the slot is given up once.
EndIsBarrier ==
    /\ freed <= 1
    /\ (freed = 1 \/ ending = "ended" \/ again = "ended") /\ ~expired =>
          ~busy /\ (xact = "idle" \/ DanglingPortal)
=============================================================================
