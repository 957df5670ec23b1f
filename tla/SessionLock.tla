---------------------------- MODULE SessionLock ----------------------------
(***************************************************************************)
(* The lock that serialises the bridges of one PGlite instance             *)
(* (src/utils/session-lock.ts).  PGlite runs a single PostgreSQL session;  *)
(* a bridge owns it from the moment its acquire() is admitted until the    *)
(* idle ReadyForQuery of its own conversation, its release() or its        *)
(* cancel().  Every method runs to completion without awaiting, so each is *)
(* one atomic action; what takes time is the promise acquire() returned,   *)
(* kept in `acquired'.                                                     *)
(***************************************************************************)
EXTENDS Naturals, Sequences

CONSTANTS Ids,        \* duplex ids (the symbols)
          NoOwner     \* `owner' is undefined

ASSUME NoOwnerAssumption == NoOwner \notin Ids

VARIABLES owner,      \* the id holding the session, or NoOwner
          waitQueue,  \* ids whose acquire() is pending, oldest first
          acquired    \* per id, the state of its latest acquire() promise

lockVars == <<owner, waitQueue, acquired>>

Statuses == {"I", "T", "E"}            \* ReadyForQuery status bytes
PromiseStates == {"none", "waiting", "resolved", "rejected"}

Waiting(id) == \E k \in 1..Len(waitQueue) : waitQueue[k] = id

LockInit == /\ owner = NoOwner
            /\ waitQueue = <<>>
            /\ acquired = [id \in Ids |-> "none"]

-----------------------------------------------------------------------------
\* drainWaitQueue shifts the oldest waiter and makes it the owner before its
\* promise resolves; with nobody waiting the session is free.
Successor == IF waitQueue = <<>> THEN NoOwner ELSE Head(waitQueue)
Successors == IF waitQueue = <<>> THEN <<>> ELSE Tail(waitQueue)
\* Mutant: the owner is cleared and the queue left for a later call to drain.
clearOwner == /\ owner' = NoOwner
              /\ UNCHANGED <<waitQueue, acquired>>
drainWaitQueue == /\ owner' = Successor
                  /\ waitQueue' = Successors
                  /\ acquired' = [i \in Ids |-> IF i = Successor THEN "resolved" ELSE acquired[i]]

\* Mutant: a new waiter is put in front of those already queued.
acquireUnshift(id) ==
    /\ acquired[id] # "waiting"
    /\ \/ /\ owner \in {NoOwner, id}
          /\ owner' = id
          /\ acquired' = [acquired EXCEPT ![id] = "resolved"]
          /\ UNCHANGED waitQueue
       \/ /\ owner \notin {NoOwner, id}
          /\ waitQueue' = <<id>> \o waitQueue
          /\ acquired' = [acquired EXCEPT ![id] = "waiting"]
          /\ UNCHANGED owner

\* A duplex awaits each acquire() before it issues the next, so an id has at
\* most one waiter.
acquire(id) ==
    /\ acquired[id] # "waiting"
    /\ \/ /\ owner \in {NoOwner, id}
          /\ owner' = id
          /\ acquired' = [acquired EXCEPT ![id] = "resolved"]
          /\ UNCHANGED waitQueue
       \/ /\ owner \notin {NoOwner, id}
          /\ waitQueue' = Append(waitQueue, id)
          /\ acquired' = [acquired EXCEPT ![id] = "waiting"]
          /\ UNCHANGED owner

isOwner(id) == owner = id

hold(id) == /\ owner' = IF owner = NoOwner THEN id ELSE owner
            /\ UNCHANGED <<waitQueue, acquired>>

release(id) == IF owner = id THEN drainWaitQueue ELSE UNCHANGED lockVars

updateStatus(id, status) ==
    IF status = "I" /\ owner = id THEN drainWaitQueue ELSE UNCHANGED lockVars

\* The waiters that are left when id's own entry is taken out of q.
Without(q, id) ==
    IF \E k \in 1..Len(q) : q[k] = id
    THEN LET k == CHOOSE k \in 1..Len(q) : q[k] = id
         IN  [i \in 1..(Len(q) - 1) |-> IF i < k THEN q[i] ELSE q[i + 1]]
    ELSE q

\* cancel hands an owned session over first, then rejects what id still waits for.
cancel(id) ==
    /\ owner' = IF owner = id THEN Successor ELSE owner
    /\ waitQueue' = Without(IF owner = id THEN Successors ELSE waitQueue, id)
    /\ acquired' = [i \in Ids |->
                      IF owner = id /\ i = Successor THEN "resolved"
                      ELSE IF i = id /\ acquired[i] = "waiting" THEN "rejected"
                      ELSE acquired[i]]

-----------------------------------------------------------------------------
GivesUp(id) == \/ release(id)
               \/ updateStatus(id, "I")
               \/ cancel(id)

LockNext == \E id \in Ids : \/ acquire(id)
                            \/ hold(id)
                            \/ release(id)
                            \/ cancel(id)
                            \/ \E status \in Statuses : updateStatus(id, status)

LockSpec == LockInit /\ [][LockNext]_lockVars

\* Whoever owns the session eventually gives it up: its operation reaches the
\* idle ReadyForQuery or its duplex is torn down.
LockFairness == \A id \in Ids : WF_lockVars(owner = id /\ GivesUp(id))
FairLockSpec == LockSpec /\ LockFairness

-----------------------------------------------------------------------------
LockTypeOK == /\ owner \in Ids \cup {NoOwner}
              /\ waitQueue \in Seq(Ids)
              /\ acquired \in [Ids -> PromiseStates]

\* Nobody waits for a session that is free: every path that clears the owner
\* hands over in the same step, so no wakeup is lost.
NoLostWakeup == owner = NoOwner => waitQueue = <<>>

\* An acquire() promise is pending exactly while its entry is queued: no
\* promise is forgotten, and no entry outlives its promise.
PendingIffQueued == \A id \in Ids : acquired[id] = "waiting" <=> Waiting(id)

\* The queue holds each bridge once and never the owner, which re-enters
\* without queueing.
WaitOnce == \A i, j \in 1..Len(waitQueue) : waitQueue[i] = waitQueue[j] => i = j
OwnerNeverWaits == ~Waiting(owner)

\* The wait queue, the owner and the pending promises agree.  Each conjunct
\* needs the others to survive a step, which makes LockInv inductive.
ClaimsConsistent == /\ NoLostWakeup
                    /\ PendingIffQueued
                    /\ WaitOnce
                    /\ OwnerNeverWaits

LockInv == LockTypeOK /\ ClaimsConsistent

\* A pending acquire() settles: it is granted, or rejected by its own cancel().
AcquireSettles == \A id \in Ids : acquired[id] = "waiting" ~> acquired[id] # "waiting"

\* The holder and those waiting behind it form one first-come-first-served line.
lockLine == IF owner = NoOwner THEN waitQueue ELSE <<owner>> \o waitQueue
Line == INSTANCE SessionLine WITH line <- lockLine
ImplementsLine == Line!LineSpec
=============================================================================
