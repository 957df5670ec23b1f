--------------------------- MODULE SnapshotStore ---------------------------
(***************************************************************************)
(* What snapshotDb, resetDb and resetSnapshot promise.  A caller asks, its *)
(* operation runs when those asked before it have settled, and while one   *)
(* runs nothing else touches the data.  An operation has its whole effect  *)
(* in one step or none at all, whatever fails or crashes; success is       *)
(* reported only after the effect, a failure only without it, but for the  *)
(* two operations that still have work to do when their effect is made.    *)
(* SnapshotManager is shown to implement this specification.               *)
(***************************************************************************)
EXTENDS Naturals

CONSTANTS Calls,    \* the calls, numbered in the order they are made
          Tables, Data

VARIABLES user,     \* the user's data, as a crash would leave it
          saved,    \* the snapshot: {} or a singleton
          ask,      \* per call, what it asks for
          phase     \* per call, how far it got

vars == <<user, saved, ask, phase>>

Asks == {"snapshot", "reset", "resetInSession", "drop"}
Settled == {"ok", "failed", "lost", "refused"}
IsReset(c) == ask[c] \in {"reset", "resetInSession"}

\* Data can be restored while every table it holds still has its columns.
Restorable(snap) == \A s \in snap, t \in Tables :
    s.tables[t].cols > 0 => user.tables[t].cols = s.tables[t].cols

\* Every table is emptied, or refilled if the snapshot holds it.  A sequence is
\* set back if the snapshot recorded a value for it and there is any table.
Restored(snap) ==
    [tables |-> [t \in Tables |->
        [cols |-> user.tables[t].cols,
         rows |-> IF \E s \in snap : s.tables[t].cols > 0
                  THEN (CHOOSE s \in snap : TRUE).tables[t].rows ELSE 0]],
     counter |-> IF /\ \E t \in Tables : user.tables[t].cols > 0
                    /\ \E s \in snap : s.counter > 0
                 THEN (CHOOSE s \in snap : TRUE).counter ELSE user.counter]

Effect(c) ==
    \/ ask[c] = "snapshot" /\ saved' = {user} /\ UNCHANGED user
    \/ IsReset(c) /\ Restorable(saved) /\ user' = Restored(saved) /\ UNCHANGED saved
    \/ ask[c] = "drop" /\ saved' = {} /\ UNCHANGED user

-----------------------------------------------------------------------------
StoreInit == /\ user \in Data /\ saved = {}
             /\ ask \in [Calls -> Asks]
             /\ phase = [c \in Calls |-> "none"]

Ask(c) == /\ phase[c] = "none"
          /\ \E what \in Asks, p \in {"queued", "refused"} :
                /\ ask' = [ask EXCEPT ![c] = what]
                /\ phase' = [phase EXCEPT ![c] = p]
          /\ UNCHANGED <<user, saved>>

Run(c) == /\ phase[c] = "queued"
          /\ \A b \in Calls : b < c => phase[b] \in Settled
          /\ phase' = [phase EXCEPT ![c] = "running"]
          /\ UNCHANGED <<user, saved, ask>>

TakeEffect(c) == /\ phase[c] = "running" /\ Effect(c)
                 /\ phase' = [phase EXCEPT ![c] =
                                IF ask[c] \in {"drop", "reset"} THEN "finishing" ELSE "ok"]
                 /\ UNCHANGED ask

Finish(c) == /\ phase[c] = "finishing"
             /\ phase' = [phase EXCEPT ![c] = "ok"]
             /\ UNCHANGED <<user, saved, ask>>

Fail(c) == /\ phase[c] \in {"running", "finishing"}
           /\ phase' = [phase EXCEPT ![c] = "failed"]
           /\ UNCHANGED <<user, saved, ask>>

\* The process dies; its successor starts with no call outstanding.
Die == /\ phase' = [c \in Calls |-> IF phase[c] \in Settled \cup {"none"}
                                    THEN phase[c] ELSE "lost"]
       /\ UNCHANGED <<user, saved, ask>>

\* The application: it writes, migrates, or drops the snapshot schema itself.
Others == /\ \A c \in Calls : phase[c] \notin {"running", "finishing"}
          /\ user' \in Data /\ saved' \in {saved, {}}
          /\ UNCHANGED <<ask, phase>>

StoreNext == \/ \E c \in Calls : Ask(c) \/ Run(c) \/ TakeEffect(c) \/ Finish(c) \/ Fail(c)
             \/ Die \/ Others

StoreSpec == StoreInit /\ [][StoreNext]_vars
=============================================================================
