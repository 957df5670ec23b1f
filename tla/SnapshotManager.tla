-------------------------- MODULE SnapshotManager --------------------------
(***************************************************************************)
(* The snapshot operations (src/pglite-bridge/snapshot-manager.ts), one    *)
(* step per statement they send.  They run one after the other, in the     *)
(* order they were called; nothing keeps other users of the session from   *)
(* running statements between theirs.                                      *)
(***************************************************************************)
EXTENDS Database

CONSTANT MaxCalls    \* bound on the calls of all processes together

ASSUME SnapshotAssumption == MaxCalls \in Nat

Calls == 1..MaxCalls

VARIABLES op,     \* per call, the operation
          at,     \* per call, the statement it is about to send
          tables, \* per call, the tables it still has to copy, or found live
          plan,   \* per call, the tables it still has to refill
          had     \* per call, whether it found a snapshot

managerVars == <<op, at, tables, plan, had>>

Operations == {"snapshot", "reset", "resetInSession", "drop"}
Settled == {"ok", "failed", "lost", "refused"}
SnapshotSteps == {"sweep", "beginCopy", "create", "list", "copy", "copySequences",
                  "dropOld", "rename", "commitCopy", "rollbackCopy", "tidy"}
ResetSteps == {"look", "getTables", "plan", "begin", "truncate", "refill", "setval",
               "commit", "rollback", "scrub"}
DropSteps == {"drop", "dropStaging"}
Steps == SnapshotSteps \cup ResetSteps \cup DropSteps
Running(c) == at[c] \in Steps

ManagerInit == /\ op = [c \in Calls |-> "snapshot"]
               /\ at = [c \in Calls |-> "none"]
               /\ tables = [c \in Calls |-> {}]
               /\ plan = [c \in Calls |-> {}]
               /\ had = [c \in Calls |-> FALSE]

-----------------------------------------------------------------------------
\* A public operation joins the chain.
enqueue(c, operation) == /\ op' = [op EXCEPT ![c] = operation]
                         /\ at' = [at EXCEPT ![c] = "queued"]
                         /\ UNCHANGED <<tables, plan, had>>

FirstStep(operation) == CASE operation = "snapshot" -> "sweep"
                          [] operation = "drop" -> "drop"
                          [] OTHER -> "look"

Move(c, from, to) == at[c] = from /\ at' = [at EXCEPT ![c] = to]

Begins(c) == /\ Move(c, "queued", FirstStep(op[c]))
             /\ UNCHANGED <<dbVars, op, tables, plan, had>>

\* The chain: an operation begins when those before it settled, either way.
serialize(c) == /\ \A b \in Calls : b < c => at[b] \in Settled
                /\ Begins(c)

-----------------------------------------------------------------------------
(* snapshotDb: built under a staging schema, swapped into place at COMMIT.  *)

\* Mutant of sweep: a leftover of an earlier build is not looked for.
sweepNothing(c) == /\ Move(c, "sweep", "beginCopy")
                   /\ Reads /\ UNCHANGED <<op, tables, plan, had>>

sweep(c) == /\ Move(c, "sweep", "beginCopy")
            /\ Exec([mem EXCEPT !.staging = NoSchema])
            /\ UNCHANGED <<op, tables, plan, had>>

\* Mutant of beginCopy: the copy is made outside a transaction block.
beginNoCopy(c) == /\ Move(c, "beginCopy", "create")
                  /\ Reads /\ UNCHANGED <<op, tables, plan, had>>

beginCopy(c) == /\ Move(c, "beginCopy", "create")
                /\ Begin /\ UNCHANGED <<op, tables, plan, had>>

\* CREATE SCHEMA fails if the schema is there.
create(c) == /\ mem.staging = NoSchema
             /\ Move(c, "create", "list")
             /\ Exec([mem EXCEPT !.staging = {EmptyDatabase}])
             /\ UNCHANGED <<op, tables, plan, had>>

LiveTables == {t \in Tables : Exists(mem.user, t)}

list(c) == /\ Move(c, "list", "copy") /\ Reads
           /\ tables' = [tables EXCEPT ![c] = LiveTables]
           /\ UNCHANGED <<op, plan, had>>

copy(c) ==
    \/ \E t \in tables[c] :
          /\ at[c] = "copy" /\ UNCHANGED at
          /\ tables' = [tables EXCEPT ![c] = @ \ {t}]
          /\ Exec([mem EXCEPT !.staging =
                     {[s EXCEPT !.tables[t] = mem.user.tables[t]] : s \in mem.staging}])
          /\ UNCHANGED <<op, plan, had>>
    \/ /\ tables[c] = {}
       /\ Move(c, "copy", "copySequences") /\ Reads
       /\ UNCHANGED <<op, tables, plan, had>>

copySequences(c) ==
    /\ Move(c, "copySequences", "dropOld")
    /\ Exec([mem EXCEPT !.staging = {[s EXCEPT !.counter = mem.user.counter] : s \in mem.staging}])
    /\ UNCHANGED <<op, tables, plan, had>>

dropOld(c) == /\ Move(c, "dropOld", "rename")
              /\ Exec([mem EXCEPT !.snapshot = NoSchema])
              /\ UNCHANGED <<op, tables, plan, had>>

rename(c) == /\ Move(c, "rename", "commitCopy")
             /\ Exec([mem EXCEPT !.snapshot = mem.staging, !.staging = NoSchema])
             /\ UNCHANGED <<op, tables, plan, had>>

commitCopy(c) == /\ Move(c, "commitCopy", "ok")
                 /\ Commit /\ UNCHANGED <<op, tables, plan, had>>

rollbackCopy(c) == /\ Move(c, "rollbackCopy", "tidy")
                   /\ Rollback
                   /\ tables' = [tables EXCEPT ![c] = {}]
                   /\ UNCHANGED <<op, plan, had>>

tidy(c) == /\ Move(c, "tidy", "failed")
           /\ Exec([mem EXCEPT !.staging = NoSchema])
           /\ UNCHANGED <<op, tables, plan, had>>

snapshotDb(c) == \/ sweep(c) \/ beginCopy(c) \/ create(c) \/ list(c) \/ copy(c)
                 \/ copySequences(c) \/ dropOld(c) \/ rename(c) \/ commitCopy(c)
                 \/ rollbackCopy(c) \/ tidy(c)
-----------------------------------------------------------------------------
(* resetSnapshot: two statements, durable one by one.                       *)

resetSnapshot(c) ==
    /\ \/ Move(c, "drop", "dropStaging") /\ Exec([mem EXCEPT !.snapshot = NoSchema])
       \/ Move(c, "dropStaging", "ok") /\ Exec([mem EXCEPT !.staging = NoSchema])
    /\ UNCHANGED <<op, tables, plan, had>>
-----------------------------------------------------------------------------
(* resetDb: truncate, refill from the snapshot, then scrub the session.     *)

snapshotSchemaExists(c) == /\ Move(c, "look", "getTables") /\ Reads
                           /\ had' = [had EXCEPT ![c] = mem.snapshot # NoSchema]
                           /\ UNCHANGED <<op, tables, plan>>

getTables(c) == /\ Move(c, "getTables", "plan") /\ Reads
                /\ tables' = [tables EXCEPT ![c] = LiveTables]
                /\ UNCHANGED <<op, plan, had>>

\* Mutant of AfterRestore: the caller's scrubSession option is not looked at.
alwaysScrub(c) == "scrub"

AfterRestore(c) == IF op[c] = "reset" THEN "scrub" ELSE "ok"

\* What the snapshot holds of table t, {} if it does not hold it.
Saved(t) == {s.tables[t] : s \in {s \in mem.snapshot : Exists(s, t)}}

\* A table or a column that the snapshot holds is gone.
Drifted == \E t \in Tables : \E s \in Saved(t) : mem.user.tables[t].cols < s.cols

\* Drift is reported before anything is truncated, SNAPSHOT_INVALID.
restorePlan(c) ==
    /\ had[c] => ~closed
    /\ UNCHANGED dbVars
    /\ \/ /\ had[c] /\ Drifted
          /\ Move(c, "plan", "failed")
          /\ tables' = [tables EXCEPT ![c] = {}]
          /\ UNCHANGED <<op, plan, had>>
       \/ /\ ~(had[c] /\ Drifted)
          /\ Move(c, "plan", IF tables[c] = {} THEN AfterRestore(c) ELSE "begin")
          /\ plan' = [plan EXCEPT ![c] = IF had[c] THEN {t \in Tables : Saved(t) # {}} ELSE {}]
          /\ UNCHANGED <<op, tables, had>>

\* Mutant of beginRestore: the restore runs outside a transaction block.
beginNoRestore(c) == /\ Move(c, "begin", "truncate")
                     /\ Reads /\ UNCHANGED <<op, tables, plan, had>>

\* BEGIN, and the bypass of foreign keys and triggers until the block ends.
beginRestore(c) == /\ Move(c, "begin", "truncate")
                   /\ Begin /\ UNCHANGED <<op, tables, plan, had>>

truncate(c) ==
    /\ Move(c, "truncate", "refill")
    /\ Exec([mem EXCEPT !.user.tables =
               [t \in Tables |-> IF t \in tables[c] THEN [@[t] EXCEPT !.rows = 0] ELSE @[t]]])
    /\ tables' = [tables EXCEPT ![c] = {}]
    /\ UNCHANGED <<op, plan, had>>

\* The insert names the live columns; one added since the snapshot makes it fail.
Fits(t) == \A s \in Saved(t) : mem.user.tables[t].cols <= s.cols

refill(c) ==
    \/ \E t \in plan[c] :
          /\ at[c] = "refill" /\ Fits(t) /\ UNCHANGED at
          /\ \E s \in Saved(t) : Exec([mem EXCEPT !.user.tables[t].rows = s.rows])
          /\ plan' = [plan EXCEPT ![c] = @ \ {t}]
          /\ UNCHANGED <<op, tables, had>>
    \/ /\ plan[c] = {}
       /\ Move(c, "refill", IF had[c] THEN "setval" ELSE "commit") /\ Reads
       /\ had' = [had EXCEPT ![c] = FALSE]
       /\ UNCHANGED <<op, tables, plan>>

\* Only a sequence that had been used is in the snapshot.
setval(c) ==
    /\ Move(c, "setval", "commit")
    /\ Exec([mem EXCEPT !.user.counter =
               IF \E s \in mem.snapshot : s.counter > 0
               THEN (CHOOSE s \in mem.snapshot : TRUE).counter ELSE @])
    /\ UNCHANGED <<op, tables, plan, had>>

commitRestore(c) == /\ Move(c, "commit", AfterRestore(c))
                    /\ Commit /\ UNCHANGED <<op, tables, plan, had>>

rollbackRestore(c) == /\ Move(c, "rollback", "failed")
                      /\ Rollback
                      /\ plan' = [plan EXCEPT ![c] = {}]
                      /\ tables' = [tables EXCEPT ![c] = {}]
                      /\ UNCHANGED <<op, had>>

scrub(c) == /\ Move(c, "scrub", "ok") /\ ~closed
            /\ settings' = "default"
            /\ UNCHANGED <<disk, mem, xact, closed, op, tables, plan, had>>

resetDb(c) == \/ snapshotSchemaExists(c) \/ getTables(c) \/ restorePlan(c)
              \/ beginRestore(c) \/ truncate(c) \/ refill(c) \/ setval(c)
              \/ commitRestore(c) \/ rollbackRestore(c) \/ scrub(c)
-----------------------------------------------------------------------------
(* Failure.                                                                 *)

\* Where a statement that throws leads: past a BEGIN, to its ROLLBACK.
OnError(step) ==
    CASE step \in {"beginCopy", "create", "list", "copy", "copySequences", "dropOld",
                   "rename", "commitCopy"} -> "rollbackCopy"
      [] step \in {"begin", "truncate", "refill", "setval", "commit"} -> "rollback"
      [] OTHER -> "failed"

\* Statements that the state of the database makes fail.
Throws(c) == \/ closed /\ (at[c] = "plan" => had[c])
             \/ at[c] = "create" /\ mem.staging # NoSchema
             \/ at[c] = "refill" /\ \E t \in plan[c] : ~Fits(t)

statementFails(c) == /\ Running(c)
                     /\ at' = [at EXCEPT ![c] = OnError(@)]
                     /\ tables' = [tables EXCEPT ![c] = {}]
                     /\ plan' = [plan EXCEPT ![c] = {}]
                     /\ had' = [had EXCEPT ![c] = FALSE]
                     /\ UNCHANGED <<dbVars, op>>

\* The process dies with what it had outstanding.
loseCalls == /\ at' = [c \in Calls |-> IF at[c] \in Settled \cup {"none"} THEN at[c] ELSE "lost"]
             /\ tables' = [c \in Calls |-> {}]
             /\ plan' = [c \in Calls |-> {}]
             /\ had' = [c \in Calls |-> FALSE]
             /\ UNCHANGED op

ManagerStep(c) == serialize(c) \/ snapshotDb(c) \/ resetSnapshot(c) \/ resetDb(c)

ManagerTypeOK == /\ op \in [Calls -> Operations]
                 /\ at \in [Calls -> Steps \cup Settled \cup {"none", "queued"}]
                 /\ tables \in [Calls -> SUBSET Tables]
                 /\ plan \in [Calls -> SUBSET Tables]
                 /\ had \in [Calls -> BOOLEAN]
=============================================================================
