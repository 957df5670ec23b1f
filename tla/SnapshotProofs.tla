--------------------------- MODULE SnapshotProofs ---------------------------
(***************************************************************************)
(* Proof that the snapshot operations implement SnapshotStore: whatever    *)
(* fails, closes or dies between their statements, each has its whole      *)
(* effect on what a crash would leave, or none.                            *)
(***************************************************************************)
EXTENDS PGliteBridgeProofs

-----------------------------------------------------------------------------
(* The invariant. *)

\* A table that does not exist has no rows, and there is one snapshot at most.
WellFormed(data) == \A t \in Tables : Exists(data, t) \/ data.tables[t] = NoTable
\* A schema that exists has one content.
AtMostOne(snap) == \A s, r \in snap : s = r

\* What holds of the data whoever runs; what nobody commits, nobody has.
DataInv == /\ WellFormed(mem.user) /\ WellFormed(disk.user)
           /\ AtMostOne(mem.snapshot) /\ AtMostOne(disk.snapshot)
           /\ ~SomeRunning => mem.snapshot = disk.snapshot

\* snapshotDb between its BEGIN and its COMMIT: the user's data stays as it is,
\* and the staging schema has it as far as it is copied.
Copied(c, s) == \A t \in Tables \ tables[c] : s.tables[t] = mem.user.tables[t]

\* The copy of call c, statement by statement.
CopyOf(c) ==
    ~closed =>
       /\ at[c] \in Copying \cup {"commitCopy"} => mem.user = disk.user
       /\ at[c] = "list" => mem.staging = {EmptyDatabase}
       /\ at[c] = "copy" => \E s \in Data : mem.staging = {s} /\ Copied(c, s)
       /\ at[c] = "copySequences" => \E s \in Data : /\ mem.staging = {s}
                                                     /\ s.tables = mem.user.tables
       /\ at[c] \in {"dropOld", "rename"} => mem.staging = {mem.user}
       /\ at[c] = "commitCopy" => mem.snapshot = {mem.user}

\* The snapshot holds table t.
Held(t) == \E s \in mem.snapshot : Exists(s, t)

\* What a restore sets out with.
Planned(c) == /\ ~Drifted /\ LiveTables # {} /\ tables[c] = LiveTables
              /\ plan[c] = {t \in Tables : Held(t)}

\* What it has done to table t: emptied it, or refilled it if its turn has come.
Refilled(c, t) ==
    /\ mem.user.tables[t].cols = disk.user.tables[t].cols
    /\ ~Held(t) => mem.user.tables[t].rows = 0
    /\ \A s \in mem.snapshot : Exists(s, t) /\ t \notin plan[c] =>
          mem.user.tables[t].cols = s.tables[t].cols /\ mem.user.tables[t].rows = s.tables[t].rows

\* The value that the sequence is set back to.
RestoredCounter(snap, counter) ==
    IF \E s \in snap : s.counter > 0 THEN (CHOOSE s \in snap : TRUE).counter ELSE counter

\* The restore of call c, statement by statement.
RestoreOf(c) ==
    /\ at[c] \in {"getTables", "plan", "begin"} => had[c] = (mem.snapshot # {})
    /\ at[c] = "plan" => tables[c] = LiveTables
    /\ at[c] = "begin" => Planned(c)
    /\ ~closed =>
          /\ at[c] \in {"truncate", "refill"} => had[c] = (mem.snapshot # {})
          /\ at[c] = "truncate" => Planned(c) /\ mem = disk
          /\ at[c] \in {"refill", "setval", "commit"} =>
                /\ mem.snapshot = disk.snapshot
                /\ ~Drifted /\ LiveTables # {}
                /\ \A t \in Tables : Refilled(c, t)
          /\ at[c] \in {"refill", "setval"} => mem.user.counter = disk.user.counter
          /\ at[c] = "refill" => \A t \in plan[c] : Held(t)
          /\ at[c] \in {"setval", "commit"} => plan[c] = {}
          /\ at[c] = "commit" =>
                mem.user.counter = RestoredCounter(disk.snapshot, disk.user.counter)

\* The work of every call is as far as its statements went.
WorkInv == \A c \in Calls : CopyOf(c) /\ RestoreOf(c)

\* A call that does not run promises nothing.
LEMMA IdlePromisesNothing ==
    ASSUME NEW c, ~Running(c)
    PROVE  CopyOf(c) /\ RestoreOf(c)
BY DEF Running, Steps, SnapshotSteps, ResetSteps, CopyOf, RestoreOf, Copying

\* Nor does one that stops running.
LEMMA IdlePromisesNothingNext ==
    ASSUME NEW c, ~Running(c)'
    PROVE  CopyOf(c)' /\ RestoreOf(c)'
BY DEF Running, Steps, SnapshotSteps, ResetSteps, CopyOf, RestoreOf, Copying

\* The model's view of the snapshot, table by table.
LEMMA SavedHeld ==
    /\ \A t : Saved(t) = {} <=> ~Held(t)
    /\ \A t, x : x \in Saved(t) <=> \E s \in mem.snapshot : Exists(s, t) /\ x = s.tables[t]
BY DEF Saved, Held

\* Drift and fit in terms of what the snapshot holds.
LEMMA DriftedHeld ==
    /\ Drifted <=> \E t \in Tables, s \in mem.snapshot :
                      Exists(s, t) /\ mem.user.tables[t].cols < s.tables[t].cols
    /\ \A t : Fits(t) <=> \A s \in mem.snapshot :
                             Exists(s, t) => mem.user.tables[t].cols <= s.tables[t].cols
BY SavedHeld DEF Drifted, Fits

\* A step that leaves the calls and what they see alone.
LEMMA WorkKept ==
    ASSUME WorkInv, UNCHANGED <<mem, disk, closed, at, tables, plan, had>>
    PROVE  WorkInv'
BY DEF WorkInv, CopyOf, RestoreOf, Copied, Planned, Refilled, Held, Drifted, Saved, LiveTables,
       Fits, RestoredCounter

\* A step of anyone else, when no operation runs.
LEMMA OthersKeepWork ==
    ASSUME \A c \in Calls : ~Running(c)'
    PROVE  WorkInv'
BY IdlePromisesNothingNext DEF WorkInv
-----------------------------------------------------------------------------
(* The statements keep their promises. *)

\* What the session's invariant says of a call that runs.
LEMMA RunningInBlock ==
    ASSUME SessionInv, NEW c \in Calls
    PROVE  /\ at[c] \in InBlock => xact \/ closed
           /\ Running(c) /\ at[c] \notin InBlock \cup RollingBack => ~xact /\ mem = disk
           /\ ~xact => mem = disk
BY DEF SessionInv, BlocksOwned

\* What an exec leaves, part by part.
LEMMA StoresParts ==
    ASSUME NEW u, NEW s, NEW r, NEW h, Stores(u, s, r, h)
    PROVE  /\ mem'.user = u /\ mem'.snapshot = s /\ mem'.staging = r
           /\ ~closed /\ ~closed' /\ disk' = IF xact THEN disk ELSE mem'
BY DEF Stores

\* What the writes to the snapshot schemas leave.
LEMMA ExecParts ==
    ASSUME DbTypeOK, NEW x,
           \/ Exec([mem EXCEPT !.staging = x])
           \/ Exec([mem EXCEPT !.snapshot = x])
           \/ Exec([mem EXCEPT !.snapshot = mem.staging, !.staging = x])
    PROVE  /\ mem'.user = mem.user
           /\ ~closed /\ ~closed' /\ disk' = IF xact THEN disk ELSE mem'
           /\ Exec([mem EXCEPT !.staging = x]) => mem'.snapshot = mem.snapshot /\ mem'.staging = x
           /\ Exec([mem EXCEPT !.snapshot = x]) => mem'.snapshot = x /\ mem'.staging = mem.staging
           /\ Exec([mem EXCEPT !.snapshot = mem.staging, !.staging = x])
                 => mem'.snapshot = mem.staging /\ mem'.staging = x
<1>1. /\ Exec([mem EXCEPT !.staging = x])
           => Stores(mem.user, mem.snapshot, x, mem.history)
      /\ Exec([mem EXCEPT !.snapshot = x])
           => Stores(mem.user, x, mem.staging, mem.history)
      /\ Exec([mem EXCEPT !.snapshot = mem.staging, !.staging = x])
           => Stores(mem.user, mem.staging, x, mem.history)
  BY ExecStores
<1> QED BY <1>1, StoresParts

\* What a move, and an update of one call's books, assign.
LEMMA Moves ==
    ASSUME TypeOK, NEW c \in Calls
    PROVE  /\ \A from, to : Move(c, from, to) => at[c] = from /\ at'[c] = to
           /\ \A ts : tables' = [tables EXCEPT ![c] = ts] => tables'[c] = ts
           /\ \A ts : plan' = [plan EXCEPT ![c] = ts] => plan'[c] = ts
           /\ \A b : had' = [had EXCEPT ![c] = b] => had'[c] = b
BY TypeParts DEF ManagerTypeOK, Move

\* The copy keeps up with the statements of snapshotDb.
LEMMA SnapshotDbWorks ==
    ASSUME TypeOK, SessionInv, DataInv, WorkInv, NEW c \in Calls, snapshotDb(c)
    PROVE  /\ CopyOf(c)' /\ RestoreOf(c)'
           /\ WellFormed(mem'.user) /\ AtMostOne(mem'.snapshot)
<1> USE Moves
<1>1. DbTypeOK /\ ManagerTypeOK
  BY TypeParts
<1>2. mem.user \in Data /\ mem.staging \in SUBSET Data
  BY <1>1, MemTypes
<1>3. WellFormed(mem.user) /\ WellFormed(disk.user) /\ AtMostOne(mem.snapshot)
      /\ AtMostOne(disk.snapshot) /\ AtMostOne(NoSchema)
  BY DEF DataInv, AtMostOne, NoSchema
<1>4. CopyOf(c)
  BY DEF WorkInv
<1>5. at[c] \in Copying => xact \/ closed
  BY RunningInBlock DEF InBlock
<1>6. RestoreOf(c)'
  <2>1. at'[c] \in SnapshotSteps \cup {"ok", "failed"}
    BY DEF snapshotDb, sweep, beginCopy, create, list, copy, copySequences, dropOld, rename,
           commitCopy, rollbackCopy, tidy, SnapshotSteps
  <2> QED BY <2>1 DEF RestoreOf, SnapshotSteps
<1>7. CASE sweep(c) \/ tidy(c)
  <2>1. mem'.user = mem.user /\ mem'.snapshot = mem.snapshot
    BY <1>1, <1>7, ExecParts DEF sweep, tidy
  <2>2. at'[c] \in {"beginCopy", "failed"}
    BY <1>7 DEF sweep, tidy
  <2> QED BY <1>3, <1>6, <2>1, <2>2 DEF CopyOf, Copying
<1>8. CASE beginCopy(c)
  <2>1. at[c] = "beginCopy" /\ at'[c] = "create" /\ UNCHANGED <<mem, disk>>
    BY <1>8 DEF beginCopy, Begin
  <2>2. mem = disk
    BY <2>1, RunningInBlock
       DEF Running, Steps, SnapshotSteps, InBlock, RollingBack, Copying, Restoring
  <2> QED BY <1>3, <1>6, <2>1, <2>2 DEF CopyOf
<1>9. CASE create(c)
  <2>1. at[c] = "create" /\ at'[c] = "list"
    BY <1>9 DEF create
  <2>2. /\ mem'.user = mem.user /\ mem'.snapshot = mem.snapshot /\ mem'.staging = {EmptyDatabase}
        /\ ~closed /\ disk' = IF xact THEN disk ELSE mem'
    BY <1>1, <1>9, ExecParts DEF create
  <2> QED BY <1>3, <1>4, <1>5, <1>6, <2>1, <2>2 DEF CopyOf, Copying
<1>10. CASE list(c)
  <2>1. /\ at[c] = "list" /\ at'[c] = "copy" /\ tables'[c] = LiveTables
        /\ ~closed /\ UNCHANGED <<mem, disk>>
    BY <1>10 DEF list, Reads, dbVars
  <2>2. EmptyDatabase \in Data /\ mem.staging = {EmptyDatabase}
    BY <1>2, <1>4, <2>1 DEF CopyOf
  <2>3. \A t \in Tables \ LiveTables : EmptyDatabase.tables[t] = mem.user.tables[t]
    BY <1>3 DEF LiveTables, WellFormed, EmptyDatabase
  <2>4. Copied(c, EmptyDatabase)'
    BY <2>1, <2>3 DEF Copied, EmptyDatabase
  <2> QED BY <1>3, <1>4, <1>6, <2>1, <2>2, <2>4 DEF CopyOf, Copying
<1>11. CASE copy(c)
  <2>1. at[c] = "copy" /\ ~closed
    BY <1>11 DEF copy, Exec, Reads
  <2>2. PICK s \in Data : mem.staging = {s} /\ Copied(c, s)
    BY <1>4, <2>1 DEF CopyOf
  <2>3. mem.user = disk.user /\ xact
    BY <1>4, <1>5, <2>1 DEF CopyOf, Copying
  <2>4. ASSUME NEW t \in tables[c], UNCHANGED at,
               tables' = [tables EXCEPT ![c] = tables[c] \ {t}],
               Exec([mem EXCEPT !.staging =
                     {[r EXCEPT !.tables[t] = mem.user.tables[t]] : r \in mem.staging}])
        PROVE  CopyOf(c)' /\ mem'.user = mem.user /\ mem'.snapshot = mem.snapshot
    <3> DEFINE copied == [s EXCEPT !.tables[t] = mem.user.tables[t]]
    <3>1. t \in Tables
      BY <1>1 DEF ManagerTypeOK
    <3>2. /\ copied \in Data
          /\ \A x \in Tables : copied.tables[x] = IF x = t THEN mem.user.tables[t] ELSE s.tables[x]
      BY <1>2, <3>1, DataTypes DEF Data, TableContents
    <3>3. {[r EXCEPT !.tables[t] = mem.user.tables[t]] : r \in mem.staging} = {copied}
      BY <2>2
    <3> HIDE DEF copied
    <3>4. Exec([mem EXCEPT !.staging = {copied}])
      BY <2>4, <3>3
    <3>5. /\ mem'.user = mem.user /\ mem'.snapshot = mem.snapshot /\ mem'.staging = {copied}
          /\ disk' = disk
      BY <1>1, <2>3, <3>4, ExecParts
    <3>6. tables'[c] = tables[c] \ {t} /\ at'[c] = "copy"
      BY <2>1, <2>4
    <3>7. \A r : r = copied => Copied(c, r)'
      <4>1. \A x \in Tables \ tables'[c] : copied.tables[x] = mem.user.tables[x]
        BY <2>2, <3>2, <3>6 DEF Copied
      <4> QED BY <3>5, <4>1 DEF Copied
    <3> QED BY <2>3, <3>2, <3>5, <3>6, <3>7 DEF CopyOf
  <2>5. CASE tables[c] = {} /\ Move(c, "copy", "copySequences") /\ Reads
             /\ UNCHANGED <<op, tables, plan, had>>
    <3>1. at'[c] = "copySequences" /\ UNCHANGED <<mem, disk>>
      BY <2>5 DEF Reads, dbVars
    <3>2. s.tables = mem.user.tables
      <4>1. /\ s.tables \in [Tables -> TableContents]
            /\ mem.user.tables \in [Tables -> TableContents]
        BY <1>2, DataTypes
      <4>2. \A t \in Tables : s.tables[t] = mem.user.tables[t]
        BY <2>2, <2>5 DEF Copied
      <4> QED BY <4>1, <4>2
    <3> QED BY <1>3, <1>6, <2>2, <2>3, <3>1, <3>2 DEF CopyOf
  <2> QED BY <1>3, <1>6, <1>11, <2>4, <2>5 DEF copy
<1>12. CASE copySequences(c)
  <2>1. at[c] = "copySequences" /\ at'[c] = "dropOld" /\ ~closed
    BY <1>12 DEF copySequences, Exec
  <2>2. PICK s \in Data : mem.staging = {s} /\ s.tables = mem.user.tables
    BY <1>4, <2>1 DEF CopyOf
  <2>3. mem.user = disk.user /\ xact
    BY <1>4, <1>5, <2>1 DEF CopyOf, Copying
  <2>4. [s EXCEPT !.counter = mem.user.counter] = mem.user
    BY <1>2, <2>2 DEF Data
  <2>5. {[r EXCEPT !.counter = mem.user.counter] : r \in mem.staging} = {mem.user}
    BY <2>2, <2>4
  <2>6. /\ mem'.user = mem.user /\ mem'.snapshot = mem.snapshot /\ mem'.staging = {mem.user}
        /\ disk' = disk
    <3>1. Exec([mem EXCEPT !.staging = {mem.user}])
      BY <1>12, <2>5 DEF copySequences
    <3> QED BY <1>1, <2>3, <3>1, ExecParts
  <2> QED BY <1>3, <1>6, <2>1, <2>3, <2>6 DEF CopyOf
<1>13. CASE dropOld(c)
  <2>1. at[c] = "dropOld" /\ at'[c] = "rename" /\ ~closed
    BY <1>13 DEF dropOld, Exec
  <2>2. mem.user = disk.user /\ mem.staging = {mem.user} /\ xact
    BY <1>4, <1>5, <2>1 DEF CopyOf, Copying
  <2>3. /\ mem'.user = mem.user /\ mem'.snapshot = NoSchema /\ mem'.staging = mem.staging
        /\ disk' = disk
    BY <1>1, <1>13, <2>2, ExecParts DEF dropOld
  <2> QED BY <1>3, <1>6, <2>1, <2>2, <2>3 DEF CopyOf
<1>14. CASE rename(c)
  <2>1. at[c] = "rename" /\ at'[c] = "commitCopy" /\ ~closed
    BY <1>14 DEF rename, Exec
  <2>2. mem.user = disk.user /\ mem.staging = {mem.user} /\ xact
    BY <1>4, <1>5, <2>1 DEF CopyOf, Copying
  <2>3. mem'.user = mem.user /\ mem'.snapshot = mem.staging /\ disk' = disk
    BY <1>1, <1>14, <2>2, ExecParts DEF rename
  <2> QED BY <1>3, <1>6, <2>1, <2>2, <2>3 DEF CopyOf, AtMostOne, Copying
<1>15. CASE commitCopy(c)
  <2>1. at'[c] = "ok" /\ mem' = mem
    BY <1>15 DEF commitCopy, Commit
  <2> QED BY <1>3, <1>6, <2>1 DEF CopyOf, Copying
<1>16. CASE rollbackCopy(c)
  <2>1. at'[c] = "tidy" /\ mem' = disk
    BY <1>16 DEF rollbackCopy, Rollback
  <2> QED BY <1>3, <1>6, <2>1 DEF CopyOf, Copying
<1> QED BY <1>7, <1>8, <1>9, <1>10, <1>11, <1>12, <1>13, <1>14, <1>15, <1>16 DEF snapshotDb

\* resetSnapshot leaves the user's data alone.
LEMMA ResetSnapshotWorks ==
    ASSUME TypeOK, DataInv, NEW c \in Calls, resetSnapshot(c)
    PROVE  /\ CopyOf(c)' /\ RestoreOf(c)'
           /\ WellFormed(mem'.user) /\ AtMostOne(mem'.snapshot)
<1>1. at'[c] \in {"dropStaging", "ok"}
  BY Moves DEF resetSnapshot
<1>2. mem'.user = mem.user /\ mem'.snapshot \in {mem.snapshot, NoSchema}
  BY TypeParts, ExecParts DEF resetSnapshot
<1>3. CopyOf(c)' /\ RestoreOf(c)'
  BY <1>1 DEF CopyOf, RestoreOf, Copying
<1> QED BY <1>2, <1>3 DEF DataInv, AtMostOne, NoSchema

\* resetDb finds out what there is to do.
LEMMA PlanningWorks ==
    ASSUME TypeOK, SessionInv, WorkInv, NEW c \in Calls,
           snapshotSchemaExists(c) \/ getTables(c) \/ restorePlan(c) \/ beginRestore(c)
    PROVE  RestoreOf(c)' /\ mem' = mem
<1> USE Moves
<1>1. RestoreOf(c)
  BY DEF WorkInv
<1>2. CASE snapshotSchemaExists(c)
  BY <1>2 DEF snapshotSchemaExists, Reads, dbVars, NoSchema, RestoreOf
<1>3. CASE getTables(c)
  BY <1>1, <1>3 DEF getTables, Reads, dbVars, RestoreOf, LiveTables
<1>4. CASE restorePlan(c)
  <2>1. at[c] = "plan" /\ UNCHANGED <<mem, disk>>
    BY <1>4 DEF restorePlan, dbVars
  <2>2. had[c] = (mem.snapshot # {}) /\ tables[c] = LiveTables
    BY <1>1, <2>1 DEF RestoreOf
  <2>3. CASE at'[c] \in {"failed", "scrub", "ok"}
    BY <2>1, <2>3 DEF RestoreOf
  <2>4. CASE at'[c] \notin {"failed", "scrub", "ok"}
    <3>1. /\ ~(had[c] /\ Drifted) /\ tables[c] # {} /\ at'[c] = "begin"
          /\ plan'[c] = IF had[c] THEN {t \in Tables : Saved(t) # {}} ELSE {}
          /\ UNCHANGED <<tables, had>>
      BY <1>4, <2>4 DEF restorePlan, AfterRestore
    <3>2. ~Drifted
      BY <2>2, <3>1, DriftedHeld
    <3>3. plan'[c] = {t \in Tables : Held(t)}
      BY <2>2, <3>1, SavedHeld DEF Held
    <3>4. Planned(c)'
      BY <2>1, <2>2, <3>1, <3>2, <3>3 DEF Planned, Drifted, Saved, LiveTables, Held
    <3> QED BY <2>1, <2>2, <3>1, <3>4 DEF RestoreOf
  <2> QED BY <2>1, <2>3, <2>4
<1>5. CASE beginRestore(c)
  <2>1. /\ at[c] = "begin" /\ at'[c] = "truncate" /\ UNCHANGED <<mem, disk, tables, plan, had>>
    BY <1>5 DEF beginRestore, Begin
  <2>2. mem = disk
    BY <2>1, RunningInBlock
       DEF Running, Steps, ResetSteps, InBlock, RollingBack, Copying, Restoring
  <2>3. Planned(c)'
    BY <1>1, <2>1 DEF RestoreOf, Planned, Drifted, Saved, LiveTables, Held
  <2> QED BY <1>1, <2>1, <2>2, <2>3 DEF RestoreOf
<1> QED BY <1>2, <1>3, <1>4, <1>5

\* Every table is emptied, none is added or lost.
LEMMA TruncateWorks ==
    ASSUME TypeOK, SessionInv, DataInv, WorkInv, NEW c \in Calls, truncate(c)
    PROVE  RestoreOf(c)' /\ WellFormed(mem'.user) /\ mem'.snapshot = mem.snapshot
<1> USE Moves
<1> DEFINE emptied == [t \in Tables |-> IF t \in tables[c]
                                        THEN [mem.user.tables[t] EXCEPT !.rows = 0]
                                        ELSE mem.user.tables[t]]
<1>1. DbTypeOK /\ mem.user \in Data
  BY TypeParts, MemTypes
<1>2. at[c] = "truncate" /\ at'[c] = "refill" /\ ~closed /\ UNCHANGED <<plan, had>>
  BY DEF truncate, Exec
<1>3. /\ had[c] = (mem.snapshot # {}) /\ mem = disk
      /\ ~Drifted /\ LiveTables # {} /\ tables[c] = LiveTables
      /\ plan[c] = {t \in Tables : Held(t)}
  BY <1>2 DEF WorkInv, RestoreOf, Planned
<1>4. xact
  BY <1>2, RunningInBlock DEF InBlock, Restoring
<1>5. /\ mem'.user = [tables |-> emptied, counter |-> mem.user.counter]
      /\ mem'.snapshot = mem.snapshot /\ disk' = disk
  <2> HIDE DEF emptied
  <2>1. Exec([mem EXCEPT !.user.tables = emptied])
    BY DEF truncate, emptied
  <2>2. Stores([tables |-> emptied, counter |-> mem.user.counter],
               mem.snapshot, mem.staging, mem.history)
    BY <1>1, <2>1, ExecTables
  <2> QED BY <1>4, <2>2, StoresParts
<1>6. \A t \in Tables : /\ mem'.user.tables[t].cols = mem.user.tables[t].cols
                        /\ mem'.user.tables[t].rows = 0
                        /\ mem.user.tables[t] = NoTable => mem'.user.tables[t] = NoTable
  <2> SUFFICES ASSUME NEW t \in Tables
               PROVE  /\ emptied[t].cols = mem.user.tables[t].cols
                      /\ emptied[t].rows = 0
                      /\ mem.user.tables[t] = NoTable => emptied[t] = NoTable
    BY <1>5
  <2>1. mem.user.tables[t] \in TableContents
    BY <1>1, DataTypes
  <2>2. t \in tables[c] \/ mem.user.tables[t] = NoTable
    BY <1>3 DEF DataInv, WellFormed, LiveTables
  <2> QED BY <2>1, <2>2 DEF TableContents, NoTable
<1> HIDE DEF emptied
<1>7. WellFormed(mem'.user)
  BY <1>6 DEF DataInv, WellFormed, Exists
<1>8. LiveTables' = LiveTables
  BY <1>6 DEF LiveTables, Exists
<1>9. \A t : Held(t)' <=> Held(t)
  BY <1>5 DEF Held
<1>10. ~Drifted'
  BY <1>3, <1>5, <1>6, DriftedHeld DEF Drifted, Saved
<1>11. \A t \in Tables : Refilled(c, t)'
  BY <1>2, <1>3, <1>5, <1>6 DEF Refilled, Held
<1> QED BY <1>2, <1>3, <1>5, <1>7, <1>8, <1>9, <1>10, <1>11 DEF RestoreOf

\* A planned table gets its rows back, if its columns are still those.
LEMMA RefillTableWorks ==
    ASSUME TypeOK, SessionInv, DataInv, WorkInv, NEW c \in Calls, NEW t \in plan[c],
           at[c] = "refill", Fits(t), UNCHANGED <<at, had, tables>>,
           plan' = [plan EXCEPT ![c] = plan[c] \ {t}],
           NEW r \in Saved(t), Exec([mem EXCEPT !.user.tables[t].rows = r.rows])
    PROVE  RestoreOf(c)' /\ WellFormed(mem'.user) /\ mem'.snapshot = mem.snapshot
<1> DEFINE x == [cols |-> mem.user.tables[t].cols, rows |-> r.rows]
<1>1. DbTypeOK /\ mem.user \in Data /\ mem.snapshot \in SUBSET Data /\ t \in Tables
  BY TypeParts, MemTypes DEF ManagerTypeOK
<1>2. ~closed /\ plan'[c] = plan[c] \ {t} /\ at'[c] = "refill" /\ had'[c] = had[c]
  BY TypeParts DEF ManagerTypeOK, Exec
<1>3. /\ had[c] = (mem.snapshot # {}) /\ mem.snapshot = disk.snapshot /\ ~Drifted
      /\ LiveTables # {} /\ mem.user.counter = disk.user.counter
      /\ \A y \in Tables : Refilled(c, y)
      /\ \A y \in plan[c] : Held(y)
  BY <1>2 DEF WorkInv, RestoreOf
<1>4. PICK s \in mem.snapshot : Exists(s, t) /\ r = s.tables[t]
  BY SavedHeld
<1>5. s.tables[t] \in TableContents /\ mem.user.tables[t] \in TableContents
  BY <1>1, <1>4, DataTypes
<1>6. mem.user.tables[t].cols = s.tables[t].cols /\ Exists(mem.user, t)
  <2>1. mem.user.tables[t].cols <= s.tables[t].cols
    BY <1>4, DriftedHeld
  <2>2. ~(mem.user.tables[t].cols < s.tables[t].cols)
    BY <1>1, <1>3, <1>4, DriftedHeld
  <2> QED BY <1>4, <1>5, <2>1, <2>2 DEF TableContents, Exists
<1>7. xact
  BY <1>2, RunningInBlock DEF InBlock, Restoring
<1>8. /\ mem'.user = [tables |-> [mem.user.tables EXCEPT ![t] = x], counter |-> mem.user.counter]
      /\ mem'.snapshot = mem.snapshot /\ disk' = disk
  <2>1. x \in TableContents /\ x.cols = mem.user.tables[t].cols
    BY <1>4, <1>5 DEF TableContents
  <2>2. Exec([mem EXCEPT !.user.tables[t].rows = x.rows])
    OBVIOUS
  <2> HIDE DEF x
  <2>3. Stores([tables |-> [mem.user.tables EXCEPT ![t] = x], counter |-> mem.user.counter],
               mem.snapshot, mem.staging, mem.history)
    BY <1>1, <2>1, <2>2, ExecTable
  <2> QED BY <1>7, <2>3, StoresParts
<1>9. \A y \in Tables : /\ mem'.user.tables[y].cols = mem.user.tables[y].cols
                        /\ y # t => mem'.user.tables[y] = mem.user.tables[y]
                        /\ y = t => mem'.user.tables[y].rows = s.tables[t].rows
  <2>1. mem.user.tables \in [Tables -> TableContents]
    BY <1>1, DataTypes
  <2> QED BY <1>4, <1>8, <2>1
<1> HIDE DEF x
<1>10. WellFormed(mem'.user)
  BY <1>6, <1>9 DEF DataInv, WellFormed, Exists
<1>11. LiveTables' = LiveTables /\ \A y : Held(y)' <=> Held(y)
  BY <1>8, <1>9 DEF LiveTables, Exists, Held
<1>12. ~Drifted'
  BY <1>3, <1>8, <1>9, DriftedHeld DEF Drifted, Saved
<1>13. \A y \in Tables : Refilled(c, y)'
  <2> SUFFICES ASSUME NEW y \in Tables PROVE Refilled(c, y)'
    OBVIOUS
  <2>1. CASE y = t
    <3>1. Held(y)
      BY <1>4, <2>1 DEF Held
    <3>2. \A q \in mem.snapshot : q = s
      BY <1>4 DEF DataInv, AtMostOne
    <3> QED BY <1>3, <1>6, <1>8, <1>9, <1>11, <2>1, <3>1, <3>2 DEF Refilled
  <2>2. CASE y # t
    BY <1>2, <1>3, <1>8, <1>9, <1>11, <2>2 DEF Refilled
  <2> QED BY <2>1, <2>2
<1> QED BY <1>2, <1>3, <1>8, <1>10, <1>11, <1>12, <1>13 DEF RestoreOf

\* The sequence that no table owns is set back.
LEMMA SetvalWorks ==
    ASSUME TypeOK, SessionInv, DataInv, WorkInv, NEW c \in Calls, setval(c)
    PROVE  RestoreOf(c)' /\ WellFormed(mem'.user) /\ mem'.snapshot = mem.snapshot
<1> USE Moves
<1> DEFINE k == RestoredCounter(mem.snapshot, mem.user.counter)
<1>1. DbTypeOK /\ mem.user \in Data
  BY TypeParts, MemTypes
<1>2. at[c] = "setval" /\ at'[c] = "commit" /\ ~closed /\ UNCHANGED <<plan, had>>
  BY DEF setval, Exec
<1>3. /\ mem.snapshot = disk.snapshot /\ ~Drifted /\ plan[c] = {}
      /\ LiveTables # {} /\ mem.user.counter = disk.user.counter
      /\ \A y \in Tables : Refilled(c, y)
  BY <1>2 DEF WorkInv, RestoreOf
<1>4. xact
  BY <1>2, RunningInBlock DEF InBlock, Restoring
<1>5. /\ mem'.user = [tables |-> mem.user.tables, counter |-> k]
      /\ mem'.snapshot = mem.snapshot /\ disk' = disk
  <2>1. Exec([mem EXCEPT !.user.counter = k])
    BY DEF setval, RestoredCounter
  <2> HIDE DEF k
  <2>2. Stores([tables |-> mem.user.tables, counter |-> k], mem.snapshot, mem.staging, mem.history)
    BY <1>1, <2>1, ExecCounter
  <2> QED BY <1>4, <2>2, StoresParts
<1> HIDE DEF k
<1>6. mem'.user.tables = mem.user.tables /\ mem'.user.counter = k
  BY <1>5
<1>7. WellFormed(mem'.user)
  BY <1>6 DEF DataInv, WellFormed, Exists
<1>8. LiveTables' = LiveTables /\ Drifted' = Drifted /\ \A y \in Tables : Refilled(c, y)'
  BY <1>2, <1>3, <1>5, <1>6 DEF LiveTables, Exists, Drifted, Saved, Refilled, Held
<1>9. mem'.user.counter = RestoredCounter(disk'.snapshot, disk'.user.counter)
  BY <1>3, <1>5, <1>6 DEF k
<1> QED BY <1>2, <1>3, <1>5, <1>7, <1>8, <1>9 DEF RestoreOf

\* The restore keeps up with the statements of resetDb.
LEMMA ResetDbWorks ==
    ASSUME TypeOK, SessionInv, DataInv, WorkInv, NEW c \in Calls, resetDb(c)
    PROVE  /\ CopyOf(c)' /\ RestoreOf(c)'
           /\ WellFormed(mem'.user) /\ AtMostOne(mem'.snapshot)
<1> USE Moves
<1>1. CopyOf(c)'
  <2>1. \/ at[c] = "refill" /\ at' = at
        \/ at'[c] \in ResetSteps \cup {"ok", "failed"}
    BY DEF resetDb, snapshotSchemaExists, getTables, restorePlan, beginRestore, truncate, refill,
           setval, commitRestore, rollbackRestore, scrub, AfterRestore, ResetSteps
  <2> QED BY <2>1 DEF CopyOf, ResetSteps, Copying
<1>2. /\ WellFormed(mem.user) /\ WellFormed(disk.user)
      /\ AtMostOne(mem.snapshot) /\ AtMostOne(disk.snapshot)
  BY DEF DataInv
<1>3. CASE snapshotSchemaExists(c) \/ getTables(c) \/ restorePlan(c) \/ beginRestore(c)
  BY <1>1, <1>2, <1>3, PlanningWorks
<1>4. CASE truncate(c)
  BY <1>1, <1>2, <1>4, TruncateWorks
<1>5. CASE refill(c)
  <2>1. CASE plan[c] = {} /\ Move(c, "refill", IF had[c] THEN "setval" ELSE "commit") /\ Reads
             /\ had' = [had EXCEPT ![c] = FALSE] /\ UNCHANGED <<op, tables, plan>>
    <3>1. /\ at[c] = "refill" /\ at'[c] = IF had[c] THEN "setval" ELSE "commit"
          /\ ~closed /\ UNCHANGED <<mem, disk, plan>> /\ plan[c] = {}
      BY <2>1 DEF Reads, dbVars
    <3>2. RestoreOf(c)
      BY DEF WorkInv
    <3>3. /\ LiveTables' = LiveTables /\ Drifted' = Drifted
          /\ \A y \in Tables : Refilled(c, y)' <=> Refilled(c, y)
      BY <3>1 DEF LiveTables, Drifted, Saved, Refilled, Held
    <3>4. ~had[c] => mem.user.counter = RestoredCounter(disk.snapshot, disk.user.counter)
      BY <3>1, <3>2 DEF RestoreOf, RestoredCounter
    <3>5. RestoreOf(c)'
      BY <3>1, <3>2, <3>3, <3>4 DEF RestoreOf
    <3> QED BY <1>1, <1>2, <3>1, <3>5
  <2>2. ASSUME NEW t \in plan[c], at[c] = "refill", Fits(t), UNCHANGED at,
               \E s \in Saved(t) : Exec([mem EXCEPT !.user.tables[t].rows = s.rows]),
               plan' = [plan EXCEPT ![c] = plan[c] \ {t}], UNCHANGED <<op, tables, had>>
        PROVE  RestoreOf(c)' /\ WellFormed(mem'.user) /\ mem'.snapshot = mem.snapshot
    BY <2>2, RefillTableWorks
  <2> QED BY <1>1, <1>2, <1>5, <2>1, <2>2 DEF refill
<1>6. CASE setval(c)
  BY <1>1, <1>2, <1>6, SetvalWorks
<1>7. CASE commitRestore(c) \/ rollbackRestore(c) \/ scrub(c)
  <2>1. at'[c] \in {"ok", "failed", "scrub"} /\ mem' \in {mem, disk}
    BY <1>7 DEF commitRestore, rollbackRestore, scrub, Commit, Rollback, AfterRestore
  <2>2. RestoreOf(c)'
    BY <2>1 DEF RestoreOf
  <2> QED BY <1>1, <1>2, <2>1, <2>2
<1> QED BY <1>3, <1>4, <1>5, <1>6, <1>7 DEF resetDb

\* An operation's statement keeps the invariant.
LEMMA StatementsWork ==
    ASSUME TypeOK, SessionInv, SessionInv', DataInv, WorkInv, NEW c \in Calls, ManagerStep(c),
           at[c] = "queued" => ~xact
    PROVE  DataInv' /\ WorkInv'
<1>1. /\ CopyOf(c)' /\ RestoreOf(c)'
      /\ WellFormed(mem'.user) /\ AtMostOne(mem'.snapshot)
  <2>1. CASE serialize(c)
    <3>1. at'[c] \in {"sweep", "drop", "look"} /\ mem' = mem
      BY <2>1, Moves DEF serialize, Begins, FirstStep, dbVars
    <3> QED BY <3>1 DEF CopyOf, RestoreOf, Copying, DataInv
  <2> QED BY <2>1, SnapshotDbWorks, ResetSnapshotWorks, ResetDbWorks DEF ManagerStep
<1>2. WorkInv'
  BY <1>1, OthersWait, IdlePromisesNothingNext DEF WorkInv
<1>3. StatementKinds(c)
  BY StatementKindsLemma
<1>4. disk' \in {disk, mem, mem'}
  BY <1>3 DEF StatementKinds, Kept, Wrote, Begin, Commit, Rollback, dbVars
<1>5. xact' => SomeRunning'
  <2>1. xact' => Running(c)'
    <3>1. xact \in BOOLEAN
      BY TypeParts DEF DbTypeOK
    <3>2. xact => at[c] \in InBlock \cup RollingBack
      <4>1. at[c] = "queued" \/ Running(c)
        BY <1>3 DEF StatementKinds, Copying, Restoring, Running, Steps, SnapshotSteps, ResetSteps,
                    DropSteps
      <4> QED BY <4>1 DEF SessionInv, BlocksOwned
    <3> QED BY <1>3, <3>1, <3>2
         DEF StatementKinds, Wrote, Kept, dbVars, Begin, Commit, Rollback, LeadsTo, InBlock,
             Copying, Restoring, RollingBack, Running, Steps, SnapshotSteps, ResetSteps, DropSteps
  <2> QED BY <2>1 DEF SomeRunning
<1>6. ~xact' => mem' = disk'
  BY DEF SessionInv, BlocksOwned
<1>7. DataInv'
  BY <1>1, <1>4, <1>5, <1>6 DEF DataInv, WellFormed, AtMostOne
<1> QED BY <1>2, <1>7

\* What anyone else does to the data, while no operation runs.
LEMMA OthersKeepData ==
    ASSUME DataInv, UNCHANGED at,
           \/ UNCHANGED <<mem, disk>>
           \/ Gone
           \/ ~SomeRunning /\ (Begin \/ Commit \/ Rollback)
           \/ /\ ~SomeRunning /\ Wrote /\ WellFormed(mem'.user)
              /\ mem'.snapshot = mem.snapshot \/ (~xact /\ mem'.snapshot = NoSchema)
    PROVE  DataInv'
<1>1. SomeRunning' <=> SomeRunning
  BY DEF SomeRunning, Running
<1>2. CASE UNCHANGED <<mem, disk>>
  BY <1>1, <1>2 DEF DataInv, WellFormed, AtMostOne
<1>3. CASE Gone
  BY <1>3 DEF Gone, DataInv, WellFormed, AtMostOne
<1>4. CASE ~SomeRunning /\ (Begin \/ Commit \/ Rollback)
  <2>1. mem' \in {mem, disk} /\ disk' \in {mem, disk} /\ mem.snapshot = disk.snapshot
    BY <1>4 DEF DataInv, Begin, Commit, Rollback
  <2> QED BY <2>1 DEF DataInv, WellFormed, AtMostOne
<1>5. CASE /\ ~SomeRunning /\ Wrote /\ WellFormed(mem'.user)
           /\ mem'.snapshot = mem.snapshot \/ (~xact /\ mem'.snapshot = NoSchema)
  <2>1. /\ disk' = mem' \/ (disk' = disk /\ mem'.snapshot = mem.snapshot)
        /\ mem.snapshot = disk.snapshot
    BY <1>5 DEF DataInv, Wrote
  <2>2. AtMostOne(mem'.snapshot)
    BY <1>5 DEF DataInv, AtMostOne, NoSchema
  <2> QED BY <1>5, <2>1, <2>2 DEF DataInv, WellFormed, AtMostOne
<1> QED BY <1>2, <1>3, <1>4, <1>5

\* The writes of clients, migrations and raw SQL to one table.
LEMMA TableWrites ==
    ASSUME TypeOK, DataInv, NEW t \in Tables, NEW x \in TableContents,
           x.cols > 0 \/ x = NoTable,
           \/ Exec([mem EXCEPT !.user.tables[t] = x])
           \/ x.cols = mem.user.tables[t].cols /\ Exec([mem EXCEPT !.user.tables[t].rows = x.rows])
           \/ x.rows = mem.user.tables[t].rows /\ Exec([mem EXCEPT !.user.tables[t].cols = x.cols])
    PROVE  Wrote /\ WellFormed(mem'.user) /\ mem'.snapshot = mem.snapshot
<1>1. DbTypeOK /\ mem.user \in Data /\ mem.user.tables \in [Tables -> TableContents]
  BY TypeParts, MemTypes, DataTypes
<1>2. Stores([tables |-> [mem.user.tables EXCEPT ![t] = x], counter |-> mem.user.counter],
             mem.snapshot, mem.staging, mem.history)
  BY <1>1, ExecTable
<1>3. /\ mem'.user = [tables |-> [mem.user.tables EXCEPT ![t] = x], counter |-> mem.user.counter]
      /\ mem'.snapshot = mem.snapshot /\ Wrote
  BY <1>2 DEF Stores, Wrote
<1>4. \A y \in Tables : mem'.user.tables[y] = IF y = t THEN x ELSE mem.user.tables[y]
  BY <1>1, <1>3
<1>5. WellFormed(mem'.user)
  BY <1>4 DEF DataInv, WellFormed, Exists
<1> QED BY <1>3, <1>5

\* What clients, migrations and the operator may do between the operations.
BetweenOperations ==
    /\ UNCHANGED <<managerVars, closed>>
    /\ \/ UNCHANGED <<mem, disk>>
       \/ ~SomeRunning /\ (Begin \/ Commit \/ Rollback)
       \/ /\ ~SomeRunning /\ Wrote /\ WellFormed(mem'.user)
          /\ mem'.snapshot = mem.snapshot \/ (~xact /\ mem'.snapshot = NoSchema)

\* The pool client does no more than that,
LEMMA ClientsBetween ==
    ASSUME TypeOK, DataInv,
           Connect \/ Dispatch \/ ClientReleased \/ ClientQueries \/ CleanupRollback
    PROVE  BetweenOperations
<1>1. DbTypeOK /\ mem.user \in Data
  BY TypeParts, MemTypes
<1>2. CASE Connect \/ Dispatch \/ ClientReleased \/ Clash
  BY <1>2 DEF Connect, Dispatch, ClientReleased, Clash, dbVars, BetweenOperations
<1>3. CASE CleanupRollback
  BY <1>2, <1>3 DEF CleanupRollback, Rollback, BetweenOperations
<1>4. CASE ClientQueries
  <2>1. CASE ~SomeRunning /\ ClientStatement /\ UNCHANGED managerVars
    <3>1. CASE Begin \/ Commit \/ Rollback
      BY <2>1, <3>1 DEF BetweenOperations, Begin, Commit, Rollback
    <3>2. ASSUME NEW t \in LiveTables, NEW k \in Tokens,
                 Exec([mem EXCEPT !.user.tables[t].rows = k])
          PROVE  BetweenOperations
      <4> DEFINE x == [cols |-> mem.user.tables[t].cols, rows |-> k]
      <4>1. /\ t \in Tables /\ x \in TableContents /\ x.cols > 0
            /\ x.cols = mem.user.tables[t].cols /\ x.rows = k
        BY <1>1, DataTypes DEF LiveTables, Exists, TableContents
      <4> HIDE DEF x
      <4>2. Exec([mem EXCEPT !.user.tables[t].rows = x.rows])
        BY <3>2, <4>1
      <4>3. Wrote /\ WellFormed(mem'.user) /\ mem'.snapshot = mem.snapshot
        BY <4>1, <4>2, TableWrites
      <4> QED BY <2>1, <4>3 DEF BetweenOperations, Wrote
    <3>3. ASSUME NEW k, Exec([mem EXCEPT !.user.counter = k])
          PROVE  BetweenOperations
      <4>1. Stores([tables |-> mem.user.tables, counter |-> k],
                   mem.snapshot, mem.staging, mem.history)
        BY <1>1, <3>3, ExecCounter
      <4>2. /\ Wrote /\ mem'.user.tables = mem.user.tables
            /\ mem'.snapshot = mem.snapshot
        BY <4>1 DEF Stores, Wrote
      <4>3. WellFormed(mem'.user)
        BY <4>2 DEF DataInv, WellFormed, Exists
      <4> QED BY <2>1, <4>2, <4>3 DEF BetweenOperations, Wrote
    <3>4. CASE UNCHANGED <<disk, mem, closed>>
      BY <2>1, <3>4 DEF BetweenOperations
    <3> QED BY <2>1, <3>1, <3>2, <3>3, <3>4 DEF ClientStatement
  <2> QED BY <1>2, <1>4, <2>1 DEF ClientQueries
<1> QED BY <1>2, <1>3, <1>4

\* nor do migrations, raw SQL and the operator.
LEMMA ApplicationBetween ==
    ASSUME TypeOK, SessionInv, DataInv,
           RawSQL \/ PushMigrations \/ PushProceeds \/ PushAborts \/ Operator
    PROVE  BetweenOperations
<1>1. DbTypeOK /\ mem.user \in Data
  BY TypeParts, MemTypes
<1>2. /\ push # "idle" => ~SomeRunning /\ ~xact
      /\ Alone => ~SomeRunning /\ ~xact
  BY RunningIsOutstanding DEF SessionInv, PushAlone, Alone
<1>3. \A s, h : Stores(mem.user, mem.snapshot, s, h) =>
                   /\ Wrote /\ WellFormed(mem'.user) /\ mem'.snapshot = mem.snapshot
  BY DEF Stores, Wrote, DataInv
<1>4. CASE RawSQL
  <2>1. ASSUME NEW t \in Tables, NEW n \in 0..2,
               Exec([mem EXCEPT !.user.tables[t] =
                       IF n = 0 THEN NoTable ELSE [mem.user.tables[t] EXCEPT !.cols = n]])
        PROVE  Wrote /\ WellFormed(mem'.user) /\ mem'.snapshot = mem.snapshot
    <3> DEFINE x == IF n = 0 THEN NoTable ELSE [mem.user.tables[t] EXCEPT !.cols = n]
    <3>1. x \in TableContents /\ (x.cols > 0 \/ x = NoTable)
      <4>1. mem.user.tables[t] \in TableContents
        BY <1>1, DataTypes
      <4> QED BY <4>1, DatabaseAssumption DEF TableContents, NoTable, Tokens
    <3>2. Exec([mem EXCEPT !.user.tables[t] = x])
      BY <2>1
    <3> HIDE DEF x
    <3> QED BY <3>1, <3>2, TableWrites
  <2>2. ASSUME Exec([mem EXCEPT !.snapshot = NoSchema])
        PROVE  Wrote /\ WellFormed(mem'.user) /\ mem'.snapshot = NoSchema
    <3>1. Stores(mem.user, NoSchema, mem.staging, mem.history)
      BY <1>1, <2>2, ExecStores
    <3> QED BY <3>1 DEF Stores, Wrote, DataInv
  <2>3. ~SomeRunning /\ ~xact /\ UNCHANGED managerVars
    BY <1>2, <1>4 DEF RawSQL
  <2> QED BY <1>4, <2>1, <2>2, <2>3 DEF RawSQL, BetweenOperations, Wrote
<1>5. CASE PushMigrations \/ PushAborts
  BY <1>5 DEF PushMigrations, resolveMigrations, PushAborts, pushFails, dbVars, BetweenOperations
<1>6. CASE PushProceeds
  <2>1. ~SomeRunning /\ ~xact /\ UNCHANGED managerVars
    BY <1>2, <1>6 DEF PushProceeds, PushStep, createTable, validateHistory, startMigration,
                      runScript, markFinished, allApplied
  <2>2. CASE validateHistory \/ allApplied
    BY <2>1, <2>2 DEF validateHistory, allApplied, Reads, dbVars, BetweenOperations
  <2>3. CASE createTable \/ startMigration \/ markFinished
    <3>1. Exec(mem) \/ \E h : Exec([mem EXCEPT !.history = h])
      BY <2>3 DEF createTable, startMigration, markFinished
    <3>2. \E h : Stores(mem.user, mem.snapshot, mem.staging, h)
      BY <1>1, <3>1, ExecStores
    <3> QED BY <1>3, <2>1, <3>2 DEF BetweenOperations, Wrote
  <2>4. CASE runScript
    <3> DEFINE t == TableOf(Started.name)
               n == IF mem.user.tables[t].cols = 0 THEN 1 ELSE mem.user.tables[t].cols
               x == [cols |-> n, rows |-> mem.user.tables[t].rows]
    <3>1. Exec([mem EXCEPT !.user.tables[t].cols = n])
      BY <2>4 DEF runScript
    <3>2. CASE t \in Tables
      <4>1. x \in TableContents /\ x.cols > 0 /\ x.rows = mem.user.tables[t].rows /\ x.cols = n
        <5>1. mem.user.tables[t].cols \in 0..2 /\ mem.user.tables[t].rows \in Tokens
          BY <1>1, <3>2, DataTypes
        <5> QED BY <5>1 DEF TableContents
      <4>2. Exec([mem EXCEPT !.user.tables[t].cols = x.cols])
        BY <3>1, <4>1
      <4> HIDE DEF x, n, t
      <4>3. Wrote /\ WellFormed(mem'.user) /\ mem'.snapshot = mem.snapshot
        BY <3>2, <4>1, <4>2, TableWrites
      <4> QED BY <2>1, <4>3 DEF BetweenOperations, Wrote
    <3>3. CASE t \notin Tables
      <4>1. mem.user.tables \in [Tables -> TableContents]
        BY <1>1, DataTypes
      <4>2. [mem EXCEPT !.user.tables[t].cols = n] = [mem EXCEPT !.user.tables = mem.user.tables]
        BY <3>3, <4>1
      <4>3. Stores([tables |-> mem.user.tables, counter |-> mem.user.counter],
                   mem.snapshot, mem.staging, mem.history)
        BY <1>1, <3>1, <4>2, ExecTables
      <4>4. [tables |-> mem.user.tables, counter |-> mem.user.counter] = mem.user
        BY <1>1, DataTypes
      <4> QED BY <1>3, <2>1, <4>3, <4>4 DEF BetweenOperations, Wrote
    <3> QED BY <3>2, <3>3
  <2> QED BY <1>6, <2>2, <2>3, <2>4 DEF PushProceeds, PushStep
<1>7. CASE Operator
  <2>1. ~SomeRunning /\ ~xact /\ UNCHANGED managerVars
    BY <1>2, <1>7 DEF Operator
  <2>2. UNCHANGED dbVars \/ \E h : Exec([mem EXCEPT !.history = h])
    BY <1>7 DEF Operator, EditFile, ResolveByHand
  <2>3. UNCHANGED dbVars \/ \E h : Stores(mem.user, mem.snapshot, mem.staging, h)
    BY <1>1, <2>2, ExecStores
  <2> QED BY <1>3, <2>1, <2>3 DEF BetweenOperations, Wrote, dbVars
<1> QED BY <1>4, <1>5, <1>6, <1>7

\* A statement fails, and the operation turns to its ROLLBACK or gives up.
LEMMA FailuresWork ==
    ASSUME TypeOK, SessionInv, DataInv, WorkInv, NEW c \in Calls, OperationFails(c),
           ~xact' => mem' = disk', xact' => SomeRunning'
    PROVE  DataInv' /\ WorkInv'
<1>1. /\ Running(c) /\ at' = [at EXCEPT ![c] = OnError(at[c])]
      /\ UNCHANGED <<disk, mem, xact, closed>>
  BY DEF OperationFails, statementFails, dbVars
<1>2. at'[c] = OnError(at[c]) /\ \A b \in Calls \ {c} : at'[b] = at[b]
  BY <1>1, TypeParts DEF ManagerTypeOK
<1>3. \A b \in Calls \ {c} : ~Running(b) /\ ~Running(b)'
  BY <1>1, <1>2, OnlyOneRuns DEF SessionInv, Running
<1>4. at'[c] \in {"rollbackCopy", "rollback", "failed"}
  BY <1>2 DEF OnError
<1>5. CopyOf(c)' /\ RestoreOf(c)'
  BY <1>4 DEF CopyOf, RestoreOf, Copying
<1>6. WorkInv'
  BY <1>3, <1>5, IdlePromisesNothingNext DEF WorkInv
<1>7. DataInv'
  BY <1>1 DEF DataInv, WellFormed, AtMostOne
<1> QED BY <1>6, <1>7

\* A call settles or dies: without a block the session has the disk's snapshot.
LEMMA BlockRuns ==
    ASSUME TypeOK, SessionInv, NEW c \in Calls, OperationFails(c)
    PROVE  (~xact' => mem' = disk') /\ (xact' => SomeRunning')
<1>1. /\ Running(c) /\ at' = [at EXCEPT ![c] = OnError(at[c])]
      /\ UNCHANGED <<disk, mem, xact, closed>>
      /\ at[c] \in RollingBack => closed
  BY DEF OperationFails, Throws, statementFails, dbVars, RollingBack
<1>2. ~xact => mem = disk
  BY DEF SessionInv, BlocksOwned
<1>3. xact => at[c] \in InBlock
  BY <1>1 DEF SessionInv, BlocksOwned
<1>4. xact => at'[c] \in {"rollbackCopy", "rollback"}
  BY <1>1, <1>3, TypeParts DEF ManagerTypeOK, OnError, InBlock, Copying, Restoring
<1>5. xact => Running(c)'
  BY <1>4 DEF Running, Steps, SnapshotSteps, ResetSteps
<1> QED BY <1>1, <1>2, <1>5 DEF SomeRunning

\* At first no call has any work.
LEMMA InitWork == Init => DataInv /\ WorkInv
<1> SUFFICES ASSUME Init PROVE DataInv /\ WorkInv
  OBVIOUS
<1>1. /\ mem = disk /\ disk.user \in InitialData /\ disk.snapshot = {}
  BY DEF Init, NoSchema
<1>2. DataInv
  BY <1>1, BridgeAssumption DEF DataInv, WellFormed, AtMostOne
<1>3. \A c \in Calls : ~Running(c)
  BY DEF Init, ManagerInit, Running, Steps, SnapshotSteps, ResetSteps, DropSteps
<1> QED BY <1>2, <1>3, IdlePromisesNothing DEF WorkInv

\* Every step keeps the invariant.
LEMMA NextWork ==
    TypeOK /\ SessionInv /\ SessionInv' /\ DataInv /\ WorkInv /\ [Next]_vars => DataInv' /\ WorkInv'
<1> SUFFICES ASSUME TypeOK, SessionInv, SessionInv', DataInv, WorkInv, [Next]_vars
             PROVE  DataInv' /\ WorkInv'
  OBVIOUS
<1>1. CASE BetweenOperations
  <2>1. DataInv'
    BY <1>1, OthersKeepData DEF BetweenOperations, managerVars
  <2>2. CASE UNCHANGED <<mem, disk>>
    BY <1>1, <2>1, <2>2, WorkKept DEF BetweenOperations, managerVars
  <2>3. CASE ~SomeRunning
    <3>1. \A c \in Calls : ~Running(c)'
      BY <1>1, <2>3 DEF SomeRunning, Running, BetweenOperations, managerVars
    <3> QED BY <2>1, <3>1, OthersKeepWork
  <2> QED BY <1>1, <2>2, <2>3 DEF BetweenOperations
<1>2. CASE Clash
  BY <1>1, <1>2 DEF Clash, dbVars, BetweenOperations
<1>3. ASSUME NEW c \in Calls, NEW operation \in Operations, assertPoolIdle(c, operation)
      PROVE  DataInv' /\ WorkInv'
  <2>1. /\ at[c] = "none" /\ UNCHANGED <<disk, mem, xact, closed, tables, plan, had>>
        /\ \E s \in {"refused", "queued"} : at' = [at EXCEPT ![c] = s]
    BY <1>3 DEF assertPoolIdle, enqueue, dbVars
  <2>2. at'[c] \in {"refused", "queued"} /\ \A b \in Calls \ {c} : at'[b] = at[b]
    BY <2>1, TypeParts DEF ManagerTypeOK
  <2>3. \A b \in Calls : Running(b)' <=> Running(b)
    BY <2>1, <2>2 DEF Running, Steps, SnapshotSteps, ResetSteps, DropSteps
  <2>4. DataInv'
    BY <2>1, <2>3 DEF DataInv, WellFormed, AtMostOne, SomeRunning
  <2>5. CopyOf(c)' /\ RestoreOf(c)'
    BY <2>2 DEF CopyOf, RestoreOf, Copying
  <2>6. \A b \in Calls \ {c} : CopyOf(b)' /\ RestoreOf(b)'
    BY <2>1, <2>2 DEF WorkInv, CopyOf, RestoreOf, Copied, Planned, Refilled, Held, Drifted, Saved,
                      LiveTables, RestoredCounter
  <2> QED BY <2>4, <2>5, <2>6 DEF WorkInv
<1>4. ASSUME NEW c \in Calls, OperationStep(c)
      PROVE  DataInv' /\ WorkInv'
  BY <1>2, <1>4, StatementsWork DEF OperationStep
<1>5. ASSUME NEW c \in Calls, OperationFails(c)
      PROVE  DataInv' /\ WorkInv'
  BY <1>5, BlockRuns, FailuresWork
<1>6. CASE Connect \/ Dispatch \/ ClientReleased \/ ClientQueries \/ CleanupRollback
  BY <1>1, <1>6, ClientsBetween
<1>7. CASE RawSQL \/ PushMigrations \/ PushProceeds \/ PushAborts \/ Operator
  BY <1>1, <1>7, ApplicationBetween
<1>8. CASE Close
  <2>1. UNCHANGED <<at, tables, plan, had, disk>> /\ mem' = disk /\ closed'
    BY <1>8 DEF Close, Gone, managerVars
  <2>2. DataInv'
    BY <1>8, <2>1, OthersKeepData DEF Close
  <2>3. ASSUME NEW c \in Calls
        PROVE  CopyOf(c)' /\ RestoreOf(c)'
    <3>1. RestoreOf(c)
      BY DEF WorkInv
    <3>2. at[c] \in {"getTables", "plan", "begin"} => mem' = mem
      BY <2>1, RunningInBlock
         DEF Running, Steps, ResetSteps, InBlock, Copying, Restoring, RollingBack
    <3> QED BY <2>1, <3>1, <3>2 DEF CopyOf, RestoreOf, Planned, Held, Drifted, Saved, LiveTables
  <2> QED BY <2>2, <2>3 DEF WorkInv
<1>9. CASE Restart
  <2>1. \A c \in Calls : ~Running(c)'
    BY <1>9 DEF Restart, loseCalls, Running, Steps, SnapshotSteps, ResetSteps, DropSteps, Settled
  <2>2. mem' = disk /\ disk' = disk
    BY <1>9 DEF Restart, Gone
  <2>3. DataInv'
    BY <2>2 DEF DataInv, WellFormed, AtMostOne
  <2> QED BY <2>1, <2>3, OthersKeepWork
<1>10. CASE UNCHANGED vars
  BY <1>1, <1>10 DEF vars, dbVars, BetweenOperations
<1> QED BY <1>3, <1>4, <1>5, <1>6, <1>7, <1>8, <1>9, <1>10 DEF Next

\* DataInv and WorkInv are invariants.
LEMMA Work == Spec => [](DataInv /\ WorkInv)
BY BridgeTypes, Session, InitWork, NextWork, PTL DEF Spec
-----------------------------------------------------------------------------
(* The operations implement SnapshotStore. *)

\* How far a call got, as SnapshotStore sees it.
LEMMA PhaseIs ==
    ASSUME NEW c
    PROVE  /\ at[c] \in {"scrub", "dropStaging"} => Phase(c) = "finishing"
           /\ Running(c) /\ at[c] \notin {"scrub", "dropStaging"} => Phase(c) = "running"
           /\ ~Running(c) => Phase(c) = at[c]
<1>1. at[c] \in {"scrub", "dropStaging"} => Running(c)
  BY DEF Running, Steps, ResetSteps, DropSteps
<1> QED BY <1>1 DEF Phase

\* The same in the next state.
LEMMA PhaseIsNext ==
    ASSUME NEW c
    PROVE  /\ at'[c] \in {"scrub", "dropStaging"} => Phase(c)' = "finishing"
           /\ Running(c)' /\ at'[c] \notin {"scrub", "dropStaging"} => Phase(c)' = "running"
           /\ ~Running(c)' => Phase(c)' = at'[c]
<1>1. at'[c] \in {"scrub", "dropStaging"} => Running(c)'
  BY DEF Running, Steps, ResetSteps, DropSteps
<1> QED BY <1>1 DEF Phase

\* The phases of all calls: what the refinement maps `phase' to.
Phases == [c \in Calls |-> Phase(c)]

\* The durable data and snapshot, and what each call asked for, stay.
Durable == UNCHANGED <<disk.user, disk.snapshot, op>>

\* A step of one call, by what it does to its phase.
LEMMA CallRefines ==
    ASSUME NEW c \in Calls, \A b \in Calls \ {c} : at'[b] = at[b]
    PROVE  /\ Durable /\ Phase(c)' = Phase(c) => UNCHANGED Store!vars
           /\ Durable /\ Phase(c) = "queued" /\ Phase(c)' = "running"
                /\ (\A b \in Calls : b < c => at[b] \in Settled) => Store!Run(c)
           /\ Durable /\ Phase(c) = "finishing" /\ Phase(c)' = "ok" => Store!Finish(c)
           /\ Durable /\ Phase(c) \in {"running", "finishing"} /\ Phase(c)' = "failed"
                => Store!Fail(c)
           /\ op' = op /\ Phase(c) = "running" /\ Store!Effect(c)
                /\ Phase(c)' = (IF op[c] \in {"drop", "reset"} THEN "finishing" ELSE "ok")
                => Store!TakeEffect(c)
<1>1. Phases' = [Phases EXCEPT ![c] = Phase(c)'] /\ Phases[c] = Phase(c)
  BY DEF Phases, Phase, Running
<1>2. Phase(c)' = Phase(c) => Phases' = Phases
  BY <1>1 DEF Phases
<1>3. \A b \in Calls : at[b] \in Settled => Phases[b] \in Settled
  BY PhaseIs DEF Phases, Settled, Running, Steps, SnapshotSteps, ResetSteps, DropSteps
<1> QED BY <1>1, <1>2, <1>3
     DEF Phases, Durable, Settled, Store!vars, Store!Run, Store!Finish, Store!Fail,
         Store!TakeEffect, Store!Settled

\* The tables of a restore are a function.
LEMMA RestoredTables ==
    ASSUME NEW snap
    PROVE  Store!Restored(snap).tables = [t \in Tables |-> Store!Restored(snap).tables[t]]
<1> DEFINE x(t) == [cols |-> disk.user.tables[t].cols,
                    rows |-> IF \E s \in snap : s.tables[t].cols > 0
                             THEN (CHOOSE s \in snap : TRUE).tables[t].rows ELSE 0]
           f == [t \in Tables |-> x(t)]
<1>1. Store!Restored(snap).tables = f
  BY DEF Store!Restored
<1> HIDE DEF x
<1>2. f = [t \in Tables |-> f[t]]
  OBVIOUS
<1> HIDE DEF f
<1> QED BY <1>1, <1>2

\* What a finished restore commits is what SnapshotStore asks for.
LEMMA RestoreHasItsEffect ==
    ASSUME TypeOK, DataInv, WorkInv, NEW c \in Calls, at[c] = "commit", ~closed
    PROVE  /\ mem.snapshot = disk.snapshot
           /\ Store!Restorable(disk.snapshot) /\ mem.user = Store!Restored(disk.snapshot)
<1>1. /\ mem.user \in Data /\ disk.user \in Data
      /\ mem.snapshot \in SUBSET Data /\ disk.snapshot \in SUBSET Data
  BY TypeParts, MemTypes, ContentsTypes DEF DbTypeOK
<1>2. /\ mem.snapshot = disk.snapshot /\ LiveTables # {} /\ plan[c] = {}
      /\ \A t \in Tables : Refilled(c, t)
      /\ mem.user.counter = RestoredCounter(disk.snapshot, disk.user.counter)
  BY DEF WorkInv, RestoreOf
<1>3. \A t \in Tables : mem.user.tables[t].cols = disk.user.tables[t].cols
  BY <1>2 DEF Refilled
<1>4. Store!Restorable(disk.snapshot)
  BY <1>2, <1>3 DEF Store!Restorable, Refilled, Exists
<1>5. \E t \in Tables : disk.user.tables[t].cols > 0
  BY <1>2, <1>3 DEF LiveTables, Exists
<1>6. mem.user.counter = Store!Restored(disk.snapshot).counter
  BY <1>2, <1>5 DEF RestoredCounter, Store!Restored
<1>7. ASSUME NEW t \in Tables
      PROVE  mem.user.tables[t] = Store!Restored(disk.snapshot).tables[t]
  <2>1. mem.user.tables[t] = [cols |-> mem.user.tables[t].cols, rows |-> mem.user.tables[t].rows]
    <3>1. mem.user.tables[t] \in TableContents
      BY <1>1, DataTypes
    <3> QED BY <3>1 DEF TableContents
  <2>2. Store!Restored(disk.snapshot).tables[t] =
           [cols |-> disk.user.tables[t].cols,
            rows |-> IF \E s \in disk.snapshot : s.tables[t].cols > 0
                     THEN (CHOOSE s \in disk.snapshot : TRUE).tables[t].rows ELSE 0]
    BY DEF Store!Restored
  <2>3. CASE Held(t)
    <3>1. PICK s \in disk.snapshot : s.tables[t].cols > 0
      BY <1>2, <2>3 DEF Held, Exists
    <3>2. (CHOOSE r \in disk.snapshot : TRUE) = s
      BY <3>1 DEF DataInv, AtMostOne
    <3>3. mem.user.tables[t].rows = s.tables[t].rows
      BY <1>2, <3>1 DEF Refilled, Exists
    <3> QED BY <1>3, <2>1, <2>2, <3>1, <3>2, <3>3
  <2>4. CASE ~Held(t)
    <3>1. mem.user.tables[t].rows = 0 /\ ~ \E s \in disk.snapshot : s.tables[t].cols > 0
      BY <1>2, <2>4 DEF Refilled, Held, Exists
    <3> QED BY <1>3, <2>1, <2>2, <3>1
  <2> QED BY <2>3, <2>4
<1>8. mem.user.tables = Store!Restored(disk.snapshot).tables
  <2>1. mem.user.tables \in [Tables -> TableContents]
    BY <1>1, DataTypes
  <2>2. Store!Restored(disk.snapshot).tables
          = [t \in Tables |-> Store!Restored(disk.snapshot).tables[t]]
    BY RestoredTables
  <2> QED BY <1>7, <2>1, <2>2
<1>9. mem.user = [tables |-> mem.user.tables, counter |-> mem.user.counter]
  BY <1>1, DataTypes
<1>10. Store!Restored(disk.snapshot) = [tables |-> Store!Restored(disk.snapshot).tables,
                                        counter |-> Store!Restored(disk.snapshot).counter]
  BY DEF Store!Restored
<1> QED BY <1>2, <1>4, <1>6, <1>8, <1>9, <1>10

\* With no table to empty there is nothing to do.
LEMMA NothingToRestore ==
    ASSUME TypeOK, SessionInv, DataInv, WorkInv, NEW c \in Calls, at[c] = "plan",
           tables[c] = {}, ~(had[c] /\ Drifted)
    PROVE  Store!Restorable(disk.snapshot) /\ disk.user = Store!Restored(disk.snapshot)
<1>1. disk.user \in Data /\ disk.snapshot \in SUBSET Data
  BY TypeParts, ContentsTypes DEF DbTypeOK
<1>2. mem = disk
  BY RunningInBlock DEF Running, Steps, ResetSteps, InBlock, Copying, Restoring, RollingBack
<1>3. LiveTables = {} /\ had[c] = (mem.snapshot # {})
  BY DEF WorkInv, RestoreOf
<1>4. \A t \in Tables : /\ disk.user.tables[t] = NoTable
                        /\ disk.user.tables[t].cols = 0 /\ disk.user.tables[t].rows = 0
  BY <1>2, <1>3 DEF LiveTables, DataInv, WellFormed, NoTable
<1>5. \A s \in disk.snapshot, t \in Tables : ~(s.tables[t].cols > 0)
  <2>1. ~Drifted
    BY <1>3 DEF Drifted, Saved
  <2> QED BY <1>2, <1>4, <2>1, DriftedHeld DEF Exists
<1>6. Store!Restorable(disk.snapshot)
  BY <1>5 DEF Store!Restorable
<1>7. Store!Restored(disk.snapshot).counter = disk.user.counter
  BY <1>4 DEF Store!Restored
<1>8. \A t \in Tables : Store!Restored(disk.snapshot).tables[t] = [cols |-> 0, rows |-> 0]
  BY <1>4, <1>5 DEF Store!Restored
<1>9. Store!Restored(disk.snapshot).tables = disk.user.tables
  <2>1. disk.user.tables \in [Tables -> TableContents]
    BY <1>1, DataTypes
  <2>2. Store!Restored(disk.snapshot).tables
          = [t \in Tables |-> Store!Restored(disk.snapshot).tables[t]]
    BY RestoredTables
  <2> QED BY <1>4, <1>8, <2>1, <2>2 DEF NoTable
<1>10. disk.user = [tables |-> disk.user.tables, counter |-> disk.user.counter]
  BY <1>1, DataTypes
<1>11. Store!Restored(disk.snapshot) = [tables |-> Store!Restored(disk.snapshot).tables,
                                        counter |-> Store!Restored(disk.snapshot).counter]
  BY DEF Store!Restored
<1> QED BY <1>6, <1>7, <1>9, <1>10, <1>11

\* What each statement of snapshotDb is to SnapshotStore: the COMMIT is the effect.
LEMMA SnapshotDbRefines ==
    ASSUME TypeOK, SessionInv, DataInv, WorkInv, NEW c \in Calls, snapshotDb(c)
    PROVE  [Store!StoreNext]_(Store!vars)
<1> USE Moves
<1>0. DbTypeOK
  BY TypeParts
<1>1. op' = op /\ ManagerStep(c) /\ \A b \in Calls \ {c} : at'[b] = at[b]
  BY StatementKindsLemma DEF ManagerStep
<1>2. op[c] = "snapshot"
  BY DEF SessionInv, StepsFit, SnapshotSteps, snapshotDb, sweep, beginCopy, create, list, copy,
         copySequences, dropOld, rename, commitCopy, rollbackCopy, tidy, Move
<1>3. CASE sweep(c) \/ tidy(c)
  <2>1. /\ at[c] \in {"sweep", "tidy"} /\ Running(c)
        /\ at'[c] = IF at[c] = "sweep" THEN "beginCopy" ELSE "failed"
    BY <1>3 DEF sweep, tidy, Running, Steps, SnapshotSteps
  <2>2. mem = disk /\ ~xact
    BY <2>1, RunningInBlock DEF InBlock, Copying, Restoring, RollingBack
  <2>3. mem'.user = mem.user /\ mem'.snapshot = mem.snapshot /\ disk' = mem'
    <3>1. Exec([mem EXCEPT !.staging = NoSchema])
      BY <1>3 DEF sweep, tidy
    <3> QED BY <1>0, <2>2, <3>1, ExecParts
  <2>4. Durable
    BY <1>1, <2>2, <2>3 DEF Durable
  <2>5. Phase(c) = "running" /\ Phase(c)' = IF at[c] = "sweep" THEN "running" ELSE "failed"
    BY <2>1, PhaseIs, PhaseIsNext DEF Running, Steps, SnapshotSteps, ResetSteps, DropSteps
  <2> QED BY <1>1, <2>4, <2>5, CallRefines DEF Store!StoreNext
<1>4. CASE commitCopy(c)
  <2>1. /\ at[c] = "commitCopy" /\ at'[c] = "ok" /\ disk' = mem /\ ~closed
    BY <1>4 DEF commitCopy, Commit
  <2>2. mem.user = disk.user /\ mem.snapshot = {mem.user}
    BY <2>1 DEF WorkInv, CopyOf
  <2>3. Store!Effect(c)
    BY <1>2, <2>1, <2>2 DEF Store!Effect
  <2>4. Phase(c) = "running" /\ Phase(c)' = "ok"
    BY <2>1, PhaseIs, PhaseIsNext DEF Running, Steps, SnapshotSteps, ResetSteps, DropSteps
  <2> QED BY <1>1, <1>2, <2>3, <2>4, CallRefines DEF Store!StoreNext
<1>5. CASE beginCopy(c) \/ rollbackCopy(c)
  <2>1. at[c] \in {"beginCopy", "rollbackCopy"} /\ at'[c] \in {"create", "tidy"} /\ disk' = disk
    BY <1>5 DEF beginCopy, rollbackCopy, Begin, Rollback
  <2>2. Phase(c) = "running" /\ Phase(c)' = "running"
    BY <2>1, PhaseIs, PhaseIsNext DEF Running, Steps, SnapshotSteps, ResetSteps, DropSteps
  <2> QED BY <1>1, <2>1, <2>2, CallRefines DEF Durable
<1>6. CASE create(c) \/ list(c) \/ copy(c) \/ copySequences(c) \/ dropOld(c) \/ rename(c)
  <2>1. at[c] \in Copying /\ at'[c] \in Copying \cup {"commitCopy"} /\ ~closed
    BY <1>6 DEF create, list, copy, copySequences, dropOld, rename, Exec, Reads, Copying
  <2>2. disk' = disk
    <3>1. xact
      BY <2>1, RunningInBlock DEF InBlock
    <3> QED BY <1>6, <3>1 DEF create, list, copy, copySequences, dropOld, rename, Exec, Reads,
                              dbVars
  <2>3. Phase(c) = "running" /\ Phase(c)' = "running"
    BY <2>1, PhaseIs, PhaseIsNext
       DEF Copying, Running, Steps, SnapshotSteps, ResetSteps, DropSteps
  <2> QED BY <1>1, <2>2, <2>3, CallRefines DEF Durable
<1> QED BY <1>3, <1>4, <1>5, <1>6 DEF snapshotDb

\* The first DROP of resetSnapshot is its effect.
LEMMA ResetSnapshotRefines ==
    ASSUME TypeOK, SessionInv, DataInv, NEW c \in Calls, resetSnapshot(c)
    PROVE  [Store!StoreNext]_(Store!vars)
<1> USE Moves
<1>0. DbTypeOK
  BY TypeParts
<1>1. op' = op /\ ManagerStep(c) /\ \A b \in Calls \ {c} : at'[b] = at[b]
  BY StatementKindsLemma DEF ManagerStep
<1>2. at[c] \in {"drop", "dropStaging"} /\ Running(c)
  BY DEF resetSnapshot, Running, Steps, DropSteps
<1>3. op[c] = "drop"
  BY <1>2 DEF SessionInv, StepsFit, DropSteps
<1>4. mem = disk /\ ~xact
  BY <1>2, RunningInBlock DEF InBlock, Copying, Restoring, RollingBack
<1>5. CASE Move(c, "drop", "dropStaging") /\ Exec([mem EXCEPT !.snapshot = NoSchema])
  <2>1. disk'.user = disk.user /\ disk'.snapshot = {}
    <3>1. Exec([mem EXCEPT !.snapshot = {}])
      BY <1>5 DEF NoSchema
    <3>2. mem'.user = mem.user /\ mem'.snapshot = {} /\ disk' = IF xact THEN disk ELSE mem'
      BY <1>0, <3>1, ExecParts
    <3> QED BY <1>4, <3>2
  <2>2. Store!Effect(c)
    BY <1>3, <2>1 DEF Store!Effect
  <2>3. Phase(c) = "running" /\ Phase(c)' = "finishing"
    BY <1>2, <1>5, PhaseIs, PhaseIsNext
  <2> QED BY <1>1, <1>3, <2>2, <2>3, CallRefines DEF Store!StoreNext
<1>6. CASE Move(c, "dropStaging", "ok") /\ Exec([mem EXCEPT !.staging = NoSchema])
  <2>1. disk'.user = disk.user /\ disk'.snapshot = disk.snapshot
    <3>2. /\ mem'.user = mem.user /\ mem'.snapshot = mem.snapshot
          /\ disk' = IF xact THEN disk ELSE mem'
      BY <1>0, <1>6, ExecParts
    <3> QED BY <1>4, <3>2
  <2>2. Phase(c) = "finishing" /\ Phase(c)' = "ok"
    BY <1>6, PhaseIs, PhaseIsNext DEF Running, Steps, SnapshotSteps, ResetSteps, DropSteps
  <2> QED BY <1>1, <2>1, <2>2, CallRefines DEF Durable, Store!StoreNext
<1> QED BY <1>5, <1>6 DEF resetSnapshot

\* The COMMIT of resetDb is its effect, or the plan if there is no table.
LEMMA ResetDbRefines ==
    ASSUME TypeOK, SessionInv, DataInv, WorkInv, NEW c \in Calls, resetDb(c)
    PROVE  [Store!StoreNext]_(Store!vars)
<1> USE Moves
<1>0. DbTypeOK
  BY TypeParts
<1>1. op' = op /\ ManagerStep(c) /\ \A b \in Calls \ {c} : at'[b] = at[b]
  BY StatementKindsLemma DEF ManagerStep
<1>2. op[c] \in {"reset", "resetInSession"}
  BY DEF SessionInv, StepsFit, ResetSteps, resetDb, snapshotSchemaExists, getTables, restorePlan,
         beginRestore, truncate, refill, setval, commitRestore, rollbackRestore, scrub, Move
<1>3. \* the effect is made, and what is left is the scrub
      ASSUME at[c] \in {"plan", "commit"}, at'[c] = AfterRestore(c), Store!Effect(c)
      PROVE  Store!StoreNext
  <2>1. Phase(c) = "running"
    BY <1>3, PhaseIs DEF Running, Steps, ResetSteps
  <2>2. Phase(c)' = IF op[c] = "reset" THEN "finishing" ELSE "ok"
    BY <1>3, PhaseIsNext
       DEF AfterRestore, Running, Steps, SnapshotSteps, ResetSteps, DropSteps
  <2> QED BY <1>1, <1>2, <1>3, <2>1, <2>2, CallRefines DEF Store!StoreNext
<1>4. CASE restorePlan(c)
  <2>1. at[c] = "plan" /\ disk' = disk
    BY <1>4 DEF restorePlan, dbVars
  <2>2. Phase(c) = "running"
    BY <2>1, PhaseIs DEF Running, Steps, ResetSteps
  <2>3. CASE at'[c] = "failed"
    BY <1>1, <2>1, <2>2, <2>3, PhaseIsNext, CallRefines
       DEF Durable, Store!StoreNext, Running, Steps, SnapshotSteps, ResetSteps, DropSteps
  <2>4. CASE at'[c] = "begin"
    BY <1>1, <2>1, <2>2, <2>4, PhaseIsNext, CallRefines DEF Durable, Running, Steps, ResetSteps
  <2>5. CASE ~(had[c] /\ Drifted) /\ tables[c] = {} /\ at'[c] = AfterRestore(c)
    <3>1. Store!Restorable(disk.snapshot) /\ disk.user = Store!Restored(disk.snapshot)
      BY <2>1, <2>5, NothingToRestore
    <3>2. Store!Effect(c)
      BY <1>2, <2>1, <3>1 DEF Store!Effect, Store!IsReset
    <3> QED BY <1>3, <2>1, <2>5, <3>2
  <2> QED BY <1>4, <2>3, <2>4, <2>5 DEF restorePlan
<1>5. CASE commitRestore(c)
  <2>1. at[c] = "commit" /\ at'[c] = AfterRestore(c) /\ disk' = mem /\ ~closed
    BY <1>5 DEF commitRestore, Commit
  <2>2. /\ mem.snapshot = disk.snapshot
        /\ Store!Restorable(disk.snapshot) /\ mem.user = Store!Restored(disk.snapshot)
    BY <2>1, RestoreHasItsEffect
  <2>3. Store!Effect(c)
    BY <1>2, <2>1, <2>2 DEF Store!Effect, Store!IsReset
  <2> QED BY <1>3, <2>1, <2>3
<1>6. CASE rollbackRestore(c) \/ scrub(c)
  <2>1. /\ disk' = disk
        /\ \/ at[c] = "rollback" /\ at'[c] = "failed"
           \/ at[c] = "scrub" /\ at'[c] = "ok"
    BY <1>6 DEF rollbackRestore, scrub, Rollback
  <2>2. \/ Phase(c) = "running" /\ Phase(c)' = "failed"
        \/ Phase(c) = "finishing" /\ Phase(c)' = "ok"
    BY <2>1, PhaseIs, PhaseIsNext DEF Running, Steps, SnapshotSteps, ResetSteps, DropSteps
  <2> QED BY <1>1, <2>1, <2>2, CallRefines DEF Durable, Store!StoreNext
<1>7. CASE snapshotSchemaExists(c) \/ getTables(c) \/ beginRestore(c)
  <2>1. /\ at[c] \in {"look", "getTables", "begin"}
        /\ at'[c] \in {"getTables", "plan", "truncate"} /\ disk' = disk
    BY <1>7 DEF snapshotSchemaExists, getTables, beginRestore, Reads, Begin, dbVars
  <2>2. Phase(c) = "running" /\ Phase(c)' = "running"
    BY <2>1, PhaseIs, PhaseIsNext DEF Running, Steps, ResetSteps
  <2> QED BY <1>1, <2>1, <2>2, CallRefines DEF Durable
<1>8. CASE truncate(c) \/ refill(c) \/ setval(c)
  <2>1. at[c] \in Restoring /\ at'[c] \in Restoring \cup {"commit"} /\ ~closed
    BY <1>8 DEF truncate, refill, setval, Exec, Reads, Restoring
  <2>2. disk' = disk
    <3>1. xact
      BY <2>1, RunningInBlock DEF InBlock
    <3> QED BY <1>8, <3>1 DEF truncate, refill, setval, Exec, Reads, dbVars
  <2>3. Phase(c) = "running" /\ Phase(c)' = "running"
    BY <2>1, PhaseIs, PhaseIsNext DEF Restoring, Running, Steps, ResetSteps
  <2> QED BY <1>1, <2>2, <2>3, CallRefines DEF Durable
<1> QED BY <1>4, <1>5, <1>6, <1>7, <1>8 DEF resetDb

\* A statement that fails makes no effect.
LEMMA FailureRefines ==
    ASSUME TypeOK, NEW c \in Calls, OperationFails(c)
    PROVE  [Store!StoreNext]_(Store!vars)
<1>1. /\ Running(c) /\ at' = [at EXCEPT ![c] = OnError(at[c])]
      /\ UNCHANGED <<disk, op>>
  BY DEF OperationFails, statementFails, dbVars
<1>2. at'[c] = OnError(at[c]) /\ \A b \in Calls \ {c} : at'[b] = at[b]
  BY <1>1, TypeParts DEF ManagerTypeOK
<1>3. Phase(c) \in {"running", "finishing"}
  BY <1>1, PhaseIs
<1>4. CASE at'[c] = "failed"
  <2>1. Phase(c)' = "failed"
    BY <1>4, PhaseIsNext DEF Running, Steps, SnapshotSteps, ResetSteps, DropSteps
  <2> QED BY <1>1, <1>2, <1>3, <2>1, CallRefines DEF Durable, Store!StoreNext
<1>5. CASE at'[c] # "failed"
  <2>1. at[c] \notin {"scrub", "dropStaging"} /\ at'[c] \in {"rollbackCopy", "rollback"}
    BY <1>2, <1>5 DEF OnError
  <2>2. Phase(c) = "running" /\ Phase(c)' = "running"
    BY <1>1, <2>1, PhaseIs, PhaseIsNext DEF Running, Steps, SnapshotSteps, ResetSteps
  <2> QED BY <1>1, <1>2, <2>2, CallRefines DEF Durable
<1> QED BY <1>4, <1>5

\* The death of the process.
LEMMA RestartRefines ==
    ASSUME TypeOK, Restart
    PROVE  Store!StoreNext
<1>1. /\ at' = [c \in Calls |-> IF at[c] \in Settled \cup {"none"} THEN at[c] ELSE "lost"]
      /\ UNCHANGED <<disk, op>>
  BY DEF Restart, loseCalls, Gone
<1>2. \A c \in Calls : Phase(c)' = IF Phase(c) \in Settled \cup {"none"} THEN Phase(c) ELSE "lost"
  <2> SUFFICES ASSUME NEW c \in Calls
               PROVE  Phase(c)' = IF Phase(c) \in Settled \cup {"none"} THEN Phase(c) ELSE "lost"
    OBVIOUS
  <2>1. at'[c] = IF at[c] \in Settled \cup {"none"} THEN at[c] ELSE "lost"
    BY <1>1
  <2>2. Phase(c)' = at'[c]
    BY <2>1, PhaseIsNext DEF Settled, Running, Steps, SnapshotSteps, ResetSteps, DropSteps
  <2>3. CASE Running(c)
    BY <2>1, <2>2, <2>3, PhaseIs DEF Settled, Running, Steps, SnapshotSteps, ResetSteps, DropSteps
  <2>4. CASE ~Running(c)
    BY <2>1, <2>2, <2>4, PhaseIs
  <2> QED BY <2>3, <2>4
<1>3. Phases' = [c \in Calls |-> IF Phases[c] \in Settled \cup {"none"} THEN Phases[c] ELSE "lost"]
  BY <1>2 DEF Phases
<1> QED BY <1>1, <1>3 DEF Store!StoreNext, Store!Die, Store!Settled, Settled, Phases

\* What the application does between the operations.
LEMMA OthersRefine ==
    ASSUME TypeOK, TypeOK', DataInv, BetweenOperations
    PROVE  [Store!StoreNext]_(Store!vars)
<1>1. UNCHANGED <<op, at>>
  BY DEF BetweenOperations, managerVars
<1>2. Phases' = Phases
  BY <1>1 DEF Phases, Phase, Running
<1>3. CASE UNCHANGED disk
  BY <1>1, <1>2, <1>3 DEF Phases, Store!vars
<1>4. CASE ~UNCHANGED disk
  <2>1. /\ ~SomeRunning /\ mem.snapshot = disk.snapshot
        /\ disk' \in {mem, mem'}
        /\ disk' = mem \/ mem'.snapshot \in {mem.snapshot, NoSchema}
    BY <1>4 DEF BetweenOperations, Begin, Commit, Rollback, Wrote, DataInv
  <2>2. \A c \in Calls : Phases[c] \notin {"running", "finishing"}
    <3> SUFFICES ASSUME NEW c \in Calls PROVE Phase(c) \notin {"running", "finishing"}
      BY DEF Phases
    <3>1. Phase(c) = at[c] /\ ~Running(c)
      BY <2>1, PhaseIs DEF SomeRunning
    <3>2. at[c] \in Steps \cup Settled \cup {"none", "queued"}
      BY TypeParts DEF ManagerTypeOK
    <3> QED BY <3>1, <3>2 DEF Running, Settled
  <2>3. disk'.user \in Data /\ disk'.snapshot \in {disk.snapshot, {}}
    <3>1. disk'.user \in Data
      BY TypeParts DEF DbTypeOK, Contents
    <3> QED BY <2>1, <3>1 DEF NoSchema
  <2>4. Store!Others
    BY <1>1, <1>2, <2>2, <2>3 DEF Phases, Store!Others
  <2> QED BY <2>4 DEF Store!StoreNext
<1> QED BY <1>3, <1>4

\* The first state is one of SnapshotStore's.
LEMMA InitRefines == Init => Store!StoreInit
<1> SUFFICES ASSUME Init PROVE Store!StoreInit
  OBVIOUS
<1>1. /\ disk.user \in Data /\ disk.snapshot = {}
      /\ op \in [Calls -> Operations] /\ \A c \in Calls : at[c] = "none"
  BY BridgeAssumption DEF Init, ManagerInit, NoSchema, Operations
<1>2. \A c \in Calls : Phase(c) = "none"
  BY <1>1, PhaseIs DEF Running, Steps, SnapshotSteps, ResetSteps, DropSteps
<1> QED BY <1>1, <1>2 DEF Store!StoreInit, Store!Asks, Operations

\* Every step is one of SnapshotStore's, or changes nothing it sees.
LEMMA NextRefines ==
    TypeOK /\ TypeOK' /\ SessionInv /\ DataInv /\ WorkInv /\ [Next]_vars
      => [Store!StoreNext]_(Store!vars)
<1> SUFFICES ASSUME TypeOK, TypeOK', SessionInv, DataInv, WorkInv, [Next]_vars
             PROVE  [Store!StoreNext]_(Store!vars)
  OBVIOUS
<1>1. CASE Clash \/ UNCHANGED vars \/ Close
  <2>1. UNCHANGED <<disk, op, at>>
    BY <1>1 DEF Clash, Close, Gone, vars, dbVars, managerVars
  <2>2. Phases' = Phases
    BY <2>1 DEF Phases, Phase, Running
  <2> QED BY <2>1, <2>2 DEF Phases, Store!vars
<1>2. ASSUME NEW c \in Calls, NEW operation \in Operations, assertPoolIdle(c, operation)
      PROVE  Store!StoreNext
  <2>1. /\ at[c] = "none" /\ op' = [op EXCEPT ![c] = operation] /\ UNCHANGED disk
        /\ \E s \in {"refused", "queued"} : at' = [at EXCEPT ![c] = s]
    BY <1>2 DEF assertPoolIdle, enqueue, dbVars
  <2>2. PICK s \in {"refused", "queued"} : at' = [at EXCEPT ![c] = s]
    BY <2>1
  <2>3. at'[c] = s /\ \A b \in Calls \ {c} : at'[b] = at[b]
    BY <2>2, TypeParts DEF ManagerTypeOK
  <2>4. Phase(c) = "none" /\ Phase(c)' = s
    BY <2>1, <2>3, PhaseIs, PhaseIsNext
       DEF Running, Steps, SnapshotSteps, ResetSteps, DropSteps
  <2>5. Phases' = [Phases EXCEPT ![c] = s] /\ Phases[c] = "none"
    BY <2>3, <2>4 DEF Phases, Phase, Running
  <2>6. Store!Ask(c)
    BY <2>1, <2>5 DEF Phases, Store!Ask, Store!Asks, Operations
  <2> QED BY <2>6 DEF Store!StoreNext
<1>3. ASSUME NEW c \in Calls, OperationStep(c)
      PROVE  [Store!StoreNext]_(Store!vars)
  <2>1. CASE serialize(c) /\ ~(at[c] = "queued" /\ xact)
    <3>1. /\ at[c] = "queued" /\ at'[c] \in {"sweep", "drop", "look"}
          /\ UNCHANGED <<disk, op>> /\ \A b \in Calls : b < c => at[b] \in Settled
      BY <2>1, Moves DEF serialize, Begins, FirstStep, dbVars
    <3>2. \A b \in Calls \ {c} : at'[b] = at[b]
      BY <2>1, StatementKindsLemma DEF ManagerStep
    <3>3. Phase(c) = "queued" /\ Phase(c)' = "running"
      BY <3>1, PhaseIs, PhaseIsNext DEF Running, Steps, SnapshotSteps, ResetSteps, DropSteps
    <3>4. Store!Run(c)
      BY <3>1, <3>2, <3>3, CallRefines DEF Durable
    <3> QED BY <3>4 DEF Store!StoreNext
  <2> QED BY <1>1, <1>3, <2>1, SnapshotDbRefines, ResetSnapshotRefines, ResetDbRefines
          DEF OperationStep, ManagerStep
<1>4. ASSUME NEW c \in Calls, OperationFails(c)
      PROVE  [Store!StoreNext]_(Store!vars)
  BY <1>4, FailureRefines
<1>5. CASE Connect \/ Dispatch \/ ClientReleased \/ ClientQueries \/ CleanupRollback
  BY <1>5, ClientsBetween, OthersRefine
<1>6. CASE RawSQL \/ PushMigrations \/ PushProceeds \/ PushAborts \/ Operator
  BY <1>6, ApplicationBetween, OthersRefine
<1>7. CASE Restart
  BY <1>7, RestartRefines
<1> QED BY <1>1, <1>2, <1>3, <1>4, <1>5, <1>6, <1>7 DEF Next

\* Whatever fails, closes or dies between the statements of an operation, it has
\* its whole effect on the durable data or none, in the order of the calls.
THEOREM SnapshotsAreAtomic == Spec => SnapshotsAtomic
<1>1. Spec => Store!StoreInit /\ [][Store!StoreNext]_(Store!vars)
  BY InitRefines, NextRefines, BridgeTypes, Session, Work, PTL DEF Spec
<1> QED BY <1>1 DEF SnapshotsAtomic, Store!StoreSpec
=============================================================================
