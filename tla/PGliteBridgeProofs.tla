------------------------- MODULE PGliteBridgeProofs -------------------------
(***************************************************************************)
(* Proofs about PGliteBridge: its types; who owns the session; and from    *)
(* that, that a staging schema is only swept away, that an operation       *)
(* meets a client only as the idle check allows, and that the session's    *)
(* settings are scrubbed last.  Then, of pushMigrations, what the history  *)
(* says of the scripts that took effect, whatever fails, dies, is edited   *)
(* or is resolved by hand.  SnapshotProofs goes on from the invariants     *)
(* proved here.                                                            *)
(***************************************************************************)
EXTENDS PGliteBridge, SequenceTheorems, FiniteSetTheorems, WellFoundedInduction, TLAPS

-----------------------------------------------------------------------------
(* The database. *)

\* The database's part of TypeOK.
DbTypeOK == /\ disk \in Contents(Row) /\ mem \in Contents(Row)
            /\ xact \in BOOLEAN /\ closed \in BOOLEAN /\ settings \in {"default", "set"}

\* What a table of a Data may hold.
TableContents == [cols : 0..2, rows : Tokens]

\* What an exec leaves behind, schema by schema.
Stores(user, snapshot, staging, history) ==
    /\ ~closed /\ UNCHANGED <<xact, settings, closed>>
    /\ mem' = [user |-> user, snapshot |-> snapshot, staging |-> staging, history |-> history]
    /\ disk' = IF xact THEN disk ELSE mem'

\* The parts of the database, of one schema, and of what the session sees.
LEMMA ContentsTypes ==
    ASSUME NEW x \in Contents(Row)
    PROVE  /\ x.user \in Data /\ x.snapshot \in SUBSET Data /\ x.staging \in SUBSET Data
           /\ x.history \in Seq(Row)
           /\ x = [user |-> x.user, snapshot |-> x.snapshot, staging |-> x.staging,
                   history |-> x.history]
BY DEF Contents

\* The parts of one schema's data.
LEMMA DataTypes ==
    ASSUME NEW data \in Data
    PROVE  /\ data.tables \in [Tables -> TableContents] /\ data.counter \in Tokens
           /\ \A t \in Tables : /\ data.tables[t] \in TableContents
                                /\ data.tables[t].cols \in 0..2 /\ data.tables[t].rows \in Tokens
           /\ data = [tables |-> data.tables, counter |-> data.counter]
           /\ \A ts \in [Tables -> TableContents], k \in Tokens :
                 [tables |-> ts, counter |-> k] \in Data
BY DEF Data, TableContents

\* What an exec that replaces one schema, or the history, leaves of the others.
LEMMA ExecStores ==
    ASSUME DbTypeOK
    PROVE  /\ Exec(mem) => Stores(mem.user, mem.snapshot, mem.staging, mem.history)
           /\ \A s : Exec([mem EXCEPT !.staging = s])
                        => Stores(mem.user, mem.snapshot, s, mem.history)
           /\ \A s : Exec([mem EXCEPT !.snapshot = s])
                        => Stores(mem.user, s, mem.staging, mem.history)
           /\ \A s, r : Exec([mem EXCEPT !.snapshot = s, !.staging = r])
                        => Stores(mem.user, s, r, mem.history)
           /\ \A h : Exec([mem EXCEPT !.history = h])
                        => Stores(mem.user, mem.snapshot, mem.staging, h)
           /\ \A u : Exec([mem EXCEPT !.user = u])
                        => Stores(u, mem.snapshot, mem.staging, mem.history)
BY ContentsTypes DEF DbTypeOK, Exec, Stores, Contents

\* An exec of well-typed contents leaves a well-typed database.
LEMMA StoresTypes ==
    ASSUME DbTypeOK, NEW u \in Data, NEW s \in SUBSET Data, NEW r \in SUBSET Data,
           NEW h \in Seq(Row), Stores(u, s, r, h)
    PROVE  DbTypeOK'
BY DEF DbTypeOK, Stores, Contents

\* The parts of what the session sees.
LEMMA MemTypes ==
    ASSUME DbTypeOK
    PROVE  /\ mem.user \in Data /\ mem.snapshot \in SUBSET Data /\ mem.staging \in SUBSET Data
           /\ mem.history \in Seq(Row)
BY ContentsTypes DEF DbTypeOK

\* What a write to the user's tables leaves of them.
LEMMA ExecTable ==
    ASSUME DbTypeOK, NEW t \in Tables, NEW x \in TableContents,
           \/ Exec([mem EXCEPT !.user.tables[t] = x])
           \/ x.cols = mem.user.tables[t].cols /\ Exec([mem EXCEPT !.user.tables[t].rows = x.rows])
           \/ x.rows = mem.user.tables[t].rows /\ Exec([mem EXCEPT !.user.tables[t].cols = x.cols])
    PROVE  Stores([tables |-> [mem.user.tables EXCEPT ![t] = x], counter |-> mem.user.counter],
                  mem.snapshot, mem.staging, mem.history)
<1>1. mem.user \in Data /\ mem.user.tables \in [Tables -> TableContents]
  BY MemTypes, DataTypes
<1>2. x = [cols |-> x.cols, rows |-> x.rows]
  BY DEF TableContents
<1>3. mem.user.tables[t] = [cols |-> mem.user.tables[t].cols, rows |-> mem.user.tables[t].rows]
  BY <1>1 DEF TableContents
<1>4. mem.user = [tables |-> mem.user.tables, counter |-> mem.user.counter]
  BY <1>1, DataTypes
<1>5. CASE Exec([mem EXCEPT !.user.tables[t] = x])
  <2>1. [mem EXCEPT !.user.tables[t] = x]
           = [mem EXCEPT !.user = [mem.user EXCEPT !.tables = [mem.user.tables EXCEPT ![t] = x]]]
    OBVIOUS
  <2>2. [mem.user EXCEPT !.tables = [mem.user.tables EXCEPT ![t] = x]]
           = [tables |-> [mem.user.tables EXCEPT ![t] = x], counter |-> mem.user.counter]
    BY <1>1 DEF Data
  <2> QED BY <1>5, <2>1, <2>2, ExecStores
<1>6. CASE x.cols = mem.user.tables[t].cols /\ Exec([mem EXCEPT !.user.tables[t].rows = x.rows])
  <2>1. [mem EXCEPT !.user.tables[t].rows = x.rows]
           = [mem EXCEPT !.user.tables[t] = [mem.user.tables[t] EXCEPT !.rows = x.rows]]
    OBVIOUS
  <2>2. [mem.user.tables[t] EXCEPT !.rows = x.rows] = x
    BY <1>1, <1>2, <1>6 DEF TableContents
  <2> QED BY <1>5, <1>6, <2>1, <2>2
<1>7. CASE x.rows = mem.user.tables[t].rows /\ Exec([mem EXCEPT !.user.tables[t].cols = x.cols])
  <2>1. [mem EXCEPT !.user.tables[t].cols = x.cols]
           = [mem EXCEPT !.user.tables[t] = [mem.user.tables[t] EXCEPT !.cols = x.cols]]
    OBVIOUS
  <2>2. [mem.user.tables[t] EXCEPT !.cols = x.cols] = x
    BY <1>1, <1>2, <1>7 DEF TableContents
  <2> QED BY <1>5, <1>7, <2>1, <2>2
<1> QED BY <1>5, <1>6, <1>7

\* The same for all tables at once, and for the sequence that no table owns.
LEMMA ExecTables ==
    ASSUME DbTypeOK, NEW ts, Exec([mem EXCEPT !.user.tables = ts])
    PROVE  Stores([tables |-> ts, counter |-> mem.user.counter],
                  mem.snapshot, mem.staging, mem.history)
<1>1. [mem EXCEPT !.user.tables = ts] = [mem EXCEPT !.user = [mem.user EXCEPT !.tables = ts]]
  OBVIOUS
<1>2. [mem.user EXCEPT !.tables = ts] = [tables |-> ts, counter |-> mem.user.counter]
  BY MemTypes DEF Data
<1> QED BY <1>1, <1>2, ExecStores

\* The same for the sequence that no table owns.
LEMMA ExecCounter ==
    ASSUME DbTypeOK, NEW k, Exec([mem EXCEPT !.user.counter = k])
    PROVE  Stores([tables |-> mem.user.tables, counter |-> k],
                  mem.snapshot, mem.staging, mem.history)
<1>1. [mem EXCEPT !.user.counter = k] = [mem EXCEPT !.user = [mem.user EXCEPT !.counter = k]]
  OBVIOUS
<1>2. [mem.user EXCEPT !.counter = k] = [tables |-> mem.user.tables, counter |-> k]
  BY MemTypes DEF Data
<1> QED BY <1>1, <1>2, ExecStores

\* Reading and transaction control store nothing new.
LEMMA BeginCommitTypes ==
    ASSUME DbTypeOK, Reads \/ Begin \/ Commit \/ Rollback \/ UNCHANGED dbVars
    PROVE  DbTypeOK'
BY DEF DbTypeOK, Reads, Begin, Commit, Rollback, dbVars

-----------------------------------------------------------------------------
(* Type correctness. *)

\* Where a call can be.
AtStates == Steps \cup Settled \cup {"none", "queued"}

\* The bridge's own part of TypeOK.
BridgeTypeOK == /\ client \in ClientStates /\ events \in 0..MaxEvents
                /\ excused \in BOOLEAN /\ clashed \in BOOLEAN

\* TypeOK, part by part.
LEMMA TypeParts ==
    /\ TypeOK <=> DbTypeOK /\ ManagerTypeOK /\ PushTypeOK /\ BridgeTypeOK
    /\ TypeOK' <=> DbTypeOK' /\ ManagerTypeOK' /\ PushTypeOK' /\ BridgeTypeOK'
BY DEF TypeOK, DbTypeOK, BridgeTypeOK

\* Where a step of an operation leads, and what it forgets, are of their types.
LEMMA ManagerTypes ==
    ASSUME ManagerTypeOK, NEW c \in Calls,
           op' = op,
           at' = at \/ \E s \in AtStates : at' = [at EXCEPT ![c] = s],
           tables' = tables \/ \E ts \in SUBSET Tables : tables' = [tables EXCEPT ![c] = ts],
           plan' = plan \/ \E ts \in SUBSET Tables : plan' = [plan EXCEPT ![c] = ts],
           had' = had \/ \E b \in BOOLEAN : had' = [had EXCEPT ![c] = b]
    PROVE  ManagerTypeOK'
BY DEF ManagerTypeOK, AtStates

\* The parts of Steps and Settled are places where a call can be.
LEMMA StepNames ==
    /\ SnapshotSteps \subseteq AtStates /\ ResetSteps \subseteq AtStates
    /\ DropSteps \subseteq AtStates /\ Settled \subseteq AtStates
    /\ \A operation : FirstStep(operation) \in AtStates
    /\ \A step : OnError(step) \in AtStates
    /\ \A c : AfterRestore(c) \in AtStates
BY DEF AtStates, Steps, SnapshotSteps, ResetSteps, DropSteps, Settled, FirstStep, OnError,
       AfterRestore

\* Each statement of snapshotDb, of resetSnapshot and of resetDb keeps the types.
LEMMA SnapshotDbTypes ==
    ASSUME DbTypeOK, ManagerTypeOK, NEW c \in Calls, snapshotDb(c)
    PROVE  DbTypeOK' /\ ManagerTypeOK'
<1> USE MemTypes
<1>1. CASE sweep(c) \/ tidy(c) \/ dropOld(c)
  <2>1. DbTypeOK'
    BY <1>1, ExecStores, StoresTypes DEF sweep, tidy, dropOld, NoSchema
  <2>2. ManagerTypeOK'
    BY <1>1, ManagerTypes, StepNames DEF sweep, tidy, dropOld, Move, SnapshotSteps, Settled
  <2> QED BY <2>1, <2>2
<1>2. CASE beginCopy(c) \/ list(c) \/ commitCopy(c) \/ rollbackCopy(c)
  <2>1. DbTypeOK'
    BY <1>2, BeginCommitTypes DEF beginCopy, list, commitCopy, rollbackCopy
  <2>2. ManagerTypeOK'
    BY <1>2, ManagerTypes, StepNames
       DEF beginCopy, list, commitCopy, rollbackCopy, Move, SnapshotSteps, Settled, LiveTables
  <2> QED BY <2>1, <2>2
<1>3. CASE create(c)
  <2>1. EmptyDatabase \in Data
    BY DatabaseAssumption DEF EmptyDatabase, NoTable, Data, Tokens
  <2>2. DbTypeOK'
    BY <1>3, <2>1, ExecStores, StoresTypes DEF create
  <2>3. ManagerTypeOK'
    BY <1>3, ManagerTypes, StepNames DEF create, Move, SnapshotSteps
  <2> QED BY <2>2, <2>3
<1>4. CASE copy(c)
  <2>1. CASE tables[c] = {} /\ Move(c, "copy", "copySequences") /\ Reads
             /\ UNCHANGED <<op, tables, plan, had>>
    BY <2>1, BeginCommitTypes, ManagerTypes, StepNames DEF Move, SnapshotSteps
  <2>2. ASSUME NEW t \in tables[c], UNCHANGED <<at, op, plan, had>>,
               tables' = [tables EXCEPT ![c] = @ \ {t}],
               Exec([mem EXCEPT !.staging =
                     {[s EXCEPT !.tables[t] = mem.user.tables[t]] : s \in mem.staging}])
        PROVE  DbTypeOK' /\ ManagerTypeOK'
    <3>1. t \in Tables /\ tables[c] \ {t} \in SUBSET Tables
      BY DEF ManagerTypeOK
    <3>2. \A s \in mem.staging : [s EXCEPT !.tables[t] = mem.user.tables[t]] \in Data
      BY <3>1, DataTypes DEF Data, TableContents
    <3>3. {[s EXCEPT !.tables[t] = mem.user.tables[t]] : s \in mem.staging} \in SUBSET Data
      BY <3>2
    <3>4. DbTypeOK'
      BY <2>2, <3>3, ExecStores, StoresTypes
    <3>5. ManagerTypeOK'
      BY <2>2, <3>1, ManagerTypes
    <3> QED BY <3>4, <3>5
  <2> QED BY <1>4, <2>1, <2>2 DEF copy
<1>5. CASE copySequences(c)
  <2>1. \A s \in mem.staging : [s EXCEPT !.counter = mem.user.counter] \in Data
    BY DataTypes DEF Data
  <2>2. {[s EXCEPT !.counter = mem.user.counter] : s \in mem.staging} \in SUBSET Data
    BY <2>1
  <2>3. DbTypeOK'
    BY <1>5, <2>2, ExecStores, StoresTypes DEF copySequences
  <2>4. ManagerTypeOK'
    BY <1>5, ManagerTypes, StepNames DEF copySequences, Move, SnapshotSteps
  <2> QED BY <2>3, <2>4
<1>6. CASE rename(c)
  <2>1. DbTypeOK'
    BY <1>6, ExecStores, StoresTypes DEF rename, NoSchema
  <2>2. ManagerTypeOK'
    BY <1>6, ManagerTypes, StepNames DEF rename, Move, SnapshotSteps
  <2> QED BY <2>1, <2>2
<1> QED BY <1>1, <1>2, <1>3, <1>4, <1>5, <1>6 DEF snapshotDb

\* Those of resetSnapshot.
LEMMA ResetSnapshotTypes ==
    ASSUME DbTypeOK, ManagerTypeOK, NEW c \in Calls, resetSnapshot(c)
    PROVE  DbTypeOK' /\ ManagerTypeOK'
<1>1. DbTypeOK'
  BY MemTypes, ExecStores, StoresTypes DEF resetSnapshot, NoSchema
<1>2. ManagerTypeOK'
  BY ManagerTypes, StepNames DEF resetSnapshot, Move, DropSteps, Settled
<1> QED BY <1>1, <1>2

\* Those of resetDb.
LEMMA ResetDbTypes ==
    ASSUME DbTypeOK, ManagerTypeOK, NEW c \in Calls, resetDb(c)
    PROVE  DbTypeOK' /\ ManagerTypeOK'
<1> USE MemTypes
<1>1. CASE snapshotSchemaExists(c) \/ getTables(c) \/ beginRestore(c) \/ commitRestore(c)
           \/ rollbackRestore(c)
  <2>1. DbTypeOK'
    BY <1>1, BeginCommitTypes
       DEF snapshotSchemaExists, getTables, beginRestore, commitRestore, rollbackRestore
  <2>2. ManagerTypeOK'
    BY <1>1, ManagerTypes, StepNames
       DEF snapshotSchemaExists, getTables, beginRestore, commitRestore, rollbackRestore,
           Move, ResetSteps, Settled, LiveTables
  <2> QED BY <2>1, <2>2
<1>2. CASE restorePlan(c)
  <2>1. DbTypeOK'
    BY <1>2, BeginCommitTypes DEF restorePlan
  <2>2. {t \in Tables : Saved(t) # {}} \in SUBSET Tables
    OBVIOUS
  <2>3. ManagerTypeOK'
    BY <1>2, <2>2, ManagerTypes, StepNames DEF restorePlan, Move, ResetSteps, Settled
  <2> QED BY <2>1, <2>3
<1>3. CASE truncate(c)
  <2> DEFINE ts == [t \in Tables |-> IF t \in tables[c] THEN [mem.user.tables[t] EXCEPT !.rows = 0]
                                    ELSE mem.user.tables[t]]
  <2>1. ts \in [Tables -> TableContents]
    BY DataTypes, DatabaseAssumption DEF TableContents, Tokens
  <2>2. Stores([tables |-> ts, counter |-> mem.user.counter],
               mem.snapshot, mem.staging, mem.history)
    BY <1>3, ExecTables DEF truncate
  <2> HIDE DEF ts
  <2>3. DbTypeOK'
    BY <2>1, <2>2, DataTypes, StoresTypes
  <2>4. ManagerTypeOK'
    BY <1>3, ManagerTypes, StepNames DEF truncate, Move, ResetSteps
  <2> QED BY <2>3, <2>4
<1>4. CASE refill(c)
  <2>1. CASE plan[c] = {} /\ Move(c, "refill", IF had[c] THEN "setval" ELSE "commit") /\ Reads
             /\ had' = [had EXCEPT ![c] = FALSE] /\ UNCHANGED <<op, tables, plan>>
    BY <2>1, BeginCommitTypes, ManagerTypes, StepNames DEF Move, ResetSteps
  <2>2. ASSUME NEW t \in plan[c], UNCHANGED <<at, op, tables, had>>,
               plan' = [plan EXCEPT ![c] = @ \ {t}],
               NEW s \in Saved(t), Exec([mem EXCEPT !.user.tables[t].rows = s.rows])
        PROVE  DbTypeOK' /\ ManagerTypeOK'
    <3>1. t \in Tables /\ plan[c] \ {t} \in SUBSET Tables
      BY DEF ManagerTypeOK
    <3>2. s.rows \in Tokens
      BY <3>1, DataTypes DEF Saved
    <3> DEFINE x == [cols |-> mem.user.tables[t].cols, rows |-> s.rows]
    <3>3. x \in TableContents
      BY <3>1, <3>2, DataTypes DEF TableContents
    <3>4. Stores([tables |-> [mem.user.tables EXCEPT ![t] = x], counter |-> mem.user.counter],
                 mem.snapshot, mem.staging, mem.history)
      BY <2>2, <3>1, <3>3, ExecTable
    <3>5. DbTypeOK'
      BY <3>1, <3>3, <3>4, DataTypes, StoresTypes
    <3>6. ManagerTypeOK'
      BY <2>2, <3>1, ManagerTypes
    <3> QED BY <3>5, <3>6
  <2> QED BY <1>4, <2>1, <2>2 DEF refill
<1>5. CASE setval(c)
  <2> DEFINE k == IF \E s \in mem.snapshot : s.counter > 0
                  THEN (CHOOSE s \in mem.snapshot : TRUE).counter ELSE mem.user.counter
  <2>1. k \in Tokens
    BY DataTypes
  <2>2. Stores([tables |-> mem.user.tables, counter |-> k], mem.snapshot, mem.staging, mem.history)
    BY <1>5, ExecCounter DEF setval
  <2> HIDE DEF k
  <2>3. DbTypeOK'
    BY <2>1, <2>2, DataTypes, StoresTypes
  <2>4. ManagerTypeOK'
    BY <1>5, ManagerTypes, StepNames DEF setval, Move, ResetSteps
  <2> QED BY <2>3, <2>4
<1>6. CASE scrub(c)
  <2>1. DbTypeOK'
    BY <1>6 DEF scrub, DbTypeOK
  <2>2. ManagerTypeOK'
    BY <1>6, ManagerTypes, StepNames DEF scrub, Move, Settled
  <2> QED BY <2>1, <2>2
<1> QED BY <1>1, <1>2, <1>3, <1>4, <1>5, <1>6 DEF resetDb

\* So does any step of the snapshot manager,
LEMMA ManagerStepTypes ==
    ASSUME DbTypeOK, ManagerTypeOK, NEW c \in Calls, ManagerStep(c)
    PROVE  DbTypeOK' /\ ManagerTypeOK'
<1>1. CASE serialize(c)
  <2>1. DbTypeOK'
    BY <1>1, BeginCommitTypes DEF serialize, Begins
  <2>2. ManagerTypeOK'
    BY <1>1, ManagerTypes, StepNames DEF serialize, Begins, Move
  <2> QED BY <2>1, <2>2
<1> QED BY <1>1, SnapshotDbTypes, ResetSnapshotTypes, ResetDbTypes DEF ManagerStep

\* The first script of the directory that is still to be applied exists.
LEMMA NextScriptPending ==
    ASSUME Pending # {}
    PROVE  NextScript \in Pending /\ \A n \in Pending : NextScript <= n
<1>1. Pending \in SUBSET Nat
  BY MigrationsAssumption DEF Pending
<1>2. PICK n \in Pending : \A m \in Pending : <<m, n>> \notin OpToRel(<, Nat)
  BY <1>1, NatLessThanWellFounded, WFMin
<1>3. \A m \in Pending : ~(m < n)
  BY <1>1, <1>2 DEF OpToRel
<1>4. \A m \in Pending : n <= m
  BY <1>1, <1>3
<1> QED BY <1>4 DEF NextScript

\* The row that a migration starts with is the last one.
LEMMA StartedRow ==
    ASSUME DbTypeOK, mem.history # <<>>
    PROVE  /\ Len(mem.history) \in DOMAIN mem.history /\ Started \in Row
           /\ Started.name \in Names /\ TableOf(Started.name) \in Tables
<1>1. mem.history \in Seq(Row) /\ Len(mem.history) \in 1..Len(mem.history)
  BY MemTypes, EmptySeq, LenProperties
<1>2. Started \in Row
  BY <1>1, ElementOfSeq DEF Started
<1>3. Started.name \in Names
  BY <1>2 DEF Row
<1> QED BY <1>1, <1>2, <1>3, LenProperties, MigrationsAssumption

\* any step of pushMigrations,
LEMMA PushStepTypes ==
    ASSUME DbTypeOK, PushTypeOK, PushStep
    PROVE  DbTypeOK' /\ PushTypeOK'
<1> USE MemTypes
<1>1. CASE createTable
  <2>1. DbTypeOK'
    BY <1>1, ExecStores, StoresTypes DEF createTable
  <2> QED BY <1>1, <2>1 DEF createTable, PushTypeOK
<1>2. CASE validateHistory \/ allApplied
  <2>1. DbTypeOK'
    BY <1>2, BeginCommitTypes DEF validateHistory, allApplied
  <2> QED BY <1>2, <2>1 DEF validateHistory, allApplied, Settles, PushTypeOK
<1>3. CASE startMigration
  <2> DEFINE row == [name |-> NextScript, text |-> scripts[NextScript],
                     finished |-> FALSE, rolledBack |-> FALSE]
  <2>1. NextScript \in Names /\ scripts[NextScript] # Missing
    BY <1>3, NextScriptPending DEF startMigration, Pending
  <2>2. row \in Row
    BY <2>1 DEF Row, PushTypeOK
  <2>3. Append(mem.history, row) \in Seq(Row)
    BY <2>2, AppendProperties
  <2>4. DbTypeOK'
    BY <1>3, <2>3, ExecStores, StoresTypes DEF startMigration
  <2> QED BY <1>3, <2>4 DEF startMigration, PushTypeOK
<1>4. CASE runScript
  <2> DEFINE t == TableOf(Started.name)
             n == IF mem.user.tables[t].cols = 0 THEN 1 ELSE mem.user.tables[t].cols
             x == [cols |-> n, rows |-> mem.user.tables[t].rows]
  <2>1. ASSUME t \in Tables PROVE DbTypeOK'
    <3>1. x \in TableContents
      BY <2>1, DataTypes DEF TableContents
    <3>2. Exec([mem EXCEPT !.user.tables[t].cols = x.cols])
      BY <1>4 DEF runScript
    <3>3. Stores([tables |-> [mem.user.tables EXCEPT ![t] = x], counter |-> mem.user.counter],
                 mem.snapshot, mem.staging, mem.history)
      BY <2>1, <3>1, <3>2, ExecTable
    <3> HIDE DEF x
    <3> QED BY <2>1, <3>1, <3>3, DataTypes, StoresTypes
  <2>2. ASSUME t \notin Tables PROVE DbTypeOK'
    <3>1. mem.user.tables \in [Tables -> TableContents]
      BY DataTypes
    <3>2. [mem EXCEPT !.user.tables[t].cols = n] = [mem EXCEPT !.user.tables = mem.user.tables]
      BY <2>2, <3>1
    <3>3. Stores([tables |-> mem.user.tables, counter |-> mem.user.counter],
                 mem.snapshot, mem.staging, mem.history)
      BY <1>4, <3>2, ExecTables DEF runScript
    <3> QED BY <3>3, DataTypes, StoresTypes
  <2>3. DbTypeOK'
    BY <2>1, <2>2
  <2>4. /\ push' = "markFinished" /\ UNCHANGED <<files, scripts>>
        /\ ran' = [ran EXCEPT ![Started.name] = ran[Started.name] + 1]
    BY <1>4 DEF runScript
  <2>5. ran' \in [Names -> Nat]
    <3> DEFINE name == Started.name
    <3>1. ran' = [ran EXCEPT ![name] = ran[name] + 1] /\ ran \in [Names -> Nat]
      BY <2>4 DEF PushTypeOK
    <3> HIDE DEF name
    <3>2. ASSUME NEW m \in Names PROVE (IF m = name THEN ran[name] + 1 ELSE ran[m]) \in Nat
      BY <3>1
    <3> QED BY <3>1, <3>2
  <2>6. PushTypeOK'
    BY <2>4, <2>5 DEF PushTypeOK
  <2> QED BY <2>3, <2>6
<1>5. CASE markFinished
  <2> DEFINE n == Len(mem.history)
             h == [mem.history EXCEPT ![n].finished = TRUE]
  <2>1. h \in Seq(Row)
    <3>1. CASE mem.history = <<>>
      <4>1. n = 0 /\ DOMAIN mem.history = {}
        BY <3>1
      <4>2. h = mem.history
        BY <3>1, <4>1
      <4> QED BY <4>2
    <3>2. CASE mem.history # <<>>
      <4> DEFINE row == [mem.history[n] EXCEPT !.finished = TRUE]
      <4>1. n \in 1..Len(mem.history) /\ mem.history[n] \in Row
        BY <3>2, StartedRow, LenProperties DEF Started
      <4>2. row \in Row
        BY <4>1 DEF Row
      <4>3. h = [mem.history EXCEPT ![n] = row]
        OBVIOUS
      <4> HIDE DEF n, h, row
      <4> QED BY <4>1, <4>2, <4>3, ExceptSeq
    <3> QED BY <3>1, <3>2
  <2>2. DbTypeOK'
    BY <1>5, <2>1, ExecStores, StoresTypes DEF markFinished
  <2> QED BY <1>5, <2>2 DEF markFinished, PushTypeOK
<1> QED BY <1>1, <1>2, <1>3, <1>4, <1>5 DEF PushStep

\* the operator's edits of files and history,
LEMMA OperatorTypes ==
    ASSUME DbTypeOK, PushTypeOK, EditFile \/ ResolveByHand
    PROVE  DbTypeOK' /\ PushTypeOK'
<1>1. CASE EditFile
  BY <1>1, BeginCommitTypes DEF EditFile, PushTypeOK
<1>2. CASE ResolveByHand
  <2>1. PICK k \in Unfinished :
          LET name == mem.history[k].name
              closedRow == [mem.history EXCEPT ![k].rolledBack = TRUE]
          IN \/ Exec([mem EXCEPT !.history = closedRow])
             \/ /\ files[name] # Missing
                /\ Exec([mem EXCEPT !.history = Append(closedRow,
                      [name |-> name, text |-> files[name],
                       finished |-> TRUE, rolledBack |-> FALSE])])
    BY <1>2 DEF ResolveByHand
  <2> DEFINE name == mem.history[k].name
             gone == [mem.history[k] EXCEPT !.rolledBack = TRUE]
             done == [name |-> name, text |-> files[name],
                      finished |-> TRUE, rolledBack |-> FALSE]
             closedRow == [mem.history EXCEPT ![k] = gone]
  <2>2. mem.history \in Seq(Row) /\ k \in 1..Len(mem.history) /\ mem.history[k] \in Row
    BY MemTypes, LenProperties, ElementOfSeq DEF Unfinished, Active
  <2>3. gone \in Row /\ (files[name] # Missing => done \in Row)
    BY <2>2 DEF Row, PushTypeOK
  <2>4. /\ closedRow \in Seq(Row)
        /\ files[name] # Missing => Append(closedRow, done) \in Seq(Row)
    BY <2>2, <2>3, ExceptSeq, AppendProperties
  <2>5. \/ Exec([mem EXCEPT !.history = closedRow])
        \/ files[name] # Missing /\ Exec([mem EXCEPT !.history = Append(closedRow, done)])
    BY <2>1
  <2>6. DbTypeOK'
    BY <2>4, <2>5, MemTypes, ExecStores, StoresTypes
  <2> QED BY <1>2, <2>6 DEF ResolveByHand, pushVars, PushTypeOK
<1> QED BY <1>1, <1>2

\* the pool client's statements,
LEMMA ClientTypes ==
    ASSUME DbTypeOK, ClientStatement
    PROVE  DbTypeOK'
<1> USE MemTypes
<1>1. CASE (~xact /\ Begin) \/ (xact /\ (Commit \/ Rollback))
  BY <1>1, BeginCommitTypes
<1>2. ASSUME NEW t \in LiveTables, NEW token \in Tokens,
             Exec([mem EXCEPT !.user.tables[t].rows = token])
      PROVE  DbTypeOK'
  <2> DEFINE x == [cols |-> mem.user.tables[t].cols, rows |-> token]
  <2>1. t \in Tables /\ x \in TableContents
    BY DataTypes DEF LiveTables, TableContents
  <2>2. Stores([tables |-> [mem.user.tables EXCEPT ![t] = x], counter |-> mem.user.counter],
               mem.snapshot, mem.staging, mem.history)
    BY <1>2, <2>1, ExecTable
  <2> QED BY <2>1, <2>2, DataTypes, StoresTypes
<1>3. ASSUME NEW token \in Tokens, Exec([mem EXCEPT !.user.counter = token])
      PROVE  DbTypeOK'
  <2>1. Stores([tables |-> mem.user.tables, counter |-> token],
               mem.snapshot, mem.staging, mem.history)
    BY <1>3, ExecCounter
  <2> QED BY <2>1, DataTypes, StoresTypes
<1>4. CASE settings' = "set" /\ UNCHANGED <<disk, mem, xact, closed>>
  BY <1>4 DEF DbTypeOK
<1> QED BY <1>1, <1>2, <1>3, <1>4 DEF ClientStatement

\* the application's own SQL,
LEMMA RawTypes ==
    ASSUME DbTypeOK, RawSQL
    PROVE  DbTypeOK'
<1> USE MemTypes
<1>1. ASSUME NEW t \in Tables, NEW n \in 0..2,
             Exec([mem EXCEPT !.user.tables[t] = IF n = 0 THEN NoTable ELSE [@ EXCEPT !.cols = n]])
      PROVE  DbTypeOK'
  <2> DEFINE x == IF n = 0 THEN NoTable ELSE [mem.user.tables[t] EXCEPT !.cols = n]
  <2>1. x \in TableContents
    BY DataTypes, DatabaseAssumption DEF TableContents, NoTable, Tokens
  <2>2. Stores([tables |-> [mem.user.tables EXCEPT ![t] = x], counter |-> mem.user.counter],
               mem.snapshot, mem.staging, mem.history)
    BY <1>1, <2>1, ExecTable
  <2> HIDE DEF x
  <2> QED BY <2>1, <2>2, DataTypes, StoresTypes
<1>2. CASE Exec([mem EXCEPT !.snapshot = NoSchema])
  BY <1>2, ExecStores, StoresTypes DEF NoSchema
<1> QED BY <1>1, <1>2 DEF RawSQL

\* the end of the instance,
LEMMA GoneTypes ==
    ASSUME DbTypeOK, Gone, closed' \in BOOLEAN, settings' \in {"default", "set"}
    PROVE  DbTypeOK'
BY DEF DbTypeOK, Gone

\* and the loss of what was outstanding.
LEMMA LoseCallsTypes ==
    ASSUME ManagerTypeOK, loseCalls
    PROVE  ManagerTypeOK'
BY DEF ManagerTypeOK, loseCalls, Settled

\* The first process opens a well-typed database.
LEMMA InitTypes == Init => TypeOK
<1> SUFFICES ASSUME Init PROVE TypeOK
  OBVIOUS
<1>1. DbTypeOK
  <2>1. <<>> \in Seq(Row)
    BY EmptySeq
  <2> QED BY <2>1, BridgeAssumption DEF Init, DbTypeOK, Contents, NoSchema
<1>2. ManagerTypeOK
  BY DEF Init, ManagerInit, ManagerTypeOK, Operations
<1>3. PushTypeOK
  BY MigrationsAssumption DEF Init, PushInit, PushTypeOK
<1>4. BridgeTypeOK
  <2>1. client = "idle" /\ excused = FALSE /\ clashed = FALSE /\ events = 0
    BY DEF Init
  <2>2. MaxEvents \in Nat
    BY BridgeAssumption
  <2>3. events \in 0..MaxEvents
    BY <2>1, <2>2
  <2> QED BY <2>1, <2>3 DEF ClientStates, BridgeTypeOK
<1> QED BY <1>1, <1>2, <1>3, <1>4, TypeParts

\* Every step keeps the types.
LEMMA NextTypes == TypeOK /\ [Next]_vars => TypeOK'
<1> SUFFICES ASSUME TypeOK, [Next]_vars PROVE TypeOK'
  OBVIOUS
<1> USE TypeParts
<1>1. Happens => events' \in 0..MaxEvents
  BY BridgeAssumption DEF Happens, BridgeTypeOK
<1>2. CASE Clash /\ (UNCHANGED events \/ Happens)
  <2>1. DbTypeOK' /\ ManagerTypeOK' /\ PushTypeOK'
    BY <1>2, BeginCommitTypes DEF Clash, managerVars, ManagerTypeOK, pushVars, PushTypeOK
  <2> QED BY <1>1, <1>2, <2>1 DEF Clash, BridgeTypeOK
<1>3. ASSUME NEW c \in Calls, NEW operation \in Operations, assertPoolIdle(c, operation)
      PROVE  TypeOK'
  <2>1. DbTypeOK' /\ PushTypeOK'
    BY <1>3, BeginCommitTypes DEF assertPoolIdle, pushVars, PushTypeOK
  <2>2. ManagerTypeOK'
    BY <1>3 DEF assertPoolIdle, enqueue, ManagerTypeOK, Settled
  <2>3. BridgeTypeOK'
    BY <1>1, <1>3 DEF assertPoolIdle, BridgeTypeOK
  <2> QED BY <2>1, <2>2, <2>3
<1>4. ASSUME NEW c \in Calls, OperationStep(c)
      PROVE  TypeOK'
  <2>1. CASE ManagerStep(c) /\ UNCHANGED <<pushVars, bridgeVars>>
    BY <2>1, ManagerStepTypes DEF pushVars, PushTypeOK, bridgeVars, BridgeTypeOK
  <2> QED BY <1>2, <1>4, <2>1 DEF OperationStep
<1>5. ASSUME NEW c \in Calls, OperationFails(c)
      PROVE  TypeOK'
  <2>1. DbTypeOK' /\ PushTypeOK'
    BY <1>5, BeginCommitTypes DEF OperationFails, statementFails, pushVars, PushTypeOK
  <2>2. ManagerTypeOK'
    BY <1>5, ManagerTypes, StepNames DEF OperationFails, statementFails
  <2>3. BridgeTypeOK'
    BY <1>1, <1>5 DEF OperationFails, BridgeTypeOK
  <2> QED BY <2>1, <2>2, <2>3
<1>6. CASE Connect \/ Dispatch \/ ClientReleased
  <2>1. DbTypeOK' /\ ManagerTypeOK' /\ PushTypeOK'
    BY <1>6, BeginCommitTypes
       DEF Connect, Dispatch, ClientReleased, managerVars, ManagerTypeOK, pushVars, PushTypeOK
  <2>2. BridgeTypeOK'
    BY <1>1, <1>6 DEF Connect, Dispatch, ClientReleased, ClientStates, BridgeTypeOK
  <2> QED BY <2>1, <2>2
<1>7. CASE ClientQueries
  <2>1. CASE /\ Happens /\ ClientStatement
             /\ UNCHANGED <<managerVars, pushVars, client, excused, clashed>>
    BY <1>1, <2>1, ClientTypes
       DEF managerVars, ManagerTypeOK, pushVars, PushTypeOK, BridgeTypeOK
  <2> QED BY <1>2, <1>7, <2>1 DEF ClientQueries
<1>8. CASE CleanupRollback
  <2>1. CASE /\ Rollback /\ client' = "idle"
             /\ UNCHANGED <<managerVars, pushVars, excused, clashed, events>>
    BY <2>1, BeginCommitTypes
       DEF managerVars, ManagerTypeOK, pushVars, PushTypeOK, ClientStates, BridgeTypeOK
  <2> QED BY <1>2, <1>8, <2>1 DEF CleanupRollback
<1>9. CASE RawSQL
  BY <1>1, <1>9, RawTypes
     DEF RawSQL, managerVars, ManagerTypeOK, pushVars, PushTypeOK, BridgeTypeOK
<1>10. CASE PushMigrations
  <2>1. DbTypeOK' /\ PushTypeOK'
    BY <1>10, BeginCommitTypes DEF PushMigrations, resolveMigrations, PushTypeOK
  <2> QED BY <1>1, <1>10, <2>1 DEF PushMigrations, managerVars, ManagerTypeOK, BridgeTypeOK
<1>11. CASE PushProceeds
  BY <1>11, PushStepTypes DEF PushProceeds, managerVars, ManagerTypeOK, bridgeVars, BridgeTypeOK
<1>12. CASE PushAborts
  <2>1. DbTypeOK' /\ PushTypeOK'
    BY <1>12, BeginCommitTypes DEF PushAborts, pushFails, Settles, PushTypeOK
  <2> QED BY <1>1, <1>12, <2>1 DEF PushAborts, managerVars, ManagerTypeOK, BridgeTypeOK
<1>13. CASE Operator
  BY <1>1, <1>13, OperatorTypes DEF Operator, managerVars, ManagerTypeOK, BridgeTypeOK
<1>14. CASE Close
  BY <1>1, <1>14, GoneTypes
     DEF Close, DbTypeOK, managerVars, ManagerTypeOK, pushVars, PushTypeOK, BridgeTypeOK
<1>15. CASE Restart
  <2>1. DbTypeOK' /\ ManagerTypeOK'
    BY <1>15, GoneTypes, LoseCallsTypes DEF Restart
  <2>2. PushTypeOK'
    BY <1>15 DEF Restart, Settles, PushTypeOK
  <2>3. BridgeTypeOK'
    BY <1>1, <1>15 DEF Restart, ClientStates, BridgeTypeOK
  <2> QED BY <2>1, <2>2, <2>3
<1>16. CASE UNCHANGED vars
  <2>1. DbTypeOK' /\ ManagerTypeOK' /\ PushTypeOK'
    BY <1>16, BeginCommitTypes DEF vars, managerVars, ManagerTypeOK, pushVars, PushTypeOK
  <2> QED BY <1>16, <2>1 DEF vars, bridgeVars, BridgeTypeOK
<1> QED BY <1>3, <1>4, <1>5, <1>6, <1>7, <1>8, <1>9, <1>10, <1>11, <1>12, <1>13, <1>14, <1>15,
           <1>16 DEF Next

\* Every reachable state is of its types, for any tables, migrations, number of
\* calls and events.
THEOREM BridgeTypes == Spec => []TypeOK
BY InitTypes, NextTypes, PTL DEF Spec
-----------------------------------------------------------------------------
(* Who owns the session. *)

\* The statements between a BEGIN and its COMMIT, and the ROLLBACKs.
Copying == {"create", "list", "copy", "copySequences", "dropOld", "rename"}
Restoring == {"truncate", "refill", "setval"}
InBlock == Copying \cup Restoring \cup {"commitCopy", "commit"}
RollingBack == {"rollbackCopy", "rollback"}

\* One exec of some contents, and no change of the database at all.
Wrote == /\ ~closed /\ UNCHANGED <<xact, settings, closed>>
         /\ disk' = IF xact THEN disk ELSE mem'
\* No change of the database.
Kept == UNCHANGED dbVars

\* Where a statement leads.
LeadsTo(c, step) == at'[c] = step

\* The statements of an operation by what they do to the session, and where
\* they lead when they succeed.
StatementKinds(c) ==
    \/ /\ at[c] = "queued" /\ \A b \in Calls : b < c => at[b] \in Settled
       /\ Kept /\ LeadsTo(c, FirstStep(op[c]))
    \/ /\ \/ at[c] = "sweep" /\ LeadsTo(c, "beginCopy")
          \/ at[c] = "tidy" /\ LeadsTo(c, "failed")
          \/ at[c] = "drop" /\ LeadsTo(c, "dropStaging")
          \/ at[c] = "dropStaging" /\ LeadsTo(c, "ok")
       /\ Wrote /\ mem'.user = mem.user /\ mem'.history = mem.history
    \/ /\ at[c] \in Copying /\ (Kept \/ Wrote) /\ ~closed /\ mem'.history = mem.history
       /\ \E step \in Copying \cup {"commitCopy"} : LeadsTo(c, step)
    \/ /\ at[c] \in Restoring /\ (Kept \/ Wrote) /\ ~closed /\ mem'.history = mem.history
       /\ \E step \in Restoring \cup {"commit"} : LeadsTo(c, step)
    \/ /\ at[c] \in {"look", "getTables", "plan"} /\ Kept
       /\ \E step \in {"getTables", "plan", "begin", "failed", AfterRestore(c)} : LeadsTo(c, step)
    \/ /\ \/ at[c] = "beginCopy" /\ LeadsTo(c, "create")
          \/ at[c] = "begin" /\ LeadsTo(c, "truncate")
       /\ Begin
    \/ /\ \/ at[c] = "commitCopy" /\ LeadsTo(c, "ok")
          \/ at[c] = "commit" /\ LeadsTo(c, AfterRestore(c))
       /\ Commit
    \/ /\ \/ at[c] = "rollbackCopy" /\ LeadsTo(c, "tidy")
          \/ at[c] = "rollback" /\ LeadsTo(c, "failed")
       /\ Rollback
    \/ /\ at[c] = "scrub" /\ settings' = "default" /\ UNCHANGED <<disk, mem, xact, closed>>
       /\ LeadsTo(c, "ok")

\* Every step of the manager is of one of these kinds, and moves no other call.
LEMMA StatementKindsLemma ==
    ASSUME TypeOK, NEW c \in Calls, ManagerStep(c)
    PROVE  /\ StatementKinds(c)
           /\ op' = op /\ \A b \in Calls \ {c} : at'[b] = at[b]
<1> USE TypeParts
<1>1. \A from, to : Move(c, from, to) => /\ at[c] = from /\ at'[c] = to
                                         /\ \A b \in Calls \ {c} : at'[b] = at[b]
  BY DEF ManagerTypeOK, Move
<1>2. \A u, s, r, h : Stores(u, s, r, h) => Wrote /\ ~closed /\ mem'.user = u /\ mem'.history = h
  BY DEF Stores, Wrote
<1>3. CASE serialize(c)
  BY <1>1, <1>3 DEF serialize, Begins, StatementKinds, Kept, LeadsTo
<1>4. CASE snapshotDb(c)
  <2>1. CASE sweep(c) \/ tidy(c)
    <3>1. Wrote /\ mem'.user = mem.user /\ mem'.history = mem.history
      BY <1>2, <2>1, ExecStores DEF sweep, tidy
    <3> QED BY <1>1, <2>1, <3>1 DEF sweep, tidy, StatementKinds, LeadsTo
  <2>2. CASE beginCopy(c) \/ commitCopy(c) \/ rollbackCopy(c)
    BY <1>1, <2>2 DEF beginCopy, commitCopy, rollbackCopy, StatementKinds, RollingBack, LeadsTo
  <2>3. CASE create(c) \/ copySequences(c) \/ dropOld(c) \/ rename(c)
    <3>1. \/ \E r : Exec([mem EXCEPT !.staging = r])
          \/ \E r : Exec([mem EXCEPT !.snapshot = r])
          \/ \E r, q : Exec([mem EXCEPT !.snapshot = r, !.staging = q])
      BY <2>3 DEF create, copySequences, dropOld, rename
    <3>2. Wrote /\ ~closed /\ mem'.history = mem.history
      BY <1>2, <3>1, ExecStores
    <3> QED BY <1>1, <2>3, <3>2 DEF create, copySequences, dropOld, rename, Copying,
                             StatementKinds, LeadsTo
  <2>4. CASE list(c)
    BY <1>1, <2>4 DEF list, Reads, Copying, StatementKinds, Kept, LeadsTo, dbVars
  <2>5. CASE copy(c)
    <3>1. CASE Move(c, "copy", "copySequences") /\ Reads /\ UNCHANGED <<op, tables, plan, had>>
      BY <1>1, <3>1 DEF Reads, Copying, StatementKinds, Kept, LeadsTo, dbVars
    <3>2. ASSUME NEW s, at[c] = "copy", UNCHANGED <<at, op>>, Exec([mem EXCEPT !.staging = s])
          PROVE  StatementKinds(c) /\ op' = op /\ \A b \in Calls \ {c} : at'[b] = at[b]
      <4>1. Wrote /\ ~closed /\ mem'.history = mem.history
        BY <1>2, <3>2, ExecStores DEF Exec
      <4> QED BY <1>1, <3>2, <4>1 DEF Copying, StatementKinds, LeadsTo
    <3> QED BY <2>5, <3>1, <3>2 DEF copy
  <2> QED BY <1>4, <2>1, <2>2, <2>3, <2>4, <2>5 DEF snapshotDb
<1>5. CASE resetSnapshot(c)
  BY <1>1, <1>2, <1>5, ExecStores DEF resetSnapshot, StatementKinds, LeadsTo
<1>6. CASE resetDb(c)
  <2>1. CASE snapshotSchemaExists(c) \/ getTables(c) \/ restorePlan(c)
    BY <1>1, <2>1 DEF snapshotSchemaExists, getTables, restorePlan, Reads, StatementKinds, Kept,
                LeadsTo
  <2>2. CASE beginRestore(c) \/ commitRestore(c) \/ rollbackRestore(c)
    BY <1>1, <2>2 DEF beginRestore, commitRestore, rollbackRestore, StatementKinds, RollingBack,
                LeadsTo
  <2>3. CASE truncate(c)
    <3>1. \E ts : Exec([mem EXCEPT !.user.tables = ts])
      BY <2>3 DEF truncate
    <3>2. Wrote /\ ~closed /\ mem'.history = mem.history
      BY <1>2, <3>1, ExecTables
    <3> QED BY <1>1, <2>3, <3>2 DEF truncate, Restoring, StatementKinds, LeadsTo
  <2>4. CASE refill(c)
    <3>1. CASE \E step \in {"setval", "commit"} : Move(c, "refill", step) /\ Reads /\ op' = op
      BY <1>1, <3>1 DEF Reads, Restoring, StatementKinds, Kept, LeadsTo, dbVars
    <3>2. ASSUME NEW t, NEW k, at[c] = "refill", UNCHANGED <<at, op>>,
                 Exec([mem EXCEPT !.user.tables[t].rows = k])
          PROVE  StatementKinds(c) /\ op' = op /\ \A b \in Calls \ {c} : at'[b] = at[b]
      <4>1. \E u : Exec([mem EXCEPT !.user = u])
        BY <3>2
      <4>2. Wrote /\ ~closed /\ mem'.history = mem.history
        BY <1>2, <4>1, ExecStores
      <4> QED BY <1>1, <3>2, <4>2 DEF Restoring, StatementKinds, LeadsTo
    <3> QED BY <2>4, <3>1, <3>2 DEF refill
  <2>5. CASE setval(c)
    <3>1. \E k : Exec([mem EXCEPT !.user.counter = k])
      BY <2>5 DEF setval
    <3>2. Wrote /\ ~closed /\ mem'.history = mem.history
      BY <1>2, <3>1, ExecCounter
    <3> QED BY <1>1, <2>5, <3>2 DEF setval, Restoring, StatementKinds, LeadsTo
  <2>6. CASE scrub(c)
    BY <1>1, <2>6 DEF scrub, StatementKinds, LeadsTo
  <2> QED BY <1>6, <2>1, <2>2, <2>3, <2>4, <2>5, <2>6 DEF resetDb
<1> QED BY <1>3, <1>4, <1>5, <1>6 DEF ManagerStep

\* A call begins when those before it have settled, so at most one runs.
OneAtATime == \A c, b \in Calls : b < c /\ Running(c) => at[b] \in Settled

\* A call sends the statements of what it was asked for.
StepsFit == \A c \in Calls : /\ at[c] \in SnapshotSteps => op[c] = "snapshot"
                             /\ at[c] \in ResetSteps => op[c] \in {"reset", "resetInSession"}
                             /\ at[c] \in DropSteps => op[c] = "drop"
                             /\ at[c] = "scrub" => op[c] = "reset"

\* A transaction block is the running call's, between its BEGIN and its COMMIT
\* or ROLLBACK, or else the client's; without one the session sees the disk.
BlocksOwned == /\ ~xact => mem = disk
               /\ closed => ~xact
               /\ \A c \in Calls : at[c] \in InBlock => xact \/ closed
               /\ \A c \in Calls : Running(c) /\ xact => at[c] \in InBlock \cup RollingBack
               /\ xact /\ ~SomeRunning => client \in {"out", "rollingBack"}

\* pushMigrations has the session to itself.
PushAlone == push # "idle" => ~SomePending /\ client = "idle" /\ ~xact /\ ~closed

\* Who owns the session: the invariant that the others rest on.
SessionInv == OneAtATime /\ StepsFit /\ BlocksOwned /\ PushAlone

\* A call that runs has not settled.
LEMMA RunningIsOutstanding ==
    /\ \A c : Running(c) => Outstanding(c)
    /\ SomeRunning => SomePending
BY DEF SomeRunning, SomePending, Outstanding, Running, Steps, SnapshotSteps, ResetSteps, DropSteps,
       Settled

\* While one call runs, any other one has not begun or has settled.
LEMMA OnlyOneRuns ==
    ASSUME OneAtATime, NEW c \in Calls, NEW b \in Calls, Running(c), Running(b)
    PROVE  b = c
<1>1. \A d \in Calls : Running(d) => at[d] \notin Settled
  BY DEF Running, Steps, SnapshotSteps, ResetSteps, DropSteps, Settled
<1>2. b \in Int /\ c \in Int
  BY DEF Calls
<1> QED BY <1>1, <1>2 DEF OneAtATime

\* While a call sends a statement, the others wait or have settled.
LEMMA OthersWait ==
    ASSUME TypeOK, SessionInv, NEW c \in Calls, ManagerStep(c)
    PROVE  \A b \in Calls \ {c} : ~Running(b) /\ ~Running(b)'
<1>1. StatementKinds(c) /\ \A b \in Calls \ {c} : at'[b] = at[b]
  BY StatementKindsLemma
<1>2. at[c] = "queued" => \A b \in Calls : b < c => at[b] \in Settled
  BY <1>1 DEF StatementKinds, Copying, Restoring, RollingBack
<1>3. at[c] \notin Settled
  BY <1>1 DEF StatementKinds, Copying, Restoring, RollingBack, Settled
<1>4. at[c] # "queued" => Running(c)
  BY <1>1 DEF StatementKinds, Copying, Restoring, RollingBack, Running, Steps, SnapshotSteps,
              ResetSteps, DropSteps
<1>5. \A b \in Calls : Running(b) => at[b] \notin Settled
  BY DEF Running, Steps, SnapshotSteps, ResetSteps, DropSteps, Settled
<1>6. ASSUME NEW b \in Calls \ {c}, Running(b) PROVE FALSE
  <2>1. b < c \/ c < b
    BY <1>6 DEF Calls
  <2> QED BY <1>2, <1>3, <1>4, <1>5, <1>6, <2>1 DEF SessionInv, OneAtATime
<1> QED BY <1>1, <1>6 DEF Running

\* An operation's statement keeps the session's order.
LEMMA StatementsKeepSession ==
    ASSUME TypeOK, SessionInv, NEW c \in Calls, ManagerStep(c), at[c] = "queued" => ~xact,
           UNCHANGED <<push, client>>
    PROVE  SessionInv'
<1>1. StatementKinds(c) /\ op' = op /\ \A b \in Calls \ {c} : at'[b] = at[b]
  BY StatementKindsLemma
<1>2. op \in [Calls -> Operations] /\ xact \in BOOLEAN
  BY TypeParts DEF ManagerTypeOK, DbTypeOK
<1>3. Outstanding(c)
  BY <1>1 DEF StatementKinds, Outstanding, Copying, Restoring, RollingBack, Settled
<1>4. PushAlone'
  BY <1>3 DEF SessionInv, PushAlone, SomePending
<1>5. StepsFit'
  <2> SUFFICES ASSUME NEW b \in Calls
               PROVE  /\ at'[b] \in SnapshotSteps => op[b] = "snapshot"
                      /\ at'[b] \in ResetSteps => op[b] \in {"reset", "resetInSession"}
                      /\ at'[b] \in DropSteps => op[b] = "drop"
                      /\ at'[b] = "scrub" => op[b] = "reset"
    BY <1>1 DEF StepsFit
  <2>1. CASE b # c
    BY <1>1, <2>1 DEF SessionInv, StepsFit
  <2>2. CASE b = c
    BY <1>1, <1>2, <2>2
       DEF StatementKinds, LeadsTo, SessionInv, StepsFit, SnapshotSteps, ResetSteps, DropSteps,
           Copying, Restoring, RollingBack, FirstStep, AfterRestore, Operations
  <2> QED BY <2>1, <2>2
<1>6. OneAtATime'
  <2>1. /\ Running(c)' => Running(c) \/ \A b \in Calls : b < c => at[b] \in Settled
        /\ at[c] \notin Settled
    BY <1>1 DEF StatementKinds, Running, Steps, SnapshotSteps, ResetSteps, DropSteps,
                Copying, Restoring, RollingBack, Settled
  <2>2. \A b \in Calls \ {c} : Running(b)' <=> Running(b)
    BY <1>1 DEF Running
  <2> QED BY <1>1, <2>1, <2>2 DEF SessionInv, OneAtATime, Calls
<1>7. BlocksOwned'
  <2>1. \A b \in Calls \ {c} : ~Running(b) /\ ~Running(b)'
    BY OthersWait
  <2>2. \A b \in Calls : at[b] \in InBlock \cup RollingBack => Running(b)
    BY DEF InBlock, Copying, Restoring, RollingBack, Running, Steps, SnapshotSteps, ResetSteps
  <2>3. \A b \in Calls : at'[b] \in InBlock \cup RollingBack => Running(b)'
    BY DEF InBlock, Copying, Restoring, RollingBack, Running, Steps, SnapshotSteps, ResetSteps
  <2>4. /\ xact => at[c] \in InBlock \cup RollingBack
        /\ at[c] \in InBlock => xact \/ closed
        /\ ~xact => mem = disk
        /\ closed => ~xact
    <3>1. at[c] = "queued" \/ Running(c)
      BY <1>1 DEF StatementKinds, Copying, Restoring, RollingBack, Running, Steps, SnapshotSteps,
                  ResetSteps, DropSteps
    <3> QED BY <3>1 DEF SessionInv, BlocksOwned
  <2>5. (~xact => mem = disk)' /\ (closed => ~xact)'
    <3>1. \/ UNCHANGED <<disk, mem, xact, closed>> \/ Wrote \/ Begin \/ Commit \/ Rollback
      BY <1>1 DEF StatementKinds, Kept, dbVars
    <3>2. CASE UNCHANGED <<disk, mem, xact, closed>>
      BY <2>4, <3>2
    <3>3. CASE Wrote
      BY <2>4, <3>3 DEF Wrote
    <3>4. CASE Begin \/ Commit \/ Rollback
      BY <2>4, <3>4 DEF Begin, Commit, Rollback
    <3> QED BY <3>1, <3>2, <3>3, <3>4
  <2>6. at'[c] \in InBlock => xact' \/ closed'
    BY <1>1, <1>2, <2>4
       DEF StatementKinds, Wrote, Kept, dbVars, Begin, Commit, Rollback, LeadsTo, InBlock, Copying,
           Restoring, RollingBack, FirstStep, AfterRestore
  <2>7. xact' => at'[c] \in InBlock \cup RollingBack
    BY <1>1, <1>2, <2>4
       DEF StatementKinds, Wrote, Kept, dbVars, Begin, Commit, Rollback, LeadsTo, InBlock, Copying,
           Restoring, RollingBack
  <2> QED BY <2>1, <2>2, <2>3, <2>5, <2>6, <2>7 DEF BlocksOwned, SomeRunning
<1> QED BY <1>4, <1>5, <1>6, <1>7 DEF SessionInv
\* A step of anyone else that leaves the calls where they are.
LEMMA OthersKeepSession ==
    ASSUME SessionInv, xact \in BOOLEAN, UNCHANGED <<op, at>>,
           \/ UNCHANGED <<disk, mem, xact, closed>>
           \/ Wrote
           \/ ~SomeRunning /\ (Begin \/ Commit \/ Rollback)
           \/ ~SomeRunning /\ Gone,
           push' # "idle" => ~SomePending /\ client' = "idle" /\ ~xact' /\ ~closed',
           xact' /\ ~SomeRunning => client' \in {"out", "rollingBack"}
    PROVE  SessionInv'
<1>1. OneAtATime' /\ StepsFit'
  BY DEF SessionInv, OneAtATime, StepsFit, Running
<1>2. PushAlone'
  BY DEF PushAlone, SomePending, Outstanding
<1>3. \A c \in Calls : /\ Running(c)' <=> Running(c)
                       /\ at[c] \in InBlock \cup RollingBack => Running(c)
  BY DEF Running, InBlock, Copying, Restoring, RollingBack, Steps, SnapshotSteps, ResetSteps
<1>4. (~xact => mem = disk)' /\ (closed => ~xact)'
  <2>1. (~xact => mem = disk) /\ (closed => ~xact)
    BY DEF SessionInv, BlocksOwned
  <2>2. CASE UNCHANGED <<disk, mem, xact, closed>>
    BY <2>1, <2>2
  <2>3. CASE Wrote
    BY <2>1, <2>3 DEF Wrote
  <2>4. CASE Begin
    BY <2>1, <2>4 DEF Begin
  <2>5. CASE Commit
    BY <2>1, <2>5 DEF Commit
  <2>6. CASE Rollback
    BY <2>1, <2>6 DEF Rollback
  <2>7. CASE Gone
    BY <2>7 DEF Gone
  <2> QED BY <2>2, <2>3, <2>4, <2>5, <2>6, <2>7
<1>5. /\ \A c \in Calls : at'[c] \in InBlock => xact' \/ closed'
      /\ \A c \in Calls : Running(c)' /\ xact' => at'[c] \in InBlock \cup RollingBack
  <2>1. SomeRunning => UNCHANGED <<xact, closed>>
    BY DEF Wrote
  <2>2. CASE SomeRunning
    BY <1>3, <2>1, <2>2 DEF SessionInv, BlocksOwned
  <2>3. CASE ~SomeRunning
    BY <1>3, <2>3 DEF SomeRunning
  <2> QED BY <2>2, <2>3
<1>6. xact' /\ ~SomeRunning' => client' \in {"out", "rollingBack"}
  BY <1>3 DEF SomeRunning
<1> QED BY <1>1, <1>2, <1>4, <1>5, <1>6 DEF SessionInv, BlocksOwned

\* Nobody is in the session at first.
LEMMA InitSession == Init => SessionInv
<1> SUFFICES ASSUME Init PROVE SessionInv
  OBVIOUS
<1>1. \A c \in Calls : at[c] = "none" /\ op[c] = "snapshot" /\ ~Running(c)
  BY DEF Init, ManagerInit, Running, Steps, SnapshotSteps, ResetSteps, DropSteps
<1>2. mem = disk /\ xact = FALSE /\ push = "idle" /\ closed = FALSE
  BY DEF Init, PushInit
<1>3. OneAtATime /\ PushAlone
  BY <1>1, <1>2 DEF OneAtATime, PushAlone
<1>4. StepsFit
  BY <1>1 DEF StepsFit, SnapshotSteps, ResetSteps, DropSteps
<1>5. BlocksOwned
  BY <1>1, <1>2 DEF BlocksOwned, InBlock, Copying, Restoring
<1> QED BY <1>3, <1>4, <1>5 DEF SessionInv

\* Every step keeps the session's order.
LEMMA NextSession == TypeOK /\ SessionInv /\ [Next]_vars => SessionInv'
<1> SUFFICES ASSUME TypeOK, SessionInv, [Next]_vars PROVE SessionInv'
  OBVIOUS
<1> USE TypeParts
<1>1. /\ xact \in BOOLEAN
      /\ \A x : Exec(x) => Wrote /\ ~closed
  BY DEF DbTypeOK, Exec, Wrote
<1>2. Alone => /\ ~SomePending /\ ~SomeRunning /\ ~xact /\ ~closed
               /\ client = "idle" /\ push = "idle"
  BY RunningIsOutstanding DEF Alone
<1>3. /\ push # "idle" => ~SomePending /\ client = "idle" /\ ~xact /\ ~closed
      /\ xact /\ ~SomeRunning => client \in {"out", "rollingBack"}
  BY DEF SessionInv, PushAlone, BlocksOwned
<1>4. CASE Clash
  BY <1>1, <1>3, <1>4, OthersKeepSession DEF Clash, dbVars, managerVars, pushVars
<1>5. ASSUME NEW c \in Calls, NEW operation \in Operations, assertPoolIdle(c, operation)
      PROVE  SessionInv'
  <2>1. /\ at[c] = "none" /\ push = "idle" /\ UNCHANGED <<disk, mem, xact, closed, push, client>>
        /\ \E s \in {"refused", "queued"} : at' = [at EXCEPT ![c] = s]
        /\ op' = [op EXCEPT ![c] = operation]
    BY <1>5 DEF assertPoolIdle, enqueue, dbVars, pushVars
  <2>2. \A b \in Calls \ {c} : at'[b] = at[b] /\ op'[b] = op[b]
    BY <2>1 DEF ManagerTypeOK
  <2>3. at'[c] \in {"refused", "queued"}
    BY <2>1 DEF ManagerTypeOK
  <2>4. \A b \in Calls : Running(b)' <=> Running(b) /\ b # c
    BY <2>1, <2>2, <2>3 DEF Running, Steps, SnapshotSteps, ResetSteps, DropSteps
  <2>5. OneAtATime'
    BY <2>1, <2>2, <2>4 DEF SessionInv, OneAtATime, Settled
  <2>6. StepsFit'
    BY <2>2, <2>3 DEF SessionInv, StepsFit, SnapshotSteps, ResetSteps, DropSteps
  <2>7. PushAlone'
    BY <2>1 DEF PushAlone
  <2>8. BlocksOwned'
    <3>1. SomeRunning' <=> SomeRunning
      <4>1. ~Running(c)
        BY <2>1 DEF Running, Steps, SnapshotSteps, ResetSteps, DropSteps
      <4> QED BY <2>4, <4>1 DEF SomeRunning
    <3>2. at'[c] \notin InBlock
      BY <2>3 DEF InBlock, Copying, Restoring
    <3> QED BY <2>1, <2>2, <2>4, <3>1, <3>2 DEF SessionInv, BlocksOwned
  <2> QED BY <2>5, <2>6, <2>7, <2>8 DEF SessionInv
<1>6. ASSUME NEW c \in Calls, OperationStep(c)
      PROVE  SessionInv'
  BY <1>4, <1>6, StatementsKeepSession DEF OperationStep, bridgeVars, pushVars
<1>7. ASSUME NEW c \in Calls, OperationFails(c)
      PROVE  SessionInv'
  <2>1. /\ Running(c) /\ at' = [at EXCEPT ![c] = OnError(at[c])]
        /\ at[c] \in RollingBack => closed
        /\ UNCHANGED <<op, disk, mem, xact, closed, push, client>>
    BY <1>7 DEF OperationFails, Throws, statementFails, dbVars, pushVars, RollingBack
  <2>2. at'[c] = OnError(at[c]) /\ \A b \in Calls \ {c} : at'[b] = at[b]
    BY <2>1 DEF ManagerTypeOK
  <2>3. \A b \in Calls \ {c} : ~Running(b) /\ ~Running(b)'
    BY <2>1, <2>2, OnlyOneRuns DEF SessionInv, Running
  <2>4. OneAtATime'
    BY <2>1, <2>2, <2>3 DEF SessionInv, OneAtATime, Calls
  <2>5. StepsFit'
    <3>1. /\ at'[c] \in SnapshotSteps => at[c] \in SnapshotSteps
          /\ at'[c] \in ResetSteps => at[c] \in ResetSteps
          /\ at'[c] \notin DropSteps /\ at'[c] # "scrub"
      BY <2>2 DEF OnError, SnapshotSteps, ResetSteps, DropSteps
    <3> QED BY <2>1, <2>2, <3>1 DEF SessionInv, StepsFit
  <2>6. Outstanding(c)
    BY <2>1, RunningIsOutstanding
  <2>7. PushAlone'
    BY <1>3, <2>1, <2>6 DEF PushAlone, SomePending
  <2>8. at'[c] \notin InBlock /\ (at[c] \in InBlock => at'[c] \in RollingBack)
    BY <2>2 DEF OnError, InBlock, Copying, Restoring, RollingBack
  <2>9. xact => at'[c] \in RollingBack
    BY <2>1, <2>8 DEF SessionInv, BlocksOwned
  <2>10. at'[c] \in RollingBack => Running(c)'
    BY DEF RollingBack, Running, Steps, SnapshotSteps, ResetSteps
  <2>11. BlocksOwned'
    <3>1. \A b \in Calls \ {c} : at'[b] \notin InBlock
      BY <2>3 DEF Running, InBlock, Copying, Restoring, Steps, SnapshotSteps, ResetSteps
    <3> QED BY <1>1, <2>1, <2>3, <2>8, <2>9, <2>10, <3>1 DEF SessionInv, BlocksOwned, SomeRunning
  <2> QED BY <2>4, <2>5, <2>7, <2>11 DEF SessionInv
<1>8. CASE Connect \/ Dispatch \/ ClientReleased
  <2>1. UNCHANGED <<op, at, disk, mem, xact, closed, push>>
    BY <1>8 DEF Connect, Dispatch, ClientReleased, dbVars, managerVars, pushVars
  <2>2. push = "idle"
    BY <1>3, <1>8 DEF Connect, Dispatch, ClientReleased
  <2>3. xact /\ ~SomeRunning => client' \in {"out", "rollingBack"}
    BY <1>3, <1>8 DEF Connect, Dispatch, ClientReleased
  <2>4. UNCHANGED <<op, at, disk, mem, xact, closed, push>>
    BY <1>8 DEF Connect, Dispatch, ClientReleased, dbVars, managerVars, pushVars
  <2> QED BY <1>1, <2>2, <2>3, <2>4, OthersKeepSession
<1>9. CASE ClientQueries
  <2>1. CASE ~SomeRunning /\ Happens /\ ClientStatement
             /\ UNCHANGED <<managerVars, pushVars, client, excused, clashed>>
    <3>1. Begin \/ Commit \/ Rollback \/ Wrote \/ UNCHANGED <<disk, mem, xact, closed>>
      BY <1>1, <2>1 DEF ClientStatement
    <3>2. client = "out" /\ push = "idle" /\ UNCHANGED <<op, at, push, client>>
      BY <1>3, <1>9, <2>1 DEF ClientQueries, managerVars, pushVars
    <3> QED BY <1>1, <2>1, <3>1, <3>2, OthersKeepSession
  <2> QED BY <1>4, <1>9, <2>1 DEF ClientQueries
<1>10. CASE CleanupRollback
  <2>1. CASE ~SomeRunning /\ Rollback /\ client' = "idle"
             /\ UNCHANGED <<managerVars, pushVars, excused, clashed>>
    <3>1. ~xact' /\ push = "idle" /\ UNCHANGED <<op, at, push>>
      BY <1>3, <1>10, <2>1 DEF CleanupRollback, Rollback, managerVars, pushVars
    <3> QED BY <1>1, <2>1, <3>1, OthersKeepSession
  <2> QED BY <1>4, <1>10, <2>1 DEF CleanupRollback
<1>11. CASE RawSQL
  <2>1. \E x : Exec(x)
    BY <1>11 DEF RawSQL
  <2>2. Wrote /\ UNCHANGED <<op, at, push, client>>
    BY <1>1, <1>11, <2>1 DEF RawSQL, managerVars, pushVars
  <2> QED BY <1>1, <1>2, <1>11, <2>2, OthersKeepSession DEF RawSQL, Wrote
<1>12. CASE PushMigrations
  <2>1. UNCHANGED <<op, at, disk, mem, xact, closed, client>>
    BY <1>12 DEF PushMigrations, resolveMigrations, dbVars, managerVars
  <2> QED BY <1>1, <1>2, <1>12, <2>1, OthersKeepSession DEF PushMigrations
<1>13. CASE PushProceeds
  <2>1. push # "idle" /\ UNCHANGED <<op, at, client>>
    BY <1>13 DEF PushProceeds, PushStep, createTable, validateHistory, startMigration, runScript,
                 markFinished, allApplied, managerVars, bridgeVars
  <2>2. Wrote \/ UNCHANGED <<disk, mem, xact, closed>>
    BY <1>1, <1>13 DEF PushProceeds, PushStep, createTable, validateHistory, startMigration,
                       runScript, markFinished, allApplied, Reads, dbVars
  <2>3. UNCHANGED <<xact, closed>>
    BY <2>2 DEF Wrote
  <2> QED BY <1>1, <1>3, <2>1, <2>2, <2>3, OthersKeepSession
<1>14. CASE PushAborts
  <2>1. push # "idle" /\ UNCHANGED <<op, at, disk, mem, xact, closed, client>>
    BY <1>14 DEF PushAborts, pushFails, managerVars, dbVars
  <2> QED BY <1>1, <1>3, <2>1, OthersKeepSession
<1>15. CASE Operator
  <2>1. Wrote \/ UNCHANGED <<disk, mem, xact, closed>>
    BY <1>1, <1>15 DEF Operator, EditFile, ResolveByHand, dbVars
  <2>2. UNCHANGED <<op, at, push, client>>
    BY <1>15 DEF Operator, EditFile, ResolveByHand, managerVars, pushVars
  <2> QED BY <1>1, <1>2, <1>15, <2>1, <2>2, OthersKeepSession DEF Operator, Wrote
<1>16. CASE Close
  <2>1. /\ push = "idle" /\ UNCHANGED <<op, at, push, client>>
        /\ closed' = TRUE /\ mem' = disk /\ xact' = FALSE /\ disk' = disk
    BY <1>16 DEF Close, Gone, managerVars, pushVars
  <2>2. OneAtATime' /\ StepsFit' /\ PushAlone'
    BY <2>1 DEF SessionInv, OneAtATime, StepsFit, Running, PushAlone
  <2>3. BlocksOwned'
    BY <2>1 DEF BlocksOwned
  <2> QED BY <2>2, <2>3 DEF SessionInv
<1>17. CASE Restart
  <2>1. /\ op' = op /\ \A c \in Calls : at'[c] \in Settled \cup {"none"}
        /\ \A c \in Calls : at[c] \in Settled => at'[c] \in Settled
        /\ push' = "idle" /\ mem' = disk /\ xact' = FALSE /\ disk' = disk /\ closed' = FALSE
    BY <1>17 DEF Restart, loseCalls, Gone, Settles, Settled
  <2>2. \A c \in Calls : ~Running(c)' /\ at'[c] \notin InBlock
    BY <2>1 DEF Running, Steps, SnapshotSteps, ResetSteps, DropSteps, Settled, InBlock, Copying,
                Restoring
  <2>3. OneAtATime' /\ PushAlone'
    BY <2>1, <2>2 DEF OneAtATime, PushAlone
  <2>4. StepsFit'
    BY <2>1 DEF StepsFit, SnapshotSteps, ResetSteps, DropSteps, Settled
  <2>5. BlocksOwned'
    BY <2>1, <2>2 DEF BlocksOwned
  <2> QED BY <2>3, <2>4, <2>5 DEF SessionInv
<1>18. CASE UNCHANGED vars
  BY <1>1, <1>3, <1>18, OthersKeepSession DEF vars, dbVars, managerVars, pushVars, bridgeVars
<1> QED BY <1>5, <1>6, <1>7, <1>8, <1>9, <1>10, <1>11, <1>12, <1>13, <1>14, <1>15, <1>16, <1>17,
           <1>18 DEF Next

\* SessionInv is an invariant.
LEMMA Session == Spec => []SessionInv
BY BridgeTypes, InitSession, NextSession, PTL DEF Spec
-----------------------------------------------------------------------------
(* The staging schema. *)

\* The statements that find the unfinished copy in the session.
Staged == {"list", "copy", "copySequences", "dropOld", "rename", "rollbackCopy"}

\* The statements that empty the staging schema, and those of snapshotDb that
\* come after its sweep.
Cleaning == {"sweep", "tidy", "rename", "dropStaging"}
Swept == Copying \cup {"beginCopy", "commitCopy", "rollbackCopy", "tidy"}

\* An unfinished copy exists only inside the transaction block that builds it,
\* and what was there before has been swept when the block begins.
StagingInv == /\ mem.staging # disk.staging => xact /\ \E c \in Calls : at[c] \in Staged
              /\ \A c \in Calls : at[c] \in Swept => disk.staging = NoSchema

\* CREATE SCHEMA finds no staging schema.
CreateFindsNone == \A c \in Calls : at[c] = "create" => mem.staging = NoSchema

\* What a step may do to a durable staging schema, and what success says of it.
SweepsOnly ==
    /\ disk'.staging # disk.staging =>
          /\ disk'.staging = NoSchema
          /\ \E c \in Calls : Running(c) /\ op[c] \in {"snapshot", "drop"}
    /\ \A c \in Calls : op[c] \in {"snapshot", "drop"} /\ at[c] # "ok" /\ at'[c] = "ok"
                        => disk'.staging = NoSchema

\* A call with a staging schema under way runs.
LEMMA StagedRuns ==
    \A c : at[c] \in Staged => Running(c)
BY DEF Staged, Running, Steps, SnapshotSteps

\* What the statements do to the staging schema, and when they leave its block.
StagingEffects(c) ==
    \/ at[c] \in Cleaning /\ Wrote /\ mem'.staging = NoSchema
    \/ /\ at[c] \notin Cleaning
       /\ \/ Kept /\ (at[c] \in Staged => at'[c] \in Staged)
          \/ Wrote /\ mem'.staging = mem.staging /\ (at[c] \in Staged => at'[c] \in Staged)
          \/ Wrote /\ at[c] \in {"create", "copy", "copySequences"} /\ at'[c] \in Staged
          \/ (Begin \/ Commit) /\ at[c] \notin Staged
          \/ Rollback
          \/ UNCHANGED <<disk, mem, xact>> /\ at[c] \notin Staged

\* Every step of the manager has one of these effects.
LEMMA StagingStatements ==
    ASSUME TypeOK, NEW c \in Calls, ManagerStep(c)
    PROVE  StagingEffects(c)
<1> USE TypeParts DEF StagingEffects
<1>1. \A from, to : Move(c, from, to) => at[c] = from /\ at'[c] = to
  BY DEF ManagerTypeOK, Move
<1>2. \A u, s, r, h : Stores(u, s, r, h) => Wrote /\ mem'.staging = r
  BY DEF Stores, Wrote
<1>3. CASE serialize(c)
  <2>1. Kept /\ at[c] \notin Staged \cup Cleaning
    BY <1>1, <1>3 DEF serialize, Begins, Kept, Staged, Cleaning
  <2> QED BY <2>1
<1>4. CASE snapshotDb(c)
  <2>1. CASE sweep(c) \/ tidy(c)
    BY <1>1, <1>2, <2>1, ExecStores DEF sweep, tidy, Cleaning
  <2>2. CASE rename(c)
    BY <1>1, <1>2, <2>2, ExecStores DEF rename, Cleaning
  <2>3. CASE beginCopy(c) \/ commitCopy(c) \/ rollbackCopy(c)
    <3>1. ((Begin \/ Commit) /\ at[c] \notin Staged) \/ Rollback
      BY <1>1, <2>3 DEF beginCopy, commitCopy, rollbackCopy, Staged
    <3>2. at[c] \notin Cleaning
      BY <1>1, <2>3 DEF beginCopy, commitCopy, rollbackCopy, Cleaning
    <3> QED BY <3>1, <3>2
  <2>4. CASE create(c)
    <3>1. at[c] = "create" /\ at'[c] = "list" /\ Exec([mem EXCEPT !.staging = {EmptyDatabase}])
      BY <1>1, <2>4 DEF create
    <3>2. Wrote
      BY <1>2, <3>1, ExecStores
    <3> QED BY <3>1, <3>2 DEF Staged, Cleaning
  <2>5. CASE list(c)
    BY <1>1, <2>5 DEF list, Reads, Kept, Staged, Cleaning
  <2>6. CASE copy(c)
    <3>1. CASE Move(c, "copy", "copySequences") /\ Reads
      BY <1>1, <3>1 DEF Reads, Kept, Staged, Cleaning
    <3>2. ASSUME NEW s, at[c] = "copy", UNCHANGED at, Exec([mem EXCEPT !.staging = s])
          PROVE  /\ Wrote /\ at[c] \in {"create", "copy", "copySequences"} /\ at'[c] \in Staged
                 /\ at[c] \notin Cleaning
      BY <1>2, <3>2, ExecStores DEF Staged, Cleaning
    <3> QED BY <2>6, <3>1, <3>2 DEF copy
  <2>7. CASE copySequences(c)
    BY <1>1, <1>2, <2>7, ExecStores DEF copySequences, Staged, Cleaning
  <2>8. CASE dropOld(c)
    BY <1>1, <1>2, <2>8, ExecStores DEF dropOld, Staged, Cleaning
  <2> QED BY <1>4, <2>1, <2>2, <2>3, <2>4, <2>5, <2>6, <2>7, <2>8 DEF snapshotDb
<1>5. CASE resetSnapshot(c)
  <2>1. \/ at[c] = "drop" /\ Exec([mem EXCEPT !.snapshot = NoSchema])
        \/ at[c] = "dropStaging" /\ Exec([mem EXCEPT !.staging = NoSchema])
    BY <1>1, <1>5 DEF resetSnapshot
  <2>2. \/ at[c] = "drop" /\ Wrote /\ mem'.staging = mem.staging
        \/ at[c] = "dropStaging" /\ Wrote /\ mem'.staging = NoSchema
    BY <1>2, <2>1, ExecStores
  <2> QED BY <2>2 DEF Staged, Cleaning
<1>6. CASE resetDb(c)
  <2>1. CASE snapshotSchemaExists(c) \/ getTables(c) \/ restorePlan(c)
    <3>1. Kept /\ at[c] \notin Staged \cup Cleaning
      BY <1>1, <2>1 DEF snapshotSchemaExists, getTables, restorePlan, Reads, Kept, Staged, Cleaning
    <3> QED BY <3>1
  <2>2. CASE beginRestore(c) \/ commitRestore(c) \/ rollbackRestore(c)
    <3>1. (Begin \/ Commit \/ Rollback) /\ at[c] \notin Staged \cup Cleaning
      BY <1>1, <2>2 DEF beginRestore, commitRestore, rollbackRestore, Staged, Cleaning
    <3> QED BY <3>1
  <2>3. CASE truncate(c)
    <3>1. \E ts : Exec([mem EXCEPT !.user.tables = ts])
      BY <2>3 DEF truncate
    <3>2. Wrote /\ mem'.staging = mem.staging
      BY <1>2, <3>1, ExecTables
    <3>3. at[c] \notin Staged \cup Cleaning
      BY <1>1, <2>3 DEF truncate, Staged, Cleaning
    <3> QED BY <3>2, <3>3
  <2>4. CASE refill(c)
    <3>1. CASE \E step \in {"setval", "commit"} : Move(c, "refill", step) /\ Reads
      <4>1. Kept /\ at[c] \notin Staged \cup Cleaning
        BY <1>1, <3>1 DEF Reads, Kept, Staged, Cleaning
      <4> QED BY <4>1
    <3>2. ASSUME NEW t, NEW k, at[c] = "refill", Exec([mem EXCEPT !.user.tables[t].rows = k])
          PROVE  Wrote /\ mem'.staging = mem.staging /\ at[c] \notin Staged \cup Cleaning
      <4>1. \E u : Exec([mem EXCEPT !.user = u])
        BY <3>2
      <4> QED BY <1>2, <3>2, <4>1, ExecStores DEF Staged, Cleaning
    <3> QED BY <2>4, <3>1, <3>2 DEF refill
  <2>5. CASE setval(c)
    <3>1. \E k : Exec([mem EXCEPT !.user.counter = k])
      BY <2>5 DEF setval
    <3>2. Wrote /\ mem'.staging = mem.staging
      BY <1>2, <3>1, ExecCounter
    <3>3. at[c] \notin Staged \cup Cleaning
      BY <1>1, <2>5 DEF setval, Staged, Cleaning
    <3> QED BY <3>2, <3>3
  <2>6. CASE scrub(c)
    <3>1. UNCHANGED <<disk, mem, xact>> /\ at[c] \notin Staged \cup Cleaning
      BY <1>1, <2>6 DEF scrub, Staged, Cleaning
    <3> QED BY <3>1
  <2> QED BY <1>6, <2>1, <2>2, <2>3, <2>4, <2>5, <2>6 DEF resetDb
<1> QED BY <1>3, <1>4, <1>5, <1>6 DEF ManagerStep

\* An operation's statement keeps the staging invariant.
LEMMA StatementsKeepStaging ==
    ASSUME TypeOK, SessionInv, StagingInv, NEW c \in Calls, ManagerStep(c)
    PROVE  StagingInv' /\ SweepsOnly
<1>1. /\ StatementKinds(c) /\ StagingEffects(c) /\ op' = op
      /\ \A b \in Calls \ {c} : at'[b] = at[b] /\ at[b] \notin Staged
  BY StatementKindsLemma, StagingStatements, OthersWait, StagedRuns
<1>2. /\ mem.staging # disk.staging => xact /\ at[c] \in Staged
      /\ at[c] \in Swept => disk.staging = NoSchema
  BY <1>1 DEF StagingInv
<1>3. /\ at[c] \in Cleaning => Running(c) /\ op[c] \in {"snapshot", "drop"}
      /\ at[c] \in Cleaning \ {"rename"} => ~xact
      /\ at[c] \in {"create", "copy", "copySequences"} => xact \/ closed
  BY DEF SessionInv, StepsFit, BlocksOwned, Cleaning, Running, Steps, SnapshotSteps, ResetSteps,
         DropSteps, InBlock, Copying, Restoring, RollingBack
<1>4. /\ at'[c] \in Swept => at[c] \in Swept \cup Cleaning
      /\ op[c] \in {"snapshot", "drop"} /\ at'[c] = "ok"
            => at[c] \in Cleaning \cup {"commitCopy"}
  BY <1>1 DEF StatementKinds, LeadsTo, FirstStep, AfterRestore, SessionInv, StepsFit,
              SnapshotSteps, ResetSteps, DropSteps, Copying, Restoring, Swept, Cleaning
<1>5. disk'.staging = IF at[c] \in Cleaning THEN NoSchema ELSE disk.staging
  <2>1. CASE at[c] \in Cleaning /\ Wrote /\ mem'.staging = NoSchema
    BY <1>2, <1>3, <2>1 DEF Wrote, Cleaning, Swept, Copying
  <2>2. CASE at[c] \notin Cleaning
    BY <1>1, <1>2, <1>3, <2>2
       DEF StagingEffects, Kept, Wrote, Begin, Commit, Rollback, dbVars
  <2> QED BY <1>1, <2>1, <2>2 DEF StagingEffects
<1>6. mem'.staging # disk'.staging => xact' /\ at'[c] \in Staged
  <2>1. CASE at[c] \in Cleaning /\ Wrote /\ mem'.staging = NoSchema
    BY <1>5, <2>1
  <2>2. CASE at[c] \notin Cleaning
    BY <1>1, <1>2, <1>3, <1>5, <2>2
       DEF StagingEffects, Kept, Wrote, Begin, Commit, Rollback, dbVars
  <2> QED BY <1>1, <2>1, <2>2 DEF StagingEffects
<1>7. \A b \in Calls : at'[b] \in Swept => disk'.staging = NoSchema
  BY <1>1, <1>2, <1>4, <1>5 DEF StagingInv
<1>8. SweepsOnly
  BY <1>1, <1>2, <1>3, <1>4, <1>5 DEF SweepsOnly, Swept
<1> QED BY <1>6, <1>7, <1>8 DEF StagingInv

\* A step of anyone else that leaves the calls where they are, or ends them all.
LEMMA OthersKeepStaging ==
    ASSUME StagingInv,
           \/ UNCHANGED <<at, disk, mem, xact>>
           \/ UNCHANGED at /\ Wrote /\ ~SomeRunning /\ mem'.staging = mem.staging
           \/ UNCHANGED at /\ ~SomeRunning /\ (Begin \/ Commit \/ Rollback)
           \/ (UNCHANGED at \/ loseCalls) /\ Gone
    PROVE  StagingInv' /\ SweepsOnly
<1>1. CASE UNCHANGED <<at, disk, mem, xact>>
  BY <1>1 DEF StagingInv, SweepsOnly
<1>2. ~SomeRunning => mem.staging = disk.staging
  BY StagedRuns DEF StagingInv, SomeRunning
<1>3. CASE /\ UNCHANGED at /\ ~SomeRunning
           /\ \/ Wrote /\ mem'.staging = mem.staging
              \/ Begin \/ Commit \/ Rollback
  <2>1. disk'.staging = disk.staging /\ mem'.staging = disk.staging
    BY <1>2, <1>3 DEF Wrote, Begin, Commit, Rollback
  <2> QED BY <1>3, <2>1 DEF StagingInv, SweepsOnly
<1>4. CASE (UNCHANGED at \/ loseCalls) /\ Gone
  <2>1. \A c \in Calls : at'[c] = at[c] \/ at'[c] = "lost"
    BY <1>4 DEF loseCalls
  <2>2. disk' = disk /\ mem' = disk
    BY <1>4 DEF Gone
  <2> QED BY <2>1, <2>2 DEF StagingInv, SweepsOnly, Swept, Copying
<1> QED BY <1>1, <1>3, <1>4

\* No call runs at first.
LEMMA InitStaging == Init => StagingInv
BY DEF Init, ManagerInit, StagingInv, Swept, Copying

\* Every step keeps the staging invariant.
LEMMA NextStaging ==
    TypeOK /\ SessionInv /\ StagingInv /\ [Next]_vars => StagingInv' /\ SweepsOnly
<1> SUFFICES ASSUME TypeOK, SessionInv, StagingInv, [Next]_vars PROVE StagingInv' /\ SweepsOnly
  OBVIOUS
<1>1. DbTypeOK
  BY TypeParts
<1>2. \A u, s, h : Stores(u, s, mem.staging, h) => Wrote /\ mem'.staging = mem.staging
  BY DEF Stores, Wrote
<1>3. ~SomePending => ~SomeRunning
  BY RunningIsOutstanding
<1>4. CASE Clash
  BY <1>4, OthersKeepStaging DEF Clash, dbVars, managerVars
<1>5. ASSUME NEW c \in Calls, NEW operation \in Operations, assertPoolIdle(c, operation)
      PROVE  StagingInv' /\ SweepsOnly
  <2>1. /\ at[c] = "none" /\ UNCHANGED <<disk, mem, xact>>
        /\ \E s \in {"refused", "queued"} : at' = [at EXCEPT ![c] = s]
    BY <1>5 DEF assertPoolIdle, enqueue, dbVars
  <2>2. \A b \in Calls : /\ at[b] \in Staged => at'[b] = at[b]
                         /\ at'[b] \in Swept \cup {"ok"} => at'[b] = at[b]
    BY <2>1, TypeParts DEF ManagerTypeOK, Staged, Swept, Copying
  <2> QED BY <2>1, <2>2 DEF StagingInv, SweepsOnly
<1>6. ASSUME NEW c \in Calls, OperationStep(c)
      PROVE  StagingInv' /\ SweepsOnly
  BY <1>4, <1>6, StatementsKeepStaging DEF OperationStep
<1>7. ASSUME NEW c \in Calls, OperationFails(c)
      PROVE  StagingInv' /\ SweepsOnly
  <2>1. /\ at' = [at EXCEPT ![c] = OnError(at[c])] /\ UNCHANGED <<disk, mem, xact, closed>>
        /\ at[c] = "rollbackCopy" => closed
    BY <1>7 DEF OperationFails, Throws, statementFails, dbVars
  <2>2. at[c] \in Staged \ {"rollbackCopy"} => OnError(at[c]) = "rollbackCopy"
    BY DEF Staged, OnError
  <2>3. \A b \in Calls : at[b] \in Staged /\ xact => at'[b] \in Staged
    BY <2>1, <2>2, TypeParts DEF ManagerTypeOK, SessionInv, BlocksOwned, Staged
  <2>4. /\ OnError(at[c]) \in Swept => at[c] \in Swept
        /\ OnError(at[c]) # "ok"
    BY DEF OnError, Swept, Copying
  <2>5. \A b \in Calls : /\ at'[b] \in Swept => at[b] \in Swept
                         /\ at[b] # "ok" => at'[b] # "ok"
    BY <2>1, <2>4, TypeParts DEF ManagerTypeOK
  <2> QED BY <2>1, <2>3, <2>5 DEF StagingInv, SweepsOnly
<1>8. CASE Connect \/ Dispatch \/ ClientReleased
  BY <1>8, OthersKeepStaging DEF Connect, Dispatch, ClientReleased, dbVars, managerVars
<1>9. CASE ClientQueries
  <2>1. CASE ~SomeRunning /\ ClientStatement /\ UNCHANGED managerVars
    <3>1. ASSUME NEW t, NEW k, Exec([mem EXCEPT !.user.tables[t].rows = k])
          PROVE  Wrote /\ mem'.staging = mem.staging
      <4>1. \E u : Exec([mem EXCEPT !.user = u])
        BY <3>1
      <4> QED BY <1>1, <1>2, <4>1, ExecStores
    <3>2. ASSUME NEW k, Exec([mem EXCEPT !.user.counter = k])
          PROVE  Wrote /\ mem'.staging = mem.staging
      BY <1>1, <1>2, <3>2, ExecCounter
    <3>3. CASE UNCHANGED <<disk, mem, xact, closed>>
      BY <2>1, <3>3, OthersKeepStaging DEF managerVars
    <3>4. CASE Begin \/ Commit \/ Rollback
      BY <2>1, <3>4, OthersKeepStaging DEF managerVars
    <3> QED BY <2>1, <3>1, <3>2, <3>3, <3>4, OthersKeepStaging DEF ClientStatement, managerVars
  <2> QED BY <1>4, <1>9, <2>1 DEF ClientQueries
<1>10. CASE CleanupRollback
  BY <1>4, <1>10, OthersKeepStaging DEF CleanupRollback, managerVars
<1>11. CASE RawSQL
  <2>1. \/ \E t, x : Exec([mem EXCEPT !.user.tables[t] = x])
        \/ Exec([mem EXCEPT !.snapshot = NoSchema])
    BY <1>11 DEF RawSQL
  <2>2. \/ \E u : Exec([mem EXCEPT !.user = u])
        \/ Exec([mem EXCEPT !.snapshot = NoSchema])
    BY <2>1
  <2>3. Wrote /\ mem'.staging = mem.staging
    BY <1>1, <1>2, <2>2, ExecStores
  <2> QED BY <1>11, <1>3, <2>3, OthersKeepStaging DEF RawSQL, Alone, managerVars
<1>12. CASE PushMigrations \/ PushAborts
  BY <1>12, OthersKeepStaging
     DEF PushMigrations, PushAborts, resolveMigrations, pushFails, dbVars, managerVars
<1>13. CASE PushProceeds
  <2>1. \/ UNCHANGED dbVars
        \/ Exec(mem)
        \/ \E h : Exec([mem EXCEPT !.history = h])
        \/ \E t, x : Exec([mem EXCEPT !.user.tables[t].cols = x])
    BY <1>13 DEF PushProceeds, PushStep, createTable, validateHistory, startMigration, runScript,
                 markFinished, allApplied, Reads
  <2>2. \/ UNCHANGED dbVars
        \/ Exec(mem)
        \/ \E h : Exec([mem EXCEPT !.history = h])
        \/ \E u : Exec([mem EXCEPT !.user = u])
    BY <2>1
  <2>3. UNCHANGED dbVars \/ (Wrote /\ mem'.staging = mem.staging)
    BY <1>1, <1>2, <2>2, ExecStores
  <2>4. ~SomeRunning
    BY <1>13, <1>3 DEF SessionInv, PushAlone, PushProceeds, PushStep, createTable,
                    validateHistory, startMigration, runScript, markFinished, allApplied
  <2> QED BY <1>13, <2>3, <2>4, OthersKeepStaging DEF PushProceeds, managerVars, dbVars
<1>14. CASE Operator
  <2>1. UNCHANGED dbVars \/ \E h : Exec([mem EXCEPT !.history = h])
    BY <1>14 DEF Operator, EditFile, ResolveByHand
  <2>2. UNCHANGED dbVars \/ (Wrote /\ mem'.staging = mem.staging)
    BY <1>1, <1>2, <2>1, ExecStores
  <2> QED BY <1>14, <1>3, <2>2, OthersKeepStaging DEF Operator, Alone, managerVars, dbVars
<1>15. CASE Close \/ Restart
  BY <1>15, OthersKeepStaging DEF Close, Restart, managerVars
<1>16. CASE UNCHANGED vars
  BY <1>16, OthersKeepStaging DEF vars, dbVars, managerVars
<1> QED BY <1>5, <1>6, <1>7, <1>8, <1>9, <1>10, <1>11, <1>12, <1>13, <1>14, <1>15, <1>16 DEF Next

\* By then the sweep is durable and the block has only begun.
LEMMA NoneToCreate == SessionInv /\ StagingInv => CreateFindsNone
<1> SUFFICES ASSUME SessionInv, StagingInv, NEW c \in Calls, at[c] = "create"
             PROVE  mem.staging = NoSchema
  BY DEF CreateFindsNone
<1>1. Running(c)
  BY DEF Running, Steps, SnapshotSteps
<1>2. \A b \in Calls : at[b] \notin Staged
  BY <1>1, StagedRuns, OnlyOneRuns DEF SessionInv, Staged
<1> QED BY <1>2 DEF StagingInv, Swept, Copying

\* A staging schema is only ever dropped, by snapshotDb and resetSnapshot, which
\* have done so when they succeed; no step makes an unfinished copy durable, and
\* CREATE SCHEMA never finds one in its way, whatever the database was opened with.
THEOREM StagingIsSwept == Spec => StagingOnlySwept
<1>1. TypeOK /\ SessionInv /\ StagingInv /\ [Next]_vars => StagingInv' /\ SweepsOnly
  BY NextStaging
<1>2. Spec => []StagingInv
  BY <1>1, InitStaging, BridgeTypes, Session, PTL DEF Spec
<1>3. Spec => []CreateFindsNone
  BY <1>2, NoneToCreate, Session, PTL
<1>4. SweepsOnly /\ CreateFindsNone' =>
        /\ disk'.staging # disk.staging =>
             /\ disk'.staging = NoSchema
             /\ \E c \in Calls : Running(c) /\ op[c] \in {"snapshot", "drop"}
        /\ \A c \in Calls : /\ at'[c] = "create" => mem'.staging = NoSchema
                            /\ op[c] \in {"snapshot", "drop"} /\ at[c] # "ok" /\ at'[c] = "ok"
                                  => disk'.staging = NoSchema
  BY DEF SweepsOnly, CreateFindsNone
<1> QED BY <1>1, <1>2, <1>3, <1>4, BridgeTypes, Session, PTL DEF Spec, StagingOnlySwept
-----------------------------------------------------------------------------
(* Pool clients and operations. *)

\* What makes ClashExcused inductive: a client that is about while an operation
\* is outstanding came after its idle check, or left a transaction behind.
ClashInv == ClashExcused /\ (client # "idle" /\ SomePending => excused)

\* Whoever meets the other in the session was let in by the idle check.
LEMMA ClashIsExcused ==
    ASSUME SessionInv, ClashInv, client # "idle", SomePending, Clash
    PROVE  ClashInv'
BY DEF Clash, ClashInv, ClashExcused, managerVars, SomePending, Outstanding

\* A step that leaves the excuse, and adds neither client nor call, keeps ClashInv.
LEMMA OthersKeepClash ==
    ASSUME ClashInv, ~clashed, UNCHANGED <<at, clashed>>,
           \/ UNCHANGED <<client, excused>>
           \/ client' = "idle" /\ UNCHANGED excused
           \/ client # "idle" /\ UNCHANGED excused
           \/ excused' = (excused \/ SomePending)
    PROVE  ClashInv'
BY DEF ClashInv, ClashExcused, SomePending, Outstanding

\* Every step keeps ClashInv.
LEMMA NextClash == TypeOK /\ SessionInv /\ ClashInv /\ [Next]_vars => ClashInv'
<1> SUFFICES ASSUME TypeOK, SessionInv, ClashInv, [Next]_vars PROVE ClashInv'
  OBVIOUS
<1>1. CASE UNCHANGED vars
  BY <1>1 DEF vars, managerVars, bridgeVars, ClashInv, ClashExcused, SomePending, Outstanding
<1> SUFFICES ASSUME Next, ~clashed PROVE ClashInv'
  BY <1>1 DEF Next
<1>2. ASSUME NEW c \in Calls, NEW operation \in Operations, assertPoolIdle(c, operation)
      PROVE  ClashInv'
  <2>1. UNCHANGED <<client, clashed>> /\ client \in ClientStates
    BY <1>2, TypeParts DEF assertPoolIdle, BridgeTypeOK
  <2>2. CASE busy
    <3>1. at' = [at EXCEPT ![c] = "refused"] /\ UNCHANGED excused
      BY <1>2, <2>2 DEF assertPoolIdle
    <3>2. \A b \in Calls : Outstanding(b)' => Outstanding(b)
      BY <3>1, TypeParts DEF ManagerTypeOK, Outstanding, Settled
    <3> QED BY <2>1, <3>1, <3>2 DEF ClashInv, ClashExcused, SomePending
  <2>3. CASE ~busy
    <3>1. excused' = (client = "rollingBack" \/ (excused /\ SomePending))
      BY <1>2, <2>3 DEF assertPoolIdle
    <3>2. client \in {"idle", "rollingBack"}
      BY <2>1, <2>3 DEF busy, ClientStates
    <3> QED BY <2>1, <3>1, <3>2 DEF ClashInv, ClashExcused
  <2> QED BY <2>2, <2>3
<1>3. ASSUME NEW c \in Calls, OperationStep(c)
      PROVE  ClashInv'
  <2>1. CASE at[c] = "queued" /\ xact
    <3>1. Clash /\ \A b \in Calls : b < c => at[b] \in Settled
      BY <1>3, <2>1 DEF OperationStep
    <3>2. ASSUME NEW b \in Calls, Running(b) PROVE FALSE
      <4>1. at[b] \notin Settled \cup {"queued"}
        BY <3>2 DEF Running, Steps, SnapshotSteps, ResetSteps, DropSteps, Settled
      <4>2. b < c \/ c < b
        BY <2>1, <4>1 DEF Calls
      <4> QED BY <2>1, <3>1, <3>2, <4>1, <4>2 DEF SessionInv, OneAtATime, Settled
    <3>3. client # "idle"
      BY <2>1, <3>2 DEF SessionInv, BlocksOwned, SomeRunning
    <3>4. SomePending
      BY <2>1 DEF SomePending, Outstanding, Settled
    <3> QED BY <3>1, <3>3, <3>4, ClashIsExcused
  <2>2. CASE ~(at[c] = "queued" /\ xact)
    <3>1. ManagerStep(c) /\ UNCHANGED <<client, excused, clashed>>
      BY <1>3, <2>2 DEF OperationStep, bridgeVars
    <3>2. Outstanding(c) /\ \A b \in Calls \ {c} : at'[b] = at[b]
      BY <3>1, StatementKindsLemma
         DEF StatementKinds, Outstanding, Copying, Restoring, RollingBack, Settled
    <3>3. SomePending
      BY <3>2 DEF SomePending
    <3> QED BY <3>1, <3>3 DEF ClashInv, ClashExcused
  <2> QED BY <2>1, <2>2
<1>4. ASSUME NEW c \in Calls, OperationFails(c)
      PROVE  ClashInv'
  <2>1. Running(c) /\ UNCHANGED <<client, excused, clashed>>
    BY <1>4 DEF OperationFails, statementFails
  <2> QED BY <2>1, RunningIsOutstanding DEF ClashInv, ClashExcused, SomePending
<1>5. CASE Connect \/ Dispatch \/ ClientReleased
  BY <1>5, OthersKeepClash DEF Connect, Dispatch, ClientReleased, managerVars
<1>6. CASE ClientQueries
  <2>1. CASE SomeRunning /\ Clash
    BY <1>6, <2>1, RunningIsOutstanding, ClashIsExcused DEF ClientQueries
  <2>2. CASE UNCHANGED <<managerVars, client, excused, clashed>>
    BY <2>2, OthersKeepClash DEF managerVars
  <2> QED BY <1>6, <2>1, <2>2 DEF ClientQueries
<1>7. CASE CleanupRollback
  <2>1. CASE SomeRunning /\ Clash
    BY <1>7, <2>1, RunningIsOutstanding, ClashIsExcused DEF CleanupRollback
  <2>2. CASE client' = "idle" /\ UNCHANGED <<managerVars, excused, clashed>>
    BY <2>2, OthersKeepClash DEF managerVars
  <2> QED BY <1>7, <2>1, <2>2 DEF CleanupRollback
<1>8. CASE RawSQL \/ PushMigrations \/ PushProceeds \/ PushAborts \/ Operator \/ Close
  <2>1. UNCHANGED <<at, client, excused, clashed>>
    BY <1>8 DEF RawSQL, PushMigrations, PushProceeds, PushAborts, Operator, Close, managerVars,
                bridgeVars
  <2> QED BY <2>1, OthersKeepClash
<1>9. CASE Restart
  BY <1>9 DEF Restart, ClashInv, ClashExcused
<1> QED BY <1>2, <1>3, <1>4, <1>5, <1>6, <1>7, <1>8, <1>9 DEF Next

\* An operation meets pool traffic in the session only if a client came after its
\* idle check, or if the pool still had a rollback to do when it was made.
THEOREM OnlyExcusedClashes == Spec => []ClashExcused
<1>1. Init => ClashInv
  BY DEF Init, ClashInv, ClashExcused
<1>2. TypeOK /\ SessionInv /\ ClashInv /\ [Next]_vars => ClashInv'
  BY NextClash
<1>3. ClashInv => ClashExcused
  BY DEF ClashInv
<1> QED BY <1>1, <1>2, <1>3, BridgeTypes, Session, PTL DEF Spec
-----------------------------------------------------------------------------
(* Session settings. *)

\* What a step may do to the settings, and what a reset's success says of them.
ScrubsLast ==
    /\ settings = "set" /\ settings' = "default" =>
          \/ \E c \in Calls : op[c] = "reset" /\ at[c] = "scrub" /\ ~xact
          \/ Restart
    /\ \A c \in Calls : op[c] = "reset" /\ at[c] # "ok" /\ at'[c] = "ok" => settings' = "default"

\* A step that leaves the settings alone, with no reset that succeeds.
LEMMA QuietStep ==
    ASSUME settings' = settings \/ settings' = "set" \/ Restart,
           \A c \in Calls : at[c] # "ok" => at'[c] # "ok"
    PROVE  ScrubsLast
BY DEF ScrubsLast

\* Every step scrubs last.
LEMMA StepScrubsLast == TypeOK /\ SessionInv /\ [Next]_vars => ScrubsLast
<1> SUFFICES ASSUME TypeOK, SessionInv, [Next]_vars PROVE ScrubsLast
  OBVIOUS
<1>1. \A x : Exec(x) => settings' = settings
  BY DEF Exec
<1>2. CASE UNCHANGED <<at, settings>>
  BY <1>2, QuietStep
<1>3. ASSUME NEW c \in Calls, NEW operation \in Operations, assertPoolIdle(c, operation)
      PROVE  ScrubsLast
  <2>1. settings' = settings /\ \E s \in {"refused", "queued"} : at' = [at EXCEPT ![c] = s]
    BY <1>3 DEF assertPoolIdle, enqueue, dbVars
  <2>2. \A b \in Calls : at[b] # "ok" => at'[b] # "ok"
    BY <2>1, TypeParts DEF ManagerTypeOK
  <2> QED BY <2>1, <2>2, QuietStep
<1>4. ASSUME NEW c \in Calls, OperationStep(c)
      PROVE  ScrubsLast
  <2>1. CASE Clash
    BY <1>2, <2>1 DEF Clash, managerVars, dbVars
  <2>2. CASE ManagerStep(c)
    <3>1. StatementKinds(c) /\ \A b \in Calls \ {c} : at'[b] = at[b]
      BY <2>2, StatementKindsLemma
    <3>2. /\ at[c] \in SnapshotSteps => op[c] = "snapshot"
          /\ at[c] \in DropSteps => op[c] = "drop"
          /\ at[c] = "scrub" => op[c] = "reset"
      BY DEF SessionInv, StepsFit
    <3>3. at[c] = "scrub" => ~xact
      BY DEF SessionInv, BlocksOwned, Running, Steps, ResetSteps, InBlock, Copying, Restoring,
             RollingBack
    <3>4. settings' = settings \/ (at[c] = "scrub" /\ settings' = "default")
      BY <3>1 DEF StatementKinds, Kept, Wrote, Begin, Commit, Rollback, dbVars
    <3>5. op[c] = "reset" /\ at'[c] = "ok" => settings' = "default"
      BY <3>1, <3>2 DEF StatementKinds, LeadsTo, FirstStep, AfterRestore, SnapshotSteps,
                        DropSteps, Copying, Restoring
    <3> QED BY <3>1, <3>2, <3>3, <3>4, <3>5 DEF ScrubsLast
  <2> QED BY <1>4, <2>1, <2>2 DEF OperationStep
<1>5. ASSUME NEW c \in Calls, OperationFails(c)
      PROVE  ScrubsLast
  <2>1. at' = [at EXCEPT ![c] = OnError(at[c])] /\ settings' = settings
    BY <1>5 DEF OperationFails, statementFails, dbVars
  <2>2. OnError(at[c]) # "ok"
    BY DEF OnError
  <2>3. \A b \in Calls : at[b] # "ok" => at'[b] # "ok"
    BY <2>1, <2>2, TypeParts DEF ManagerTypeOK
  <2> QED BY <2>1, <2>3, QuietStep
<1>6. CASE Connect \/ Dispatch \/ ClientReleased
  BY <1>2, <1>6 DEF Connect, Dispatch, ClientReleased, managerVars, dbVars
<1>7. CASE ClientQueries
  <2>1. CASE Clash
    BY <1>2, <2>1 DEF Clash, managerVars, dbVars
  <2>2. CASE ClientStatement /\ UNCHANGED managerVars
    <3>1. settings' = settings \/ settings' = "set"
      BY <1>1, <2>2 DEF ClientStatement, Begin, Commit, Rollback
    <3> QED BY <2>2, <3>1, QuietStep DEF managerVars
  <2> QED BY <1>7, <2>1, <2>2 DEF ClientQueries
<1>8. CASE CleanupRollback
  BY <1>2, <1>8 DEF CleanupRollback, Clash, Rollback, managerVars, dbVars
<1>9. CASE RawSQL \/ PushMigrations \/ PushProceeds \/ PushAborts \/ Operator
  <2>1. UNCHANGED at
    BY <1>9 DEF RawSQL, PushMigrations, PushProceeds, PushAborts, Operator, managerVars
  <2>2. UNCHANGED settings
    BY <1>1, <1>9 DEF RawSQL, PushMigrations, resolveMigrations, PushProceeds, PushStep,
         createTable, validateHistory, startMigration, runScript, markFinished, allApplied,
         PushAborts, pushFails, Operator, EditFile, ResolveByHand, Reads, dbVars
  <2> QED BY <1>2, <2>1, <2>2
<1>10. CASE Close \/ UNCHANGED vars
  BY <1>2, <1>10 DEF Close, vars, managerVars, dbVars
<1>11. CASE Restart
  <2>1. \A c \in Calls : at[c] # "ok" => at'[c] # "ok"
    BY <1>11 DEF Restart, loseCalls
  <2> QED BY <1>11, <2>1, QuietStep
<1> QED BY <1>3, <1>4, <1>5, <1>6, <1>7, <1>8, <1>9, <1>10, <1>11 DEF Next

\* The session's settings are reset only by a call that was asked to, after its
\* COMMIT, or by a new process; and such a call succeeds only when they were.
THEOREM SettingsAreScrubbedLast == Spec => SettingsScrubbedLast
<1>1. TypeOK /\ SessionInv /\ [Next]_vars => ScrubsLast
  BY StepScrubsLast
<1>2. Spec => [][ScrubsLast]_vars
  BY <1>1, BridgeTypes, Session, PTL DEF Spec
<1> QED BY <1>2 DEF ScrubsLast, SettingsScrubbedLast

-----------------------------------------------------------------------------
(* The history and the scripts. *)

\* Nobody leaves a history row in an open transaction block.
HistoryDurable == disk.history = mem.history

\* What took effect is on record and took effect once; what is recorded as
\* finished took effect.
RanRecorded == /\ \A k \in DOMAIN mem.history : mem.history[k].finished
                                                  => ran[mem.history[k].name] > 0
               /\ \A n \in Names : ran[n] > 0 => Applied(n)
               /\ NoScriptTwice

\* A call that is past validateHistory goes on from a history that validates.
Validated == push \in {"next", "runScript", "markFinished"} =>
                /\ \A k \in Active : ~Modified(k)
                /\ \A k, l \in Active : mem.history[k].name = mem.history[l].name => k = l

\* Between its row and its mark, a script is the only one in flight.
InFlight == /\ push = "next" => Unfinished = {}
            /\ push \in {"runScript", "markFinished"} => Unfinished = {Len(mem.history)}
            /\ push = "runScript" => ran[Started.name] = 0
            /\ push = "markFinished" => ran[Started.name] > 0

\* A call that starts a history does so in a database without tables.
FromEmpty == /\ push = "next" /\ Active = {} => ~hasUserTables
             /\ push = "runScript" /\ Active = {Len(mem.history)} => ~hasUserTables

\* The history agrees with what the database has run.
HistoryInv == HistoryDurable /\ RanRecorded /\ Validated /\ InFlight /\ FromEmpty

\* The rows of the history.
LEMMA HistoryRows ==
    ASSUME TypeOK
    PROVE  /\ mem.history \in Seq(Row) /\ Len(mem.history) \in Nat
           /\ DOMAIN mem.history = 1..Len(mem.history)
           /\ \A k \in DOMAIN mem.history : /\ mem.history[k] \in Row
                                            /\ mem.history[k].name \in Names
           /\ ran \in [Names -> Nat]
<1>1. mem.history \in Seq(Row)
  BY TypeParts, MemTypes
<1>2. Len(mem.history) \in Nat /\ DOMAIN mem.history = 1..Len(mem.history)
  BY <1>1, LenProperties
<1>3. ASSUME NEW k \in DOMAIN mem.history PROVE mem.history[k] \in Row
  BY <1>1, <1>2, ElementOfSeq
<1>4. \A row \in Row : row.name \in Names
  BY DEF Row
<1> QED BY <1>1, <1>2, <1>3, <1>4, TypeParts DEF PushTypeOK

\* A step that leaves history, files and push alone keeps the invariant.
LEMMA HistoryKept ==
    ASSUME HistoryInv, mem'.history = mem.history, disk'.history = mem'.history, ran' = ran,
           \/ UNCHANGED <<push, scripts>> /\ (push = "idle" \/ mem'.user = mem.user)
           \/ push' \notin {"next", "runScript", "markFinished"}
    PROVE  HistoryInv'
<1>1. Active' = Active /\ Unfinished' = Unfinished /\ Started' = Started
  BY DEF Active, Unfinished, Started
<1>2. HistoryDurable'
  BY DEF HistoryDurable
<1>3. RanRecorded'
  BY <1>1 DEF HistoryInv, RanRecorded, NoScriptTwice, Applied
<1>4. Validated'
  BY <1>1 DEF HistoryInv, Validated, Modified
<1>5. InFlight'
  BY <1>1 DEF HistoryInv, InFlight
<1>6. FromEmpty'
  BY <1>1 DEF HistoryInv, FromEmpty, hasUserTables, Exists
<1> QED BY <1>2, <1>3, <1>4, <1>5, <1>6 DEF HistoryInv

\* A change of the database that leaves the history alone, while no call pushes.
LEMMA HistoryUntouched ==
    ASSUME HistoryInv, UNCHANGED <<push, scripts, ran>>,
           push = "idle" \/ UNCHANGED <<disk, mem>>,
           \/ UNCHANGED <<disk, mem>>
           \/ Wrote /\ mem'.history = mem.history
           \/ Begin \/ Commit \/ Rollback \/ Gone
    PROVE  HistoryInv'
<1>1. mem'.history = mem.history /\ disk'.history = mem'.history
  BY DEF HistoryInv, HistoryDurable, Wrote, Begin, Commit, Rollback, Gone
<1> QED BY <1>1, HistoryKept

\* The bookkeeping of a script: its row, its effect, its mark.
LEMMA StartKeepsHistory ==
    ASSUME TypeOK, SessionInv, HistoryInv, startMigration
    PROVE  HistoryInv'
<1> DEFINE n == Len(mem.history)
           row == [name |-> NextScript, text |-> scripts[NextScript],
                   finished |-> FALSE, rolledBack |-> FALSE]
<1>1. /\ n \in Nat /\ DOMAIN mem.history = 1..n /\ mem.history \in Seq(Row)
      /\ \A k \in 1..n : mem.history[k] \in Row /\ mem.history[k].name \in Names
      /\ ran \in [Names -> Nat]
  BY HistoryRows
<1>2. NextScript \in Names /\ scripts[NextScript] # Missing /\ ~Applied(NextScript)
  BY NextScriptPending DEF startMigration, Pending
<1>3. row \in Row
  BY <1>2, TypeParts DEF Row, PushTypeOK
<1>4. /\ push = "next" /\ push' = "runScript" /\ UNCHANGED <<scripts, ran>>
      /\ Exec([mem EXCEPT !.history = Append(mem.history, row)])
  BY DEF startMigration
<1>5. /\ mem'.history = Append(mem.history, row) /\ disk'.history = mem'.history
      /\ mem'.user = mem.user
  <2>1. Stores(mem.user, mem.snapshot, mem.staging, Append(mem.history, row))
    BY <1>4, TypeParts, ExecStores
  <2> HIDE DEF row
  <2> QED BY <1>4, <2>1 DEF Stores, SessionInv, PushAlone
<1> HIDE DEF row
<1>6. /\ Len(mem'.history) = n + 1 /\ DOMAIN mem'.history = 1..(n + 1)
      /\ \A k \in 1..n : mem'.history[k] = mem.history[k]
      /\ mem'.history[n + 1] = row
  BY <1>1, <1>3, <1>5, AppendProperties, LenProperties
<1> HIDE DEF n
<1>7. row.name = NextScript /\ row.text = scripts[NextScript] /\ ~row.finished /\ ~row.rolledBack
  BY DEF row
<1>8. Active' = Active \cup {n + 1}
  BY <1>1, <1>6, <1>7 DEF Active
<1>9. Unfinished' = {n + 1}
  <2>1. \A k \in Active : mem.history[k].finished
    BY <1>4 DEF HistoryInv, InFlight, Unfinished
  <2> QED BY <1>1, <1>6, <1>7, <1>8, <2>1 DEF Unfinished, Active
<1>10. Active \subseteq 1..n
  BY <1>1 DEF Active
<1>11. HistoryDurable'
  BY <1>5 DEF HistoryDurable
<1>12. RanRecorded'
  <2>1. \A k \in DOMAIN mem'.history : mem'.history[k].finished => ran[mem'.history[k].name] > 0
    BY <1>1, <1>6, <1>7 DEF HistoryInv, RanRecorded
  <2>2. \A m \in Names : ran[m] > 0 => Applied(m)'
    BY <1>6, <1>8, <1>10 DEF HistoryInv, RanRecorded, Applied
  <2> QED BY <1>4, <2>1, <2>2 DEF HistoryInv, RanRecorded, NoScriptTwice
<1>13. Validated'
  <2>1. \A k \in Active' : ~Modified(k)'
    <3>1. \A k \in Active : ~Modified(k)
      BY <1>4 DEF HistoryInv, Validated
    <3>2. \A k : k = n + 1 => ~Modified(k)'
      BY <1>2, <1>4, <1>6, <1>7 DEF Modified, checksumMatches
    <3> QED BY <1>4, <1>6, <1>8, <1>10, <3>1, <3>2 DEF Modified
  <2>2. \A k, l \in Active' : mem'.history[k].name = mem'.history[l].name => k = l
    <3>1. \A k, l \in Active : mem.history[k].name = mem.history[l].name => k = l
      BY <1>4 DEF HistoryInv, Validated
    <3>2. \A k \in Active : mem.history[k].name # row.name
      BY <1>2, <1>7 DEF Applied
    <3> QED BY <1>6, <1>8, <1>10, <3>1, <3>2
  <2> QED BY <2>1, <2>2 DEF Validated
<1>14. InFlight'
  <2>1. Started' = row
    BY <1>6 DEF Started
  <2>2. ran[NextScript] = 0
    BY <1>1, <1>2 DEF HistoryInv, RanRecorded
  <2> QED BY <1>4, <1>6, <1>7, <1>9, <2>1, <2>2 DEF InFlight
<1>15. FromEmpty'
  <2>1. Active' = {n + 1} => Active = {}
    BY <1>1, <1>8, <1>10
  <2>2. Active = {} => ~hasUserTables'
    BY <1>4, <1>5 DEF HistoryInv, FromEmpty, hasUserTables, Exists
  <2> QED BY <1>4, <1>6, <2>1, <2>2 DEF FromEmpty
<1> QED BY <1>11, <1>12, <1>13, <1>14, <1>15 DEF HistoryInv

\* Running a script, and recording that it finished, keep it.
LEMMA RunKeepsHistory ==
    ASSUME TypeOK, SessionInv, HistoryInv, runScript
    PROVE  HistoryInv'
<1>1. /\ DOMAIN mem.history = 1..Len(mem.history) /\ Len(mem.history) \in Nat
      /\ \A k \in DOMAIN mem.history : mem.history[k].name \in Names
      /\ ran \in [Names -> Nat]
  BY HistoryRows
<1>2. /\ push = "runScript" /\ push' = "markFinished" /\ UNCHANGED scripts
      /\ ran' = [ran EXCEPT ![Started.name] = ran[Started.name] + 1]
      /\ \E u : Exec([mem EXCEPT !.user = u])
  <2>1. \E t, k : Exec([mem EXCEPT !.user.tables[t].cols = k])
    BY DEF runScript
  <2>2. \E u : Exec([mem EXCEPT !.user = u])
    BY <2>1
  <2> QED BY <2>2 DEF runScript
<1>3. mem'.history = mem.history /\ disk'.history = mem'.history
  <2>1. \E u : Stores(u, mem.snapshot, mem.staging, mem.history)
    BY <1>2, TypeParts, ExecStores
  <2> QED BY <1>2, <2>1 DEF Stores, SessionInv, PushAlone
<1>4. Len(mem.history) \in Active /\ Unfinished = {Len(mem.history)}
  BY <1>2 DEF HistoryInv, InFlight, Unfinished
<1>5. Started.name \in Names /\ ran[Started.name] = 0 /\ Applied(Started.name)
  BY <1>1, <1>2, <1>4 DEF HistoryInv, InFlight, Started, Active, Applied
<1>6. \A m \in Names : ran'[m] = IF m = Started.name THEN 1 ELSE ran[m]
  BY <1>1, <1>2, <1>5
<1>7. Active' = Active /\ Unfinished' = Unfinished /\ Started' = Started
  BY <1>3 DEF Active, Unfinished, Started
<1>8. HistoryDurable'
  BY <1>3 DEF HistoryDurable
<1>9. RanRecorded'
  BY <1>1, <1>3, <1>5, <1>6, <1>7 DEF HistoryInv, RanRecorded, NoScriptTwice, Applied
<1>10. Validated'
  BY <1>2, <1>3, <1>7 DEF HistoryInv, Validated, Modified
<1>11. InFlight'
  BY <1>2, <1>3, <1>4, <1>5, <1>6, <1>7 DEF InFlight
<1> QED BY <1>2, <1>8, <1>9, <1>10, <1>11 DEF HistoryInv, FromEmpty

\* Recording that the script has finished.
LEMMA MarkKeepsHistory ==
    ASSUME TypeOK, SessionInv, HistoryInv, markFinished
    PROVE  HistoryInv'
<1> DEFINE n == Len(mem.history)
           row == [mem.history[n] EXCEPT !.finished = TRUE]
<1>1. /\ n \in Nat /\ DOMAIN mem.history = 1..n /\ mem.history \in Seq(Row)
      /\ \A k \in 1..n : mem.history[k] \in Row /\ mem.history[k].name \in Names
      /\ ran \in [Names -> Nat]
  BY HistoryRows
<1>2. /\ push = "markFinished" /\ push' = "next" /\ UNCHANGED <<scripts, ran>>
      /\ Exec([mem EXCEPT !.history = [mem.history EXCEPT ![n] = row]])
  BY DEF markFinished
<1>3. n \in Active /\ Unfinished = {n}
  BY <1>2 DEF HistoryInv, InFlight, Unfinished
<1>4. /\ n \in 1..n /\ row \in Row /\ row.finished
      /\ row.name = mem.history[n].name /\ row.text = mem.history[n].text
      /\ row.rolledBack = mem.history[n].rolledBack
  BY <1>1, <1>3 DEF Active, Row
<1>5. /\ mem'.history = [mem.history EXCEPT ![n] = row]
      /\ disk'.history = mem'.history
  <2> DEFINE h == [mem.history EXCEPT ![n] = row]
  <2>1. Stores(mem.user, mem.snapshot, mem.staging, h)
    BY <1>2, TypeParts, ExecStores
  <2> HIDE DEF h
  <2>2. mem'.history = h /\ disk'.history = h
    BY <1>2, <2>1 DEF Stores, SessionInv, PushAlone
  <2> QED BY <2>2 DEF h
<1> HIDE DEF row
<1>6. /\ Len(mem'.history) = n /\ DOMAIN mem'.history = 1..n
      /\ \A k \in 1..n : mem'.history[k] = IF k = n THEN row ELSE mem.history[k]
  BY <1>1, <1>4, <1>5, ExceptSeq, LenProperties
<1> HIDE DEF n
<1>7. /\ Active' = Active
      /\ \A k \in 1..n : /\ mem'.history[k].name = mem.history[k].name
                         /\ mem'.history[k].text = mem.history[k].text
  BY <1>1, <1>4, <1>6 DEF Active
<1>8. Unfinished' = {}
  BY <1>1, <1>3, <1>4, <1>6, <1>7 DEF Unfinished, Active
<1>9. HistoryDurable'
  BY <1>5 DEF HistoryDurable
<1>10. RanRecorded'
  <2>1. ran[mem.history[n].name] > 0
    BY <1>2 DEF HistoryInv, InFlight, Started, n
  <2>2. \A k \in DOMAIN mem'.history : mem'.history[k].finished => ran[mem'.history[k].name] > 0
    BY <1>1, <1>4, <1>6, <2>1 DEF HistoryInv, RanRecorded
  <2>3. \A m \in Names : ran[m] > 0 => Applied(m)'
    BY <1>1, <1>7 DEF HistoryInv, RanRecorded, Applied, Active
  <2> QED BY <1>2, <2>2, <2>3 DEF HistoryInv, RanRecorded, NoScriptTwice
<1>11. Validated'
  BY <1>1, <1>2, <1>7 DEF HistoryInv, Validated, Modified, Active
<1>12. InFlight'
  BY <1>2, <1>8 DEF InFlight
<1> QED BY <1>2, <1>3, <1>7, <1>9, <1>10, <1>11, <1>12 DEF HistoryInv, FromEmpty

\* A row that never finished is closed, and replaced if its script took effect.
LEMMA ResolveKeepsHistory ==
    ASSUME TypeOK, HistoryInv, ResolveByHand
    PROVE  HistoryInv'
<1> DEFINE n == Len(mem.history)
<1>1. PICK k \in Unfinished :
         \/ /\ ran[mem.history[k].name] = 0
            /\ Exec([mem EXCEPT !.history = [mem.history EXCEPT ![k].rolledBack = TRUE]])
         \/ /\ ran[mem.history[k].name] > 0 /\ files[mem.history[k].name] # Missing
            /\ Exec([mem EXCEPT !.history =
                  Append([mem.history EXCEPT ![k].rolledBack = TRUE],
                         [name |-> mem.history[k].name, text |-> files[mem.history[k].name],
                          finished |-> TRUE, rolledBack |-> FALSE])])
  BY DEF ResolveByHand
<1> DEFINE name == mem.history[k].name
           closedRow == [mem.history[k] EXCEPT !.rolledBack = TRUE]
           redone == [name |-> name, text |-> files[name],
                      finished |-> TRUE, rolledBack |-> FALSE]
           resolved == [mem.history EXCEPT ![k] = closedRow]
           h == IF ran[name] = 0 THEN resolved ELSE Append(resolved, redone)
<1>2. /\ n \in Nat /\ DOMAIN mem.history = 1..n /\ mem.history \in Seq(Row)
      /\ \A j \in 1..n : mem.history[j] \in Row /\ mem.history[j].name \in Names
      /\ ran \in [Names -> Nat]
  BY HistoryRows
<1>3. k \in 1..n /\ k \in Active /\ mem.history[k] \in Row /\ name \in Names
  BY <1>2 DEF Unfinished, Active
<1>4. /\ closedRow \in Row /\ (ran[name] # 0 => redone \in Row)
      /\ closedRow.name = name /\ closedRow.finished = mem.history[k].finished
      /\ redone.name = name /\ ~redone.rolledBack
  BY <1>1, <1>2, <1>3, TypeParts DEF Row, PushTypeOK
<1>5. mem'.history = h /\ disk'.history = h
  <2>1. Exec([mem EXCEPT !.history = h])
    <3>1. CASE ran[name] = 0
      <4>1. Exec([mem EXCEPT !.history = resolved])
        BY <1>1, <3>1
      <4> QED BY <3>1, <4>1
    <3>2. CASE ran[name] # 0
      <4>1. Exec([mem EXCEPT !.history = Append(resolved, redone)])
        BY <1>1, <3>2
      <4> QED BY <3>2, <4>1
    <3> QED BY <3>1, <3>2
  <2> HIDE DEF h
  <2>2. Stores(mem.user, mem.snapshot, mem.staging, h)
    BY <2>1, TypeParts, ExecStores
  <2>3. ~xact
    BY DEF ResolveByHand
  <2> QED BY <2>2, <2>3 DEF Stores
<1> HIDE DEF closedRow, redone
<1>6. /\ resolved \in Seq(Row) /\ Len(resolved) = n /\ DOMAIN resolved = 1..n
      /\ \A j \in 1..n : resolved[j] = IF j = k THEN closedRow ELSE mem.history[j]
  BY <1>2, <1>3, <1>4, ExceptSeq, LenProperties
<1>7. ran[name] # 0 => /\ Len(Append(resolved, redone)) = n + 1
                       /\ DOMAIN Append(resolved, redone) = 1..(n + 1)
                       /\ \A j \in 1..n : Append(resolved, redone)[j] = resolved[j]
                       /\ Append(resolved, redone)[n + 1] = redone
  BY <1>4, <1>6, AppendProperties, LenProperties
<1> HIDE DEF n, resolved
<1>8. /\ 1..n \subseteq DOMAIN h
      /\ \A j \in 1..n : h[j] = IF j = k THEN closedRow ELSE mem.history[j]
      /\ \A j \in DOMAIN h : j \in 1..n \/ (ran[name] # 0 /\ j = n + 1 /\ h[j] = redone)
      /\ ran[name] # 0 => n + 1 \in DOMAIN h /\ h[n + 1] = redone
  <2>1. CASE ran[name] = 0
    BY <1>6, <2>1
  <2>2. CASE ran[name] # 0
    BY <1>2, <1>6, <1>7, <2>2
  <2> QED BY <2>1, <2>2
<1> HIDE DEF h, name
<1>9. UNCHANGED <<push, scripts, ran>> /\ push = "idle"
  BY DEF ResolveByHand, pushVars
<1>10. \A j \in DOMAIN h : h[j].finished => ran[h[j].name] > 0
  <2>1. \A j \in 1..n : h[j].finished => ran[h[j].name] > 0
    BY <1>2, <1>3, <1>4, <1>8 DEF HistoryInv, RanRecorded, name
  <2>2. ran[name] # 0 => ran[redone.name] > 0
    BY <1>2, <1>3, <1>4
  <2> QED BY <1>8, <2>1, <2>2
<1>11. ASSUME NEW m \in Names, ran[m] > 0
       PROVE  Applied(m)'
  <2>1. CASE m = name
    <3>1. n + 1 \in DOMAIN h /\ h[n + 1] = redone
      BY <1>11, <1>8, <2>1
    <3> QED BY <1>4, <1>5, <2>1, <3>1 DEF Applied, Active
  <2>2. CASE m # name
    <3>1. PICK j \in Active : mem.history[j].name = m
      BY <1>11 DEF HistoryInv, RanRecorded, Applied
    <3>2. j \in 1..n /\ j # k
      BY <1>2, <2>2, <3>1 DEF Active, name
    <3>3. j \in Active'
      BY <1>5, <1>8, <3>1, <3>2 DEF Active
    <3> QED BY <1>5, <1>8, <3>1, <3>2, <3>3 DEF Applied
  <2> QED BY <2>1, <2>2
<1>12. RanRecorded'
  BY <1>5, <1>9, <1>10, <1>11 DEF HistoryInv, RanRecorded, NoScriptTwice
<1> QED BY <1>5, <1>9, <1>12
        DEF HistoryInv, HistoryDurable, Validated, InFlight, FromEmpty

\* The history is empty at first.
LEMMA InitHistory == Init => HistoryInv
BY DEF Init, PushInit, HistoryInv, HistoryDurable, RanRecorded, NoScriptTwice, Validated,
       InFlight, FromEmpty

\* Every step keeps the invariant.
LEMMA NextHistory == TypeOK /\ SessionInv /\ HistoryInv /\ [Next]_vars => HistoryInv'
<1> SUFFICES ASSUME TypeOK, SessionInv, HistoryInv, [Next]_vars PROVE HistoryInv'
  OBVIOUS
<1>1. DbTypeOK
  BY TypeParts
<1>2. \A u, s, r : Stores(u, s, r, mem.history) => Wrote /\ mem'.history = mem.history
  BY DEF Stores, Wrote
<1>3. CASE Clash
  BY <1>3, HistoryUntouched DEF Clash, dbVars, pushVars
<1>4. CASE UNCHANGED <<disk, mem, push, scripts, ran>>
  BY <1>4, HistoryUntouched
<1>5. ASSUME NEW c \in Calls, NEW operation \in Operations, assertPoolIdle(c, operation)
      PROVE  HistoryInv'
  BY <1>4, <1>5 DEF assertPoolIdle, dbVars, pushVars
<1>6. ASSUME NEW c \in Calls, OperationStep(c)
      PROVE  HistoryInv'
  <2>1. CASE ManagerStep(c) /\ UNCHANGED pushVars
    <3>1. StatementKinds(c)
      BY <2>1, StatementKindsLemma
    <3>2. \/ UNCHANGED <<disk, mem>>
          \/ Wrote /\ mem'.history = mem.history
          \/ Begin \/ Commit \/ Rollback
      BY <3>1 DEF StatementKinds, Kept, dbVars
    <3>3. Outstanding(c)
      BY <3>1 DEF StatementKinds, Copying, Restoring, Outstanding, Settled
    <3>4. push = "idle"
      BY <3>3 DEF SessionInv, PushAlone, SomePending
    <3> QED BY <2>1, <3>2, <3>4, HistoryUntouched DEF pushVars
  <2> QED BY <1>3, <1>6, <2>1 DEF OperationStep
<1>7. ASSUME NEW c \in Calls, OperationFails(c)
      PROVE  HistoryInv'
  BY <1>4, <1>7 DEF OperationFails, statementFails, dbVars, pushVars
<1>8. CASE Connect \/ Dispatch \/ ClientReleased
  BY <1>4, <1>8 DEF Connect, Dispatch, ClientReleased, dbVars, pushVars
<1>9. CASE ClientQueries
  <2>1. CASE client = "out" /\ ClientStatement /\ UNCHANGED pushVars
    <3>1. ASSUME NEW t, NEW k, Exec([mem EXCEPT !.user.tables[t].rows = k])
          PROVE  Wrote /\ mem'.history = mem.history
      <4>1. \E u : Exec([mem EXCEPT !.user = u])
        BY <3>1
      <4> QED BY <1>1, <1>2, <4>1, ExecStores
    <3>2. ASSUME NEW k, Exec([mem EXCEPT !.user.counter = k])
          PROVE  Wrote /\ mem'.history = mem.history
      BY <1>1, <1>2, <3>2, ExecCounter
    <3>3. \/ UNCHANGED <<disk, mem>>
          \/ Wrote /\ mem'.history = mem.history
          \/ Begin \/ Commit \/ Rollback
      BY <2>1, <3>1, <3>2 DEF ClientStatement
    <3> QED BY <2>1, <3>3, HistoryUntouched DEF SessionInv, PushAlone, pushVars
  <2> QED BY <1>3, <1>9, <2>1 DEF ClientQueries
<1>10. CASE CleanupRollback
  BY <1>3, <1>10, HistoryUntouched DEF CleanupRollback, SessionInv, PushAlone, pushVars
<1>11. CASE RawSQL
  <2>1. \/ \E t, x : Exec([mem EXCEPT !.user.tables[t] = x])
        \/ Exec([mem EXCEPT !.snapshot = NoSchema])
    BY <1>11 DEF RawSQL
  <2>2. \/ \E u : Exec([mem EXCEPT !.user = u])
        \/ Exec([mem EXCEPT !.snapshot = NoSchema])
    BY <2>1
  <2>3. Wrote /\ mem'.history = mem.history
    BY <1>1, <1>2, <2>2, ExecStores
  <2> QED BY <1>11, <2>3, HistoryUntouched DEF RawSQL, Alone, pushVars
<1>12. CASE PushMigrations
  <2>1. /\ UNCHANGED <<disk, mem, ran>>
        /\ UNCHANGED <<push, scripts>> \/ push' = "createTable"
    BY <1>12 DEF PushMigrations, resolveMigrations, dbVars
  <2> QED BY <2>1, HistoryKept DEF HistoryInv, HistoryDurable
<1>13. ASSUME createTable PROVE HistoryInv'
  <2>1. Wrote /\ mem'.history = mem.history
    BY <1>1, <1>2, <1>13, ExecStores DEF createTable
  <2>2. mem'.history = mem.history /\ disk'.history = mem'.history
    BY <2>1 DEF Wrote, HistoryInv, HistoryDurable
  <2> QED BY <1>13, <2>2, HistoryKept DEF createTable
<1>14. ASSUME validateHistory PROVE HistoryInv'
  <2>1. UNCHANGED <<disk, mem, ran>> /\ push = "readHistory"
    BY <1>14 DEF validateHistory, Reads, dbVars
  <2>2. CASE historyInvalid
    BY <1>14, <2>1, <2>2, HistoryKept DEF validateHistory, Settles, HistoryInv, HistoryDurable
  <2>3. CASE ~historyInvalid
    <3>1. push' = "next" /\ scripts' = scripts
      BY <1>14, <2>3 DEF validateHistory
    <3>2. /\ Unfinished = {}
          /\ \A k, l \in Active : mem.history[k].name = mem.history[l].name => k = l
          /\ \A k \in Active : ~Modified(k)
          /\ Active = {} => ~hasUserTables
      BY <2>3 DEF historyInvalid
    <3>3. Active' = Active /\ Unfinished' = Unfinished /\ \A k : Modified(k)' <=> Modified(k)
      BY <2>1, <3>1 DEF Active, Unfinished, Modified
    <3>4. HistoryDurable'
      BY <2>1 DEF HistoryInv, HistoryDurable
    <3>5. RanRecorded'
      BY <2>1, <3>3 DEF HistoryInv, RanRecorded, NoScriptTwice, Applied
    <3>6. Validated'
      BY <2>1, <3>2, <3>3 DEF Validated
    <3>7. InFlight'
      BY <3>1, <3>2, <3>3 DEF InFlight
    <3>8. FromEmpty'
      BY <2>1, <3>1, <3>2, <3>3 DEF FromEmpty, hasUserTables, Exists
    <3> QED BY <3>4, <3>5, <3>6, <3>7, <3>8 DEF HistoryInv
  <2> QED BY <2>2, <2>3
<1>15. ASSUME allApplied \/ pushFails PROVE HistoryInv'
  <2>1. UNCHANGED <<disk, mem, ran>> /\ push' = "idle"
    BY <1>15 DEF allApplied, pushFails, Settles, dbVars
  <2> QED BY <2>1, HistoryKept DEF HistoryInv, HistoryDurable
<1>16. CASE PushProceeds
  BY <1>13, <1>14, <1>15, <1>16, StartKeepsHistory, RunKeepsHistory, MarkKeepsHistory
     DEF PushProceeds, PushStep
<1>17. CASE PushAborts
  BY <1>15, <1>17 DEF PushAborts
<1>18. CASE Operator
  <2>1. CASE EditFile
    BY <1>4, <2>1 DEF EditFile, dbVars
  <2> QED BY <1>18, <2>1, ResolveKeepsHistory DEF Operator
<1>19. CASE Close
  BY <1>19, HistoryUntouched DEF Close, pushVars
<1>20. CASE Restart
  <2>1. UNCHANGED ran /\ push' = "idle" /\ mem' = disk /\ disk' = disk
    BY <1>20 DEF Restart, Settles, Gone
  <2> QED BY <2>1, HistoryKept DEF HistoryInv, HistoryDurable
<1>21. CASE UNCHANGED vars
  BY <1>4, <1>21 DEF vars, dbVars, pushVars
<1> QED BY <1>5, <1>6, <1>7, <1>8, <1>9, <1>10, <1>11, <1>12, <1>16, <1>17, <1>18, <1>19, <1>20,
           <1>21 DEF Next

\* HistoryInv is an invariant.
LEMMA History == Spec => []HistoryInv
BY BridgeTypes, Session, InitHistory, NextHistory, PTL DEF Spec
-----------------------------------------------------------------------------
(* What follows. *)

\* It implies what the history promises.
LEMMA RecordedRan == TypeOK /\ HistoryInv => FinishedMeansRan
<1> SUFFICES ASSUME TypeOK, HistoryInv PROVE FinishedMeansRan
  OBVIOUS
<1>1. disk.history = mem.history
  BY DEF HistoryInv, HistoryDurable
<1>2. \A k \in DOMAIN disk.history : disk.history[k].finished => ran[disk.history[k].name] > 0
  BY <1>1 DEF HistoryInv, RanRecorded
<1>3. ASSUME push = "next", Pending = {}, NEW n \in Names, scripts[n] # Missing
      PROVE  \E k \in DOMAIN disk.history : /\ disk.history[k].name = n
                                           /\ disk.history[k].finished
                                           /\ ~disk.history[k].rolledBack
  <2>1. PICK k \in Active : mem.history[k].name = n
    BY <1>3 DEF Pending, Applied
  <2>2. mem.history[k].finished
    BY <1>3, <2>1 DEF HistoryInv, InFlight, Unfinished
  <2> QED BY <1>1, <2>1, <2>2 DEF Active
<1> QED BY <1>2, <1>3 DEF FinishedMeansRan

\* A row that is marked finished belongs to a script that took effect, and a call
\* that is about to succeed has a finished row for every script it read.
THEOREM FinishedScriptsRan == Spec => []FinishedMeansRan
BY BridgeTypes, History, RecordedRan, PTL

\* No script takes effect twice, through failures, crashes, edits of the
\* directory and repairs of the history by hand.
THEOREM ScriptsRunOnce == Spec => []NoScriptTwice
<1>1. HistoryInv => NoScriptTwice
  BY DEF HistoryInv, RanRecorded
<1> QED BY <1>1, History, PTL

\* Distinct names are as many as the rows that bear them.
LEMMA DistinctNames ==
    ASSUME TypeOK, \A k, l \in Active : mem.history[k].name = mem.history[l].name => k = l
    PROVE  Cardinality({mem.history[k].name : k \in Active}) = Cardinality(Active)
<1> DEFINE S == Active
           T == {mem.history[k].name : k \in Active}
           f == [k \in S |-> mem.history[k].name]
<1>1. IsFiniteSet(S)
  <2>1. S \subseteq 1..Len(mem.history) /\ Len(mem.history) \in Nat
    BY HistoryRows DEF Active
  <2>2. IsFiniteSet(1..Len(mem.history))
    BY <2>1, FS_Interval
  <2> HIDE DEF S
  <2> QED BY <2>1, <2>2, FS_Subset
<1>2. f \in Surjection(S, T)
  BY DEF Surjection
<1>3. f \in Injection(S, T)
  BY DEF Injection, IsInjective
<1> QED BY <1>1, <1>2, <1>3, FS_Surjection

\* What holds of the history when a script takes effect.
RunsValidated ==
    \A n \in Names : ran'[n] > ran[n] =>
        /\ Unfinished = {Len(mem.history)}
        /\ Active = {Len(mem.history)} => ~hasUserTables
        /\ \A k \in Active : ~Modified(k)
        /\ Cardinality({mem.history[k].name : k \in Active}) = Cardinality(Active)

\* A script runs only in a step of a call that has validated the history.
LEMMA StepRunsValidated == TypeOK /\ HistoryInv /\ [Next]_vars => RunsValidated
<1> SUFFICES ASSUME TypeOK, HistoryInv, [Next]_vars PROVE RunsValidated
  OBVIOUS
<1>1. runScript \/ ran' = ran
  BY DEF Next, assertPoolIdle, OperationStep, Clash, OperationFails, Connect, Dispatch,
         ClientQueries, ClientReleased, CleanupRollback, RawSQL, PushMigrations,
         resolveMigrations, PushProceeds, PushStep, createTable, validateHistory, startMigration,
         markFinished, allApplied, PushAborts, pushFails, Operator, EditFile, ResolveByHand,
         Close, Restart, vars, pushVars
<1>2. CASE runScript
  <2>1. push = "runScript"
    BY <1>2 DEF runScript
  <2>2. /\ Unfinished = {Len(mem.history)}
        /\ \A k \in Active : ~Modified(k)
        /\ \A k, l \in Active : mem.history[k].name = mem.history[l].name => k = l
        /\ Active = {Len(mem.history)} => ~hasUserTables
    BY <2>1 DEF HistoryInv, Validated, InFlight, FromEmpty
  <2> QED BY <2>2, DistinctNames DEF RunsValidated
<1>3. CASE ran' = ran
  <2>1. \A n \in Names : ran[n] \in Nat
    BY TypeParts DEF PushTypeOK
  <2> QED BY <1>3, <2>1 DEF RunsValidated
<1> QED BY <1>1, <1>2, <1>3

\* A script takes effect only while the history validates: its own row is the
\* only unfinished one, no applied script was edited or removed, no script has
\* two rows, and the first row of a history is made in a database without tables.
THEOREM InvalidHistoryStops == Spec => StopsAtInvalidHistory
<1>1. Spec => [][RunsValidated]_vars
  BY BridgeTypes, History, StepRunsValidated, PTL DEF Spec
<1> QED BY <1>1 DEF RunsValidated, StopsAtInvalidHistory
=============================================================================
