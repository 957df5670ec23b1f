---------------------------- MODULE PGliteBridge ----------------------------
(***************************************************************************)
(* A test suite over one persistent database: PGliteBridge                 *)
(* (src/pglite-bridge/index.ts) with its snapshot manager, pushMigrations, *)
(* one pool client, and the application's raw SQL.  The process may die    *)
(* at any point and another one opens the same database.                   *)
(*                                                                         *)
(* The documented preconditions are the environment's: pushMigrations and  *)
(* raw SQL run while nothing else does.  Pool traffic is only kept from    *)
(* the snapshot operations by the check that the pool is idle when they    *)
(* are called.                                                             *)
(***************************************************************************)
EXTENDS SnapshotManager, Migrations

CONSTANTS InitialData, \* what the database may hold when the first process opens it
          Leftovers,   \* the staging schemas it may hold then: none, or one that
                       \* somebody's unfinished snapshotDb left there
          MaxEvents    \* bound on what the application, the operator and fate do

ASSUME BridgeAssumption ==
    /\ MaxEvents \in Nat /\ InitialData \subseteq Data /\ Leftovers \subseteq SUBSET Data
    /\ \A data \in InitialData, t \in Tables : Exists(data, t) \/ data.tables[t] = NoTable

VARIABLES client,    \* the pool client
          excused,   \* ghost: a client got in after an operation's idle check, or
                     \* had left the pool a transaction to roll back at that check
          clashed,   \* a client and an operation met in the session; what
                     \* follows is not modelled
          events     \* what the environment has done so far

bridgeVars == <<client, excused, clashed, events>>
vars == <<dbVars, managerVars, pushVars, bridgeVars>>

ClientStates == {"idle", "waiting", "out", "rollingBack"}

Init == /\ disk \in [user : InitialData, snapshot : {NoSchema}, staging : Leftovers,
                     history : {<<>>}]
        /\ mem = disk /\ xact = FALSE /\ settings = "default" /\ closed = FALSE
        /\ ManagerInit /\ PushInit
        /\ client = "idle" /\ excused = FALSE /\ clashed = FALSE /\ events = 0

Happens == events < MaxEvents /\ events' = events + 1

Outstanding(c) == at[c] \notin Settled \cup {"none"}
SomePending == \E c \in Calls : Outstanding(c)
SomeRunning == \E c \in Calls : Running(c)

\* A client and an operation meet.
Clash == /\ clashed' = TRUE
         /\ UNCHANGED <<dbVars, managerVars, pushVars, client, excused>>
-----------------------------------------------------------------------------
(* The bridge's operations.                                                 *)

\* Mutant of busy: a checkout that waits to be dispatched is not counted.
checkedOut == client = "out"

\* Checked out, or waiting for dispatch.
busy == client \in {"waiting", "out"}

\* resetDb, snapshotDb, resetSnapshot: refused unless the pool is idle.
assertPoolIdle(c, operation) ==
    /\ at[c] = "none" /\ push = "idle" /\ Happens
    /\ \A b \in Calls : b < c => at[b] # "none"
    /\ IF busy
       THEN /\ at' = [at EXCEPT ![c] = "refused"]
            /\ op' = [op EXCEPT ![c] = operation]
            /\ UNCHANGED <<tables, plan, had, excused>>
       ELSE /\ enqueue(c, operation)
            /\ excused' = (client = "rollingBack" \/ (excused /\ SomePending))
    /\ UNCHANGED <<dbVars, pushVars, client, clashed>>

\* An operation's statement, or its beginning in a client's transaction.
OperationStep(c) ==
    IF at[c] = "queued" /\ xact
    THEN /\ \A b \in Calls : b < c => at[b] \in Settled
         /\ Clash /\ UNCHANGED events
    ELSE /\ ManagerStep(c) /\ UNCHANGED <<pushVars, bridgeVars>>

\* The database refuses the statement, or the instance fails under it.
OperationFails(c) ==
    /\ \/ Throws(c) /\ UNCHANGED events
       \/ ~Throws(c) /\ at[c] \notin {"rollback", "rollbackCopy"} /\ Happens
    /\ statementFails(c)
    /\ UNCHANGED <<pushVars, client, excused, clashed>>
-----------------------------------------------------------------------------
(* The pool client: Prisma's queries, or a borrower's.                      *)

Connect == /\ client = "idle" /\ push = "idle" /\ ~closed /\ Happens
           /\ client' = "waiting"
           /\ excused' = (excused \/ SomePending)
           /\ UNCHANGED <<dbVars, managerVars, pushVars, clashed>>

Dispatch == /\ client = "waiting" /\ client' = "out"
            /\ UNCHANGED <<dbVars, managerVars, pushVars, excused, clashed, events>>

\* What the client's statements do to the database.
ClientStatement ==
    \/ ~xact /\ Begin
    \/ xact /\ (Commit \/ Rollback)
    \/ \E t \in LiveTables, token \in Tokens :
          /\ token # mem.user.tables[t].rows
          /\ Exec([mem EXCEPT !.user.tables[t].rows = token])
    \/ \E token \in Tokens \ {0, mem.user.counter} : Exec([mem EXCEPT !.user.counter = token])
    \/ ~xact /\ settings' = "set" /\ UNCHANGED <<disk, mem, xact, closed>>

ClientQueries ==
    /\ client = "out" /\ ~closed
    /\ \/ SomeRunning /\ Clash /\ UNCHANGED events
       \/ /\ ~SomeRunning /\ Happens /\ ClientStatement
          /\ UNCHANGED <<managerVars, pushVars, client, excused, clashed>>

\* The pool counts the client as idle again, its rollback is still to come.
ClientReleased ==
    /\ client = "out"
    /\ client' = IF xact /\ ~SomeRunning THEN "rollingBack" ELSE "idle"
    /\ UNCHANGED <<dbVars, managerVars, pushVars, excused, clashed, events>>

CleanupRollback ==
    /\ client = "rollingBack"
    /\ \/ SomeRunning /\ Clash
       \/ /\ ~SomeRunning /\ Rollback /\ client' = "idle"
          /\ UNCHANGED <<managerVars, pushVars, excused, clashed>>
    /\ UNCHANGED events
-----------------------------------------------------------------------------
(* The application's own SQL, the migrations, and fate.                     *)

Alone == ~SomePending /\ client = "idle" /\ ~xact /\ ~closed /\ push = "idle"

\* Tables and columns come and go; pushSchema starts from an empty schema.
RawSQL ==
    /\ Alone /\ Happens
    /\ \/ \E t \in Tables, n \in 0..2 :
             /\ n # mem.user.tables[t].cols
             /\ Exec([mem EXCEPT !.user.tables[t] =
                        IF n = 0 THEN NoTable ELSE [@ EXCEPT !.cols = n]])
       \/ mem.snapshot # NoSchema /\ Exec([mem EXCEPT !.snapshot = NoSchema])
    /\ UNCHANGED <<managerVars, pushVars, client, excused, clashed>>

PushMigrations == /\ Alone /\ Happens /\ resolveMigrations
                  /\ UNCHANGED <<managerVars, client, excused, clashed>>

PushProceeds == PushStep /\ UNCHANGED <<managerVars, bridgeVars>>

PushAborts == /\ ~closed /\ Happens /\ pushFails
              /\ UNCHANGED <<managerVars, client, excused, clashed>>

Operator == /\ Alone /\ Happens /\ (EditFile \/ ResolveByHand)
            /\ UNCHANGED <<managerVars, client, excused, clashed>>

\* The bridge has been closed, which does not wait for the snapshot operations,
\* and the owner of the instance closes it.
Close == /\ ~closed /\ client = "idle" /\ push = "idle" /\ Happens
         /\ closed' = TRUE /\ Gone
         /\ UNCHANGED <<settings, managerVars, pushVars, client, excused, clashed>>

Restart == /\ Happens /\ loseCalls /\ Gone
           /\ closed' = FALSE /\ settings' = "default" /\ client' = "idle" /\ excused' = FALSE
           /\ Settles
           /\ UNCHANGED <<files, ran, clashed>>
-----------------------------------------------------------------------------
Next == /\ ~clashed
        /\ \/ \E c \in Calls : \/ \E operation \in Operations : assertPoolIdle(c, operation)
                               \/ OperationStep(c) \/ OperationFails(c)
           \/ Connect \/ Dispatch \/ ClientQueries \/ ClientReleased \/ CleanupRollback
           \/ RawSQL \/ PushMigrations \/ PushProceeds \/ PushAborts \/ Operator
           \/ Close \/ Restart

Spec == Init /\ [][Next]_vars
-----------------------------------------------------------------------------
TypeOK == /\ disk \in Contents(Row) /\ mem \in Contents(Row)
          /\ xact \in BOOLEAN /\ closed \in BOOLEAN /\ settings \in {"default", "set"}
          /\ ManagerTypeOK /\ PushTypeOK
          /\ client \in ClientStates /\ events \in 0..MaxEvents
          /\ excused \in BOOLEAN /\ clashed \in BOOLEAN

\* snapshotDb "replaces any previous snapshot - but only on success", a failed
\* restore "leaves the data untouched", and a crash between any two statements
\* leaves the old state or the new one: the operations implement SnapshotStore.
Phase(c) == CASE at[c] \in {"scrub", "dropStaging"} -> "finishing"
              [] Running(c) /\ at[c] \notin {"scrub", "dropStaging"} -> "running"
              [] OTHER -> at[c]

Store == INSTANCE SnapshotStore WITH user <- disk.user, saved <- disk.snapshot, ask <- op,
                                     phase <- [c \in Calls |-> Phase(c)]

SnapshotsAtomic == Store!StoreSpec

\* "The rebuild happens under a staging schema inside one transaction": no
\* statement, failure or crash makes an unfinished copy durable, although the
\* code's comments and a test expect "a hard crash mid-snapshotDb" to leave one.
\* A staging schema found in the database is dropped whole by snapshotDb or
\* resetSnapshot and by nothing else ("resetDb leaves a leftover staging schema
\* untouched"), is gone when either reports success, and never is in the way of
\* a new copy.
StagingOnlySwept ==
    [][/\ disk'.staging # disk.staging =>
             /\ disk'.staging = NoSchema
             /\ \E c \in Calls : Running(c) /\ op[c] \in {"snapshot", "drop"}
       /\ \A c \in Calls : /\ at'[c] = "create" => mem'.staging = NoSchema
                           /\ op[c] \in {"snapshot", "drop"} /\ at[c] # "ok" /\ at'[c] = "ok"
                                 => disk'.staging = NoSchema]_vars

\* "Requires no in-flight or waiting pool checkouts": an operation meets pool
\* traffic only if the client was checked out after the operation's call, or
\* was released before it with a transaction that the pool still has to roll
\* back, which the check does not see.
ClashExcused == clashed => excused

\* Session settings are the application's: only a reset that was asked to scrub
\* changes them, after its data is durable, and a reset that succeeded did.
SettingsScrubbedLast ==
    [][/\ settings = "set" /\ settings' = "default" =>
             \/ \E c \in Calls : op[c] = "reset" /\ at[c] = "scrub" /\ ~xact
             \/ Restart
       /\ \A c \in Calls : op[c] = "reset" /\ at[c] # "ok" /\ at'[c] = "ok" =>
             settings' = "default"]_vars

\* A migration is recorded as finished only if its script is in the database,
\* and a call that succeeds leaves every script of the directory finished.
FinishedMeansRan ==
    /\ \A k \in DOMAIN disk.history : disk.history[k].finished => ran[disk.history[k].name] > 0
    /\ push = "next" /\ Pending = {} =>
          \A n \in Names : scripts[n] # Missing =>
             \E k \in DOMAIN disk.history : /\ disk.history[k].name = n
                                          /\ disk.history[k].finished
                                          /\ ~disk.history[k].rolledBack

\* Whatever fails, crashes or is repaired as the messages say, no script is
\* applied twice.
NoScriptTwice == \A n \in Names : ran[n] <= 1

\* A row left unfinished by a crash or a failed script, a script edited or
\* removed after it was applied, or tables without a history stop every later
\* call before it applies anything: a script runs beside no other unfinished row,
\* and the first one of a history into a database without tables.
StopsAtInvalidHistory ==
    [][\A n \in Names : ran'[n] > ran[n] =>
          /\ Unfinished = {Len(mem.history)}
          /\ Active = {Len(mem.history)} => ~hasUserTables
          /\ \A k \in Active : ~Modified(k)
          /\ Cardinality({mem.history[k].name : k \in Active}) = Cardinality(Active)]_vars
=============================================================================
