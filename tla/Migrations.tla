----------------------------- MODULE Migrations -----------------------------
(***************************************************************************)
(* pushMigrations (src/schema/migrations.ts) on a persistent database: the *)
(* scripts of the migrations directory are applied in order, each between  *)
(* the insertion of its history row and the update that marks it finished. *)
(* The process may die between any two of these, files may be edited or    *)
(* removed between calls, and `prisma migrate resolve' repairs the history *)
(* by hand.  Calls on one instance do not overlap.                         *)
(*                                                                         *)
(* The checksum of a script is its text, line endings included.  A script  *)
(* runs as one exec: all of it is applied or nothing.                      *)
(***************************************************************************)
EXTENDS Database

CONSTANTS Names,      \* migration names, in directory order
          Texts,      \* texts a script may have: a body, and its line endings
          MaxHistory, \* bound on the rows of the history
          TableOf(_)  \* the table that a script creates

LineEndings == {"LF", "CRLF"}
Missing == [body |-> 0, eol |-> "LF"]

ASSUME MigrationsAssumption ==
    /\ Names \subseteq Nat /\ MaxHistory \in Nat
    /\ Texts \subseteq [body : Nat \ {0}, eol : LineEndings] /\ Texts # {}
    /\ \A n \in Names : TableOf(n) \in Tables

Row == [name : Names, text : Texts, finished : BOOLEAN, rolledBack : BOOLEAN]

VARIABLES files,     \* the directory: the text of each script, or missing
          scripts,   \* the scripts the current call has read
          push,      \* the call's next step
          ran        \* ghost: how often each script took effect, durably

pushVars == <<files, scripts, push, ran>>


PushInit == /\ files = [n \in Names |-> CHOOSE t \in Texts : TRUE]
            /\ scripts = [n \in Names |-> Missing]
            /\ push = "idle"
            /\ ran = [n \in Names |-> 0]

-----------------------------------------------------------------------------
\* The call returns or throws.
Settles == push' = "idle" /\ scripts' = [n \in Names |-> Missing]

\* The scripts are read once; without any there is nothing to push.
resolveMigrations ==
    /\ push = "idle"
    /\ IF \A n \in Names : files[n] = Missing
       THEN UNCHANGED <<push, scripts>>
       ELSE push' = "createTable" /\ scripts' = files
    /\ UNCHANGED <<dbVars, files, ran>>

createTable == /\ push = "createTable" /\ push' = "readHistory"
               /\ Exec(mem)
               /\ UNCHANGED <<files, scripts, ran>>

Active == {k \in DOMAIN mem.history : ~mem.history[k].rolledBack}
Unfinished == {k \in Active : ~mem.history[k].finished}

\* Mutant of Applied: only the latest row is looked at.
latestApplied(n) == Active # {} /\ mem.history[Len(mem.history)].name = n

Applied(n) == \E k \in Active : mem.history[k].name = n

\* Prisma's comparison: as stored, or with the other line endings.
checksumMatches(stored, script) ==
    script # Missing /\ stored \in {script} \cup {[script EXCEPT !.eol = e] : e \in LineEndings}

Modified(k) == ~checksumMatches(mem.history[k].text, scripts[mem.history[k].name])

hasUserTables == \E t \in Tables : Exists(mem.user, t)

\* Mutant of historyInvalid: tables without a history are not looked at.
tablesIgnored ==
    \/ Unfinished # {}
    \/ \E k, l \in Active : k # l /\ mem.history[k].name = mem.history[l].name
    \/ \E k \in Active : Modified(k)

\* Mutant of historyInvalid: a row that never finished is not looked at.
unfinishedIgnored ==
    \/ Active = {} /\ hasUserTables
    \/ \E k, l \in Active : k # l /\ mem.history[k].name = mem.history[l].name
    \/ \E k \in Active : Modified(k)

\* Tables but no history; a row that never finished; two active rows for one
\* script; a row whose script is gone or has another checksum.
historyInvalid ==
    \/ Active = {} /\ hasUserTables
    \/ Unfinished # {}
    \/ \E k, l \in Active : k # l /\ mem.history[k].name = mem.history[l].name
    \/ \E k \in Active : Modified(k)

validateHistory ==
    /\ push = "readHistory" /\ Reads
    /\ IF historyInvalid THEN Settles ELSE push' = "next" /\ UNCHANGED scripts
    /\ UNCHANGED <<files, ran>>

\* Mutant of Pending: a directory without its migration.sql is not passed over.
everyDirectory == {n \in Names : ~Applied(n)}

\* The first script, in directory order, that the history does not list.
Pending == {n \in Names : scripts[n] # Missing /\ ~Applied(n)}
NextScript == CHOOSE n \in Pending : \A m \in Pending : n <= m

\* Mutant of startMigration: the row is inserted as finished.
startFinished ==
    /\ push = "next" /\ Pending # {} /\ Len(mem.history) < MaxHistory
    /\ push' = "runScript"
    /\ Exec([mem EXCEPT !.history = Append(@,
          [name |-> NextScript, text |-> scripts[NextScript],
           finished |-> TRUE, rolledBack |-> FALSE])])
    /\ UNCHANGED <<files, scripts, ran>>

startMigration ==
    /\ push = "next" /\ Pending # {} /\ Len(mem.history) < MaxHistory
    /\ push' = "runScript"
    /\ Exec([mem EXCEPT !.history = Append(@,
          [name |-> NextScript, text |-> scripts[NextScript],
           finished |-> FALSE, rolledBack |-> FALSE])])
    /\ UNCHANGED <<files, scripts, ran>>

Started == mem.history[Len(mem.history)]

\* The script creates its table, or leaves it as it finds it.
runScript ==
    /\ push = "runScript" /\ push' = "markFinished"
    /\ Exec([mem EXCEPT !.user.tables[TableOf(Started.name)].cols = IF @ = 0 THEN 1 ELSE @])
    /\ ran' = [ran EXCEPT ![Started.name] = @ + 1]
    /\ UNCHANGED <<files, scripts>>

markFinished ==
    /\ push = "markFinished" /\ push' = "next"
    /\ Exec([mem EXCEPT !.history[Len(mem.history)].finished = TRUE])
    /\ UNCHANGED <<files, scripts, ran>>

allApplied == /\ push = "next" /\ Pending = {}
              /\ Settles
              /\ UNCHANGED <<dbVars, files, ran>>

\* A statement fails and ends the call; a failed script keeps its row.
pushFails == /\ push # "idle"
             /\ Settles
             /\ UNCHANGED <<dbVars, files, ran>>

PushStep == \/ createTable \/ validateHistory \/ startMigration \/ runScript
            \/ markFinished \/ allApplied

-----------------------------------------------------------------------------
(* The operator: edits the directory, or resolves a row that never finished *)
(* as the error message says, by what the database holds.                   *)

EditFile == /\ push = "idle"
            /\ \E n \in Names, t \in Texts \cup {Missing} :
                  files[n] # t /\ files' = [files EXCEPT ![n] = t]
            /\ UNCHANGED <<dbVars, scripts, push, ran>>

\* Rolled back if the script is not in the database; applied if it is: then the
\* row is closed and a finished one takes its place, with the checksum of the
\* script as it is now in the directory, where it has to be.
ResolveByHand ==
    /\ push = "idle" /\ ~xact /\ Len(mem.history) < MaxHistory
    /\ \E k \in Unfinished :
         LET name == mem.history[k].name
             closedRow == [mem.history EXCEPT ![k].rolledBack = TRUE]
         IN \/ ran[name] = 0 /\ Exec([mem EXCEPT !.history = closedRow])
            \/ /\ ran[name] > 0 /\ files[name] # Missing
               /\ Exec([mem EXCEPT !.history = Append(closedRow,
                     [name |-> name, text |-> files[name],
                      finished |-> TRUE, rolledBack |-> FALSE])])
    /\ UNCHANGED pushVars

-----------------------------------------------------------------------------
PushTypeOK == /\ files \in [Names -> Texts \cup {Missing}]
              /\ scripts \in [Names -> Texts \cup {Missing}]
              /\ push \in {"idle", "createTable", "readHistory", "next", "runScript",
                           "markFinished"}
              /\ ran \in [Names -> Nat]
=============================================================================
