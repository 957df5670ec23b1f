------------------------------ MODULE Database ------------------------------
(***************************************************************************)
(* PGlite as the snapshot manager and the migrations see it: one session   *)
(* over one database, external to the repository.  A transaction block     *)
(* works on a copy that COMMIT makes durable; outside a block every exec   *)
(* is durable when it returns.  A crash keeps what is durable.             *)
(*                                                                         *)
(* A table is its columns (how many of them there are: one can be added or *)
(* dropped) and a token for its rows, its own sequences included; 0 is the *)
(* empty table.  `counter' is a sequence that no table owns; 0 means that  *)
(* it has not been used yet (last_value IS NULL).                          *)
(***************************************************************************)
EXTENDS Naturals, Sequences, FiniteSets

CONSTANTS Tables,    \* names of user tables
          MaxTokens  \* bound on the tokens that writes leave in rows and counter

ASSUME DatabaseAssumption == IsFiniteSet(Tables) /\ MaxTokens \in Nat

VARIABLES disk,      \* what is durable
          mem,       \* what the session sees
          xact,      \* a transaction block is open
          settings,  \* session settings: as the session began, or set by someone
          closed     \* the caller closed the PGlite instance

dbVars == <<disk, mem, xact, settings, closed>>

Tokens == 0..MaxTokens
Data == [tables : [Tables -> [cols : 0..2, rows : Tokens]], counter : Tokens]
NoTable == [cols |-> 0, rows |-> 0]
Exists(data, t) == data.tables[t].cols > 0
EmptyDatabase == [tables |-> [t \in Tables |-> NoTable], counter |-> 0]

\* A schema is a set of at most one Data: {} where it does not exist.
NoSchema == {}
Contents(Rows) == [user : Data, snapshot : SUBSET Data, staging : SUBSET Data,
                   history : Seq(Rows)]

-----------------------------------------------------------------------------
\* One exec, outside or inside a transaction block.
Exec(contents) == /\ ~closed
                  /\ mem' = contents
                  /\ disk' = IF xact THEN disk ELSE contents
                  /\ UNCHANGED <<xact, settings, closed>>

Reads == ~closed /\ UNCHANGED dbVars

Begin == ~closed /\ xact' = TRUE /\ UNCHANGED <<disk, mem, settings, closed>>

Commit == /\ ~closed /\ xact' = FALSE /\ disk' = mem
          /\ UNCHANGED <<mem, settings, closed>>

Rollback == /\ ~closed /\ xact' = FALSE /\ mem' = disk
            /\ UNCHANGED <<disk, settings, closed>>

\* The instance is gone, by close() or with its process; the block goes with it.
Gone == mem' = disk /\ xact' = FALSE /\ UNCHANGED disk
=============================================================================
