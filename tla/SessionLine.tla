---------------------------- MODULE SessionLine ----------------------------
(***************************************************************************)
(* What SessionLock promises to the bridges that share one PGlite session: *)
(* one first-come-first-served line.  The first bridge in line holds the   *)
(* session, the others wait behind it in arrival order, nobody stands in   *)
(* line twice, and a bridge leaves only on its own account: because it is  *)
(* done with the session or because it gives up waiting.                   *)
(* SessionLock is shown to implement this specification.                   *)
(***************************************************************************)
EXTENDS Naturals, Sequences

CONSTANT Ids        \* the bridges, one id each

VARIABLE line       \* bridges in arrival order; Head(line) holds the session

InLine(id) == \E k \in 1..Len(line) : line[k] = id

LineInit == line = <<>>

Join(id) == /\ ~InLine(id)
            /\ line' = Append(line, id)

\* The bridge at place k leaves; everyone behind it moves up one place.
Leave(k) == line' = [i \in 1..(Len(line) - 1) |-> IF i < k THEN line[i] ELSE line[i + 1]]

LineNext == \/ \E id \in Ids : Join(id)
            \/ \E k \in 1..Len(line) : Leave(k)

LineSpec == LineInit /\ [][LineNext]_line
=============================================================================
