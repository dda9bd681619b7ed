--------------------------------- MODULE MCLogDb ---------------------------------
(***************************************************************************)
(* LogDb with what its file holds in a variable of its own, so that TLC    *)
(* replays a file once a step.                                             *)
(***************************************************************************)
EXTENDS LogDb

VARIABLE held

MCInit == Init /\ held = Contents(file)
MCNext == Next /\ held' = Contents(file')
MCSpec == MCInit /\ [][MCNext]_<<vars, held>>

\* The file is at every moment the database of DurableTables: an operation takes effect
\* with one of the writes of AppendLogRecord, and neither the writes around that one, nor
\* a crash after any of them, nor the reuse of what a crash left behind, changes a row.
Durable == INSTANCE DurableTables WITH
    db <- held, Rows <- Keys \X {Value(v) : v \in Values}
IsDurable == Durable!Spec
==============================================================================
