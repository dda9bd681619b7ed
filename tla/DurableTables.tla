------------------------------ MODULE DurableTables ------------------------------
(***************************************************************************)
(* What logdb promises: named tables of rows, each operation on which      *)
(* happens as a whole or not at all, whatever becomes of the process.      *)
(***************************************************************************)
EXTENDS Integers, Sequences, SequencesExt, Functions

CONSTANTS Names, Rows

VARIABLE db  \* name -> sequence of rows

Init == db = [n \in {} |-> <<>>]

CreateTable(n) ==
    /\ n \notin DOMAIN db
    /\ db' = [m \in DOMAIN db \cup {n} |-> IF m = n THEN <<>> ELSE db[m]]
DeleteTable(n) == db' = Restrict(db, DOMAIN db \ {n})
AppendRow(n, r) == db' = [db EXCEPT ![n] = Append(@, r)]
SetRow(n, i, r) == db' = [db EXCEPT ![n][i] = r]
InsertRow(n, i, r) == db' = [db EXCEPT ![n] = InsertAt(@, i, r)]
DeleteRow(n, i) == db' = [db EXCEPT ![n] = RemoveAt(@, i)]
ClearRows(n) == db' = [db EXCEPT ![n] = <<>>]

Next ==
    \/ \E n \in Names : CreateTable(n)
    \/ \E n \in DOMAIN db :
          \/ DeleteTable(n) \/ ClearRows(n)
          \/ \E r \in Rows : AppendRow(n, r)
          \/ \E i \in DOMAIN db[n] :
                DeleteRow(n, i) \/ \E r \in Rows : SetRow(n, i, r) \/ InsertRow(n, i, r)

Spec == Init /\ [][Next]_db
==============================================================================
