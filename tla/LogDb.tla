---------------------------------- MODULE LogDb ----------------------------------
(***************************************************************************)
(* logdb: tables kept as logs in one file.  A table is a chain of blocks;  *)
(* a block is a header and Slots log records; a log record names an        *)
(* operation and where its data is.  The metatable holds, as the data of   *)
(* its records, the first block of each table.                             *)
(*                                                                         *)
(* Every write goes to the file at once, one after the other (FlushPage),  *)
(* and the process may die between any two.  Offsets count headers, log    *)
(* records and values instead of bytes; offset 0 is the file header.  A    *)
(* key is kept in its log record: it is written with the value.            *)
(***************************************************************************)
EXTENDS Integers, Sequences, FiniteSets, SequencesExt, FiniteSetsExt, Functions

CONSTANTS
    Names, Keys, Values,
    Slots,            \* log records that fit a block of _defaultBlockSize
    GrowStep,         \* _growPagesStep
    MaxOps,           \* bound on the operations
    MaxCrashes,       \* bound on the crashes
    InsertIntoEmpty,  \* whether callers insert at index 0 of an empty table
    PowerFails        \* whether a crash takes with it what was not fsynced

ASSUME LogDbAssumption ==
    /\ Slots \in Nat \ {0} /\ GrowStep \in Nat /\ GrowStep > Slots + 1
    /\ MaxOps \in Nat /\ MaxCrashes \in Nat
    /\ InsertIntoEmpty \in BOOLEAN /\ PowerFails \in BOOLEAN

VARIABLES
    file,            \* offset -> file header, block header, log record or value
    synced,          \* the file as of the last fsync
    pc,              \* which write is next; "idle" between calls, "down" without process
    op,              \* the operation AppendLogRecord executes
    tables,          \* _metatable, _tables: table -> records, and its last block
    nextDataOffset,  \* _nextDataOffset
    newBlock,        \* the offset in newBlockHeaderInfo, or 0
    data,            \* logRecord.value.dataOffset
    ops, crashes

memory == <<op, tables, nextDataOffset, newBlock, data>>
vars == <<file, synced, pc, memory, ops, crashes>>

Meta == "_metatable"
Blank == <<"0xEE">>
Magic == <<"LDB_MAGIC">>
Block(used, next) == <<"block", used, next>>
Value(v) == <<"value", v>>
NoValue == <<"NULL">>
NoKey == "NULL"
MetaOffset == 1  \* tableBlockOffset
BlockSize == Slots + 1
NewTable(o) == [records |-> <<>>, offset |-> o, used |-> 0, next |-> 0]

-----------------------------------------------------------------------------
(* What a file holds: LoadBlock, LoadAllBlocks and LoadTables. *)

\* The blocks of the chain that starts at o, in order.
BlocksOf(f, o) ==
    LET chain[b \in DOMAIN f] == <<b>> \o (IF f[b][3] = 0 THEN <<>> ELSE chain[f[b][3]])
    IN  chain[o]

\* LoadLogRecords, block after block.
LogOf(f, o) ==
    LET Records(b) == [i \in 1 .. f[b][2] |-> f[b + i][2]]
    IN  FlattenSeq([i \in DOMAIN BlocksOf(f, o) |-> Records(BlocksOf(f, o)[i])])

\* One round of the loop in LoadBlock; recordIndex counts from 0.
Replay(records, r) ==
    LET i == r.index + 1
        inside == i <= Len(records)
        grown == IF i = Len(records) + 1 THEN Append(records, r) ELSE records
    IN  CASE r.operation = "APPEND" -> Append(records, r)
          [] r.operation = "SET" /\ inside -> [records EXCEPT ![i] = r]
          [] r.operation = "CLEAR" -> <<>>
          [] r.operation = "INSERT" /\ i <= Len(grown) -> InsertAt(grown, i, r)
          [] r.operation = "DELETE" /\ inside -> RemoveAt(records, i)
          [] OTHER -> records

RecordsOf(f, o) == FoldLeft(Replay, <<>>, LogOf(f, o))

LoadAllBlocks(f, o) ==
    LET b == Last(BlocksOf(f, o))
    IN  [records |-> RecordsOf(f, o), offset |-> b, used |-> f[b][2], next |-> f[b][3]]

\* Where each table of the file starts: the value of its record in the metatable.
FirstBlocks(f) ==
    LET records == RecordsOf(f, MetaOffset)
    IN  [t \in {Meta} \cup {r.key : r \in Range(records)} |->
            IF t = Meta THEN MetaOffset
            ELSE (CHOOSE r \in Range(records) : r.key = t).data]

LoadTables(f) == [t \in DOMAIN FirstBlocks(f) |-> LoadAllBlocks(f, FirstBlocks(f)[t])]

FieldSize(t) == IF t = Meta THEN BlockSize ELSE 1

NextDataOffsetOfBlocks(f) ==  \* mutant: forgets what the log records point to
    Max({b + BlockSize : b \in UNION {Range(BlocksOf(f, o)) : o \in Range(FirstBlocks(f))}})

\* Behind every block, and behind the data of every log record there is.
LoadNextDataOffset(f) ==
    Max(UNION {{b + BlockSize : b \in Range(BlocksOf(f, FirstBlocks(f)[t]))}
               \cup {r.data + FieldSize(t) :
                        r \in {x \in Range(LogOf(f, FirstBlocks(f)[t])) : x.data # 0}}
               : t \in DOMAIN FirstBlocks(f)})

-----------------------------------------------------------------------------

Init ==
    /\ file = <<>> /\ synced = <<>>
    /\ pc = "down"
    /\ op = <<>> /\ tables = <<>> /\ nextDataOffset = 0 /\ newBlock = 0 /\ data = 0
    /\ ops = 0 /\ crashes = 0

Write(o, x) == file' = [file EXCEPT ![o] = x] /\ UNCHANGED synced

\* GrowFile: more of the file, blank, and the only fsync there is.
Grown(f) == [o \in DOMAIN f \cup (Cardinality(DOMAIN f) .. Cardinality(DOMAIN f) + GrowStep - 1) |->
                IF o \in DOMAIN f THEN f[o] ELSE Blank]

\* EnsureSpace for the cells in sequence x, and their Write at the end of the data.
WriteBehind(x) ==
    LET lacking == Cardinality(DOMAIN file) - nextDataOffset < Len(x)
        f == IF lacking THEN Grown(file) ELSE file
    IN  /\ file' = [o \in DOMAIN f |->
                       IF o \in nextDataOffset .. nextDataOffset + Len(x) - 1
                       THEN x[o - nextDataOffset + 1] ELSE f[o]]
        /\ synced' = IF lacking THEN f ELSE synced

\* InitializeFile: room, the first block, then the header that makes the file valid.
GrowNewFile ==
    /\ pc = "down" /\ file = <<>>
    /\ file' = Grown(file) /\ synced' = file'
    /\ tables' = [t \in {Meta} |-> NewTable(MetaOffset)]
    /\ nextDataOffset' = MetaOffset + BlockSize
    /\ pc' = "first block"
    /\ UNCHANGED <<op, newBlock, data, ops, crashes>>

WriteHeaderFirst ==  \* mutant: the file is valid before it has a block
    /\ pc = "first block" /\ Write(0, Magic) /\ pc' = "file header"
    /\ UNCHANGED <<memory, ops, crashes>>

WriteFirstBlock ==
    /\ pc = "first block"
    /\ Write(MetaOffset, Block(0, 0))
    /\ pc' = "file header"
    /\ UNCHANGED <<memory, ops, crashes>>

WriteFileHeader ==
    /\ pc = "file header"
    /\ Write(0, Magic)
    /\ pc' = "idle"
    /\ UNCHANGED <<memory, ops, crashes>>

\* Create or Open on a file with something in it; without the magic they fail.
LoadFile ==
    /\ pc = "down" /\ file # <<>> /\ file[0] = Magic
    /\ tables' = LoadTables(file)
    /\ nextDataOffset' = LoadNextDataOffset(file)
    /\ pc' = "idle"
    /\ UNCHANGED <<file, synced, op, newBlock, data, ops, crashes>>

Crash ==
    /\ pc # "down" /\ crashes < MaxCrashes
    /\ crashes' = crashes + 1
    /\ file' \in IF PowerFails THEN {file, synced} ELSE {file}
    /\ pc' = "down"
    /\ op' = <<>> /\ tables' = <<>> /\ nextDataOffset' = 0 /\ newBlock' = 0 /\ data' = 0
    /\ UNCHANGED <<synced, ops>>

-----------------------------------------------------------------------------
(* The calls, as far as their call of AppendLogRecord. *)

Size(t) == Len(tables[t].records)
UserTables == DOMAIN tables \ {Meta}

Start(table, operation, index, key, value) ==
    /\ ops < MaxOps
    /\ op' = [table |-> table, operation |-> operation, index |-> index, key |-> key, value |-> value]
    /\ ops' = ops + 1
    /\ pc' = "new block"
    /\ UNCHANGED <<file, synced, tables, nextDataOffset, newBlock, data, crashes>>

\* FindKey from index 0, as the set that holds its result or nothing.
FindKey(t, k) ==
    LET found == {i \in 0 .. Size(t) - 1 : tables[t].records[i + 1].key = k}
    IN  {i \in found : \A j \in found : i <= j}

CreateTable(n) == n \notin DOMAIN tables /\ Start(Meta, "APPEND", Size(Meta), n, Block(0, 0))
DeleteTable(n) == \E i \in FindKey(Meta, n) : Start(Meta, "DELETE", i, n, NoValue)
AppendRecord(t, k, v) == Start(t, "APPEND", Size(t), k, v)
SetByIndex(t, i, k, v) == i < Size(t) /\ Start(t, "SET", i, k, v)
Set(t, k, v) ==
    \/ FindKey(t, k) = {} /\ AppendRecord(t, k, v)
    \/ \E i \in FindKey(t, k) : SetByIndex(t, i, k, v)
InsertByIndex(t, i, k, v) ==
    /\ i = 0 \/ i < Size(t)
    /\ Size(t) > 0 \/ InsertIntoEmpty
    /\ Start(t, "INSERT", i, k, v)
DeleteByIndex(t, i) == i < Size(t) /\ Start(t, "DELETE", i, NoKey, NoValue)
Delete(t, k) == \E i \in FindKey(t, k) : DeleteByIndex(t, i)
ClearAllRecords(t) == Start(t, "CLEAR", 0, NoKey, NoValue)

Call == pc = "idle" /\
   (\/ \E n \in Names : CreateTable(n) \/ DeleteTable(n)
    \/ \E t \in UserTables :
          \/ ClearAllRecords(t)
          \/ \E i \in 0 .. Size(t) : DeleteByIndex(t, i)
          \/ \E k \in Keys :
                \/ Delete(t, k)
                \/ \E v \in {Value(x) : x \in Values} :
                      \/ AppendRecord(t, k, v) \/ Set(t, k, v)
                      \/ \E i \in 0 .. Size(t) :
                            InsertByIndex(t, i, k, v) \/ SetByIndex(t, i, NoKey, v)
                \/ \E i \in 0 .. Size(t) : SetByIndex(t, i, k, NoValue))

-----------------------------------------------------------------------------
(* AppendLogRecord, write by write. *)

Table == tables[op.table]

\* CreateNewBlockIfNeeded: the last block gets its link in memory only.
CreateNewBlockIfNeeded ==
    /\ pc = "new block"
    /\ \/ Table.used < Slots /\ UNCHANGED <<file, synced, tables, nextDataOffset, newBlock>>
       \/ /\ Table.used = Slots
          /\ WriteBehind(<<Block(0, 0)>> \o [i \in 1 .. Slots |->
                IF nextDataOffset + i \in DOMAIN file THEN file[nextDataOffset + i] ELSE Blank])
          /\ newBlock' = nextDataOffset
          /\ tables' = [tables EXCEPT ![op.table].next = nextDataOffset]
          /\ nextDataOffset' = nextDataOffset + BlockSize
    /\ pc' = "data"
    /\ UNCHANGED <<op, data, ops, crashes>>

\* WriteLdbData; the value of a table is its first block.
WriteLdbData ==
    /\ pc = "data"
    /\ \/ /\ op.value = NoValue
          /\ data' = IF op.operation = "SET" THEN Table.records[op.index + 1].data ELSE 0
          /\ UNCHANGED <<file, synced, nextDataOffset>>
       \/ /\ op.value # NoValue
          /\ data' = nextDataOffset
          /\ WriteBehind(<<op.value>> \o [i \in 1 .. FieldSize(op.table) - 1 |-> Blank])
          /\ nextDataOffset' = nextDataOffset + FieldSize(op.table)
    /\ pc' = "record"
    /\ UNCHANGED <<op, tables, newBlock, ops, crashes>>

\* A SET without a key keeps the key there is.
LogRecord ==
    [operation |-> op.operation, index |-> op.index, data |-> data,
     key |-> IF op.operation = "SET" /\ op.key = NoKey THEN Table.records[op.index + 1].key ELSE op.key]

\* *currentBlockHeaderInfo once usedCount has been incremented.
Current ==
    IF newBlock = 0 THEN [offset |-> Table.offset, used |-> Table.used + 1, next |-> Table.next]
                    ELSE [offset |-> newBlock, used |-> 1, next |-> 0]

WriteLogRecord ==
    /\ pc = "record"
    /\ Write(Current.offset + Current.used, <<"log", LogRecord>>)
    /\ pc' = "header"
    /\ UNCHANGED <<memory, ops, crashes>>

WriteHeader ==
    /\ pc = "header"
    /\ Write(Current.offset, Block(Current.used, Current.next))
    /\ pc' = IF newBlock = 0 THEN "memory" ELSE "link"
    /\ UNCHANGED <<memory, ops, crashes>>

LinkOnlyInMemory ==  \* mutant: the link to the new block is not written
    /\ pc = "link" /\ pc' = "memory" /\ UNCHANGED <<file, synced, memory, ops, crashes>>

WriteLink ==
    /\ pc = "link"
    /\ Write(Table.offset, Block(Table.used, Table.next))
    /\ pc' = "memory"
    /\ UNCHANGED <<memory, ops, crashes>>

\* The switch at the end of AppendLogRecord.
Changed(records) ==
    CASE op.operation = "APPEND" -> Append(records, LogRecord)
      [] op.operation = "SET" -> [records EXCEPT ![op.index + 1] = LogRecord]
      [] op.operation = "INSERT" -> InsertAt(records, op.index + 1, LogRecord)
      [] op.operation = "DELETE" -> RemoveAt(records, op.index + 1)
      [] op.operation = "CLEAR" -> <<>>

\* The memory follows the file, and the call returns; CreateTable and DeleteTable
\* have an entry of _tables to make or to erase.
UpdateMemory ==
    /\ pc = "memory"
    /\ LET changed == [tables EXCEPT ![op.table] =
                [records |-> Changed(Table.records),
                 offset |-> Current.offset, used |-> Current.used, next |-> Current.next]]
       IN  tables' =
             CASE op.table # Meta -> changed
               [] op.table = Meta /\ op.operation = "APPEND" ->
                    [t \in DOMAIN tables \cup {op.key} |-> IF t = op.key THEN NewTable(data) ELSE changed[t]]
               [] op.table = Meta /\ op.operation = "DELETE" -> Restrict(changed, DOMAIN tables \ {op.key})
    /\ op' = <<>> /\ newBlock' = 0 /\ data' = 0
    /\ pc' = "idle"
    /\ UNCHANGED <<file, synced, nextDataOffset, ops, crashes>>

AppendLogRecord ==
    \/ CreateNewBlockIfNeeded \/ WriteLdbData \/ WriteLogRecord
    \/ WriteHeader \/ WriteLink \/ UpdateMemory

InitializeFile == GrowNewFile \/ WriteFirstBlock \/ WriteFileHeader

Next == InitializeFile \/ LoadFile \/ Call \/ AppendLogRecord \/ Crash

Spec == Init /\ [][Next]_vars

-----------------------------------------------------------------------------
(* Properties. *)

\* LoadFile goes by the file header: "the file will not be valid until we have one block".
Valid(f) == f # <<>> /\ f[0] = Magic
HasBlock(f) == f[MetaOffset][1] = "block"
ValidHasBlock == Valid(file) => HasBlock(file)

\* The rows of the tables of a file, as a restart would find them.
Contents(f) ==
    LET first == IF Valid(f) /\ HasBlock(f) THEN FirstBlocks(f) ELSE [t \in {} |-> 0]
        Rows(t) == LET r == RecordsOf(f, first[t]) IN [i \in DOMAIN r |-> <<r[i].key, f[r[i].data]>>]
    IN  [t \in DOMAIN first \ {Meta} |-> Rows(t)]

\* Between calls the memory is what a restart would load, to the last log record and
\* block, and what is written next goes behind all that is in use.
MemoryMatchesFile ==
    pc = "idle" => tables = LoadTables(file) /\ nextDataOffset >= LoadNextDataOffset(file)

\* A crash when no call is executing loses nothing that was acknowledged.  True of a
\* crash of the process; not of a power failure (PowerFails), for only GrowFile syncs.
AcknowledgedStays == [][pc = "idle" /\ pc' = "down" => Contents(file') = Contents(file)]_vars
==============================================================================
