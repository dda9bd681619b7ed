------------------------------ MODULE ProtocolLog ------------------------------
(***************************************************************************)
(* The transaction log: sessions apply the commands of the binary protocol *)
(* and log each one afterwards (BinaryProtocolLogger::LogMessage).  A line *)
(* goes into a ring of RAW_LOG_QUEUE_SIZE strings under logQueueLock_; a   *)
(* thread that takes no lock moves the lines to the file.                  *)
(***************************************************************************)
EXTENDS Integers, Sequences

CONSTANTS
    Sessions,    \* the io threads that run a command
    Names,       \* the containers
    Scenarios,   \* the commands each session runs, in order
    N,           \* RAW_LOG_QUEUE_SIZE
    NoOne        \* a lock that is free

\* A command is [op, name]: open creates or opens the container, change is any command
\* that modifies it, group adds it to a group, textChange modifies it by the text protocol.
Ops == {"open", "change", "group", "textChange"}
Command == [op : Ops, name : Names]

ASSUME LogAssumption ==
    /\ N \in Nat /\ N > 1
    /\ NoOne \notin Sessions
    /\ Scenarios \subseteq [Sessions -> Seq(Command)]

VARIABLES
    script,        \* the commands still to run
    pc,            \* where each session is in its command
    line,          \* the line each session is logging
    applied,       \* the changes made to each container, in their order
    handles,       \* globalContainerHandle_
    lastHandle,    \* lastGlobalHandle_
    logQueueLock,  \* logQueueLock_
    rawLogQueue,   \* rawLogQueue
    head, tail,    \* logQueueHead_, logQueueTail_
    writer,        \* where WriteRawLogThread is
    flushData,     \* whether it has written since the last flush
    file,          \* the lines in the log file
    flushed,       \* how many of them FlushMetadata has made safe
    logged         \* history: the lines in the order of RawLog

sessionVars == <<script, pc, line, applied, handles, lastHandle>>
ringVars == <<logQueueLock, rawLogQueue, head, tail, logged>>
fileVars == <<writer, flushData, file, flushed>>
logVars == <<sessionVars, ringVars, fileVars>>

NoLine == [kind |-> "none", handle |-> 0, name |-> "", n |-> 0]

Init ==
    /\ script \in Scenarios
    /\ pc = [s \in Sessions |-> "idle"]
    /\ line = [s \in Sessions |-> NoLine]
    /\ applied = [c \in Names |-> <<>>]
    /\ handles = [c \in Names |-> 0]
    /\ lastHandle = 0
    /\ logQueueLock = NoOne
    /\ rawLogQueue = [i \in 0 .. N - 1 |-> NoLine]
    /\ head = 0 /\ tail = 0
    /\ writer = "poll" /\ flushData = FALSE
    /\ file = <<>> /\ flushed = 0
    /\ logged = <<>>

Goto(s, p) == pc' = [pc EXCEPT ![s] = p]

-----------------------------------------------------------------------------
(* A session: the command, then its line. *)

\* OnBinaryCommand up to LogMessage, and the whole of a text command, which is not logged.
Apply(s) ==
    /\ pc[s] = "idle" /\ script[s] # <<>>
    /\ LET c == Head(script[s])
           n == Len(applied[c.name]) + 1
       IN  /\ applied' = IF c.op \in {"open", "group"} THEN applied
                         ELSE [applied EXCEPT ![c.name] = Append(@, n)]
           /\ line' = [line EXCEPT ![s] = [kind |-> c.op, handle |-> 0, name |-> c.name, n |-> n]]
           /\ Goto(s, IF c.op = "textChange" THEN "idle" ELSE "handle")
    /\ script' = [script EXCEPT ![s] = Tail(@)]
    /\ UNCHANGED <<handles, lastHandle, ringVars, fileVars>>

LogMessageAgain(s) ==  \* mutant: lastGlobalHandle_ is not incremented
    /\ pc[s] = "handle"
    /\ LET c == line[s].name
           isNew == handles[c] = 0 /\ line[s].kind = "open"
           h == IF isNew THEN 1 ELSE handles[c]
       IN  /\ handles' = [handles EXCEPT ![c] = h]
           /\ line' = [line EXCEPT ![s].handle = h]
           /\ Goto(s, IF line[s].kind = "open" /\ ~isNew THEN "idle" ELSE "raw")
    /\ UNCHANGED <<script, applied, lastHandle, ringVars, fileVars>>

\* LogMessage: the handle of the container's name, given out by its first open; an open that
\* finds one is not logged.  globalContainerHandleLock_ is free again before RawLog.
LogMessage(s) ==
    /\ pc[s] = "handle"
    /\ LET c == line[s].name
           isNew == handles[c] = 0 /\ line[s].kind = "open"
           h == IF isNew THEN lastHandle + 1 ELSE handles[c]
       IN  /\ handles' = [handles EXCEPT ![c] = h]
           /\ lastHandle' = IF isNew THEN lastHandle + 1 ELSE lastHandle
           /\ line' = [line EXCEPT ![s].handle = h]
           /\ Goto(s, IF line[s].kind = "open" /\ ~isNew THEN "idle" ELSE "raw")
    /\ UNCHANGED <<script, applied, ringVars, fileVars>>

FullAtMaxSize == (N - tail + head) % N = N  \* mutant: compared with the size itself

IsLogQueueFull == (N - tail + head) % N = N - 1

\* The index after i.
After(i) == IF i + 1 >= N THEN 0 ELSE i + 1

\* RawLog fills the slot before it looks whether the ring is full, and waits with the lock.
RawLog(s) ==
    /\ pc[s] = "raw" /\ logQueueLock = NoOne
    /\ logQueueLock' = s
    /\ rawLogQueue' = [rawLogQueue EXCEPT ![head] = line[s]]
    /\ Goto(s, "advance")
    /\ UNCHANGED <<script, line, applied, handles, lastHandle, head, tail, logged, fileVars>>

AdvanceHead(s) ==
    /\ pc[s] = "advance" /\ ~IsLogQueueFull
    /\ head' = After(head)
    /\ logged' = Append(logged, line[s])
    /\ logQueueLock' = NoOne
    /\ Goto(s, "idle")
    /\ UNCHANGED <<script, line, applied, handles, lastHandle, rawLogQueue, tail, fileVars>>

-----------------------------------------------------------------------------
(* WriteRawLogThread. *)

WriteLine ==
    /\ writer = "poll" /\ tail # head
    /\ file' = Append(file, rawLogQueue[tail])
    /\ writer' = "clear"
    /\ UNCHANGED <<sessionVars, ringVars, flushData, flushed>>

ClearSlot ==
    /\ writer = "clear"
    /\ rawLogQueue' = [rawLogQueue EXCEPT ![tail] = NoLine]
    /\ writer' = "advance"
    /\ UNCHANGED <<sessionVars, logQueueLock, head, tail, logged, flushData, file, flushed>>

AdvanceTail ==
    /\ writer = "advance"
    /\ tail' = After(tail)
    /\ flushData' = TRUE
    /\ writer' = "poll"
    /\ UNCHANGED <<sessionVars, logQueueLock, rawLogQueue, head, logged, file, flushed>>

FlushNever ==  \* mutant: flushData is cleared and nothing is flushed
    /\ writer = "poll" /\ tail = head /\ flushData
    /\ flushData' = FALSE
    /\ UNCHANGED <<sessionVars, ringVars, writer, file, flushed>>

FlushMetadata ==
    /\ writer = "poll" /\ tail = head /\ flushData
    /\ flushed' = Len(file)
    /\ flushData' = FALSE
    /\ UNCHANGED <<sessionVars, ringVars, writer, file>>

-----------------------------------------------------------------------------

Session(s) == Apply(s) \/ LogMessage(s) \/ RawLog(s) \/ AdvanceHead(s)
Writer == WriteLine \/ ClearSlot \/ AdvanceTail \/ FlushMetadata

Next == (\E s \in Sessions : Session(s)) \/ Writer

\* Both kinds of thread run; logQueueLock_ may be taken again and again by others.
Spec ==
    /\ Init
    /\ [][Next]_logVars
    /\ \A s \in Sessions : SF_logVars(Session(s))
    /\ WF_logVars(Writer)

-----------------------------------------------------------------------------
(* Properties. *)

\* The lines between tail and head, and those the file has got of them already.
Waiting == IF tail <= head THEN head - tail ELSE head - tail + N
Ahead == IF writer = "poll" THEN 0 ELSE 1
Slot(k) == IF tail + k >= N THEN tail + k - N ELSE tail + k

\* The file has the lines in the order of RawLog, and the ring holds the ones that are still
\* to come: none is lost, repeated or overwritten, whoever waits for a place.
LogIsFifo ==
    /\ Len(logged) = Len(file) - Ahead + Waiting
    /\ \A i \in 1 .. Len(file) : i \in 1 .. Len(logged) /\ file[i] = logged[i]
    /\ \A k \in Ahead .. Waiting - 1 : rawLogQueue[Slot(k)] = logged[Len(file) - Ahead + k + 1]

Line == [kind : Ops \cup {"none"}, handle : Nat, name : Names \cup {""}, n : Nat]

TypeOK ==
    /\ script \in [Sessions -> Seq(Command)]
    /\ pc \in [Sessions -> {"idle", "handle", "raw", "advance"}]
    /\ line \in [Sessions -> Line]
    /\ applied \in [Names -> Seq(Nat)]
    /\ handles \in [Names -> Nat] /\ lastHandle \in Nat
    /\ logQueueLock \in Sessions \cup {NoOne}
    /\ rawLogQueue \in [0 .. N - 1 -> Line]
    /\ head \in 0 .. N - 1 /\ tail \in 0 .. N - 1
    /\ writer \in {"poll", "clear", "advance"} /\ flushData \in BOOLEAN
    /\ file \in Seq(Line) /\ flushed \in Nat
    /\ logged \in Seq(Line)

\* logQueueLock_ is held by the session that waits for a place, whose line is in the slot at
\* head; the writer is between a Write and its tail++ only while the ring has a line.
RingInv ==
    /\ \A s \in Sessions : pc[s] = "advance" <=> logQueueLock = s
    /\ \A s \in Sessions : pc[s] = "advance" => rawLogQueue[head] = line[s]
    /\ \A s \in Sessions : pc[s] \in {"handle", "raw", "advance"} => line[s].name \in Names
    /\ writer # "poll" => tail # head

\* A line that was handed to RawLog is in the file and flushed in the end.
LinesFlushed == <>[](\A s \in Sessions : pc[s] = "idle") /\ <>[](flushed = Len(logged))
==============================================================================
