------------------------------ MODULE LogReplay -------------------------------
(***************************************************************************)
(* TioLogReplay behind a server's transaction log: one thread reads the    *)
(* file line by line and queues the entries, another takes the whole queue *)
(* at a time and sends the entries to a second server.                     *)
(***************************************************************************)
EXTENDS ProtocolLog

CONSTANTS
    Follows,     \* the values of --follow
    MetaNames    \* the names that start with "__"

VARIABLES
    follow,         \* follow_
    reader,         \* where Replay is
    position,       \* the lines of the file it has read
    failed,         \* the failbit of the stream, set by the getline that finds no line
    lastMaxOffset,  \* the end of the file when it was last read to the end
    logQueue,       \* logQueue_
    shouldStop,     \* shouldStop_
    publisher,      \* where PublisherThread is
    localLogQueue,  \* localLogQueue
    containers,     \* containers_: handle to container
    replica,        \* the changes made to the containers of the second server
    lost            \* an entry named a container that the tool has not created

replayVars == <<follow, reader, position, failed, lastMaxOffset, logQueue, shouldStop, publisher,
                localLogQueue, containers, replica, lost>>
allVars == <<logVars, replayVars>>

InitReplay ==
    /\ Init
    /\ follow \in Follows
    /\ reader = "top" /\ position = 0 /\ failed = FALSE /\ lastMaxOffset = 0
    /\ logQueue = <<>> /\ shouldStop = FALSE
    /\ publisher = "top" /\ localLogQueue = <<>>
    /\ containers = <<>>
    /\ replica = [c \in Names |-> <<>>]
    /\ lost = FALSE

-----------------------------------------------------------------------------
(* Replay. *)

\* tellg gives -1 on a stream that failed, and seekg does not move it.
Offset == IF failed THEN -1 ELSE Len(file)

\* The top of the loop; with --follow it sleeps while the end has not moved.
StartReading ==
    /\ reader = "top"
    /\ follow => Offset # lastMaxOffset
    /\ position' = IF follow THEN lastMaxOffset ELSE position
    /\ reader' = "read"
    /\ UNCHANGED <<logVars, follow, failed, lastMaxOffset, logQueue, shouldStop, publisher,
                   localLogQueue, containers, replica, lost>>

ReadLine ==
    /\ reader = "read" /\ position < Len(file)
    /\ position' = position + 1
    /\ logQueue' = Append(logQueue, file[position + 1])
    /\ UNCHANGED <<logVars, follow, reader, failed, lastMaxOffset, shouldStop, publisher,
                   localLogQueue, containers, replica, lost>>

\* getline finds no further line; without --follow Replay returns.
EndOfFile ==
    /\ reader = "read" /\ position = Len(file)
    /\ failed' = TRUE
    /\ lastMaxOffset' = -1
    /\ reader' = IF follow THEN "top" ELSE "returned"
    /\ UNCHANGED <<logVars, follow, position, logQueue, shouldStop, publisher, localLogQueue,
                   containers, replica, lost>>

\* ~TioLogParser wakes the publisher, whose wait looks at the queue alone, and joins it.
Stop ==
    /\ reader = "returned"
    /\ shouldStop' = TRUE
    /\ reader' = "join"
    /\ UNCHANGED <<logVars, follow, position, failed, lastMaxOffset, logQueue, publisher,
                   localLogQueue, containers, replica, lost>>

-----------------------------------------------------------------------------
(* PublisherThread. *)

CheckStop ==
    /\ publisher = "top"
    /\ publisher' = IF shouldStop THEN "exited" ELSE "wait"
    /\ UNCHANGED <<logVars, follow, reader, position, failed, lastMaxOffset, logQueue, shouldStop,
                   localLogQueue, containers, replica, lost>>

TakeQueue ==
    /\ publisher = "wait" /\ logQueue # <<>>
    /\ localLogQueue' = logQueue
    /\ logQueue' = <<>>
    /\ publisher' = "send"
    /\ UNCHANGED <<logVars, follow, reader, position, failed, lastMaxOffset, shouldStop, containers,
                   replica, lost>>

\* A create of a container whose name starts with "__" is skipped; a change of a handle that
\* is not there uses the end iterator, and a group_add of a container that is not there throws.
OnLogEntry ==
    /\ publisher = "send" /\ localLogQueue # <<>>
    /\ LET e == Head(localLogQueue)
           found == IF e.kind = "group" THEN \E h \in DOMAIN containers : containers[h] = e.name
                    ELSE e.handle \in DOMAIN containers
       IN  \/ /\ e.kind = "open"
              /\ containers' = IF e.name \in MetaNames THEN containers
                               ELSE [h \in DOMAIN containers \cup {e.handle} |->
                                        IF h = e.handle THEN e.name ELSE containers[h]]
              /\ UNCHANGED <<replica, lost>>
           \/ /\ e.kind # "open"
              /\ lost' = (lost \/ ~found)
              /\ replica' = IF e.kind = "change" /\ found
                            THEN [replica EXCEPT ![containers[e.handle]] = Append(@, e.n)]
                            ELSE replica
              /\ UNCHANGED containers
    /\ localLogQueue' = Tail(localLogQueue)
    /\ publisher' = IF Len(localLogQueue) = 1 THEN "top" ELSE "send"
    /\ UNCHANGED <<logVars, follow, reader, position, failed, lastMaxOffset, logQueue, shouldStop>>

-----------------------------------------------------------------------------

Reader == StartReading \/ ReadLine \/ EndOfFile \/ Stop
Publisher == CheckStop \/ TakeQueue \/ OnLogEntry

NextReplay == (Next /\ UNCHANGED replayVars) \/ Reader \/ Publisher

\* All the threads run.
SpecReplay ==
    /\ InitReplay
    /\ [][NextReplay]_allVars
    /\ \A s \in Sessions : SF_allVars(Session(s) /\ UNCHANGED replayVars)
    /\ WF_allVars(Writer /\ UNCHANGED replayVars)
    /\ WF_allVars(Reader) /\ WF_allVars(Publisher)

-----------------------------------------------------------------------------
(* Properties. *)

\* The second server makes the changes the first one made, container by container and in the
\* same order, and every entry finds its container.
ReplicaFollows ==
    /\ ~lost
    /\ \A c \in Names : /\ Len(replica[c]) <= Len(applied[c])
                        /\ \A i \in DOMAIN replica[c] : replica[c][i] = applied[c][i]

\* What it takes: a container is opened and changed by one session, which opens it first, its
\* name does not start with "__", and all of it is done by the binary protocol.
OpenOf(c) == [op |-> "open", name |-> c]
Separate(scripts) ==
    /\ \A s, u \in Sessions : \A i \in DOMAIN scripts[s], j \in DOMAIN scripts[u] :
          scripts[s][i].name = scripts[u][j].name => s = u
    /\ \A s \in Sessions : \A i \in DOMAIN scripts[s] :
          /\ scripts[s][i].op # "textChange" /\ scripts[s][i].name \notin MetaNames
          /\ scripts[s][i].op # "open" =>
                \E j \in 1 .. i - 1 : scripts[s][j] = OpenOf(scripts[s][i].name)

\* README: "Follow the file. Will wait for the file to grow to continue."
EveryLineReplayed == <>[](\A c \in Names : replica[c] = applied[c])

\* Without --follow the tool ends, and has sent every line it read.
ReplayEnds == <>(publisher = "exited")
ReplayComplete == publisher = "exited" => logQueue = <<>>
==============================================================================
