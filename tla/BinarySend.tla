------------------------------ MODULE BinarySend ------------------------------
(***************************************************************************)
(* The sending half of a TioTcpSession that speaks the binary protocol.    *)
(*                                                                         *)
(* The publisher thread, the session's strand and other io threads hand    *)
(* messages to the session; one async_write at a time takes as many of     *)
(* them as fit the send buffer.  Two recursive locks are in play: writeLock *)
(* guards the queue in SendBinaryMessage and SendPendingBinaryData, while  *)
(* SendBinaryMessages (a snapshot) pushes under bigLock only.  An          *)
(* unguarded list push or counter update is a read followed by a write.    *)
(***************************************************************************)
EXTENDS Integers, Sequences, FiniteSets, Functions, SeqFold, StdList

CONSTANTS
    Threads,         \* the threads that call into the session
    Strand,          \* the one that runs the completion of a write
    Scenarios,       \* what the environment may do: calls[t], the calls of thread t in
                     \* order, and writesFail, whether an async_write may end with an error
    SizeOf,          \* pr1_message_get_data_size of a message
    SendBufferSize,  \* SEND_BUFFER_SIZE
    NoOne            \* a lock that is free

Messages == DOMAIN SizeOf

\* A message is handed over once.
Call == ({"message"} \X Messages) \cup ({"messages"} \X Seq(Messages)) \cup {<<"invalidate">>}

ASSUME CallsAssumption ==
    /\ Strand \in Threads
    /\ NoOne \notin Threads
    /\ SendBufferSize \in Nat
    /\ SizeOf \in [Messages -> Nat]
    /\ \A x \in Scenarios :
          /\ x.writesFail \in BOOLEAN
          /\ x.calls \in [Threads -> Seq(Call)]
          /\ \A t \in Threads : <<"messages", <<>>>> \notin Range(x.calls[t])

VARIABLES
    pc,                     \* where each thread is in the session's code
    writesFail,             \* whether this behaviour has write errors
    todo,                   \* the calls each thread has still to make or finish
    bigLock, writeLock,     \* the thread that holds it, or NoOne
    valid,                  \* valid_
    pendingBinarySendData,  \* pendingBinarySendData_
    pendingSendSize,        \* pendingSendSize_
    binarySendInProgress,   \* binarySendInProgress_
    inFlight,               \* an async_write has been started and not completed
    writing,                \* the messages in the send buffer of that write
    sent,                   \* the messages the socket has taken
    read,                   \* the queue and the size a thread read before it writes them
    accepted                \* history: messages in the order they were queued

lockVars == <<bigLock, writeLock>>
queueVars == <<pendingBinarySendData, pendingSendSize, binarySendInProgress,
               inFlight, writing>>
vars == <<pc, writesFail, todo, lockVars, valid, queueVars, sent, read, accepted>>

Pcs == {"idle", "push", "readTail", "linkTail", "flush", "unsubscribe", "decrease",
        "sendNext", "resume", "abort"}

TypeOK ==
    /\ pc \in [Threads -> Pcs]
    /\ todo \in [Threads -> Seq(Call)]
    /\ bigLock \in Threads \cup {NoOne}
    /\ writeLock \in Threads \cup {NoOne}
    /\ valid \in BOOLEAN
    /\ pendingBinarySendData \in Seq(Messages)
    /\ pendingSendSize \in Int
    /\ binarySendInProgress \in BOOLEAN
    /\ inFlight \in BOOLEAN
    /\ writing \in Seq(Messages)
    /\ sent \in Seq(Messages)
    /\ accepted \in Seq(Messages)

Init ==
    /\ pc = [t \in Threads |-> "idle"]
    /\ \E x \in Scenarios : todo = x.calls /\ writesFail = x.writesFail
    /\ bigLock = NoOne /\ writeLock = NoOne
    /\ valid = TRUE
    /\ pendingBinarySendData = <<>>
    /\ pendingSendSize = 0
    /\ binarySendInProgress = FALSE
    /\ inFlight = FALSE
    /\ writing = <<>>
    /\ sent = <<>>
    /\ read = [t \in Threads |-> [list |-> <<>>, size |-> 0]]
    /\ accepted = <<>>

Goto(t, p) == pc' = [pc EXCEPT ![t] = p]
Calling(t, op) == todo[t] # <<>> /\ Head(todo[t])[1] = op
Return(t) == Goto(t, "idle") /\ todo' = [todo EXCEPT ![t] = Tail(@)]

AddSize == [p \in Nat \X Messages |-> p[1] + SizeOf[p[2]]]
TotalSize(q) == Fold(AddSize, 0, q)

\* How many messages of q the send buffer takes: the loop stops at the first one
\* that does not fit.
Fit(q) == Cardinality({n \in DOMAIN q : TotalSize(SubSeq(q, 1, n)) <= SendBufferSize})

-----------------------------------------------------------------------------
(* Pieces of the handlers. *)

PushInFront(r, m) ==  \* mutant: push_front
    {<<m>> \o pendingBinarySendData}

\* std::list::push_back by a thread that saw the last node of list r as the tail:
\* the node is linked behind it.  If another node follows there by now, one of the
\* two changes is lost; if the tail has been popped, the new node is.
PushBack(r, m) ==
    LET q == pendingBinarySendData
        tail == IF r = <<>> THEN {0} ELSE {i \in DOMAIN q : q[i] = LastOf(r)}
    IN  IF Len(q) \in tail
        THEN {Append(q, m)}
        ELSE {q} \cup {Append(SubSeq(q, 1, i), m) : i \in tail}

ReadQueue(t) ==
    read' = [read EXCEPT ![t] = [list |-> pendingBinarySendData, size |-> pendingSendSize]]

SendPendingForgetting(q) ==  \* mutant: binarySendInProgress is not set
    IF ~binarySendInProgress /\ valid /\ q # <<>>
    THEN /\ writing' = SubSeq(q, 1, Fit(q))
         /\ pendingBinarySendData' = SubSeq(q, Fit(q) + 1, Len(q))
         /\ inFlight' = TRUE
         /\ UNCHANGED binarySendInProgress
    ELSE /\ pendingBinarySendData' = q
         /\ UNCHANGED <<writing, inFlight, binarySendInProgress>>

\* SendPendingBinaryData with q as the queue; the caller has writeLock.
SendPendingBinaryData(q) ==
    IF ~binarySendInProgress /\ valid /\ q # <<>>
    THEN /\ writing' = SubSeq(q, 1, Fit(q))
         /\ pendingBinarySendData' = SubSeq(q, Fit(q) + 1, Len(q))
         /\ inFlight' = TRUE
         /\ binarySendInProgress' = TRUE
    ELSE /\ pendingBinarySendData' = q
         /\ UNCHANGED <<writing, inFlight, binarySendInProgress>>

-----------------------------------------------------------------------------
(* SendBinaryMessage: an answer or an event. *)

SendBinaryMessage(t) ==
    /\ pc[t] = "idle" /\ Calling(t, "message")
    /\ writeLock = NoOne
    /\ IF valid THEN /\ writeLock' = t
                     /\ ReadQueue(t)
                     /\ Goto(t, "push")
                     /\ UNCHANGED todo
                ELSE /\ Return(t)
                     /\ UNCHANGED <<writeLock, read>>
    /\ UNCHANGED <<bigLock, valid, queueVars, sent, accepted>>

PushMessage(t) ==
    /\ pc[t] = "push"
    /\ LET m == Head(todo[t])[2]
       IN  /\ \E q \in PushBack(read[t].list, m) : SendPendingBinaryData(q)
           /\ pendingSendSize' = read[t].size + SizeOf[m]
           /\ accepted' = Append(accepted, m)
    /\ writeLock' = NoOne
    /\ Return(t)
    /\ UNCHANGED <<bigLock, valid, sent, read>>

-----------------------------------------------------------------------------
(* SendBinaryMessages: the snapshot of a subscription. *)

SendBinaryMessages(t) ==
    /\ pc[t] = "idle" /\ Calling(t, "messages")
    /\ bigLock = NoOne
    /\ IF valid THEN /\ bigLock' = t
                     /\ Goto(t, "readTail")
                     /\ UNCHANGED todo
                ELSE Return(t) /\ UNCHANGED bigLock
    /\ UNCHANGED <<writeLock, valid, queueVars, sent, read, accepted>>

ReadTail(t) ==
    /\ pc[t] = "readTail"
    /\ ReadQueue(t)
    /\ Goto(t, "linkTail")
    /\ UNCHANGED <<todo, lockVars, valid, queueVars, sent, accepted>>

LinkTail(t) ==
    /\ pc[t] = "linkTail"
    /\ LET batch == Head(todo[t])[2]
       IN  /\ pendingBinarySendData' \in PushBack(read[t].list, Head(batch))
           /\ pendingSendSize' = read[t].size + SizeOf[Head(batch)]
           /\ accepted' = Append(accepted, Head(batch))
           /\ todo' = [todo EXCEPT ![t] = <<<<"messages", Tail(batch)>>>> \o Tail(@)]
           /\ Goto(t, IF Len(batch) > 1 THEN "readTail" ELSE "flush")
    /\ UNCHANGED <<lockVars, valid, binarySendInProgress, inFlight, writing, sent, read>>

FlushNothing(t) ==  \* mutant: the snapshot is queued and not sent
    /\ pc[t] = "flush"
    /\ bigLock' = NoOne
    /\ Return(t)
    /\ UNCHANGED <<writeLock, valid, queueVars, sent, read, accepted>>

Flush(t) ==
    /\ pc[t] = "flush"
    /\ writeLock = NoOne
    /\ SendPendingBinaryData(pendingBinarySendData)
    /\ bigLock' = NoOne
    /\ Return(t)
    /\ UNCHANGED <<writeLock, valid, pendingSendSize, sent, read, accepted>>

-----------------------------------------------------------------------------
(* The completion of a write, on the strand. *)

OnBinaryMessageSent ==
    /\ inFlight /\ pc[Strand] = "idle"
    /\ bigLock = NoOne
    /\ bigLock' = Strand
    /\ inFlight' = FALSE
    /\ sent' = sent \o writing
    /\ writing' = <<>>
    /\ read' = [read EXCEPT ![Strand].size = TotalSize(writing)]
    /\ Goto(Strand, "decrease")
    /\ UNCHANGED <<writesFail, todo, writeLock, valid, pendingBinarySendData, pendingSendSize,
                   binarySendInProgress, accepted>>

DecreaseTwice ==  \* mutant: the size is taken off twice
    /\ pc[Strand] = "decrease"
    /\ writeLock = NoOne
    /\ pendingSendSize' = pendingSendSize - 2 * read[Strand].size
    /\ Goto(Strand, "sendNext")
    /\ UNCHANGED <<todo, lockVars, valid, pendingBinarySendData, binarySendInProgress,
                   inFlight, writing, sent, read, accepted>>

DecreasePendingSendSize ==
    /\ pc[Strand] = "decrease"
    /\ writeLock = NoOne
    /\ pendingSendSize' = pendingSendSize - read[Strand].size
    /\ Goto(Strand, "sendNext")
    /\ UNCHANGED <<todo, lockVars, valid, pendingBinarySendData, binarySendInProgress,
                   inFlight, writing, sent, read, accepted>>

ClearInProgress ==
    /\ pc[Strand] = "sendNext"
    /\ binarySendInProgress' = FALSE
    /\ Goto(Strand, "resume")
    /\ UNCHANGED <<todo, lockVars, valid, pendingBinarySendData, pendingSendSize,
                   inFlight, writing, sent, read, accepted>>

Resume ==
    /\ pc[Strand] = "resume"
    /\ writeLock = NoOne
    /\ SendPendingBinaryData(pendingBinarySendData)
    /\ bigLock' = NoOne
    /\ Goto(Strand, "idle")
    /\ UNCHANGED <<todo, writeLock, valid, pendingSendSize, sent, read, accepted>>

-----------------------------------------------------------------------------
(* InvalidateConnection, called outright or because a write failed. *)

Invalidate(t, next) ==
    /\ valid' = FALSE
    /\ writeLock' = t
    /\ pendingBinarySendData' = <<>>
    /\ Goto(t, next)

InvalidateConnection(t) ==
    /\ pc[t] = "idle" /\ Calling(t, "invalidate")
    /\ writeLock = NoOne
    /\ IF valid THEN Invalidate(t, "unsubscribe") /\ UNCHANGED todo
                ELSE Return(t) /\ UNCHANGED <<valid, writeLock, pendingBinarySendData>>
    /\ UNCHANGED <<bigLock, pendingSendSize, binarySendInProgress, inFlight, writing,
                   sent, read, accepted>>

\* OnBinaryMessageSent with an error; the socket took some of the data.
OnWriteError ==
    /\ writesFail
    /\ inFlight /\ pc[Strand] = "idle"
    /\ writeLock = NoOne
    /\ inFlight' = FALSE
    /\ \E n \in 0 .. Len(writing) : sent' = sent \o SubSeq(writing, 1, n)
    /\ writing' = <<>>
    /\ IF valid THEN Invalidate(Strand, "abort")
                ELSE UNCHANGED <<valid, writeLock, pendingBinarySendData, pc>>
    /\ UNCHANGED <<writesFail, todo, bigLock, pendingSendSize, binarySendInProgress, read, accepted>>

UnsubscribeKeepingLock(t) ==  \* mutant: writeLock is not released
    /\ pc[t] \in {"unsubscribe", "abort"}
    /\ bigLock = NoOne
    /\ IF pc[t] = "unsubscribe" THEN Return(t) ELSE Goto(t, "idle") /\ UNCHANGED todo
    /\ UNCHANGED <<lockVars, valid, queueVars, sent, read, accepted>>

\* UnsubscribeAll takes bigLock for an instant; then both locks are free.
UnsubscribeAll(t) ==
    /\ pc[t] \in {"unsubscribe", "abort"}
    /\ bigLock = NoOne
    /\ writeLock' = NoOne
    /\ IF pc[t] = "unsubscribe" THEN Return(t) ELSE Goto(t, "idle") /\ UNCHANGED todo
    /\ UNCHANGED <<bigLock, valid, queueVars, sent, read, accepted>>

-----------------------------------------------------------------------------

Step(t) ==
    /\ UNCHANGED writesFail
    /\ \/ SendBinaryMessage(t) \/ PushMessage(t)
       \/ SendBinaryMessages(t) \/ ReadTail(t) \/ LinkTail(t) \/ Flush(t)
       \/ InvalidateConnection(t) \/ UnsubscribeAll(t)

Completion ==
    /\ UNCHANGED writesFail
    /\ DecreasePendingSendSize \/ ClearInProgress \/ Resume

Finished ==
    /\ \A t \in Threads : pc[t] = "idle" /\ todo[t] = <<>>
    /\ ~inFlight
    /\ UNCHANGED vars

Next ==
    \/ \E t \in Threads : Step(t)
    \/ OnBinaryMessageSent
    \/ OnWriteError
    \/ Completion
    \/ Finished

\* Threads run, mutexes are handed over, and the client goes on reading: a write
\* completes.
Spec ==
    /\ Init
    /\ [][Next]_vars
    /\ \A t \in Threads : SF_vars(Step(t))
    /\ SF_vars(OnBinaryMessageSent) /\ SF_vars(Completion)

-----------------------------------------------------------------------------
(* Properties. *)

\* The session is an Outbox: it never skips, repeats or reorders a message, not even
\* when it dies in the middle of a write.
Box == INSTANCE Outbox WITH open <- valid
IsOutbox == Box!Spec

\* There is never a second async_write on the socket while one is under way.
OneWriteAtATime == inFlight => binarySendInProgress

\* The inductive form: while the strand is between the end of a write and the reset of
\* binarySendInProgress_, nobody starts another.
WriteInv ==
    /\ OneWriteAtATime
    /\ pc[Strand] \in {"decrease", "sendNext"} => binarySendInProgress /\ ~inFlight

\* No thread sends, or has still to send, a snapshot.
NoSnapshots ==
    \A t \in Threads : /\ \A i \in DOMAIN todo[t] : todo[t][i][1] # "messages"
                       /\ pc[t] \notin {"readTail", "linkTail", "flush"}

\* Then writeLock guards the queue: nobody changes it between the two halves of a push.
LockInv ==
    \A t \in Threads :
       /\ pc[t] \in {"push", "unsubscribe", "abort"} <=> writeLock = t
       /\ pc[t] = "push" => valid /\ Calling(t, "message") /\ read[t].list = pendingBinarySendData
       /\ pc[t] = "unsubscribe" => ~valid /\ todo[t] # <<>>

\* And what a living session accepted it sent, is writing or has queued.
Conserved ==
    \E rest \in Seq(Messages) :
       /\ accepted = (sent \o writing) \o rest
       /\ pendingBinarySendData = IF valid THEN rest ELSE <<>>

QueueInv == LockInv /\ Conserved /\ (writing # <<>> => inFlight)

\* And pendingSendSize_ covers what is queued and being written, and what the strand has
\* still to take off it; what a close or an error throws away is never taken off.
ToTakeOff == IF pc[Strand] = "decrease" THEN read[Strand].size ELSE 0

SizeInv ==
    /\ pendingSendSize \in Int /\ ToTakeOff \in Nat
    /\ pendingSendSize >= TotalSize(writing) + TotalSize(pendingBinarySendData) + ToTakeOff
    /\ \A t \in Threads : pc[t] = "push" => read[t].size = pendingSendSize

\* BOOST_ASSERT(pendingSendSize_ >= 0) in OnBinaryMessageSent and DecreasePendingSendSize.
SizeNotNegative == pendingSendSize >= 0

\* No thread is left waiting for a lock: every call into the session and every
\* completion of a write returns.
CallsReturn == <>[](\A t \in Threads : pc[t] = "idle" /\ todo[t] = <<>>)

\* A message that was queued is sent unless the session dies.
EveryMessageSent ==
    \A m \in Messages : m \in Range(accepted) ~> (m \in Range(sent) \/ ~valid)
==============================================================================
