------------------------------ MODULE TextSession ------------------------------
(***************************************************************************)
(* Sessions that speak the text protocol: the reader of command lines and  *)
(* of the data that follows some of them, the handlers of the commands, an *)
(* HTTP request on the same port, and the sending of answers and events    *)
(* through pendingSendData_ under bigLock_.                                *)
(*                                                                         *)
(* A handler runs on an io thread and holds its session's bigLock_ from    *)
(* the first line to the last; the publisher thread takes it for each      *)
(* string it sends.  With one io thread the server disables these locks.   *)
(***************************************************************************)
EXTENDS Integers, Sequences, FiniteSets, SequencesExt

CONSTANTS
    Sessions,        \* the text sessions
    Scenarios,       \* what the clients do: script[s], the commands of session s;
                     \* reads[s], whether its client reads what it is sent; leaves[s],
                     \* whether it hangs up; whole, whether a request arrives in one piece
    Observed,        \* the session whose promise to its senders is checked
    SingleThreaded,  \* tio_recursive_mutex::single_threaded: the locks do nothing
    Limit,           \* 100 * 1024 * 1024, in strings
    NoOne            \* a lock that is free

Publisher == "publisher"
Threads == Sessions \cup {Publisher}

\* A command is [op, handle]: handle tells whether it names an open container.
DataOps == {"get", "getBig", "set", "modify"}
HandleOps == {"query", "subscribe", "pop", "clear", "count"}
Ops == DataOps \cup HandleOps \cup {"blank", "ping", "unknown", "binary", "http"}

ASSUME TextAssumption ==
    /\ Observed \in Sessions /\ Publisher \notin Sessions /\ NoOne \notin Threads
    /\ SingleThreaded \in BOOLEAN /\ Limit \in Nat
    /\ \A x \in Scenarios : \A s \in Sessions : \A c \in ToSet(x.script[s]) :
          c.op \in Ops /\ c.handle \in BOOLEAN /\ (c.op = "http" => c.handle)

VARIABLES
    play,             \* the scenario
    wire,             \* what the client sent and the session has not read
    buf,              \* buf_: what has been read and not consumed
    phase,            \* what the session waits for or does
    command,          \* currentCommand_
    next,             \* the phase after the handler
    lock,             \* bigLock_
    todo,             \* the <<session, string>> pairs a thread is about to send
    choice,           \* what SendString decided: "none", "now" or "push"
    valid,            \* valid_
    listed,           \* the sessions of the server's list
    pendingSendData,  \* pendingSendData_
    pendingSendSize,  \* pendingSendSize_: the size of the writes under way
    flight,           \* the async_writes under way
    received,         \* what the client has received
    accepted,         \* history: the strings in the order the session took them
    record,           \* an integer record of the container
    seen,             \* the value OnModify read
    published,        \* how many events the container published
    queue,            \* the publisher's work: subscriptions and events
    subscribers       \* the sessions subscribed, in the publisher's view

readVars == <<wire, buf, phase, command, next>>
sendVars == <<valid, listed, pendingSendData, pendingSendSize, flight, received, accepted>>
dataVars == <<record, seen, published, queue, subscribers>>
vars == <<play, readVars, lock, todo, choice, sendVars, dataVars>>

-----------------------------------------------------------------------------
(* The text of the protocol.  A token of input is a line or the data behind it; a  *)
(* string sent is a sequence of lines <<kind, n>>, n the command or event's number. *)

HasData(c) == c.op \in DataOps \cup {"http"}

Input(script) ==
    FlattenSeq([i \in DOMAIN script |->
        <<[kind |-> "line", id |-> i, cmd |-> script[i]]>> \o
        IF HasData(script[i]) THEN <<[kind |-> "data", id |-> i, cmd |-> script[i]]>>
                              ELSE <<>>])

OneString(kind, i) == << << <<kind, i>> >> >>

\* SendTextResultSet: each line of a query's result is a string of its own.
ResultSet(i) == OneString("query", i) \o OneString("item", i) \o OneString("end", i)

\* OnAnyDataCommand once the data is there.
DataAnswer(c, i) ==
    OneString(CASE c.op = "get" -> "data" [] c.op = "getBig" -> "big" [] OTHER -> "ok", i)

\* OnModify answers with the sum and then with its success, in one string.
ModifyAnswer(i) == << << <<"data", i>>, <<"ok", i>> >> >>

\* OnHttpCommand: the container as JSON or HTML, or a greeting.
HttpAnswer(i) == OneString("http", i)

Answer(c, i) ==
    CASE c.op = "blank" -> <<>>
      [] c.op = "unknown" -> OneString("error", i)
      [] c.op \in DataOps \cup HandleOps /\ ~c.handle -> OneString("error", i)
      [] c.op = "modify" -> ModifyAnswer(i)
      [] c.op \in DataOps -> DataAnswer(c, i)
      [] c.op = "query" -> ResultSet(i)
      [] c.op \in {"pop", "count"} -> OneString("data", i)
      [] c.op = "http" -> HttpAnswer(i)
      [] OTHER -> OneString("ok", i)

\* The size of a string; a big one is larger than the limit.
SizeOf(str) == IF str[1][1] = "big" THEN Limit + 1 ELSE 1

IsAnswer(line) == line[1] # "event" /\ line[1] # "snapshot_end"

\* Every line a scenario can produce.
Strings ==
    LET Lengths == {Len(x.script[s]) : x \in Scenarios, s \in Sessions}
        N == CHOOSE n \in Lengths : \A m \in Lengths : m <= n
    IN  UNION {ToSet(Answer([op |-> o, handle |-> h], i)) :
                  o \in Ops, h \in BOOLEAN, i \in 1 .. N}
          \cup {<< <<k, n>> >> : k \in {"event", "snapshot_end"}, n \in 0 .. 2 * N}

-----------------------------------------------------------------------------

Init ==
    /\ play \in Scenarios
    /\ wire = [s \in Sessions |-> Input(play.script[s])]
    /\ buf = [s \in Sessions |-> <<>>]
    /\ phase = [s \in Sessions |-> "line"]
    /\ command = [s \in Sessions |-> <<>>]
    /\ next = [s \in Sessions |-> "line"]
    /\ lock = [s \in Sessions |-> NoOne]
    /\ todo = [t \in Threads |-> <<>>]
    /\ choice = [t \in Threads |-> "none"]
    /\ valid = [s \in Sessions |-> TRUE]
    /\ listed = Sessions
    /\ pendingSendData = [s \in Sessions |-> <<>>]
    /\ pendingSendSize = [s \in Sessions |-> 0]
    /\ flight = [s \in Sessions |-> <<>>]
    /\ received = [s \in Sessions |-> <<>>]
    /\ accepted = [s \in Sessions |-> <<>>]
    /\ record = 0
    /\ seen = [s \in Sessions |-> 0]
    /\ published = 0
    /\ queue = <<>>
    /\ subscribers = {}

\* tio_lock_guard on the bigLock_ of s: recursive, and nothing with a single io thread.
Acquire(t, s) ==
    \/ SingleThreaded /\ UNCHANGED lock
    \/ ~SingleThreaded /\ lock[s] \in {NoOne, t} /\ lock' = [lock EXCEPT ![s] = t]
Release(s) == lock' = [lock EXCEPT ![s] = NoOne]

\* An io thread is free to run a handler of s: the strand serialises the handlers of one
\* session, and with one io thread those of all.
InHandler == {"handler", "modify", "http", "closing"}
IoFree(s) == \A r \in IF SingleThreaded THEN Sessions ELSE {s} : phase[r] \notin InHandler

-----------------------------------------------------------------------------
(* Sending: SendString, SendStringNow, OnWrite. *)

\* The size is compared with the limit only when something is being sent already.  A
\* session above the limit leaves the server's list; its socket stays open.
SendString(t) ==
    /\ todo[t] # <<>> /\ choice[t] = "none"
    /\ LET s == Head(todo[t])[1]
       IN  /\ Acquire(t, s)
           /\ choice' = [choice EXCEPT ![t] = CASE ~valid[s] -> "drop"
                                                [] pendingSendSize[s] = 0 -> "now"
                                                [] pendingSendSize[s] > Limit -> "fail"
                                                [] OTHER -> "push"]
           /\ accepted' = IF choice'[t] \in {"now", "push"}
                          THEN [accepted EXCEPT ![s] = Append(@, Head(todo[t])[2])]
                          ELSE accepted
    /\ UNCHANGED <<play, readVars, todo, valid, listed, pendingSendData, pendingSendSize,
                   flight, received, dataVars>>

Returned(t) ==
    /\ choice' = [choice EXCEPT ![t] = "none"]
    /\ todo' = [todo EXCEPT ![t] = Tail(@)]

\* The publisher leaves SendString and its lock; a handler keeps its session's lock.
Unlock(t, s) == IF t = Publisher /\ ~SingleThreaded THEN Release(s) ELSE UNCHANGED lock

\* std::queue::push and the start of an async_write.
Push(s, str) ==
    /\ pendingSendData' = [pendingSendData EXCEPT ![s] = Append(@, str)]
    /\ UNCHANGED <<flight, pendingSendSize>>
SendStringNow(s, str) ==
    /\ flight' = [flight EXCEPT ![s] = Append(@, str)]
    /\ pendingSendSize' = [pendingSendSize EXCEPT ![s] = @ + SizeOf(str)]
    /\ UNCHANGED pendingSendData

PushFront(t) ==  \* mutant: the string is queued in front of the others
    /\ choice[t] \in {"now", "push"}
    /\ LET s == Head(todo[t])[1]
           str == Head(todo[t])[2]
       IN  /\ IF choice[t] = "push"
              THEN /\ pendingSendData' = [pendingSendData EXCEPT ![s] = <<str>> \o @]
                   /\ UNCHANGED <<flight, pendingSendSize>>
              ELSE SendStringNow(s, str)
           /\ Unlock(t, s)
    /\ Returned(t)
    /\ UNCHANGED <<play, readVars, valid, listed, received, accepted, dataVars>>

Send(t) ==
    /\ choice[t] \in {"now", "push"}
    /\ LET s == Head(todo[t])[1]
           str == Head(todo[t])[2]
       IN  /\ IF choice[t] = "push" THEN Push(s, str) ELSE SendStringNow(s, str)
           /\ Unlock(t, s)
    /\ Returned(t)
    /\ UNCHANGED <<play, readVars, valid, listed, received, accepted, dataVars>>

\* The session is invalid, or above the limit: UnsubscribeAll does nothing but lock.
SendNothing(t) ==
    /\ choice[t] \in {"drop", "fail"}
    /\ LET s == Head(todo[t])[1]
       IN  /\ listed' = IF choice[t] = "fail" THEN listed \ {s} ELSE listed
           /\ Unlock(t, s)
    /\ Returned(t)
    /\ UNCHANGED <<play, readVars, valid, pendingSendData, pendingSendSize, flight, received,
                   accepted, dataVars>>

Without(q, i) == SubSeq(q, 1, i - 1) \o SubSeq(q, i + 1, Len(q))

IsHttp(str) == str[1][1] = "http"

\* A write is complete, in one step because it takes the lock and keeps it.  Two writes
\* under way on one socket get out in any order; a write on a closed one may be lost.
OnWrite(s) ==
    /\ IoFree(s) /\ lock[s] = NoOne
    /\ play.reads[s] \/ ~valid[s]
    /\ \E i \in {n \in DOMAIN flight[s] : ~IsHttp(flight[s][n])} :
          LET done == flight[s][i]
              more == IF valid[s] /\ pendingSendData[s] # <<>>
                      THEN <<Head(pendingSendData[s])>> ELSE <<>>
          IN  /\ \/ received' = [received EXCEPT ![s] = Append(@, done)]
                 \/ ~valid[s] /\ UNCHANGED received
              /\ flight' = [flight EXCEPT ![s] = Without(@, i) \o more]
              /\ pendingSendSize' = [pendingSendSize EXCEPT
                    ![s] = @ - SizeOf(done) + IF more = <<>> THEN 0 ELSE SizeOf(more[1])]
              /\ pendingSendData' = [pendingSendData EXCEPT
                    ![s] = IF more = <<>> THEN @ ELSE Tail(@)]
    /\ UNCHANGED <<play, readVars, lock, todo, choice, valid, listed, accepted, dataVars>>

-----------------------------------------------------------------------------
(* Reading and handling commands. *)

\* An async_read_until or async_read that needs one more token: it completes at once when
\* buf_ holds it, otherwise with whatever more has arrived; b is buf_ afterwards.
Read(s, b) ==
    \E n \in 0 .. Len(wire[s]) :
        /\ (n = 0) = (buf[s] # <<>>)
        /\ play.whole /\ n > 0 => n = Len(wire[s])
        /\ b = buf[s] \o SubSeq(wire[s], 1, n)
        /\ wire' = [wire EXCEPT ![s] = SubSeq(@, n + 1, Len(@))]
Buffers(s) == {buf[s] \o SubSeq(wire[s], 1, n) : n \in 0 .. Len(wire[s])} \ {<<>>}

\* MakeAnswer in the handler: what it sends once it returns.
Reply(s, strings) ==
    todo' = [todo EXCEPT ![s] = [i \in DOMAIN strings |-> <<s, strings[i]>>]]

Go(s, p, n) == phase' = [phase EXCEPT ![s] = p] /\ next' = [next EXCEPT ![s] = n]

\* A container event: the publisher will take it from its queue.
Publish == published' = published + 1 /\ queue' = Append(queue, <<"event", published'>>)

\* A subscription goes to the publisher before its answer is sent.
SubscribeUnsubscribe(s) == queue' = Append(queue, <<"subscribe", s>>) /\ UNCHANGED published

\* A command that ends with its line: the whole handler but the sending.  The data behind
\* a line whose handle is bad is not read: it is taken for a line, and no command.
OnTextCommand(s, token) ==
    LET c == IF token.kind = "line" THEN token.cmd ELSE [op |-> "unknown", handle |-> FALSE]
    IN  /\ Reply(s, Answer(c, token.id))
        /\ Go(s, "handler", IF c.op = "binary" THEN "binary" ELSE "line")
        /\ CASE c.op = "subscribe" /\ c.handle -> SubscribeUnsubscribe(s)
             [] c.op \in {"pop", "clear"} /\ c.handle -> Publish
             [] OTHER -> UNCHANGED <<queue, published>>

OnReadUnlocked(s) ==  \* mutant: the handler does not hold bigLock_
    /\ phase[s] = "line" /\ valid[s] /\ IoFree(s)
    /\ \E b \in Buffers(s) :
          LET token == Head(b)
          IN  /\ Read(s, b)
              /\ buf' = [buf EXCEPT ![s] = Tail(b)]
              /\ command' = [command EXCEPT ![s] = token]
              /\ CASE token.kind = "line" /\ token.cmd.op = "http" ->
                        /\ Go(s, "http", "http")
                        /\ UNCHANGED <<todo, queue, published>>
                   [] token.kind = "line" /\ HasData(token.cmd) /\ token.cmd.handle ->
                        /\ Go(s, "handler", "data")
                        /\ UNCHANGED <<todo, queue, published>>
                   [] OTHER -> OnTextCommand(s, token)
    /\ UNCHANGED <<play, lock, choice, sendVars, record, seen, subscribers>>

OnReadCommand(s) ==
    /\ phase[s] = "line" /\ valid[s] /\ IoFree(s)
    /\ Acquire(s, s)
    /\ \E b \in Buffers(s) :
          LET token == Head(b)
          IN  /\ Read(s, b)
              /\ buf' = [buf EXCEPT ![s] = Tail(b)]
              /\ command' = [command EXCEPT ![s] = token]
              /\ CASE token.kind = "line" /\ token.cmd.op = "http" ->
                        /\ Go(s, "http", "http")
                        /\ UNCHANGED <<todo, queue, published>>
                   [] token.kind = "line" /\ HasData(token.cmd) /\ token.cmd.handle ->
                        /\ Go(s, "handler", "data")
                        /\ UNCHANGED <<todo, queue, published>>
                   [] OTHER -> OnTextCommand(s, token)
    /\ UNCHANGED <<play, choice, sendVars, record, seen, subscribers>>

OnCommandDataKept(s) ==  \* mutant: the data is looked at and left in buf_
    /\ phase[s] = "data" /\ valid[s] /\ IoFree(s)
    /\ Acquire(s, s)
    /\ \E b \in Buffers(s) : Read(s, b) /\ buf' = [buf EXCEPT ![s] = b]
    /\ LET c == command[s].cmd
       IN  /\ Go(s, "handler", "line")
           /\ IF c.op = "set" THEN Publish ELSE UNCHANGED <<published, queue>>
           /\ Reply(s, Answer(c, command[s].id))
    /\ UNCHANGED <<play, command, choice, sendVars, record, seen, subscribers>>

\* The data is there: the command runs again, now to the end.  A modify reads the record
\* first and sets it in a step of its own.
OnCommandData(s) ==
    /\ phase[s] = "data" /\ valid[s] /\ IoFree(s)
    /\ Acquire(s, s)
    /\ \E b \in Buffers(s) : Read(s, b) /\ buf' = [buf EXCEPT ![s] = Tail(b)]
    /\ LET c == command[s].cmd
       IN  /\ Go(s, IF c.op = "modify" THEN "modify" ELSE "handler", "line")
           /\ seen' = IF c.op = "modify" THEN [seen EXCEPT ![s] = record] ELSE seen
           /\ IF c.op = "set" THEN Publish ELSE UNCHANGED <<published, queue>>
           /\ IF c.op = "modify" THEN UNCHANGED todo ELSE Reply(s, Answer(c, command[s].id))
    /\ UNCHANGED <<play, command, choice, sendVars, record, subscribers>>

OnModify(s) ==
    /\ phase[s] = "modify"
    /\ record' = seen[s] + 1
    /\ Publish
    /\ Reply(s, Answer(command[s].cmd, command[s].id))
    /\ Go(s, "handler", "line")
    /\ UNCHANGED <<play, wire, buf, command, lock, choice, sendVars, seen, subscribers>>

ReadNothing(s) ==  \* mutant: no read is started after a command without data
    /\ phase[s] = "handler" /\ todo[s] = <<>>
    /\ Go(s, IF next[s] = "line" THEN "idle" ELSE next[s], next[s])
    /\ IF SingleThreaded THEN UNCHANGED lock ELSE Release(s)
    /\ UNCHANGED <<play, wire, buf, command, todo, choice, sendVars, dataVars>>

\* The handler has sent its answer: the next read is started and bigLock_ released.
ReadCommand(s) ==
    /\ phase[s] = "handler" /\ todo[s] = <<>>
    /\ Go(s, next[s], next[s])
    /\ IF SingleThreaded THEN UNCHANGED lock ELSE Release(s)
    /\ UNCHANGED <<play, wire, buf, command, todo, choice, sendVars, dataVars>>

\* An HTTP request whose rest is in buf_ is answered by a write of its own.  Without the
\* rest, the async_read has no completion condition: it ends when the client hangs up.
SendHttpResponseAndClose(s, answer) ==
    /\ flight' = [flight EXCEPT ![s] = @ \o answer]
    /\ accepted' = [accepted EXCEPT ![s] = @ \o answer]

OnReadHttpCommand(s) ==
    /\ phase[s] = "http"
    /\ SendHttpResponseAndClose(s, IF buf[s] # <<>> THEN HttpAnswer(command[s].id) ELSE <<>>)
    /\ buf' = [buf EXCEPT ![s] = <<>>]
    /\ Go(s, "httpWait", "httpWait")
    /\ IF SingleThreaded THEN UNCHANGED lock ELSE Release(s)
    /\ UNCHANGED <<play, wire, command, todo, choice, valid, listed, pendingSendData,
                   pendingSendSize, received, dataVars>>

-----------------------------------------------------------------------------
(* InvalidateConnection: after a read error, or once an HTTP response is written. *)

\* The queue is emptied under writeLock_, which no text sender takes.
Invalidate(s) ==
    /\ valid[s] /\ IoFree(s)
    /\ valid' = [valid EXCEPT ![s] = FALSE]
    /\ pendingSendData' = [pendingSendData EXCEPT ![s] = <<>>]
    /\ Go(s, "closing", "closing")
    /\ UNCHANGED <<play, wire, buf, command, lock, todo, choice, listed, pendingSendSize,
                   accepted, dataVars>>

\* The client hangs up once it has sent everything: a read of the session fails.
ReadFails(s) ==
    /\ play.leaves[s] /\ wire[s] = <<>> /\ buf[s] = <<>>
    /\ phase[s] \in {"line", "data", "httpWait"}
    /\ Invalidate(s)
    /\ UNCHANGED <<flight, received>>

HttpResponseWritten(s) ==
    /\ flight[s] # <<>> /\ IsHttp(Head(flight[s]))
    /\ received' = [received EXCEPT ![s] = Append(@, Head(flight[s]))]
    /\ flight' = [flight EXCEPT ![s] = Tail(@)]
    /\ Invalidate(s)

\* UnsubscribeAll waits for bigLock_; then OnClientFailed, and the socket is closed.
UnsubscribeAll(s) ==
    /\ phase[s] = "closing" /\ lock[s] = NoOne
    /\ listed' = listed \ {s}
    /\ Go(s, "closed", "closed")
    /\ UNCHANGED <<play, wire, buf, command, lock, todo, choice, valid, pendingSendData,
                   pendingSendSize, flight, received, accepted, dataVars>>

-----------------------------------------------------------------------------
(* The publisher thread, as far as text sessions see it. *)

TextEvent(n) == << <<"event", n>> >>
SnapshotEnd == << <<"snapshot_end", 0>> >>

PublisherStep ==
    /\ queue # <<>> /\ todo[Publisher] = <<>>
    /\ queue' = Tail(queue)
    /\ IF Head(queue)[1] = "subscribe"
       THEN LET s == Head(queue)[2]
            IN  /\ subscribers' = subscribers \cup {s}
                /\ todo' = [todo EXCEPT ![Publisher] = << <<s, SnapshotEnd>> >>]
       ELSE LET order == SetToSeq({s \in subscribers : valid[s]})
                str == TextEvent(Head(queue)[2])
            IN  /\ todo' = [todo EXCEPT ![Publisher] =
                               [i \in DOMAIN order |-> <<order[i], str>>]]
                /\ UNCHANGED subscribers
    /\ UNCHANGED <<play, readVars, lock, choice, sendVars, record, seen, published>>

-----------------------------------------------------------------------------

Handler(s) ==
    \/ OnReadCommand(s) \/ OnCommandData(s) \/ OnModify(s) \/ ReadCommand(s)
    \/ OnReadHttpCommand(s) \/ ReadFails(s) \/ HttpResponseWritten(s) \/ UnsubscribeAll(s)
Sending(t) == SendString(t) \/ Send(t) \/ SendNothing(t)

Next ==
    \/ \E s \in Sessions : Handler(s) \/ OnWrite(s)
    \/ \E t \in Threads : Sending(t)
    \/ PublisherStep

\* Threads run, and a client that reads lets its writes complete.  Weak fairness is enough
\* because nobody takes a lock for ever: a handler ends, and so does the input.
Spec ==
    /\ Init
    /\ [][Next]_vars
    /\ \A s \in Sessions : WF_vars(Handler(s) \/ Sending(s)) /\ WF_vars(OnWrite(s))
    /\ WF_vars(PublisherStep \/ Sending(Publisher))

-----------------------------------------------------------------------------
(* Properties. *)

\* What the lines of a script are answered with, whatever happens around them.
Expected(script) ==
    FlattenSeq(FlattenSeq([i \in DOMAIN script |->
        Answer(script[i], i) \o
        IF script[i].op \in DataOps /\ ~script[i].handle THEN OneString("error", i) ELSE <<>>]))

Answers(s) == SelectSeq(FlattenSeq(received[s]), IsAnswer)

\* The answers a client receives are those of its commands, in their order, however
\* segments, events and writes interleave.
AnswersMatch == \A s \in Sessions : IsPrefix(Answers(s), Expected(play.script[s]))

\* No event of a subscription reaches the client before the answer to its subscribe, though
\* the handler queues the subscription first.
EventsAfterAnswer ==
    \A s \in Sessions :
        LET lines == FlattenSeq(received[s])
        IN  \A p \in DOMAIN lines : ~IsAnswer(lines[p]) =>
                \E q \in 1 .. p - 1 : /\ lines[q][1] = "ok"
                                       /\ play.script[s][lines[q][2]].op = "subscribe"

\* A session is an Outbox for its handlers and the publisher.
Box == INSTANCE Outbox WITH accepted <- accepted[Observed], sent <- received[Observed],
                            open <- valid[Observed], Messages <- Strings
IsOutbox == Box!Spec

\* A client that stays and reads gets an answer to every command, unless its session was
\* above the limit.
CommandsAnswered ==
    \A s \in Sessions :
        play.reads[s] /\ ~play.leaves[s] =>
            <>(Answers(s) = Expected(play.script[s]) \/ (s \notin listed /\ valid[s]))

\* SendString: "If there is too much data pending, the client is not receiving it anymore.
\* We're going to disconnect him, otherwise we will consume too much memory".
PendingBounded ==
    \A s \in Sessions : pendingSendSize[s] + Len(pendingSendData[s]) <= Limit + 1

\* A modify adds to the record it finds: no increment is lost.
SumsKept ==
    [][\A s \in Sessions : phase[s] = "modify" /\ phase'[s] # "modify" => record' = record + 1]_vars

\* A command is answered once.
OneAnswerPerCommand ==
    \A s \in Sessions : \A i \in DOMAIN play.script[s] :
        Cardinality({p \in DOMAIN Answers(s) : /\ Answers(s)[p][2] = i
                                               /\ Answers(s)[p][1] \notin {"item", "end"}}) <= 1

\* The queue is not emptied while another thread is pushing to it.
QueueGuarded ==
    [][\A s \in Sessions : valid[s] /\ ~valid'[s] =>
          ~ \E t \in Threads : choice[t] = "push" /\ Head(todo[t])[1] = s]_vars
==============================================================================
