------------------------------ MODULE TextClient ------------------------------
(***************************************************************************)
(* The Python client, tioclient.TioServerConnection, on its own thread:    *)
(* calls that send a command and read the connection up to its answer, or  *)
(* leave the answer for later; events kept in pendingEvents meanwhile and  *)
(* passed to sinks by the dispatch calls, while a sink may itself send a   *)
(* command.  The server answers in order and puts events in between.       *)
(***************************************************************************)
EXTENDS Integers, Sequences, SequencesExt, FiniteSets, Functions

CONSTANTS
    Handles,     \* the container handles
    Scenarios,   \* what the program does: calls, its calls in order; sinkCalls, whether
                 \* a sink sends a command for the first event it gets
    MaxEvents,   \* bound: how many events the server sends
    Everything   \* the default of the max parameters

\* A call is [op, arg]: arg is a handle, or the max of a dispatch.
Commands == {"command", "ping", "query", "subscribe", "unsubscribe", "group_subscribe"}
Ops == Commands \cup {"create", "dispatch", "next", "loop", "async"}

ASSUME TextClientAssumption ==
    /\ MaxEvents \in Nat /\ Everything \in Nat /\ Everything > MaxEvents
    /\ \A x \in Scenarios : 
          /\ x.sinkCalls \in BOOLEAN
          /\ \A c \in ToSet(x.calls) : c.op \in Ops /\ (c.op = "async" => ~x.sinkCalls)

VARIABLES
    calls,            \* the calls still to make
    sinkCalls,        \* whether a sink still has a command to send
    pc,               \* what the thread does
    reading,          \* the ReceiveAnswer under way
    dispatching,      \* the DispatchPendingEvents under way
    waitForAnswers,   \* wait_for_answers
    pendingAnswers,   \* pending_answers_count
    keys,             \* the handles that are keys of pendingEvents, in order
    pendingEvents,    \* pendingEvents
    sinks,            \* the handles that are keys of sinks
    socketTimeout,    \* whether RunLoop left a timeout on the socket
    raised,           \* an exception left a call
    requests,         \* sent and not yet seen by the server
    stream,           \* sent by the server and not yet read
    subscribed,       \* the handles the server sends events of
    lastId,           \* history: commands sent so far
    events,           \* history: events sent so far
    unclaimed,        \* history: the commands whose answer was left for later
    answers,          \* history: <<command, command the answer was for>>
    delivered         \* history: the events passed to sinks

callVars == <<calls, sinkCalls, pc, reading, dispatching>>
clientVars == <<waitForAnswers, pendingAnswers, keys, pendingEvents, sinks, socketTimeout, raised>>
serverVars == <<requests, stream, subscribed, events>>
histVars == <<lastId, unclaimed, answers, delivered>>
vars == <<callVars, clientVars, serverVars, histVars>>

\* A ReceiveAnswer: its two parameters, the command it reads for, and where it returns to.
Receive(wait, timed, id, back) == [wait |-> wait, timed |-> timed, id |-> id, back |-> back]
\* A DispatchPendingEvents: the position in keys, the index in that handle's events, the
\* max left and the number of keys at the start.
Dispatch(k, i, max, size) == [k |-> k, i |-> i, max |-> max, size |-> size]
Idle == Dispatch(0, 0, 0, 0)

Init ==
    /\ \E x \in Scenarios : calls = x.calls /\ sinkCalls = x.sinkCalls
    /\ pc = "idle"
    /\ reading = Receive(TRUE, FALSE, 0, "idle")
    /\ dispatching = Idle
    /\ waitForAnswers = TRUE
    /\ pendingAnswers = 0
    /\ keys = <<>>
    /\ pendingEvents = [h \in Handles |-> <<>>]
    /\ sinks = {}
    /\ socketTimeout = FALSE
    /\ raised = FALSE
    /\ requests = <<>> /\ stream = <<>> /\ subscribed = {}
    /\ lastId = 0 /\ events = 0
    /\ unclaimed = <<>> /\ answers = <<>> /\ delivered = <<>>

Call == Head(calls)
Return == pc' = "idle" /\ calls' = Tail(calls)

-----------------------------------------------------------------------------
(* Sending commands. *)

\* sendall of one command.
Transmit(op, arg) ==
    /\ lastId' = lastId + 1
    /\ requests' = Append(requests, [id |-> lastId', op |-> op, arg |-> arg])

\* SendCommand, and SendCommandWithTimeout for a ping: wait for the answer, or leave it
\* and return.  Subscribe adds the sink first, group_subscribe when the server names a
\* container; Unsubscribe removes it when SendCommand is back.
SendCommand ==
    /\ pc = "idle" /\ calls # <<>> /\ Call.op \in Commands
    /\ Transmit(Call.op, Call.arg)
    /\ IF waitForAnswers
       THEN /\ pc' = "receive"
            /\ reading' = Receive(TRUE, Call.op = "ping", lastId', "return")
            /\ UNCHANGED <<calls, pendingAnswers, unclaimed>>
       ELSE /\ Return
            /\ pendingAnswers' = pendingAnswers + 1
            /\ unclaimed' = Append(unclaimed, lastId')
            /\ UNCHANGED reading
    /\ sinks' = CASE Call.op = "subscribe" -> sinks \cup {Call.arg}
                  [] Call.op = "unsubscribe" /\ ~waitForAnswers -> sinks \ {Call.arg}
                  [] OTHER -> sinks
    /\ UNCHANGED <<sinkCalls, dispatching, waitForAnswers, keys, pendingEvents, socketTimeout,
                   raised, stream, subscribed, events, answers, delivered>>

CommandDoneForgetting ==  \* mutant: every command removes the sinks of its handle
    /\ pc = "return"
    /\ Return
    /\ sinks' = sinks \ {Call.arg}
    /\ UNCHANGED <<sinkCalls, reading, dispatching, waitForAnswers, pendingAnswers, keys,
                   pendingEvents, socketTimeout, raised, serverVars, histVars>>

CommandDone ==
    /\ pc = "return"
    /\ Return
    /\ sinks' = IF Call.op = "unsubscribe" THEN sinks \ {Call.arg} ELSE sinks
    /\ UNCHANGED <<sinkCalls, reading, dispatching, waitForAnswers, pendingAnswers, keys,
                   pendingEvents, socketTimeout, raised, serverVars, histVars>>

CreateAtOnce ==  \* mutant: the pending answers are not received first
    /\ pc \in {"idle", "drain"} /\ calls # <<>> /\ Call.op = "create"
    /\ Transmit("create", Call.arg)
    /\ pc' = "receive" /\ reading' = Receive(TRUE, FALSE, lastId', "return")
    /\ UNCHANGED <<calls, sinkCalls, dispatching, waitForAnswers, pendingAnswers, keys,
                   pendingEvents, sinks, socketTimeout, raised, stream, subscribed, events,
                   unclaimed, answers, delivered>>

\* __CreateOropen, by SendCommandAndForceAnswer: the answers left for later come first.
CreateOrOpen ==
    /\ pc \in {"idle", "drain"} /\ calls # <<>> /\ Call.op = "create"
    /\ pc' = "receive"
    /\ IF ~waitForAnswers /\ pendingAnswers > 0
       THEN /\ pendingAnswers' = pendingAnswers - 1
            /\ reading' = Receive(TRUE, FALSE, Head(unclaimed), "drain")
            /\ unclaimed' = Tail(unclaimed)
            /\ UNCHANGED <<lastId, requests>>
       ELSE /\ Transmit("create", Call.arg)
            /\ reading' = Receive(TRUE, FALSE, lastId', "return")
            /\ UNCHANGED <<pendingAnswers, unclaimed>>
    /\ UNCHANGED <<calls, sinkCalls, dispatching, waitForAnswers, keys, pendingEvents, sinks,
                   socketTimeout, raised, stream, subscribed, events, answers, delivered>>

\* The program stops waiting for answers.
SetAsync ==
    /\ pc = "idle" /\ calls # <<>> /\ Call.op = "async"
    /\ waitForAnswers' = FALSE
    /\ Return
    /\ UNCHANGED <<sinkCalls, reading, dispatching, pendingAnswers, keys, pendingEvents, sinks,
                   socketTimeout, raised, serverVars, histVars>>

-----------------------------------------------------------------------------
(* ReceiveAnswer. *)

HandleEventFirst(h, n) ==  \* mutant: the newest event is put first
    /\ keys' = IF Contains(keys, h) THEN keys ELSE Append(keys, h)
    /\ pendingEvents' = [pendingEvents EXCEPT ![h] = <<n>> \o @]

HandleEvent(h, n) ==
    /\ keys' = IF Contains(keys, h) THEN keys ELSE Append(keys, h)
    /\ pendingEvents' = [pendingEvents EXCEPT ![h] = Append(@, n)]

OnlyAnswer(line) == line.kind = "answer"  \* mutant: the end of a query does not end the call
EndsCall(line) == line.kind \in {"answer", "end"}

\* One line of the stream.  The first answer line ends the call, whosever answer it is; the
\* lines of a query are collected up to its end.
ReceiveAnswer ==
    /\ pc = "receive" /\ stream # <<>>
    /\ stream' = Tail(stream)
    /\ LET line == Head(stream)
       IN  /\ CASE EndsCall(line) ->
                     /\ answers' = IF reading.wait THEN Append(answers, <<reading.id, line.id>>)
                                                   ELSE answers
                     /\ pc' = reading.back
                     /\ UNCHANGED <<keys, pendingEvents, sinks>>
                [] line.kind = "event" ->
                     /\ HandleEvent(line.handle, line.id)
                     /\ pc' = IF reading.wait THEN pc ELSE reading.back
                     /\ UNCHANGED <<answers, sinks>>
                [] line.kind = "group_container" ->
                     /\ sinks' = sinks \cup {line.handle}
                     /\ UNCHANGED <<pc, answers, keys, pendingEvents>>
                [] OTHER -> UNCHANGED <<pc, answers, keys, pendingEvents, sinks>>
    /\ UNCHANGED <<calls, sinkCalls, reading, dispatching, waitForAnswers, pendingAnswers,
                   socketTimeout, raised, requests, subscribed, events, lastId, unclaimed,
                   delivered>>

\* __ReceiveLine returns None after a timeout.  Only a caller that gave the timeout itself
\* looks at that; under RunLoop's the None is split like a line, and that raises.
Timeout ==
    /\ pc = "receive" /\ stream = <<>> /\ (reading.timed \/ socketTimeout)
    /\ IF reading.timed THEN pc' = reading.back /\ UNCHANGED <<raised, calls>>
                        ELSE raised' = TRUE /\ Return
    /\ UNCHANGED <<sinkCalls, reading, dispatching, waitForAnswers, pendingAnswers, keys,
                   pendingEvents, sinks, socketTimeout, serverVars, histVars>>

-----------------------------------------------------------------------------
(* Dispatching. *)

\* DispatchPendingEvents, DispatchPendingEventAndReceiveNext, and an iteration of RunLoop.
StartDispatch ==
    /\ pc = "idle" /\ calls # <<>> /\ Call.op \in {"dispatch", "next", "loop"}
    /\ pc' = "dispatch"
    /\ dispatching' =
          Dispatch(1, 0, IF Call.op = "dispatch" THEN Call.arg ELSE Everything, Len(keys))
    /\ socketTimeout' = (socketTimeout \/ Call.op = "loop")
    /\ UNCHANGED <<calls, sinkCalls, reading, waitForAnswers, pendingAnswers, keys,
                   pendingEvents, sinks, raised, serverVars, histVars>>

\* The handle under way, and the events its loop has still to look at: the list may grow
\* while a sink runs.
This == keys[dispatching.k]
InLoop == dispatching.i < Len(pendingEvents[This]) /\ dispatching.i < dispatching.max

\* A sink gets an event, and may send a command and wait for its answer.
CallSink ==
    /\ pc = "dispatch" /\ dispatching.k <= Len(keys) /\ InLoop
    /\ IF This \in sinks
       THEN /\ delivered' = Append(delivered, <<This, pendingEvents[This][dispatching.i + 1]>>)
            /\ dispatching' = [dispatching EXCEPT !.i = @ + 1]
            /\ IF sinkCalls
               THEN /\ Transmit("command", 0)
                    /\ pc' = "receive"
                    /\ reading' = Receive(TRUE, FALSE, lastId', "dispatch")
               ELSE UNCHANGED <<lastId, requests, pc, reading>>
            /\ sinkCalls' = FALSE
            /\ UNCHANGED <<calls, raised>>
       ELSE /\ raised' = TRUE  \* KeyError
            /\ Return
            /\ UNCHANGED <<delivered, dispatching, lastId, requests, reading, sinkCalls>>
    /\ UNCHANGED <<waitForAnswers, pendingAnswers, keys, pendingEvents, sinks, socketTimeout,
                   stream, subscribed, events, unclaimed, answers>>

\* What is left of a handle's list, and what index holds, after its loop: an index that ran
\* to the end of the list is that of its last element.
Dispatched(len, i, max) ==
    CASE len = 0 -> 0
      [] max > len -> len
      [] i < len -> i
      [] OTHER -> len - 1

\* The next handle, unless a key was added to the dictionary or max is reached.
NextHandle ==
    /\ pc = "dispatch" /\ dispatching.k <= Len(keys) /\ ~InLoop
    /\ LET len == Len(pendingEvents[This])
           n == Dispatched(len, dispatching.i, dispatching.max)
           left == dispatching.max - n
       IN  /\ pendingEvents' = [pendingEvents EXCEPT ![This] = SubSeq(@, n + 1, len)]
           /\ IF left > 0 /\ Len(keys) # dispatching.size
              THEN raised' = TRUE /\ Return /\ UNCHANGED dispatching  \* RuntimeError
              ELSE /\ dispatching' = Dispatch(IF left > 0 THEN dispatching.k + 1 ELSE Len(keys) + 1,
                                              0, left, dispatching.size)
                   /\ UNCHANGED <<raised, pc, calls>>
    /\ UNCHANGED <<sinkCalls, reading, waitForAnswers, pendingAnswers, keys, sinks,
                   socketTimeout, serverVars, histVars>>

EndDispatch ==
    /\ pc = "dispatch" /\ dispatching.k > Len(keys)
    /\ dispatching' = Idle
    /\ IF Call.op = "dispatch"
       THEN Return /\ UNCHANGED reading
       ELSE /\ pc' = "receive"
            /\ reading' = Receive(FALSE, FALSE, 0, "return")
            /\ UNCHANGED calls
    /\ UNCHANGED <<sinkCalls, clientVars, serverVars, histVars>>

-----------------------------------------------------------------------------
(* The server, as the client sees it. *)

ServerAnswers ==
    /\ requests # <<>>
    /\ requests' = Tail(requests)
    /\ LET q == Head(requests)
           line(kind) == [kind |-> kind, id |-> q.id, handle |-> q.arg]
       IN  /\ stream' = stream \o
                 CASE q.op = "query" -> <<line("query"), line("item"), line("end")>>
                   [] q.op = "group_subscribe" -> <<line("answer"), line("group_container")>>
                   [] OTHER -> <<line("answer")>>
           /\ subscribed' = CASE q.op \in {"subscribe", "group_subscribe"} -> subscribed \cup {q.arg}
                              [] q.op = "unsubscribe" -> subscribed \ {q.arg}
                              [] OTHER -> subscribed
    /\ UNCHANGED <<callVars, clientVars, events, histVars>>

ServerPublishes(h) ==
    /\ h \in subscribed /\ events < MaxEvents
    /\ events' = events + 1
    /\ stream' = Append(stream, [kind |-> "event", id |-> events', handle |-> h])
    /\ UNCHANGED <<callVars, clientVars, requests, subscribed, histVars>>

-----------------------------------------------------------------------------

Client ==
    \/ SendCommand \/ CommandDone \/ CreateOrOpen \/ SetAsync
    \/ ReceiveAnswer
    \/ StartDispatch \/ CallSink \/ NextHandle \/ EndDispatch

Next ==
    \/ Client \/ Timeout
    \/ ServerAnswers \/ \E h \in Handles : ServerPublishes(h)

\* The program runs and the server answers; events and timeouts come when they come.
Spec == Init /\ [][Next]_vars /\ WF_vars(Client) /\ WF_vars(ServerAnswers)

-----------------------------------------------------------------------------
(* Properties. *)

\* A call returns the answer to its own command, also when answers were left for later.
AnswersMatch == \A n \in DOMAIN answers : answers[n][1] = answers[n][2]

OfHandle(h) == SelectSeq(delivered, LAMBDA e : e[1] = h)

\* The sinks get the events of a container once each and in the order of the server, and an
\* event the client has read was passed to a sink or still waits for one.
EventsDelivered ==
    /\ \A h \in Handles : \A m, n \in DOMAIN OfHandle(h) :
          m < n => OfHandle(h)[m][2] < OfHandle(h)[n][2]
    /\ \A n \in 1 .. events :
          \/ \E m \in DOMAIN stream : stream[m].kind = "event" /\ stream[m].id = n
          \/ \E m \in DOMAIN delivered : delivered[m][2] = n
          \/ \E h \in Handles : Contains(pendingEvents[h], n)

\* No call ends with an exception.
NoneRaised == ~raised

\* The program gets through its calls, unless it waits for an event that never comes.
CallsReturn ==
    <>(calls = <<>>) \/ <>[](pc = "receive" /\ ~reading.wait)
==============================================================================
