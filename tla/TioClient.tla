------------------------------- MODULE TioClient -------------------------------
(***************************************************************************)
(* The C client: a program that calls into it, the connections it reads    *)
(* from, and the servers behind them.                                      *)
(*                                                                         *)
(* Answers and events share a connection.  A call that waits for its       *)
(* answer dispatches the events that come before it, so callbacks run in   *)
(* the middle of calls and may make calls of their own: the client's state *)
(* is a stack.  Servers answer requests in order and send events in        *)
(* between (TioTcpServer.cpp); Unsubscribe is empty, so a subscription     *)
(* lasts as long as the session.                                           *)
(***************************************************************************)
EXTENDS Naturals, Sequences, FiniteSets, SequencesExt

CONSTANTS
    Main, Slaves,  \* the connection the program opened; the servers of the cluster
    Names,         \* containers
    Scenarios,     \* what the program and the servers do: see ScenariosAssumption
    MaxHandles     \* bound on the handles of a connection

Calls ==
    {<<"open", n>> : n \in Names}
    \cup {"subscribe", "unsubscribe", "get", "set", "close"} \X (1 .. MaxHandles)
    \cup {<<"group", start>> : start \in BOOLEAN}
    \cup {<<"poll">>, <<"begin">>, <<"finish">>, <<"disconnect">>}

ASSUME ScenariosAssumption ==
    /\ Main \notin Slaves
    /\ \A x \in Scenarios :
          /\ x.script \in Seq(Calls)   \* the calls of the program
          /\ x.onEvent \in Seq({"get", "close"} \X (1 .. MaxHandles))
                                       \* the calls its callbacks make, one each
          /\ x.events \in Nat          \* how many events the servers send
          /\ x.home \in [Names -> {Main, "nowhere"} \cup Slaves]
          /\ x.clustered \in BOOLEAN   \* Main has a __meta__/clusters
          /\ x.members \subseteq Names \* the group's containers, on Main
          /\ x.failures \in BOOLEAN    \* connections may break
          \* tio_group_subscribe on a cluster is not modelled
          /\ x.clustered => \A call \in Range(x.script) : call[1] # "group"

Conns == {Main} \cup Slaves

VARIABLES
    \* the program
    scenario, script, onEvent,
    stack,              \* the calls in progress, innermost first
    \* TIO_CONNECTION
    containers,         \* handle -> index in objects, 0 for NULL
    eventList,          \* event_list_queue_end
    pendingEventCount,  \* pending_event_count: queued events, or requests of a batch
    waitForAnswer,      \* wait_for_answer of Main
    clusters,           \* clusters_connections of Main
    objects,            \* the TIO_CONTAINERs made so far
    fault,              \* what the client did that ends the program, "none" so far
    \* the servers and the network
    requests, stream, lost,
    handleOf, lastHandle,
    pendingSubscriptions,  \* <<handle, announced>>: those the publisher did not reach yet
    subscribed, eventsLeft,
    \* history
    asked,              \* number of requests
    batch,              \* those of the batch
    taken,              \* <<request, the request whose answer it took>>
    dropped             \* events that found no callback

programVars == <<scenario, script, onEvent>>
connVars == <<containers, eventList, pendingEventCount, waitForAnswer, clusters>>
netVars == <<requests, stream, lost>>
serverVars == <<handleOf, lastHandle, pendingSubscriptions, subscribed, eventsLeft>>
histVars == <<asked, batch, taken, dropped>>
vars == <<programVars, stack, connVars, objects, fault, netVars, serverVars, histVars>>

Meta == "__meta__/clusters"
NoHandles == [n \in {} |-> 0]

TypeOK ==
    /\ script \in Seq(Calls) /\ onEvent \in Seq(Calls)
    /\ containers \in [Conns -> [1 .. MaxHandles -> 0 .. Len(objects)]]
    /\ pendingEventCount \in [Conns -> Nat]
    /\ waitForAnswer \in BOOLEAN
    /\ Range(clusters) \subseteq Slaves
    /\ \A o \in DOMAIN objects :
          /\ objects[o].conn \in Conns
          /\ objects[o].handle \in 1 .. MaxHandles
          /\ objects[o].callback \in {"none", "set", "unset"}
    /\ fault \in {"none", "null container", "freed container", "double free", "assert"}
    /\ \A c \in Conns : lastHandle[c] \in 0 .. MaxHandles /\ subscribed[c] \subseteq 1 .. MaxHandles

Container(c, h, group) ==
    [conn |-> c, handle |-> h, group |-> group, callback |-> "none", freed |-> FALSE]

\* tio_connect has succeeded, and looked for __meta__/clusters.
Init ==
    /\ scenario \in Scenarios
    /\ script = scenario.script /\ onEvent = scenario.onEvent
    /\ stack = <<>>
    /\ objects = IF scenario.clustered THEN <<Container(Main, 1, FALSE)>> ELSE <<>>
    /\ containers = [c \in Conns |-> [h \in 1 .. MaxHandles |->
                        IF scenario.clustered /\ c = Main /\ h = 1 THEN 1 ELSE 0]]
    /\ eventList = [c \in Conns |-> <<>>]
    /\ pendingEventCount = [c \in Conns |-> 0]
    /\ waitForAnswer = TRUE
    /\ clusters = <<>>
    /\ fault = "none"
    /\ requests = [c \in Conns |-> <<>>] /\ stream = [c \in Conns |-> <<>>]
    /\ lost = [c \in Conns |-> FALSE]
    /\ handleOf = [c \in Conns |->
                      IF scenario.clustered /\ c = Main THEN [n \in {Meta} |-> 1] ELSE NoHandles]
    /\ lastHandle = [c \in Conns |-> IF scenario.clustered /\ c = Main THEN 1 ELSE 0]
    /\ pendingSubscriptions = [c \in Conns |-> {}] /\ subscribed = [c \in Conns |-> {}]
    /\ eventsLeft = scenario.events
    /\ asked = 0 /\ batch = <<>> /\ taken = <<>> /\ dropped = <<>>

-----------------------------------------------------------------------------
(* Pieces of the calls. *)

\* A call that waits: its phase, the connection it reads from now, its request.
Frame(op, arg, phase, c) ==
    [op |-> op, arg |-> arg, phase |-> phase, at |-> c, id |-> asked + 1]

DispatchFrame(c) == [op |-> "dispatch", arg |-> 0, phase |-> "", at |-> c, id |-> 0]

\* pr1_message_send; a connection that broke takes nothing.
Request(c, op, arg) ==
    /\ asked' = asked + 1
    /\ requests' = IF lost[c] THEN requests
                   ELSE [requests EXCEPT ![c] = Append(@, [id |-> asked + 1, op |-> op, arg |-> arg])]

Register(c, h, group) ==
    /\ objects' = Append(objects, Container(c, h, group))
    /\ containers' = [containers EXCEPT ![c][h] = Len(objects) + 1]

Free(o) == objects' = [objects EXCEPT ![o].freed = TRUE]

-----------------------------------------------------------------------------
(* The beginning of a call; below are the frames it returns to. *)

Open(n, below) ==
    /\ Request(Main, "open", n)
    /\ stack' = <<Frame("open", n, "main", Main)>> \o below
    /\ UNCHANGED <<objects, connVars, fault, batch>>

\* tio_container_get and the like, tio_close: send and wait.
SendAndWait(op, o, below) ==
    /\ Request(objects[o].conn, op, objects[o].handle)
    /\ stack' = <<Frame(op, o, "answer", objects[o].conn)>> \o below
    /\ UNCHANGED batch

Query(op, o, below) == SendAndWait(op, o, below) /\ UNCHANGED <<objects, connVars, fault>>

InputForgettingCallback(op, o, callback, below) ==  \* mutant: a batch sets no callback
    LET c == objects[o].conn
        batched == c = Main /\ ~waitForAnswer
    IN  /\ IF batched
           THEN /\ Request(c, op, objects[o].handle)
                /\ batch' = Append(batch, asked + 1)
                /\ pendingEventCount' = [pendingEventCount EXCEPT ![c] = @ + 1]
                /\ stack' = below
                /\ UNCHANGED <<containers, eventList, waitForAnswer, clusters, fault>>
           ELSE SendAndWait(op, o, below) /\ UNCHANGED <<connVars, fault>>
        /\ objects' = [objects EXCEPT ![o].callback = callback]

\* tio_container_input_command: in a batch nobody waits, and the request is
\* counted among the pending events.
InputCommand(op, o, callback, below) ==
    LET c == objects[o].conn
        batched == c = Main /\ ~waitForAnswer
        subscribes == batched /\ op = "subscribe"
    IN  /\ IF batched
           THEN /\ Request(c, op, objects[o].handle)
                /\ batch' = Append(batch, asked + 1)
                /\ pendingEventCount' = [pendingEventCount EXCEPT ![c] = @ + 1]
                /\ stack' = below
                /\ UNCHANGED <<containers, eventList, waitForAnswer, clusters, fault>>
           ELSE SendAndWait(op, o, below) /\ UNCHANGED <<connVars, fault>>
        /\ objects' = [objects EXCEPT ![o].callback = IF subscribes THEN "set" ELSE callback]

GroupSubscribe(start, below) ==
    /\ Request(Main, "group", start)
    /\ stack' = <<Frame("group", start, "answer", Main)>> \o below
    /\ UNCHANGED <<objects, connVars, fault, batch>>

Poll(below) ==
    /\ stack' = <<[Frame("poll", 0, "event", Main) EXCEPT !.id = 0]>> \o below
    /\ UNCHANGED <<objects, connVars, fault, requests, asked, batch>>

BeginBatch(below) ==
    /\ fault' = IF pendingEventCount[Main] = 0 /\ waitForAnswer THEN fault ELSE "assert"
    /\ waitForAnswer' = FALSE
    /\ stack' = below
    /\ UNCHANGED <<objects, containers, eventList, pendingEventCount, clusters, requests, asked, batch>>

FinishBatch(below) ==
    /\ waitForAnswer' = TRUE
    /\ stack' = IF pendingEventCount[Main] = 0 THEN below
                ELSE <<[Frame("finish", 0, "answer", Main) EXCEPT !.id = batch[1]]>> \o below
    /\ UNCHANGED <<objects, containers, eventList, pendingEventCount, clusters, fault,
                   requests, asked, batch>>

\* Frees whatever the tables of the connection and of its cluster still hold.
Disconnect ==
    LET held == {containers[c][h] : c \in {Main} \cup Range(clusters), h \in 1 .. MaxHandles} \ {0}
    IN  /\ fault' = IF \E o \in held : objects[o].freed THEN "double free" ELSE fault
        /\ objects' = [o \in DOMAIN objects |->
                          IF o \in held THEN [objects[o] EXCEPT !.freed = TRUE] ELSE objects[o]]
        /\ stack' = <<>>
        /\ UNCHANGED <<connVars, requests, asked, batch>>

\* The program makes no call on a container it did not get.
Usable(call) ==
    call[1] \in {"get", "set", "subscribe", "unsubscribe", "close"}
    => call[2] \in DOMAIN objects /\ ~objects[call[2]].freed

Enter(call, below) ==
    \/ call[1] = "open" /\ Open(call[2], below)
    \/ call[1] = "get" /\ Query("get", call[2], below)
    \/ call[1] = "close" /\ Query("close", call[2], below)
    \/ call[1] \in {"set", "subscribe"}
       /\ InputCommand(call[1], call[2], objects[call[2]].callback, below)
    \/ call[1] = "unsubscribe" /\ InputCommand(call[1], call[2], "unset", below)
    \/ call[1] = "group" /\ GroupSubscribe(call[2], below)
    \/ call[1] = "poll" /\ Poll(below)
    \/ call[1] = "begin" /\ BeginBatch(below)
    \/ call[1] = "finish" /\ FinishBatch(below)
    \/ call[1] = "disconnect" /\ Disconnect

Call ==
    /\ stack = <<>> /\ script # <<>> /\ fault = "none"
    /\ script' = Tail(script)
    /\ IF Usable(Head(script))
       THEN Enter(Head(script), <<>>)
       ELSE UNCHANGED <<stack, objects, connVars, fault, requests, asked, batch>>
    /\ UNCHANGED <<scenario, onEvent, stream, lost, serverVars, taken, dropped>>

-----------------------------------------------------------------------------
(* Receiving. *)

ReadableData(c) == stream[c] # <<>>  \* mutant: the end of the stream goes unseen

Readable(c) == stream[c] # <<>> \/ lost[c]

\* pr1_message_receive_from_any_cluster: the connection itself, or else the
\* first of its cluster with something to read.
Sources(c) ==
    SelectSeq(<<c>> \o (IF c = Main THEN clusters ELSE <<>>), Readable)

Return == stack' = Tail(stack)

\* The call reads from c from now on: tio_receive_until_not_event passes the
\* address of its own parameter.
ReadOn(c) == <<[Head(stack) EXCEPT !.at = c]>> \o Tail(stack)

\* on_event_receive: max_pending_event_count is 0 and nobody sets it, so the
\* event is dispatched at once.
OnEventReceive(c, m, below) ==
    /\ eventList' = [eventList EXCEPT ![c] = Append(@, m)]
    /\ pendingEventCount' = [pendingEventCount EXCEPT ![c] = @ + 1]
    /\ stack' = <<DispatchFrame(c)>> \o below
    /\ UNCHANGED <<containers, objects, waitForAnswer, clusters, requests, asked, batch, taken>>

OnGroupNewContainer(c, m, below) ==
    /\ Register(c, m.handle, TRUE)
    /\ stack' = below
    /\ UNCHANGED <<eventList, pendingEventCount, waitForAnswer, clusters, requests, asked, batch, taken>>

\* The next phase of an open: one more request, to c.
OpenContinues(f, phase, c, op, arg) ==
    /\ Request(c, op, arg)
    /\ stack' = <<Frame("open", f.arg, phase, c)>> \o Tail(stack)
    /\ UNCHANGED <<objects, containers>>

\* tio_connect_cluster once connected: tio_connect ignores whether the slave
\* has a __meta__/clusters; the open goes on there.
ConnectedCluster(f) ==
    /\ clusters' = Append(clusters, f.at)
    /\ OpenContinues(f, "slave", f.at, "open", f.arg)

OpenAnswered(f, m) ==
    \/ /\ m.ok /\ f.phase \in {"main", "slave"}
       /\ Register(IF f.phase = "main" THEN Main ELSE f.at, m.handle, FALSE)
       /\ Return /\ UNCHANGED <<clusters, requests, asked>>
    \/ /\ ~m.ok /\ f.phase = "main" /\ scenario.clustered
       /\ OpenContinues(f, "locate", Main, "locate", f.arg)
       /\ UNCHANGED clusters
    \/ /\ m.ok /\ f.phase = "locate" /\ m.where \in Range(clusters)
       /\ OpenContinues(f, "slave", m.where, "open", f.arg)
       /\ UNCHANGED clusters
    \/ /\ m.ok /\ f.phase = "locate" /\ m.where \notin Range(clusters) /\ ~lost[m.where]
       /\ OpenContinues(f, "connect", m.where, "open", Meta)
       /\ UNCHANGED clusters
    \/ f.phase = "connect" /\ ConnectedCluster(f)
    \/ /\ \/ ~m.ok /\ (f.phase \in {"locate", "slave"} \/ (f.phase = "main" /\ ~scenario.clustered))
          \/ m.ok /\ f.phase = "locate" /\ m.where \notin Range(clusters) /\ lost[m.where]
       /\ Return /\ UNCHANGED <<objects, containers, clusters, requests, asked>>

FinishOneShort(f) ==  \* mutant: an answer is left behind
    IF f.arg + 2 < pendingEventCount[Main]
    THEN /\ stack' = <<[f EXCEPT !.arg = @ + 1, !.at = Main, !.id = batch[f.arg + 2]]>> \o Tail(stack)
         /\ UNCHANGED <<pendingEventCount, batch>>
    ELSE /\ pendingEventCount' = [pendingEventCount EXCEPT ![Main] = 0]
         /\ batch' = <<>>
         /\ Return

\* The loop of tio_finish_network_batch, which looks at no result.
FinishContinues(f) ==
    IF f.arg + 1 < pendingEventCount[Main]
    THEN /\ stack' = <<[f EXCEPT !.arg = @ + 1, !.at = Main, !.id = batch[f.arg + 2]]>> \o Tail(stack)
         /\ UNCHANGED <<pendingEventCount, batch>>
    ELSE /\ pendingEventCount' = [pendingEventCount EXCEPT ![Main] = 0]
         /\ batch' = <<>>
         /\ Return

CloseKeepingEntry(o, ok) ==  \* mutant: the table keeps the container
    UNCHANGED containers /\ Free(o) /\ Return

CloseAnswered(o, ok) ==
    /\ containers' = IF ok THEN [containers EXCEPT ![objects[o].conn][objects[o].handle] = 0]
                     ELSE containers
    /\ Free(o)
    /\ Return

Answered(f, m) ==
    /\ taken' = Append(taken, <<f.id, m.id>>)
    /\ \/ /\ f.op = "open" /\ OpenAnswered(f, m)
          /\ UNCHANGED <<pendingEventCount, batch>>
       \/ /\ f.op = "finish" /\ FinishContinues(f)
          /\ UNCHANGED <<objects, containers, clusters, requests, asked>>
       \/ /\ f.op = "close" /\ CloseAnswered(f.arg, m.ok)
          /\ UNCHANGED <<pendingEventCount, batch, clusters, requests, asked>>
       \/ /\ f.op = "subscribe" /\ m.ok
          /\ objects' = [objects EXCEPT ![f.arg].callback = "set"]
          /\ Return /\ UNCHANGED <<containers, pendingEventCount, batch, clusters, requests, asked>>
       \/ /\ f.op \in {"get", "set", "unsubscribe", "group", "poll"} \/ (f.op = "subscribe" /\ ~m.ok)
          /\ Return /\ UNCHANGED <<objects, containers, pendingEventCount, batch, clusters, requests, asked>>
    /\ UNCHANGED <<eventList, waitForAnswer>>

\* One message off the connection, while a call waits.
Receive ==
    /\ stack # <<>> /\ Head(stack).op # "dispatch" /\ fault = "none"
    /\ LET f == Head(stack)
           from == Sources(f.at)
           c == Head(from)
           m == Head(stream[c])
           \* an event or an announcement ends a poll; another call goes on waiting
           below == IF f.op = "poll" THEN Tail(stack) ELSE ReadOn(c)
       IN  /\ from # <<>> /\ stream[c] # <<>>
           /\ stream' = [stream EXCEPT ![c] = Tail(@)]
           /\ \/ m.kind = "event" /\ OnEventReceive(c, m, below)
              \/ m.kind = "container" /\ OnGroupNewContainer(c, m, below)
              \/ m.kind = "answer" /\ Answered([f EXCEPT !.at = c], m)
    /\ UNCHANGED <<programVars, fault, lost, serverVars, dropped>>

\* The connection broke: the call fails, but tio_connect does not look at how
\* its open ended, nor tio_finish_network_batch at its answers.
ReceiveFails ==
    /\ stack # <<>> /\ Head(stack).op # "dispatch" /\ fault = "none"
    /\ LET f == Head(stack)
           from == Sources(f.at)
       IN  /\ from # <<>> /\ stream[Head(from)] = <<>>
           /\ \/ /\ f.op = "open" /\ f.phase = "connect" /\ ConnectedCluster(f)
                 /\ UNCHANGED <<pendingEventCount, batch>>
              \/ /\ f.op = "finish" /\ FinishContinues(f)
                 /\ UNCHANGED <<objects, containers, clusters, requests, asked>>
              \/ /\ f.op = "close" /\ CloseAnswered(f.arg, FALSE)
                 /\ UNCHANGED <<pendingEventCount, batch, clusters, requests, asked>>
              \/ /\ f.op \notin {"finish", "close"} /\ f.phase # "connect"
                 /\ Return
                 /\ UNCHANGED <<objects, containers, pendingEventCount, batch, clusters, requests, asked>>
    /\ UNCHANGED <<programVars, eventList, waitForAnswer, fault, stream, lost, serverVars,
                   taken, dropped>>

\* Only tio_receive_next_pending_event waits with a timeout.
PollTimesOut ==
    /\ stack # <<>> /\ Head(stack).op = "poll" /\ fault = "none"
    /\ Sources(Head(stack).at) = <<>>
    /\ Return
    /\ UNCHANGED <<programVars, connVars, objects, fault, netVars, serverVars, histVars>>

-----------------------------------------------------------------------------
(* tio_dispatch_pending_events *)

\* An event goes to its container's callback, or to the group's; the callback
\* may make a call.  The code looks into the container whatever the table holds.
DispatchEvent ==
    LET c == Head(stack).at
        e == Head(eventList[c])
        o == containers[c][e.handle]
        alive == o # 0 /\ ~objects[o].freed
        called == alive /\ (objects[o].group \/ objects[o].callback = "set")
        calls == called /\ onEvent # <<>> /\ Usable(Head(onEvent))
    IN  /\ stack # <<>> /\ Head(stack).op = "dispatch" /\ fault = "none"
        /\ eventList[c] # <<>>
        /\ eventList' = [eventList EXCEPT ![c] = Tail(@)]
        /\ pendingEventCount' = [pendingEventCount EXCEPT ![c] = @ - 1]
        /\ fault' = IF alive THEN fault ELSE IF o = 0 THEN "null container" ELSE "freed container"
        \* the program asked for no more of them once it unsubscribed
        /\ dropped' = IF alive /\ ~called /\ objects[o].callback = "none"
                      THEN Append(dropped, e.n) ELSE dropped
        /\ onEvent' = IF called /\ onEvent # <<>> THEN Tail(onEvent) ELSE onEvent
        /\ IF calls
           THEN SendAndWait(Head(onEvent)[1], Head(onEvent)[2], stack)
           ELSE UNCHANGED <<stack, requests, asked, batch>>
        /\ UNCHANGED <<scenario, script, containers, objects, waitForAnswer, clusters, stream, lost,
                       serverVars, taken>>

DispatchDone ==
    /\ stack # <<>> /\ Head(stack).op = "dispatch" /\ fault = "none"
    /\ eventList[Head(stack).at] = <<>>
    /\ Return
    /\ UNCHANGED <<programVars, connVars, objects, fault, netVars, serverVars, histVars>>

Dispatch == DispatchEvent \/ DispatchDone

-----------------------------------------------------------------------------
(* The servers. *)

Answer(r, ok, h, where) ==
    [kind |-> "answer", id |-> r.id, ok |-> ok, handle |-> h, where |-> where]

\* RegisterContainer: a name keeps its handle until it is closed, and no
\* handle is used again.
RegisterContainers(c, names) ==
    LET new == SetToSeq(names \ DOMAIN handleOf[c])
    IN  /\ handleOf' = [handleOf EXCEPT ![c] =
                [n \in DOMAIN @ \cup names |->
                    IF n \in DOMAIN @ THEN @[n]
                    ELSE lastHandle[c] + CHOOSE i \in DOMAIN new : new[i] = n]]
        /\ lastHandle' = [lastHandle EXCEPT ![c] = @ + Len(new)]

CloseContainerHandle(c, h) ==
    handleOf' = [handleOf EXCEPT ![c] = Restrict(@, {n \in DOMAIN @ : @[n] # h})]

Reply(c, r, ok, h, where) ==
    stream' = [stream EXCEPT ![c] = Append(@, Answer(r, ok, h, where))]

Registered(c, h) == \E n \in DOMAIN handleOf[c] : handleOf[c][n] = h

OnOpen(c, r) ==
    /\ r.op = "open"
    /\ IF r.arg \in Names /\ scenario.home[r.arg] = c
       THEN RegisterContainers(c, {r.arg}) /\ Reply(c, r, TRUE, handleOf'[c][r.arg], c)
       ELSE Reply(c, r, FALSE, 0, c) /\ UNCHANGED <<handleOf, lastHandle>>
    /\ UNCHANGED pendingSubscriptions

OnClose(c, r) ==
    /\ r.op = "close"
    /\ Reply(c, r, Registered(c, r.arg), 0, c)
    /\ CloseContainerHandle(c, r.arg)
    /\ UNCHANGED <<lastHandle, pendingSubscriptions>>

\* A read of __meta__/clusters: the server that has the container.
OnLocate(c, r) ==
    /\ r.op = "locate"
    /\ Reply(c, r, scenario.home[r.arg] \in Slaves, 0, scenario.home[r.arg])
    /\ UNCHANGED <<handleOf, lastHandle, pendingSubscriptions>>

\* The commands that change a container, GET, UNSUBSCRIBE.
OnContainerCommand(c, r) ==
    /\ r.op \in {"get", "set", "unsubscribe"}
    /\ Reply(c, r, Registered(c, r.arg), 0, c)
    /\ UNCHANGED <<handleOf, lastHandle, pendingSubscriptions>>

\* The answers to the two subscriptions are sent before the subscription is queued.
OnGroupSubscribe(c, r) ==
    /\ r.op = "group"
    /\ RegisterContainers(c, scenario.members)
    /\ Reply(c, r, TRUE, 0, c)
    /\ pendingSubscriptions' = [pendingSubscriptions EXCEPT ![c] =
                                    @ \cup {<<handleOf'[c][n], r.arg>> : n \in scenario.members}]

OnSubscribe(c, r) ==
    /\ r.op = "subscribe"
    /\ Reply(c, r, Registered(c, r.arg), 0, c)
    /\ pendingSubscriptions' = IF Registered(c, r.arg)
                               THEN [pendingSubscriptions EXCEPT ![c] = @ \cup {<<r.arg, FALSE>>}]
                               ELSE pendingSubscriptions
    /\ UNCHANGED <<handleOf, lastHandle>>

\* OnBinaryCommand.
ServerAnswers(c) ==
    /\ requests[c] # <<>> /\ ~lost[c]
    /\ requests' = [requests EXCEPT ![c] = Tail(@)]
    /\ LET r == Head(requests[c])
       IN  \/ OnOpen(c, r) \/ OnClose(c, r) \/ OnLocate(c, r) \/ OnContainerCommand(c, r)
           \/ OnGroupSubscribe(c, r) \/ OnSubscribe(c, r)
    /\ UNCHANGED <<programVars, stack, connVars, objects, fault, lost, subscribed, eventsLeft, histVars>>

\* The publisher reaches a subscription; it announces a group's container with
\* the snapshot, so only when the subscription has a start.
ServerSubscribes(c) ==
    /\ ~lost[c]
    /\ \E p \in pendingSubscriptions[c] :
          /\ pendingSubscriptions' = [pendingSubscriptions EXCEPT ![c] = @ \ {p}]
          /\ subscribed' = [subscribed EXCEPT ![c] = @ \cup {p[1]}]
          /\ stream' = IF p[2]
                       THEN [stream EXCEPT ![c] = Append(@, [kind |-> "container", handle |-> p[1]])]
                       ELSE stream
    /\ UNCHANGED <<programVars, stack, connVars, objects, fault, requests, lost,
                   handleOf, lastHandle, eventsLeft, histVars>>

\* A record of the snapshot, or an update by whoever writes.
ServerPublishes(c) ==
    /\ ~lost[c] /\ eventsLeft > 0
    /\ \E h \in subscribed[c] :
          stream' = [stream EXCEPT ![c] = Append(@, [kind |-> "event", handle |-> h, n |-> eventsLeft])]
    /\ eventsLeft' = eventsLeft - 1
    /\ UNCHANGED <<programVars, stack, connVars, objects, fault, requests, lost,
                   handleOf, lastHandle, pendingSubscriptions, subscribed, histVars>>

\* What was under way is lost, from some point on.
ConnectionBreaks(c) ==
    /\ scenario.failures /\ ~lost[c]
    /\ lost' = [lost EXCEPT ![c] = TRUE]
    /\ \E k \in 0 .. Len(stream[c]) : stream' = [stream EXCEPT ![c] = SubSeq(@, 1, k)]
    /\ UNCHANGED <<programVars, stack, connVars, objects, fault, requests, serverVars, histVars>>

\* The program has made its calls, or is no more.
Ended == fault # "none" \/ (script = <<>> /\ stack = <<>>)

Client == Call \/ Receive \/ ReceiveFails \/ PollTimesOut \/ Dispatch

Next ==
    \/ Client
    \/ \E c \in Conns : ServerAnswers(c) \/ ServerSubscribes(c) \/ ServerPublishes(c) \/ ConnectionBreaks(c)

\* The program's thread runs, and so do the servers' io threads.
Fairness == WF_vars(Client) /\ \A c \in Conns : WF_vars(ServerAnswers(c))

Spec == Init /\ [][Next]_vars /\ Fairness

-----------------------------------------------------------------------------
(* Properties. *)

\* The client never looks into a container that its table does not have or
\* that it has freed, frees none twice, and no assertion of it fails:
\* tio_dispatch_pending_events and tio_disconnect trust containers[].
NoFault == fault = "none"

\* A call takes the answer to its own request: answers carry no number, and
\* tio_receive_until_not_event takes the first message that is no event.
AnswersMatch == \A t \in Range(taken) : t[1] = t[2]

\* No event is thrown away for lack of a callback, unless the program
\* unsubscribed: the callback is in place before the first event is dispatched.
NoEventDropped == dropped = <<>>

\* Every call returns: tio_receive_until_not_event waits without a timeout.
CallsReturn == <>Ended
=============================================================================
