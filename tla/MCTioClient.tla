----------------------------- MODULE MCTioClient -----------------------------
(***************************************************************************)
(* The programs TLC runs the C client with.                                *)
(***************************************************************************)
EXTENDS TioClient

CONSTANTS a, b, slave

Program(calls, events) ==
    [script |-> calls, onEvent |-> <<>>, events |-> events,
     home |-> [n \in Names |-> Main], clustered |-> FALSE, members |-> {b}, failures |-> FALSE]

Clustered(calls, events) ==
    [Program(calls, events) EXCEPT !.clustered = TRUE, !.home = [n \in Names |-> IF n = b THEN slave ELSE Main]]

\* A batch, between events.
Batch == Program(<< <<"open", a>>, <<"begin">>, <<"subscribe", 1>>, <<"set", 1>>, <<"set", 1>>,
                    <<"finish">>, <<"get", 1>>, <<"poll">>, <<"disconnect">> >>, 3)

\* A group, and a container of its own that is closed.
Group == Program(<< <<"open", a>>, <<"group", TRUE>>, <<"get", 1>>, <<"close", 1>>,
                    <<"poll">>, <<"poll">>, <<"disconnect">> >>, 3)

\* A container on another server of the cluster, reached through the main one.
Redirected == Clustered(<< <<"open", b>>, <<"subscribe", 2>>, <<"get", 2>>, <<"poll">>,
                           <<"unsubscribe", 2>>, <<"poll">>, <<"disconnect">> >>, 3)

\* The same with connections that break.
Broken == [Clustered(<< <<"open", b>>, <<"subscribe", 2>>, <<"poll">>, <<"get", 2>>,
                        <<"disconnect">> >>, 1) EXCEPT !.failures = TRUE]

BrokenBatch == [Batch EXCEPT !.failures = TRUE, !.events = 1]

\* A callback that reads.
Nested == [Program(<< <<"open", a>>, <<"subscribe", 1>>, <<"poll">>, <<"poll">>, <<"disconnect">> >>, 2)
           EXCEPT !.onEvent = << <<"get", 1>> >>]

Again == Clustered(<< <<"open", b>>, <<"open", b>>, <<"get", 3>>, <<"disconnect">> >>, 0)

\* A close that may fail, by a program that does not disconnect.
LastClose == [Program(<< <<"open", a>>, <<"close", 1>> >>, 0) EXCEPT !.failures = TRUE]

\* A container that no server has.
Missing == [Clustered(<< <<"open", b>>, <<"open", a>>, <<"get", 2>>, <<"disconnect">> >>, 0)
            EXCEPT !.home[b] = "nowhere"]

MissingAlone == [Missing EXCEPT !.clustered = FALSE]

Programs == {Batch, Group, Redirected, Broken, BrokenBatch, Nested, Again, LastClose,
             Missing, MissingAlone}

(* Programs that go wrong, and the property each violates. *)

\* CallsReturn: an event from the cluster makes the open wait there for good.
ClusterWait == {Clustered(<< <<"open", b>>, <<"subscribe", 2>>, <<"open", a>>, <<"disconnect">> >>, 1)}

\* AnswersMatch: an event that comes before an answer has its callback read.
NestedInCall ==
    {[Program(<< <<"open", a>>, <<"subscribe", 1>>, <<"get", 1>>, <<"poll">>, <<"disconnect">> >>, 1)
      EXCEPT !.onEvent = << <<"get", 1>> >>]}

\* NoFault: an event comes after the close of its container.
CloseThenEvent == {Program(<< <<"open", a>>, <<"subscribe", 1>>, <<"close", 1>>, <<"poll">> >>, 1)}

\* NoFault: a close fails, and so frees what tio_disconnect frees again.
CloseBroken == {[Program(<< <<"open", a>>, <<"close", 1>>, <<"disconnect">> >>, 0) EXCEPT !.failures = TRUE]}

\* NoFault: a group subscription without a start announces no container.
GroupWithoutStart == {Program(<< <<"group", FALSE>>, <<"poll">> >>, 1)}

\* NoEventDropped: a container opened again takes the place of the subscribed one.
OpenTwice == {Program(<< <<"open", a>>, <<"subscribe", 1>>, <<"open", a>>, <<"poll">> >>, 1)}
=============================================================================
