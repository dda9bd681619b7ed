----------------------------- MODULE MCTextClient -----------------------------
(***************************************************************************)
(* Instances of TextClient: programs of a few calls on two containers.     *)
(***************************************************************************)
EXTENDS TextClient

C(op, arg) == [op |-> op, arg |-> arg]
All == C("dispatch", Everything)
Program(cs) == [calls |-> cs, sinkCalls |-> FALSE]

Sound == {
    \* two subscriptions, a query among the events, and a ping that may be given up
    Program(<<C("subscribe", 1), C("subscribe", 2), C("query", 1), All, C("next", 0), C("ping", 0)>>),
    \* a group's container, and its last event before the end of the subscription
    Program(<<C("group_subscribe", 1), C("command", 1), C("next", 0), All, C("unsubscribe", 1)>>),
    \* answers left for later
    Program(<<C("async", 0), C("subscribe", 1), C("command", 1), C("command", 2), C("create", 2),
              C("command", 2), C("create", 1), All>>),
    \* a sink that sends a command
    [calls |-> <<C("subscribe", 1), C("next", 0), All, C("command", 1), All>>, sinkCalls |-> TRUE]}

\* Instances on which a property fails.
LateAnswer == {Program(<<C("ping", 0), C("command", 1)>>)}
ExactMax == {Program(<<C("subscribe", 1), C("next", 0), C("dispatch", 1), All>>)}
Unsubscribed == {Program(<<C("subscribe", 1), C("unsubscribe", 1), All>>)}
NewKey == {[calls |-> <<C("subscribe", 1), C("subscribe", 2), C("next", 0), All, All>>,
            sinkCalls |-> TRUE]}
Looping == {Program(<<C("subscribe", 1), C("loop", 0), C("loop", 0)>>)}
AnswerTaken == {Program(<<C("async", 0), C("command", 1), C("next", 0), C("create", 1)>>)}
==============================================================================
