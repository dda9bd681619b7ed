----------------------------- MODULE MCBinarySend -----------------------------
(***************************************************************************)
(* Instances of BinarySend: calls of the publisher ("p"), the session's    *)
(* strand ("s") and another io thread ("r").  Message i has size Sizes[i]. *)
(***************************************************************************)
EXTENDS BinarySend

Sizes == <<1, 2, 1, 2, 1, 2, 1>>

\* Events, answers, and news of another session's group; the strand meets a read error.
Messaging ==
    [p |-> << <<"message", 1>>, <<"message", 2>> >>,
     s |-> << <<"message", 3>>, <<"invalidate">> >>,
     r |-> << <<"message", 4>> >>]

\* Events, while a header read that runs outside the strand meets an error.
MessagingAndReadError ==
    [p |-> << <<"message", 1>>, <<"message", 2>> >>,
     s |-> << >>,
     r |-> << <<"invalidate">> >>]

\* Snapshots and events, all from the publisher.
Snapshots ==
    [p |-> << <<"message", 1>>, <<"messages", <<2, 3, 4>>>>, <<"message", 5>>,
              <<"messages", <<6, 7>>>> >>,
     s |-> << >>, r |-> << >>]

Sound ==
    {[calls |-> Messaging, writesFail |-> TRUE], [calls |-> Snapshots, writesFail |-> FALSE]}
ReadErrors == {[calls |-> MessagingAndReadError, writesFail |-> FALSE]}
==============================================================================
