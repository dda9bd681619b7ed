----------------------------- MODULE MCTextSession -----------------------------
(***************************************************************************)
(* Instances of TextSession: one or two sessions and their scripts.        *)
(***************************************************************************)
EXTENDS TextSession

C(op) == [op |-> op, handle |-> TRUE]
Bad(op) == [op |-> op, handle |-> FALSE]
Everyone(v) == [s \in Sessions |-> v]
Plays(scripts) ==
    {[script |-> f, reads |-> Everyone(TRUE), leaves |-> Everyone(FALSE), whole |-> FALSE] :
        f \in scripts}

\* A subscriber and a writer; every kind of command; a command whose handle is bad.
Talking == Plays({
    [a |-> <<C("subscribe"), C("get")>>, b |-> <<C("set"), C("set")>>],
    [a |-> <<C("subscribe"), C("query"), C("ping")>>, b |-> <<C("modify")>>],
    [a |-> <<C("unknown"), Bad("set"), C("ping"), C("binary")>>, b |-> <<C("subscribe"), C("set")>>],
    [a |-> <<C("subscribe"), C("blank"), C("count")>>, b |-> <<C("clear"), C("pop"), Bad("pop")>>]})

\* A record larger than the limit.
Large == Plays({[a |-> <<C("subscribe"), C("getBig"), C("ping")>>, b |-> <<C("set")>>]})

\* A client that hangs up, and an HTTP request.
Leaving ==
    {[script |-> [a |-> <<C("get"), C("query")>>, b |-> <<C("http")>>],
      reads |-> Everyone(TRUE), leaves |-> [a |-> TRUE, b |-> FALSE], whole |-> TRUE]}

Sound == Talking \cup Large \cup Leaving

\* A subscriber that does not read, and a writer.
Stalled ==
    {[script |-> [a |-> <<C("subscribe")>>, b |-> <<C("set"), C("set"), C("set"), C("set")>>],
      reads |-> [a |-> FALSE, b |-> TRUE], leaves |-> Everyone(FALSE), whole |-> FALSE]}

\* Instances on which a property fails.
TwoModify == Plays({[a |-> <<C("modify")>>, b |-> <<C("modify")>>]})
SubscriberLeaves ==
    {[script |-> [a |-> <<C("subscribe"), C("ping")>>, b |-> <<C("set"), C("set")>>],
      reads |-> Everyone(TRUE), leaves |-> [a |-> TRUE, b |-> FALSE], whole |-> FALSE]}
HttpInPieces == Plays({[a |-> <<C("http")>>, b |-> <<>>]})
==============================================================================
