-------------------------------- MODULE MCGroups --------------------------------
(* Small instances of Groups: three sessions and one group.                     *)
EXTENDS Groups

\* Two sessions add; one of them and a third have subscribed.
TwoAdders ==
    [scripts |-> [a |-> << <<"add", "x">> >>, b |-> << <<"add", "z">> >>, c |-> <<>>],
     members |-> {}, subscribers |-> <<"c", "b">>, text |-> {"a", "c"}]

\* One strand subscribes and adds; the others have subscribed before.
OneStrand ==
    [scripts |-> [a |-> << <<"subscribe">>, <<"add", "y">>, <<"add", "z">> >>, b |-> <<>>, c |-> <<>>],
     members |-> {"x", "w"}, subscribers |-> <<"b", "c">>, text |-> {}]

\* One session adds while another subscribes.
AddAndSubscribe ==
    [scripts |-> [a |-> << <<"add", "y">> >>, b |-> << <<"subscribe">> >>, c |-> <<>>],
     members |-> {"x"}, subscribers |-> <<>>, text |-> {}]

\* Two text sessions that have subscribed add to the group.
TwoTextAdders ==
    [scripts |-> [a |-> << <<"add", "x">> >>, b |-> << <<"add", "z">> >>, c |-> <<>>],
     members |-> {}, subscribers |-> <<"b", "a">>, text |-> {"a", "b"}]

\* A text session that has subscribed adds while a session adds.
TextAdder ==
    [scripts |-> [a |-> << <<"add", "x">> >>, b |-> << <<"add", "z">> >>, c |-> <<>>],
     members |-> {}, subscribers |-> <<"c", "a">>, text |-> {"a"}]

Sound == {TwoAdders, TextAdder, OneStrand}
Race == {AddAndSubscribe}
LockOrder == {TwoTextAdders}
==============================================================================
