----------------------------- MODULE MCLogReplay ------------------------------
(***************************************************************************)
(* Instances of LogReplay: two sessions and three containers.              *)
(***************************************************************************)
EXTENDS LogReplay

O(c) == [op |-> "open", name |-> c]
G(c) == [op |-> "group", name |-> c]
W(c) == [op |-> "change", name |-> c]

\* Each container has one session that opens and changes it.
Apart == {[a |-> <<O("x"), W("x")>>, b |-> <<O("y"), G("y")>>],
          [a |-> <<O("x"), W("x"), O("x"), W("x")>>, b |-> <<>>]}

\* Instances on which a property fails.
Together == {[a |-> <<O("x"), W("x")>>, b |-> <<O("x"), W("x")>>]}
Text == {[a |-> <<O("x"), W("x")>>, b |-> <<[op |-> "textChange", name |-> "y"], O("y"), W("y")>>]}
Grouped == {[a |-> <<W("x")>>, b |-> <<>>]}
Meta == {[a |-> <<O("__m"), W("__m")>>, b |-> <<>>]}
==============================================================================
