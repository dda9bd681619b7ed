---------------------------- MODULE MCVectorPubSub ----------------------------
(* Small instances of VectorPubSub: one list or vector that starts with one  *)
(* element.                                                                  *)
EXTENDS VectorPubSub, TLC

CONSTANTS t1, c1, s1, s2, v1, v2

\* One subscriber and every index in and around the list.
OneSession == s1 :> t1
OneStorage == s1 :> c1
OneStart == s1 :> 0
AllIndexes == -1 .. 1

\* INT_MIN as well, for a list with one element.
LeastIndex == {MinInt, 0}

\* Two subscribers, one from the start and one that waives its snapshot.
TwoSession == s1 :> t1 @@ s2 :> t1
TwoStorage == s1 :> c1 @@ s2 :> c1
TwoStart == s1 :> 0 @@ s2 :> NoSnapshot

MCContents == c1 :> <<v1>>
MCKeys == MinInt .. 5
=============================================================================
