------------------------------- MODULE StdList -------------------------------
(***************************************************************************)
(* What std::list and std::vector, which hold the elements of a list and   *)
(* of a vector, do to them: pop_back, back, insert, erase and assignment   *)
(* through an iterator.  Positions start at 1.                             *)
(***************************************************************************)
EXTENDS Integers, Sequences

AllButLast(l) == SubSeq(l, 1, Len(l) - 1)
LastOf(l) == l[Len(l)]

Inserted(l, i, v) == SubSeq(l, 1, i - 1) \o <<v>> \o SubSeq(l, i, Len(l))
Erased(l, i) == SubSeq(l, 1, i - 1) \o SubSeq(l, i + 1, Len(l))
Assigned(l, i, v) == [l EXCEPT ![i] = v]

\* The elements behind the first n.
Rest(q, n) == SubSeq(q, n + 1, Len(q))
==============================================================================
