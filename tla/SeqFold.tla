------------------------------- MODULE SeqFold -------------------------------
(***************************************************************************)
(* Folding a function over a sequence, from the first element on.  It is   *)
(* written as a recursive function, about which the provers can reason.    *)
(***************************************************************************)
EXTENDS Naturals, Sequences

Fold(f, x, q) ==
    LET r[n \in 0 .. Len(q)] == IF n = 0 THEN x ELSE f[<<r[n - 1], q[n]>>]
    IN  r[Len(q)]
==============================================================================
