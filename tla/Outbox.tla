-------------------------------- MODULE Outbox --------------------------------
(***************************************************************************)
(* What a session promises those who send through it: while it is open it  *)
(* takes messages, and it delivers them once each, in the order in which   *)
(* it took them.  After it closed, what is under way may still get out.    *)
(***************************************************************************)
EXTENDS Integers, Sequences

CONSTANT Messages

VARIABLES accepted, sent, open

vars == <<accepted, sent, open>>

Init == accepted = <<>> /\ sent = <<>> /\ open = TRUE

Accept(m) ==
    /\ open
    /\ accepted' = Append(accepted, m)
    /\ UNCHANGED <<sent, open>>

Deliver ==
    /\ Len(sent) < Len(accepted)
    /\ \E n \in Len(sent) + 1 .. Len(accepted) : sent' = SubSeq(accepted, 1, n)
    /\ UNCHANGED <<accepted, open>>

Close ==
    /\ open
    /\ \E n \in Len(sent) .. Len(accepted) : sent' = SubSeq(accepted, 1, n)
    /\ open' = FALSE
    /\ UNCHANGED accepted

Next == (\E m \in Messages : Accept(m)) \/ Deliver \/ Close

Spec == Init /\ [][Next]_vars /\ WF_vars(open /\ Deliver)
==============================================================================
