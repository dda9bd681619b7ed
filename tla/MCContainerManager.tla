-------------------------- MODULE MCContainerManager --------------------------
(***************************************************************************)
(* Two sessions and one name; an alias next to the types themselves.       *)
(***************************************************************************)
EXTENDS ContainerManager, TLC

OneAlias == [log |-> "volatile_list"]

\* Sessions differ only in their tables.
Symmetry == Permutations(Sessions)
==============================================================================
