------------------------------ MODULE MCInbox ------------------------------
(* The Inbox on small sets; workers, messages, external ids and the values  *)
(* of a setting are interchangeable.                                        *)
EXTENDS Inbox, TLC

Symmetry ==
    Permutations(Workers) \union Permutations(Messages) \union Permutations(ExternalIds)
        \union Permutations(Values)
=============================================================================
