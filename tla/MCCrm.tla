-------------------------------- MODULE MCCrm --------------------------------
(* Crm on small instances.                                                  *)
EXTENDS Crm, TLC

Symmetry ==
    Permutations(Workers) \union Permutations(Contacts)

\* The rows are explored together up to here: no two of a second contact, a
\* lead with a history and a task.
Focus ==
    LET contacts == {c \in Contacts : contact[c].status # "absent"}
    IN  Cardinality({n \in 1..3 :
            \/ n = 1 /\ Cardinality(contacts) > 1
            \/ n = 2 /\ \E l \in Leads : recorded[l] # {}
            \/ n = 3 /\ \E t \in Tasks : task[t].status # "absent"}) <= 1
=============================================================================
