-------------------------- MODULE MCCollaboration --------------------------
(* Collaboration on small sets. *)
EXTENDS Collaboration, TLC

Symmetry ==
    Permutations(Workers) \union Permutations(Notes) \union Permutations(Tags)
        \union Permutations(Words) \union Permutations(Texts)
=============================================================================
