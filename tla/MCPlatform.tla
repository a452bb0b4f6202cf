----------------------------- MODULE MCPlatform -----------------------------
(* Platform on small instances. *)
EXTENDS Platform, TLC

Symmetry ==
    Permutations(Workers) \union Permutations(Invitations) \union Permutations(Emails)
=============================================================================
