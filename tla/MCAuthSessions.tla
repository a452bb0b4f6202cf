--------------------------- MODULE MCAuthSessions ---------------------------
(* AuthSessions on small instances.  Sessions are ordered and not symmetric. *)
EXTENDS AuthSessions, TLC

Symmetry == Permutations(Workers) \union Permutations(Tokens)
=============================================================================
