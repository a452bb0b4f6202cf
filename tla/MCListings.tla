----------------------------- MODULE MCListings -----------------------------
(* Small instances of Listings for TLC. *)
EXTENDS Listings, TLC

\* With pages of one row a list of four has one that is beyond the last number.
PageSizes == [k \in Kinds |-> IF k = "contacts" THEN 1 ELSE 2]

Symmetry == Permutations(Writers)
=============================================================================
