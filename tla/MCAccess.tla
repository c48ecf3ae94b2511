------------------------------ MODULE MCAccess ------------------------------
(* Instances of Access for TLC. *)
EXTENDS Access, TLC

Symmetry == Permutations(Slugs) \cup Permutations(Tokens) \cup Permutations(Requests)
=============================================================================
