----------------------------- MODULE MCCatalog -----------------------------
(* Instances of Catalog for TLC. *)
EXTENDS Catalog, TLC

(* Keys are told apart by nothing but equality, and so are sources and buckets. *)
Symmetry == Permutations(Keys) \cup Permutations(Sources) \cup Permutations(Buckets)
=============================================================================
