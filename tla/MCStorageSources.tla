-------------------------- MODULE MCStorageSources --------------------------
(* Instances of StorageSources for TLC. *)
EXTENDS StorageSources, TLC
Symmetry == Permutations(Admins) \cup Permutations(Buckets)
=============================================================================
