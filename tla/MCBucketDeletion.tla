-------------------------- MODULE MCBucketDeletion --------------------------
(* Instances of BucketDeletion for TLC. *)
EXTENDS BucketDeletion, TLC

Symmetry == Permutations(Requests) \cup Permutations(Sources) \cup Permutations(Ids)
West == -2   \* a zone west of Greenwich
=============================================================================
