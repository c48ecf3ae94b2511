----------------------------- MODULE MCObjects -----------------------------
(* Instances of Objects for TLC. *)
EXTENDS Objects, TLC

Symmetry == Permutations(Requests) \cup Permutations(Payloads)
=============================================================================
