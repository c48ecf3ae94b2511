----------------------------- MODULE MCListing -----------------------------
(* Instances of Listing for TLC. *)
EXTENDS Listing

(* "", "a", "b/", "b/x", "b/y", "c": what begins with "b/" is 2..4. *)
TreeLast == [n \in 0..5 |-> CASE n = 0 -> 5 [] n = 2 -> 4 [] OTHER -> n]
=============================================================================
