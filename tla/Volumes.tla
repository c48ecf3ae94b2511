------------------------------ MODULE Volumes ------------------------------
(***************************************************************************)
(* Byte totals.  Volume(w, S) is the sum of w[x] over the x in S, written  *)
(* as the number of bytes of S: byte i of x is the pair <<x, i>>.  It is   *)
(* what SELECT COALESCE(sum(w),0) returns for the rows S.  The form has no *)
(* recursion, so totals can be proved about with cardinality theorems.     *)
(***************************************************************************)
EXTENDS Integers, FiniteSets

Bytes(w, S) == UNION {{x} \X (1..w[x]) : x \in S}

Volume(w, S) == Cardinality(Bytes(w, S))

(* SQLite's and Go's max(0, n). *)
AtLeastZero(n) == IF n < 0 THEN 0 ELSE n
=============================================================================
