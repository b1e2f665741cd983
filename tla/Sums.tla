-------------------------------- MODULE Sums --------------------------------
(***************************************************************************)
(* Totals of natural-valued functions.  A total is the number of unit      *)
(* coins the function hands out: the coins of x are <<x, 1>> .. <<x, f[x]>> *)
(* so that the laws of totals follow from the laws of finite cardinality,  *)
(* without induction.  Ledgers of the contracts are compared with it.      *)
(***************************************************************************)
EXTENDS Integers, FiniteSets

(* The unit coins that f gives to the members of S. *)
Units(f, S) == UNION {{x} \X (1..f[x]) : x \in S}

(* The total of f over S. *)
Sum(f, S) == Cardinality(Units(f, S))

(* f with the value of x replaced by v; x may be new. *)
Put(f, x, v) == [y \in DOMAIN f \cup {x} |-> IF y = x THEN v ELSE f[y]]

(* f without the members of S. *)
Drop(f, S) == [y \in DOMAIN f \ S |-> f[y]]
=============================================================================
