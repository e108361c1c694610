------------------------------ MODULE MCTable ------------------------------
(* A small instance of the hash table for TLC. *)
EXTENDS TableProps

CONSTANTS k1, k2, k3, k4, k5

(* With two buckets k1, k2 and k3 collide in bucket 0, so that one can be    *)
(* unlinked between two others, and k4 is alone in bucket 1. k5 holds bytes  *)
(* above 127, which C adds as negative numbers.                              *)
MCKeys == {k1, k2, k3, k4, k5}
MCHashSum == (k1 :> 2) @@ (k2 :> 2) @@ (k3 :> 2) @@ (k4 :> 3) @@ (k5 :> -1)
MCLowestCount == -2

(* Keys with the same bytes in another order, and the values, are alike. *)
MCSymmetry == Permutations({k1, k2, k3}) \cup Permutations(Vals)
=============================================================================
