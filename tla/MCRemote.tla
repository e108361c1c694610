------------------------------ MODULE MCRemote ------------------------------
(* Small instances of the whole system for TLC. *)
EXTENDS RemoteProps, TLC

CONSTANTS w1, w2, garbage

(* One word with two readings that share a bucket with the other word's, and *)
(* one that hashes below the array.                                          *)
MCWords == {w1, w2}
MCTails == {NoTail, garbage}
MCHashSum == (<<w1, NoTail>> :> 1) @@ (<<w1, garbage>> :> 2)
               @@ (<<w2, NoTail>> :> 3) @@ (<<w2, garbage>> :> -1)
MCOneWord == {w1}
MCOneTail == {NoTail}
MCOneHashSum == <<w1, NoTail>> :> 1
MCLowestCount == -MaxCalls

ClientSymmetry == Permutations(Clients)
=============================================================================
