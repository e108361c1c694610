---------------------------- MODULE MCLinkedList ----------------------------
(* A small heap for TLC: three nodes allow a list with a first, a middle and *)
(* a last node; one entry more than nodes allows a replacement in a full     *)
(* list, whose old entry is never given back.                                *)
EXTENDS LinkedList, TLC

(* Addresses are alike, and so are values. *)
MCSymmetry ==
    Permutations(Nodes) \cup Permutations(Entries) \cup Permutations(Vals)
=============================================================================
