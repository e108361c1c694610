------------------------------ MODULE EntrySeq ------------------------------
(* A list_t of source/list.c seen as the sequence of the entries it holds,  *)
(* head first. An entry is a record [key, value]. These are the operators   *)
(* the hash table is built from; LinkedList.tla checks that the pointer      *)
(* structure of list.c behaves like them.                                    *)
EXTENDS Integers, Sequences, SequencesExt

(* The lists over a set of keys and a set of values. *)
Lists(K, V) == Seq([key : K, value : V])

Entry(k, v) == [key |-> k, value |-> v]

(* The keys present in a list. *)
KeysIn(s) == {s[p].key : p \in DOMAIN s}

(* Where list_get's walk from the head stops: the first node with the key. *)
Pos(s, k) == CHOOSE p \in DOMAIN s :
                /\ s[p].key = k
                /\ \A q \in 1..(p - 1) : s[q].key # k

(* Mutant: the entry is taken for its value. *)
ListGetEntry(s, k) == s[Pos(s, k)]

(* list_get: the value of the entry found, for a key that is present. *)
ListGet(s, k) == s[Pos(s, k)].value

(* Mutant: the search for the key before adding is forgotten. *)
ListAddBlind(s, k, v) == Append(s, Entry(k, v))

(* list_add: the entry of a present key is replaced where it stands, an     *)
(* entry with a new key goes to the tail.                                    *)
ListAdd(s, k, v) ==
    IF k \in KeysIn(s)
    THEN [s EXCEPT ![Pos(s, k)] = Entry(k, v)]
    ELSE Append(s, Entry(k, v))

(* Mutant: the hole is filled with the last entry. *)
ListRemoveSwap(s, k) == SubSeq([s EXCEPT ![Pos(s, k)] = s[Len(s)]], 1, Len(s) - 1)

(* list_remove of a present key: the node is unlinked, the others keep       *)
(* their order.                                                              *)
ListRemove(s, k) == RemoveAt(s, Pos(s, k))

(* list_get_keys: the keys from head to tail, without the end mark. *)
KeyList(s) == [p \in 1..Len(s) |-> s[p].key]

(* The entries under other keys than k in their order: all pairs of them,    *)
(* the one nearer to the head first.                                         *)
InOrder(s, k) ==
    LET others == {p \in DOMAIN s : s[p].key # k}
        pairs == {pq \in others \X others : pq[1] <= pq[2]}
    IN  {<<s[pq[1]], s[pq[2]]>> : pq \in pairs}

(* No key occurs in two entries of the list. *)
KeysDistinct(s) ==
    \A p, q \in DOMAIN s : s[p].key = s[q].key => p = q
=============================================================================
