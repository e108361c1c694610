----------------------------- MODULE LinkedList -----------------------------
(* The doubly linked list of source/list.c, pointer by pointer: the list_t,  *)
(* the nodes and the entries are cells of a heap, malloc takes a free cell   *)
(* and free gives it back. Each action is one call of list.c and performs    *)
(* the assignments of the code in its order. A cell that no pointer reaches  *)
(* any more stays allocated: that is a leak.                                 *)
EXTENDS Integers, Sequences, FiniteSets, FiniteSetsExt

CONSTANTS
    Keys, Vals,
    Nodes,    \* addresses malloc can give a node_t
    Entries,  \* addresses malloc can give an entry_t
    NULL,     \* the null pointer
    Free      \* the contents of a cell that is not allocated

Cells == [entry : Entries, next : Nodes \cup {NULL}, prev : Nodes \cup {NULL}]
Pairs == [key : Keys, value : Vals]

ASSUME HeapAssumption ==
    /\ IsFiniteSet(Nodes)
    /\ NULL \notin Nodes \cup Entries
    /\ Free \notin Cells \cup Pairs

VARIABLES
    size, frst, last,  \* the fields of the list_t
    node,              \* address -> [entry, next, prev], or Free
    entry,             \* address -> [key, value], or Free
    status,            \* "up", "segv" or "destroyed"
    ret                \* the last call and what it returned

list == <<size, frst, last>>
heap == <<node, entry>>
vars == <<size, frst, last, node, entry, status, ret>>

AllocatedNodes == {n \in Nodes : node[n] # Free}
AllocatedEntries == {e \in Entries : entry[e] # Free}

(* Where `aux = aux->next`, j times, leads from the head. A pointer to        *)
(* nowhere is not followed.                                                  *)
Walk[j \in 0..Cardinality(Nodes)] ==
    IF j = 0 THEN frst
    ELSE LET aux == Walk[j - 1]
         IN  IF aux \in Nodes /\ node[aux] # Free THEN node[aux].next ELSE aux

(* The nodes a loop over the list visits, head first. *)
Visited ==
    LET ends == {j \in 0..Cardinality(Nodes) : Walk[j] \notin AllocatedNodes}
        n == IF ends = {} THEN Cardinality(Nodes) ELSE Min(ends)
    IN  [j \in 1..n |-> Walk[j - 1]]

KeyOf(n) == entry[node[n].entry].key

(* The first node a loop comes to that holds the key, NULL if none does. *)
Find(k) == LET nodes == Visited
               hits == {j \in DOMAIN nodes : KeyOf(nodes[j]) = k}
           IN  IF hits = {} THEN NULL ELSE nodes[Min(hits)]

(* list_get: an empty list is not searched. *)
ListGet(k) ==
    LET aux == Find(k)
    IN  IF size = 0 \/ aux = NULL THEN NULL ELSE node[aux].entry

CodeRet(f, c) == [call |-> f, code |-> c]

Up == status = "up"

-----------------------------------------------------------------------------
(* list_create, and the calloc of table_create. *)
Init ==
    /\ size = 0 /\ frst = NULL /\ last = NULL
    /\ node = [n \in Nodes |-> Free]
    /\ entry = [e \in Entries |-> Free]
    /\ status = "up"
    /\ ret = [call |-> "none"]

(* The caller of list_add made the entry e for it. *)
MakeEntry(e, k, v) ==
    /\ e \in Entries \ AllocatedEntries
    /\ entry' = [entry EXCEPT ![e] = [key |-> k, value |-> v]]

(* Mutant: the new node's prev is never set. *)
LinkNoPrev(n, e) ==
    /\ n \in Nodes \ AllocatedNodes
    /\ node' = LET new == [entry |-> e, next |-> NULL, prev |-> NULL]
               IN  IF size = 0 THEN [node EXCEPT ![n] = new]
                   ELSE [node EXCEPT ![last].next = n, ![n] = new]
    /\ frst' = IF size = 0 THEN n ELSE frst
    /\ last' = n
    /\ size' = size + 1

(* A node for e is made and linked behind the last one. *)
LinkAtTail(n, e) ==
    /\ n \in Nodes \ AllocatedNodes
    /\ node' = LET new(p) == [entry |-> e, next |-> NULL, prev |-> p]
               IN  IF size = 0 THEN [node EXCEPT ![n] = new(NULL)]
                   ELSE [node EXCEPT ![last].next = n, ![n] = new(last)]
    /\ frst' = IF size = 0 THEN n ELSE frst
    /\ last' = n
    /\ size' = size + 1

(* list_add of a new key. *)
AddNew(k, v, e, n) ==
    /\ Up
    /\ ListGet(k) = NULL
    /\ MakeEntry(e, k, v)
    /\ LinkAtTail(n, e)
    /\ ret' = CodeRet("add", 0)
    /\ UNCHANGED status

(* Mutant: the entry of the last node is replaced. *)
AddReplaceLast(k, v, e) ==
    /\ Up
    /\ ListGet(k) # NULL
    /\ MakeEntry(e, k, v)
    /\ node' = [node EXCEPT ![last].entry = e]
    /\ ret' = CodeRet("add", 1)
    /\ UNCHANGED <<list, status>>

(* Mutant: the old entry is freed and its node goes on pointing to it. *)
AddReplaceDangling(k, v, e) ==
    /\ Up
    /\ ListGet(k) # NULL
    /\ e \in Entries \ AllocatedEntries
    /\ entry' = [entry EXCEPT ![e] = [key |-> k, value |-> v], ![ListGet(k)] = Free]
    /\ ret' = CodeRet("add", 1)
    /\ UNCHANGED <<list, node, status>>

(* list_add of a present key: its node points to the new entry. The old one  *)
(* is not freed.                                                             *)
AddReplace(k, v, e) ==
    /\ Up
    /\ ListGet(k) # NULL
    /\ MakeEntry(e, k, v)
    /\ node' = [node EXCEPT ![Find(k)].entry = e]
    /\ ret' = CodeRet("add", 1)
    /\ UNCHANGED <<list, status>>

(* list_add(list, NULL) *)
AddNothing ==
    /\ Up
    /\ ret' = CodeRet("add", -1)
    /\ UNCHANGED <<list, heap, status>>

(* Mutant: the cell of the node is given back but not its entry's. *)
NodeDestroyOnly(n, nodes) ==
    /\ node' = [nodes EXCEPT ![n] = Free]
    /\ UNCHANGED entry

(* node_destroy after the assignments that left the nodes as `nodes`. *)
NodeDestroy(n, nodes) ==
    /\ node' = [nodes EXCEPT ![n] = Free]
    /\ entry' = [entry EXCEPT ![node[n].entry] = Free]

(* What the branches of list_remove share, for a key that is present. *)
Removing(k) ==
    /\ Up
    /\ ListGet(k) # NULL
    /\ size' = size - 1
    /\ ret' = CodeRet("remove", 0)
    /\ UNCHANGED status

(* The last node of several: its predecessor becomes the last. *)
RemoveLast(k) ==
    /\ Removing(k)
    /\ Find(k) = last
    /\ node[last].prev # NULL
    /\ last' = node[last].prev
    /\ NodeDestroy(last, [node EXCEPT ![node[last].prev].next = NULL])
    /\ UNCHANGED frst

(* The first node, when it is not the last too. *)
RemoveFirst(k) ==
    /\ Removing(k)
    /\ Find(k) = frst
    /\ frst # last
    /\ frst' = node[frst].next
    /\ NodeDestroy(frst, [node EXCEPT ![node[frst].next].prev = NULL])
    /\ UNCHANGED last

(* Mutant: only the forward link is closed. *)
RemoveMiddleOneWay(k) ==
    LET aux == Find(k)
    IN  /\ Removing(k)
        /\ aux \notin {frst, last}
        /\ NodeDestroy(aux, [node EXCEPT ![node[aux].prev].next = node[aux].next])
        /\ UNCHANGED <<frst, last>>

(* A node with neighbours: they are linked to each other. *)
RemoveMiddle(k) ==
    LET aux == Find(k)
    IN  /\ Removing(k)
        /\ aux \notin {frst, last}
        /\ NodeDestroy(aux, [node EXCEPT ![node[aux].next].prev = node[aux].prev,
                                         ![node[aux].prev].next = node[aux].next])
        /\ UNCHANGED <<frst, last>>

(* The only node is the last one, so the code goes to its predecessor, which *)
(* does not exist.                                                           *)
RemoveSole(k) ==
    /\ Up
    /\ ListGet(k) # NULL
    /\ Find(k) = last
    /\ node[last].prev = NULL
    /\ status' = "segv"
    /\ UNCHANGED <<list, heap, ret>>

(* Mutant: the size goes down although nothing is removed. *)
RemoveNothingCounted(k) ==
    /\ Up
    /\ ListGet(k) = NULL
    /\ size' = size - 1
    /\ ret' = CodeRet("remove", IF frst = NULL THEN 0 ELSE -1)
    /\ UNCHANGED <<frst, last, heap, status>>

(* An empty list answers 0, a list without the key -1. *)
RemoveNothing(k) ==
    /\ Up
    /\ ListGet(k) = NULL
    /\ ret' = CodeRet("remove", IF frst = NULL THEN 0 ELSE -1)
    /\ UNCHANGED <<list, heap, status>>

Get(k) ==
    /\ Up
    /\ ret' = [call |-> "get",
               entry |-> IF ListGet(k) = NULL THEN NULL ELSE entry[ListGet(k)]]
    /\ UNCHANGED <<list, heap, status>>

ListSize ==
    /\ Up
    /\ ret' = CodeRet("size", size)
    /\ UNCHANGED <<list, heap, status>>

(* list_get_keys copies `size` keys from the head on. *)
GetKeys ==
    /\ Up
    /\ ret' = [call |-> "get_keys",
               keys |-> [j \in 1..size |-> KeyOf(Walk[j - 1])]]
    /\ UNCHANGED <<list, heap, status>>

(* list_free_keys looks for a NULL behind the keys of an array whose last    *)
(* place was never written: it may find something else there and free it.    *)
FreeKeysCrash ==
    /\ Up
    /\ frst # NULL
    /\ status' = "segv"
    /\ UNCHANGED <<list, heap, ret>>

(* Mutant: the loop stops at the last node. *)
DestroyedButLast ==
    IF size = 1 THEN {frst}
    ELSE {Visited[j] : j \in DOMAIN Visited} \ {last}

(* The nodes list_destroy gives back: the first when it is the only one, all *)
(* that the loop visits when there are more.                                 *)
Destroyed ==
    IF size = 1 THEN {frst}
    ELSE IF size > 1 THEN {Visited[j] : j \in DOMAIN Visited}
         ELSE {}

(* list_destroy; the list_t itself is freed too. *)
Destroy ==
    /\ Up
    /\ LET gone == {node[n].entry : n \in Destroyed}
       IN  entry' = [e \in Entries |-> IF e \in gone THEN Free ELSE entry[e]]
    /\ node' = [n \in Nodes |-> IF n \in Destroyed THEN Free ELSE node[n]]
    /\ size' = 0 /\ frst' = NULL /\ last' = NULL
    /\ status' = "destroyed"
    /\ UNCHANGED ret

Next ==
    \/ \E k \in Keys, v \in Vals, e \in Entries :
         AddReplace(k, v, e) \/ \E n \in Nodes : AddNew(k, v, e, n)
    \/ \E k \in Keys : \/ RemoveLast(k) \/ RemoveFirst(k) \/ RemoveMiddle(k)
                       \/ RemoveSole(k) \/ RemoveNothing(k) \/ Get(k)
    \/ AddNothing \/ ListSize \/ GetKeys \/ FreeKeysCrash \/ Destroy

Spec == Init /\ [][Next]_vars

-----------------------------------------------------------------------------
(* The shape of a list_t, its nodes and its entries. *)
TypeOK ==
    /\ size \in Nat
    /\ {frst, last} \subseteq Nodes \cup {NULL}
    /\ node \in [Nodes -> Cells \cup {Free}]
    /\ entry \in [Entries -> Pairs \cup {Free}]
    /\ status \in {"up", "segv", "destroyed"}
    /\ ret \in [call : {"add", "remove", "size"}, code : Int]
               \cup [call : {"get"}, entry : Pairs \cup {NULL}]
               \cup [call : {"get_keys"}, keys : Seq(Keys)]
               \cup [call : {"none"}]

(* Both directions of the list agree with each other and with size, frst and *)
(* last after any series of list_add and list_remove: going forward from     *)
(* frst passes size nodes and ends at last with NULL behind it, and every    *)
(* prev points to the node one came from.                                    *)
WellLinked ==
    LET nodes == Visited
        n == Len(nodes)
    IN  /\ size = n
        /\ n > 0 => nodes[1] = frst /\ nodes[n] = last
        /\ n = 0 => frst = NULL /\ last = NULL
        /\ \A j \in 1..n : LET c == node[nodes[j]]
                           IN  /\ c.next = IF j = n THEN NULL ELSE nodes[j + 1]
                               /\ c.prev = IF j = 1 THEN NULL ELSE nodes[j - 1]

(* list_remove and list_destroy give back every node they unlink: a node is  *)
(* allocated exactly when the list reaches it.                               *)
NoNodeLost == AllocatedNodes = {Visited[j] : j \in DOMAIN Visited}

(* No node points to a freed entry and no two to the same one, so list_remove *)
(* frees an entry once and list_get never answers with freed memory.         *)
EntriesOwned ==
    \A m, n \in AllocatedNodes :
        /\ node[n].entry \in AllocatedEntries
        /\ node[m].entry = node[n].entry => m = n

(* The inductive invariant. The nodes of s, in this order, are the list and   *)
(* everything that is allocated; no node comes twice, so the walk ends.      *)
Chain(s) ==
    /\ s \in Seq(Nodes)
    /\ \A a, b \in 1..Len(s) : s[a] = s[b] => a = b
    /\ AllocatedNodes = {s[j] : j \in 1..Len(s)}
    /\ size = Len(s)
    /\ frst = IF Len(s) = 0 THEN NULL ELSE s[1]
    /\ last = IF Len(s) = 0 THEN NULL ELSE s[Len(s)]
    /\ \A j \in 1..Len(s) :
         /\ node[s[j]].next = IF j = Len(s) THEN NULL ELSE s[j + 1]
         /\ node[s[j]].prev = IF j = 1 THEN NULL ELSE s[j - 1]

KeysOnce == \A m, n \in AllocatedNodes : KeyOf(m) = KeyOf(n) => m = n

LInv == TypeOK /\ Chain(Visited) /\ EntriesOwned /\ KeysOnce

(* What the list holds, seen as a sequence. *)
Contents ==
    LET nodes == Visited
    IN  [j \in 1..Len(nodes) |-> entry[node[nodes[j]].entry]]

Abstract == INSTANCE AbstractList WITH contents <- Contents, NoEntry <- NULL

(* The pointers implement the sequence of entries that Table.tla takes a     *)
(* bucket for: same contents, same return values, same crashes.              *)
ImplementsList == Abstract!Spec

-----------------------------------------------------------------------------
(* What the headers say and the code does not do. *)

(* list.h:15, "Função que elimina uma lista, libertando *toda* a memoria     *)
(* utilizada pela lista": nothing is left allocated once it is destroyed.    *)
DestroyFreesAll ==
    status = "destroyed" => AllocatedNodes = {} /\ AllocatedEntries = {}

(* list.h:26, "Função que elimina da lista a entry com a chave key": no call  *)
(* of list_remove ends the program.                                          *)
RemoveSurvives == [][~ \E k \in Keys : RemoveSole(k)]_vars
=============================================================================
