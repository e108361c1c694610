-------------------------- MODULE LinkedListProofs --------------------------
(* The doubly linked list is a list: LInv is inductive, its nodes are the     *)
(* sequence Visited and nothing else, and every call of list.c does to       *)
(* Contents what AbstractList says. The proofs follow a sequence s of nodes  *)
(* with Chain(s) through a step; VisitedIs says that s is what a loop finds.  *)
EXTENDS LinkedList, TLAPS, FiniteSetTheorems, SequenceTheorems, WellFoundedInduction

-----------------------------------------------------------------------------
(* The walk from the head.                                                   *)

(* A set of natural numbers that is not empty has a least member. *)
LEMMA Least ==
    ASSUME NEW T \in SUBSET Nat, T # {}
    PROVE  \E m \in T : \A x \in T : m <= x
<1> DEFINE R == OpToRel(<, Nat)
<1>1. IsWellFoundedOn(R, Nat)
    BY NatLessThanWellFounded
<1>2. \A x, y \in Nat : <<x, y>> \in R <=> x < y
    BY DEF OpToRel
<1> HIDE DEF R
<1>3. \E x \in T : \A y \in T : ~ (<<y, x>> \in R)
    BY <1>1, WFMin
<1>4. PICK m \in T : \A y \in T : ~ (<<y, m>> \in R)
    BY <1>3
<1>5. \A x \in T : m \in Nat /\ x \in Nat /\ ~(x < m)
    BY <1>2, <1>4, Zenon
<1>. QED
    BY <1>4, <1>5

(* Min finds it. *)
LEMMA MinIs ==
    ASSUME NEW T \in SUBSET Nat, NEW m \in T, \A x \in T : m <= x
    PROVE  Min(T) = m
<1>1. \A x \in T : (\A y \in T : x <= y) => x = m
    OBVIOUS
<1>. QED
    BY <1>1, Zenon DEF Min

(* A list of different nodes is not longer than there are nodes. *)
LEMMA ChainFits ==
    ASSUME NEW s \in Seq(Nodes),
           \A a, b \in 1..Len(s) : s[a] = s[b] => a = b
    PROVE  /\ Len(s) \in Nat
           /\ Cardinality(Nodes) \in Nat
           /\ Len(s) <= Cardinality(Nodes)
<1>1. IsFiniteSet(Nodes)
    BY HeapAssumption
<1>2. Len(s) \in Nat /\ s \in [1..Len(s) -> Nodes]
    BY LenProperties
<1>3. s \in Injection(1..Len(s), Nodes)
    BY <1>2 DEF Injection, IsInjective
<1>4. Cardinality(1..Len(s)) <= Cardinality(Nodes)
    BY <1>1, <1>3, FS_Injection
<1>5. Cardinality(1..Len(s)) = Len(s)
    BY <1>2, FS_Interval
<1>. QED
    BY <1>1, <1>2, <1>4, <1>5, FS_CardinalityType, SMTT(30)

(* The equation that the recursive definition of Walk solves. *)
WalkEq(W) ==
    W = [j \in 0..Cardinality(Nodes) |->
           IF j = 0 THEN frst
           ELSE LET aux == W[j - 1]
                IN  IF aux \in Nodes /\ node[aux] # Free THEN node[aux].next
                    ELSE aux]

(* After j steps one stands at the node of place j + 1, behind the last one   *)
(* at NULL.                                                                  *)
LEMMA WalkIs ==
    \A s : Chain(s) => Walk = [j \in 0..Cardinality(Nodes) |->
                                 IF j < Len(s) THEN s[j + 1] ELSE NULL]
<1> SUFFICES ASSUME NEW s, Chain(s)
             PROVE  Walk = [j \in 0..Cardinality(Nodes) |->
                              IF j < Len(s) THEN s[j + 1] ELSE NULL]
    OBVIOUS
<1> DEFINE c == Cardinality(Nodes)
           F == [j \in 0..c |-> IF j < Len(s) THEN s[j + 1] ELSE NULL]
<1>1. /\ Len(s) \in Nat /\ c \in Nat /\ Len(s) <= c
      /\ s \in Seq(Nodes)
      /\ \A j \in 1..Len(s) : s[j] \in Nodes /\ node[s[j]] # Free
      /\ \A j \in 1..Len(s) : node[s[j]].next = IF j = Len(s) THEN NULL ELSE s[j + 1]
      /\ frst = IF Len(s) = 0 THEN NULL ELSE s[1]
      /\ NULL \notin Nodes
    <2>1. s \in Seq(Nodes) /\ (\A a, b \in 1..Len(s) : s[a] = s[b] => a = b)
        BY DEF Chain
    <2>2. Len(s) \in Nat /\ c \in Nat /\ Len(s) <= c
        BY <2>1, ChainFits
    <2>3. \A j \in 1..Len(s) : s[j] \in AllocatedNodes
        BY DEF Chain
    <2>. QED
        BY <2>1, <2>2, <2>3, HeapAssumption DEF Chain, AllocatedNodes
<1> HIDE DEF c
<1>2. ASSUME NEW j \in 0..c
      PROVE  F[j] = IF j = 0 THEN frst
                    ELSE IF F[j - 1] \in Nodes /\ node[F[j - 1]] # Free
                         THEN node[F[j - 1]].next ELSE F[j - 1]
    <2>1. CASE j = 0
        BY <1>1, <2>1
    <2>2. CASE j # 0 /\ j - 1 < Len(s)
        <3>1. j \in 1..Len(s) /\ j - 1 \in 0..c /\ F[j - 1] = s[j]
            BY <1>1, <2>2
        <3>2. node[s[j]].next = F[j]
            BY <1>1, <3>1
        <3>. QED
            BY <1>1, <2>2, <3>1, <3>2
    <2>3. CASE j # 0 /\ ~(j - 1 < Len(s))
        <3>1. j - 1 \in 0..c /\ F[j - 1] = NULL /\ F[j] = NULL
            BY <1>1, <2>3
        <3>. QED
            BY <1>1, <2>3, <3>1
    <2>. QED
        BY <2>1, <2>2, <2>3
<1>3. WalkEq(F)
    BY <1>2 DEF WalkEq, c
<1>4. WalkEq(Walk)
    <2>1. Walk = CHOOSE W : WalkEq(W)
        BY DEF Walk, WalkEq
    <2>. QED
        BY <1>3, <2>1
<1>5. Walk = [j \in 0..c |-> Walk[j]]
    BY <1>4 DEF WalkEq, c
<1>6. ASSUME NEW j \in 0..c
      PROVE  Walk[j] = IF j = 0 THEN frst
                       ELSE IF Walk[j - 1] \in Nodes /\ node[Walk[j - 1]] # Free
                            THEN node[Walk[j - 1]].next ELSE Walk[j - 1]
    BY <1>4 DEF WalkEq, c
<1> DEFINE Off == {j \in 0..c : Walk[j] # F[j]}
<1>7. Off = {}
    <2> SUFFICES ASSUME Off # {} PROVE FALSE
        OBVIOUS
    <2>1. Off \in SUBSET Nat
        BY <1>1
    <2>2. PICK m \in Off : \A x \in Off : m <= x
        BY <2>1, Least, Zenon
    <2>3. m \in 0..c /\ Walk[m] # F[m]
        BY <2>2
    <2> HIDE DEF F
    <2>4. m # 0
        BY <1>1, <1>2, <1>6, <2>3
    <2>5. m - 1 \in 0..c /\ m - 1 \notin Off
        BY <1>1, <2>2, <2>3, <2>4
    <2>6. Walk[m - 1] = F[m - 1]
        BY <2>5
    <2>. QED
        BY <1>2, <1>6, <2>3, <2>4, <2>6
<1>8. \A j \in 0..c : Walk[j] = F[j]
    BY <1>7
<1>. QED
    BY <1>5, <1>8 DEF c

(* So a loop over the list passes the nodes of s. *)
LEMMA VisitedIs == \A s : Chain(s) => Visited = s
<1> SUFFICES ASSUME NEW s, Chain(s) PROVE Visited = s
    OBVIOUS
<1> DEFINE c == Cardinality(Nodes)
           ends == {j \in 0..c : Walk[j] \notin AllocatedNodes}
           m == IF ends = {} THEN c ELSE Min(ends)
<1>1. s \in Seq(Nodes) /\ (\A a, b \in 1..Len(s) : s[a] = s[b] => a = b)
    BY DEF Chain
<1>2. Len(s) \in Nat /\ c \in Nat /\ Len(s) <= c
    BY <1>1, ChainFits
<1>3. Walk = [j \in 0..c |-> IF j < Len(s) THEN s[j + 1] ELSE NULL]
    BY WalkIs
<1>4. AllocatedNodes = {s[j] : j \in 1..Len(s)} /\ NULL \notin AllocatedNodes
    BY HeapAssumption DEF Chain, AllocatedNodes
<1>5. \A j \in 0..c : Walk[j] \notin AllocatedNodes <=> Len(s) <= j
    BY <1>2, <1>3, <1>4
<1>6. Len(s) \in ends /\ ends \in SUBSET Nat /\ \A x \in ends : Len(s) <= x
    BY <1>2, <1>5
<1>7. m = Len(s)
    BY <1>6, MinIs
<1>8. Visited = [j \in 1..m |-> Walk[j - 1]]
    BY DEF Visited
<1>9. \A j \in 1..Len(s) : Walk[j - 1] = s[j]
    BY <1>2, <1>3
<1>10. s = [j \in 1..Len(s) |-> s[j]]
    BY <1>1, LenProperties
<1>. QED
    BY <1>7, <1>8, <1>9, <1>10

-----------------------------------------------------------------------------
(* The state before a step.                                                  *)

(* The nodes of a chain are allocated cells. *)
LEMMA ChainCells ==
    ASSUME TypeOK, NEW s, Chain(s)
    PROVE  /\ s \in Seq(Nodes) /\ Len(s) \in Nat /\ DOMAIN s = 1..Len(s)
           /\ \A j \in 1..Len(s) : /\ s[j] \in Nodes /\ s[j] # NULL
                                   /\ s[j] \in AllocatedNodes
                                   /\ node[s[j]] \in Cells /\ node[s[j]] # Free
           /\ NULL \notin Nodes /\ NULL \notin Entries
<1>1. s \in Seq(Nodes) /\ \A j \in 1..Len(s) : s[j] \in AllocatedNodes
    BY DEF Chain
<1>2. NULL \notin Nodes /\ NULL \notin Entries
    BY HeapAssumption
<1>3. \A x \in AllocatedNodes : x \in Nodes /\ node[x] \in Cells /\ node[x] # Free
    BY DEF AllocatedNodes, TypeOK
<1>. QED
    BY <1>1, <1>2, <1>3, LenProperties

(* list_get's loop stops at the first node with the key, at NULL if there is  *)
(* none.                                                                     *)
LEMMA FindIs ==
    ASSUME TypeOK, NEW s, Chain(s), NEW k
    PROVE  \/ /\ ListGet(k) = NULL
              /\ \A j \in 1..Len(s) : KeyOf(s[j]) # k
           \/ \E p \in 1..Len(s) :
                /\ Find(k) = s[p] /\ KeyOf(s[p]) = k
                /\ ListGet(k) = node[s[p]].entry /\ ListGet(k) # NULL
                /\ \A j \in 1..(p - 1) : KeyOf(s[j]) # k
<1>1. /\ s \in Seq(Nodes) /\ Len(s) \in Nat /\ DOMAIN s = 1..Len(s)
      /\ \A j \in 1..Len(s) : s[j] # NULL /\ node[s[j]] \in Cells
      /\ NULL \notin Entries
    BY ChainCells
<1>2. Visited = s /\ size = Len(s)
    BY VisitedIs DEF Chain
<1> DEFINE hits == {j \in 1..Len(s) : KeyOf(s[j]) = k}
<1>3. Find(k) = IF hits = {} THEN NULL ELSE s[Min(hits)]
    BY <1>1, <1>2 DEF Find
<1>4. CASE hits = {}
    BY <1>3, <1>4 DEF ListGet
<1>5. CASE hits # {}
    <2>1. hits \in SUBSET Nat
        OBVIOUS
    <2>2. PICK p \in hits : \A x \in hits : p <= x
        BY <1>5, <2>1, Least, Zenon
    <2>3. Min(hits) = p
        BY <2>1, <2>2, MinIs
    <2>4. Find(k) = s[p] /\ p \in 1..Len(s) /\ KeyOf(s[p]) = k
        BY <1>3, <1>5, <2>2, <2>3
    <2>5. \A j \in 1..(p - 1) : KeyOf(s[j]) # k
        BY <1>1, <2>2, <2>4
    <2>6. size # 0 /\ s[p] # NULL /\ node[s[p]].entry \in Entries
        BY <1>1, <1>2, <2>4 DEF Cells
    <2>7. ListGet(k) = node[s[p]].entry
        BY <2>4, <2>6 DEF ListGet
    <2>. QED
        BY <1>1, <2>4, <2>5, <2>6, <2>7
<1>. QED
    BY <1>4, <1>5

(* What LInv says with Visited called s. *)
Listed(s) == TypeOK /\ Chain(s) /\ EntriesOwned /\ KeysOnce

(* There is only one sequence s with Listed(s).                              *)
LEMMA ListedIs == \A s : Listed(s) => Visited = s /\ LInv
BY VisitedIs DEF Listed, LInv

-----------------------------------------------------------------------------
(* A node is linked behind the last one.                                     *)

(* list_add of a new key: the list is the old one and, behind it, the new    *)
(* node with its entry.                                                      *)
LEMMA AddNewKeeps ==
    ASSUME NEW s, Listed(s), NEW k \in Keys, NEW v \in Vals,
           NEW e \in Entries, NEW x \in Nodes, AddNew(k, v, e, x)
    PROVE  /\ Listed(Append(s, x))'
           /\ s \in Seq(Nodes) /\ Append(s, x) \in Seq(Nodes)
           /\ Len(Append(s, x)) = Len(s) + 1
           /\ \A j \in 1..Len(s) : /\ node'[s[j]].entry = node[s[j]].entry
                                   /\ entry'[node[s[j]].entry] = entry[node[s[j]].entry]
           /\ entry'[node'[x].entry] = [key |-> k, value |-> v]
<1> DEFINE t == Append(s, x)
           m == Len(s)
<1> USE DEF Listed
<1>1. /\ s \in Seq(Nodes) /\ m \in Nat
      /\ \A j \in 1..m : /\ s[j] \in Nodes /\ s[j] # NULL
                         /\ node[s[j]] \in Cells /\ node[s[j]] # Free
      /\ NULL \notin Nodes
    BY ChainCells
<1>2. /\ \A a, b \in 1..m : s[a] = s[b] => a = b
      /\ AllocatedNodes = {s[j] : j \in 1..m}
      /\ size = m
      /\ frst = IF m = 0 THEN NULL ELSE s[1]
      /\ last = IF m = 0 THEN NULL ELSE s[m]
      /\ \A j \in 1..m : /\ node[s[j]].next = IF j = m THEN NULL ELSE s[j + 1]
                         /\ node[s[j]].prev = IF j = 1 THEN NULL ELSE s[j - 1]
    BY DEF Chain
<1>3. /\ t \in Seq(Nodes) /\ Len(t) = m + 1
      /\ \A j \in 1..m : t[j] = s[j]
      /\ t[m + 1] = x
    BY <1>1, AppendProperties
<1>4. x \notin AllocatedNodes /\ \A j \in 1..m : s[j] # x
    BY <1>2 DEF AddNew, LinkAtTail
<1>5. /\ node \in [Nodes -> Cells \cup {Free}]
      /\ entry \in [Entries -> Pairs \cup {Free}]
      /\ Free \notin Cells /\ Free \notin Pairs
    BY HeapAssumption DEF TypeOK
<1> DEFINE new == [entry |-> e, next |-> NULL, prev |-> last]
<1>6. new \in Cells /\ (m = 0 => last = NULL)
    BY <1>1, <1>2 DEF Cells
<1>7. node' = IF m = 0 THEN [node EXCEPT ![x] = new]
              ELSE [node EXCEPT ![s[m]].next = x, ![x] = new]
    BY <1>2, <1>6 DEF AddNew, LinkAtTail
<1>8. /\ DOMAIN node' = Nodes
      /\ node'[x] = new
      /\ \A y \in Nodes : y # x /\ (m = 0 \/ y # s[m]) => node'[y] = node[y]
      /\ m # 0 => node'[s[m]] = [node[s[m]] EXCEPT !.next = x]
    BY <1>1, <1>4, <1>5, <1>7
<1>9. \A j \in 1..m : /\ node'[s[j]] \in Cells
                      /\ node'[s[j]].entry = node[s[j]].entry
                      /\ node'[s[j]].prev = node[s[j]].prev
                      /\ node'[s[j]].next = IF j = m THEN x ELSE node[s[j]].next
    <2> TAKE j \in 1..m
    <2>1. CASE j = m
        BY <1>1, <1>8, <2>1 DEF Cells
    <2>2. CASE j # m
        <3>1. s[j] # x /\ s[j] # s[m] /\ s[j] \in Nodes
            BY <1>1, <1>2, <1>4, <2>2
        <3>. QED
            BY <1>1, <1>8, <2>2, <3>1
    <2>. QED
        BY <2>1, <2>2
<1>10. /\ \A y \in Nodes : y # x /\ y \notin AllocatedNodes => node'[y] = Free
       /\ \A y \in AllocatedNodes : node'[y] \in Cells /\ node'[y].entry = node[y].entry
    <2>1. m # 0 => s[m] \in AllocatedNodes
        BY <1>1, <1>2
    <2>2. \A y \in Nodes : y # x /\ y \notin AllocatedNodes => node'[y] = node[y]
        BY <1>8, <2>1
    <2>. QED
        BY <1>2, <1>9, <2>2 DEF AllocatedNodes
<1>11. /\ \A y \in Nodes : node'[y] \in Cells \cup {Free}
       /\ AllocatedNodes' = AllocatedNodes \cup {x}
    <2>1. AllocatedNodes' = {y \in Nodes : node'[y] # Free}
        BY DEF AllocatedNodes
    <2>2. AllocatedNodes \subseteq Nodes
        BY DEF AllocatedNodes
    <2>. QED
        BY <1>5, <1>6, <1>8, <1>10, <2>1, <2>2
<1>12. /\ entry' = [entry EXCEPT ![e] = [key |-> k, value |-> v]]
       /\ e \notin AllocatedEntries
    BY DEF AddNew, MakeEntry
<1>13. [key |-> k, value |-> v] \in Pairs
    BY DEF Pairs
<1>14. /\ entry' \in [Entries -> Pairs \cup {Free}]
       /\ entry'[e] = [key |-> k, value |-> v]
       /\ \A d \in Entries : d # e => entry'[d] = entry[d]
       /\ AllocatedEntries' = AllocatedEntries \cup {e}
    <2>1. AllocatedEntries' = {d \in Entries : entry'[d] # Free}
        BY DEF AllocatedEntries
    <2>. QED
        BY <1>5, <1>12, <1>13, <2>1 DEF AllocatedEntries
<1>15. \A y \in AllocatedNodes : node[y].entry \in AllocatedEntries /\ node[y].entry # e
    BY <1>12 DEF EntriesOwned
<1>16. /\ size' = m + 1 /\ last' = x
       /\ frst' = IF m = 0 THEN x ELSE frst
       /\ status' = status /\ ret' = CodeRet("add", 0)
    BY <1>2 DEF AddNew, LinkAtTail
<1>17. TypeOK'
    <2>1. node' \in [Nodes -> Cells \cup {Free}]
        BY <1>7, <1>8, <1>11
    <2>2. ret' \in [call : {"add", "remove", "size"}, code : Int]
        BY <1>16 DEF CodeRet
    <2>3. {frst', last'} \subseteq Nodes \cup {NULL} /\ size' \in Nat
        BY <1>1, <1>2, <1>16
    <2>4. status' \in {"up", "segv", "destroyed"}
        BY <1>16 DEF TypeOK
    <2>. QED
        BY <1>14, <2>1, <2>2, <2>3, <2>4 DEF TypeOK
<1>18. Chain(t)'
    <2>1. \A a, b \in 1..Len(t) : t[a] = t[b] => a = b
        BY <1>1, <1>2, <1>3, <1>4
    <2>2. AllocatedNodes' = {t[j] : j \in 1..Len(t)}
        <3> HIDE DEF t
        <3>1. 1..Len(t) = 1..m \cup {m + 1}
            BY <1>1, <1>3
        <3>2. {t[j] : j \in 1..m} = {s[j] : j \in 1..m}
            BY <1>3
        <3>3. {t[j] : j \in 1..Len(t)} = {t[j] : j \in 1..m} \cup {t[m + 1]}
            BY <3>1
        <3>. QED
            BY <1>2, <1>3, <1>11, <3>2, <3>3
    <2>3. /\ size' = Len(t)
          /\ frst' = IF Len(t) = 0 THEN NULL ELSE t[1]
          /\ last' = IF Len(t) = 0 THEN NULL ELSE t[Len(t)]
        BY <1>1, <1>2, <1>3, <1>16
    <2>4. ASSUME NEW j \in 1..Len(t)
          PROVE  /\ node'[t[j]].next = IF j = Len(t) THEN NULL ELSE t[j + 1]
                 /\ node'[t[j]].prev = IF j = 1 THEN NULL ELSE t[j - 1]
        <3>1. CASE j = m + 1
            BY <1>1, <1>2, <1>3, <1>8, <3>1
        <3>2. CASE j \in 1..m
            BY <1>1, <1>2, <1>3, <1>9, <3>2
        <3>. QED
            BY <1>1, <1>3, <3>1, <3>2
    <2>. QED
        BY <1>3, <2>1, <2>2, <2>3, <2>4 DEF Chain
<1>19. EntriesOwned'
    <2>1. ASSUME NEW y \in AllocatedNodes', NEW z \in AllocatedNodes'
          PROVE  /\ node'[z].entry \in AllocatedEntries'
                 /\ node'[y].entry = node'[z].entry => y = z
        BY <1>8, <1>10, <1>11, <1>14, <1>15, <2>1 DEF EntriesOwned
    <2>. QED
        BY <2>1 DEF EntriesOwned
<1>20. KeysOnce'
    <2>1. \A y \in AllocatedNodes : KeyOf(y) # k
        BY <1>2, FindIs DEF AddNew
    <2>2. \A y \in AllocatedNodes : KeyOf(y)' = KeyOf(y)
        BY <1>10, <1>14, <1>15 DEF KeyOf, AllocatedEntries
    <2>3. entry'[node'[x].entry].key = k
        BY <1>8, <1>14
    <2>4. ASSUME NEW y \in AllocatedNodes', NEW z \in AllocatedNodes',
                 entry'[node'[y].entry].key = entry'[node'[z].entry].key
          PROVE  y = z
        BY <1>11, <2>1, <2>2, <2>3, <2>4 DEF KeyOf, KeysOnce
    <2>. QED
        BY <2>4 DEF KeysOnce, KeyOf
<1>21. \A j \in 1..m : /\ node'[s[j]].entry = node[s[j]].entry
                       /\ entry'[node[s[j]].entry] = entry[node[s[j]].entry]
    BY <1>2, <1>9, <1>14, <1>15 DEF AllocatedEntries
<1>22. entry'[node'[x].entry] = [key |-> k, value |-> v]
    BY <1>8, <1>14
<1>. QED
    BY <1>1, <1>3, <1>17, <1>18, <1>19, <1>20, <1>21, <1>22
-----------------------------------------------------------------------------
(* A node is unlinked.                                                       *)

(* The nodes without the one at place p. *)
Without(s, p) == [j \in 1..(Len(s) - 1) |-> IF j < p THEN s[j] ELSE s[j + 1]]

(* What the branches of list_remove have in common: the node at place p is   *)
(* freed with its entry and its neighbours point to each other.              *)
Unlinked(s, p) ==
    /\ Len(s) > 1
    /\ size' = size - 1
    /\ frst' = IF p = 1 THEN s[2] ELSE frst
    /\ last' = IF p = Len(s) THEN s[Len(s) - 1] ELSE last
    /\ DOMAIN node' = Nodes /\ node' = [y \in Nodes |-> node'[y]]
    /\ node'[s[p]] = Free
    /\ \A y \in Nodes : (\A j \in 1..Len(s) : y # s[j]) => node'[y] = node[y]
    /\ \A j \in 1..Len(s) : j # p =>
         /\ node'[s[j]] \in Cells
         /\ node'[s[j]].entry = node[s[j]].entry
         /\ node'[s[j]].next = IF j = p - 1 THEN node[s[p]].next ELSE node[s[j]].next
         /\ node'[s[j]].prev = IF j = p + 1 THEN node[s[p]].prev ELSE node[s[j]].prev
    /\ entry' = [entry EXCEPT ![node[s[p]].entry] = Free]

(* The nodes in front of place p stay where they are, those behind it move   *)
(* up by one.                                                                *)
LEMMA WithoutIs ==
    ASSUME NEW E, NEW s \in Seq(E), NEW p \in 1..Len(s)
    PROVE  /\ Without(s, p) \in Seq(E)
           /\ Len(Without(s, p)) = Len(s) - 1
           /\ \A j \in 1..(Len(s) - 1) :
                Without(s, p)[j] = IF j < p THEN s[j] ELSE s[j + 1]
<1>1. Len(s) \in Nat /\ s \in [1..Len(s) -> E]
    BY LenProperties
<1>2. Len(s) - 1 \in Nat
    BY <1>1
<1>3. \A j \in 1..(Len(s) - 1) : (IF j < p THEN s[j] ELSE s[j + 1]) \in E
    BY <1>1
<1>4. Without(s, p) \in [1..(Len(s) - 1) -> E]
    BY <1>3 DEF Without
<1>5. Without(s, p) \in Seq(E)
    BY <1>2, <1>4, SeqDef
<1>6. Len(Without(s, p)) \in Nat /\ DOMAIN Without(s, p) = 1..Len(Without(s, p))
    BY <1>5, LenProperties
<1>7. 1..Len(Without(s, p)) = 1..(Len(s) - 1)
    BY <1>4, <1>6
<1>8. Len(Without(s, p)) = Len(s) - 1
    BY <1>2, <1>6, <1>7
<1>. QED
    BY <1>5, <1>8 DEF Without

(* What is left is a list again, and the entry that was freed belongs to     *)
(* none of its nodes.                                                        *)
LEMMA UnlinkKeeps ==
    ASSUME NEW s, Listed(s), NEW p \in 1..Len(s), Unlinked(s, p),
           status' = status, ret' = CodeRet("remove", 0)
    PROVE  Listed(Without(s, p))'
<1> DEFINE t == Without(s, p)
           m == Len(s)
<1> USE DEF Listed
<1>1. /\ s \in Seq(Nodes) /\ m \in Nat
      /\ \A j \in 1..m : /\ s[j] \in Nodes /\ s[j] # NULL
                         /\ node[s[j]] \in Cells /\ node[s[j]] # Free
                         /\ s[j] \in AllocatedNodes
      /\ NULL \notin Nodes
    BY ChainCells
<1>2. /\ \A a, b \in 1..m : s[a] = s[b] => a = b
      /\ AllocatedNodes = {s[j] : j \in 1..m}
      /\ size = m
      /\ frst = IF m = 0 THEN NULL ELSE s[1]
      /\ last = IF m = 0 THEN NULL ELSE s[m]
      /\ \A j \in 1..m : /\ node[s[j]].next = IF j = m THEN NULL ELSE s[j + 1]
                         /\ node[s[j]].prev = IF j = 1 THEN NULL ELSE s[j - 1]
    BY DEF Chain
<1>3. /\ t \in Seq(Nodes) /\ Len(t) = m - 1
      /\ \A j \in 1..(m - 1) : t[j] = IF j < p THEN s[j] ELSE s[j + 1]
    BY <1>1, WithoutIs
<1>4. m > 1 /\ p \in 1..m
    BY DEF Unlinked
<1>5. /\ node \in [Nodes -> Cells \cup {Free}]
      /\ entry \in [Entries -> Pairs \cup {Free}]
      /\ Free \notin Cells /\ Free \notin Pairs
    BY HeapAssumption DEF TypeOK
<1> HIDE DEF t
<1>a. m \in Nat /\ m > 1 /\ p \in 1..m /\ Len(t) = m - 1
    BY <1>1, <1>3, <1>4
<1>6. \A j \in 1..m : j # p =>
         /\ node'[s[j]] \in Cells
         /\ node'[s[j]].entry = node[s[j]].entry
         /\ node'[s[j]].next = IF j = p - 1 THEN node[s[p]].next ELSE node[s[j]].next
         /\ node'[s[j]].prev = IF j = p + 1 THEN node[s[p]].prev ELSE node[s[j]].prev
    BY DEF Unlinked
<1>7. /\ AllocatedNodes' = AllocatedNodes \ {s[p]}
      /\ \A y \in Nodes : node'[y] \in Cells \cup {Free}
    <2>1. AllocatedNodes' = {y \in Nodes : node'[y] # Free}
        BY DEF AllocatedNodes
    <2>2. /\ \A y \in Nodes : y \notin AllocatedNodes => node'[y] = node[y]
          /\ node'[s[p]] = Free
        BY <1>2 DEF Unlinked
    <2>3. \A y \in AllocatedNodes : y # s[p] => node'[y] \in Cells
        BY <1>2, <1>6
    <2>4. AllocatedNodes \subseteq Nodes /\ \A y \in Nodes : y \notin AllocatedNodes => node[y] = Free
        BY DEF AllocatedNodes
    <2>. QED
        BY <1>5, <2>1, <2>2, <2>3, <2>4
<1>8. \A y \in AllocatedNodes : y # s[p] => node'[y].entry = node[y].entry
    BY <1>2, <1>6
<1> DEFINE d == node[s[p]].entry
<1>9. d \in Entries /\ d \in AllocatedEntries
    BY <1>1 DEF EntriesOwned, AllocatedEntries
<1>10. /\ entry' \in [Entries -> Pairs \cup {Free}]
       /\ \A f \in Entries : f # d => entry'[f] = entry[f]
       /\ AllocatedEntries' = AllocatedEntries \ {d}
    <2>1. entry' = [entry EXCEPT ![d] = Free]
        BY DEF Unlinked
    <2>2. AllocatedEntries' = {f \in Entries : entry'[f] # Free}
        BY DEF AllocatedEntries
    <2>. QED
        BY <1>5, <1>9, <2>1, <2>2 DEF AllocatedEntries
<1>11. \A y \in AllocatedNodes : y # s[p] =>
          node[y].entry \in AllocatedEntries /\ node[y].entry # d
    BY <1>1 DEF EntriesOwned
<1>12. TypeOK'
    <2>1. node' \in [Nodes -> Cells \cup {Free}]
        BY <1>7 DEF Unlinked
    <2>2. ret' \in [call : {"add", "remove", "size"}, code : Int]
        BY DEF CodeRet
    <2>3. {frst', last'} \subseteq Nodes \cup {NULL} /\ size' \in Nat
        BY <1>1, <1>2, <1>4 DEF Unlinked
    <2>4. status' \in {"up", "segv", "destroyed"}
        BY DEF TypeOK
    <2>. QED
        BY <1>10, <2>1, <2>2, <2>3, <2>4 DEF TypeOK
<1>13. Chain(t)'
    <2>1. ASSUME NEW a \in 1..Len(t), NEW b \in 1..Len(t), t[a] = t[b]
          PROVE  a = b
        <3> DEFINE g(c) == IF c < p THEN c ELSE c + 1
        <3>1. /\ a \in 1..(m - 1) /\ b \in 1..(m - 1)
              /\ g(a) \in 1..m /\ g(b) \in 1..m
            BY <1>a
        <3>2. t[a] = s[g(a)] /\ t[b] = s[g(b)]
            BY <1>3, <3>1
        <3>3. g(a) = g(b)
            <4>1. \A x, y \in 1..m : s[x] = s[y] => x = y
                BY <1>2
            <4> HIDE DEF g, m
            <4>. QED
                BY <2>1, <3>1, <3>2, <4>1, Zenon
        <3>. QED
            BY <1>a, <3>3
    <2>2. AllocatedNodes' = {t[j] : j \in 1..Len(t)}
        <3>1. ASSUME NEW y \in AllocatedNodes' PROVE \E j \in 1..Len(t) : y = t[j]
            <4>1. PICK q \in 1..m : y = s[q] /\ q # p
                BY <1>2, <1>7, <3>1
            <4>2. CASE q < p
                <5>1. q \in 1..Len(t) /\ t[q] = s[q]
                    BY <1>1, <1>3, <1>4, <4>1, <4>2
                <5>. QED
                    BY <4>1, <5>1
            <4>3. CASE q > p
                <5>1. /\ q - 1 \in 1..Len(t) /\ ~(q - 1 < p)
                      /\ (q - 1) + 1 = q
                    BY <1>a, <4>1, <4>3
                <5>2. t[q - 1] = s[q]
                    BY <1>3, <5>1
                <5>. QED
                    BY <4>1, <5>1, <5>2
            <4>. QED
                BY <1>4, <4>1, <4>2, <4>3
        <3>2. ASSUME NEW j \in 1..Len(t) PROVE t[j] \in AllocatedNodes'
            <4>1. PICK q \in 1..m : t[j] = s[q] /\ q # p
                <5>1. CASE j < p
                    BY <1>1, <1>3, <5>1, SMTT(30)
                <5>2. CASE ~(j < p)
                    BY <1>1, <1>3, <1>4, <5>2
                <5>. QED
                    BY <5>1, <5>2
            <4>2. s[q] # s[p] /\ s[q] \in AllocatedNodes
                BY <1>1, <1>2, <4>1
            <4>. QED
                BY <1>7, <4>1, <4>2
        <3>. QED
            BY <3>1, <3>2
    <2>3. size' = Len(t)
        BY <1>1, <1>2, <1>3 DEF Unlinked
    <2>4. frst' = IF Len(t) = 0 THEN NULL ELSE t[1]
        <3>1. 1 \in 1..(m - 1) /\ Len(t) # 0
            BY <1>1, <1>3, <1>4
        <3>2. t[1] = IF p = 1 THEN s[2] ELSE s[1]
            BY <1>3, <1>4, <3>1
        <3>. QED
            BY <1>2, <1>4, <3>1, <3>2 DEF Unlinked
    <2>5. last' = IF Len(t) = 0 THEN NULL ELSE t[Len(t)]
        BY <1>1, <1>2, <1>3, <1>4, SMTT(30) DEF Unlinked
    <2>6. ASSUME NEW j \in 1..Len(t)
          PROVE  /\ node'[t[j]].next = IF j = Len(t) THEN NULL ELSE t[j + 1]
                 /\ node'[t[j]].prev = IF j = 1 THEN NULL ELSE t[j - 1]
        <3>1. CASE j < p
            <4>1. t[j] = s[j] /\ j \in 1..m /\ j # p
                BY <1>1, <1>3, <3>1
            <4>2. node'[s[j]].next = IF j = p - 1 THEN node[s[p]].next ELSE node[s[j]].next
                BY <1>6, <4>1
            <4>3. node'[s[j]].prev = node[s[j]].prev
                BY <1>6, <3>1, <4>1
            <4>4. j # 1 => t[j - 1] = s[j - 1]
                BY <1>1, <1>3, <3>1, <4>1
            <4>5. j # Len(t) => t[j + 1] = IF j = p - 1 THEN s[p + 1] ELSE s[j + 1]
                BY <1>1, <1>3, <3>1, <4>1
            <4>6. j = Len(t) => p = m /\ j = p - 1
                BY <1>1, <1>3, <3>1
            <4>. QED
                BY <1>1, <1>2, <1>3, <1>4, <3>1, <4>1, <4>2, <4>3, <4>4, <4>5, <4>6, SMTT(30)
        <3>2. CASE j >= p
            <4>1. t[j] = s[j + 1] /\ j + 1 \in 1..m /\ j + 1 # p
                BY <1>1, <1>3, <3>2
            <4>2. node'[s[j + 1]].next = node[s[j + 1]].next
                BY <1>1, <1>6, <3>2, <4>1
            <4>3. node'[s[j + 1]].prev = IF j = p THEN node[s[p]].prev ELSE node[s[j + 1]].prev
                BY <1>1, <1>6, <3>2, <4>1
            <4>4. j # 1 => t[j - 1] = IF j = p THEN s[j - 1] ELSE s[j]
                <5> SUFFICES ASSUME j # 1
                             PROVE  t[j - 1] = IF j = p THEN s[j - 1] ELSE s[j]
                    OBVIOUS
                <5>1. /\ j - 1 \in 1..(m - 1) /\ (j - 1) + 1 = j
                      /\ j - 1 < p <=> j = p
                    BY <1>a, <3>2
                <5>. QED
                    BY <1>3, <5>1
            <4>5. j # Len(t) => t[j + 1] = s[j + 2]
                <5> SUFFICES ASSUME j # Len(t) PROVE t[j + 1] = s[j + 2]
                    OBVIOUS
                <5>1. /\ j + 1 \in 1..(m - 1) /\ (j + 1) + 1 = j + 2
                      /\ ~(j + 1 < p)
                    BY <1>a, <3>2
                <5>2. t[j + 1] = s[(j + 1) + 1]
                    BY <1>3, <5>1
                <5>. QED
                    BY <5>1, <5>2
            <4>. QED
                BY <1>1, <1>2, <1>3, <1>4, <3>2, <4>1, <4>2, <4>3, <4>4, <4>5
        <3>. QED
            BY <1>1, <1>3, <3>1, <3>2
    <2>. QED
        BY <1>3, <2>1, <2>2, <2>3, <2>4, <2>5, <2>6 DEF Chain
<1>14. EntriesOwned'
    <2>1. ASSUME NEW y \in AllocatedNodes', NEW z \in AllocatedNodes'
          PROVE  /\ node'[z].entry \in AllocatedEntries'
                 /\ node'[y].entry = node'[z].entry => y = z
        BY <1>7, <1>8, <1>10, <1>11, <2>1 DEF EntriesOwned
    <2>. QED
        BY <2>1 DEF EntriesOwned
<1>15. KeysOnce'
    <2>1. \A y \in AllocatedNodes' : y \in AllocatedNodes /\ KeyOf(y)' = KeyOf(y)
        BY <1>7, <1>8, <1>10, <1>11 DEF KeyOf, AllocatedEntries
    <2>2. ASSUME NEW y \in AllocatedNodes', NEW z \in AllocatedNodes',
                 entry'[node'[y].entry].key = entry'[node'[z].entry].key
          PROVE  y = z
        BY <2>1, <2>2 DEF KeyOf, KeysOnce
    <2>. QED
        BY <2>2 DEF KeysOnce, KeyOf
<1>. QED
    BY <1>12, <1>13, <1>14, <1>15 DEF t
(* Each branch of list_remove that frees a node unlinks the first one with    *)
(* the key.                                                                  *)
LEMMA RemoveUnlinks ==
    ASSUME NEW s, Listed(s), NEW k \in Keys,
           RemoveLast(k) \/ RemoveFirst(k) \/ RemoveMiddle(k)
    PROVE  /\ status' = status /\ ret' = CodeRet("remove", 0)
           /\ \E p \in 1..Len(s) :
                /\ Unlinked(s, p) /\ KeyOf(s[p]) = k
                /\ \A j \in 1..(p - 1) : KeyOf(s[j]) # k
<1> DEFINE m == Len(s)
<1> USE DEF Listed
<1>1. /\ s \in Seq(Nodes) /\ m \in Nat
      /\ \A j \in 1..m : s[j] \in Nodes /\ s[j] # NULL /\ node[s[j]] \in Cells
    BY ChainCells
<1>2. \A a, b \in 1..m : s[a] = s[b] => a = b
    BY DEF Chain
<1>3. /\ size = m
      /\ frst = IF m = 0 THEN NULL ELSE s[1]
      /\ last = IF m = 0 THEN NULL ELSE s[m]
      /\ \A j \in 1..m : /\ node[s[j]].next = IF j = m THEN NULL ELSE s[j + 1]
                         /\ node[s[j]].prev = IF j = 1 THEN NULL ELSE s[j - 1]
    BY DEF Chain
<1>4. node \in [Nodes -> Cells \cup {Free}]
    BY DEF TypeOK
<1>5. Removing(k)
    BY DEF RemoveLast, RemoveFirst, RemoveMiddle
<1>6. PICK p \in 1..m : /\ Find(k) = s[p] /\ KeyOf(s[p]) = k
                        /\ \A j \in 1..(p - 1) : KeyOf(s[j]) # k
    BY <1>5, FindIs DEF Removing
<1>7. /\ size' = size - 1 /\ status' = status /\ ret' = CodeRet("remove", 0)
    BY <1>5 DEF Removing
(* The cells of the new heap, given where the two neighbours were written. *)
<1>8. ASSUME NEW nodes \in [Nodes -> Cells \cup {Free}],
             NodeDestroy(s[p], nodes),
             \A y \in Nodes : (\A j \in 1..m : y # s[j]) => nodes[y] = node[y],
             \A j \in 1..m : j # p =>
               /\ nodes[s[j]] \in Cells
               /\ nodes[s[j]].entry = node[s[j]].entry
               /\ nodes[s[j]].next = IF j = p - 1 THEN node[s[p]].next ELSE node[s[j]].next
               /\ nodes[s[j]].prev = IF j = p + 1 THEN node[s[p]].prev ELSE node[s[j]].prev,
             m > 1,
             frst' = IF p = 1 THEN s[2] ELSE frst,
             last' = IF p = m THEN s[m - 1] ELSE last
      PROVE  Unlinked(s, p)
    <2>1. /\ node' = [nodes EXCEPT ![s[p]] = Free]
          /\ entry' = [entry EXCEPT ![node[s[p]].entry] = Free]
        BY <1>8 DEF NodeDestroy
    <2>2. /\ DOMAIN node' = Nodes /\ node' = [y \in Nodes |-> node'[y]]
          /\ node'[s[p]] = Free
          /\ \A y \in Nodes : y # s[p] => node'[y] = nodes[y]
        BY <1>1, <2>1
    <2>3. \A j \in 1..m : j # p => s[j] # s[p] /\ node'[s[j]] = nodes[s[j]]
        BY <1>1, <1>2, <2>2
    <2>4. \A y \in Nodes : (\A j \in 1..m : y # s[j]) => node'[y] = node[y]
        BY <1>8, <2>2
    <2>5. \A j \in 1..m : j # p =>
               /\ node'[s[j]] \in Cells
               /\ node'[s[j]].entry = node[s[j]].entry
               /\ node'[s[j]].next = IF j = p - 1 THEN node[s[p]].next ELSE node[s[j]].next
               /\ node'[s[j]].prev = IF j = p + 1 THEN node[s[p]].prev ELSE node[s[j]].prev
        BY <1>8, <2>3
    <2>. QED
        BY <1>7, <1>8, <2>1, <2>2, <2>4, <2>5 DEF Unlinked
<1>9. CASE RemoveLast(k)
    <2>1. p = m /\ m > 1
        <3>1. s[p] = s[m] /\ node[s[m]].prev # NULL /\ m # 0
            BY <1>1, <1>3, <1>6, <1>9 DEF RemoveLast
        <3>2. p = m
            BY <1>1, <1>2, <3>1
        <3>. QED
            BY <1>1, <1>3, <3>1, <3>2
    <2>2. /\ node[s[m]].next = NULL /\ last = s[m] /\ m - 1 \in 1..m
          /\ node[last].prev = s[m - 1] /\ s[m - 1] \in Nodes /\ s[m - 1] # s[m]
          /\ node[s[m - 1]] \in Cells
        BY <1>1, <1>2, <1>3, <2>1
    <2> DEFINE nodes == [node EXCEPT ![s[m - 1]].next = NULL]
    <2>3. /\ \A y \in Nodes : y # s[m - 1] => nodes[y] = node[y]
          /\ nodes[s[m - 1]] = [node[s[m - 1]] EXCEPT !.next = NULL]
          /\ DOMAIN nodes = Nodes
        BY <1>4, <2>2
    <2>4. /\ nodes[s[m - 1]] \in Cells
          /\ nodes[s[m - 1]].entry = node[s[m - 1]].entry
          /\ nodes[s[m - 1]].next = NULL
          /\ nodes[s[m - 1]].prev = node[s[m - 1]].prev
        BY <2>2, <2>3 DEF Cells
    <2>5. nodes \in [Nodes -> Cells \cup {Free}]
        BY <1>4, <2>3, <2>4
    <2>6. NodeDestroy(s[p], nodes) /\ last' = s[m - 1] /\ frst' = frst
        BY <1>9, <2>1, <2>2 DEF RemoveLast
    <2> HIDE DEF nodes
    <2>7. ASSUME NEW j \in 1..m, j # p
          PROVE  /\ nodes[s[j]] \in Cells
                 /\ nodes[s[j]].entry = node[s[j]].entry
                 /\ nodes[s[j]].next = IF j = p - 1 THEN node[s[p]].next ELSE node[s[j]].next
                 /\ nodes[s[j]].prev = IF j = p + 1 THEN node[s[p]].prev ELSE node[s[j]].prev
        <3>0. j # p + 1
            BY <1>1, <2>1
        <3>1. CASE j = m - 1
            BY <2>1, <2>2, <2>4, <3>0, <3>1
        <3>2. CASE j # m - 1
            <4>1. s[j] # s[m - 1]
                BY <1>2, <2>2, <3>2
            <4>2. nodes[s[j]] = node[s[j]]
                BY <1>1, <2>3, <4>1
            <4>. QED
                BY <1>1, <2>1, <2>7, <3>0, <3>2, <4>2
        <3>. QED
            BY <3>1, <3>2
    <2>8. \A y \in Nodes : (\A j \in 1..m : y # s[j]) => nodes[y] = node[y]
        BY <2>2, <2>3
    <2>9. Unlinked(s, p)
        BY <1>8, <2>1, <2>5, <2>6, <2>7, <2>8
    <2>. QED
        BY <1>6, <1>7, <2>9
<1>10. CASE RemoveFirst(k)
    <2>1. p = 1 /\ m > 1
        <3>1. s[p] = s[1] /\ s[1] # s[m] /\ m # 0
            BY <1>1, <1>3, <1>6, <1>10 DEF RemoveFirst
        <3>2. p = 1
            BY <1>1, <1>2, <3>1
        <3>. QED
            BY <1>1, <3>1, <3>2
    <2>2. /\ node[s[1]].prev = NULL /\ frst = s[1] /\ 2 \in 1..m
          /\ node[frst].next = s[2] /\ s[2] \in Nodes /\ s[2] # s[1]
          /\ node[s[2]] \in Cells
        BY <1>1, <1>2, <1>3, <2>1
    <2> DEFINE nodes == [node EXCEPT ![s[2]].prev = NULL]
    <2>3. /\ \A y \in Nodes : y # s[2] => nodes[y] = node[y]
          /\ nodes[s[2]] = [node[s[2]] EXCEPT !.prev = NULL]
          /\ DOMAIN nodes = Nodes
        BY <1>4, <2>2
    <2>4. /\ nodes[s[2]] \in Cells
          /\ nodes[s[2]].entry = node[s[2]].entry
          /\ nodes[s[2]].next = node[s[2]].next
          /\ nodes[s[2]].prev = NULL
        BY <2>2, <2>3 DEF Cells
    <2>5. nodes \in [Nodes -> Cells \cup {Free}]
        BY <1>4, <2>3, <2>4
    <2>6. NodeDestroy(s[p], nodes) /\ last' = last /\ frst' = s[2]
        BY <1>10, <2>1, <2>2 DEF RemoveFirst
    <2> HIDE DEF nodes
    <2>7. ASSUME NEW j \in 1..m, j # p
          PROVE  /\ nodes[s[j]] \in Cells
                 /\ nodes[s[j]].entry = node[s[j]].entry
                 /\ nodes[s[j]].next = IF j = p - 1 THEN node[s[p]].next ELSE node[s[j]].next
                 /\ nodes[s[j]].prev = IF j = p + 1 THEN node[s[p]].prev ELSE node[s[j]].prev
        <3>0. j # p - 1
            BY <1>1, <2>1
        <3>1. CASE j = 2
            BY <2>1, <2>2, <2>4, <3>0, <3>1
        <3>2. CASE j # 2
            <4>1. s[j] # s[2]
                BY <1>2, <2>2, <3>2
            <4>2. nodes[s[j]] = node[s[j]]
                BY <1>1, <2>3, <4>1
            <4>. QED
                BY <1>1, <2>1, <2>7, <3>0, <3>2, <4>2
        <3>. QED
            BY <3>1, <3>2
    <2>8. \A y \in Nodes : (\A j \in 1..m : y # s[j]) => nodes[y] = node[y]
        BY <2>2, <2>3
    <2>9. p # m
        BY <1>1, <2>1
    <2>10. Unlinked(s, p)
        BY <1>8, <2>1, <2>5, <2>6, <2>7, <2>8, <2>9
    <2>. QED
        BY <1>6, <1>7, <2>10
<1>11. CASE RemoveMiddle(k)
    <2>1. 1 < p /\ p < m
        <3>1. s[p] # s[1] /\ s[p] # s[m]
            <4>1. Find(k) \notin {frst, last}
                BY <1>11, Zenon DEF RemoveMiddle
            <4>2. m # 0
                BY <1>1
            <4>. QED
                BY <1>3, <1>6, <4>1, <4>2
        <3>. QED
            BY <1>1, <3>1
    <2>2. p - 1 \in 1..m /\ p + 1 \in 1..m /\ p - 1 # p + 1 /\ p # 1 /\ p # m /\ m > 1
        BY <1>1, <2>1
    <2>3. /\ node[s[p]].prev = s[p - 1] /\ node[s[p]].next = s[p + 1]
          /\ s[p - 1] \in Nodes /\ s[p + 1] \in Nodes /\ s[p - 1] # s[p + 1]
          /\ node[s[p - 1]] \in Cells /\ node[s[p + 1]] \in Cells
        BY <1>1, <1>2, <1>3, <2>2
    <2> DEFINE nodes == [node EXCEPT ![s[p + 1]].prev = s[p - 1],
                                     ![s[p - 1]].next = s[p + 1]]
    <2>4. /\ \A y \in Nodes : y # s[p - 1] /\ y # s[p + 1] => nodes[y] = node[y]
          /\ nodes[s[p + 1]] = [node[s[p + 1]] EXCEPT !.prev = s[p - 1]]
          /\ nodes[s[p - 1]] = [node[s[p - 1]] EXCEPT !.next = s[p + 1]]
          /\ DOMAIN nodes = Nodes
        BY <1>4, <2>3
    <2>5. /\ nodes[s[p + 1]] \in Cells
          /\ nodes[s[p + 1]].entry = node[s[p + 1]].entry
          /\ nodes[s[p + 1]].next = node[s[p + 1]].next
          /\ nodes[s[p + 1]].prev = s[p - 1]
        BY <2>3, <2>4 DEF Cells
    <2>6. /\ nodes[s[p - 1]] \in Cells
          /\ nodes[s[p - 1]].entry = node[s[p - 1]].entry
          /\ nodes[s[p - 1]].next = s[p + 1]
          /\ nodes[s[p - 1]].prev = node[s[p - 1]].prev
        BY <2>3, <2>4 DEF Cells
    <2>7. nodes \in [Nodes -> Cells \cup {Free}]
        BY <1>4, <2>4, <2>5, <2>6
    <2>8. NodeDestroy(s[p], nodes) /\ last' = last /\ frst' = frst
        BY <1>6, <1>11, <2>3 DEF RemoveMiddle
    <2> HIDE DEF nodes
    <2>9. ASSUME NEW j \in 1..m, j # p
          PROVE  /\ nodes[s[j]] \in Cells
                 /\ nodes[s[j]].entry = node[s[j]].entry
                 /\ nodes[s[j]].next = IF j = p - 1 THEN node[s[p]].next ELSE node[s[j]].next
                 /\ nodes[s[j]].prev = IF j = p + 1 THEN node[s[p]].prev ELSE node[s[j]].prev
        <3>1. CASE j = p + 1
            BY <2>2, <2>3, <2>5, <3>1
        <3>2. CASE j = p - 1
            BY <2>2, <2>3, <2>6, <3>2
        <3>3. CASE j # p - 1 /\ j # p + 1
            <4>1. s[j] # s[p - 1] /\ s[j] # s[p + 1]
                BY <1>2, <2>2, <3>3
            <4>2. nodes[s[j]] = node[s[j]]
                BY <1>1, <2>4, <4>1
            <4>. QED
                BY <1>1, <3>3, <4>2
        <3>. QED
            BY <3>1, <3>2, <3>3
    <2>10. \A y \in Nodes : (\A j \in 1..m : y # s[j]) => nodes[y] = node[y]
        BY <2>2, <2>4
    <2>11. Unlinked(s, p)
        BY <1>8, <2>2, <2>7, <2>8, <2>9, <2>10
    <2>. QED
        BY <1>6, <1>7, <2>11
<1>. QED
    BY <1>9, <1>10, <1>11
-----------------------------------------------------------------------------
(* The other calls.                                                          *)

(* A replacement changes which entry one node points to and nothing else that *)
(* a walk can see; the old entry stays allocated.                            *)
LEMMA AddReplaceKeeps ==
    ASSUME NEW s, Listed(s), NEW k \in Keys, NEW v \in Vals,
           NEW e \in Entries, AddReplace(k, v, e)
    PROVE  /\ Listed(s)'
           /\ \E p \in 1..Len(s) :
                /\ KeyOf(s[p]) = k
                /\ \A j \in 1..(p - 1) : KeyOf(s[j]) # k
                /\ entry'[node'[s[p]].entry] = [key |-> k, value |-> v]
                /\ \A j \in 1..Len(s) : j # p =>
                     entry'[node'[s[j]].entry] = entry[node[s[j]].entry]
<1> DEFINE m == Len(s)
<1> USE DEF Listed
<1>1. /\ s \in Seq(Nodes) /\ m \in Nat
      /\ \A j \in 1..m : /\ s[j] \in Nodes /\ node[s[j]] \in Cells
                         /\ s[j] \in AllocatedNodes
    BY ChainCells
<1>2. /\ \A a, b \in 1..m : s[a] = s[b] => a = b
      /\ AllocatedNodes = {s[j] : j \in 1..m}
    BY DEF Chain
<1>3. PICK p \in 1..m : /\ Find(k) = s[p] /\ KeyOf(s[p]) = k
                        /\ \A j \in 1..(p - 1) : KeyOf(s[j]) # k
    BY FindIs DEF AddReplace
<1>4. /\ node \in [Nodes -> Cells \cup {Free}]
      /\ entry \in [Entries -> Pairs \cup {Free}]
      /\ Free \notin Cells /\ Free \notin Pairs
    BY HeapAssumption DEF TypeOK
<1>5. /\ node' = [node EXCEPT ![s[p]].entry = e]
      /\ entry' = [entry EXCEPT ![e] = [key |-> k, value |-> v]]
      /\ e \notin AllocatedEntries
      /\ ret' = CodeRet("add", 1)
      /\ size' = size /\ frst' = frst /\ last' = last /\ status' = status
    BY <1>3 DEF AddReplace, MakeEntry, list
<1>6. /\ DOMAIN node' = Nodes
      /\ \A y \in Nodes : y # s[p] => node'[y] = node[y]
      /\ node'[s[p]] = [node[s[p]] EXCEPT !.entry = e]
    BY <1>1, <1>4, <1>5
<1>7. /\ node'[s[p]] \in Cells
      /\ node'[s[p]].entry = e
      /\ node'[s[p]].next = node[s[p]].next
      /\ node'[s[p]].prev = node[s[p]].prev
    BY <1>1, <1>6 DEF Cells
<1>8. /\ node' \in [Nodes -> Cells \cup {Free}]
      /\ AllocatedNodes' = AllocatedNodes
    <2>1. AllocatedNodes' = {y \in Nodes : node'[y] # Free}
        BY DEF AllocatedNodes
    <2>2. s[p] \in AllocatedNodes
        BY <1>1
    <2>3. \A y \in Nodes : node'[y] # Free <=> node[y] # Free
        BY <1>4, <1>6, <1>7, <2>2 DEF AllocatedNodes
    <2>4. \A y \in Nodes : node'[y] \in Cells \cup {Free}
        BY <1>4, <1>6, <1>7
    <2>5. node' = [y \in Nodes |-> node'[y]]
        BY <1>4, <1>5
    <2>. QED
        BY <2>1, <2>3, <2>4, <2>5 DEF AllocatedNodes
<1>9. [key |-> k, value |-> v] \in Pairs
    BY DEF Pairs
<1>10. /\ entry' \in [Entries -> Pairs \cup {Free}]
       /\ entry'[e] = [key |-> k, value |-> v]
       /\ \A d \in Entries : d # e => entry'[d] = entry[d]
       /\ AllocatedEntries' = AllocatedEntries \cup {e}
    <2>1. AllocatedEntries' = {d \in Entries : entry'[d] # Free}
        BY DEF AllocatedEntries
    <2>. QED
        BY <1>4, <1>5, <1>9, <2>1 DEF AllocatedEntries
<1>11. \A y \in AllocatedNodes : node[y].entry \in AllocatedEntries /\ node[y].entry # e
    BY <1>5 DEF EntriesOwned
<1>12. TypeOK'
    <2>1. ret' \in [call : {"add", "remove", "size"}, code : Int]
        BY <1>5 DEF CodeRet
    <2>. QED
        BY <1>5, <1>8, <1>10, <2>1 DEF TypeOK
<1>13. Chain(s)'
    <2>1. \A j \in 1..m : /\ node'[s[j]].next = node[s[j]].next
                          /\ node'[s[j]].prev = node[s[j]].prev
        BY <1>1, <1>6, <1>7
    <2>. QED
        BY <1>5, <1>8, <2>1 DEF Chain
<1>14. \A y \in AllocatedNodes : /\ y # s[p] => node'[y].entry = node[y].entry
                                 /\ y \in Nodes
    BY <1>6 DEF AllocatedNodes
<1>15. EntriesOwned'
    <2>1. ASSUME NEW y \in AllocatedNodes', NEW z \in AllocatedNodes'
          PROVE  /\ node'[z].entry \in AllocatedEntries'
                 /\ node'[y].entry = node'[z].entry => y = z
        BY <1>7, <1>8, <1>10, <1>11, <1>14, <2>1 DEF EntriesOwned
    <2>. QED
        BY <2>1 DEF EntriesOwned
<1>16. KeysOnce'
    <2>1. \A y \in AllocatedNodes : entry'[node'[y].entry].key = KeyOf(y)
        BY <1>3, <1>7, <1>10, <1>11, <1>14 DEF KeyOf, AllocatedEntries
    <2>2. ASSUME NEW y \in AllocatedNodes', NEW z \in AllocatedNodes',
                 entry'[node'[y].entry].key = entry'[node'[z].entry].key
          PROVE  y = z
        BY <1>8, <2>1, <2>2 DEF KeysOnce
    <2>. QED
        BY <2>2 DEF KeysOnce, KeyOf
<1>17. entry'[node'[s[p]].entry] = [key |-> k, value |-> v]
    BY <1>7, <1>10
<1>18. \A j \in 1..m : j # p => entry'[node'[s[j]].entry] = entry[node[s[j]].entry]
    BY <1>1, <1>2, <1>10, <1>11, <1>14 DEF AllocatedEntries
<1>. QED
    BY <1>3, <1>12, <1>13, <1>15, <1>16, <1>17, <1>18

(* list_destroy gives back every node, also when there is only one.          *)
LEMMA DestroyKeeps ==
    ASSUME NEW s, Listed(s), Destroy
    PROVE  Listed(<<>>)' /\ <<>> \in Seq(Nodes) /\ Len(<<>>) = 0
<1> DEFINE m == Len(s)
<1> USE DEF Listed
<1>1. /\ s \in Seq(Nodes) /\ m \in Nat /\ DOMAIN s = 1..m
      /\ AllocatedNodes = {s[j] : j \in 1..m} /\ size = m
      /\ frst = IF m = 0 THEN NULL ELSE s[1]
    BY ChainCells DEF Chain
<1>2. Destroyed = AllocatedNodes
    <2>1. Visited = s
        BY VisitedIs
    <2>2. CASE m = 1
        BY <1>1, <2>2 DEF Destroyed
    <2>3. CASE m > 1
        BY <1>1, <2>1, <2>3 DEF Destroyed
    <2>4. CASE m = 0
        BY <1>1, <2>4 DEF Destroyed
    <2>. QED
        BY <1>1, <2>2, <2>3, <2>4
<1>3. /\ node \in [Nodes -> Cells \cup {Free}]
      /\ entry \in [Entries -> Pairs \cup {Free}]
    BY DEF TypeOK
<1>4. \A y \in Nodes : node'[y] = Free
    BY <1>2 DEF Destroy, AllocatedNodes
<1>5. /\ size' = 0 /\ frst' = NULL /\ last' = NULL
      /\ status' = "destroyed" /\ ret' = ret
      /\ node' = [y \in Nodes |-> IF y \in Destroyed THEN Free ELSE node[y]]
      /\ entry' \in [Entries -> Pairs \cup {Free}]
    BY <1>3 DEF Destroy
<1>6. AllocatedNodes' = {}
    BY <1>4 DEF AllocatedNodes
<1>7. TypeOK'
    <2>1. node' \in [Nodes -> Cells \cup {Free}]
        BY <1>3, <1>5
    <2>. QED
        BY <1>5, <2>1 DEF TypeOK
<1>8. <<>> \in Seq(Nodes) /\ Len(<<>>) = 0
    BY EmptySeq
<1>9. Chain(<<>>)'
    BY <1>5, <1>6, <1>8 DEF Chain
<1>10. EntriesOwned' /\ KeysOnce'
    BY <1>6 DEF EntriesOwned, KeysOnce
<1>. QED
    BY <1>7, <1>8, <1>9, <1>10

(* A step that touches neither the list nor the heap. *)
LEMMA NothingKeeps ==
    ASSUME NEW s, Listed(s), UNCHANGED <<list, heap>>,
           status' \in {"up", "segv", "destroyed"},
           ret' \in [call : {"add", "remove", "size"}, code : Int]
                   \cup [call : {"get"}, entry : Pairs \cup {NULL}]
                   \cup [call : {"get_keys"}, keys : Seq(Keys)]
                   \cup [call : {"none"}]
    PROVE  /\ Listed(s)'
           /\ \A y : node'[y] = node[y] /\ entry'[y] = entry[y]
<1>1. /\ size' = size /\ frst' = frst /\ last' = last
      /\ node' = node /\ entry' = entry
    BY DEF list, heap
<1>2. AllocatedNodes' = AllocatedNodes /\ AllocatedEntries' = AllocatedEntries
    BY <1>1 DEF AllocatedNodes, AllocatedEntries
<1>3. TypeOK'
    BY <1>1 DEF Listed, TypeOK
<1>4. Chain(s)'
    BY <1>1, <1>2 DEF Listed, Chain
<1>5. EntriesOwned'
    BY <1>1, <1>2 DEF Listed, EntriesOwned
<1>6. KeysOnce'
    BY <1>1, <1>2 DEF Listed, KeysOnce, KeyOf
<1>. QED
    BY <1>1, <1>3, <1>4, <1>5, <1>6 DEF Listed

(* The answers of the calls that read. *)
LEMMA GetAnswers ==
    ASSUME NEW s, Listed(s), NEW k, Get(k)
    PROVE  /\ ret' \in [call : {"get"}, entry : Pairs \cup {NULL}]
           /\ UNCHANGED <<list, heap, status>>
<1>1. ListGet(k) # NULL => entry[ListGet(k)] \in Pairs
    <2> SUFFICES ASSUME ListGet(k) # NULL PROVE entry[ListGet(k)] \in Pairs
        OBVIOUS
    <2>1. PICK p \in 1..Len(s) : ListGet(k) = node[s[p]].entry
        BY FindIs DEF Listed
    <2>2. s[p] \in AllocatedNodes
        BY ChainCells DEF Listed
    <2>3. ListGet(k) \in AllocatedEntries
        BY <2>1, <2>2 DEF Listed, EntriesOwned
    <2>. QED
        BY <2>3 DEF AllocatedEntries, Listed, TypeOK
<1>. QED
    BY <1>1 DEF Get

(* list_get_keys answers with the key of every node, head first.             *)
LEMMA GetKeysAnswers ==
    ASSUME NEW s, Listed(s), GetKeys
    PROVE  /\ ret' = [call |-> "get_keys",
                      keys |-> [j \in 1..Len(s) |-> KeyOf(s[j])]]
           /\ ret' \in [call : {"get_keys"}, keys : Seq(Keys)]
           /\ UNCHANGED <<list, heap, status>>
<1> DEFINE m == Len(s)
<1>1. /\ s \in Seq(Nodes) /\ m \in Nat
      /\ \A j \in 1..m : s[j] \in AllocatedNodes
    BY ChainCells DEF Listed
<1>2. \A j \in 1..m : KeyOf(s[j]) \in Keys
    BY <1>1 DEF Listed, EntriesOwned, AllocatedEntries, TypeOK, Pairs, KeyOf
<1>3. \A j \in 1..m : Walk[j - 1] = s[j]
    <2>1. Walk = [j \in 0..Cardinality(Nodes) |-> IF j < m THEN s[j + 1] ELSE NULL]
        BY WalkIs DEF Listed
    <2>2. m <= Cardinality(Nodes) /\ Cardinality(Nodes) \in Nat
        BY <1>1, ChainFits DEF Listed, Chain
    <2>. QED
        BY <1>1, <2>1, <2>2
<1>4. size = m
    BY DEF Listed, Chain
<1>5. ret' = [call |-> "get_keys", keys |-> [j \in 1..m |-> KeyOf(s[j])]]
    BY <1>3, <1>4 DEF GetKeys
<1>6. [j \in 1..m |-> KeyOf(s[j])] \in Seq(Keys)
    <2>1. [j \in 1..m |-> KeyOf(s[j])] \in [1..m -> Keys]
        BY <1>2
    <2>. QED
        BY <1>1, <2>1, SeqDef
<1>7. ret' \in [call : {"get_keys"}, keys : Seq(Keys)]
    BY <1>5, <1>6
<1>8. UNCHANGED <<list, heap, status>>
    BY DEF GetKeys
<1>. QED
    BY <1>5, <1>7, <1>8
-----------------------------------------------------------------------------
(* LInv is inductive.                                                        *)

(* The list list_create returns is empty and so is the heap.                 *)
LEMMA InitListed == Init => Listed(<<>>)
<1> SUFFICES ASSUME Init PROVE Listed(<<>>)
    OBVIOUS
<1>1. <<>> \in Seq(Nodes) /\ Len(<<>>) = 0
    BY EmptySeq
<1>2. AllocatedNodes = {}
    BY DEF Init, AllocatedNodes
<1>3. TypeOK
    <2>1. ret \in [call : {"none"}]
        BY DEF Init
    <2>. QED
        BY <2>1 DEF Init, TypeOK
<1>4. Chain(<<>>)
    BY <1>1, <1>2 DEF Init, Chain
<1>. QED
    BY <1>2, <1>3, <1>4 DEF Listed, EntriesOwned, KeysOnce

(* Every call of list.c leaves the allocated nodes a list.                   *)
LEMMA NextListed ==
    ASSUME NEW s, Listed(s), [Next]_vars
    PROVE  \E t : Listed(t)'
<1>0. TypeOK /\ size \in Int
    BY DEF Listed, TypeOK
<1>1. ASSUME NEW k \in Keys, NEW v \in Vals, NEW e \in Entries, AddReplace(k, v, e)
      PROVE  Listed(s)'
    BY <1>1, AddReplaceKeeps
<1>2. ASSUME NEW k \in Keys, NEW v \in Vals, NEW e \in Entries, NEW x \in Nodes,
             AddNew(k, v, e, x)
      PROVE  Listed(Append(s, x))'
    BY <1>2, AddNewKeeps
<1>3. ASSUME NEW k \in Keys, RemoveLast(k) \/ RemoveFirst(k) \/ RemoveMiddle(k)
      PROVE  \E t : Listed(t)'
    <2>1. /\ status' = status /\ ret' = CodeRet("remove", 0)
          /\ \E p \in 1..Len(s) : Unlinked(s, p)
        BY <1>3, RemoveUnlinks
    <2>2. PICK p \in 1..Len(s) : Unlinked(s, p)
        BY <2>1
    <2>3. Listed(Without(s, p))'
        BY <2>1, <2>2, UnlinkKeeps
    <2>. QED
        BY <2>3
<1>4. ASSUME NEW k \in Keys, RemoveSole(k)
      PROVE  Listed(s)'
    BY <1>0, <1>4, NothingKeeps DEF RemoveSole, TypeOK
<1>5. ASSUME NEW k \in Keys, RemoveNothing(k)
      PROVE  Listed(s)'
    <2>1. ret' \in [call : {"add", "remove", "size"}, code : Int]
        BY <1>5 DEF RemoveNothing, CodeRet
    <2>. QED
        BY <1>0, <1>5, <2>1, NothingKeeps DEF RemoveNothing, TypeOK
<1>6. ASSUME NEW k \in Keys, Get(k)
      PROVE  Listed(s)'
    BY <1>0, <1>6, GetAnswers, NothingKeeps DEF TypeOK
<1>7. ASSUME AddNothing PROVE Listed(s)'
    <2>1. ret' \in [call : {"add", "remove", "size"}, code : Int]
        BY <1>7 DEF AddNothing, CodeRet
    <2>. QED
        BY <1>0, <1>7, <2>1, NothingKeeps DEF AddNothing, TypeOK
<1>8. ASSUME ListSize PROVE Listed(s)'
    <2>1. ret' \in [call : {"add", "remove", "size"}, code : Int]
        BY <1>0, <1>8 DEF ListSize, CodeRet
    <2>. QED
        BY <1>0, <1>8, <2>1, NothingKeeps DEF ListSize, TypeOK
<1>9. ASSUME GetKeys PROVE Listed(s)'
    BY <1>0, <1>9, GetKeysAnswers, NothingKeeps DEF TypeOK
<1>10. ASSUME FreeKeysCrash PROVE Listed(s)'
    BY <1>0, <1>10, NothingKeeps DEF FreeKeysCrash, TypeOK
<1>11. ASSUME Destroy PROVE Listed(<<>>)'
    BY <1>11, DestroyKeeps
<1>12. ASSUME UNCHANGED vars PROVE Listed(s)'
    BY <1>0, <1>12, NothingKeeps DEF vars, list, heap, TypeOK
<1>. QED
    BY <1>1, <1>2, <1>3, <1>4, <1>5, <1>6, <1>7, <1>8, <1>9, <1>10, <1>11, <1>12
    DEF Next

(* In every reachable state the allocated nodes are one list, linked both     *)
(* ways, of entries of their own with different keys.                        *)
THEOREM ListInvariance == Spec => []LInv
<1> DEFINE Some == \E s : Listed(s)
<1>1. Init => Some
    BY InitListed
<1>2. Some /\ [Next]_vars => Some'
    <2> SUFFICES ASSUME Some, [Next]_vars PROVE Some'
        OBVIOUS
    <2>1. PICK s : Listed(s)
        OBVIOUS
    <2>2. \E t : Listed(t)'
        BY <2>1, NextListed
    <2>. QED
        BY <2>2
<1>3. Some => LInv
    BY ListedIs
<1>. QED
    BY <1>1, <1>2, <1>3, PTL DEF Spec

(* A list_t, its nodes and its entries keep their shape.                     *)
THEOREM ListTypeCorrect == Spec => []TypeOK
<1>1. LInv => TypeOK
    BY DEF LInv
<1>. QED
    BY <1>1, ListInvariance, PTL

(* After any series of calls of list.c both directions of the list agree     *)
(* with each other and with size, frst and last.                             *)
THEOREM WellLinkedCorrect == Spec => []WellLinked
<1>1. LInv => WellLinked
    <2> SUFFICES ASSUME LInv PROVE WellLinked
        OBVIOUS
    <2> DEFINE s == Visited
               m == Len(s)
    <2>1. Chain(s)
        BY DEF LInv
    <2>2. m \in Nat
        BY <2>1, LenProperties DEF Chain
    <2> HIDE DEF s
    <2>3. /\ size = m
          /\ m > 0 => s[1] = frst /\ s[m] = last
          /\ m = 0 => frst = NULL /\ last = NULL
          /\ \A j \in 1..m : /\ node[s[j]].next = IF j = m THEN NULL ELSE s[j + 1]
                             /\ node[s[j]].prev = IF j = 1 THEN NULL ELSE s[j - 1]
        BY <2>1, <2>2 DEF Chain
    <2>. QED
        BY <2>3 DEF WellLinked, s
<1>. QED
    BY <1>1, ListInvariance, PTL

(* list_remove and list_destroy give back every node they unlink.            *)
THEOREM NoNodeLostCorrect == Spec => []NoNodeLost
<1>1. LInv => NoNodeLost
    <2> SUFFICES ASSUME LInv PROVE NoNodeLost
        OBVIOUS
    <2>1. Chain(Visited)
        BY DEF LInv
    <2>2. DOMAIN Visited = 1..Len(Visited)
        BY <2>1, LenProperties DEF Chain
    <2>. QED
        BY <2>1, <2>2 DEF NoNodeLost, Chain
<1>. QED
    BY <1>1, ListInvariance, PTL

(* No node points to a freed entry and no two to the same one, so an entry    *)
(* is freed once.                                                            *)
THEOREM EntriesOwnedCorrect == Spec => []EntriesOwned
<1>1. LInv => EntriesOwned
    BY DEF LInv
<1>. QED
    BY <1>1, ListInvariance, PTL
-----------------------------------------------------------------------------
(* The pointers implement the sequence.                                      *)

Seqs == INSTANCE EntrySeqTheorems

(* The entries of the nodes of s, in their order. *)
Held(s) == [j \in 1..Len(s) |-> entry[node[s[j]].entry]]

(* What the list holds, in terms of the sequence of its nodes.               *)
LEMMA ContentsIs == \A s : Listed(s) => Contents = Held(s)
BY VisitedIs DEF Listed, Contents, Held

(* It is a sequence of entries with different keys, as long as the list.     *)
LEMMA HeldIs ==
    ASSUME NEW s, Listed(s)
    PROVE  /\ Held(s) \in Seq(Pairs) /\ Len(Held(s)) = Len(s)
           /\ DOMAIN Held(s) = 1..Len(s)
           /\ \A j \in 1..Len(s) : /\ Held(s)[j] = entry[node[s[j]].entry]
                                   /\ Held(s)[j] \in Pairs
                                   /\ Held(s)[j].key = KeyOf(s[j])
           /\ \A a, b \in 1..Len(s) : KeyOf(s[a]) = KeyOf(s[b]) => a = b
<1>1. /\ s \in Seq(Nodes) /\ Len(s) \in Nat
      /\ \A j \in 1..Len(s) : s[j] \in AllocatedNodes
      /\ \A a, b \in 1..Len(s) : s[a] = s[b] => a = b
    BY ChainCells DEF Listed, Chain
<1>2. \A j \in 1..Len(s) : entry[node[s[j]].entry] \in Pairs
    BY <1>1 DEF Listed, EntriesOwned, AllocatedEntries, TypeOK
<1>3. Held(s) \in [1..Len(s) -> Pairs]
    BY <1>2 DEF Held
<1>4. Held(s) \in Seq(Pairs)
    BY <1>1, <1>3, SeqDef
<1>5. Len(Held(s)) \in Nat /\ DOMAIN Held(s) = 1..Len(Held(s))
    BY <1>4, LenProperties
<1>6. 1..Len(Held(s)) = 1..Len(s)
    BY <1>3, <1>5
<1>7. Len(Held(s)) = Len(s)
    BY <1>1, <1>5, <1>6
<1>8. \A a, b \in 1..Len(s) : KeyOf(s[a]) = KeyOf(s[b]) => a = b
    BY <1>1 DEF Listed, KeysOnce
<1>. QED
    BY <1>2, <1>3, <1>4, <1>7, <1>8 DEF Held, KeyOf

(* Where the loop of list_get stops is where the sequence has the key.       *)
LEMMA PlaceIs ==
    ASSUME NEW s, Listed(s), NEW k, NEW p \in 1..Len(s), KeyOf(s[p]) = k
    PROVE  /\ k \in Abstract!KeysIn(Contents)
           /\ Abstract!Pos(Contents, k) = p
           /\ Contents[p] = [key |-> k, value |-> Contents[p].value]
<1> DEFINE c == Held(s)
<1>1. Contents = c
    BY ContentsIs
<1>2. /\ DOMAIN c = 1..Len(s) /\ Len(s) \in Nat
      /\ \A j \in 1..Len(s) : c[j] \in Pairs /\ c[j].key = KeyOf(s[j])
      /\ \A a, b \in 1..Len(s) : KeyOf(s[a]) = KeyOf(s[b]) => a = b
    BY HeldIs, ChainCells DEF Listed
<1> HIDE DEF c
<1>3. k \in Abstract!KeysIn(c)
    BY <1>2 DEF Abstract!KeysIn
<1>4. \A q \in DOMAIN c : (c[q].key = k /\ \A r \in 1..(q - 1) : c[r].key # k) <=> q = p
    <2>1. \A q \in 1..Len(s) : c[q].key = k <=> q = p
        BY <1>2
    <2>2. \A r \in 1..(p - 1) : r \in 1..Len(s) /\ r # p
        BY <1>2
    <2>. QED
        BY <1>2, <2>1, <2>2
<1>5. Abstract!Pos(c, k) = p
    <2> DEFINE First(q) == c[q].key = k /\ \A r \in 1..(q - 1) : c[r].key # k
    <2>1. Abstract!Pos(c, k) = CHOOSE q \in DOMAIN c : First(q)
        BY DEF Abstract!Pos
    <2>2. \A q \in DOMAIN c : First(q) <=> q = p
        BY <1>4
    <2> HIDE DEF First
    <2>. QED
        BY <1>2, <2>1, <2>2
<1>6. c[p] = [key |-> k, value |-> c[p].value]
    BY <1>2 DEF Pairs
<1>. QED
    BY <1>1, <1>3, <1>5, <1>6

(* A key that no node holds is not in the sequence.                          *)
LEMMA NoPlace ==
    ASSUME NEW s, Listed(s), NEW k, \A j \in 1..Len(s) : KeyOf(s[j]) # k
    PROVE  k \notin Abstract!KeysIn(Contents)
<1>1. Contents = Held(s)
    BY ContentsIs
<1>. QED
    BY <1>1, HeldIs DEF Abstract!KeysIn

(* The code tests frst or size; the sequence shows the same.                 *)
LEMMA ContentsEmpty ==
    ASSUME NEW s, Listed(s)
    PROVE  /\ Contents = <<>> <=> frst = NULL
           /\ Len(Contents) = size /\ size = Len(s)
<1>1. /\ Len(s) \in Nat /\ size = Len(s)
      /\ frst = IF Len(s) = 0 THEN NULL ELSE s[1]
      /\ \A j \in 1..Len(s) : s[j] # NULL
    BY ChainCells DEF Listed, Chain
<1>2. Contents = Held(s) /\ Held(s) \in Seq(Pairs) /\ Len(Held(s)) = Len(s)
    BY ContentsIs, HeldIs
<1>3. Held(s) = <<>> <=> Len(s) = 0
    BY <1>2, EmptySeq
<1>. QED
    BY <1>1, <1>2, <1>3

(* What becomes of the contents when the nodes become those of t.            *)
LEMMA ContentsNext ==
    ASSUME NEW t, Listed(t)'
    PROVE  Contents' = [j \in 1..Len(t) |-> entry'[node'[t[j]].entry]]
<1>1. (\A s : Listed(s) => Contents = Held(s))'
    BY ContentsIs, PTL
<1>. QED
    BY <1>1 DEF Held

(* list_add appends a new key to the sequence and replaces a present one     *)
(* where it stands.                                                          *)
LEMMA AddMaps ==
    ASSUME NEW s, Listed(s), NEW k \in Keys, NEW v \in Vals, NEW e \in Entries,
           AddReplace(k, v, e) \/ \E x \in Nodes : AddNew(k, v, e, x)
    PROVE  Abstract!Add(k, v)
<1> DEFINE c == Held(s)
           m == Len(s)
           E == [key |-> k, value |-> v]
<1>1. /\ Contents = c /\ c \in Seq(Pairs) /\ Len(c) = m /\ DOMAIN c = 1..m
      /\ m \in Nat
      /\ \A j \in 1..m : c[j] = entry[node[s[j]].entry]
    BY ContentsIs, HeldIs, ChainCells DEF Listed
<1>2. Abstract!Entry(k, v) = E
    BY DEF Abstract!Entry
<1>3. CASE AddReplace(k, v, e)
    <2>1. PICK p \in 1..m : /\ KeyOf(s[p]) = k
                            /\ entry'[node'[s[p]].entry] = E
                            /\ \A j \in 1..m : j # p =>
                                 entry'[node'[s[j]].entry] = entry[node[s[j]].entry]
        BY <1>3, AddReplaceKeeps
    <2>2. Contents' = [j \in 1..m |-> entry'[node'[s[j]].entry]]
        BY <1>3, AddReplaceKeeps, ContentsNext
    <2>3. k \in Abstract!KeysIn(c) /\ Abstract!Pos(c, k) = p
        BY <1>1, <2>1, PlaceIs
    <2> HIDE DEF c
    <2>4. Contents' = [c EXCEPT ![p] = E]
        <3>1. [c EXCEPT ![p] = E] = [j \in 1..m |-> IF j = p THEN E ELSE c[j]]
            BY <1>1
        <3>. QED
            BY <1>1, <2>1, <2>2, <3>1
    <2>5. Contents' = Abstract!ListAdd(c, k, v)
        BY <1>2, <2>3, <2>4 DEF Abstract!ListAdd
    <2>6. /\ status = "up" /\ status' = status
          /\ ret' = [call |-> "add", code |-> 1]
        BY <1>3 DEF AddReplace, Up, CodeRet
    <2>. QED
        BY <1>1, <2>3, <2>5, <2>6 DEF Abstract!Add, Abstract!Up, Abstract!CodeRet
<1>4. ASSUME NEW x \in Nodes, AddNew(k, v, e, x)
      PROVE  Abstract!Add(k, v)
    <2> DEFINE t == Append(s, x)
    <2>1. /\ Listed(t)' /\ Len(t) = m + 1
          /\ \A j \in 1..m : /\ node'[s[j]].entry = node[s[j]].entry
                             /\ entry'[node[s[j]].entry] = entry[node[s[j]].entry]
          /\ entry'[node'[x].entry] = E
          /\ s \in Seq(Nodes)
        BY <1>4, AddNewKeeps
    <2>2. Contents' = [j \in 1..(m + 1) |-> entry'[node'[t[j]].entry]]
        BY <2>1, ContentsNext
    <2>3. \A j \in 1..(m + 1) : t[j] = IF j = m + 1 THEN x ELSE s[j]
        BY <1>1, <2>1, AppendProperties
    <2>4. k \notin Abstract!KeysIn(c)
        <3>1. \A j \in 1..m : KeyOf(s[j]) # k
            BY <1>4, FindIs DEF AddNew, Listed
        <3>. QED
            BY <1>1, <3>1, NoPlace
    <2>5. E \in Pairs
        BY DEF Pairs
    <2> HIDE DEF c, t, E
    <2>6. /\ Append(c, E) \in Seq(Pairs) /\ Len(Append(c, E)) = m + 1
          /\ \A j \in 1..m : Append(c, E)[j] = c[j]
          /\ Append(c, E)[m + 1] = E
        BY <1>1, <2>5, AppendProperties
    <2>7. Append(c, E) = [j \in 1..(m + 1) |-> Append(c, E)[j]]
        BY <2>6, LenProperties
    <2>8. \A j \in 1..(m + 1) : entry'[node'[t[j]].entry] = Append(c, E)[j]
        BY <1>1, <2>1, <2>3, <2>6
    <2>9. Contents' = Append(c, E)
        BY <2>2, <2>7, <2>8
    <2>10. Contents' = Abstract!ListAdd(c, k, v)
        BY <1>2, <2>4, <2>9 DEF Abstract!ListAdd
    <2>11. /\ status = "up" /\ status' = status
           /\ ret' = [call |-> "add", code |-> 0]
        BY <1>4 DEF AddNew, Up, CodeRet
    <2>. QED
        BY <1>1, <2>4, <2>10, <2>11 DEF Abstract!Add, Abstract!Up, Abstract!CodeRet
<1>. QED
    BY <1>3, <1>4

(* list_remove takes its entry out of the sequence and closes the gap.       *)
LEMMA RemoveMaps ==
    ASSUME NEW s, Listed(s), NEW k \in Keys,
           RemoveLast(k) \/ RemoveFirst(k) \/ RemoveMiddle(k)
    PROVE  Abstract!RemoveKey(k)
<1> DEFINE c == Held(s)
           m == Len(s)
<1>1. /\ Contents = c /\ c \in Seq(Pairs) /\ Len(c) = m /\ DOMAIN c = 1..m
      /\ m \in Nat
      /\ \A j \in 1..m : c[j] = entry[node[s[j]].entry] /\ c[j].key = KeyOf(s[j])
      /\ \A a, b \in 1..m : KeyOf(s[a]) = KeyOf(s[b]) => a = b
    BY ContentsIs, HeldIs, ChainCells DEF Listed
<1>2. status' = status /\ ret' = CodeRet("remove", 0)
    BY RemoveUnlinks
<1>3. PICK p \in 1..m : Unlinked(s, p) /\ KeyOf(s[p]) = k
    BY RemoveUnlinks
<1> DEFINE t == Without(s, p)
<1>4. Listed(t)'
    BY <1>2, <1>3, UnlinkKeeps
<1>5. /\ s \in Seq(Nodes) /\ Len(t) = m - 1 /\ m > 1
      /\ \A j \in 1..(m - 1) : t[j] = s[IF j < p THEN j ELSE j + 1]
    <2>1. s \in Seq(Nodes) /\ m > 1
        BY <1>3, ChainCells DEF Listed, Unlinked
    <2>2. /\ Len(t) = m - 1
          /\ \A j \in 1..(m - 1) : t[j] = IF j < p THEN s[j] ELSE s[j + 1]
        BY <2>1, WithoutIs
    <2>. QED
        BY <2>1, <2>2
<1> HIDE DEF t
<1>6. Contents' = [j \in 1..(m - 1) |-> entry'[node'[t[j]].entry]]
    BY <1>4, <1>5, ContentsNext
<1>7. \A j \in 1..m : j # p => entry'[node'[s[j]].entry] = c[j]
    <2>1. \A j \in 1..m : /\ s[j] \in AllocatedNodes /\ node[s[j]].entry \in Entries
                          /\ j # p => s[j] # s[p]
        BY <1>3, ChainCells DEF Listed, Chain, Cells
    <2>2. \A j \in 1..m : j # p => node[s[j]].entry # node[s[p]].entry
        BY <2>1 DEF Listed, EntriesOwned
    <2>3. entry' = [entry EXCEPT ![node[s[p]].entry] = Free] /\ entry \in [Entries -> Pairs \cup {Free}]
        BY <1>3 DEF Unlinked, Listed, TypeOK
    <2>4. \A j \in 1..m : j # p => node'[s[j]].entry = node[s[j]].entry
        BY <1>3 DEF Unlinked
    <2>. QED
        BY <1>1, <2>1, <2>2, <2>3, <2>4
<1>8. k \in Abstract!KeysIn(c) /\ Abstract!Pos(c, k) = p
    <2>1. k \in Abstract!KeysIn(Contents) /\ Abstract!Pos(Contents, k) = p
        BY <1>3, PlaceIs
    <2>. QED
        BY <1>1, <2>1
<1>9. /\ c \in Seqs!Lists(Keys, Vals) /\ Seqs!KeysDistinct(c)
      /\ k \in Seqs!KeysIn(c) /\ Seqs!Pos(c, k) = p
    <2>1. c \in Seqs!Lists(Keys, Vals)
        BY <1>1 DEF Seqs!Lists, Pairs
    <2>2. Seqs!KeysDistinct(c)
        BY <1>1 DEF Seqs!KeysDistinct
    <2>3. Seqs!KeysIn(c) = Abstract!KeysIn(c) /\ Seqs!Pos(c, k) = Abstract!Pos(c, k)
        BY DEF Seqs!KeysIn, Abstract!KeysIn, Seqs!Pos, Abstract!Pos
    <2>. QED
        BY <1>8, <2>1, <2>2, <2>3
<1> DEFINE r == Abstract!ListRemove(c, k)
<1>10. r = Seqs!ListRemove(c, k)
    BY <1>8, <1>9 DEF Seqs!ListRemove, Abstract!ListRemove, Seqs!RemoveAt, Abstract!RemoveAt
<1> HIDE DEF c, r
<1>11. /\ r \in Seqs!Lists(Keys, Vals) /\ Len(r) = m - 1
       /\ \A q \in 1..(m - 1) : r[q] = c[IF q < p THEN q ELSE q + 1]
    <2>1. /\ Seqs!ListRemove(c, k) \in Seqs!Lists(Keys, Vals)
          /\ Len(Seqs!ListRemove(c, k)) = Len(c) - 1
          /\ \A q \in 1..(Len(c) - 1) :
               Seqs!ListRemove(c, k)[q] = c[IF q < Seqs!Pos(c, k) THEN q ELSE q + 1]
        BY <1>9, Seqs!RemoveClosesGap
    <2>. QED
        BY <1>1, <1>9, <1>10, <2>1
<1>12. r = [q \in 1..(m - 1) |-> r[q]]
    <2>1. r \in Seq([key : Keys, value : Vals])
        BY <1>11 DEF Seqs!Lists
    <2>. QED
        BY <1>11, <2>1, LenProperties
<1>13. \A q \in 1..(m - 1) : entry'[node'[t[q]].entry] = r[q]
    <2> TAKE q \in 1..(m - 1)
    <2> DEFINE g == IF q < p THEN q ELSE q + 1
    <2>1. g \in 1..m /\ g # p
        BY <1>1, <1>3
    <2>2. t[q] = s[g] /\ r[q] = c[g]
        BY <1>5, <1>11
    <2> HIDE DEF g
    <2>. QED
        BY <1>7, <2>1, <2>2
<1>14. Contents' = r
    BY <1>6, <1>12, <1>13
<1>15. status = "up"
    BY DEF RemoveLast, RemoveFirst, RemoveMiddle, Removing, Up
<1>16. ret' = [call |-> "remove", code |-> 0]
    BY <1>2 DEF CodeRet
<1>. QED
    BY <1>1, <1>2, <1>5, <1>8, <1>14, <1>15, <1>16
    DEF r, Abstract!RemoveKey, Abstract!Up, Abstract!CodeRet

(* The calls that leave the list alone leave its contents alone. *)
LEMMA ContentsStay ==
    ASSUME NEW s, Listed(s), UNCHANGED <<list, heap>>, Listed(s)'
    PROVE  Contents' = Contents
<1>1. node' = node /\ entry' = entry
    BY DEF heap
<1>. QED
    BY <1>1, ContentsIs, ContentsNext DEF Held

(* An empty list is the empty sequence.                                      *)
LEMMA InitMaps == Init => Abstract!Init
<1> SUFFICES ASSUME Init PROVE Abstract!Init
    OBVIOUS
<1>1. Contents = <<>>
    <2>1. Listed(<<>>) /\ frst = NULL
        BY InitListed DEF Init
    <2>. QED
        BY <2>1, ContentsEmpty
<1>. QED
    BY <1>1 DEF Init, Abstract!Init

(* Every call of list.c is the operation of AbstractList of the same name.   *)
LEMMA NextMaps ==
    ASSUME NEW s, Listed(s), [Next]_vars
    PROVE  [Abstract!Next]_(Abstract!vars)
<1> DEFINE c == Contents
<1> USE DEF Up, CodeRet, Abstract!Up, Abstract!CodeRet
<1>0. /\ TypeOK /\ size \in Int
      /\ c = <<>> <=> frst = NULL
      /\ Len(c) = size /\ size = Len(s)
    BY ContentsEmpty DEF Listed, TypeOK
<1>1. ASSUME NEW k \in Keys, NEW v \in Vals, NEW e \in Entries,
             AddReplace(k, v, e) \/ \E x \in Nodes : AddNew(k, v, e, x)
      PROVE  Abstract!Next
    BY <1>1, AddMaps DEF Abstract!Next
<1>2. ASSUME NEW k \in Keys, RemoveLast(k) \/ RemoveFirst(k) \/ RemoveMiddle(k)
      PROVE  Abstract!Next
    BY <1>2, RemoveMaps DEF Abstract!Next
<1>3. ASSUME NEW k \in Keys, RemoveSole(k)
      PROVE  Abstract!Next
    <2>1. status = "up" /\ status' = "segv" /\ ret' = ret /\ UNCHANGED <<list, heap>>
        BY <1>3 DEF RemoveSole
    <2>2. Contents' = Contents
        <3>1. Listed(s)'
            BY <1>0, <2>1, NothingKeeps DEF TypeOK
        <3>. QED
            BY <2>1, <3>1, ContentsStay
    <2>3. PICK p \in 1..Len(s) : Find(k) = s[p] /\ KeyOf(s[p]) = k
        BY <1>3, FindIs DEF RemoveSole, Listed
    <2>4. k \in Abstract!KeysIn(Contents)
        BY <2>3, PlaceIs
    <2>5. Len(s) = 1
        <3> DEFINE m == Len(s)
        <3>1. /\ m \in Nat /\ m # 0
              /\ \A j \in 1..m : s[j] # NULL
              /\ last = IF m = 0 THEN NULL ELSE s[m]
              /\ \A j \in 1..m : node[s[j]].prev = IF j = 1 THEN NULL ELSE s[j - 1]
            BY <2>3, ChainCells, SMTT(30) DEF Listed, Chain
        <3>2. node[last].prev = NULL
            BY <1>3 DEF RemoveSole
        <3> HIDE DEF m
        <3>3. m = 1
            <4> SUFFICES ASSUME m # 1 PROVE FALSE
                OBVIOUS
            <4>1. m \in 1..m /\ m - 1 \in 1..m
                BY <3>1
            <4>2. node[last].prev = s[m - 1]
                BY <3>1, <4>1
            <4>. QED
                BY <3>1, <3>2, <4>1, <4>2
        <3>. QED
            BY <3>3 DEF m
    <2>6. Abstract!RemoveSole(k)
        BY <1>0, <2>1, <2>2, <2>4, <2>5 DEF Abstract!RemoveSole
    <2>. QED
        BY <2>6 DEF Abstract!Next
<1>4. ASSUME NEW k \in Keys, RemoveNothing(k)
      PROVE  Abstract!Next
    <2>1. /\ status = "up" /\ status' = status /\ UNCHANGED <<list, heap>>
          /\ ret' = [call |-> "remove", code |-> IF frst = NULL THEN 0 ELSE -1]
        BY <1>4 DEF RemoveNothing
    <2>2. Contents' = Contents
        <3>1. ret' \in [call : {"add", "remove", "size"}, code : Int]
            BY <2>1
        <3>2. Listed(s)'
            BY <1>0, <2>1, <3>1, NothingKeeps DEF TypeOK
        <3>. QED
            BY <2>1, <3>2, ContentsStay
    <2>3. k \notin Abstract!KeysIn(Contents)
        <3>1. \A j \in 1..Len(s) : KeyOf(s[j]) # k
            BY <1>4, FindIs DEF RemoveNothing, Listed
        <3>. QED
            BY <3>1, NoPlace
    <2>4. Abstract!RemoveKey(k)
        BY <1>0, <2>1, <2>2, <2>3 DEF Abstract!RemoveKey
    <2>. QED
        BY <2>4 DEF Abstract!Next
<1>5. ASSUME NEW k \in Keys, Get(k)
      PROVE  Abstract!Next
    <2>1. /\ status = "up" /\ status' = status /\ UNCHANGED <<list, heap>>
          /\ ret' = [call |-> "get",
                     entry |-> IF ListGet(k) = NULL THEN NULL ELSE entry[ListGet(k)]]
        BY <1>5 DEF Get
    <2>2. Contents' = Contents
        <3>1. Listed(s)'
            BY <1>0, <1>5, <2>1, GetAnswers, NothingKeeps DEF TypeOK
        <3>. QED
            BY <2>1, <3>1, ContentsStay
    <2>3. (IF ListGet(k) = NULL THEN NULL ELSE entry[ListGet(k)])
            = IF k \in Abstract!KeysIn(c)
              THEN Abstract!Entry(k, Abstract!ListGet(c, k)) ELSE NULL
        <3>1. CASE ListGet(k) = NULL /\ \A j \in 1..Len(s) : KeyOf(s[j]) # k
            BY <3>1, NoPlace
        <3>2. ASSUME NEW p \in 1..Len(s), KeyOf(s[p]) = k,
                     ListGet(k) = node[s[p]].entry, ListGet(k) # NULL
              PROVE  (IF ListGet(k) = NULL THEN NULL ELSE entry[ListGet(k)])
                       = IF k \in Abstract!KeysIn(c)
                         THEN Abstract!Entry(k, Abstract!ListGet(c, k)) ELSE NULL
            <4>1. /\ k \in Abstract!KeysIn(c) /\ Abstract!Pos(c, k) = p
                  /\ c[p] = [key |-> k, value |-> c[p].value]
                BY <3>2, PlaceIs
            <4>2. entry[ListGet(k)] = c[p]
                BY <3>2, ContentsIs, HeldIs
            <4> HIDE DEF c
            <4>3. Abstract!Entry(k, Abstract!ListGet(c, k)) = c[p]
                BY <4>1 DEF Abstract!Entry, Abstract!ListGet
            <4>. QED
                BY <3>2, <4>1, <4>2, <4>3
        <3>. QED
            BY <3>1, <3>2, FindIs DEF Listed
    <2>4. Abstract!Get(k)
        BY <2>1, <2>2, <2>3 DEF Abstract!Get
    <2>. QED
        BY <2>4 DEF Abstract!Next
<1>6. ASSUME AddNothing PROVE Abstract!Next
    <2>1. /\ status = "up" /\ status' = status /\ UNCHANGED <<list, heap>>
          /\ ret' = [call |-> "add", code |-> -1]
        BY <1>6 DEF AddNothing
    <2>2. Contents' = Contents
        <3>1. ret' \in [call : {"add", "remove", "size"}, code : Int]
            BY <2>1
        <3>2. Listed(s)'
            BY <1>0, <2>1, <3>1, NothingKeeps DEF TypeOK
        <3>. QED
            BY <2>1, <3>2, ContentsStay
    <2>. QED
        BY <2>1, <2>2 DEF Abstract!AddNothing, Abstract!Next
<1>7. ASSUME ListSize PROVE Abstract!Next
    <2>1. /\ status = "up" /\ status' = status /\ UNCHANGED <<list, heap>>
          /\ ret' = [call |-> "size", code |-> size]
        BY <1>7 DEF ListSize
    <2>2. Contents' = Contents
        <3>1. ret' \in [call : {"add", "remove", "size"}, code : Int]
            BY <1>0, <2>1
        <3>2. Listed(s)'
            BY <1>0, <2>1, <3>1, NothingKeeps DEF TypeOK
        <3>. QED
            BY <2>1, <3>2, ContentsStay
    <2>. QED
        BY <1>0, <2>1, <2>2 DEF Abstract!Size, Abstract!Next
<1>8. ASSUME GetKeys PROVE Abstract!Next
    <2>1. /\ ret' = [call |-> "get_keys", keys |-> [j \in 1..Len(s) |-> KeyOf(s[j])]]
          /\ ret' \in [call : {"get_keys"}, keys : Seq(Keys)]
          /\ UNCHANGED <<list, heap, status>>
        BY <1>8, GetKeysAnswers
    <2>2. Contents' = Contents
        <3>1. Listed(s)'
            BY <1>0, <2>1, NothingKeeps DEF TypeOK
        <3>. QED
            BY <2>1, <3>1, ContentsStay
    <2>3. Abstract!KeyList(c) = [j \in 1..Len(s) |-> KeyOf(s[j])]
        <3>1. \A j \in 1..Len(s) : c[j].key = KeyOf(s[j])
            BY ContentsIs, HeldIs
        <3>. QED
            BY <1>0, <3>1 DEF Abstract!KeyList
    <2>4. status = "up" /\ status' = status
        BY <1>8 DEF GetKeys
    <2>. QED
        BY <2>1, <2>2, <2>3, <2>4 DEF Abstract!GetKeys, Abstract!Next
<1>9. ASSUME FreeKeysCrash PROVE Abstract!Next
    <2>1. /\ status = "up" /\ status' = "segv" /\ ret' = ret /\ frst # NULL
          /\ UNCHANGED <<list, heap>>
        BY <1>9 DEF FreeKeysCrash
    <2>2. Contents' = Contents
        <3>1. Listed(s)'
            BY <1>0, <2>1, NothingKeeps DEF TypeOK
        <3>. QED
            BY <2>1, <3>1, ContentsStay
    <2>. QED
        BY <1>0, <2>1, <2>2 DEF Abstract!FreeKeysCrash, Abstract!Next
<1>10. ASSUME Destroy PROVE Abstract!Next
    <2>1. Contents' = <<>>
        <3>1. Listed(<<>>)' /\ <<>> \in Seq(Nodes) /\ Len(<<>>) = 0
            BY <1>10, DestroyKeeps
        <3>2. Contents' = [j \in 1..0 |-> entry'[node'[<<>>[j]].entry]]
            BY <3>1, ContentsNext
        <3>. QED
            BY <3>2
    <2>2. status = "up" /\ status' = "destroyed" /\ ret' = ret
        BY <1>10 DEF Destroy
    <2>. QED
        BY <2>1, <2>2 DEF Abstract!Destroy, Abstract!Next
<1>11. ASSUME UNCHANGED vars PROVE UNCHANGED Abstract!vars
    <2>1. UNCHANGED <<list, heap>> /\ status' = status /\ ret' = ret
        BY <1>11 DEF vars, list, heap
    <2>2. Contents' = Contents
        <3>1. Listed(s)'
            BY <1>0, <2>1, NothingKeeps DEF TypeOK
        <3>. QED
            BY <2>1, <3>1, ContentsStay
    <2>. QED
        BY <2>1, <2>2 DEF Abstract!vars
<1>. QED
    BY <1>1, <1>2, <1>3, <1>4, <1>5, <1>6, <1>7, <1>8, <1>9, <1>10, <1>11 DEF Next

(* The pointers of list.c, for any number of nodes, entries, keys and values, *)
(* behave as the sequence of entries Table.tla takes a bucket for.           *)
THEOREM PointersImplementList == Spec => ImplementsList
<1>1. Init => Abstract!Init
    BY InitMaps
<1>2. LInv /\ [Next]_vars => [Abstract!Next]_(Abstract!vars)
    <2> SUFFICES ASSUME LInv, [Next]_vars PROVE [Abstract!Next]_(Abstract!vars)
        OBVIOUS
    <2>1. PICK s : s = Visited
        OBVIOUS
    <2>2. Listed(s)
        BY <2>1 DEF Listed, LInv
    <2>. QED
        BY <2>2, NextMaps
<1>. QED
    BY <1>1, <1>2, ListInvariance, PTL DEF Spec, ImplementsList, Abstract!Spec
=============================================================================
