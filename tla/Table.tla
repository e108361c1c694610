------------------------------- MODULE Table -------------------------------
(* The hash table of source/table.c, one action per outcome of each          *)
(* operation. The table lives in the server process and its operations run   *)
(* one at a time: network_server.c holds a mutex around invoke. Only the     *)
(* loop of table_get_keys is split into steps, one per bucket.               *)
(*                                                                           *)
(* The lists are sequences of entries (EntrySeq). A wild pointer, a division *)
(* by zero or a bad free ends the process: `alive` becomes FALSE and nothing *)
(* happens any more.                                                         *)
EXTENDS EntrySeq, FiniteSets

CONSTANTS
    Keys,        \* the keys clients use
    Vals,        \* the values clients store
    NoVal,       \* the NULL that table_get answers
    NLists,      \* table->size, from the command line, never validated
    HashSum,     \* per key, the sum of its bytes as C computes it (signed char)
    LowestCount  \* bound: nElems is driven no lower than this

ASSUME NoValAssumption == NoVal \notin Vals
ASSUME NListsAssumption == NLists \in Int
ASSUME HashSumAssumption == HashSum \in [Keys -> Int]
ASSUME LowestCountAssumption == LowestCount \in Int /\ LowestCount <= 0

VARIABLES
    lista,    \* bucket -> list
    nElems,   \* table->nElems
    nLists,   \* table->nLists
    alive,    \* FALSE once the process has crashed
    pc,       \* "idle", or "scan" inside the loop of table_get_keys
    i,        \* loop index of table_get_keys: the bucket it copies next
    result,   \* the keys table_get_keys has copied so far
    ret       \* the last operation and what it returned

store == <<lista, nElems, nLists>>
loop == <<pc, i, result>>
vars == <<lista, nElems, nLists, alive, pc, i, result, ret>>

Buckets == 0..(NLists - 1)

(* The remainder of C, which takes the sign of the dividend. *)
CRem(a, n) ==
    LET d == IF n < 0 THEN -n ELSE n
    IN  IF a >= 0 THEN a % d ELSE -((-a) % d)

(* The index hash() computes, for a table with a nonzero number of buckets. *)
Hash(k) == CRem(HashSum[k], NLists)

(* The index is one of the array's. Otherwise lista[hash(table, key)] is a    *)
(* division by zero (no buckets), a read below the array (a key whose bytes  *)
(* sum to a negative number) or a read of a null array (negative size).      *)
HashOk(k) == NLists # 0 /\ Hash(k) \in Buckets

NonEmpty == {b \in Buckets : lista[b] # <<>>}
StoredKeys == UNION {KeysIn(lista[b]) : b \in Buckets}

PutRet(k) == [op |-> "put", key |-> k, code |-> 0]
DelRet(k, c) == [op |-> "del", key |-> k, code |-> c]
GetRet(k, v) == [op |-> "get", key |-> k, value |-> v]
SizeRet(n) == [op |-> "size", size |-> n]
KeysRet(ks) == [op |-> "getkeys", keys |-> ks]
NoRet == [op |-> "none"]

-----------------------------------------------------------------------------
(* table_create *)
Init ==
    /\ lista = [b \in Buckets |-> <<>>]
    /\ nElems = 0
    /\ nLists = 0
    /\ alive = TRUE
    /\ pc = "idle"
    /\ i = 0
    /\ result = <<>>
    /\ ret = NoRet

(* An operation can start. *)
Ready == alive /\ pc = "idle"

(* The process dies; what it held is of no consequence any more. *)
Crash ==
    /\ alive' = FALSE
    /\ UNCHANGED <<store, loop, ret>>

(* Mutant: the bucket is taken modulo the number of lists in use. *)
PutNewByLists(k, v) ==
    /\ Ready
    /\ HashOk(k)
    /\ k \notin KeysIn(lista[Hash(k)])
    /\ LET b == CRem(HashSum[k], IF nLists > 0 THEN nLists ELSE 1)
       IN  /\ lista' = [lista EXCEPT ![b] = ListAdd(@, k, v)]
           /\ nElems' = nElems + 1
           /\ nLists' = IF Len(lista'[b]) = 1 THEN nLists + 1 ELSE nLists
    /\ ret' = PutRet(k)
    /\ UNCHANGED <<alive, loop>>

(* table_put of a new key: list_add returns 0. *)
PutNew(k, v) ==
    /\ Ready
    /\ HashOk(k)
    /\ k \notin KeysIn(lista[Hash(k)])
    /\ lista' = [lista EXCEPT ![Hash(k)] = ListAdd(@, k, v)]
    /\ nElems' = nElems + 1
    /\ nLists' = IF Len(lista'[Hash(k)]) = 1 THEN nLists + 1 ELSE nLists
    /\ ret' = PutRet(k)
    /\ UNCHANGED <<alive, loop>>

(* Mutant: the entry that replaces another is counted as a new one. *)
PutReplaceCounted(k, v) ==
    /\ Ready
    /\ HashOk(k)
    /\ k \in KeysIn(lista[Hash(k)])
    /\ lista' = [lista EXCEPT ![Hash(k)] = ListAdd(@, k, v)]
    /\ nElems' = nElems + 1
    /\ ret' = PutRet(k)
    /\ UNCHANGED <<nLists, alive, loop>>

(* table_put of a stored key: list_add returns 1 and no counter moves. *)
PutReplace(k, v) ==
    /\ Ready
    /\ HashOk(k)
    /\ k \in KeysIn(lista[Hash(k)])
    /\ lista' = [lista EXCEPT ![Hash(k)] = ListAdd(@, k, v)]
    /\ ret' = PutRet(k)
    /\ UNCHANGED <<nElems, nLists, alive, loop>>

(* table_get answers NULL at once when nElems is 0, whatever is stored. *)
GetNone(k) ==
    /\ Ready
    /\ nElems = 0
    /\ ret' = GetRet(k, NoVal)
    /\ UNCHANGED <<store, alive, loop>>

(* Mutant: a count of zero does not stop the lookup. *)
GetLookupAlways(k) ==
    /\ Ready
    /\ HashOk(k)
    /\ LET s == lista[Hash(k)]
       IN  ret' = GetRet(k, IF k \in KeysIn(s) THEN ListGet(s, k) ELSE NoVal)
    /\ UNCHANGED <<store, alive, loop>>

(* table_get looks the key up in its bucket. *)
GetLookup(k) ==
    /\ Ready
    /\ nElems # 0
    /\ HashOk(k)
    /\ LET s == lista[Hash(k)]
       IN  ret' = GetRet(k, IF k \in KeysIn(s) THEN ListGet(s, k) ELSE NoVal)
    /\ UNCHANGED <<store, alive, loop>>

(* table_del of a stored key that shares its bucket. *)
DelEntry(k) ==
    /\ Ready
    /\ HashOk(k)
    /\ k \in KeysIn(lista[Hash(k)])
    /\ Len(lista[Hash(k)]) > 1
    /\ lista' = [lista EXCEPT ![Hash(k)] = ListRemove(@, k)]
    /\ nElems' = nElems - 1
    /\ nLists' = IF lista'[Hash(k)] = <<>> THEN nLists - 1 ELSE nLists
    /\ ret' = DelRet(k, 0)
    /\ UNCHANGED <<alive, loop>>

(* table_del of a stored key alone in its bucket: list_remove takes the node *)
(* for the last one and follows its null prev pointer.                       *)
DelSole(k) ==
    /\ Ready
    /\ HashOk(k)
    /\ k \in KeysIn(lista[Hash(k)])
    /\ Len(lista[Hash(k)]) = 1
    /\ Crash

(* table_del of a missing key whose bucket holds others: list_remove is -1. *)
DelMissing(k) ==
    /\ Ready
    /\ HashOk(k)
    /\ lista[Hash(k)] # <<>>
    /\ k \notin KeysIn(lista[Hash(k)])
    /\ ret' = DelRet(k, -1)
    /\ UNCHANGED <<store, alive, loop>>

(* table_del of a missing key whose bucket is empty: list_remove returns 0   *)
(* before it looks, so both counters go down and the answer is OK.           *)
DelPhantom(k) ==
    /\ Ready
    /\ HashOk(k)
    /\ lista[Hash(k)] = <<>>
    /\ nElems > LowestCount
    /\ nElems' = nElems - 1
    /\ nLists' = nLists - 1
    /\ ret' = DelRet(k, 0)
    /\ UNCHANGED <<lista, alive, loop>>

(* put, del, or get past its first test, of a key that hashes outside. *)
WildPut(k) == Ready /\ ~HashOk(k) /\ Crash
WildDel(k) == Ready /\ ~HashOk(k) /\ Crash
WildGet(k) == Ready /\ nElems # 0 /\ ~HashOk(k) /\ Crash

(* table_size *)
Size ==
    /\ Ready
    /\ ret' = SizeRet(nElems)
    /\ UNCHANGED <<store, alive, loop>>

(* Mutant: the loop starts at the second bucket. *)
GetKeysBeginAtOne ==
    /\ Ready
    /\ pc' = "scan"
    /\ i' = 1
    /\ result' = <<>>
    /\ UNCHANGED <<store, alive, ret>>

(* table_get_keys allocates nElems + 1 places and starts its loop. *)
GetKeysBegin ==
    /\ Ready
    /\ pc' = "scan"
    /\ i' = 0
    /\ result' = <<>>
    /\ UNCHANGED <<store, alive, ret>>

(* The result array exists: the size asked of malloc was not negative. *)
HaveResult == nElems + 1 >= 0

(* One turn of the loop: the keys of bucket i are copied behind the others.  *)
ScanBucket ==
    /\ alive
    /\ pc = "scan"
    /\ i < NLists
    /\ lista[i] # <<>> => HaveResult
    /\ result' = result \o KeyList(lista[i])
    /\ i' = i + 1
    /\ UNCHANGED <<store, alive, pc, ret>>

(* One turn that ends the process: there is no array to write to, the array  *)
(* is too short for these keys, or list_free_keys walks past the end of the  *)
(* bucket's own array, whose last place list_get_keys never set to NULL.     *)
ScanCrash ==
    /\ alive
    /\ pc = "scan"
    /\ i < NLists
    /\ lista[i] # <<>>
    /\ Crash

(* The loop is over: the end mark is written and the array returned. *)
GetKeysEnd ==
    /\ alive
    /\ pc = "scan"
    /\ i >= NLists
    /\ HaveResult
    /\ pc' = "idle"
    /\ i' = 0
    /\ result' = <<>>
    /\ ret' = KeysRet(result)
    /\ UNCHANGED <<store, alive>>

(* The end mark does not fit: the array is missing or shorter than the keys. *)
EndMarkCrash ==
    /\ alive
    /\ pc = "scan"
    /\ i >= NLists
    /\ Len(result) > nElems
    /\ Crash

-----------------------------------------------------------------------------
(* What the skeleton's five requests can do to the table. *)
Put(k, v) == PutNew(k, v) \/ PutReplace(k, v) \/ WildPut(k)
Get(k) == GetNone(k) \/ GetLookup(k) \/ WildGet(k)
Del(k) == DelEntry(k) \/ DelSole(k) \/ DelMissing(k) \/ DelPhantom(k) \/ WildDel(k)
Scan == ScanBucket \/ ScanCrash \/ GetKeysEnd \/ EndMarkCrash

Next ==
    \/ \E k \in Keys, v \in Vals : Put(k, v)
    \/ \E k \in Keys : Get(k)
    \/ \E k \in Keys : Del(k)
    \/ Size
    \/ GetKeysBegin
    \/ Scan

Spec == Init /\ [][Next]_vars
=============================================================================
