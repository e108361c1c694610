-------------------------- MODULE TableRefinement --------------------------
(* The hash table implements the map of MapSpec, and an operation leaves the *)
(* entries of other keys alone, for any keys, values, hash sums and number   *)
(* of buckets. Both rest on the inductive invariant of TableProofs: a key    *)
(* has one place, so what happens to the list there happens to the key.      *)
EXTENDS TableProofs

(* list_get of a present key answers a value. *)
LEMMA ListGetType ==
    ASSUME NEW s \in Lists(Keys, Vals), KeysDistinct(s), NEW k \in KeysIn(s)
    PROVE  ListGet(s, k) \in Vals
<1>1. s \in Seq([key : Keys, value : Vals])
    BY DEF Lists
<1>2. Pos(s, k) \in 1..Len(s)
    BY <1>1, PosFinds
<1>3. s[Pos(s, k)] \in [key : Keys, value : Vals]
    BY <1>1, <1>2, ElementOfSeq
<1>. QED
    BY <1>3 DEF ListGet

(* The map that the buckets stand for.                                       *)
LEMMA ValuationOf ==
    ASSUME NEW k \in Keys
    PROVE  Valuation[k] = IF HashOk(k) /\ k \in KeysIn(lista[Hash(k)])
                          THEN ListGet(lista[Hash(k)], k)
                          ELSE NoVal
BY DEF Valuation

(* The keys of the map are the keys stored. *)
LEMMA PresentIsStored ==
    ASSUME IInv
    PROVE  Map!Present = StoredKeys
<1>1. ASSUME NEW k \in Keys
      PROVE  Valuation[k] # NoVal <=> k \in StoredKeys
    <2>1. CASE HashOk(k)
        <3> DEFINE s == lista[Hash(k)]
        <3>1. s \in Lists(Keys, Vals) /\ KeysDistinct(s)
            BY <2>1 DEF HashOk, IInv, TypeOK, OneEntryPerKey
        <3>2. k \in KeysIn(s) => ListGet(s, k) \in Vals
            BY <3>1, ListGetType
        <3>3. k \in StoredKeys <=> k \in KeysIn(s)
            BY <2>1, StoredAtHome DEF IInv
        <3>4. Valuation[k] = IF k \in KeysIn(s) THEN ListGet(s, k) ELSE NoVal
            BY <2>1, ValuationOf
        <3> HIDE DEF s
        <3>. QED
            BY <3>2, <3>3, <3>4, NoValAssumption
    <2>2. CASE ~HashOk(k)
        <3>1. k \notin StoredKeys
            BY <2>2 DEF StoredKeys, IInv, BucketHome, HashOk, Buckets
        <3>. QED
            BY <2>2, <3>1, ValuationOf
    <2>. QED
        BY <2>1, <2>2
<1>2. StoredKeys \subseteq Keys
    <2>1. ASSUME NEW b \in Buckets, NEW p \in DOMAIN lista[b]
          PROVE  lista[b][p].key \in Keys
        <3>1. lista[b] \in Lists(Keys, Vals)
            BY DEF IInv, TypeOK
        <3>2. lista[b] \in Seq([key : Keys, value : Vals])
            BY <3>1 DEF Lists
        <3>3. p \in 1..Len(lista[b])
            BY <3>2
        <3>4. lista[b][p] \in [key : Keys, value : Vals]
            BY <3>2, <3>3, ElementOfSeq
        <3>. QED
            BY <3>4
    <2>. QED
        BY <2>1 DEF StoredKeys, KeysIn
<1>. QED
    BY <1>1, <1>2 DEF Map!Present

(* What happens to the list of a key's bucket happens to the map: adding     *)
(* sets the key's value, removing unsets it, nothing else moves.             *)
LEMMA MapFollowsAdd ==
    ASSUME IInv, NEW k \in Keys, NEW v \in Vals, HashOk(k),
           lista' = [lista EXCEPT ![Hash(k)] = ListAdd(@, k, v)]
    PROVE  Valuation' = [Valuation EXCEPT ![k] = v]
<1> DEFINE h == Hash(k)
           s == lista[h]
           t == ListAdd(s, k, v)
<1>1. s \in Lists(Keys, Vals) /\ KeysDistinct(s) /\ h \in Buckets
    BY DEF HashOk, IInv, TypeOK, OneEntryPerKey
<1>2. /\ KeysIn(t) = KeysIn(s) \cup {k}
      /\ ListGet(t, k) = v
      /\ \A l \in KeysIn(s) \ {k} : ListGet(t, l) = ListGet(s, l)
    <2> HIDE DEF s, h
    <2>. QED
        BY <1>1, ListAddEffect
<1>3. \A b \in Buckets : lista'[b] = IF b = h THEN t ELSE lista[b]
    BY <1>1 DEF IInv, TypeOK
<1> HIDE DEF t
<1>4. ASSUME NEW l \in Keys
      PROVE  Valuation'[l] = IF l = k THEN v ELSE Valuation[l]
    <2>1. Valuation'[l] = IF HashOk(l) /\ l \in KeysIn(lista'[Hash(l)])
                          THEN ListGet(lista'[Hash(l)], l)
                          ELSE NoVal
        BY DEF Valuation, HashOk, Hash, Buckets
    <2>2. CASE l = k
        <3>1. lista'[Hash(l)] = t /\ k \in KeysIn(t)
            BY <1>1, <1>2, <1>3, <2>2
        <3>. QED
            BY <1>2, <2>1, <2>2, <3>1
    <2>3. CASE l # k /\ HashOk(l) /\ Hash(l) = h
        <3>1. lista'[Hash(l)] = t /\ lista[Hash(l)] = s
            BY <1>1, <1>3, <2>3
        <3>2. l \in KeysIn(t) <=> l \in KeysIn(s)
            BY <1>2, <2>3
        <3>3. l \in KeysIn(s) => ListGet(t, l) = ListGet(s, l)
            BY <1>2, <2>3
        <3>4. Valuation[l] = IF l \in KeysIn(s) THEN ListGet(s, l) ELSE NoVal
            BY <2>3, <3>1, ValuationOf
        <3>5. Valuation'[l] = IF l \in KeysIn(t) THEN ListGet(t, l) ELSE NoVal
            BY <2>1, <2>3, <3>1
        <3>. QED
            BY <2>3, <3>2, <3>3, <3>4, <3>5
    <2>4. CASE l # k /\ HashOk(l) /\ Hash(l) # h
        <3>1. lista'[Hash(l)] = lista[Hash(l)]
            BY <1>3, <2>4 DEF HashOk
        <3>. QED
            BY <2>1, <2>4, <3>1, ValuationOf
    <2>5. CASE l # k /\ ~HashOk(l)
        BY <2>1, <2>5, ValuationOf
    <2>. QED
        BY <2>2, <2>3, <2>4, <2>5
<1>. QED
    BY <1>4 DEF Valuation

(* Taking an entry out of a bucket takes its key out of the map.             *)
LEMMA MapFollowsRemove ==
    ASSUME IInv, NEW k \in Keys, HashOk(k), k \in KeysIn(lista[Hash(k)]),
           lista' = [lista EXCEPT ![Hash(k)] = ListRemove(@, k)]
    PROVE  Valuation' = [Valuation EXCEPT ![k] = NoVal]
<1> DEFINE h == Hash(k)
           s == lista[h]
           t == ListRemove(s, k)
<1>1. s \in Lists(Keys, Vals) /\ KeysDistinct(s) /\ h \in Buckets /\ k \in KeysIn(s)
    BY DEF HashOk, IInv, TypeOK, OneEntryPerKey
<1>2. /\ KeysIn(t) = KeysIn(s) \ {k}
      /\ \A l \in KeysIn(s) \ {k} : ListGet(t, l) = ListGet(s, l)
    <2> HIDE DEF s, h
    <2>. QED
        BY <1>1, ListRemoveEffect
<1>3. \A b \in Buckets : lista'[b] = IF b = h THEN t ELSE lista[b]
    BY <1>1 DEF IInv, TypeOK
<1> HIDE DEF t
<1>4. ASSUME NEW l \in Keys
      PROVE  Valuation'[l] = IF l = k THEN NoVal ELSE Valuation[l]
    <2>1. Valuation'[l] = IF HashOk(l) /\ l \in KeysIn(lista'[Hash(l)])
                          THEN ListGet(lista'[Hash(l)], l)
                          ELSE NoVal
        BY DEF Valuation, HashOk, Hash, Buckets
    <2>2. CASE l = k
        <3>1. lista'[Hash(l)] = t /\ k \notin KeysIn(t)
            BY <1>1, <1>2, <1>3, <2>2
        <3>. QED
            BY <1>2, <2>1, <2>2, <3>1
    <2>3. CASE l # k /\ HashOk(l) /\ Hash(l) = h
        <3>1. lista'[Hash(l)] = t /\ lista[Hash(l)] = s
            BY <1>1, <1>3, <2>3
        <3>2. l \in KeysIn(t) <=> l \in KeysIn(s)
            BY <1>2, <2>3
        <3>3. l \in KeysIn(s) => ListGet(t, l) = ListGet(s, l)
            BY <1>2, <2>3
        <3>4. Valuation[l] = IF l \in KeysIn(s) THEN ListGet(s, l) ELSE NoVal
            BY <2>3, <3>1, ValuationOf
        <3>5. Valuation'[l] = IF l \in KeysIn(t) THEN ListGet(t, l) ELSE NoVal
            BY <2>1, <2>3, <3>1
        <3>. QED
            BY <2>3, <3>2, <3>3, <3>4, <3>5
    <2>4. CASE l # k /\ HashOk(l) /\ Hash(l) # h
        <3>1. lista'[Hash(l)] = lista[Hash(l)]
            BY <1>3, <2>4 DEF HashOk
        <3>. QED
            BY <2>1, <2>4, <3>1, ValuationOf
    <2>5. CASE l # k /\ ~HashOk(l)
        BY <2>1, <2>5, ValuationOf
    <2>. QED
        BY <2>2, <2>3, <2>4, <2>5
<1>. QED
    BY <1>4 DEF Valuation

-----------------------------------------------------------------------------
(* The empty table is the empty map.                                         *)
LEMMA InitMaps == Init => Map!Init
<1> SUFFICES ASSUME Init PROVE Map!Init
    OBVIOUS
<1>1. ASSUME NEW k \in Keys PROVE Valuation[k] = NoVal
    <2>1. HashOk(k) => KeysIn(lista[Hash(k)]) = {}
        BY DEF Init, HashOk, KeysIn
    <2>. QED
        BY <2>1, ValuationOf
<1>2. Valuation = [k \in Keys |-> NoVal]
    BY <1>1 DEF Valuation
<1>. QED
    BY <1>2 DEF Map!Init, Init, NoRet

(* A step that changes neither the lists nor the counter leaves the map. *)
LEMMA SameStoreSameMap ==
    ASSUME UNCHANGED <<lista, nElems>>
    PROVE  UNCHANGED <<Valuation, nElems>>
BY DEF Valuation, HashOk, Hash, Buckets

(* A process that dies crashes the map.                                      *)
LEMMA CrashMaps ==
    ASSUME alive, Crash
    PROVE  Map!Crash
BY SameStoreSameMap DEF Crash, store, Map!Crash

(* A put is a put of the map, or its crash.                                  *)
LEMMA PutMaps ==
    ASSUME IInv, NEW k \in Keys, NEW v \in Vals, Put(k, v)
    PROVE  Map!Put(k, v) \/ Map!Crash
<1>1. CASE PutNew(k, v)
    <2>1. Valuation' = [Valuation EXCEPT ![k] = v]
        BY <1>1, MapFollowsAdd DEF PutNew
    <2>2. k \notin Map!Present
        BY <1>1, PresentIsStored, StoredAtHome DEF PutNew, IInv
    <2>. QED
        BY <1>1, <2>1, <2>2 DEF PutNew, Ready, PutRet, Map!Put
<1>2. CASE PutReplace(k, v)
    <2>1. Valuation' = [Valuation EXCEPT ![k] = v]
        BY <1>2, MapFollowsAdd DEF PutReplace
    <2>2. k \in Map!Present
        BY <1>2, PresentIsStored, StoredAtHome DEF PutReplace, IInv
    <2>. QED
        BY <1>2, <2>1, <2>2 DEF PutReplace, Ready, PutRet, Map!Put
<1>3. CASE WildPut(k)
    BY <1>3, CrashMaps DEF WildPut, Ready
<1>. QED
    BY <1>1, <1>2, <1>3 DEF Put

(* A get is a get of the map, or its crash.                                  *)
LEMMA GetMaps ==
    ASSUME IInv, NEW k \in Keys, Get(k)
    PROVE  Map!Get(k) \/ Map!Crash
<1>1. CASE GetNone(k)
    BY <1>1, SameStoreSameMap DEF GetNone, Ready, GetRet, store, Map!Get
<1>2. CASE GetLookup(k)
    <2>1. ret' = GetRet(k, Valuation[k])
        BY <1>2, ValuationOf DEF GetLookup
    <2>. QED
        BY <1>2, <2>1, SameStoreSameMap DEF GetLookup, Ready, GetRet, store, Map!Get
<1>3. CASE WildGet(k)
    BY <1>3, CrashMaps DEF WildGet, Ready
<1>. QED
    BY <1>1, <1>2, <1>3 DEF Get

(* A deletion is one of the map, of a key or of none, or its crash.          *)
LEMMA DelMaps ==
    ASSUME IInv, NEW k \in Keys, Del(k)
    PROVE  Map!DelPresent(k) \/ Map!DelAbsent(k) \/ Map!Crash
<1>1. CASE DelEntry(k)
    <2>1. Valuation' = [Valuation EXCEPT ![k] = NoVal]
        BY <1>1, MapFollowsRemove DEF DelEntry
    <2>2. k \in Map!Present
        BY <1>1, PresentIsStored, StoredAtHome DEF DelEntry, IInv
    <2>. QED
        BY <1>1, <2>1, <2>2 DEF DelEntry, Ready, DelRet, Map!DelPresent
<1>2. CASE DelMissing(k)
    <2>1. k \notin Map!Present
        BY <1>2, PresentIsStored, StoredAtHome DEF DelMissing, IInv
    <2>. QED
        BY <1>2, <2>1, SameStoreSameMap
           DEF DelMissing, Ready, DelRet, store, Map!DelAbsent
<1>3. CASE DelPhantom(k)
    <2>1. k \notin KeysIn(lista[Hash(k)])
        BY <1>3 DEF DelPhantom, KeysIn
    <2>2. k \notin Map!Present
        BY <1>3, <2>1, PresentIsStored, StoredAtHome DEF DelPhantom, IInv
    <2>3. Valuation' = Valuation
        BY <1>3 DEF DelPhantom, Valuation, HashOk, Hash, Buckets
    <2>. QED
        BY <1>3, <2>2, <2>3 DEF DelPhantom, Ready, DelRet, Map!DelAbsent
<1>4. CASE DelSole(k) \/ WildDel(k)
    BY <1>4, CrashMaps DEF DelSole, WildDel, Ready
<1>. QED
    BY <1>1, <1>2, <1>3, <1>4 DEF Del

(* The end of the loop of getkeys answers the keys of the map.               *)
LEMMA EndMaps ==
    ASSUME IInv, GetKeysEnd
    PROVE  Map!GetKeys
<1>1. alive /\ ret' = KeysRet(result) /\ UNCHANGED <<lista, nElems, alive>>
    BY DEF GetKeysEnd, store
<1>2. ret'.op = "getkeys" /\ ret'.keys = result
    BY <1>1 DEF KeysRet
<1>3. KeysAnswerExact'
    BY GetKeysEndKeepsIInv DEF IInv
<1>4. StoredKeys' = StoredKeys
    BY <1>1 DEF StoredKeys, Buckets
<1>5. IsInjective(result) /\ Range(result) = Map!Present
    BY <1>2, <1>3, <1>4, PresentIsStored DEF KeysAnswerExact
<1>. QED
    BY <1>1, <1>2, <1>5, SameStoreSameMap
       DEF KeysRet, Map!GetKeys, Map!IsInjective, Map!Range, IsInjective, Range

(* A turn of the loop does not show, or is its end, or a crash.              *)
LEMMA ScanMaps ==
    ASSUME IInv, Scan
    PROVE  Map!GetKeys \/ Map!Crash \/ UNCHANGED Map!vars
<1>1. CASE ScanBucket
    BY <1>1, SameStoreSameMap DEF ScanBucket, store, Map!vars
<1>2. CASE ScanCrash \/ EndMarkCrash
    BY <1>2, CrashMaps DEF ScanCrash, EndMarkCrash
<1>. QED
    BY <1>1, <1>2, EndMaps DEF Scan

(* Every step of the table is one of the map, or none.                       *)
LEMMA StepMaps == IInv /\ [Next]_vars => [Map!Next]_(Map!vars)
<1> SUFFICES ASSUME IInv, [Next]_vars PROVE [Map!Next]_(Map!vars)
    OBVIOUS
<1>1. CASE \E k \in Keys, v \in Vals : Put(k, v)
    BY <1>1, PutMaps DEF Map!Next
<1>2. CASE \E k \in Keys : Get(k)
    BY <1>2, GetMaps DEF Map!Next
<1>3. CASE \E k \in Keys : Del(k)
    BY <1>3, DelMaps DEF Map!Next
<1>4. CASE Size
    <2>1. Map!Size
        BY <1>4, SameStoreSameMap DEF Size, Ready, SizeRet, store, Map!Size
    <2>. QED
        BY <2>1 DEF Map!Next
<1>5. CASE GetKeysBegin
    BY <1>5, SameStoreSameMap DEF GetKeysBegin, store, Map!vars
<1>6. CASE Scan
    BY <1>6, ScanMaps DEF Map!Next
<1>7. CASE UNCHANGED vars
    BY <1>7, SameStoreSameMap DEF vars, Map!vars
<1>. QED
    BY <1>1, <1>2, <1>3, <1>4, <1>5, <1>6, <1>7 DEF Next

(* Every behaviour of the bucketed table is, seen through Valuation, a       *)
(* behaviour of the map: table_put sets, table_get answers what was set      *)
(* unless the count is zero, table_del of a stored key unsets it and nothing *)
(* else, table_get_keys lists the map's domain.                              *)
THEOREM TableImplementsMap == Spec => ImplementsMap
<1>. QED
    BY InitMaps, StepMaps, Invariance, PTL DEF Spec, ImplementsMap, Map!Spec

(* An operation on one key leaves the entries of all other keys as they are, *)
(* where they are and in the order they are in, also in the bucket it        *)
(* changes.                                                                  *)
THEOREM OthersUntouchedCorrect == Spec => OthersUntouched
<1> DEFINE Same == \A b \in Buckets : InOrder(lista'[b], ret'.key) = InOrder(lista[b], ret'.key)
<1>1. IInv /\ [Next]_vars => [lista' # lista => Same]_vars
    <2> SUFFICES ASSUME IInv, [Next]_vars, lista' # lista PROVE Same
        OBVIOUS
    <2>1. ASSUME NEW k \in Keys, HashOk(k), NEW t,
                 lista' = [lista EXCEPT ![Hash(k)] = t],
                 InOrder(t, k) = InOrder(lista[Hash(k)], k),
                 ret'.key = k
          PROVE  Same
        <3>1. \A b \in Buckets : lista'[b] = IF b = Hash(k) THEN t ELSE lista[b]
            BY <2>1 DEF IInv, TypeOK
        <3>. QED
            BY <2>1, <3>1
    <2>2. ASSUME NEW k \in Keys, HashOk(k)
          PROVE  lista[Hash(k)] \in Lists(Keys, Vals) /\ KeysDistinct(lista[Hash(k)])
        BY <2>2 DEF HashOk, IInv, TypeOK, OneEntryPerKey
    <2>3. ASSUME NEW k \in Keys, NEW v \in Vals, PutNew(k, v) \/ PutReplace(k, v)
          PROVE  Same
        <3>1. /\ HashOk(k) /\ ret'.key = k
              /\ lista' = [lista EXCEPT ![Hash(k)] = ListAdd(lista[Hash(k)], k, v)]
            BY <2>3 DEF PutNew, PutReplace, PutRet
        <3>2. InOrder(ListAdd(lista[Hash(k)], k, v), k) = InOrder(lista[Hash(k)], k)
            BY <2>2, <3>1, AddKeepsOrder
        <3>. QED
            BY <2>1, <3>1, <3>2
    <2>4. ASSUME NEW k \in Keys, DelEntry(k) PROVE Same
        <3>1. /\ HashOk(k) /\ ret'.key = k /\ k \in KeysIn(lista[Hash(k)])
              /\ lista' = [lista EXCEPT ![Hash(k)] = ListRemove(lista[Hash(k)], k)]
            BY <2>4 DEF DelEntry, DelRet
        <3>2. InOrder(ListRemove(lista[Hash(k)], k), k) = InOrder(lista[Hash(k)], k)
            BY <2>2, <3>1, RemoveKeepsOrder
        <3>. QED
            BY <2>1, <3>1, <3>2
    <2>5. ~ (Size \/ GetKeysBegin \/ Scan)
        BY DEF Size, GetKeysBegin, Scan, ScanBucket, ScanCrash, GetKeysEnd,
               EndMarkCrash, Crash, store
    <2>6. \A k \in Keys : ~ Get(k)
        BY DEF Get, GetNone, GetLookup, WildGet, Crash, store
    <2>7. \A k \in Keys : ~ (DelSole(k) \/ DelMissing(k) \/ DelPhantom(k) \/ WildDel(k))
        BY DEF DelSole, DelMissing, DelPhantom, WildDel, Crash, store
    <2>8. \A k \in Keys : ~ WildPut(k)
        BY DEF WildPut, Crash, store
    <2>9. Next
        BY DEF vars
    <2>. QED
        BY <2>3, <2>4, <2>5, <2>6, <2>7, <2>8, <2>9 DEF Next, Put, Del
<1>. QED
    BY <1>1, Invariance, PTL DEF Spec, OthersUntouched
=============================================================================
