---------------------------- MODULE TableProofs ----------------------------
(* The invariants of the hash table, for any keys, values, hash sums and     *)
(* number of buckets. IInv is inductive: CountersDrift needs to know that a  *)
(* key is only ever in its own bucket and once in it, so that one table_put  *)
(* or table_del changes the number of stored keys by one exactly when it     *)
(* changes the counter; KeysAnswerExact needs the same of the loop of        *)
(* table_get_keys.                                                           *)
EXTENDS TableProps, EntrySeqTheorems, FiniteSetTheorems

-----------------------------------------------------------------------------

(* There are finitely many buckets.                                          *)
LEMMA BucketsFinite == IsFiniteSet(Buckets) /\ Buckets \subseteq Int
<1>1. NLists - 1 \in Int
    BY NListsAssumption
<1>. QED
    BY <1>1, FS_Interval DEF Buckets

(* And finitely many that hold an entry.                                     *)
LEMMA NonEmptyFinite == IsFiniteSet(NonEmpty)
<1>1. NonEmpty \in SUBSET Buckets
    BY DEF NonEmpty
<1>. QED
    BY <1>1, BucketsFinite, FS_Subset

(* A key is stored exactly when it is in the list of the bucket it hashes to. *)
LEMMA StoredAtHome ==
    ASSUME BucketHome, NEW k \in Keys, HashOk(k)
    PROVE  k \in StoredKeys <=> k \in KeysIn(lista[Hash(k)])
BY DEF BucketHome, StoredKeys, HashOk

(* A list is empty exactly when it holds no key. *)
LEMMA EmptyHasNoKeys ==
    ASSUME NEW s \in Lists(Keys, Vals)
    PROVE  s = <<>> <=> KeysIn(s) = {}
<1>1. s = <<>> => KeysIn(s) = {}
    BY DEF KeysIn
<1>2. ASSUME s # <<>> PROVE KeysIn(s) # {}
    <2>1. 1 \in DOMAIN s
        BY <1>2, EmptySeq
    <2>. QED
        BY <2>1 DEF KeysIn
<1>. QED
    BY <1>1, <1>2

(* list_add in the home bucket of a key stores that key and no other. *)
LEMMA AddAtHome ==
    ASSUME TypeOK, BucketHome, OneEntryPerKey,
           NEW k \in Keys, NEW v \in Vals, HashOk(k),
           lista' = [lista EXCEPT ![Hash(k)] = ListAdd(@, k, v)]
    PROVE  /\ lista' \in [Buckets -> Lists(Keys, Vals)]
           /\ BucketHome'
           /\ OneEntryPerKey'
           /\ StoredKeys' = StoredKeys \cup {k}
           /\ NonEmpty' = NonEmpty \cup {Hash(k)}
           /\ Len(lista'[Hash(k)]) = IF k \in KeysIn(lista[Hash(k)])
                                     THEN Len(lista[Hash(k)])
                                     ELSE Len(lista[Hash(k)]) + 1
<1> DEFINE h == Hash(k)
           s == lista[h]
           t == ListAdd(s, k, v)
<1>1. h \in Buckets /\ lista \in [Buckets -> Lists(Keys, Vals)]
    BY DEF HashOk, TypeOK
<1>2. s \in Lists(Keys, Vals) /\ KeysDistinct(s)
    BY <1>1 DEF OneEntryPerKey
<1>3. /\ t \in Lists(Keys, Vals)
      /\ KeysDistinct(t)
      /\ KeysIn(t) = KeysIn(s) \cup {k}
      /\ Len(t) = IF k \in KeysIn(s) THEN Len(s) ELSE Len(s) + 1
    <2> HIDE DEF s, h
    <2>. QED
        BY <1>2, ListAddEffect
<1> HIDE DEF t
<1>4. \A b \in Buckets : lista'[b] = IF b = h THEN t ELSE lista[b]
    BY <1>1 DEF t
<1>5. lista' \in [Buckets -> Lists(Keys, Vals)]
    BY <1>1, <1>3 DEF t
<1> HIDE DEF s, h
<1>6. \A b \in Buckets : KeysIn(lista'[b]) = IF b = h THEN KeysIn(s) \cup {k}
                                                      ELSE KeysIn(lista[b])
    <2> SUFFICES ASSUME NEW b \in Buckets
                 PROVE  KeysIn(lista'[b]) = IF b = h THEN KeysIn(s) \cup {k}
                                                     ELSE KeysIn(lista[b])
        OBVIOUS
    <2>1. lista'[b] = IF b = h THEN t ELSE lista[b]
        BY <1>4
    <2>2. KeysIn(t) = KeysIn(s) \cup {k}
        BY <1>3
    <2>. QED
        BY <2>1, <2>2
<1>7. BucketHome'
    BY <1>6 DEF BucketHome, h, s, Hash, Buckets
<1>8. OneEntryPerKey'
    BY <1>3, <1>4 DEF OneEntryPerKey, Buckets
<1>9. StoredKeys' = StoredKeys \cup {k}
    <2>1. \A l : (\E b \in Buckets : l \in KeysIn(lista'[b]))
                   <=> (l = k \/ \E b \in Buckets : l \in KeysIn(lista[b]))
        BY <1>1, <1>6 DEF s
    <2>. QED
        BY <2>1 DEF StoredKeys, Buckets
<1>10. t # <<>>
    BY <1>3, EmptyHasNoKeys
<1>11. NonEmpty' = NonEmpty \cup {h}
    BY <1>1, <1>4, <1>10 DEF NonEmpty, Buckets
<1>. QED
    BY <1>1, <1>3, <1>4, <1>5, <1>7, <1>8, <1>9, <1>11 DEF s, h

(* list_remove in the home bucket of a stored key takes that key and no      *)
(* other; a list that held more stays non-empty.                             *)
LEMMA RemoveAtHome ==
    ASSUME TypeOK, BucketHome, OneEntryPerKey,
           NEW k \in Keys, HashOk(k),
           k \in KeysIn(lista[Hash(k)]), Len(lista[Hash(k)]) > 1,
           lista' = [lista EXCEPT ![Hash(k)] = ListRemove(@, k)]
    PROVE  /\ lista' \in [Buckets -> Lists(Keys, Vals)]
           /\ BucketHome'
           /\ OneEntryPerKey'
           /\ StoredKeys' = StoredKeys \ {k}
           /\ NonEmpty' = NonEmpty
           /\ lista'[Hash(k)] # <<>>
<1> DEFINE h == Hash(k)
           s == lista[h]
           t == ListRemove(s, k)
<1>1. h \in Buckets /\ lista \in [Buckets -> Lists(Keys, Vals)]
    BY DEF HashOk, TypeOK
<1>2. s \in Lists(Keys, Vals) /\ KeysDistinct(s)
    BY <1>1 DEF OneEntryPerKey
<1>3. /\ t \in Lists(Keys, Vals)
      /\ KeysDistinct(t)
      /\ KeysIn(t) = KeysIn(s) \ {k}
      /\ Len(t) = Len(s) - 1
    <2>1. k \in KeysIn(s)
        OBVIOUS
    <2> HIDE DEF s, h
    <2>. QED
        BY <1>2, <2>1, ListRemoveEffect
<1> HIDE DEF t
<1>4. \A b \in Buckets : lista'[b] = IF b = h THEN t ELSE lista[b]
    BY <1>1 DEF t
<1>5. lista' \in [Buckets -> Lists(Keys, Vals)]
    BY <1>1, <1>3 DEF t
<1>6. t # <<>> /\ s # <<>>
    BY <1>2, <1>3
<1> HIDE DEF s, h
<1>7. \A b \in Buckets : KeysIn(lista'[b]) = IF b = h THEN KeysIn(s) \ {k}
                                                      ELSE KeysIn(lista[b])
    <2> SUFFICES ASSUME NEW b \in Buckets
                 PROVE  KeysIn(lista'[b]) = IF b = h THEN KeysIn(s) \ {k}
                                                     ELSE KeysIn(lista[b])
        OBVIOUS
    <2>1. lista'[b] = IF b = h THEN t ELSE lista[b]
        BY <1>4
    <2>2. KeysIn(t) = KeysIn(s) \ {k}
        BY <1>3
    <2>. QED
        BY <2>1, <2>2
<1>8. BucketHome'
    BY <1>7 DEF BucketHome, h, s, Hash, Buckets
<1>9. OneEntryPerKey'
    BY <1>3, <1>4 DEF OneEntryPerKey, Buckets
<1>10. \A b \in Buckets : k \in KeysIn(lista[b]) => b = h
    BY DEF BucketHome, h
<1>11. StoredKeys' = StoredKeys \ {k}
    <2>1. \A l : (\E b \in Buckets : l \in KeysIn(lista'[b]))
                   <=> (l # k /\ \E b \in Buckets : l \in KeysIn(lista[b]))
        BY <1>1, <1>7, <1>10 DEF s
    <2>. QED
        BY <2>1 DEF StoredKeys, Buckets
<1>12. NonEmpty' = NonEmpty
    BY <1>1, <1>4, <1>6 DEF NonEmpty, Buckets, s
<1>. QED
    BY <1>1, <1>4, <1>5, <1>6, <1>8, <1>9, <1>11, <1>12 DEF h

-----------------------------------------------------------------------------
(* What the operations return has the declared shape. *)
LEMMA ReturnsTyped ==
    /\ \A k \in Keys : PutRet(k) \in Returns /\ PutRet(k).op = "put"
    /\ \A k \in Keys : \A c \in {0, -1} : DelRet(k, c) \in Returns
                                       /\ DelRet(k, c).op = "del"
    /\ \A k \in Keys : \A v \in Vals \cup {NoVal} : GetRet(k, v) \in Returns
                                                 /\ GetRet(k, v).op = "get"
    /\ \A n \in Int : SizeRet(n) \in Returns /\ SizeRet(n).op = "size"
    /\ \A ks \in Seq(Keys) : KeysRet(ks) \in Returns
                             /\ KeysRet(ks).op = "getkeys" /\ KeysRet(ks).keys = ks
    /\ NoRet \in Returns /\ NoRet.op = "none"
BY DEF Returns, PutRet, DelRet, GetRet, SizeRet, KeysRet, NoRet

(* A step that only answers, or only ends the process, keeps the invariant. *)
LEMMA QuietStep ==
    ASSUME IInv, UNCHANGED <<store, loop>>, alive' \in BOOLEAN,
           ret' \in Returns, ret'.op # "getkeys" \/ ret' = ret
    PROVE  IInv'
<1>1. /\ UNCHANGED <<lista, nElems, nLists, pc, i, result>>
      /\ UNCHANGED <<StoredKeys, NonEmpty>>
    BY DEF store, loop, StoredKeys, NonEmpty, Buckets
<1>2. TypeOK'
    BY <1>1 DEF IInv, TypeOK, Buckets
<1>3. BucketHome' /\ OneEntryPerKey' /\ ScanInv'
    BY <1>1 DEF IInv, BucketHome, OneEntryPerKey, ScanInv, KeysBelow, Buckets, Hash
<1>4. IsFiniteSet(StoredKeys)' /\ CountersDrift' /\ KeysAnswerExact'
    BY <1>1 DEF IInv, CountersDrift, KeysAnswerExact
<1>. QED
    BY <1>2, <1>3, <1>4 DEF IInv

(* A process that dies leaves the table as it was.                           *)
LEMMA CrashKeepsIInv ==
    ASSUME IInv, Crash
    PROVE  IInv'
BY QuietStep DEF Crash, IInv, TypeOK

(* A step of an operation that changes a list finds the loop of              *)
(* table_get_keys at rest, so what it has gathered is still right.           *)
LEMMA IdleKeepsScan ==
    ASSUME ScanInv, pc = "idle", UNCHANGED loop
    PROVE  ScanInv' /\ UNCHANGED <<pc, i, result>>
<1>1. UNCHANGED <<pc, i, result>> /\ i = 0 /\ result = <<>>
    BY DEF loop, ScanInv
<1>2. {c \in Buckets : c < i} = {} /\ {c \in Buckets : c < i}' = {}
    <2>1. \A c \in Buckets : ~(c < 0)
        BY NListsAssumption DEF Buckets
    <2>. QED
        BY <1>1, <2>1 DEF Buckets
<1>3. KeysBelow(i)' = KeysBelow(i)
    BY <1>2 DEF KeysBelow
<1>. QED
    BY <1>1, <1>3 DEF ScanInv

(* The new table is empty, and so are its counters.                          *)
LEMMA InitIInv == Init => IInv
<1> SUFFICES ASSUME Init PROVE IInv
    OBVIOUS
<1>1. \A b \in Buckets : lista[b] = <<>> /\ KeysIn(lista[b]) = {}
    BY DEF Init, KeysIn
<1>2. TypeOK
    BY ReturnsTyped, EmptySeq DEF Init, TypeOK, Lists
<1>3. StoredKeys = {} /\ NonEmpty = {}
    BY <1>1 DEF StoredKeys, NonEmpty
<1>4. BucketHome /\ OneEntryPerKey
    BY <1>1 DEF BucketHome, OneEntryPerKey, KeysDistinct
<1>5. IsFiniteSet(StoredKeys) /\ CountersDrift
    BY <1>3, FS_EmptySet DEF CountersDrift, Init
<1>6. KeysBelow(i) = {} /\ result = <<>>
    BY <1>1 DEF KeysBelow, Init
<1>7. ScanInv
    BY <1>6 DEF ScanInv, Init, IsInjective, Range
<1>8. KeysAnswerExact
    BY ReturnsTyped DEF KeysAnswerExact, Init
<1>. QED
    BY <1>2, <1>4, <1>5, <1>7, <1>8 DEF IInv

(* A put of a new key adds it to its bucket and one to the counter of keys.  *)
LEMMA PutNewKeepsIInv ==
    ASSUME IInv, NEW k \in Keys, NEW v \in Vals, PutNew(k, v)
    PROVE  IInv'
<1> DEFINE h == Hash(k)
<1>1. /\ pc = "idle" /\ HashOk(k) /\ h \in Buckets
      /\ lista' = [lista EXCEPT ![Hash(k)] = ListAdd(@, k, v)]
      /\ nElems' = nElems + 1
      /\ nLists' = IF Len(lista'[h]) = 1 THEN nLists + 1 ELSE nLists
      /\ ret' = PutRet(k)
      /\ alive' = alive
      /\ UNCHANGED loop
    BY DEF PutNew, Ready, HashOk
<1>2. k \notin KeysIn(lista[h])
    BY DEF PutNew
<1>3. /\ lista' \in [Buckets -> Lists(Keys, Vals)]
      /\ BucketHome'
      /\ OneEntryPerKey'
      /\ StoredKeys' = StoredKeys \cup {k}
      /\ NonEmpty' = NonEmpty \cup {h}
      /\ Len(lista'[h]) = IF k \in KeysIn(lista[h]) THEN Len(lista[h])
                                                   ELSE Len(lista[h]) + 1
    BY <1>1, AddAtHome DEF IInv
<1>4. k \notin StoredKeys
    BY <1>1, <1>2, StoredAtHome DEF IInv
<1>5. /\ IsFiniteSet(StoredKeys)'
      /\ Cardinality(StoredKeys)' = Cardinality(StoredKeys) + 1
    BY <1>3, <1>4, FS_AddElement DEF IInv
<1>6. Cardinality(NonEmpty)' = IF h \in NonEmpty THEN Cardinality(NonEmpty)
                                                 ELSE Cardinality(NonEmpty) + 1
    BY <1>3, NonEmptyFinite, FS_AddElement
<1>7. Len(lista'[h]) = 1 <=> h \notin NonEmpty
    <2>1. lista[h] \in Seq([key : Keys, value : Vals])
        BY <1>1 DEF IInv, TypeOK, Lists
    <2>2. Len(lista[h]) = 0 <=> lista[h] = <<>>
        BY <2>1, EmptySeq
    <2>3. Len(lista[h]) \in Nat
        BY <2>1, LenProperties
    <2>4. Len(lista'[h]) = Len(lista[h]) + 1
        BY <1>2, <1>3
    <2>5. h \in NonEmpty <=> lista[h] # <<>>
        BY <1>1 DEF NonEmpty
    <2> DEFINE n == Len(lista[h])
    <2>6. n + 1 = 1 <=> n = 0
        BY <2>3
    <2> HIDE DEF n
    <2>7. Len(lista'[h]) = 1 <=> n = 0
        BY <2>4, <2>6 DEF n
    <2>. QED
        BY <2>2, <2>5, <2>7 DEF n
<1>8. nElems \in Int /\ nLists \in Int
    BY DEF IInv, TypeOK
<1>9. CountersDrift'
    <2>1. Cardinality(StoredKeys) \in Nat /\ Cardinality(NonEmpty) \in Nat
        BY NonEmptyFinite, FS_CardinalityType DEF IInv
    <2>. QED
        BY <1>1, <1>5, <1>6, <1>7, <1>8, <2>1 DEF IInv, CountersDrift
<1>10. ScanInv' /\ UNCHANGED <<pc, i, result>>
    BY <1>1, IdleKeepsScan DEF IInv
<1>11. TypeOK'
    BY <1>1, <1>3, <1>8, <1>10, ReturnsTyped DEF IInv, TypeOK, Buckets
<1>12. KeysAnswerExact'
    BY <1>1, ReturnsTyped DEF KeysAnswerExact
<1>. QED
    BY <1>3, <1>5, <1>9, <1>10, <1>11, <1>12 DEF IInv

(* A put that replaces changes neither keys nor counters.                    *)
LEMMA PutReplaceKeepsIInv ==
    ASSUME IInv, NEW k \in Keys, NEW v \in Vals, PutReplace(k, v)
    PROVE  IInv'
<1> DEFINE h == Hash(k)
<1>1. /\ pc = "idle" /\ HashOk(k) /\ h \in Buckets
      /\ lista' = [lista EXCEPT ![Hash(k)] = ListAdd(@, k, v)]
      /\ UNCHANGED <<nElems, nLists, alive>>
      /\ ret' = PutRet(k)
      /\ UNCHANGED loop
    BY DEF PutReplace, Ready, HashOk
<1>2. k \in KeysIn(lista[h])
    BY DEF PutReplace
<1>3. /\ lista' \in [Buckets -> Lists(Keys, Vals)]
      /\ BucketHome'
      /\ OneEntryPerKey'
      /\ StoredKeys' = StoredKeys \cup {k}
      /\ NonEmpty' = NonEmpty \cup {h}
    BY <1>1, AddAtHome DEF IInv
<1>4. k \in StoredKeys
    BY <1>1, <1>2, StoredAtHome DEF IInv
<1>5. h \in NonEmpty
    <2>1. lista[h] \in Lists(Keys, Vals)
        BY <1>1 DEF IInv, TypeOK
    <2>. QED
        BY <1>1, <1>2, <2>1, EmptyHasNoKeys DEF NonEmpty
<1>6. StoredKeys' = StoredKeys /\ NonEmpty' = NonEmpty
    BY <1>3, <1>4, <1>5
<1>7. IsFiniteSet(StoredKeys)' /\ CountersDrift'
    BY <1>1, <1>6 DEF IInv, CountersDrift
<1>8. ScanInv' /\ UNCHANGED <<pc, i, result>>
    BY <1>1, IdleKeepsScan DEF IInv
<1>9. TypeOK'
    BY <1>1, <1>3, <1>8, ReturnsTyped DEF IInv, TypeOK, Buckets
<1>10. KeysAnswerExact'
    BY <1>1, ReturnsTyped DEF KeysAnswerExact
<1>. QED
    BY <1>3, <1>7, <1>8, <1>9, <1>10 DEF IInv

(* A deletion of a key that shares its bucket takes one off keys and counter. *)
LEMMA DelEntryKeepsIInv ==
    ASSUME IInv, NEW k \in Keys, DelEntry(k)
    PROVE  IInv'
<1> DEFINE h == Hash(k)
<1>1. /\ pc = "idle" /\ HashOk(k) /\ h \in Buckets
      /\ Len(lista[h]) > 1
      /\ lista' = [lista EXCEPT ![Hash(k)] = ListRemove(@, k)]
      /\ nElems' = nElems - 1
      /\ nLists' = IF lista'[h] = <<>> THEN nLists - 1 ELSE nLists
      /\ ret' = DelRet(k, 0)
      /\ alive' = alive
      /\ UNCHANGED loop
    BY DEF DelEntry, Ready, HashOk
<1>2. k \in KeysIn(lista[h])
    BY DEF DelEntry
<1>3. /\ lista' \in [Buckets -> Lists(Keys, Vals)]
      /\ BucketHome'
      /\ OneEntryPerKey'
      /\ StoredKeys' = StoredKeys \ {k}
      /\ NonEmpty' = NonEmpty
      /\ lista'[h] # <<>>
    BY <1>1, <1>2, RemoveAtHome DEF IInv
<1>4. k \in StoredKeys
    BY <1>1, <1>2, StoredAtHome DEF IInv
<1>5. /\ IsFiniteSet(StoredKeys)'
      /\ Cardinality(StoredKeys)' = Cardinality(StoredKeys) - 1
    BY <1>3, <1>4, FS_RemoveElement DEF IInv
<1>6. nLists' = nLists
    BY <1>1, <1>3
<1>7. nElems \in Int /\ nLists \in Int
    BY DEF IInv, TypeOK
<1>8. CountersDrift'
    <2>1. Cardinality(StoredKeys) \in Nat /\ Cardinality(NonEmpty) \in Nat
        BY NonEmptyFinite, FS_CardinalityType DEF IInv
    <2>. QED
        BY <1>1, <1>3, <1>5, <1>6, <1>7, <2>1 DEF IInv, CountersDrift
<1>9. ScanInv' /\ UNCHANGED <<pc, i, result>>
    BY <1>1, IdleKeepsScan DEF IInv
<1>10. TypeOK'
    BY <1>1, <1>3, <1>6, <1>7, <1>9, ReturnsTyped DEF IInv, TypeOK, Buckets
<1>11. KeysAnswerExact'
    BY <1>1, ReturnsTyped DEF KeysAnswerExact
<1>. QED
    BY <1>3, <1>5, <1>8, <1>9, <1>10, <1>11 DEF IInv

(* A deletion from an empty bucket lowers both counters and takes no key away. *)
LEMMA DelPhantomKeepsIInv ==
    ASSUME IInv, NEW k \in Keys, DelPhantom(k)
    PROVE  IInv'
<1>1. /\ pc = "idle"
      /\ nElems' = nElems - 1
      /\ nLists' = nLists - 1
      /\ ret' = DelRet(k, 0)
      /\ UNCHANGED <<lista, alive>>
      /\ UNCHANGED loop
    BY DEF DelPhantom, Ready
<1>2. UNCHANGED <<StoredKeys, NonEmpty>>
    BY <1>1 DEF StoredKeys, NonEmpty, Buckets
<1>3. nElems \in Int /\ nLists \in Int
    BY DEF IInv, TypeOK
<1>4. IsFiniteSet(StoredKeys)' /\ CountersDrift'
    <2>1. Cardinality(StoredKeys) \in Nat /\ Cardinality(NonEmpty) \in Nat
        BY NonEmptyFinite, FS_CardinalityType DEF IInv
    <2>. QED
        BY <1>1, <1>2, <1>3, <2>1 DEF IInv, CountersDrift
<1>5. BucketHome' /\ OneEntryPerKey'
    BY <1>1 DEF IInv, BucketHome, OneEntryPerKey, Buckets, Hash
<1>6. ScanInv' /\ UNCHANGED <<pc, i, result>>
    BY <1>1, IdleKeepsScan DEF IInv
<1>7. TypeOK'
    BY <1>1, <1>3, <1>6, ReturnsTyped DEF IInv, TypeOK, Buckets
<1>8. KeysAnswerExact'
    BY <1>1, ReturnsTyped DEF KeysAnswerExact
<1>. QED
    BY <1>4, <1>5, <1>6, <1>7, <1>8 DEF IInv

(* The loop of getkeys begins with nothing gathered.                         *)
LEMMA GetKeysBeginKeepsIInv ==
    ASSUME IInv, GetKeysBegin
    PROVE  IInv'
<1>1. /\ pc = "idle" /\ pc' = "scan" /\ i' = 0 /\ result' = <<>>
      /\ UNCHANGED <<lista, nElems, nLists, alive, ret>>
    BY DEF GetKeysBegin, Ready, store
<1>2. i = 0 /\ result = <<>>
    BY <1>1 DEF IInv, ScanInv
<1>3. UNCHANGED <<StoredKeys, NonEmpty>> /\ KeysBelow(i)' = KeysBelow(i)
    BY <1>1, <1>2 DEF StoredKeys, NonEmpty, KeysBelow, Buckets
<1>4. TypeOK'
    BY <1>1, <1>2 DEF IInv, TypeOK, Buckets
<1>5. BucketHome' /\ OneEntryPerKey'
    BY <1>1 DEF IInv, BucketHome, OneEntryPerKey, Buckets, Hash
<1>6. IsFiniteSet(StoredKeys)' /\ CountersDrift' /\ KeysAnswerExact'
    BY <1>1, <1>3 DEF IInv, CountersDrift, KeysAnswerExact
<1>7. ScanInv'
    BY <1>1, <1>2, <1>3 DEF IInv, ScanInv
<1>. QED
    BY <1>4, <1>5, <1>6, <1>7 DEF IInv

(* A turn of the loop adds the keys of bucket i, none of which can have been *)
(* gathered before: they hash to i and the others to lower buckets.          *)
LEMMA ScanBucketKeepsIInv ==
    ASSUME IInv, ScanBucket
    PROVE  IInv'
<1> DEFINE s == lista[i]
           ks == KeyList(s)
<1>1. /\ pc = "scan" /\ i' = i + 1 /\ result' = result \o ks
      /\ UNCHANGED <<lista, nElems, nLists, alive, pc, ret>>
      /\ i < NLists
    BY DEF ScanBucket, store
<1>2. i \in Nat /\ i \in Buckets /\ result \in Seq(Keys)
    BY <1>1, NListsAssumption DEF IInv, TypeOK, Buckets
<1>3. s \in Lists(Keys, Vals) /\ KeysDistinct(s)
    BY <1>2 DEF IInv, TypeOK, OneEntryPerKey
<1> HIDE DEF s
<1>4. ks \in Seq(Keys) /\ IsInjective(ks) /\ Range(ks) = KeysIn(s)
    BY <1>3, KeyListExact
<1> HIDE DEF ks
<1>5. \A k \in KeysBelow(i) : Hash(k) < i
    BY DEF KeysBelow, IInv, BucketHome
<1>6. \A k \in KeysIn(s) : Hash(k) = i
    BY <1>2 DEF s, IInv, BucketHome
<1>7. Range(result) = KeysBelow(i) /\ IsInjective(result)
    BY DEF IInv, ScanInv
<1>8. Range(result) \cap Range(ks) = {}
    <2>1. \A k \in KeysBelow(i) : k \notin KeysIn(s)
        BY <1>2, <1>5, <1>6
    <2>. QED
        BY <1>4, <1>7, <2>1
<1>9. IsInjective(result') /\ Range(result') = Range(result) \cup Range(ks)
    BY <1>1, <1>2, <1>4, <1>7, <1>8, DisjointConcat
<1>10. result' \in Seq(Keys)
    BY <1>1, <1>2, <1>4, ConcatProperties
<1>11. KeysBelow(i)' = KeysBelow(i) \cup KeysIn(s)
    <2>1. {c \in Buckets : c < i + 1} = {c \in Buckets : c < i} \cup {i}
        BY <1>2 DEF Buckets
    <2>2. KeysBelow(i)' = UNION {KeysIn(lista[b]) : b \in {c \in Buckets : c < i + 1}}
        BY <1>1 DEF KeysBelow, Buckets
    <2>. QED
        BY <2>1, <2>2 DEF KeysBelow, s
<1>12. ScanInv'
    BY <1>1, <1>4, <1>7, <1>9, <1>11 DEF ScanInv
<1>13. UNCHANGED <<StoredKeys, NonEmpty>>
    BY <1>1 DEF StoredKeys, NonEmpty, Buckets
<1>14. BucketHome' /\ OneEntryPerKey'
    BY <1>1 DEF IInv, BucketHome, OneEntryPerKey, Buckets, Hash
<1>15. IsFiniteSet(StoredKeys)' /\ CountersDrift' /\ KeysAnswerExact'
    BY <1>1, <1>13 DEF IInv, CountersDrift, KeysAnswerExact
<1>16. TypeOK'
    BY <1>1, <1>2, <1>10 DEF IInv, TypeOK, Buckets
<1>. QED
    BY <1>12, <1>14, <1>15, <1>16 DEF IInv

(* The loop ends with every bucket behind it. *)
LEMMA GetKeysEndKeepsIInv ==
    ASSUME IInv, GetKeysEnd
    PROVE  IInv'
<1>1. /\ pc' = "idle" /\ i' = 0 /\ result' = <<>> /\ ret' = KeysRet(result)
      /\ UNCHANGED <<lista, nElems, nLists, alive>>
      /\ i >= NLists
    BY DEF GetKeysEnd, store
<1>2. i \in Nat /\ result \in Seq(Keys)
    BY DEF IInv, TypeOK
<1>3. ret' \in Returns /\ ret'.op = "getkeys" /\ ret'.keys = result
    BY <1>1, <1>2, ReturnsTyped
<1>4. UNCHANGED <<StoredKeys, NonEmpty>>
    BY <1>1 DEF StoredKeys, NonEmpty, Buckets
<1>5. KeysBelow(i) = StoredKeys
    <2>1. {c \in Buckets : c < i} = Buckets
        BY <1>1, <1>2, NListsAssumption DEF Buckets
    <2>. QED
        BY <2>1 DEF KeysBelow, StoredKeys
<1>6. KeysAnswerExact'
    BY <1>3, <1>4, <1>5 DEF IInv, ScanInv, KeysAnswerExact
<1>7. ScanInv'
    <2>1. {c \in Buckets : c < i}' = {}
        BY <1>1, NListsAssumption DEF Buckets
    <2>2. KeysBelow(i)' = {}
        BY <2>1 DEF KeysBelow
    <2>. QED
        BY <1>1, <2>2 DEF ScanInv, IsInjective, Range
<1>8. TypeOK'
    BY <1>1, <1>3, EmptySeq DEF IInv, TypeOK, Buckets
<1>9. BucketHome' /\ OneEntryPerKey'
    BY <1>1 DEF IInv, BucketHome, OneEntryPerKey, Buckets, Hash
<1>10. IsFiniteSet(StoredKeys)' /\ CountersDrift'
    BY <1>1, <1>4 DEF IInv, CountersDrift
<1>. QED
    BY <1>6, <1>7, <1>8, <1>9, <1>10 DEF IInv

(* Every step keeps the invariant.                                           *)
LEMMA NextKeepsIInv == IInv /\ [Next]_vars => IInv'
<1> SUFFICES ASSUME IInv, [Next]_vars PROVE IInv'
    OBVIOUS
<1>1. ASSUME NEW k \in Keys, NEW v \in Vals, Put(k, v) PROVE IInv'
    BY <1>1, PutNewKeepsIInv, PutReplaceKeepsIInv, CrashKeepsIInv DEF Put, WildPut
<1>2. ASSUME NEW k \in Keys, Get(k) PROVE IInv'
    <2>1. CASE GetNone(k)
        BY <2>1, QuietStep, ReturnsTyped DEF GetNone, store, IInv, TypeOK
    <2>2. CASE GetLookup(k)
        <3> DEFINE s == lista[Hash(k)]
        <3>1. HashOk(k) /\ s \in Lists(Keys, Vals) /\ KeysDistinct(s)
            BY <2>2 DEF GetLookup, HashOk, IInv, TypeOK, OneEntryPerKey
        <3>2. ASSUME k \in KeysIn(s) PROVE ListGet(s, k) \in Vals
            <4>1. s \in Seq([key : Keys, value : Vals])
                BY <3>1 DEF Lists
            <4>2. Pos(s, k) \in 1..Len(s)
                BY <3>1, <3>2, <4>1, PosFinds
            <4>3. s[Pos(s, k)] \in [key : Keys, value : Vals]
                BY <4>1, <4>2, ElementOfSeq
            <4>. QED
                BY <4>3 DEF ListGet
        <3>3. ret' \in Returns /\ ret'.op = "get"
            BY <2>2, <3>2, ReturnsTyped DEF GetLookup
        <3>. QED
            BY <2>2, <3>3, QuietStep DEF GetLookup, IInv, TypeOK
    <2>3. CASE WildGet(k)
        BY <2>3, CrashKeepsIInv DEF WildGet
    <2>. QED
        BY <1>2, <2>1, <2>2, <2>3 DEF Get
<1>3. ASSUME NEW k \in Keys, Del(k) PROVE IInv'
    <2>1. CASE DelMissing(k)
        BY <2>1, QuietStep, ReturnsTyped DEF DelMissing, IInv, TypeOK
    <2>2. CASE DelSole(k) \/ WildDel(k)
        BY <2>2, CrashKeepsIInv DEF DelSole, WildDel
    <2>. QED
        BY <1>3, <2>1, <2>2, DelEntryKeepsIInv, DelPhantomKeepsIInv DEF Del
<1>4. CASE Size
    BY <1>4, QuietStep, ReturnsTyped DEF Size, IInv, TypeOK
<1>5. CASE Scan
    BY <1>5, ScanBucketKeepsIInv, GetKeysEndKeepsIInv, CrashKeepsIInv
       DEF Scan, ScanCrash, EndMarkCrash
<1>6. CASE UNCHANGED vars
    BY <1>6, QuietStep DEF vars, store, loop, IInv, TypeOK
<1>. QED
    BY <1>1, <1>2, <1>3, <1>4, <1>5, <1>6, GetKeysBeginKeepsIInv DEF Next

(* The inductive invariant holds in every state of every table. *)
THEOREM Invariance == Spec => []IInv
<1>. QED
    BY InitIInv, NextKeepsIInv, PTL DEF Spec

(* The state of table.c and its answers keep their types. *)
THEOREM TypeCorrect == Spec => []TypeOK
<1>1. IInv => TypeOK
    BY DEF IInv
<1>. QED
    BY <1>1, Invariance, PTL

(* Every entry is where table_get will look for it and no key has two, for   *)
(* any hash sums and any number of buckets.                                  *)
THEOREM PlacementCorrect == Spec => [](BucketHome /\ OneEntryPerKey)
<1>1. IInv => BucketHome /\ OneEntryPerKey
    BY DEF IInv
<1>. QED
    BY <1>1, Invariance, PTL

(* The counters of table.c differ from what is stored by the deletions that  *)
(* were counted although nothing was deleted, both by the same number.       *)
THEOREM CountersDriftCorrect == Spec => []CountersDrift
<1>1. IInv => CountersDrift
    BY DEF IInv
<1>. QED
    BY <1>1, Invariance, PTL

(* table_get_keys, when it returns, returns every stored key exactly once.   *)
THEOREM KeysAnswerCorrect == Spec => []KeysAnswerExact
<1>1. IInv => KeysAnswerExact
    BY DEF IInv
<1>. QED
    BY <1>1, Invariance, PTL
=============================================================================
