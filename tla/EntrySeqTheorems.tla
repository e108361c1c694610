-------------------------- MODULE EntrySeqTheorems --------------------------
(* What the operators of EntrySeq return, for lists of any length over any   *)
(* keys and values, as long as no key is in a list twice.                    *)
EXTENDS EntrySeq, TLAPS, SequenceTheorems

(* The walk of list_get finds the entry of a present key, and there is no    *)
(* other.                                                                    *)
LEMMA PosFinds ==
    ASSUME NEW E, NEW s \in Seq(E), KeysDistinct(s), NEW k \in KeysIn(s)
    PROVE  /\ Pos(s, k) \in DOMAIN s
           /\ s[Pos(s, k)].key = k
           /\ \A p \in DOMAIN s : s[p].key = k => p = Pos(s, k)
<1> DEFINE First(p) == /\ s[p].key = k
                       /\ \A q \in 1..(p - 1) : s[q].key # k
<1>1. PICK p \in DOMAIN s : s[p].key = k
    BY DEF KeysIn
<1>2. \A q \in 1..(p - 1) : q \in DOMAIN s /\ q # p
    BY <1>1
<1>3. \A q \in 1..(p - 1) : s[q].key # k
    BY <1>1, <1>2 DEF KeysDistinct
<1>4. \E q \in DOMAIN s : First(q)
    BY <1>1, <1>3
<1>5. Pos(s, k) = CHOOSE q \in DOMAIN s : First(q)
    BY DEF Pos
<1>6. Pos(s, k) \in DOMAIN s /\ First(Pos(s, k))
    <2> HIDE DEF First
    <2> QED BY <1>4, <1>5
<1>. QED
    BY <1>6 DEF KeysDistinct

(* list_add keeps a list a list, adds exactly the key it is given and        *)
(* leaves every other entry's value alone; the list grows only for a new key. *)
LEMMA ListAddEffect ==
    ASSUME NEW K, NEW V, NEW s \in Lists(K, V), KeysDistinct(s),
           NEW k \in K, NEW v \in V
    PROVE  /\ ListAdd(s, k, v) \in Lists(K, V)
           /\ KeysDistinct(ListAdd(s, k, v))
           /\ KeysIn(ListAdd(s, k, v)) = KeysIn(s) \cup {k}
           /\ Len(ListAdd(s, k, v)) = IF k \in KeysIn(s) THEN Len(s) ELSE Len(s) + 1
           /\ ListGet(ListAdd(s, k, v), k) = v
           /\ \A l \in KeysIn(s) \ {k} : ListGet(ListAdd(s, k, v), l) = ListGet(s, l)
<1> DEFINE E == [key : K, value : V]
           t == ListAdd(s, k, v)
<1>. s \in Seq(E)
    BY DEF Lists
<1>0. Entry(k, v) \in E /\ Entry(k, v).key = k /\ Entry(k, v).value = v
    BY DEF Entry
<1>1. CASE k \in KeysIn(s)
    <2> DEFINE p == Pos(s, k)
    <2>1. p \in 1..Len(s) /\ s[p].key = k /\ \A q \in DOMAIN s : s[q].key = k => q = p
        BY PosFinds, <1>1
    <2>2. t = [s EXCEPT ![p] = Entry(k, v)]
        BY <1>1 DEF ListAdd
    <2> HIDE DEF p, t
    <2>3. /\ t \in Seq(E)
          /\ Len(t) = Len(s)
          /\ DOMAIN t = DOMAIN s
          /\ \A q \in DOMAIN s : t[q] = IF q = p THEN Entry(k, v) ELSE s[q]
        BY <1>0, <2>1, <2>2, ExceptSeq
    <2>4. \A q \in DOMAIN s : t[q].key = s[q].key
        BY <1>0, <2>1, <2>3
    <2>5. KeysDistinct(t) /\ KeysIn(t) = KeysIn(s)
        BY <2>3, <2>4 DEF KeysDistinct, KeysIn
    <2>6. \A l \in KeysIn(s) : Pos(t, l) = Pos(s, l)
        BY <2>3, <2>4, <2>5, PosFinds
    <2>7. \A l \in KeysIn(s) \ {k} : ListGet(t, l) = ListGet(s, l)
        BY <2>1, <2>3, <2>6, PosFinds DEF ListGet
    <2>8. ListGet(t, k) = v
        BY <1>0, <1>1, <2>1, <2>3, <2>6 DEF ListGet, p
    <2>. QED
        BY <1>1, <2>3, <2>5, <2>7, <2>8 DEF t, Lists
<1>2. CASE k \notin KeysIn(s)
    <2>1. t = Append(s, Entry(k, v))
        BY <1>2 DEF ListAdd
    <2> HIDE DEF t
    <2>2. /\ t \in Seq(E)
          /\ Len(t) = Len(s) + 1
          /\ \A q \in 1..Len(s) : t[q] = s[q]
          /\ t[Len(s) + 1] = Entry(k, v)
        BY <1>0, <2>1, AppendProperties
    <2>3. DOMAIN t = DOMAIN s \cup {Len(s) + 1} /\ Len(s) + 1 \notin DOMAIN s
        BY <2>2
    <2>4. KeysIn(t) = KeysIn(s) \cup {k}
        BY <1>0, <2>2, <2>3 DEF KeysIn
    <2>5. \A q \in DOMAIN s : s[q].key # k
        BY <1>2 DEF KeysIn
    <2>6. KeysDistinct(t)
        BY <1>0, <2>2, <2>3, <2>5 DEF KeysDistinct
    <2>7. \A l \in KeysIn(s) : Pos(s, l) \in DOMAIN s /\ s[Pos(s, l)].key = l
        BY PosFinds
    <2>8. \A l \in KeysIn(s) : Pos(t, l) = Pos(s, l)
        BY <2>2, <2>3, <2>4, <2>6, <2>7, PosFinds
    <2>9. \A l \in KeysIn(s) \ {k} : ListGet(t, l) = ListGet(s, l)
        BY <2>2, <2>7, <2>8 DEF ListGet
    <2>10. Pos(t, k) = Len(s) + 1
        BY <1>0, <2>2, <2>3, <2>4, <2>6, PosFinds
    <2>11. ListGet(t, k) = v
        BY <1>0, <2>2, <2>10 DEF ListGet
    <2>. QED
        BY <1>2, <2>2, <2>4, <2>6, <2>9, <2>11 DEF t, Lists
<1>. QED
    BY <1>1, <1>2

(* list_remove of a present key closes the gap: the entries up to it stay,   *)
(* those behind it move up by one place.                                     *)
LEMMA RemoveClosesGap ==
    ASSUME NEW K, NEW V, NEW s \in Lists(K, V), KeysDistinct(s),
           NEW k \in KeysIn(s)
    PROVE  /\ ListRemove(s, k) \in Lists(K, V)
           /\ Len(ListRemove(s, k)) = Len(s) - 1
           /\ \A q \in 1..(Len(s) - 1) :
                ListRemove(s, k)[q] = s[IF q < Pos(s, k) THEN q ELSE q + 1]
<1> DEFINE E == [key : K, value : V]
           p == Pos(s, k)
           n == Len(s)
           t == ListRemove(s, k)
           u == SubSeq(s, 1, p - 1)
           w == SubSeq(s, p + 1, n)
<1>. s \in Seq(E)
    BY DEF Lists
<1>1. p \in 1..n /\ s[p].key = k /\ \A q \in DOMAIN s : s[q].key = k => q = p
    BY PosFinds
<1>2. n \in Nat /\ p \in Nat /\ 1 <= p /\ p <= n /\ DOMAIN s = 1..n
    BY <1>1
<1>3. t = u \o w
    BY DEF ListRemove, RemoveAt
<1>0. \A q \in 1..n : s[q] \in E
    BY ElementOfSeq
<1> HIDE DEF p, n, t
<1>4. u \in Seq(E) /\ Len(u) = p - 1 /\ \A q \in 1..(p - 1) : u[q] = s[q]
    <2>1. \A q \in 1..(p - 1) : s[q] \in E
        BY <1>0, <1>2
    <2>. QED
        BY <1>2, <2>1, SubSeqProperties
<1>5. w \in Seq(E) /\ Len(w) = n - p /\ \A q \in 1..(n - p) : w[q] = s[p + q]
    <2>1. \A q \in (p + 1)..n : s[q] \in E
        BY <1>0, <1>2
    <2>2. /\ w \in Seq(E)
          /\ Len(w) = IF p + 1 <= n THEN n - (p + 1) + 1 ELSE 0
          /\ \A q \in 1..(n - (p + 1) + 1) : w[q] = s[p + 1 + q - 1]
        BY <1>2, <2>1, SubSeqProperties
    <2>. QED
        BY <1>2, <2>2
<1> HIDE DEF u, w
<1>6. /\ t \in Seq(E)
      /\ Len(t) = n - 1
      /\ \A q \in 1..(n - 1) : t[q] = IF q <= p - 1 THEN u[q] ELSE w[q - (p - 1)]
    BY <1>2, <1>3, <1>4, <1>5, ConcatProperties
<1>7. ASSUME NEW q \in 1..(n - 1)
      PROVE  t[q] = s[IF q < p THEN q ELSE q + 1]
    <2>1. CASE q < p
        BY <1>2, <1>4, <1>6, <2>1
    <2>2. CASE q >= p
        <3>1. q - (p - 1) \in 1..(n - p) /\ p + (q - (p - 1)) = q + 1
            BY <1>2, <2>2
        <3>2. t[q] = w[q - (p - 1)]
            BY <1>2, <1>6, <2>2
        <3>. QED
            BY <1>2, <1>5, <2>2, <3>1, <3>2
    <2>. QED
        BY <1>2, <2>1, <2>2
<1>. QED
    BY <1>6, <1>7 DEF t, n, p, Lists

(* list_remove of a present key takes exactly that key out and leaves the    *)
(* other entries' values alone.                                              *)
LEMMA ListRemoveEffect ==
    ASSUME NEW K, NEW V, NEW s \in Lists(K, V), KeysDistinct(s),
           NEW k \in KeysIn(s)
    PROVE  /\ ListRemove(s, k) \in Lists(K, V)
           /\ KeysDistinct(ListRemove(s, k))
           /\ KeysIn(ListRemove(s, k)) = KeysIn(s) \ {k}
           /\ Len(ListRemove(s, k)) = Len(s) - 1
           /\ \A l \in KeysIn(s) \ {k} : ListGet(ListRemove(s, k), l) = ListGet(s, l)
<1> DEFINE E == [key : K, value : V]
           p == Pos(s, k)
           n == Len(s)
           t == ListRemove(s, k)
           From(q) == IF q < p THEN q ELSE q + 1
<1>. s \in Seq(E)
    BY DEF Lists
<1>1. p \in 1..n /\ s[p].key = k /\ \A q \in DOMAIN s : s[q].key = k => q = p
    BY PosFinds
<1>2. n \in Nat /\ p \in Nat /\ 1 <= p /\ p <= n /\ DOMAIN s = 1..n
    BY <1>1
<1>6. /\ t \in Seq(E)
      /\ Len(t) = n - 1
      /\ \A q \in 1..(n - 1) : t[q] = s[From(q)]
    <2>1. t \in Lists(K, V) /\ Len(t) = n - 1
        BY RemoveClosesGap
    <2>2. \A q \in 1..(n - 1) : t[q] = s[From(q)]
        BY RemoveClosesGap
    <2>. QED
        BY <2>1, <2>2 DEF Lists
<1> HIDE DEF p, n, t
<1>7. \A q \in 1..(n - 1) : From(q) \in DOMAIN s \ {p} /\ t[q] = s[From(q)]
    BY <1>2, <1>6
<1>8. \A r \in DOMAIN s \ {p} : \E q \in 1..(n - 1) : From(q) = r
    <2> SUFFICES ASSUME NEW r \in DOMAIN s \ {p}
                 PROVE  \E q \in 1..(n - 1) : From(q) = r
        OBVIOUS
    <2>1. CASE r < p
        BY <1>2, <2>1
    <2>2. CASE r > p
        <3>1. r - 1 \in 1..(n - 1) /\ From(r - 1) = r
            BY <1>2, <2>2
        <3>. QED
            BY <3>1
    <2>. QED
        BY <1>2, <2>1, <2>2
<1>9. \A q, r \in 1..(n - 1) : From(q) = From(r) => q = r
    BY <1>2
<1> HIDE DEF From
<1>10. DOMAIN t = 1..(n - 1)
    BY <1>2, <1>6
<1>11. KeysDistinct(t)
    BY <1>7, <1>9, <1>10 DEF KeysDistinct
<1>12. KeysIn(t) = KeysIn(s) \ {k}
    <2>1. \A q \in DOMAIN t : t[q].key \in KeysIn(s) \ {k}
        BY <1>1, <1>7, <1>10 DEF KeysIn
    <2>2. \A r \in DOMAIN s \ {p} : s[r].key \in KeysIn(t)
        BY <1>7, <1>8, <1>10 DEF KeysIn
    <2>. QED
        BY <1>1, <2>1, <2>2 DEF KeysIn
<1>13. \A l \in KeysIn(t) : s[From(Pos(t, l))].key = l /\ From(Pos(t, l)) \in DOMAIN s
    BY <1>6, <1>7, <1>10, <1>11, PosFinds
<1>14. \A l \in KeysIn(t) : From(Pos(t, l)) = Pos(s, l) /\ Pos(t, l) \in 1..(n - 1)
    BY <1>6, <1>10, <1>11, <1>12, <1>13, PosFinds
<1>15. \A l \in KeysIn(t) : ListGet(t, l) = ListGet(s, l)
    BY <1>7, <1>14 DEF ListGet
<1>. QED
    BY <1>6, <1>11, <1>12, <1>15 DEF t, n, Lists

(* list_get_keys lists the keys of the list, each once. *)
LEMMA KeyListExact ==
    ASSUME NEW K, NEW V, NEW s \in Lists(K, V), KeysDistinct(s)
    PROVE  /\ KeyList(s) \in Seq(K)
           /\ Len(KeyList(s)) = Len(s)
           /\ IsInjective(KeyList(s))
           /\ Range(KeyList(s)) = KeysIn(s)
<1>. s \in Seq([key : K, value : V])
    BY DEF Lists
<1>1. Len(s) \in Nat /\ \A p \in 1..Len(s) : s[p].key \in K
    <2>1. \A p \in 1..Len(s) : s[p] \in [key : K, value : V]
        BY ElementOfSeq
    <2>. QED
        BY <2>1
<1>2. KeyList(s) \in Seq(K) /\ Len(KeyList(s)) = Len(s)
    BY <1>1, IsASeq DEF KeyList
<1>3. DOMAIN KeyList(s) = DOMAIN s /\ \A p \in DOMAIN s : KeyList(s)[p] = s[p].key
    BY DEF KeyList
<1>. QED
    BY <1>2, <1>3 DEF IsInjective, Range, KeysIn, KeysDistinct

(* Appending a duplicate-free sequence to another that shares nothing with   *)
(* it gives a duplicate-free sequence of what is in either.                  *)
LEMMA DisjointConcat ==
    ASSUME NEW K, NEW s \in Seq(K), NEW t \in Seq(K),
           IsInjective(s), IsInjective(t), Range(s) \cap Range(t) = {}
    PROVE  IsInjective(s \o t) /\ Range(s \o t) = Range(s) \cup Range(t)
<1> DEFINE r == s \o t
           m == Len(s)
           n == Len(t)
<1>1. /\ r \in Seq(K)
      /\ Len(r) = m + n
      /\ \A p \in 1..(m + n) : r[p] = IF p <= m THEN s[p] ELSE t[p - m]
    BY ConcatProperties
<1>2. m \in Nat /\ n \in Nat /\ DOMAIN s = 1..m /\ DOMAIN t = 1..n
    OBVIOUS
<1>3. DOMAIN r = 1..(m + n)
    BY <1>1, <1>2
<1> HIDE DEF r, m, n
<1>4. \A p \in 1..m : p \in 1..(m + n) /\ r[p] = s[p] /\ r[p] \in Range(s)
    <2>1. \A p \in 1..m : p \in 1..(m + n) /\ p <= m /\ s[p] \in Range(s)
        BY <1>2 DEF Range
    <2>. QED
        BY <1>1, <2>1
<1>5. \A p \in 1..(m + n) : p > m => /\ p - m \in 1..n
                                     /\ r[p] = t[p - m]
                                     /\ r[p] \in Range(t)
    <2>1. \A p \in 1..(m + n) : p > m => p - m \in 1..n /\ ~(p <= m)
        BY <1>2
    <2>2. \A q \in 1..n : t[q] \in Range(t)
        BY <1>2 DEF Range
    <2>. QED
        BY <1>1, <2>1, <2>2
<1>6. \A p \in 1..n : p + m \in 1..(m + n) /\ r[p + m] = t[p]
    <2> SUFFICES ASSUME NEW p \in 1..n
                 PROVE  p + m \in 1..(m + n) /\ r[p + m] = t[p]
        OBVIOUS
    <2>1. p + m \in 1..(m + n) /\ p + m > m /\ (p + m) - m = p
        BY <1>2
    <2>. QED
        BY <1>5, <2>1
<1>7. Range(r) = Range(s) \cup Range(t)
    <2>1. Range(r) \subseteq Range(s) \cup Range(t)
        <3> SUFFICES ASSUME NEW p \in 1..(m + n)
                     PROVE  r[p] \in Range(s) \cup Range(t)
            BY <1>3 DEF Range
        <3>1. p <= m \/ p > m
            BY <1>2
        <3>2. p <= m => p \in 1..m
            BY <1>2
        <3>. QED
            BY <1>4, <1>5, <3>1, <3>2
    <2>2. Range(s) \subseteq Range(r)
        BY <1>2, <1>3, <1>4 DEF Range
    <2>3. Range(t) \subseteq Range(r)
        BY <1>2, <1>3, <1>6 DEF Range
    <2>. QED
        BY <2>1, <2>2, <2>3
<1>8. ASSUME NEW p \in 1..(m + n), NEW q \in 1..(m + n), r[p] = r[q]
      PROVE  p = q
    <2>1. CASE p <= m /\ q <= m
        <3>1. p \in 1..m /\ q \in 1..m
            BY <1>2, <2>1
        <3>. QED
            BY <1>2, <1>4, <1>8, <3>1 DEF IsInjective
    <2>2. CASE p > m /\ q > m
        <3>1. p - m = q - m
            BY <1>2, <1>5, <1>8, <2>2 DEF IsInjective
        <3>. QED
            BY <1>2, <3>1
    <2>3. CASE p <= m /\ q > m
        <3>1. p \in 1..m
            BY <1>2, <2>3
        <3>. QED
            BY <1>4, <1>5, <1>8, <2>3, <3>1
    <2>4. CASE p > m /\ q <= m
        <3>1. q \in 1..m
            BY <1>2, <2>4
        <3>. QED
            BY <1>4, <1>5, <1>8, <2>4, <3>1
    <2>. QED
        BY <1>2, <2>1, <2>2, <2>3, <2>4
<1>. QED
    BY <1>3, <1>7, <1>8 DEF IsInjective, r

(* Neither list_add nor list_remove of a key disturbs the entries under      *)
(* other keys: none of them changes, goes, comes or overtakes another.       *)
LEMMA AddKeepsOrder ==
    ASSUME NEW K, NEW V, NEW s \in Lists(K, V), KeysDistinct(s),
           NEW k \in K, NEW v \in V
    PROVE  InOrder(ListAdd(s, k, v), k) = InOrder(s, k)
<1> DEFINE E == [key : K, value : V]
           t == ListAdd(s, k, v)
           Others(r) == {p \in DOMAIN r : r[p].key # k}
<1>. s \in Seq(E)
    BY DEF Lists
<1>1. Entry(k, v) \in E /\ Entry(k, v).key = k
    BY DEF Entry
<1>2. Others(t) = Others(s) /\ \A p \in Others(s) : t[p] = s[p]
    <2>1. CASE k \in KeysIn(s)
        <3> DEFINE p == Pos(s, k)
        <3>1. p \in 1..Len(s) /\ s[p].key = k
            BY PosFinds, <2>1
        <3>2. t = [s EXCEPT ![p] = Entry(k, v)]
            BY <2>1 DEF ListAdd
        <3> HIDE DEF p, t
        <3>3. /\ DOMAIN t = DOMAIN s
              /\ \A q \in DOMAIN s : t[q] = IF q = p THEN Entry(k, v) ELSE s[q]
            BY <1>1, <3>1, <3>2, ExceptSeq
        <3>. QED
            BY <1>1, <3>1, <3>3
    <2>2. CASE k \notin KeysIn(s)
        <3>1. t = Append(s, Entry(k, v))
            BY <2>2 DEF ListAdd
        <3> HIDE DEF t
        <3>2. /\ t \in Seq(E)
              /\ Len(t) = Len(s) + 1
              /\ \A q \in 1..Len(s) : t[q] = s[q]
              /\ t[Len(s) + 1] = Entry(k, v)
            BY <1>1, <3>1, AppendProperties
        <3>3. DOMAIN t = DOMAIN s \cup {Len(s) + 1} /\ Len(s) + 1 \notin DOMAIN s
            BY <3>2
        <3>. QED
            BY <1>1, <3>2, <3>3
    <2>. QED
        BY <2>1, <2>2
<1> HIDE DEF t
<1>3. \A pq \in Others(s) \X Others(s) : <<t[pq[1]], t[pq[2]]>> = <<s[pq[1]], s[pq[2]]>>
    BY <1>2
<1>. QED
    BY <1>2, <1>3 DEF InOrder, t

(* list_remove of a present key leaves the entries under other keys in       *)
(* their order.                                                              *)
LEMMA RemoveKeepsOrder ==
    ASSUME NEW K, NEW V, NEW s \in Lists(K, V), KeysDistinct(s),
           NEW k \in KeysIn(s)
    PROVE  InOrder(ListRemove(s, k), k) = InOrder(s, k)
<1> DEFINE n == Len(s)
           p == Pos(s, k)
           t == ListRemove(s, k)
           From(q) == IF q < p THEN q ELSE q + 1
           To(r) == IF r < p THEN r ELSE r - 1
           Others(r) == {q \in DOMAIN r : r[q].key # k}
<1>. s \in Seq([key : K, value : V])
    BY DEF Lists
<1>1. p \in 1..n /\ s[p].key = k /\ n \in Nat /\ DOMAIN s = 1..n
    BY PosFinds
<1>2. /\ DOMAIN t = 1..(n - 1)
      /\ \A q \in 1..(n - 1) : t[q] = s[From(q)]
    <2>1. t \in Seq([key : K, value : V]) /\ Len(t) = n - 1
        BY RemoveClosesGap DEF Lists
    <2>. QED
        BY <2>1, RemoveClosesGap
<1> HIDE DEF t, p, n
<1>3. \A q \in Others(t) : From(q) \in Others(s) /\ t[q] = s[From(q)]
    BY <1>1, <1>2
<1>4. \A r \in Others(s) : To(r) \in Others(t) /\ s[r] = t[To(r)]
    <2> SUFFICES ASSUME NEW r \in Others(s)
                 PROVE  To(r) \in Others(t) /\ s[r] = t[To(r)]
        OBVIOUS
    <2>1. r \in 1..n /\ r # p
        BY <1>1
    <2>2. To(r) \in 1..(n - 1) /\ From(To(r)) = r
        BY <1>1, <2>1
    <2>. QED
        BY <1>2, <2>2
<1>5. \A q, r \in Others(t) : q <= r => From(q) <= From(r)
    BY <1>1, <1>2
<1>6. \A q, r \in Others(s) : q <= r => To(q) <= To(r)
    BY <1>1
<1> HIDE DEF From, To
<1>7. ASSUME NEW x \in InOrder(t, k) PROVE x \in InOrder(s, k)
    <2>1. PICK q \in Others(t), r \in Others(t) : q <= r /\ x = <<t[q], t[r]>>
        BY <1>7 DEF InOrder
    <2>2. <<From(q), From(r)>> \in {pq \in Others(s) \X Others(s) : pq[1] <= pq[2]}
        BY <1>3, <1>5, <2>1
    <2>3. x = <<s[From(q)], s[From(r)]>>
        BY <1>3, <2>1
    <2>. QED
        BY <2>2, <2>3 DEF InOrder
<1>8. ASSUME NEW x \in InOrder(s, k) PROVE x \in InOrder(t, k)
    <2>1. PICK q \in Others(s), r \in Others(s) : q <= r /\ x = <<s[q], s[r]>>
        BY <1>8 DEF InOrder
    <2>2. <<To(q), To(r)>> \in {pq \in Others(t) \X Others(t) : pq[1] <= pq[2]}
        BY <1>4, <1>6, <2>1
    <2>3. x = <<t[To(q)], t[To(r)]>>
        BY <1>4, <2>1
    <2>. QED
        BY <2>2, <2>3 DEF InOrder
<1>. QED
    BY <1>7, <1>8 DEF t
=============================================================================
