----------------------------- MODULE TableProps -----------------------------
(* The properties of the hash table of source/table.c. *)
EXTENDS Table

Returns ==
    [op : {"put"}, key : Keys, code : {0}]
        \cup [op : {"del"}, key : Keys, code : {0, -1}]
        \cup [op : {"get"}, key : Keys, value : Vals \cup {NoVal}]
        \cup [op : {"size"}, size : Int]
        \cup [op : {"getkeys"}, keys : Seq(Keys)]
        \cup {NoRet}

(* The shape of the state of table.c and of what its operations return. *)
TypeOK ==
    /\ lista \in [Buckets -> Lists(Keys, Vals)]
    /\ nElems \in Int
    /\ nLists \in Int
    /\ alive \in BOOLEAN
    /\ pc \in {"idle", "scan"}
    /\ i \in Nat
    /\ result \in Seq(Keys)
    /\ ret \in Returns

(* Every entry is in the bucket its key hashes to, so that table_get and     *)
(* table_del, which look nowhere else, can find it.                          *)
BucketHome ==
    \A b \in Buckets : \A k \in KeysIn(lista[b]) : Hash(k) = b

(* list_add never leaves two entries with one key: table_put replaces. *)
OneEntryPerKey == \A b \in Buckets : KeysDistinct(lista[b])

(* nElems and nLists drift from the real numbers of entries and of non-empty *)
(* buckets together, by one per deletion of a missing key from an empty      *)
(* bucket, and never above them: whatever the order of the operations of     *)
(* table.c, nothing else disturbs the counters.                              *)
CountersDrift ==
    /\ Cardinality(StoredKeys) - nElems = Cardinality(NonEmpty) - nLists
    /\ nElems <= Cardinality(StoredKeys)

(* The keys table_get_keys returns are the stored ones, each once, although  *)
(* it gathers them bucket by bucket into an array whose length is the        *)
(* counter and not the number of keys.                                       *)
KeysAnswerExact ==
    ret.op = "getkeys" => /\ IsInjective(ret.keys)
                          /\ Range(ret.keys) = StoredKeys

(* The keys of the buckets the loop of table_get_keys is past. *)
KeysBelow(n) == UNION {KeysIn(lista[b]) : b \in {c \in Buckets : c < n}}

(* What table_get_keys has gathered is what lies below its loop index. *)
ScanInv ==
    /\ pc = "idle" => i = 0 /\ result = <<>>
    /\ IsInjective(result)
    /\ Range(result) = KeysBelow(i)

(* The inductive invariant: CountersDrift holds from one step to the next    *)
(* because a key is only in its own bucket and only once, KeysAnswerExact    *)
(* because of what the loop has gathered at each turn.                       *)
IInv ==
    /\ TypeOK
    /\ BucketHome
    /\ OneEntryPerKey
    /\ IsFiniteSet(StoredKeys)
    /\ CountersDrift
    /\ ScanInv
    /\ KeysAnswerExact

(* An operation touches the entry of one key, the one it was given: every    *)
(* other entry keeps its value, its bucket and its place among the others,   *)
(* also when list_add replaces and list_remove unlinks in the middle.        *)
OthersUntouched ==
    [][lista' # lista =>
         \A b \in Buckets :
           InOrder(lista'[b], ret'.key) = InOrder(lista[b], ret'.key)]_vars

(* The table as a map: what its users see of it. *)
Valuation ==
    [k \in Keys |-> IF HashOk(k) /\ k \in KeysIn(lista[Hash(k)])
                    THEN ListGet(lista[Hash(k)], k)
                    ELSE NoVal]

Map == INSTANCE MapSpec WITH
         map <- Valuation,
         count <- nElems

(* The bucketed table implements the map of MapSpec: every step is one of    *)
(* the map's operations with the same answer, or does not show.              *)
ImplementsMap == Map!Spec

-----------------------------------------------------------------------------
(* What the headers say and the code does not do. *)

(* table.h:28, "Função para obter da tabela o valor associado à chave key":  *)
(* what get answers is what is stored under the key. table_get goes by the   *)
(* count first (table.c:74), which deletions of other keys have lowered.     *)
GetFindsStored == ret.op = "get" => ret.value = Valuation[ret.key]
=============================================================================
