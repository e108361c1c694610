---------------------------- MODULE RemoteProofs ----------------------------
(* The inductive invariant RInv of the client/server system and what follows *)
(* from it: types, one thread for each connection, one place for each call.  *)
(* One lemma for each action; the table keeps its own invariant, which is    *)
(* proved in TableProofs.                                                    *)
EXTENDS RemoteProps, FiniteSetTheorems, SequenceTheorems, TLAPS

TabT == INSTANCE TableRefinement WITH Keys <- ServerKeys

(* The assumptions of Table and MapSpec hold for the table of the server.    *)
LEMMA TableAssumptions ==
    /\ NoVal \notin Vals
    /\ NLists \in Int
    /\ HashSum \in [ServerKeys -> Int]
    /\ LowestCount \in Int /\ LowestCount <= 0
BY RemoteAssumption

(* The instance of the table that the specification uses and the one that    *)
(* the theorems about it speak of have the same invariant, ...               *)
LEMMA SameInvariant == Tab!IInv <=> TabT!IInv
<1>1. Tab!TypeOK <=> TabT!TypeOK
    BY DEF Tab!TypeOK, TabT!TypeOK, Tab!Buckets, TabT!Buckets, Tab!NoRet, TabT!NoRet,
           Tab!Lists, TabT!Lists, Tab!Returns, TabT!Returns
<1>2. Tab!BucketHome <=> TabT!BucketHome
    BY DEF Tab!BucketHome, TabT!BucketHome, Tab!Buckets, TabT!Buckets, Tab!KeysIn,
           TabT!KeysIn, Tab!Hash, TabT!Hash, Tab!CRem, TabT!CRem
<1>3. Tab!OneEntryPerKey <=> TabT!OneEntryPerKey
    BY DEF Tab!OneEntryPerKey, TabT!OneEntryPerKey, Tab!Buckets, TabT!Buckets,
           Tab!KeysDistinct, TabT!KeysDistinct
<1>4. Tab!StoredKeys = TabT!StoredKeys /\ Tab!NonEmpty = TabT!NonEmpty
    BY DEF Tab!StoredKeys, TabT!StoredKeys, Tab!NonEmpty, TabT!NonEmpty, Tab!Buckets,
           TabT!Buckets, Tab!KeysIn, TabT!KeysIn
<1>5. Tab!CountersDrift <=> TabT!CountersDrift
    BY <1>4 DEF Tab!CountersDrift, TabT!CountersDrift, Tab!Cardinality, TabT!Cardinality
<1>6. Tab!ScanInv <=> TabT!ScanInv
    BY DEF Tab!ScanInv, TabT!ScanInv, Tab!KeysBelow, TabT!KeysBelow, Tab!Buckets,
           TabT!Buckets, Tab!KeysIn, TabT!KeysIn, Tab!IsInjective, TabT!IsInjective,
           Tab!Range, TabT!Range
<1>7. Tab!KeysAnswerExact <=> TabT!KeysAnswerExact
    BY <1>4 DEF Tab!KeysAnswerExact, TabT!KeysAnswerExact, Tab!IsInjective,
                TabT!IsInjective, Tab!Range, TabT!Range
<1>8. Tab!IsFiniteSet(Tab!StoredKeys) <=> TabT!IsFiniteSet(TabT!StoredKeys)
    BY <1>4 DEF Tab!IsFiniteSet, TabT!IsFiniteSet
<1>. QED
    BY <1>1, <1>2, <1>3, <1>4, <1>5, <1>6, <1>7, <1>8 DEF Tab!IInv, TabT!IInv

(* ... which holds of the empty table ...                                    *)
LEMMA TableInit == Tab!Init => Tab!IInv
<1>1. Tab!Init <=> TabT!Init
    BY DEF Tab!Init, TabT!Init, Tab!Buckets, TabT!Buckets, Tab!NoRet, TabT!NoRet
<1>2. TabT!Init => TabT!IInv
    BY TabT!InitIInv, TableAssumptions
<1>. QED
    BY <1>1, <1>2, SameInvariant

(* ... and the same operations.                                              *)
LEMMA SameActions ==
    /\ \A k, v : Tab!Put(k, v) <=> TabT!Put(k, v)
    /\ \A k : Tab!Get(k) <=> TabT!Get(k)
    /\ \A k : Tab!Del(k) <=> TabT!Del(k)
    /\ Tab!Size <=> TabT!Size
    /\ Tab!GetKeysBegin <=> TabT!GetKeysBegin
    /\ Tab!Scan <=> TabT!Scan
<1>0. /\ \A k : Tab!HashOk(k) <=> TabT!HashOk(k)
      /\ \A k : Tab!Hash(k) = TabT!Hash(k)
      /\ Tab!Crash <=> TabT!Crash
      /\ Tab!Ready <=> TabT!Ready
      /\ Tab!Buckets = TabT!Buckets
    BY DEF Tab!HashOk, TabT!HashOk, Tab!Hash, TabT!Hash, Tab!CRem, TabT!CRem,
           Tab!Buckets, TabT!Buckets, Tab!Crash, TabT!Crash, Tab!store, TabT!store,
           Tab!loop, TabT!loop, Tab!Ready, TabT!Ready
<1>1. \A s, k : /\ Tab!KeysIn(s) = TabT!KeysIn(s)
                /\ Tab!Pos(s, k) = TabT!Pos(s, k)
                /\ Tab!ListGet(s, k) = TabT!ListGet(s, k)
                /\ Tab!ListRemove(s, k) = TabT!ListRemove(s, k)
                /\ Tab!KeyList(s) = TabT!KeyList(s)
    BY DEF Tab!KeysIn, TabT!KeysIn, Tab!Pos, TabT!Pos, Tab!ListGet, TabT!ListGet,
           Tab!ListRemove, TabT!ListRemove, Tab!RemoveAt, TabT!RemoveAt,
           Tab!KeyList, TabT!KeyList
<1>2. \A s, k, v : Tab!ListAdd(s, k, v) = TabT!ListAdd(s, k, v)
    BY DEF Tab!ListAdd, TabT!ListAdd, Tab!Entry, TabT!Entry, Tab!KeysIn, TabT!KeysIn,
           Tab!Pos, TabT!Pos
<1>3. \A k, v : Tab!Put(k, v) <=> TabT!Put(k, v)
    BY <1>0, <1>1, <1>2
       DEF Tab!Put, TabT!Put, Tab!PutNew, TabT!PutNew, Tab!PutReplace, TabT!PutReplace,
           Tab!WildPut, TabT!WildPut, Tab!loop, TabT!loop, Tab!PutRet, TabT!PutRet
<1>4. \A k : Tab!Get(k) <=> TabT!Get(k)
    BY <1>0, <1>1
       DEF Tab!Get, TabT!Get, Tab!GetNone, TabT!GetNone, Tab!GetLookup, TabT!GetLookup,
           Tab!WildGet, TabT!WildGet, Tab!loop, TabT!loop, Tab!store, TabT!store,
           Tab!GetRet, TabT!GetRet
<1>5. \A k : Tab!Del(k) <=> TabT!Del(k)
    BY <1>0, <1>1
       DEF Tab!Del, TabT!Del, Tab!DelEntry, TabT!DelEntry, Tab!DelSole, TabT!DelSole,
           Tab!DelMissing, TabT!DelMissing, Tab!DelPhantom, TabT!DelPhantom,
           Tab!WildDel, TabT!WildDel, Tab!loop, TabT!loop, Tab!store, TabT!store,
           Tab!DelRet, TabT!DelRet
<1>6. (Tab!Size <=> TabT!Size) /\ (Tab!GetKeysBegin <=> TabT!GetKeysBegin)
    BY <1>0 DEF Tab!Size, TabT!Size, Tab!GetKeysBegin, TabT!GetKeysBegin, Tab!loop,
                TabT!loop, Tab!store, TabT!store, Tab!SizeRet, TabT!SizeRet
<1>7. Tab!Scan <=> TabT!Scan
    BY <1>0, <1>1
       DEF Tab!Scan, TabT!Scan, Tab!ScanBucket, TabT!ScanBucket, Tab!ScanCrash,
           TabT!ScanCrash, Tab!GetKeysEnd, TabT!GetKeysEnd, Tab!EndMarkCrash,
           TabT!EndMarkCrash, Tab!HaveResult, TabT!HaveResult, Tab!KeysRet,
           TabT!KeysRet, Tab!loop, TabT!loop, Tab!store, TabT!store
<1>. QED
    BY <1>3, <1>4, <1>5, <1>6, <1>7

(* So they have the same steps.                                              *)
LEMMA SameNext == Tab!Next <=> TabT!Next
BY SameActions DEF Tab!Next, TabT!Next

(* Whatever a request does to the table, or a death of the server, keeps the *)
(* invariant of the table.                                                   *)
LEMMA TableStep ==
    ASSUME Tab!IInv, Tab!Next \/ Tab!Crash \/ UNCHANGED table
    PROVE  Tab!IInv'
<1>1. TabT!IInv
    BY SameInvariant
<1>2. CASE Tab!Next \/ UNCHANGED table
    <2>1. [TabT!Next]_(TabT!vars)
        BY <1>2, SameNext DEF table, TabT!vars
    <2>2. TabT!IInv'
        BY <1>1, <2>1, TabT!NextKeepsIInv, TableAssumptions
    <2>. QED
        BY <2>2, SameInvariant, PTL
<1>3. CASE Tab!Crash
    <2>1. TabT!Crash
        BY <1>3 DEF Tab!Crash, TabT!Crash, Tab!store, TabT!store, Tab!loop, TabT!loop
    <2>2. TabT!IInv'
        BY <1>1, <2>1, TabT!CrashKeepsIInv, TableAssumptions
    <2>. QED
        BY <2>2, SameInvariant, PTL
<1>. QED
    BY <1>2, <1>3

-----------------------------------------------------------------------------
(* Threads are numbered from 1.                                              *)
LEMMA ThreadsAre == Cardinality(Clients) \in Nat /\ Threads \subseteq Nat \ {0}
BY RemoteAssumption, FS_CardinalityType DEF Threads

(* Before the first connection there is no thread, no message and no entry.  *)
LEMMA InitRInv == Init => RInv
<1> SUFFICES ASSUME Init PROVE RInv
    OBVIOUS
<1>1. TypeOK
    BY ThreadsAre, RemoteAssumption DEF Init, TypeOK
<1>2. Tab!IInv
    BY TableInit DEF Init
<1>3. ThreadInv
    <2>1. {c \in Clients : cpc[c] # "off"} = {}
        BY DEF Init
    <2>2. Cardinality({c \in Clients : cpc[c] # "off"}) = 0
        BY <2>1, FS_EmptySet
    <2>. QED
        BY <2>2, ThreadsAre DEF Init, ThreadInv
<1>4. SocketInv
    BY DEF Init, SocketInv, IsInjective, Range
<1>5. MessageInv
    BY ThreadsAre, RemoteAssumption DEF Init, MessageInv
<1>6. PlaceInv
    BY DEF Init, PlaceInv, InThread
<1>. QED
    BY <1>1, <1>2, <1>3, <1>4, <1>5, <1>6 DEF RInv

(* A program that has connected goes on to another place. *)
LEMMA ClientFrame ==
    ASSUME RInv, UNCHANGED <<queue, main, handlers, table>>,
           NEW c \in Clients,
           cpc[c] \in {"ready", "waiting", "spin", "broken"},
           \E p \in {"ready", "waiting", "spin", "broken", "gone"} :
             /\ cpc' = [cpc EXCEPT ![c] = p]
             /\ \/ closed' = closed
                \/ p = "gone" /\ \E e \in {"fin", "rst"} : closed' = [closed EXCEPT ![c] = e]
    PROVE  Tab!IInv' /\ ThreadInv' /\ SocketInv' /\ MessageInv'
<1>1. UNCHANGED <<queue, mpc, n, tp, mtx, hpc, hsock, hmsg, alive>>
    BY DEF main, handlers, table
<1>2. cpc \in [Clients -> {"off", "ready", "waiting", "spin", "broken", "gone"}]
      /\ closed \in [Clients -> {"no", "fin", "rst"}]
    BY DEF RInv, TypeOK
<1>3. Tab!IInv'
    BY TableStep DEF RInv
<1>4. {d \in Clients : cpc'[d] # "off"} = {d \in Clients : cpc[d] # "off"}
    BY <1>2
<1>5. ThreadInv'
    BY <1>1, <1>4 DEF RInv, ThreadInv, Threads
<1>6. SocketInv'
    BY <1>1, <1>2 DEF RInv, SocketInv, Conn
<1>7. MessageInv'
    BY <1>1 DEF RInv, MessageInv, Threads
<1>. QED
    BY <1>3, <1>5, <1>6, <1>7

(* What the server holds of a request: the key is one of the table's.        *)
LEMMA RequestShape ==
    ASSUME NEW m \in ServerRequests
    PROVE  \/ \E k \in ServerKeys, v \in Vals : m = PutMsg(k, v)
           \/ \E op \in {OP_GET, OP_DEL}, k \in ServerKeys : m = KeyMsg(op, k)
           \/ \E op \in {OP_SIZE, OP_GETKEYS} : m = BareMsg(op)
<1>1. PICK q \in Requests, tail \in Tails : m = Received(q, tail)
    BY DEF ServerRequests
<1>2. CASE \E w \in Words, v \in Vals : q = PutMsg(w, v)
    <2>1. PICK w \in Words, v \in Vals : q = PutMsg(w, v)
        BY <1>2
    <2>2. m = PutMsg(<<w, tail>>, v) /\ <<w, tail>> \in ServerKeys
        BY <1>1, <2>1 DEF Received, PutMsg, CT_KEY, CT_ENTRY, ServerKeys
    <2>. QED
        BY <2>2
<1>3. CASE \E op \in {OP_GET, OP_DEL}, w \in Words : q = KeyMsg(op, w)
    <2>1. PICK op \in {OP_GET, OP_DEL}, w \in Words : q = KeyMsg(op, w)
        BY <1>3
    <2>2. m = KeyMsg(op, <<w, tail>>) /\ <<w, tail>> \in ServerKeys
        BY <1>1, <2>1 DEF Received, KeyMsg, CT_KEY, CT_ENTRY, ServerKeys
    <2>. QED
        BY <2>2
<1>4. CASE \E op \in {OP_SIZE, OP_GETKEYS} : q = BareMsg(op)
    BY <1>1, <1>4 DEF Received, BareMsg, CT_NONE, CT_KEY, CT_ENTRY
<1>. QED
    BY <1>2, <1>3, <1>4 DEF Requests

(* A request that was received does to the table one of its operations.      *)
LEMMA OperateIsNext ==
    ASSUME NEW m \in ServerRequests, Operate(m)
    PROVE  Tab!Next
<1>1. CASE \E k \in ServerKeys, v \in Vals : m = PutMsg(k, v)
    BY <1>1 DEF Operate, Tab!Next, PutMsg, OP_PUT, OP_SIZE, OP_DEL, OP_GET, OP_GETKEYS
<1>2. CASE \E op \in {OP_GET, OP_DEL}, k \in ServerKeys : m = KeyMsg(op, k)
    BY <1>2 DEF Operate, Tab!Next, KeyMsg, OP_PUT, OP_SIZE, OP_DEL, OP_GET, OP_GETKEYS
<1>3. CASE \E op \in {OP_SIZE, OP_GETKEYS} : m = BareMsg(op)
    BY <1>3 DEF Operate, Tab!Next, BareMsg, OP_PUT, OP_SIZE, OP_DEL, OP_GET, OP_GETKEYS
<1>. QED
    BY <1>1, <1>2, <1>3, RequestShape

(* What the table returns makes one of the replies.                          *)
LEMMA ReplyTyped ==
    ASSUME NEW r \in Tab!Returns
    PROVE  Reply(r) \in Replies
<1>. USE DEF Reply, Replies, BareMsg, OP_PUT, OP_DEL, OP_GET, OP_SIZE, OP_GETKEYS,
            OP_ERROR, CT_NONE, CT_VALUE, CT_RESULT, CT_KEYS
<1>1. CASE r \in [op : {"put"}, key : ServerKeys, code : {0}]
    BY <1>1
<1>2. CASE r \in [op : {"del"}, key : ServerKeys, code : {0, -1}]
    BY <1>2
<1>3. CASE r \in [op : {"get"}, key : ServerKeys, value : Vals \cup {NoVal}]
    BY <1>3
<1>4. CASE r \in [op : {"size"}, size : Int]
    BY <1>4
<1>5. CASE r \in [op : {"getkeys"}, keys : Seq(ServerKeys)]
    BY <1>5
<1>6. CASE r = Tab!NoRet
    BY <1>6 DEF Tab!NoRet
<1>. QED
    BY <1>1, <1>2, <1>3, <1>4, <1>5, <1>6 DEF Tab!Returns

-----------------------------------------------------------------------------
(* The client's actions. *)

(* A thread at work is the last one created, and main waits for it: if a     *)
(* call is in a thread, it is in this one.                                   *)
LEMMA OneAtWork ==
    ASSUME RInv, NEW t \in Threads, hpc[t] \notin {"none", "done"}
    PROVE  /\ t = n /\ mpc = "join"
           /\ \A u \in Threads : hmsg[u] # NULL => u = t
           /\ \A c : InThread(c) <=> hsock[t] = c /\ hmsg[t] # NULL
<1>1. n \in Nat /\ t \in Nat /\ mpc \in {"accept", "join"}
    BY ThreadsAre DEF RInv, TypeOK
<1>2. t = n /\ mpc = "join"
    BY <1>1 DEF RInv, ThreadInv
<1>3. \A u \in Threads : hmsg[u] # NULL => u = t
    <2> SUFFICES ASSUME NEW u \in Threads, u # t, hmsg[u] # NULL PROVE FALSE
        OBVIOUS
    <2>1. u \in Nat
        BY ThreadsAre
    <2>2. hpc[u] \in {"none", "done"}
        BY <1>1, <1>2, <2>1 DEF RInv, ThreadInv
    <2>. QED
        BY <2>2 DEF RInv, MessageInv
<1>. QED
    BY <1>2, <1>3 DEF InThread

(* A connection is queued behind the others, once.                           *)
LEMMA ConnectKeeps ==
    ASSUME RInv, NEW c \in Clients, Connect(c)
    PROVE  RInv'
<1>. USE DEF Connect, main, handlers
<1>1. UNCHANGED <<mpc, n, tp, mtx, hpc, hsock, hmsg, asked, outcome, calls, closed, inbox, reply>>
    OBVIOUS
<1>2. /\ cpc \in [Clients -> {"off", "ready", "waiting", "spin", "broken", "gone"}]
      /\ queue \in Seq(Clients)
      /\ n \in 0..Cardinality(Clients)
    BY DEF RInv, TypeOK
<1>3. TypeOK'
    BY <1>1, <1>2 DEF RInv, TypeOK, Threads
<1>4. Tab!IInv'
    BY TableStep DEF RInv
<1>5. ThreadInv'
    <2>1. {d \in Clients : cpc[d] # "off"}' = {d \in Clients : cpc[d] # "off"} \cup {c}
        BY <1>2
    <2>2. IsFiniteSet({d \in Clients : cpc[d] # "off"})
        BY RemoteAssumption, FS_Subset
    <2>3. Cardinality({d \in Clients : cpc[d] # "off"})'
            = Cardinality({d \in Clients : cpc[d] # "off"}) + 1
        BY <2>1, <2>2, FS_AddElement
    <2>4. Cardinality({d \in Clients : cpc[d] # "off"}) \in Nat
        BY <2>2, FS_CardinalityType
    <2>5. Len(queue') = Len(queue) + 1
        BY <1>2
    <2>. QED
        BY <1>1, <1>2, <2>3, <2>4, <2>5 DEF RInv, ThreadInv, Threads
<1>6. SocketInv'
    <2>1. c \notin Range(queue) /\ \A t \in 1..n : Conn(t) # c
        BY DEF RInv, SocketInv
    <2>2. Range(queue') = Range(queue) \cup {c}
        BY <1>2 DEF Range
    <2>3. IsInjective(queue')
        BY <1>2, <2>1 DEF RInv, SocketInv, IsInjective, Range
    <2>4. \A t : Conn(t)' = Conn(t)
        BY <1>1 DEF Conn
    <2>. QED
        BY <1>1, <1>2, <2>1, <2>2, <2>3, <2>4 DEF RInv, SocketInv
<1>7. MessageInv'
    BY <1>1 DEF RInv, MessageInv, Threads
<1>8. PlaceInv'
    BY <1>1, <1>2 DEF RInv, PlaceInv, InThread, Threads, table
<1>. QED
    BY <1>3, <1>4, <1>5, <1>6, <1>7, <1>8 DEF RInv

(* The client gives up without a connection.                                 *)
LEMMA ConnectFailsKeeps ==
    ASSUME RInv, NEW c \in Clients, ConnectFails(c)
    PROVE  RInv'
<1>. USE DEF ConnectFails, main, handlers, net, table
<1>1. UNCHANGED <<mpc, n, tp, mtx, hpc, hsock, hmsg, asked, outcome, calls, closed, inbox, reply, queue,
                  alive>>
    OBVIOUS
<1>2. /\ cpc \in [Clients -> {"off", "ready", "waiting", "spin", "broken", "gone"}]
      /\ queue \in Seq(Clients)
      /\ n \in 0..Cardinality(Clients)
    BY DEF RInv, TypeOK
<1>3. TypeOK'
    BY <1>1, <1>2 DEF RInv, TypeOK, Threads
<1>4. Tab!IInv'
    BY TableStep DEF RInv
<1>5. ThreadInv'
    <2>1. {d \in Clients : cpc[d] # "off"} \subseteq {d \in Clients : cpc[d] # "off"}'
        BY <1>2
    <2>2. IsFiniteSet({d \in Clients : cpc'[d] # "off"})
        BY RemoteAssumption, FS_Subset
    <2>3. /\ Cardinality({d \in Clients : cpc[d] # "off"}) <= Cardinality({d \in Clients : cpc'[d] # "off"})
          /\ Cardinality({d \in Clients : cpc'[d] # "off"}) \in Nat
          /\ Cardinality({d \in Clients : cpc[d] # "off"}) \in Nat
        BY <2>1, <2>2, FS_Subset, FS_CardinalityType
    <2>. QED
        BY <1>1, <1>2, <2>3 DEF RInv, ThreadInv, Threads
<1>6. SocketInv'
    BY <1>1, <1>2 DEF RInv, SocketInv, Conn
<1>7. MessageInv'
    BY <1>1 DEF RInv, MessageInv, Threads
<1>8. PlaceInv'
    BY <1>1, <1>2 DEF RInv, PlaceInv, InThread, Threads, table
<1>. QED
    BY <1>3, <1>4, <1>5, <1>6, <1>7, <1>8 DEF RInv

(* A request goes to the buffer of a server that has nothing of this         *)
(* client.                                                                   *)
LEMMA CallKeeps ==
    ASSUME RInv, NEW c \in Clients, NEW m \in Requests, Call(c, m)
    PROVE  RInv'
<1>. USE DEF Call, Asks
<1>1. UNCHANGED <<queue, main, handlers, table>>
    OBVIOUS
<1>2. UNCHANGED <<outcome, closed, reply, queue, mpc, n, tp, mtx, hpc, hsock, hmsg, alive>>
    BY DEF net, main, handlers, table
<1>3. Tab!IInv' /\ ThreadInv' /\ SocketInv' /\ MessageInv'
    BY <1>1, ClientFrame
<1>4. TypeOK'
    BY <1>2, RemoteAssumption DEF RInv, TypeOK, Threads
<1>5. PlaceInv'
    BY <1>2, NullAssumption DEF RInv, TypeOK, PlaceInv, InThread, Threads
<1>. QED
    BY <1>3, <1>4, <1>5 DEF RInv

(* A request to a dead server is lost; its client may wait for nothing.      *)
LEMMA CallDeadKeeps ==
    ASSUME RInv, NEW c \in Clients, NEW m \in Requests, CallDead(c, m)
    PROVE  RInv'
<1>. USE DEF CallDead, Asks
<1>1. UNCHANGED <<queue, main, handlers, table>>
    OBVIOUS
<1>2. UNCHANGED <<outcome, closed, inbox, reply, queue, mpc, n, tp, mtx, hpc, hsock, hmsg, alive>>
    BY DEF net, main, handlers, table
<1>3. Tab!IInv' /\ ThreadInv' /\ SocketInv' /\ MessageInv'
    BY <1>1, ClientFrame
<1>4. TypeOK'
    BY <1>2, RemoteAssumption DEF RInv, TypeOK, Threads
<1>5. PlaceInv'
    BY <1>2, NullAssumption DEF RInv, TypeOK, PlaceInv, InThread, Threads
<1>. QED
    BY <1>3, <1>4, <1>5 DEF RInv

(* A request on a reset connection fails, which only a dead server brings    *)
(* about.                                                                    *)
LEMMA CallFailsKeeps ==
    ASSUME RInv, NEW c \in Clients, NEW m \in Requests, CallFails(c, m)
    PROVE  RInv'
<1>. USE DEF CallFails, Asks
<1>1. UNCHANGED <<queue, main, handlers, table>>
    OBVIOUS
<1>2. UNCHANGED <<closed, inbox, reply, queue, mpc, n, tp, mtx, hpc, hsock, hmsg, alive>>
    BY DEF net, main, handlers, table
<1>3. Tab!IInv' /\ ThreadInv' /\ SocketInv' /\ MessageInv'
    BY <1>1, ClientFrame
<1>4. TypeOK'
    BY <1>2, RemoteAssumption DEF RInv, TypeOK, Threads
<1>5. PlaceInv'
    BY <1>2, NullAssumption DEF RInv, TypeOK, PlaceInv, InThread, Threads
<1>. QED
    BY <1>3, <1>4, <1>5 DEF RInv

(* A call on a closed socket fails.                                          *)
LEMMA CallClosedKeeps ==
    ASSUME RInv, NEW c \in Clients, NEW m \in Requests, CallClosed(c, m)
    PROVE  RInv'
<1>. USE DEF CallClosed, net
<1>1. UNCHANGED <<queue, main, handlers, table>>
    OBVIOUS
<1>2. UNCHANGED <<cpc, closed, inbox, reply, queue, mpc, n, tp, mtx, hpc, hsock, hmsg, alive>>
    BY DEF net, main, handlers, table
<1>3. Tab!IInv' /\ ThreadInv' /\ SocketInv' /\ MessageInv'
    <2>1. cpc' = [cpc EXCEPT ![c] = "broken"]
        BY <1>2 DEF RInv, TypeOK
    <2>. QED
        BY <1>1, <1>2, <2>1, ClientFrame
<1>4. TypeOK'
    BY <1>2, RemoteAssumption DEF RInv, TypeOK, Threads
<1>5. PlaceInv'
    BY <1>2, NullAssumption DEF RInv, TypeOK, PlaceInv, InThread, Threads
<1>. QED
    BY <1>3, <1>4, <1>5 DEF RInv

(* The reply leaves the buffer of the client: the call is nowhere any more.  *)
LEMMA ReturnKeeps ==
    ASSUME RInv, NEW c \in Clients, Return(c)
    PROVE  RInv'
<1>. USE DEF Return
<1>1. UNCHANGED <<queue, main, handlers, table>>
    OBVIOUS
<1>2. UNCHANGED <<asked, calls, closed, inbox, queue, mpc, n, tp, mtx, hpc, hsock, hmsg, alive>>
    BY DEF net, main, handlers, table
<1>3. Tab!IInv' /\ ThreadInv' /\ SocketInv' /\ MessageInv'
    BY <1>1, ClientFrame
<1>4. TypeOK'
    BY <1>2, RemoteAssumption DEF RInv, TypeOK, Threads, Result
<1>5. PlaceInv'
    BY <1>2, NullAssumption DEF RInv, TypeOK, PlaceInv, InThread, Threads
<1>. QED
    BY <1>3, <1>4, <1>5 DEF RInv

(* The call fails because the connection was reset.                          *)
LEMMA ReturnResetKeeps ==
    ASSUME RInv, NEW c \in Clients, ReturnReset(c)
    PROVE  RInv'
<1>. USE DEF ReturnReset
<1>1. UNCHANGED <<queue, main, handlers, table>>
    OBVIOUS
<1>2. UNCHANGED <<asked, calls, closed, reply, queue, mpc, n, tp, mtx, hpc, hsock, hmsg, alive>>
    BY DEF net, main, handlers, table
<1>3. Tab!IInv' /\ ThreadInv' /\ SocketInv' /\ MessageInv'
    BY <1>1, ClientFrame
<1>4. TypeOK'
    BY <1>2, RemoteAssumption DEF RInv, TypeOK, Threads
<1>5. PlaceInv'
    BY <1>2, NullAssumption DEF RInv, TypeOK, PlaceInv, InThread, Threads
<1>. QED
    BY <1>3, <1>4, <1>5 DEF RInv

(* The client reads 0 octets for ever: the server is dead.                   *)
LEMMA ReturnNeverKeeps ==
    ASSUME RInv, NEW c \in Clients, ReturnNever(c)
    PROVE  RInv'
<1>. USE DEF ReturnNever, net
<1>1. UNCHANGED <<queue, main, handlers, table>>
    OBVIOUS
<1>2. UNCHANGED <<asked, outcome, calls, closed, inbox, reply, queue, mpc, n, tp, mtx, hpc, hsock, hmsg, alive>>
    BY DEF net, main, handlers, table
<1>3. Tab!IInv' /\ ThreadInv' /\ SocketInv' /\ MessageInv'
    BY <1>1, ClientFrame
<1>4. TypeOK'
    BY <1>2, RemoteAssumption DEF RInv, TypeOK, Threads
<1>5. PlaceInv'
    BY <1>2, NullAssumption DEF RInv, TypeOK, PlaceInv, InThread, Threads
<1>. QED
    BY <1>3, <1>4, <1>5 DEF RInv

(* The client closes its end between two calls.                              *)
LEMMA QuitKeeps ==
    ASSUME RInv, NEW c \in Clients, Quit(c)
    PROVE  RInv'
<1>. USE DEF Quit
<1>1. UNCHANGED <<queue, main, handlers, table>>
    OBVIOUS
<1>2. UNCHANGED <<asked, outcome, calls, inbox, reply, queue, mpc, n, tp, mtx, hpc, hsock, hmsg, alive>>
    BY DEF net, main, handlers, table
<1>3. Tab!IInv' /\ ThreadInv' /\ SocketInv' /\ MessageInv'
    BY <1>1, ClientFrame
<1>4. TypeOK'
    BY <1>2, RemoteAssumption DEF RInv, TypeOK, Threads
<1>5. PlaceInv'
    BY <1>2, NullAssumption DEF RInv, TypeOK, PlaceInv, InThread, Threads
<1>. QED
    BY <1>3, <1>4, <1>5 DEF RInv

(* The client ends anywhere: what was on the way to it is gone.              *)
LEMMA KillKeeps ==
    ASSUME RInv, NEW c \in Clients, Kill(c)
    PROVE  RInv'
<1>. USE DEF Kill
<1>1. UNCHANGED <<queue, main, handlers, table>>
    OBVIOUS
<1>2. UNCHANGED <<asked, outcome, calls, inbox, queue, mpc, n, tp, mtx, hpc, hsock, hmsg, alive>>
    BY DEF net, main, handlers, table
<1>3. Tab!IInv' /\ ThreadInv' /\ SocketInv' /\ MessageInv'
    BY <1>1, ClientFrame
<1>4. TypeOK'
    BY <1>2, RemoteAssumption DEF RInv, TypeOK, Threads
<1>5. PlaceInv'
    BY <1>2, NullAssumption DEF RInv, TypeOK, PlaceInv, InThread, Threads
<1>. QED
    BY <1>3, <1>4, <1>5 DEF RInv

-----------------------------------------------------------------------------
(* The accepting thread's actions, and the death of the server. *)

(* What is in a sequence is its head or in its tail, and not both if nothing *)
(* is in it twice.                                                           *)
LEMMA HeadAndTail ==
    ASSUME NEW S, NEW q \in Seq(S), q # <<>>
    PROVE  /\ Range(q) = Range(Tail(q)) \cup {Head(q)}
           /\ IsInjective(q) => Head(q) \notin Range(Tail(q)) /\ IsInjective(Tail(q))
<1>1. /\ Len(q) \in Nat \ {0} /\ Head(q) = q[1]
      /\ DOMAIN q = 1..Len(q) /\ DOMAIN Tail(q) = 1..(Len(q) - 1)
      /\ \A p \in DOMAIN Tail(q) : Tail(q)[p] = q[p + 1]
    OBVIOUS
<1>2. \A p \in DOMAIN q : p # 1 => p - 1 \in DOMAIN Tail(q) /\ q[p] = Tail(q)[p - 1]
    BY <1>1
<1>3. \A p \in DOMAIN Tail(q) : p + 1 \in DOMAIN q /\ p + 1 # 1
    BY <1>1
<1>4. 1 \in DOMAIN q
    BY <1>1
<1>5. \A x \in Range(q) : x \in Range(Tail(q)) \/ x = Head(q)
    <2> SUFFICES ASSUME NEW p \in DOMAIN q, q[p] # Head(q) PROVE q[p] \in Range(Tail(q))
        BY DEF Range
    <2>1. p - 1 \in DOMAIN Tail(q) /\ q[p] = Tail(q)[p - 1]
        BY <1>1, <1>2
    <2>. QED
        BY <2>1 DEF Range
<1>6. Range(Tail(q)) \subseteq Range(q) /\ Head(q) \in Range(q)
    BY <1>1, <1>3, <1>4 DEF Range
<1>7. IsInjective(q) => Head(q) \notin Range(Tail(q))
    BY <1>1, <1>3, <1>4 DEF IsInjective, Range
<1>8. IsInjective(q) => IsInjective(Tail(q))
    <2> SUFFICES ASSUME IsInjective(q),
                        NEW a \in DOMAIN Tail(q), NEW b \in DOMAIN Tail(q),
                        Tail(q)[a] = Tail(q)[b]
                 PROVE  a = b
        BY DEF IsInjective
    <2>1. a + 1 = b + 1
        BY <1>1, <1>3 DEF IsInjective
    <2>2. a \in Nat /\ b \in Nat
        BY <1>1
    <2>. QED
        BY <2>1, <2>2
<1>. QED
    BY <1>5, <1>6, <1>7, <1>8

(* There is a thread for every connection in the queue.                      *)
LEMMA RoomForThread ==
    ASSUME RInv
    PROVE  /\ n \in Nat /\ Len(queue) \in Nat
           /\ n + Len(queue) <= Cardinality(Clients)
<1>. DEFINE connected == {c \in Clients : cpc[c] # "off"}
<1>1. Cardinality(connected) <= Cardinality(Clients)
    BY RemoteAssumption, FS_Subset
<1>2. IsFiniteSet(connected) /\ Cardinality(connected) \in Nat
    BY RemoteAssumption, FS_Subset, FS_CardinalityType
<1>3. n \in Nat /\ queue \in Seq(Clients)
    BY ThreadsAre DEF RInv, TypeOK
<1>. QED
    BY <1>1, <1>2, <1>3, ThreadsAre DEF RInv, ThreadInv

(* The head of the queue gets a new thread, which will find it in tp.        *)
LEMMA AcceptKeeps ==
    ASSUME RInv, Accept
    PROVE  RInv'
<1>. USE DEF Accept
<1>1. UNCHANGED <<cpc, asked, outcome, calls, closed, inbox, reply, mtx, hsock, hmsg, alive>>
    BY DEF client, table
<1>2. n + 1 \in Threads /\ n \in Nat /\ n' = n + 1
    BY RoomForThread, ThreadsAre DEF Threads
<1>3. queue \in Seq(Clients) /\ queue # <<>> /\ Head(queue) \in Clients
      /\ hpc \in [Threads -> {"none", "start", "receive", "lock", "invoke", "send", "spin", "done"}]
    BY DEF RInv, TypeOK
<1>4. \A t \in 1..n : t \in Threads /\ hpc[t] = "done" /\ hpc'[t] = "done"
    BY <1>2, <1>3, ThreadsAre DEF RInv, ThreadInv, Threads
<1>5. hpc[n + 1] = "none" /\ hpc'[n + 1] = "start" /\ hsock[n + 1] = NULL
    BY <1>2, <1>3 DEF RInv, ThreadInv
<1>6. TypeOK'
    BY <1>1, <1>2, <1>3, ThreadsAre DEF RInv, TypeOK, Threads
<1>7. Tab!IInv'
    BY TableStep DEF RInv
<1>8. ThreadInv'
    <2>1. Len(queue') = Len(queue) - 1 /\ Len(queue) \in Nat
        BY <1>3
    <2>2. (n + Len(queue))' = n + Len(queue)
        BY <1>2, <2>1
    <2>3. {d \in Clients : cpc[d] # "off"}' = {d \in Clients : cpc[d] # "off"}
        BY <1>1
    <2>4. \A t \in Threads : t \in Nat \ {0}
        BY ThreadsAre
    <2>5. \A t \in Threads : hpc'[t] = "none" <=> t > n'
        BY <1>2, <1>3, <1>5, <2>4 DEF RInv, ThreadInv
    <2>6. \A t \in Threads : t < n' \/ (t = n' /\ mpc' = "accept") => hpc'[t] = "done"
        BY <1>2, <1>4, <2>4
    <2>7. \A t \in Threads : hsock'[t] = NULL <=> hpc'[t] \in {"none", "start"}
        BY <1>1, <1>2, <1>3, <1>5 DEF RInv, ThreadInv
    <2>8. tp' \in Clients
        BY <1>3
    <2>. QED
        BY <2>2, <2>3, <2>5, <2>6, <2>7, <2>8 DEF RInv, ThreadInv, Threads
<1>9. SocketInv'
    <2>1. \A t \in 1..n : Conn(t)' = Conn(t)
        BY <1>1, <1>4 DEF Conn
    <2>2. \A t \in {n + 1} : Conn(t)' = Head(queue)
        BY <1>5 DEF Conn
    <2>3. Range(queue) = Range(queue') \cup {Head(queue)} /\ Head(queue) \notin Range(queue')
        BY <1>3, HeadAndTail DEF RInv, SocketInv
    <2>4. IsInjective(queue')
        BY <1>3, HeadAndTail DEF RInv, SocketInv
    <2>5. \A t \in 1..n' : t \in 1..n \/ t = n + 1
        BY <1>2
    <2>6. \A t \in 1..n : Conn(t) \notin Range(queue)
        BY DEF RInv, SocketInv
    <2>7. 1..n \subseteq 1..n' /\ n + 1 \in 1..n'
        BY <1>2
    <2>8. \A t \in 1..n' : Conn(t)' \notin Range(queue')
        BY <2>1, <2>2, <2>3, <2>5, <2>6
    <2>9. \A t, u \in 1..n' : Conn(t)' = Conn(u)' => t = u
        BY <2>1, <2>2, <2>3, <2>5, <2>6 DEF RInv, SocketInv
    <2>10. \A c \in Clients : cpc[c] = "off" => c \notin Range(queue') /\ \A t \in 1..n' : Conn(t)' # c
        BY <2>1, <2>2, <2>3, <2>5 DEF RInv, SocketInv
    <2>11. \A c \in Clients : cpc[c] \in {"ready", "waiting", "spin", "broken"} =>
              c \in Range(queue') \/ \E t \in 1..n' : Conn(t)' = c
        BY <2>1, <2>2, <2>3, <2>7 DEF RInv, SocketInv
    <2>. QED
        BY <1>1, <2>4, <2>8, <2>9, <2>10, <2>11 DEF RInv, SocketInv
<1>10. MessageInv'
    BY <1>1, <1>2, <1>3, <1>5 DEF RInv, MessageInv, Threads
<1>11. PlaceInv'
    BY <1>1 DEF RInv, PlaceInv, InThread, Threads
<1>. QED
    BY <1>6, <1>7, <1>8, <1>9, <1>10, <1>11 DEF RInv

(* The server dies and nothing else changes.                                 *)
LEMMA CrashKeeps ==
    ASSUME RInv, Tab!Crash, UNCHANGED <<client, net, main, handlers>>
    PROVE  RInv'
<1>1. UNCHANGED <<cpc, asked, outcome, calls, closed, inbox, reply, queue, mpc, n, tp,
                  mtx, hpc, hsock, hmsg>>
    BY DEF client, net, main, handlers
<1>2. TypeOK'
    BY <1>1 DEF RInv, TypeOK, Threads
<1>3. Tab!IInv'
    BY TableStep DEF RInv
<1>4. ThreadInv' /\ SocketInv' /\ MessageInv'
    BY <1>1 DEF RInv, ThreadInv, SocketInv, MessageInv, Conn, Threads, Tab!Crash
<1>5. PlaceInv'
    BY <1>1 DEF RInv, PlaceInv, InThread, Threads, Tab!Crash
<1>. QED
    BY <1>2, <1>3, <1>4, <1>5 DEF RInv

(* The server dies with a connection that it has taken from the queue and    *)
(* given to no thread.                                                       *)
LEMMA AcceptAbortKeeps ==
    ASSUME RInv, AcceptAbort
    PROVE  RInv'
<1>1. UNCHANGED <<cpc, asked, outcome, calls, closed, inbox, reply, mpc, n, tp,
                  mtx, hpc, hsock, hmsg>> /\ ~alive'
    BY DEF AcceptAbort, Tab!Crash, client, main, handlers
<1>2. queue \in Seq(Clients) /\ queue # <<>> /\ queue' = Tail(queue) /\ queue' \in Seq(Clients)
    BY DEF AcceptAbort, RInv, TypeOK
<1>3. TypeOK'
    BY <1>1, <1>2 DEF RInv, TypeOK, Threads
<1>4. Tab!IInv'
    BY TableStep DEF RInv, AcceptAbort
<1>5. ThreadInv'
    <2>1. Len(queue') = Len(queue) - 1 /\ Len(queue) \in Nat /\ n \in Nat
        BY <1>2, ThreadsAre DEF RInv, TypeOK
    <2>2. (n + Len(queue))' <= n + Len(queue)
        BY <1>1, <2>1
    <2>3. Cardinality({d \in Clients : cpc[d] # "off"}) \in Nat
        BY RemoteAssumption, FS_Subset, FS_CardinalityType
    <2>4. (n + Len(queue))' <= Cardinality({d \in Clients : cpc'[d] # "off"})
        BY <1>1, <2>1, <2>2, <2>3 DEF RInv, ThreadInv
    <2>. QED
        BY <1>1, <2>4 DEF RInv, ThreadInv, Threads
<1>6. SocketInv'
    <2>1. Range(queue') \subseteq Range(queue) /\ IsInjective(queue')
        BY <1>2, HeadAndTail DEF RInv, SocketInv
    <2>. QED
        BY <1>1, <2>1 DEF RInv, SocketInv, Conn
<1>7. MessageInv'
    BY <1>1 DEF RInv, MessageInv, Threads
<1>8. PlaceInv'
    BY <1>1 DEF RInv, PlaceInv, InThread, Threads
<1>. QED
    BY <1>3, <1>4, <1>5, <1>6, <1>7, <1>8 DEF RInv

(* The thread that was waited for is done: all threads are.                  *)
LEMMA JoinKeeps ==
    ASSUME RInv, Join
    PROVE  RInv'
<1>. USE DEF Join
<1>1. UNCHANGED <<cpc, asked, outcome, calls, closed, inbox, reply, queue, n, tp,
                  mtx, hpc, hsock, hmsg, alive>>
    BY DEF client, net, handlers, table
<1>2. TypeOK'
    BY <1>1 DEF RInv, TypeOK, Threads
<1>3. Tab!IInv'
    BY TableStep DEF RInv
<1>4. ThreadInv'
    BY <1>1 DEF RInv, ThreadInv, Threads
<1>5. SocketInv' /\ MessageInv' /\ PlaceInv'
    BY <1>1 DEF RInv, SocketInv, MessageInv, PlaceInv, InThread, Conn, Threads
<1>. QED
    BY <1>2, <1>3, <1>4, <1>5 DEF RInv

-----------------------------------------------------------------------------
(* The handler's actions. *)

(* A thread that has its socket goes on to another place.                    *)
LEMMA HandlerFrame ==
    ASSUME RInv, NEW t \in Threads,
           hpc[t] \in {"receive", "lock", "invoke", "send"},
           NEW p \in {"receive", "lock", "invoke", "send", "spin", "done"},
           hpc' = [hpc EXCEPT ![t] = p],
           UNCHANGED <<cpc, closed, queue, mpc, n, tp, hsock>>, alive
    PROVE  ThreadInv' /\ SocketInv'
<1>1. /\ hpc \in [Threads -> {"none", "start", "receive", "lock", "invoke", "send", "spin", "done"}]
      /\ Threads' = Threads
    BY DEF RInv, TypeOK, Threads
<1>2. t = n /\ mpc = "join" /\ n \in Nat /\ Threads \subseteq Nat
    BY OneAtWork, ThreadsAre
<1>3. ThreadInv'
    <2>1. (Cardinality({c \in Clients : cpc[c] # "off"}) = Cardinality({c \in Clients : cpc[c] # "off"}))'
        OBVIOUS
    <2>2. \A u \in Threads : hpc'[u] = "none" <=> u > n
        BY <1>1 DEF RInv, ThreadInv
    <2>3. \A u \in Threads : u < n => hpc'[u] = "done"
        BY <1>1, <1>2 DEF RInv, ThreadInv
    <2>4. \A u \in Threads : hsock[u] = NULL <=> hpc'[u] \in {"none", "start"}
        BY <1>1 DEF RInv, ThreadInv
    <2>5. \A u \in Threads : hpc'[u] # "start" \/ hpc[u] = "start"
        BY <1>1
    <2>. QED
        BY <1>1, <1>2, <2>2, <2>3, <2>4, <2>5 DEF RInv, ThreadInv
<1>4. SocketInv'
    <2>1. \A u : u \in Threads => Conn(u)' = Conn(u)
        BY <1>1 DEF Conn
    <2>2. 1..n \subseteq Threads
        BY ThreadsAre DEF RInv, TypeOK, Threads
    <2>. QED
        BY <2>1, <2>2 DEF RInv, SocketInv
<1>. QED
    BY <1>3, <1>4

(* The thread reads tp, which holds the socket it was created for.           *)
LEMMA HandlerStartKeeps ==
    ASSUME RInv, NEW t \in Threads, HandlerStart(t)
    PROVE  RInv'
<1>. USE DEF HandlerStart
<1>1. UNCHANGED <<cpc, asked, outcome, calls, closed, inbox, reply, queue, mpc, n, tp,
                  mtx, hmsg, alive>>
    BY DEF client, net, main, table
<1>2. /\ hpc \in [Threads -> {"none", "start", "receive", "lock", "invoke", "send", "spin", "done"}]
      /\ hsock \in [Threads -> Clients \cup {NULL}]
      /\ hmsg[t] = NULL
      /\ tp \in Clients
    BY DEF RInv, TypeOK, MessageInv, ThreadInv
<1>3. /\ t = n /\ mpc = "join" /\ n \in Nat /\ Threads \subseteq Nat
      /\ \A c : ~InThread(c)
    BY <1>2, OneAtWork, ThreadsAre
<1>4. TypeOK'
    BY <1>1, <1>2 DEF RInv, TypeOK, Threads
<1>5. Tab!IInv'
    BY TableStep DEF RInv
<1>6. ThreadInv'
    BY <1>1, <1>2, <1>3, RemoteAssumption DEF RInv, ThreadInv, Threads
<1>7. SocketInv'
    <2>1. \A u : u \in Threads => Conn(u)' = Conn(u)
        BY <1>1, <1>2 DEF Conn
    <2>2. 1..n \subseteq Threads
        BY ThreadsAre DEF RInv, TypeOK, Threads
    <2>. QED
        BY <1>1, <2>1, <2>2 DEF RInv, SocketInv
<1>8. MessageInv'
    BY <1>1, <1>2 DEF RInv, MessageInv, Threads
<1>9. PlaceInv'
    <2>1. \A c \in Clients : ~InThread(c)'
        BY <1>1, <1>2, <1>3, OneAtWork DEF InThread, Threads
    <2>. QED
        BY <1>1, <1>3, <2>1 DEF RInv, PlaceInv
<1>. QED
    BY <1>4, <1>5, <1>6, <1>7, <1>8, <1>9 DEF RInv

(* The request moves from the buffer to the thread.                          *)
LEMMA ReceiveKeeps ==
    ASSUME RInv, NEW t \in Threads, Receive(t)
    PROVE  RInv'
<1>. USE DEF Receive
<1>1. UNCHANGED <<cpc, asked, outcome, calls, closed, reply, queue, mpc, n, tp,
                  mtx, hsock, alive>>
    BY DEF client, main, table
<1>2. /\ hpc \in [Threads -> {"none", "start", "receive", "lock", "invoke", "send", "spin", "done"}]
      /\ inbox \in [Clients -> Requests \cup {NULL}]
      /\ hmsg \in [Threads -> ServerRequests \cup Replies \cup {NULL}]
      /\ hsock[t] \in Clients
      /\ hmsg[t] = NULL
    BY DEF RInv, TypeOK, MessageInv, ThreadInv
<1>3. PICK m \in ServerRequests : hmsg' = [hmsg EXCEPT ![t] = m]
    <2>1. PICK tail \in Tails : hmsg' = [hmsg EXCEPT ![t] = Received(inbox[hsock[t]], tail)]
        OBVIOUS
    <2>2. inbox[hsock[t]] \in Requests
        BY <1>2
    <2>3. \A q \in Requests : Received(q, tail) \in ServerRequests
        BY DEF ServerRequests
    <2>. QED
        BY <2>1, <2>2, <2>3
<1>4. /\ t = n
      /\ \A c : ~InThread(c)
      /\ \A u \in Threads : hmsg[u] = NULL
    BY <1>2, OneAtWork
<1>5. TypeOK'
    BY <1>1, <1>2, <1>3 DEF RInv, TypeOK, Threads
<1>6. Tab!IInv'
    BY TableStep DEF RInv
<1>7. ThreadInv' /\ SocketInv'
    BY <1>1, HandlerFrame
<1>8. MessageInv'
    BY <1>1, <1>2, <1>3, NullAssumption DEF RInv, MessageInv, Threads
<1>9. PlaceInv'
    <2>1. \A c \in Clients : InThread(c)' <=> c = hsock[t]
        BY <1>1, <1>2, <1>3, <1>4, NullAssumption DEF InThread, Threads
    <2>. QED
        BY <1>1, <1>2, <1>4, <2>1 DEF RInv, PlaceInv
<1>. QED
    BY <1>5, <1>6, <1>7, <1>8, <1>9 DEF RInv

(* The thread reads 0 octets for ever.                                       *)
LEMMA ReceiveNeverKeeps ==
    ASSUME RInv, NEW t \in Threads, ReceiveNever(t)
    PROVE  RInv'
<1>. USE DEF ReceiveNever
<1>1. UNCHANGED <<cpc, asked, outcome, calls, closed, inbox, reply, queue, mpc, n, tp,
                  mtx, hsock, hmsg, alive>>
    BY DEF client, net, main, table
<1>2. /\ hpc \in [Threads -> {"none", "start", "receive", "lock", "invoke", "send", "spin", "done"}]
      /\ hmsg[t] = NULL
    BY DEF RInv, TypeOK, MessageInv
<1>3. TypeOK'
    BY <1>1, <1>2 DEF RInv, TypeOK, Threads
<1>4. Tab!IInv'
    BY TableStep DEF RInv
<1>5. ThreadInv' /\ SocketInv'
    BY <1>1, HandlerFrame
<1>6. MessageInv'
    BY <1>1, <1>2 DEF RInv, MessageInv, Threads
<1>7. PlaceInv'
    BY <1>1 DEF RInv, PlaceInv, InThread, Threads
<1>. QED
    BY <1>3, <1>4, <1>5, <1>6, <1>7 DEF RInv

(* The thread ends because the connection was reset.                         *)
LEMMA ReceiveResetKeeps ==
    ASSUME RInv, NEW t \in Threads, ReceiveReset(t)
    PROVE  RInv'
<1>. USE DEF ReceiveReset
<1>1. UNCHANGED <<cpc, asked, outcome, calls, closed, inbox, reply, queue, mpc, n, tp,
                  mtx, hsock, hmsg, alive>>
    BY DEF client, net, main, table
<1>2. /\ hpc \in [Threads -> {"none", "start", "receive", "lock", "invoke", "send", "spin", "done"}]
      /\ hmsg[t] = NULL
    BY DEF RInv, TypeOK, MessageInv
<1>3. TypeOK'
    BY <1>1, <1>2 DEF RInv, TypeOK, Threads
<1>4. Tab!IInv'
    BY TableStep DEF RInv
<1>5. ThreadInv' /\ SocketInv'
    BY <1>1, HandlerFrame
<1>6. MessageInv'
    BY <1>1, <1>2 DEF RInv, MessageInv, Threads
<1>7. PlaceInv'
    BY <1>1 DEF RInv, PlaceInv, InThread, Threads
<1>. QED
    BY <1>3, <1>4, <1>5, <1>6, <1>7 DEF RInv

(* The thread takes the mutex nobody has.                                    *)
LEMMA LockKeeps ==
    ASSUME RInv, NEW t \in Threads, Lock(t)
    PROVE  RInv'
<1>. USE DEF Lock
<1>1. UNCHANGED <<cpc, asked, outcome, calls, closed, inbox, reply, queue, mpc, n, tp,
                  hsock, hmsg, alive>>
    BY DEF client, net, main, table
<1>2. hpc \in [Threads -> {"none", "start", "receive", "lock", "invoke", "send", "spin", "done"}]
    BY DEF RInv, TypeOK
<1>3. TypeOK'
    BY <1>1, <1>2 DEF RInv, TypeOK, Threads
<1>4. Tab!IInv'
    BY TableStep DEF RInv
<1>5. ThreadInv' /\ SocketInv'
    BY <1>1, HandlerFrame
<1>6. MessageInv'
    <2>1. \A u \in Threads : u # NULL
        BY ThreadsAre, RemoteAssumption
    <2>. QED
        BY <1>1, <1>2, <2>1 DEF RInv, MessageInv, Threads
<1>7. PlaceInv'
    BY <1>1 DEF RInv, PlaceInv, InThread, Threads
<1>. QED
    BY <1>3, <1>4, <1>5, <1>6, <1>7 DEF RInv

(* The table only works while the server lives.                              *)
LEMMA InvokeAlive ==
    ASSUME RInv, NEW t \in Threads, Invoke(t)
    PROVE  alive
<1>1. hmsg[t] \in ServerRequests
    BY DEF Invoke, RInv, MessageInv
<1>2. Tab!Next
    BY <1>1, OperateIsNext DEF Invoke
<1>. QED
    BY <1>2
       DEF Tab!Next, Tab!Put, Tab!Get, Tab!Del, Tab!Size, Tab!GetKeysBegin, Tab!Scan,
           Tab!PutNew, Tab!PutReplace, Tab!WildPut, Tab!GetNone, Tab!GetLookup,
           Tab!WildGet, Tab!DelEntry, Tab!DelSole, Tab!DelMissing, Tab!DelPhantom,
           Tab!WildDel, Tab!ScanBucket, Tab!ScanCrash, Tab!GetKeysEnd,
           Tab!EndMarkCrash, Tab!Ready

(* The thread that has the mutex works on the table; its message becomes     *)
(* the reply and the mutex is free.                                          *)
LEMMA InvokeKeeps ==
    ASSUME RInv, NEW t \in Threads, Invoke(t)
    PROVE  RInv'
<1>. USE DEF Invoke
<1>1. UNCHANGED <<cpc, asked, outcome, calls, closed, inbox, reply, queue, mpc, n, tp, hsock>>
    BY DEF client, net, main
<1>2. /\ hpc \in [Threads -> {"none", "start", "receive", "lock", "invoke", "send", "spin", "done"}]
      /\ hmsg \in [Threads -> ServerRequests \cup Replies \cup {NULL}]
      /\ hmsg[t] \in ServerRequests
      /\ hmsg[t] # NULL
    BY DEF RInv, TypeOK, MessageInv
<1>3. Tab!Next
    BY <1>2, OperateIsNext
<1>4. Tab!IInv'
    BY <1>3, TableStep DEF RInv
<1>5. ret' \in Tab!Returns
    BY <1>4 DEF Tab!IInv, Tab!TypeOK
<1>6. alive
    BY InvokeAlive
<1>7. CASE UNCHANGED <<hmsg, hpc, mtx>>
    <2>1. TypeOK' /\ ThreadInv' /\ SocketInv' /\ MessageInv'
        BY <1>1, <1>6, <1>7 DEF RInv, TypeOK, ThreadInv, SocketInv, MessageInv, Conn, Threads
    <2>2. PlaceInv'
        BY <1>1, <1>6, <1>7 DEF RInv, PlaceInv, InThread, Threads
    <2>. QED
        BY <1>4, <2>1, <2>2 DEF RInv
<1>8. CASE /\ hmsg' = [hmsg EXCEPT ![t] = Reply(ret')]
           /\ hpc' = [hpc EXCEPT ![t] = "send"]
           /\ mtx' = NULL
    <2>1. Reply(ret') \in Replies /\ Reply(ret') # NULL
        BY <1>5, ReplyTyped, NullAssumption
    <2>2. TypeOK'
        BY <1>1, <1>2, <1>8, <2>1 DEF RInv, TypeOK, Threads
    <2>3. ThreadInv' /\ SocketInv'
        BY <1>1, <1>6, <1>8, HandlerFrame
    <2>4. MessageInv'
        <3>1. \A u \in Threads : u # NULL
            BY ThreadsAre, RemoteAssumption
        <3>2. mtx = t
            BY DEF RInv, MessageInv
        <3>. QED
            BY <1>1, <1>2, <1>8, <2>1, <3>1, <3>2 DEF RInv, MessageInv, Threads
    <2>5. \A c : InThread(c)' <=> InThread(c)
        BY <1>1, <1>2, <1>8, <2>1 DEF InThread, Threads
    <2>6. PlaceInv'
        BY <1>1, <1>6, <2>5 DEF RInv, PlaceInv
    <2>. QED
        BY <1>4, <2>2, <2>3, <2>4, <2>6 DEF RInv
<1>. QED
    BY <1>7, <1>8

(* The reply moves from the thread to the buffer of the client, if it is     *)
(* there.                                                                    *)
LEMMA SendKeeps ==
    ASSUME RInv, NEW t \in Threads, Send(t)
    PROVE  RInv'
<1>. USE DEF Send
<1>1. UNCHANGED <<cpc, asked, outcome, calls, closed, inbox, queue, mpc, n, tp,
                  mtx, hsock, alive>>
    BY DEF client, main, table
<1>2. /\ hpc \in [Threads -> {"none", "start", "receive", "lock", "invoke", "send", "spin", "done"}]
      /\ hmsg \in [Threads -> ServerRequests \cup Replies \cup {NULL}]
      /\ reply \in [Clients -> Replies \cup {NULL}]
      /\ hmsg[t] \in Replies
      /\ hmsg[t] # NULL
      /\ hsock[t] \in Clients
    BY DEF RInv, TypeOK, MessageInv, ThreadInv
<1>3. \A c : InThread(c) <=> c = hsock[t]
    BY <1>2, OneAtWork
<1>4. \A u \in Threads : hmsg'[u] = NULL
    BY <1>2, OneAtWork
<1>5. TypeOK'
    BY <1>1, <1>2 DEF RInv, TypeOK, Threads
<1>6. Tab!IInv'
    BY TableStep DEF RInv
<1>7. ThreadInv' /\ SocketInv'
    BY <1>1, HandlerFrame
<1>8. MessageInv'
    BY <1>1, <1>2 DEF RInv, MessageInv, Threads
<1>9. PlaceInv'
    <2>1. \A c : ~InThread(c)'
        BY <1>4 DEF InThread, Threads
    <2>2. \A c \in Clients : c # hsock[t] => reply'[c] = reply[c]
        BY <1>2
    <2>3. cpc[hsock[t]] = "waiting" => reply'[hsock[t]] # NULL
        BY <1>2 DEF RInv, SocketInv, TypeOK
    <2>4. inbox[hsock[t]] = NULL /\ cpc[hsock[t]] \notin {"off", "ready", "broken"}
        BY <1>2, <1>3 DEF RInv, PlaceInv
    <2>. QED
        BY <1>1, <1>2, <1>3, <2>1, <2>2, <2>3, <2>4 DEF RInv, PlaceInv
<1>. QED
    BY <1>5, <1>6, <1>7, <1>8, <1>9 DEF RInv

-----------------------------------------------------------------------------
(* What normal_cicle makes of a command that asks something is a request.    *)
LEMMA AskingRequests ==
    ASSUME NEW line \in Asking
    PROVE  RequestOf(line) \in Requests
<1>1. line \in Lines /\ ~Crashes(line)
      /\ line[1] \in {"put", "get", "del", "size", "getkeys"}
    BY DEF Asking, Ending
<1>2. CASE line \in {<<"put", w, v>> : w \in Words, v \in Vals}
    BY <1>2 DEF Requests, RequestOf
<1>3. CASE line \in {<<op, w>> : op \in {"put", "get", "del"}, w \in Words}
    <2>1. PICK op \in {"put", "get", "del"}, w \in Words : line = <<op, w>>
        BY <1>3
    <2>2. op # "put"
        BY <1>1, <2>1 DEF Crashes, Needed
    <2>. QED
        BY <2>1, <2>2 DEF Requests, RequestOf
<1>4. CASE line \in {<<op>> : op \in {"put", "get", "del"}}
    <2>1. PICK op \in {"put", "get", "del"} : line = <<op>>
        BY <1>4
    <2>2. Len(line) = 1 /\ line[1] = op
        BY <2>1
    <2>. QED
        BY <1>1, <2>1, <2>2 DEF Crashes, Needed
<1>5. CASE line \in {<<>>, <<"quit">>, <<"size">>, <<"getkeys">>, <<"anything">>}
    BY <1>1, <1>5 DEF Crashes, Needed, Requests, RequestOf
<1>. QED
    <2>1. \/ line \in {<<>>, <<"quit">>, <<"size">>, <<"getkeys">>, <<"anything">>}
          \/ line \in {<<op>> : op \in {"put", "get", "del"}}
          \/ line \in {<<op, w>> : op \in {"put", "get", "del"}, w \in Words}
          \/ line \in {<<"put", w, v>> : w \in Words, v \in Vals}
        <3>1. line \in Lines
            BY <1>1
        <3>. QED
            BY <3>1 DEF Lines
    <2>. QED
        BY <1>2, <1>3, <1>4, <1>5, <2>1

(* All steps of a handler thread.                                            *)
LEMMA HandlerKeeps ==
    ASSUME RInv, NEW t \in Threads, Handler(t)
    PROVE  RInv'
BY HandlerStartKeeps, ReceiveKeeps, ReceiveNeverKeeps, ReceiveResetKeeps, LockKeeps,
   InvokeKeeps, SendKeeps DEF Handler

(* All ways a call returns.                                                  *)
LEMMA ReturnsKeeps ==
    ASSUME RInv, NEW c \in Clients, Returns(c)
    PROVE  RInv'
BY ReturnKeeps, ReturnResetKeeps, ReturnNeverKeeps DEF Returns

(* All steps of a user.                                                      *)
LEMMA UserKeeps ==
    ASSUME RInv, NEW c \in Clients, User(c)
    PROVE  RInv'
<1>1. CASE Connect(c) \/ ConnectFails(c) \/ Kill(c) \/ Quit(c)
    BY <1>1, ConnectKeeps, ConnectFailsKeeps, KillKeeps, QuitKeeps
<1>2. CASE \E line \in Asking : Calls(c, RequestOf(line))
    <2>1. PICK line \in Asking : Calls(c, RequestOf(line))
        BY <1>2
    <2>2. PICK m \in Requests : Calls(c, m)
        BY <2>1, AskingRequests
    <2>. QED
        BY <2>2, CallKeeps, CallDeadKeeps, CallFailsKeeps, CallClosedKeeps DEF Calls
<1>. QED
    BY <1>1, <1>2 DEF User

(* The steps of the accepting thread, and the signal that ends the server.   *)
LEMMA MainKeeps ==
    ASSUME RInv, Main \/ ServerKilled
    PROVE  RInv'
BY AcceptKeeps, AcceptAbortKeeps, JoinKeeps, CrashKeeps DEF Main, ServerKilled

(* A step that changes nothing.                                              *)
LEMMA StutterKeeps ==
    ASSUME RInv, UNCHANGED vars
    PROVE  RInv'
<1>1. UNCHANGED <<cpc, asked, outcome, calls, closed, inbox, reply, queue, mpc, n, tp,
                  mtx, hpc, hsock, hmsg, alive>> /\ UNCHANGED table
    BY DEF vars, client, net, main, handlers, table
<1>2. Tab!IInv'
    BY <1>1, TableStep DEF RInv
<1>. QED
    BY <1>1, <1>2 DEF RInv, TypeOK, ThreadInv, SocketInv, MessageInv, PlaceInv, InThread,
                      Conn, Threads

(* Every step keeps RInv.                                                    *)
LEMMA NextKeepsRInv == RInv /\ [Next]_vars => RInv'
BY HandlerKeeps, ReturnsKeeps, UserKeeps, MainKeeps, StutterKeeps DEF Next

(* RInv holds in every reachable state; the theorems below read their        *)
(* properties off it.                                                        *)
LEMMA Invariance == Spec => []RInv
BY InitRInv, NextKeepsRInv, PTL DEF Spec

(* The variables of clients, sockets and threads keep their types.           *)
THEOREM TypeCorrect == Spec => []TypeOK
BY Invariance, PTL DEF RInv

(* Every connection that a living server has accepted is served by one       *)
(* thread, and by no other: although all threads are handed the address of   *)
(* the same variable.                                                        *)
THEOREM OwnThreadCorrect == Spec => []OwnThread
<1>1. RInv => OwnThread
    <2> SUFFICES ASSUME RInv, alive, NEW c \in Clients, cpc[c] \in {"ready", "waiting"},
                        c \notin Range(queue)
                 PROVE  Cardinality(Serving(c)) = 1
        BY DEF OwnThread
    <2>1. PICK t \in 1..n : Conn(t) = c
        BY DEF RInv, SocketInv
    <2>2. 1..n \subseteq Threads
        BY ThreadsAre DEF RInv, TypeOK, Threads
    <2>3. c # NULL
        BY RemoteAssumption
    <2>4. \A u \in Threads : u \in Serving(c) <=> u \in 1..n /\ Conn(u) = c
        <3> SUFFICES ASSUME NEW u \in Threads
                     PROVE  u \in Serving(c) <=> u \in 1..n /\ Conn(u) = c
            OBVIOUS
        <3>1. hpc[u] \in {"none", "start"} <=> hsock[u] = NULL
            BY DEF RInv, ThreadInv
        <3>2. u \in 1..n <=> hpc[u] # "none"
            BY ThreadsAre DEF RInv, ThreadInv, TypeOK
        <3>. QED
            BY <2>3, <3>1, <3>2 DEF Serving, Conn
    <2>5. Serving(c) = {t}
        BY <2>1, <2>2, <2>4 DEF Serving, RInv, SocketInv
    <2>. QED
        BY <2>5, FS_Singleton
<1>. QED
    BY <1>1, Invariance, PTL

(* A call is in exactly one place between its request and its return, while  *)
(* the server lives.                                                         *)
THEOREM CallInOnePlaceCorrect == Spec => []CallInOnePlace
<1>1. RInv => CallInOnePlace
    <2> SUFFICES ASSUME RInv, alive, NEW c \in Clients, cpc[c] \in {"off", "ready", "waiting"}
                 PROVE  Cardinality(Places(c)) = IF cpc[c] = "waiting" THEN 1 ELSE 0
        BY DEF CallInOnePlace
    <2>1. CASE cpc[c] # "waiting"
        <3>1. Places(c) = {}
            BY <2>1 DEF RInv, PlaceInv, Places, InThread
        <3>. QED
            BY <2>1, <3>1, FS_EmptySet
    <2>2. CASE cpc[c] = "waiting"
        <3>1. CASE inbox[c] # NULL
            <4>1. reply[c] = NULL /\ ~InThread(c)
                BY <3>1 DEF RInv, PlaceInv
            <4>2. Places(c) = {<<"inbox">>}
                BY <3>1, <4>1 DEF Places, InThread
            <4>. QED
                BY <2>2, <4>2, FS_Singleton
        <3>2. CASE reply[c] # NULL
            <4>1. inbox[c] = NULL /\ ~InThread(c)
                BY <3>2 DEF RInv, PlaceInv
            <4>2. Places(c) = {<<"reply">>}
                BY <3>2, <4>1 DEF Places, InThread
            <4>. QED
                BY <2>2, <4>2, FS_Singleton
        <3>3. CASE InThread(c)
            <4>1. PICK t \in Threads : hsock[t] = c /\ hmsg[t] # NULL
                BY <3>3 DEF InThread
            <4>2. inbox[c] = NULL /\ reply[c] = NULL
                BY <3>3 DEF RInv, PlaceInv
            <4>3. \A u \in Threads : hmsg[u] # NULL => u = t
                BY <4>1, OneAtWork DEF RInv, MessageInv
            <4>4. Places(c) = {<<"thread", t>>}
                BY <4>1, <4>2, <4>3 DEF Places
            <4>. QED
                BY <2>2, <4>4, FS_Singleton
        <3>. QED
            BY <2>2, <3>1, <3>2, <3>3 DEF RInv, PlaceInv
    <2>. QED
        BY <2>1, <2>2
<1>. QED
    BY <1>1, Invariance, PTL
====
