----------------------------- MODULE BenchProofs -----------------------------
(* The invariants of the benchmark, for any number of threads and calls.     *)
EXTENDS BenchProps, RemoteRefinement

(* The threads of the benchmark are numbered by its sockets.                 *)
LEMMA WorkersAre == WorkerIds = Clients /\ WorkerIds \subseteq Nat \ {0}
BY BenchAssumption DEF WorkerIds

(* The numbers and the null pointer of the benchmark.                        *)
LEMMA NumbersAre == MaxCalls \in Nat /\ Workers \in Nat \ {0} /\ NULL \notin Nat
BY RemoteAssumption, BenchAssumption

(* The opcode of a request says which of the stub's functions has made it.   *)
LEMMA OtherOpcodes ==
    ASSUME NEW m \in Requests
    PROVE  /\ m.opcode = OP_PUT => \E k \in Words, v \in Vals : m = PutMsg(k, v)
           /\ m.opcode = OP_GET =>
                \E op \in {OP_GET, OP_DEL}, k \in Words : m = KeyMsg(op, k)
<1>1. CASE \E w \in Words, v \in Vals : m = PutMsg(w, v)
    BY <1>1 DEF PutMsg, OP_PUT, OP_GET
<1>2. CASE \E op \in {OP_GET, OP_DEL}, w \in Words : m = KeyMsg(op, w)
    BY <1>2 DEF KeyMsg, OP_PUT, OP_GET, OP_DEL
<1>3. CASE \E op \in {OP_SIZE, OP_GETKEYS} : m = BareMsg(op)
    BY <1>3 DEF BareMsg, OP_SIZE, OP_GETKEYS, OP_PUT, OP_GET
<1>. QED
    BY <1>1, <1>2, <1>3 DEF Requests

(* A request under the current number is one of the stub's, and the number   *)
(* is one of the words.                                                      *)
LEMMA NumberedRequest ==
    ASSUME NEW m \in Requests, Numbered(m)
    PROVE  IsNumbered(m) /\ WordOf(m) = key_number /\ key_number \in Words
<1>. USE DEF PutMsg, KeyMsg, BareMsg, OP_GET, OP_DEL, OP_PUT, CT_ENTRY, CT_KEY, CT_NONE
<1>1. CASE mode = "p"
    <2>1. PICK v \in Vals : m = PutMsg(key_number, v)
        BY <1>1 DEF Numbered
    <2>2. PICK k \in Words, x \in Vals : m = PutMsg(k, x)
        <3>1. m.opcode = OP_PUT
            BY <2>1
        <3>. QED
            BY <3>1, OtherOpcodes
    <2>3. k = key_number
        BY <2>1, <2>2
    <2>. QED
        BY <2>1, <2>2, <2>3 DEF IsNumbered, WordOf
<1>2. CASE mode # "p"
    <2>1. m = KeyMsg(OP_GET, key_number)
        BY <1>2 DEF Numbered
    <2>2. PICK op \in {OP_GET, OP_DEL}, k \in Words : m = KeyMsg(op, k)
        <3>1. m.opcode = OP_GET
            BY <2>1
        <3>. QED
            BY <3>1, OtherOpcodes
    <2>3. k = key_number
        BY <2>1, <2>2
    <2>. QED
        BY <2>1, <2>2, <2>3 DEF IsNumbered, WordOf
<1>. QED
    BY <1>1, <1>2

(* Some line asks for it: the benchmark's requests are among those of the    *)
(* interactive program.                                                      *)
LEMMA NumberedIsAsked ==
    ASSUME NEW m, IsNumbered(m)
    PROVE  \E line \in Asking : RequestOf(line) = m
<1>1. PICK k \in Words : m = KeyMsg(OP_GET, k) \/ \E v \in Vals : m = PutMsg(k, v)
    BY DEF IsNumbered
<1>2. CASE m = KeyMsg(OP_GET, k)
    <2> DEFINE line == <<"get", k>>
    <2>1. line \in Lines
        BY SMT DEF Lines
    <2>2. line[1] = "get" /\ line[2] = k /\ Len(line) = 2 /\ line # <<>>
        BY SMT
    <2> HIDE DEF line
    <2>3. line \in Asking
        BY <2>1, <2>2 DEF Asking, Ending, Crashes, Needed
    <2>. QED
        BY <1>2, <2>2, <2>3 DEF RequestOf
<1>3. CASE \E v \in Vals : m = PutMsg(k, v)
    <2>1. PICK v \in Vals : m = PutMsg(k, v)
        BY <1>3
    <2> DEFINE line == <<"put", k, v>>
    <2>2. line \in Lines
        BY SMT DEF Lines
    <2>3. line[1] = "put" /\ line[2] = k /\ line[3] = v /\ Len(line) = 3 /\ line # <<>>
        BY SMT
    <2> HIDE DEF line
    <2>4. line \in Asking
        BY <2>2, <2>3, SMTT(30) DEF Asking, Ending, Crashes, Needed
    <2>. QED
        BY <2>1, <2>3, <2>4 DEF RequestOf
<1>. QED
    BY <1>1, <1>2, <1>3

(* There is a line that ends the interactive program, so Quit applies to     *)
(* the sockets of a dead benchmark too.                                      *)
LEMMA QuitPossible == Ending # {}
<1>1. <<"quit">> \in Lines
    BY SMT DEF Lines
<1>2. <<"quit">>[1] = "quit"
    BY SMT
<1>. QED
    BY <1>1, <1>2 DEF Ending

(* A worker that has a descriptor has one of the sockets.                    *)
LEMMA SocketsAre ==
    ASSUME BInv, NEW w \in WorkerIds
    PROVE  /\ wpc[w] \in {"connect", "keep"} => sockfd \in Clients
           /\ wpc[w] \in {"connecting", "abandoned", "lock", "call", "wait", "count"} =>
                rsock[w] \in Clients
BY WorkersAre DEF BInv, DescriptorInv, BenchTypeOK

(* Every step of the benchmark is one of the whole system's, as far as the   *)
(* system is concerned, but for what an earlier run has stored.              *)
LEMMA StepOfSystem == BInv /\ [BenchNext]_bvars => [Next]_vars \/ EarlierPut
<1> SUFFICES ASSUME BInv, [BenchNext]_bvars, ~EarlierPut PROVE [Next]_vars
    OBVIOUS
<1>1. CASE UNCHANGED vars
    BY <1>1
<1>2. ASSUME NEW w \in WorkerIds, Worker(w) \/ ConnectTimeout(w) PROVE [Next]_vars
    <2>1. CASE ConnectSocket(w) \/ ConnectCompletes(w)
        <3>1. UNCHANGED vars \/ \E s \in Clients : Connect(s)
            BY <2>1, SocketsAre DEF ConnectSocket, ConnectCompletes, At, Dies
        <3>. QED
            BY <3>1 DEF Next, User
    <2>2. CASE CallServer(w)
        <3>1. UNCHANGED vars \/ \E s \in Clients, m \in Requests : Numbered(m) /\ Calls(s, m)
            BY <2>2, SocketsAre DEF CallServer, At, Dies, Calls
        <3>2. UNCHANGED vars \/ \E s \in Clients, line \in Asking : Calls(s, RequestOf(line))
            BY <3>1, NumberedRequest, NumberedIsAsked
        <3>. QED
            BY <3>2 DEF Next, User
    <2>3. CASE AwaitReply(w)
        <3>1. \E s \in Clients : Returns(s)
            BY <2>3, SocketsAre DEF AwaitReply, At
        <3>. QED
            BY <3>1 DEF Next
    <2>. QED
        BY <1>2, <2>1, <2>2, <2>3
           DEF Worker, Address, Port, Token, Socket, Keep, LockClient, Count, Cancelled,
               ConnectTimeout, Dies
<1>3. CASE Wakes \/ BenchMain
    BY <1>3 DEF Wakes, BenchMain, CancelNext, PrintNumber, MainReturns, Dies
<1>4. CASE ProcessCloses
    BY <1>4, QuitPossible DEF ProcessCloses, Next, User
<1>5. CASE Accepting \/ (ServerKilled /\ UNCHANGED bench) \/ \E t \in Threads : Handling(t)
    BY <1>5 DEF Accepting, Handling, Next
<1>. QED
    BY <1>1, <1>2, <1>3, <1>4, <1>5 DEF BenchNext, bvars

(* So the invariants of the system hold in the benchmark too.                *)
LEMMA SystemKeeps ==
    ASSUME BInv, [BenchNext]_bvars
    PROVE  RInv' /\ CallInv'
<1>1. CASE [Next]_vars
    BY <1>1, NextKeepsRInv, NextKeepsCallInv DEF BInv
<1>2. CASE EarlierPut
    <2>1. UNCHANGED <<cpc, asked, outcome, calls, closed, inbox, reply, queue, mpc, n, tp,
                      mtx, hpc, hsock, hmsg>>
        BY <1>2 DEF EarlierPut, client, net, main, handlers
    <2>2. Tab!IInv'
        BY <1>2, TableStep DEF EarlierPut, Tab!Next, BInv, RInv
    <2>3. alive
        BY <1>2 DEF EarlierPut, Tab!Put, Tab!PutNew, Tab!PutReplace, Tab!WildPut, Tab!Ready
    <2>4. RInv'
        <3>1. TypeOK'
            BY <2>1, <2>2, <2>3 DEF BInv, RInv, TypeOK, Threads
        <3>2. ThreadInv' /\ MessageInv'
            BY <2>1 DEF BInv, RInv, ThreadInv, MessageInv, Threads
        <3>3. SocketInv'
            BY <2>1, <2>3 DEF BInv, RInv, SocketInv, Conn
        <3>4. PlaceInv'
            BY <2>1, <2>3 DEF BInv, RInv, PlaceInv, InThread, Threads
        <3>. QED
            BY <2>2, <3>1, <3>2, <3>3, <3>4 DEF RInv
    <2>5. CallInv'
        <3>1. \A c \in Clients : cpc[c] # "broken"
            BY <2>3 DEF BInv, CallInv
        <3>. QED
            BY <2>1, <3>1 DEF BInv, CallInv, Threads
    <2>. QED
        BY <2>4, <2>5
<1>. QED
    BY <1>1, <1>2, StepOfSystem

-----------------------------------------------------------------------------
(* The parts of the invariant that the benchmark adds to those of the system. *)
WorkInv ==
    /\ BenchTypeOK
    /\ MutexInv
    /\ DescriptorInv
    /\ NumberInv
    /\ RunningInv
    /\ PrintInv

(* Nothing has been asked, locked or connected when main starts its          *)
(* threads.                                                                  *)
LEMMA InitWork == BenchInit => WorkInv
<1> SUFFICES ASSUME BenchInit PROVE WorkInv
    OBVIOUS
<1>. USE DEF BenchInit, Init
<1>1. BenchTypeOK
    BY NumbersAre, WorkersAre DEF BenchTypeOK
<1>2. MutexInv /\ DescriptorInv
    BY WorkersAre DEF MutexInv, DescriptorInv
<1>3. NumberInv
    BY NumbersAre, WorkersAre DEF NumberInv, NumbersOnce
<1>4. RunningInv
    BY DEF RunningInv
<1>5. PrintInv
    <2>1. Tab!StoredKeys = {}
        BY DEF Tab!Init, Tab!StoredKeys, Tab!KeysIn
    <2>. QED
        BY <2>1, NumbersAre DEF PrintInv
<1>. QED
    BY <1>1, <1>2, <1>3, <1>4, <1>5 DEF WorkInv

(* What is stored is what the buckets hold.                                  *)
LEMMA StoreFrame == UNCHANGED lista => UNCHANGED Tab!StoredKeys
BY DEF Tab!StoredKeys

(* The process ends: nothing else changes.                                   *)
LEMMA DiesKeeps ==
    ASSUME WorkInv, Dies
    PROVE  WorkInv'
<1>1. /\ UNCHANGED <<mode, mainpc, cancelled, printed, wpc, saved, sockfd, rsock, cmtx,
                     key_number, ngets>>
      /\ UNCHANGED <<cpc, asked, queue, reply, hpc, lista, mpc, n>>
      /\ proc' = "dead"
    BY DEF Dies, counters, vars, client, net, main, handlers, table
<1>. QED
    BY <1>1, StoreFrame
       DEF WorkInv, BenchTypeOK, MutexInv, DescriptorInv, NumberInv, NumbersOnce,
           RunningInv, PrintInv

(* A worker goes on between places where it has not the mutex, and reads or  *)
(* writes the globals of network_client.c and strtok.                        *)
LEMMA WorkerFrame ==
    ASSUME WorkInv, UNCHANGED <<control, cmtx, counters>>, UNCHANGED <<asked, reply, hpc, lista>>,
           UNCHANGED <<mpc, n>>,
           NEW w \in WorkerIds, w # cmtx,
           NEW p \in {"port", "token", "socket", "connect", "connecting", "abandoned",
                      "keep", "lock", "ended"},
           Goes(w, p),
           saved' \in {"none", "port"},
           sockfd' \in Clients \cup {0},
           \A v \in WorkerIds : rsock'[v] = rsock[v] \/ v = w,
           rsock' \in [WorkerIds -> Clients \cup {0}],
           DescriptorInv',
           \A s \in Clients : cpc'[s] = cpc[s] \/ (cpc'[s] = "ready" /\ reply[s] = NULL),
           \A s \in Clients : s \in Range(queue') => s \in Range(queue) \/ reply[s] = NULL
    PROVE  WorkInv'
<1>1. UNCHANGED <<mode, proc, mainpc, cancelled, printed, cmtx, key_number, ngets>>
    BY DEF control, counters
<1>2. wpc \in [WorkerIds -> {"address", "port", "token", "socket", "connect",
                              "connecting", "abandoned", "keep", "lock", "call",
                              "wait", "count", "ended"}]
      /\ cmtx \in WorkerIds \cup {0}
    BY DEF WorkInv, BenchTypeOK
<1>3. wpc' = [wpc EXCEPT ![w] = p]
    BY DEF Goes
<1>4. BenchTypeOK'
    BY <1>1, <1>2, <1>3 DEF WorkInv, BenchTypeOK
<1>5. cmtx # 0 => wpc'[cmtx] = wpc[cmtx] /\ rsock'[cmtx] = rsock[cmtx]
    BY <1>2, <1>3
<1>6. MutexInv'
    BY <1>1, <1>2, <1>3, <1>5 DEF WorkInv, MutexInv
<1>7. NumberInv'
    BY <1>1, <1>2, <1>3, <1>5 DEF WorkInv, NumberInv, NumbersOnce
<1>8. RunningInv'
    BY <1>1 DEF WorkInv, RunningInv
<1>9. PrintInv'
    BY <1>1, StoreFrame DEF WorkInv, PrintInv
<1>. QED
    BY <1>4, <1>6, <1>7, <1>8, <1>9 DEF WorkInv

(* A worker that does not use a number has not the mutex.                    *)
LEMMA OutsideMutex ==
    ASSUME WorkInv, NEW w \in WorkerIds,
           wpc[w] \notin {"call", "wait", "count", "ended"}
    PROVE  w # cmtx
BY WorkersAre DEF WorkInv, MutexInv

(* The start of a worker: rtable_connect up to the two descriptors.          *)
LEMMA StartKeeps ==
    ASSUME WorkInv, NEW w \in WorkerIds,
           Address(w) \/ Port(w) \/ Token(w) \/ Socket(w) \/ Keep(w)
    PROVE  WorkInv'
<1>0. /\ wpc \in [WorkerIds -> {"address", "port", "token", "socket", "connect",
                              "connecting", "abandoned", "keep", "lock", "call",
                              "wait", "count", "ended"}]
      /\ saved \in {"none", "port"}
      /\ sockfd \in Clients \cup {0}
      /\ rsock \in [WorkerIds -> Clients \cup {0}]
    BY DEF WorkInv, BenchTypeOK
<1>1. CASE Dies
    BY <1>1, DiesKeeps
<1>2. ASSUME ~ Dies PROVE WorkInv'
    <2>1. UNCHANGED <<asked, reply, hpc, lista, cpc, queue, mpc, n>> /\ UNCHANGED <<control, cmtx, counters>>
        BY <1>2 DEF Address, Port, Token, Socket, Keep, vars, client, net, main, handlers, table
    <2>2. wpc[w] \in {"address", "port", "token", "socket", "keep"}
        BY DEF Address, Port, Token, Socket, Keep, At
    <2>3. w # cmtx
        BY <2>2, OutsideMutex
    <2>4. /\ wpc[w] # "keep" => rsock' = rsock
          /\ wpc[w] = "keep" => rsock' = [rsock EXCEPT ![w] = sockfd]
          /\ wpc[w] # "socket" => sockfd' = sockfd
          /\ wpc[w] = "socket" => sockfd' = w
          /\ saved' \in {saved, "none", "port"}
        BY <1>2 DEF Address, Port, Token, Socket, Keep, At
    <2>5. PICK p \in {"port", "token", "socket", "connect", "lock"} :
            /\ Goes(w, p)
            /\ p = "lock" => wpc[w] = "keep"
            /\ p = "connect" => wpc[w] = "socket"
        BY <1>2 DEF Address, Port, Token, Socket, Keep, At
    <2>6. sockfd' \in Clients \cup {0} /\ rsock' \in [WorkerIds -> Clients \cup {0}]
        BY <1>0, <2>2, <2>4, WorkersAre
    <2>7. DescriptorInv'
        BY <1>0, <2>2, <2>4, <2>5, WorkersAre DEF Goes, WorkInv, DescriptorInv
    <2>8. \A v \in WorkerIds : rsock'[v] = rsock[v] \/ v = w
        BY <1>0, <2>4
    <2>. QED
        BY <1>0, <2>1, <2>3, <2>4, <2>5, <2>6, <2>7, <2>8, WorkerFrame
<1>. QED
    BY <1>1, <1>2

(* Connecting a socket of the process.                                       *)
LEMMA ConnectStepKeeps ==
    ASSUME BInv, NEW w \in WorkerIds, ConnectSocket(w) \/ ConnectCompletes(w)
    PROVE  WorkInv'
<1>. WorkInv
    BY DEF BInv, WorkInv
<1>0. /\ wpc \in [WorkerIds -> {"address", "port", "token", "socket", "connect",
                              "connecting", "abandoned", "keep", "lock", "call",
                              "wait", "count", "ended"}]
      /\ saved \in {"none", "port"}
      /\ sockfd \in Clients \cup {0}
      /\ rsock \in [WorkerIds -> Clients \cup {0}]
    BY DEF WorkInv, BenchTypeOK
<1>1. CASE Dies
    BY <1>1, DiesKeeps
<1>2. ASSUME NEW s \in Clients, Connect(s), UNCHANGED <<control, saved, sockfd, rsock, cmtx, counters>>,
             wpc[w] \in {"connect", "connecting", "abandoned"},
             Goes(w, "keep") \/ (wpc[w] = "abandoned" /\ Goes(w, "ended"))
      PROVE  WorkInv'
    <2>1. UNCHANGED <<asked, reply, hpc, lista, mpc, n>>
        BY <1>2 DEF Connect, main, handlers, table
    <2>2. \A c \in Clients : cpc'[c] = cpc[c] \/ (cpc'[c] = "ready" /\ reply[c] = NULL)
        BY <1>2 DEF Connect, BInv, RInv, TypeOK, PlaceInv
    <2>3. \A c \in Clients : c \in Range(queue') => c \in Range(queue) \/ reply[c] = NULL
        <3>1. queue \in Seq(Clients) /\ queue' = Append(queue, s) /\ reply[s] = NULL
            BY <1>2 DEF Connect, BInv, RInv, TypeOK, PlaceInv
        <3>2. Range(queue') = Range(queue) \cup {s}
            BY <3>1 DEF Range
        <3>. QED
            BY <3>1, <3>2
    <2>4. w # cmtx
        BY <1>2, OutsideMutex
    <2>5. DescriptorInv'
        BY <1>0, <1>2 DEF Goes, WorkInv, DescriptorInv
    <2>. QED
        BY <1>0, <1>2, <2>1, <2>2, <2>3, <2>4, <2>5, WorkerFrame
<1>3. ASSUME wpc[w] = "connect", rsock' = [rsock EXCEPT ![w] = sockfd], Goes(w, "connecting"),
             UNCHANGED <<vars, control, saved, sockfd, cmtx, counters>>
      PROVE  WorkInv'
    <2>1. UNCHANGED <<asked, reply, hpc, lista, cpc, queue, mpc, n>>
        BY <1>3 DEF vars, client, net, main, handlers, table
    <2>2. w # cmtx
        BY <1>3, OutsideMutex
    <2>3. DescriptorInv'
        BY <1>0, <1>3, WorkersAre DEF Goes, WorkInv, DescriptorInv
    <2>4. rsock' \in [WorkerIds -> Clients \cup {0}]
          /\ \A v \in WorkerIds : rsock'[v] = rsock[v] \/ v = w
        BY <1>0, <1>3
    <2>. QED
        BY <1>0, <1>3, <2>1, <2>2, <2>3, <2>4, WorkerFrame
<1>4. CASE ConnectSocket(w)
    BY <1>1, <1>2, <1>3, <1>4, SocketsAre DEF ConnectSocket, At
<1>5. CASE ConnectCompletes(w)
    <2>1. rsock[w] \in Clients /\ Connect(rsock[w]) /\ wpc[w] \in {"connecting", "abandoned"}
        BY <1>5, SocketsAre DEF ConnectCompletes
    <2>. QED
        BY <1>2, <1>5, <2>1 DEF ConnectCompletes
<1>. QED
    BY <1>4, <1>5

(* The mutex is taken: nobody uses a number at that moment.                  *)
LEMMA LockClientKeeps ==
    ASSUME WorkInv, NEW w \in WorkerIds, LockClient(w)
    PROVE  WorkInv'
<1>1. /\ wpc \in [WorkerIds -> {"address", "port", "token", "socket", "connect",
                              "connecting", "abandoned", "keep", "lock", "call",
                              "wait", "count", "ended"}]
      /\ wpc[w] = "lock" /\ cmtx = 0 /\ cmtx' = w /\ w # 0
      /\ wpc' = [wpc EXCEPT ![w] = "call"]
    BY WorkersAre DEF WorkInv, BenchTypeOK, LockClient, At, Goes
<1>2. /\ UNCHANGED <<mode, proc, mainpc, cancelled, printed, saved, sockfd, rsock,
                     key_number, ngets>>
      /\ UNCHANGED <<cpc, asked, queue, reply, hpc, lista, mpc, n>>
    BY DEF LockClient, control, counters, vars, client, net, main, handlers, table
<1>3. \A v \in WorkerIds : wpc[v] \notin {"call", "wait", "count"}
    BY <1>1, WorkersAre DEF WorkInv, MutexInv
<1>4. MutexInv'
    BY <1>1, <1>2, <1>3 DEF WorkInv, MutexInv
<1>5. DescriptorInv'
    BY <1>1, <1>2 DEF WorkInv, DescriptorInv
<1>6. NumberInv'
    BY <1>1, <1>2, <1>3 DEF WorkInv, NumberInv, NumbersOnce
<1>7. BenchTypeOK' /\ RunningInv' /\ PrintInv'
    BY <1>1, <1>2, StoreFrame DEF WorkInv, BenchTypeOK, RunningInv, PrintInv
<1>. QED
    BY <1>4, <1>5, <1>6, <1>7 DEF WorkInv

(* The call: the number is asked for the first time, by the only one who may. *)
LEMMA CallServerKeeps ==
    ASSUME BInv, NEW w \in WorkerIds, CallServer(w)
    PROVE  WorkInv'
<1>. WorkInv
    BY DEF BInv, WorkInv
<1>1. CASE Dies
    BY <1>1, DiesKeeps
<1>2. CASE ~Dies
    <2> DEFINE s == rsock[w]
    <2>1. /\ wpc[w] = "call" /\ w > cancelled /\ s \in Clients
          /\ UNCHANGED <<control, saved, sockfd, rsock, cmtx, counters>>
          /\ Goes(w, "wait") \/ Goes(w, "count")
        BY <1>2, SocketsAre DEF CallServer, At, Uncancelled
    <2>2. PICK m \in Requests :
            Numbered(m) /\ (Call(s, m) \/ CallDead(s, m) \/ CallFails(s, m) \/ CallClosed(s, m))
        BY <1>2 DEF CallServer
    <2>3. /\ UNCHANGED <<queue, reply, hpc, lista, mpc, n>>
          /\ asked' = [asked EXCEPT ![s] = m]
          /\ \/ \E p \in {"waiting", "broken"} : cpc' = [cpc EXCEPT ![s] = p]
             \/ cpc' = cpc
          /\ cpc'[s] = "waiting" => Goes(w, "wait")
        <3>1. UNCHANGED <<queue, reply, hpc, lista, mpc, n>> /\ asked' = [asked EXCEPT ![s] = m]
            BY <2>2 DEF Call, CallDead, CallFails, CallClosed, Asks, net, main, handlers, table
        <3>2. \/ \E p \in {"waiting", "broken"} : cpc' = [cpc EXCEPT ![s] = p]
              \/ cpc' = cpc
            BY <2>2 DEF Call, CallDead, CallFails, CallClosed
        <3>3. cpc \in [Clients -> {"off", "ready", "waiting", "spin", "broken", "gone"}]
            BY DEF BInv, RInv, TypeOK
        <3>4. cpc'[s] = "waiting" => Goes(w, "wait")
            BY <1>2, <2>1, <3>3 DEF CallServer, CallFails, CallClosed
        <3>. QED
            BY <3>1, <3>2, <3>4
    <2>4. IsNumbered(m) /\ WordOf(m) = key_number /\ key_number \in Words
        BY <2>2, NumberedRequest
    <2>5. /\ UNCHANGED <<mode, proc, mainpc, cancelled, printed, key_number, ngets, cmtx, rsock,
                         saved, sockfd>>
          /\ asked \in [Clients -> Requests \cup {NULL}]
          /\ cpc \in [Clients -> {"off", "ready", "waiting", "spin", "broken", "gone"}]
          /\ wpc \in [WorkerIds -> {"address", "port", "token", "socket", "connect",
                              "connecting", "abandoned", "keep", "lock", "call",
                              "wait", "count", "ended"}]
          /\ cancelled \in 0..Workers
        BY <2>1 DEF control, counters, BInv, RInv, TypeOK, BenchTypeOK
    <2>6. /\ cmtx = w /\ w # 0
          /\ wpc' = [wpc EXCEPT ![w] = "wait"] \/ wpc' = [wpc EXCEPT ![w] = "count"]
          /\ cpc'[s] = "waiting" => wpc'[w] = "wait"
        BY <2>1, <2>3, <2>5, WorkersAre DEF WorkInv, MutexInv, Goes
    <2>7. \A c \in Clients : cpc[c] \notin {"waiting", "spin"}
        BY <2>1, <2>6 DEF WorkInv, MutexInv
    <2>8. \A c \in Clients : asked[c] # NULL => WordOf(asked[c]) # key_number
        BY <2>1, <2>6 DEF WorkInv, NumberInv
    <2>9. BenchTypeOK'
        BY <2>1, <2>5, <2>6 DEF WorkInv, BenchTypeOK
    <2>10. MutexInv'
        <3>1. \A v \in WorkerIds : wpc'[v] \in {"call", "wait", "count"} => cmtx' = v
            BY <2>5, <2>6 DEF WorkInv, MutexInv
        <3>2. \A c \in Clients : cpc'[c] \in {"waiting", "spin"} => c = s /\ cpc'[c] = "waiting"
            BY <2>1, <2>3, <2>5, <2>7
        <3>. QED
            BY <2>5, <2>6, <3>1, <3>2 DEF MutexInv
    <2>11. DescriptorInv'
        BY <2>1, <2>5, <2>6 DEF WorkInv, DescriptorInv
    <2>12. NumberInv'
        <3>1. \A c \in Clients : c # s => asked'[c] = asked[c]
            BY <2>3, <2>5
        <3>2. asked'[s] = m
            BY <2>1, <2>3, <2>5
        <3>3. NumbersOnce'
            <4>1. key_number \in Int
                BY DEF WorkInv, BenchTypeOK
            <4>. QED
                BY <2>4, <2>5, <2>8, <3>1, <3>2, <4>1 DEF WorkInv, NumberInv, NumbersOnce
        <3>4. \A c \in Clients :
                asked'[c] # NULL =>
                    /\ IsNumbered(asked'[c])
                    /\ WordOf(asked'[c]) = key_number => c = s
            BY <2>4, <2>8, <3>1, <3>2 DEF WorkInv, NumberInv
        <3>5. \A c \in Clients : asked'[c] # NULL => IsNumbered(asked[c])'
            BY <3>4 DEF IsNumbered
        <3>6. key_number <= MaxCalls /\ ngets < key_number
            BY <2>4, BenchAssumption, NumbersAre DEF WorkInv, NumberInv
        <3>7. cmtx' # 0 /\ rsock'[cmtx'] = s /\ wpc'[cmtx'] \in {"wait", "count", "ended"}
            BY <2>5, <2>6
        <3>. QED
            BY <2>5, <3>3, <3>4, <3>5, <3>6, <3>7 DEF NumberInv
    <2>13. RunningInv'
        BY <2>3, <2>5 DEF WorkInv, RunningInv
    <2>14. PrintInv'
        <3>1. printed = NULL
            BY <2>1, <2>5, NumbersAre DEF WorkInv, PrintInv, WorkerIds
        <3>. QED
            BY <2>3, <2>5, <3>1, StoreFrame DEF WorkInv, PrintInv
    <2>. QED
        BY <2>9, <2>10, <2>11, <2>12, <2>13, <2>14 DEF WorkInv
<1>. QED
    BY <1>1, <1>2

(* The call returns, or never will.                                          *)
LEMMA AwaitReplyKeeps ==
    ASSUME BInv, NEW w \in WorkerIds, AwaitReply(w)
    PROVE  WorkInv'
<1>. WorkInv
    BY DEF BInv, WorkInv
<1> DEFINE s == rsock[w]
<1>1. wpc[w] = "wait" /\ s \in Clients /\ Returns(s)
    BY SocketsAre DEF AwaitReply, At
<1>2. /\ UNCHANGED <<mode, proc, mainpc, cancelled, printed, key_number, ngets, cmtx, rsock,
                     saved, sockfd>>
      /\ UNCHANGED <<asked, queue, hpc, lista, mpc, n>>
    BY <1>1 DEF AwaitReply, control, counters, Returns, Return, ReturnReset, ReturnNever,
                net, main, handlers, table
<1>3. /\ wpc \in [WorkerIds -> {"address", "port", "token", "socket", "connect",
                              "connecting", "abandoned", "keep", "lock", "call",
                              "wait", "count", "ended"}]
      /\ cpc \in [Clients -> {"off", "ready", "waiting", "spin", "broken", "gone"}]
      /\ reply \in [Clients -> Replies \cup {NULL}]
    BY DEF WorkInv, BenchTypeOK, BInv, RInv, TypeOK
<1>4. PICK p \in {"ready", "broken", "spin"} : cpc' = [cpc EXCEPT ![s] = p]
    BY <1>1 DEF Returns, Return, ReturnReset, ReturnNever
<1>5. IF p = "spin" THEN wpc' = wpc ELSE wpc' = [wpc EXCEPT ![w] = "count"]
    BY <1>1, <1>3, <1>4 DEF AwaitReply, Goes
<1>6. \A c \in Clients : reply'[c] # NULL => reply[c] # NULL
    BY <1>1, <1>3 DEF Returns, Return, ReturnReset, ReturnNever, net
<1>7. cmtx = w /\ w # 0
    BY <1>1, WorkersAre DEF WorkInv, MutexInv
<1>8. BenchTypeOK'
    BY <1>2, <1>3, <1>5 DEF WorkInv, BenchTypeOK
<1>9. MutexInv'
    <2>1. \A v \in WorkerIds : wpc'[v] \in {"call", "wait", "count"} => cmtx' = v
        BY <1>2, <1>3, <1>5, <1>7 DEF WorkInv, MutexInv
    <2>2. cmtx' # 0 => wpc'[cmtx] \in {"call", "wait", "count", "ended"}
        BY <1>1, <1>2, <1>3, <1>5, <1>7
    <2>3. \A c \in Clients : cpc[c] \in {"waiting", "spin"} => c = s
        BY <1>7 DEF WorkInv, MutexInv
    <2>4. \A c \in Clients : cpc'[c] \in {"waiting", "spin"} => c = s /\ p = "spin"
        BY <1>1, <1>3, <1>4, <2>3
    <2>. QED
        BY <1>1, <1>2, <1>3, <1>5, <1>7, <2>1, <2>2, <2>4 DEF MutexInv
<1>10. DescriptorInv'
    BY <1>1, <1>2, <1>3, <1>5 DEF WorkInv, DescriptorInv
<1>11. NumberInv'
    BY <1>1, <1>2, <1>3, <1>5, <1>7 DEF WorkInv, NumberInv, NumbersOnce
<1>12. RunningInv'
    BY <1>2, <1>3, <1>4, <1>6 DEF WorkInv, RunningInv
<1>13. PrintInv'
    BY <1>2, StoreFrame DEF WorkInv, PrintInv
<1>. QED
    BY <1>8, <1>9, <1>10, <1>11, <1>12, <1>13 DEF WorkInv

(* What is stored is a word and what followed it in memory.                  *)
LEMMA StoredTyped == BInv => Tab!StoredKeys \subseteq ServerKeys
<1> SUFFICES ASSUME BInv PROVE Tab!StoredKeys \subseteq ServerKeys
    OBVIOUS
<1>1. lista \in [Tab!Buckets -> Seq([key : ServerKeys, value : Vals])]
    BY DEF BInv, RInv, Tab!IInv, Tab!TypeOK, Tab!Lists
<1>2. ASSUME NEW b \in Tab!Buckets PROVE Tab!KeysIn(lista[b]) \subseteq ServerKeys
    <2>1. lista[b] \in Seq([key : ServerKeys, value : Vals])
        BY <1>1, <1>2
    <2>2. \A p \in DOMAIN lista[b] : lista[b][p] \in [key : ServerKeys, value : Vals]
        BY <2>1, ElementOfSeq, LenProperties
    <2>3. \A e \in [key : ServerKeys, value : Vals] : e.key \in ServerKeys
        OBVIOUS
    <2>. QED
        BY <2>2, <2>3 DEF Tab!KeysIn
<1>. QED
    BY <1>2 DEF Tab!StoredKeys

(* The number is used up: it has been asked for by nobody yet that is to     *)
(* come next.                                                                *)
LEMMA CountKeeps ==
    ASSUME BInv, NEW w \in WorkerIds, Count(w)
    PROVE  WorkInv'
<1>. WorkInv
    BY DEF BInv, WorkInv
<1>1. /\ UNCHANGED <<mode, proc, mainpc, cancelled, printed, rsock, saved, sockfd>>
      /\ UNCHANGED <<asked, queue, reply, cpc, hpc, lista, mpc, n>>
      /\ key_number' = key_number + 1 /\ ngets' \in {ngets, ngets + 1} /\ cmtx' = 0
      /\ wpc[w] = "count" /\ wpc' = [wpc EXCEPT ![w] = "lock"]
    BY DEF Count, At, Goes, control, vars, client, net, main, handlers, table
<1>2. /\ wpc \in [WorkerIds -> {"address", "port", "token", "socket", "connect",
                              "connecting", "abandoned", "keep", "lock", "call",
                              "wait", "count", "ended"}]
      /\ key_number \in 1..MaxCalls + 1 /\ ngets \in 0..MaxCalls
    BY DEF WorkInv, BenchTypeOK
<1>3. cmtx = w /\ w # 0 /\ key_number <= MaxCalls /\ ngets < key_number
    BY <1>1, WorkersAre DEF WorkInv, MutexInv, NumberInv
<1>4. \A v \in WorkerIds : wpc'[v] \notin {"call", "wait", "count"}
    BY <1>1, <1>2, <1>3 DEF WorkInv, MutexInv
<1>5. \A s \in Clients : cpc[s] \notin {"waiting", "spin"}
    BY <1>1, <1>3 DEF WorkInv, MutexInv
<1>6. \A m : IsNumbered(m) => WordOf(m) \in Int
    BY BenchAssumption, NumbersAre
       DEF IsNumbered, WordOf, KeyMsg, PutMsg, CT_KEY, CT_ENTRY
<1>7. BenchTypeOK'
    BY <1>1, <1>2, <1>3, NumbersAre DEF WorkInv, BenchTypeOK
<1>8. MutexInv'
    BY <1>1, <1>4, <1>5 DEF MutexInv
<1>9. DescriptorInv'
    BY <1>1, <1>2 DEF WorkInv, DescriptorInv
<1>10. NumberInv'
    <2>1. \A s \in Clients :
            asked[s] # NULL => WordOf(asked[s]) \in Int /\ WordOf(asked[s]) <= key_number
        BY <1>6 DEF WorkInv, NumberInv, NumbersOnce
    <2>2. NumbersOnce'
        BY <1>1, <1>2, <2>1 DEF WorkInv, NumberInv, NumbersOnce
    <2>. QED
        BY <1>1, <1>2, <1>3, <1>4, <2>1, <2>2 DEF WorkInv, NumberInv
<1>11. RunningInv'
    BY <1>1 DEF WorkInv, RunningInv
<1>12. PrintInv'
    <2>1. /\ printed # NULL => cancelled = Workers
          /\ mainpc = "return" <=> printed # NULL
          /\ mode = "p" /\ printed # NULL =>
               /\ \A k \in Tab!StoredKeys : k[1] <= printed
               /\ \A s \in Clients : asked[s] # NULL => WordOf(asked[s]) <= printed
        BY DEF WorkInv, PrintInv
    <2>2. \A k \in Tab!StoredKeys : k[1] <= key_number
        BY DEF WorkInv, PrintInv
    <2>3. \A k \in Tab!StoredKeys : k[1] \in Int
        BY BenchAssumption, StoredTyped, NumbersAre DEF ServerKeys
    <2>. QED
        BY <1>1, <1>2, <2>1, <2>2, <2>3, StoreFrame DEF PrintInv
<1>. QED
    BY <1>7, <1>8, <1>9, <1>10, <1>11, <1>12 DEF WorkInv

(* A cancelled worker ends with what it holds.                               *)
LEMMA CancelledKeeps ==
    ASSUME WorkInv, NEW w \in WorkerIds, Cancelled(w)
    PROVE  WorkInv'
<1>1. /\ UNCHANGED <<mode, proc, mainpc, cancelled, printed, rsock, saved, sockfd, cmtx,
                     key_number, ngets>>
      /\ UNCHANGED <<asked, queue, reply, cpc, hpc, lista, mpc, n>>
    BY DEF Cancelled, control, counters, vars, client, net, main, handlers, table
<1>2. /\ wpc \in [WorkerIds -> {"address", "port", "token", "socket", "connect",
                              "connecting", "abandoned", "keep", "lock", "call",
                              "wait", "count", "ended"}]
      /\ cmtx \in WorkerIds \cup {0}
    BY DEF WorkInv, BenchTypeOK
<1>3. \/ wpc[w] \in {"connect", "call", "wait", "count"} /\ wpc' = [wpc EXCEPT ![w] = "ended"]
      \/ wpc[w] = "connecting" /\ wpc' = [wpc EXCEPT ![w] = "abandoned"]
    BY DEF Cancelled, Goes
<1>4. BenchTypeOK'
    BY <1>1, <1>2, <1>3 DEF WorkInv, BenchTypeOK
<1>5. MutexInv'
    BY <1>1, <1>2, <1>3 DEF WorkInv, MutexInv
<1>6. DescriptorInv'
    BY <1>1, <1>2, <1>3 DEF WorkInv, DescriptorInv
<1>7. NumberInv'
    BY <1>1, <1>2, <1>3 DEF WorkInv, NumberInv, NumbersOnce
<1>8. RunningInv' /\ PrintInv'
    BY <1>1, StoreFrame DEF WorkInv, RunningInv, PrintInv
<1>. QED
    BY <1>4, <1>5, <1>6, <1>7, <1>8 DEF WorkInv

(* What main does: after the last cancel nobody starts a call any more.      *)
LEMMA BenchMainKeeps ==
    ASSUME WorkInv, Wakes \/ BenchMain
    PROVE  WorkInv'
<1>1. CASE Dies
    BY <1>1, DiesKeeps
<1>2. CASE ~Dies
    <2>1. /\ UNCHANGED <<mode, proc, wpc, rsock, saved, sockfd, cmtx, key_number, ngets>>
          /\ UNCHANGED <<asked, queue, reply, cpc, hpc, lista, mpc, n>>
        BY <1>2 DEF Wakes, BenchMain, CancelNext, PrintNumber, MainReturns, counters, vars,
                    client, net, main, handlers, table
    <2>2. \/ mainpc = "sleep" /\ mainpc' = "cancel" /\ UNCHANGED <<cancelled, printed>>
          \/ mainpc = "cancel" /\ cancelled < Workers /\ cancelled' = cancelled + 1
                /\ UNCHANGED <<mainpc, printed>>
          \/ mainpc = "cancel" /\ cancelled = Workers /\ mainpc' = "return"
                /\ printed' = (IF mode = "p" THEN key_number ELSE ngets)
                /\ UNCHANGED cancelled
        BY <1>2 DEF Wakes, BenchMain, CancelNext, PrintNumber, MainReturns, MainAt
    <2>3. key_number \in 1..MaxCalls + 1 /\ ngets \in 0..MaxCalls /\ cancelled \in 0..Workers
        BY DEF WorkInv, BenchTypeOK
    <2>4. BenchTypeOK'
        BY <2>1, <2>2, <2>3, NumbersAre DEF WorkInv, BenchTypeOK
    <2>5. MutexInv' /\ DescriptorInv' /\ NumberInv' /\ RunningInv'
        BY <2>1 DEF WorkInv, MutexInv, DescriptorInv, NumberInv, NumbersOnce, RunningInv
    <2>6. PrintInv'
        <3>1. key_number # NULL /\ ngets # NULL
            BY <2>3, NumbersAre
        <3>2. \A s \in Clients : asked[s] # NULL => WordOf(asked[s]) <= key_number
            BY DEF WorkInv, NumberInv, NumbersOnce
        <3>3. printed' = printed \/ printed' = (IF mode = "p" THEN key_number ELSE ngets)
            BY <2>2
        <3>4. (mainpc = "return" <=> printed # NULL) /\ (printed # NULL => cancelled = Workers)
            BY DEF WorkInv, PrintInv
        <3>5. (mainpc' = "return" <=> printed' # NULL) /\ (printed' # NULL => cancelled' = Workers)
            BY <2>2, <3>1, <3>4
        <3>. QED
            BY <2>1, <3>2, <3>3, <3>5, StoreFrame DEF WorkInv, PrintInv
    <2>. QED
        BY <2>4, <2>5, <2>6 DEF WorkInv
<1>. QED
    BY <1>1, <1>2

-----------------------------------------------------------------------------
(* The steps that leave the benchmark alone. *)

(* A dead process loses its sockets and the server does its work: neither    *)
(* makes a request, and no socket starts to wait.                            *)
LEMMA BenchFrame ==
    ASSUME WorkInv, UNCHANGED <<bench, asked>>,
           \A s \in Clients : cpc'[s] \in {cpc[s], "gone"}
    PROVE  BenchTypeOK' /\ MutexInv' /\ DescriptorInv' /\ NumberInv'
<1>1. UNCHANGED <<mode, proc, mainpc, cancelled, printed, wpc, saved, sockfd, rsock, cmtx,
                  key_number, ngets, asked>>
    BY DEF bench, control, counters
<1>. QED
    BY <1>1 DEF WorkInv, BenchTypeOK, MutexInv, DescriptorInv, NumberInv, NumbersOnce

(* The kernel closes a socket of the dead process: RunningInv no longer      *)
(* speaks of it.                                                             *)
LEMMA ProcessClosesKeeps ==
    ASSUME BInv, ProcessCloses
    PROVE  WorkInv'
<1>. WorkInv
    BY DEF BInv, WorkInv
<1>1. PICK s \in Clients : Quit(s) \/ Kill(s)
    BY DEF ProcessCloses
<1>2. UNCHANGED <<asked, queue, hpc, lista, mpc, n, bench>>
    BY <1>1 DEF ProcessCloses, Quit, Kill, main, handlers, table
<1>3. cpc \in [Clients -> {"off", "ready", "waiting", "spin", "broken", "gone"}]
      /\ reply \in [Clients -> Replies \cup {NULL}]
    BY DEF BInv, RInv, TypeOK
<1>4. BenchTypeOK' /\ MutexInv' /\ DescriptorInv' /\ NumberInv'
    <2>1. cpc' = [cpc EXCEPT ![s] = "gone"]
        BY <1>1 DEF Quit, Kill
    <2>. QED
        BY <1>2, <1>3, <2>1, BenchFrame
<1>5. RunningInv'
    <2>1. proc' = "dead"
        BY <1>2 DEF ProcessCloses, bench, control
    <2>2. \A c \in Clients : reply'[c] # NULL => reply[c] # NULL
        BY <1>1, <1>3 DEF Quit, Kill
    <2>. QED
        BY <1>2, <2>1, <2>2 DEF WorkInv, RunningInv
<1>6. PrintInv'
    BY <1>2, StoreFrame DEF WorkInv, PrintInv, bench, control, counters
<1>. QED
    BY <1>4, <1>5, <1>6 DEF WorkInv

(* table_put stores no other key than the one it was given, and the other    *)
(* operations store none.                                                    *)
LEMMA PutStores ==
    ASSUME Tab!IInv, NEW k \in ServerKeys, NEW v \in Vals, Tab!Put(k, v)
    PROVE  Tab!StoredKeys' \subseteq Tab!StoredKeys \cup {k}
<1>1. TabT!IInv /\ TabT!Put(k, v)
    BY SameInvariant, SameActions
<1>2. Tab!StoredKeys = TabT!StoredKeys
    BY DEF Tab!StoredKeys, TabT!StoredKeys, Tab!Buckets, TabT!Buckets, Tab!KeysIn, TabT!KeysIn
<1>3. (Tab!StoredKeys = TabT!StoredKeys)'
    BY DEF Tab!StoredKeys, TabT!StoredKeys, Tab!Buckets, TabT!Buckets, Tab!KeysIn, TabT!KeysIn
<1>4. CASE TabT!PutNew(k, v) \/ TabT!PutReplace(k, v)
    <2>1. /\ TabT!TypeOK /\ TabT!BucketHome /\ TabT!OneEntryPerKey
          /\ TabT!HashOk(k)
          /\ lista' = [lista EXCEPT ![TabT!Hash(k)] = TabT!ListAdd(@, k, v)]
        BY <1>1, <1>4 DEF TabT!IInv, TabT!PutNew, TabT!PutReplace
    <2>2. TabT!StoredKeys' = TabT!StoredKeys \cup {k}
        BY <2>1, TabT!AddAtHome, TableAssumptions
    <2>. QED
        BY <1>2, <1>3, <2>2
<1>5. CASE TabT!WildPut(k)
    <2>1. lista' = lista
        BY <1>5 DEF TabT!WildPut, TabT!Crash, TabT!store
    <2>. QED
        BY <2>1, StoreFrame
<1>. QED
    BY <1>1, <1>4, <1>5 DEF TabT!Put

(* The benchmark's requests put or get.                                      *)
LEMMA OperateStores ==
    ASSUME Tab!IInv, NEW m, NEW tail \in Tails, IsNumbered(m), Operate(Received(m, tail))
    PROVE  \A k \in Tab!StoredKeys' : k \in Tab!StoredKeys \/ k[1] = WordOf(m)
<1>. USE DEF OP_GET, OP_PUT, OP_SIZE, OP_DEL, OP_GETKEYS
<1>1. PICK w \in Words : m = KeyMsg(OP_GET, w) \/ \E v \in Vals : m = PutMsg(w, v)
    BY DEF IsNumbered
<1>2. CASE m = KeyMsg(OP_GET, w)
    <2>1. Received(m, tail) = KeyMsg(OP_GET, <<w, tail>>)
        BY <1>2 DEF Received, KeyMsg, CT_KEY, CT_ENTRY
    <2>2. Received(m, tail).opcode = OP_GET
        BY <2>1 DEF KeyMsg
    <2>3. \E k : Tab!Get(k)
        BY <2>2 DEF Operate
    <2>4. lista' = lista
        BY <2>3 DEF Tab!Get, Tab!GetNone, Tab!GetLookup, Tab!WildGet, Tab!Crash, Tab!store
    <2>. QED
        BY <2>4, StoreFrame
<1>3. CASE \E v \in Vals : m = PutMsg(w, v)
    <2>1. PICK v \in Vals : m = PutMsg(w, v)
        BY <1>3
    <2>2. Received(m, tail) = PutMsg(<<w, tail>>, v) /\ <<w, tail>> \in ServerKeys
        BY <2>1 DEF Received, PutMsg, CT_KEY, CT_ENTRY, ServerKeys
    <2>3. Tab!Put(<<w, tail>>, v)
        BY <2>2 DEF Operate, PutMsg
    <2>4. WordOf(m) = w
        BY <2>1 DEF WordOf, PutMsg, CT_ENTRY
    <2>. QED
        BY <2>2, <2>3, <2>4, PutStores
<1>. QED
    BY <1>1, <1>2, <1>3

(* The server works on connections, requests and the table.                  *)
LEMMA ServerKeeps ==
    ASSUME BInv, UNCHANGED bench,
           Main \/ ServerKilled \/ \E t \in Threads : Handler(t)
    PROVE  WorkInv'
<1>. WorkInv
    BY DEF BInv, WorkInv
<1>0. /\ hpc \in [Threads -> {"none", "start", "receive", "lock", "invoke", "send", "spin", "done"}]
      /\ reply \in [Clients -> Replies \cup {NULL}]
      /\ queue \in Seq(Clients)
      /\ n \in Nat
    BY ThreadsAre DEF BInv, RInv, TypeOK
<1>1. UNCHANGED <<cpc, asked>>
    BY DEF Main, Accept, AcceptAbort, Join, ServerKilled, Handler, HandlerStart, Receive,
           ReceiveNever, ReceiveReset, Lock, Invoke, Send, client
<1>2. BenchTypeOK' /\ MutexInv' /\ DescriptorInv' /\ NumberInv'
    BY <1>1, BenchFrame
<1>3. UNCHANGED <<mode, proc, mainpc, cancelled, printed, wpc, saved, sockfd, rsock, cmtx,
                  key_number, ngets>>
    BY DEF bench, control, counters
<1>4. ASSUME NEW t \in Threads, Invoke(t)
      PROVE  RunningInv' /\ PrintInv'
    <2>1. /\ asked[hsock[t]] # NULL
          /\ hsock[t] \in Clients
          /\ \E tail \in Tails : hmsg[t] = Received(asked[hsock[t]], tail)
        BY <1>4 DEF Invoke, BInv, RInv, CallInv, TypeOK, ThreadInv
    <2>2. PICK tail \in Tails : hmsg[t] = Received(asked[hsock[t]], tail)
        BY <2>1
    <2>3. IsNumbered(asked[hsock[t]])
        BY <2>1 DEF WorkInv, NumberInv
    <2>4. \A k \in Tab!StoredKeys' :
            k \in Tab!StoredKeys \/ k[1] = WordOf(asked[hsock[t]])
        <3>1. Operate(Received(asked[hsock[t]], tail))
            BY <1>4, <2>2 DEF Invoke
        <3>. QED
            BY <2>3, <3>1, OperateStores DEF BInv, RInv
    <2>5. PrintInv'
        BY <1>1, <1>3, <2>1, <2>4 DEF WorkInv, PrintInv, NumberInv, NumbersOnce
    <2>6. UNCHANGED <<reply, queue, mpc, n>>
        BY <1>4 DEF Invoke, net, main
    <2>7. \A u \in Threads : hpc'[u] = "done" => hpc[u] = "done"
        BY <1>0, <1>4 DEF Invoke
    <2>. QED
        BY <1>1, <1>3, <2>5, <2>6, <2>7 DEF WorkInv, RunningInv, Threads
<1>5. ASSUME NEW t \in Threads, Handler(t), ~Invoke(t)
      PROVE  RunningInv' /\ PrintInv'
    <2>1. UNCHANGED <<queue, mpc, n, lista>>
        BY <1>5 DEF Handler, HandlerStart, Receive, ReceiveNever, ReceiveReset, Lock, Send,
                    net, main, table
    <2>2. PrintInv'
        BY <1>1, <1>3, <2>1, StoreFrame DEF WorkInv, PrintInv
    <2>3. proc = "running" => ~ReceiveReset(t)
        <3>1. hpc[t] = "receive" => hsock[t] \in Clients
            BY DEF BInv, RInv, TypeOK, ThreadInv
        <3>. QED
            BY <3>1 DEF ReceiveReset, BInv, RInv, SocketInv, RunningInv
    <2>4. proc = "running" => \A u \in Threads : hpc'[u] # "done"
        BY <1>0, <1>5, <2>3
           DEF Handler, HandlerStart, Receive, ReceiveNever, Lock, Send, WorkInv, RunningInv
    <2>5. \A c \in Clients : reply'[c] # NULL => reply[c] # NULL \/ (Send(t) /\ c = hsock[t])
        BY <1>0, <1>5 DEF Handler, HandlerStart, Receive, ReceiveNever, ReceiveReset, Lock,
                          Send, net
    <2>6. Send(t) => hsock[t] \notin Range(queue)
        <3>1. hpc[t] = "send" => t \in 1..n /\ Conn(t) = hsock[t]
            BY <1>0, ThreadsAre DEF BInv, RInv, ThreadInv, Conn
        <3>. QED
            BY <3>1 DEF Send, BInv, RInv, SocketInv
    <2>. QED
        BY <1>1, <1>3, <2>1, <2>2, <2>4, <2>5, <2>6 DEF WorkInv, RunningInv, Threads
<1>6. CASE Main \/ ServerKilled
    <2>1. UNCHANGED <<reply, lista>>
        BY <1>6 DEF Main, Accept, AcceptAbort, Join, ServerKilled, net, table, Tab!Crash,
                    Tab!store
    <2>2. PrintInv'
        BY <1>1, <1>3, <2>1, StoreFrame DEF WorkInv, PrintInv
    <2>3. \A t \in Threads : hpc'[t] = "done" => hpc[t] = "done"
        BY <1>0, <1>6 DEF Main, Accept, AcceptAbort, Join, ServerKilled, handlers
    <2>4. mpc' = "join" => n' # 0
        BY <1>0, <1>6 DEF Main, Accept, AcceptAbort, Join, ServerKilled, main, WorkInv, RunningInv
    <2>5. Range(queue') \subseteq Range(queue)
        <3>1. CASE Accept \/ AcceptAbort
            BY <1>0, <3>1, HeadAndTail DEF Accept, AcceptAbort
        <3>2. CASE ~Accept /\ ~AcceptAbort
            BY <1>6, <3>2 DEF Main, Join, ServerKilled, net
        <3>. QED
            BY <3>1, <3>2
    <2>. QED
        BY <1>1, <1>2, <1>3, <2>1, <2>2, <2>3, <2>4, <2>5 DEF WorkInv, RunningInv, Threads
<1>. QED
    BY <1>2, <1>4, <1>5, <1>6 DEF WorkInv

(* A key of an earlier run is stored before the first call, below every      *)
(* number of this one.                                                       *)
LEMMA EarlierPutKeeps ==
    ASSUME BInv, EarlierPut
    PROVE  WorkInv'
<1>. WorkInv
    BY DEF BInv, WorkInv
<1>1. /\ UNCHANGED <<cpc, asked, queue, reply, hpc, mpc, n>>
      /\ UNCHANGED <<mode, proc, mainpc, cancelled, printed, wpc, saved, sockfd, rsock, cmtx,
                     key_number, ngets>>
    BY DEF EarlierPut, client, net, main, handlers, bench, control, counters
<1>2. BenchTypeOK' /\ MutexInv' /\ DescriptorInv' /\ NumberInv' /\ RunningInv'
    BY <1>1 DEF WorkInv, BenchTypeOK, MutexInv, DescriptorInv, NumberInv, NumbersOnce,
                RunningInv
<1>3. PrintInv'
    <2>1. printed = NULL
        BY DEF EarlierPut, WorkInv, PrintInv
    <2>2. \A k \in Tab!StoredKeys' : k \in Tab!StoredKeys \/ k[1] = 1
        BY PutStores DEF EarlierPut, BInv, RInv
    <2>3. key_number >= 1
        BY DEF WorkInv, BenchTypeOK
    <2>. QED
        BY <1>1, <2>1, <2>2, <2>3 DEF WorkInv, PrintInv
<1>. QED
    BY <1>2, <1>3 DEF WorkInv

-----------------------------------------------------------------------------
(* All steps of a worker thread.                                             *)
LEMMA WorkerKeeps ==
    ASSUME BInv, NEW w \in WorkerIds, Worker(w) \/ ConnectTimeout(w)
    PROVE  WorkInv'
<1>. WorkInv
    BY DEF BInv, WorkInv
<1>1. CASE ConnectTimeout(w)
    BY <1>1, DiesKeeps DEF ConnectTimeout
<1>. QED
    BY <1>1, StartKeeps, ConnectStepKeeps, LockClientKeeps, CallServerKeeps,
       AwaitReplyKeeps, CountKeeps, CancelledKeeps DEF Worker

(* A step that changes nothing.                                              *)
LEMMA BenchStutters ==
    ASSUME WorkInv, UNCHANGED bvars
    PROVE  WorkInv'
<1>1. /\ UNCHANGED <<mode, proc, mainpc, cancelled, printed, wpc, saved, sockfd, rsock, cmtx,
                     key_number, ngets>>
      /\ UNCHANGED <<cpc, asked, queue, reply, hpc, lista, mpc, n>>
    BY DEF bvars, bench, control, counters, vars, client, net, main, handlers, table
<1>. QED
    BY <1>1, StoreFrame
       DEF WorkInv, BenchTypeOK, MutexInv, DescriptorInv, NumberInv, NumbersOnce,
           RunningInv, PrintInv

(* Every step of the benchmark, the server and the kernel keeps BInv.        *)
LEMMA NextKeepsBInv == BInv /\ [BenchNext]_bvars => BInv'
<1> SUFFICES ASSUME BInv, [BenchNext]_bvars PROVE BInv'
    OBVIOUS
<1>1. WorkInv
    BY DEF BInv, WorkInv
<1>2. WorkInv'
    BY <1>1, BenchStutters, EarlierPutKeeps, BenchMainKeeps, WorkerKeeps,
       ProcessClosesKeeps, ServerKeeps DEF BenchNext, Accepting, Handling
<1>. QED
    BY <1>2, SystemKeeps DEF WorkInv, BInv

(* BInv holds in every reachable state; the theorems below read their        *)
(* properties off it.                                                        *)
LEMMA BenchInvariance == BenchSpec => []BInv
<1>1. BenchInit => BInv
    BY InitRInv, InitMapsRemote, InitWork DEF BenchInit, WorkInv, BInv
<1>. QED
    BY <1>1, NextKeepsBInv, PTL DEF BenchSpec

(* The variables of the benchmark keep their types; in particular neither    *)
(* counter leaves its range.                                                 *)
THEOREM BenchTypeCorrect == BenchSpec => []BenchTypeOK
BY BenchInvariance, PTL DEF BInv

(* However many threads share the counter of table-client.c, and whatever    *)
(* becomes of the calls and of the threads that make them, no number is      *)
(* asked for on two sockets and none before its turn.                        *)
THEOREM NumbersOnceCorrect == BenchSpec => []NumbersOnce
BY BenchInvariance, PTL DEF BInv, NumberInv

(* The number the benchmark prints covers all keys it has stored or will     *)
(* store, although main reads it without the mutex.                          *)
THEOREM PrintedCoversCorrect == BenchSpec => []PrintedCovers
BY BenchInvariance, PTL DEF BInv, PrintInv, PrintedCovers

(* Once the mutex of the client, the join of the server and its queue wait   *)
(* on each other, only the end of one of the two processes resolves it.      *)
THEOREM WedgedForGoodCorrect == BenchSpec => WedgedForGood
<1>1. BInv /\ [BenchNext]_bvars => [Wedged => Wedged' \/ proc' = "dead" \/ ~alive']_bvars
    <2> SUFFICES ASSUME BInv, BenchNext, Wedged, proc' # "dead", alive'
                 PROVE  Wedged'
        OBVIOUS
    <2> DEFINE s == rsock[cmtx]
    <2>0. /\ cmtx \in WorkerIds /\ cmtx # 0 /\ s \in Clients
          /\ s \in Range(queue) /\ cpc[s] = "waiting" /\ mpc = "join"
          /\ wpc[cmtx] \in {"wait", "ended"} /\ reply[s] = NULL
          /\ n \in Threads /\ queue \in Seq(Clients)
          /\ cpc \in [Clients -> {"off", "ready", "waiting", "spin", "broken", "gone"}]
          /\ proc \in {"running", "dead"}
          /\ rsock \in [WorkerIds -> Clients \cup {0}]
        <3>1. /\ cmtx \in WorkerIds /\ cmtx # 0
              /\ s \in Range(queue) /\ cpc[s] = "waiting" /\ mpc = "join"
              /\ rsock \in [WorkerIds -> Clients \cup {0}]
              /\ proc \in {"running", "dead"}
            BY WorkersAre DEF Wedged, BInv, BenchTypeOK
        <3>2. /\ queue \in Seq(Clients)
              /\ cpc \in [Clients -> {"off", "ready", "waiting", "spin", "broken", "gone"}]
              /\ n \in 0..Cardinality(Clients)
            BY DEF BInv, RInv, TypeOK
        <3>3. s \in Clients
            BY <3>1, <3>2 DEF Range
        <3>4. wpc[cmtx] \in {"wait", "ended"} /\ reply[s] = NULL /\ n # 0
            BY <3>1, <3>3 DEF BInv, MutexInv, RunningInv
        <3>5. n \in Threads
            BY <3>2, <3>4, ThreadsAre DEF Threads
        <3>. QED
            BY <3>1, <3>2, <3>3, <3>4, <3>5
    <2>1. ASSUME NEW w \in WorkerIds, Worker(w) \/ ConnectTimeout(w)
          PROVE  Wedged'
        <3>1. ~Dies
            BY <2>0 DEF Dies
        <3>2. w = cmtx => wpc[w] \in {"wait", "ended"}
            BY <2>0
        <3>3. UNCHANGED cmtx /\ rsock'[cmtx] = rsock[cmtx]
            BY <2>0, <2>1, <3>1, <3>2
               DEF Worker, ConnectTimeout, Address, Port, Token, Socket, ConnectSocket,
                   ConnectCompletes, Keep, LockClient, CallServer, AwaitReply, Count,
                   Cancelled, At, BInv, MutexInv
        <3>4. \/ UNCHANGED vars
              \/ \E c \in Clients : Connect(c)
              \/ \E c \in Clients, m \in Requests : Calls(c, m)
              \/ \E c \in Clients : Returns(c)
            BY <2>1, <3>1, SocketsAre
               DEF Worker, ConnectTimeout, Address, Port, Token, Socket, ConnectSocket,
                   ConnectCompletes, Keep, LockClient, CallServer, AwaitReply, Count,
                   Cancelled, At, Calls
        <3>5. s \in Range(queue') /\ cpc'[s] = "waiting" /\ mpc' = "join"
            <4>1. CASE UNCHANGED vars
                BY <2>0, <4>1 DEF vars, client, net, main
            <4>2. ASSUME NEW c \in Clients, Connect(c)
                  PROVE  s \in Range(queue') /\ cpc'[s] = "waiting" /\ mpc' = "join"
                BY <2>0, <4>2 DEF Connect, main, Range
            <4>3. ASSUME NEW c \in Clients, NEW m \in Requests, Calls(c, m)
                  PROVE  s \in Range(queue') /\ cpc'[s] = "waiting" /\ mpc' = "join"
                <5>1. UNCHANGED <<queue, mpc>>
                    BY <4>3 DEF Calls, Call, CallDead, CallFails, CallClosed, Asks, net, main
                <5>2. cpc[c] \in {"ready", "broken"} /\ \A d \in Clients : d # c => cpc'[d] = cpc[d]
                    BY <2>0, <4>3 DEF Calls, Call, CallDead, CallFails, CallClosed, Asks
                <5>. QED
                    BY <2>0, <5>1, <5>2
            <4>4. ASSUME NEW c \in Clients, Returns(c)
                  PROVE  s \in Range(queue') /\ cpc'[s] = "waiting" /\ mpc' = "join"
                <5>1. UNCHANGED <<queue, mpc, alive>>
                    BY <4>4 DEF Returns, Return, ReturnReset, ReturnNever, net, main, table
                <5>2. c # s /\ cpc'[s] = cpc[s]
                    BY <2>0, <4>4, <5>1 DEF Returns, Return, ReturnReset, ReturnNever
                <5>. QED
                    BY <2>0, <5>1, <5>2
            <4>. QED
                BY <3>4, <4>1, <4>2, <4>3, <4>4
        <3>. QED
            BY <2>0, <3>3, <3>5 DEF Wedged
    <2>2. CASE Wakes \/ BenchMain \/ EarlierPut \/ (ServerKilled /\ UNCHANGED bench)
        <3>1. UNCHANGED <<cmtx, rsock, queue, cpc, mpc>>
            BY <2>2 DEF Wakes, BenchMain, CancelNext, PrintNumber, MainReturns, Dies, EarlierPut,
                        ServerKilled, bench, vars, client, net, main
        <3>. QED
            BY <3>1 DEF Wedged, Range
    <2>3. ASSUME ProcessCloses
          PROVE  FALSE
        BY <2>3 DEF ProcessCloses, bench, control
    <2>4. CASE Accepting
        <3>1. hpc[n] # "done"
            <4>1. proc = "running"
                BY <2>0, <2>4 DEF Accepting, bench, control
            <4>. QED
                BY <2>0, <4>1 DEF BInv, RunningInv
        <3>2. AcceptAbort
            BY <2>0, <2>4, <3>1 DEF Accepting, Main, Accept, Join
        <3>. QED
            BY <2>0, <3>2 DEF AcceptAbort
    <2>5. ASSUME NEW t \in Threads, Handling(t)
          PROVE  Wedged'
        <3>1. UNCHANGED <<cmtx, rsock, queue, cpc, mpc>>
            BY <2>5 DEF Handling, Handler, HandlerStart, Receive, ReceiveNever, ReceiveReset,
                        Lock, Invoke, Send, bench, client, net, main
        <3>. QED
            BY <3>1 DEF Wedged, Range
    <2>. QED
        BY <2>1, <2>2, <2>3, <2>4, <2>5 DEF BenchNext
<1>. QED
    BY <1>1, BenchInvariance, PTL DEF BenchSpec, WedgedForGood

-----------------------------------------------------------------------------
(* SharedNeverServed: the order of the connections. *)

Phases == {"address", "port", "token", "socket", "connect", "connecting", "abandoned",
           "keep", "lock", "call", "wait", "count", "ended"}

(* The types that the proofs of this section keep using.                     *)
LEMMA Shapes ==
    ASSUME BInv
    PROVE  /\ wpc \in [WorkerIds -> Phases]
           /\ sockfd \in WorkerIds \cup {0}
           /\ rsock \in [WorkerIds -> WorkerIds \cup {0}]
           /\ cpc \in [WorkerIds -> {"off", "ready", "waiting", "spin", "broken", "gone"}]
           /\ queue \in Seq(WorkerIds)
           /\ Len(queue) \in Nat
           /\ n \in Nat
           /\ proc \in {"running", "dead"}
           /\ Clients = WorkerIds
           /\ 0 \notin WorkerIds
<1>1. /\ wpc \in [WorkerIds -> Phases]
      /\ sockfd \in WorkerIds \cup {0}
      /\ rsock \in [WorkerIds -> WorkerIds \cup {0}]
      /\ proc \in {"running", "dead"}
    BY WorkersAre DEF BInv, BenchTypeOK, Phases
<1>2. /\ cpc \in [WorkerIds -> {"off", "ready", "waiting", "spin", "broken", "gone"}]
      /\ queue \in Seq(WorkerIds)
      /\ n \in 0..Cardinality(Clients)
    BY WorkersAre DEF BInv, RInv, TypeOK
<1>. QED
    BY <1>1, <1>2, WorkersAre, ThreadsAre

(* While both processes run the server accepts one connection at most and    *)
(* waits for the end of its handler; all others are in the queue.            *)
LEMMA OneAccepted ==
    ASSUME BInv, proc = "running", alive
    PROVE  /\ n <= 1
           /\ n = 1 => mpc = "join"
           /\ \A c \in Clients :
                cpc[c] # "off" => c \in Range(queue) \/ (n = 1 /\ Conn(n) = c)
<1>1. n \in 0..Cardinality(Clients) /\ Cardinality(Clients) \in Nat
      /\ mpc \in {"accept", "join"}
    BY ThreadsAre DEF BInv, RInv, TypeOK
<1>2. \A t \in Threads : hpc[t] # "done"
    BY DEF BInv, RunningInv
<1>3. n <= 1
    <2> SUFFICES ASSUME n > 1 PROVE FALSE
        BY <1>1
    <2>1. 1 \in Threads /\ 1 < n
        BY <1>1 DEF Threads
    <2>. QED
        BY <1>2, <2>1 DEF BInv, RInv, ThreadInv
<1>4. n = 1 => mpc = "join"
    BY <1>1, <1>2 DEF BInv, RInv, ThreadInv, Threads
<1>5. ASSUME NEW c \in Clients, cpc[c] # "off"
      PROVE  c \in Range(queue) \/ (n = 1 /\ Conn(n) = c)
    <2>1. cpc[c] \in {"ready", "waiting", "spin", "broken"}
        BY <1>5 DEF BInv, RunningInv, RInv, TypeOK
    <2>2. c \in Range(queue) \/ \E t \in 1..n : Conn(t) = c
        BY <2>1 DEF BInv, RInv, SocketInv
    <2>3. \A t \in 1..n : t = n /\ n = 1
        BY <1>1, <1>3
    <2>. QED
        BY <2>2, <2>3
<1>. QED
    BY <1>3, <1>4, <1>5

(* As long as the workers use what they used and no socket is connected,     *)
(* nothing is found that was lost.                                           *)
LEMMA LostFrame ==
    ASSUME BInv, LostInv, sockfd' = sockfd, Fresh' = Fresh,
           \A w \in WorkerIds, s \in Clients : Uses(w, s)' <=> Uses(w, s),
           \A s \in Clients : cpc'[s] = "off" <=> cpc[s] = "off",
           \A a, s \in Clients : Lost(a) /\ Ahead(a, s) => Ahead(a, s)'
    PROVE  LostInv'
<1>1. \A a \in Clients : Lost(a)' <=> Lost(a)
    BY DEF Lost, WorkerIds
<1>2. ASSUME NEW w \in WorkerIds, NEW s \in Clients, Uses(w, s)'
      PROVE  /\ cpc'[s] = "off" => \E a \in Clients : Lost(a)'
             /\ \A v \in WorkerIds \ {w} :
                  Uses(v, s)' /\ cpc'[s] # "off" =>
                      \E a \in Clients : Lost(a)' /\ Ahead(a, s)'
    <2>1. Uses(w, s)
        BY <1>2
    <2>2. cpc[s] = "off" => \E a \in Clients : Lost(a)
        BY <2>1 DEF LostInv
    <2>3. ASSUME NEW v \in WorkerIds \ {w}, Uses(v, s)', cpc'[s] # "off"
          PROVE  \E a \in Clients : Lost(a)' /\ Ahead(a, s)'
        <3>1. Uses(v, s) /\ cpc[s] # "off"
            BY <2>3
        <3>2. PICK a \in Clients : Lost(a) /\ Ahead(a, s)
            BY <2>1, <3>1 DEF LostInv
        <3>. QED
            BY <1>1, <3>2
    <2>. QED
        BY <1>1, <2>2, <2>3
<1>. QED
    BY <1>2 DEF LostInv, WorkerIds

(* How far a worker may go without another socket: to make one, or, once it  *)
(* has one, to call on it again and again.                                   *)
SameUse(w) ==
    \/ wpc'[w] = wpc[w]
    \/ /\ wpc[w] \in {"address", "port", "token", "socket"}
       /\ wpc'[w] \in {"address", "port", "token", "socket"}
    \/ wpc[w] = "connect" /\ wpc'[w] = "ended"
    \/ wpc[w] = "connecting" /\ wpc'[w] = "abandoned"
    \/ /\ wpc[w] \in {"lock", "call", "wait", "count"}
       /\ wpc'[w] \in {"lock", "call", "wait", "count", "ended"}

(* A step that moves no worker, connects and loses no socket and leaves the  *)
(* order of the connections alone keeps SharedInv.                           *)
LEMMA SharedFrame ==
    ASSUME BInv, SharedInv, UNCHANGED <<sockfd, rsock>>,
           \A w \in WorkerIds : SameUse(w),
           \A s \in Clients : cpc'[s] = "off" <=> cpc[s] = "off",
           alive' => alive /\ n' + Len(queue') = n + Len(queue),
           \A a, s \in Clients : Lost(a) /\ Ahead(a, s) => Ahead(a, s)'
    PROVE  FreshInv' /\ WaitInv' /\ LostInv'
<1>. USE Shapes
<1>1. Fresh' = Fresh
    BY DEF Fresh, SameUse, WorkerIds
<1>2. \A w \in WorkerIds, s \in Clients : Uses(w, s)' <=> Uses(w, s)
    <2> SUFFICES ASSUME NEW w \in WorkerIds, NEW s \in Clients
                 PROVE  Uses(w, s)' <=> Uses(w, s)
        OBVIOUS
    <2>1. wpc[w] = "connect" => rsock[w] # s
        BY DEF SharedInv, FreshInv
    <2>. QED
        BY <2>1 DEF Uses, SameUse
<1>3. LostInv'
    BY <1>1, <1>2, LostFrame DEF SharedInv
<1>4. FreshInv'
    <2>1. \A w \in WorkerIds : wpc'[w] = "connect" => wpc[w] = "connect"
        BY DEF SameUse
    <2>. QED
        BY <1>1, <2>1 DEF SharedInv, FreshInv, Fresh, WorkerIds
<1>5. WaitInv'
    <2>1. \A w \in WorkerIds :
            wpc'[w] \in {"connecting", "abandoned"} =>
                wpc[w] \in {"connecting", "abandoned"} /\ rsock[w] \in Clients /\ sockfd \in Clients
        BY DEF SameUse, BInv, DescriptorInv
    <2>. QED
        BY <2>1 DEF SharedInv, WaitInv, WorkerIds
<1>. QED
    BY <1>3, <1>4, <1>5

(* What is asked, answered, reset and done with stays so.                    *)
LEMMA AnsweredFrame ==
    ASSUME BInv, AnsweredInv,
           \A w \in WorkerIds, s \in Clients :
             Uses(w, s) /\ wpc[w] # "keep" => Uses(w, s)' /\ wpc'[w] # "keep",
           asked' = asked,
           \A s \in Clients :
             reply'[s] # NULL \/ closed'[s] = "rst" => asked[s] # NULL,
           \A t \in Threads : hpc'[t] \in {"send", "done"} => asked[hsock'[t]] # NULL
    PROVE  AnsweredInv'
BY DEF AnsweredInv, Threads, WorkerIds

(* A socket is used by the worker that calls on it, whatever comes.          *)
LEMMA UseStays ==
    ASSUME BInv, UNCHANGED rsock, NEW w \in WorkerIds, SameUse(w), NEW s \in Clients,
           Uses(w, s), wpc[w] # "keep"
    PROVE  Uses(w, s)' /\ wpc'[w] # "keep"
BY Shapes DEF Uses, SameUse

(* Steps that disturb neither sockets nor connections.                       *)
LEMMA QuietShared ==
    ASSUME BInv, SharedInv, UNCHANGED <<sockfd, rsock>>, \A w \in WorkerIds : SameUse(w),
           UNCHANGED <<cpc, asked, queue, reply, closed, hpc, hsock, mpc, n, tp>>,
           alive' => alive
    PROVE  SharedInv'
<1>1. \A a, s \in Clients : Lost(a) /\ Ahead(a, s) => Ahead(a, s)'
    BY DEF Ahead, Conn, Range
<1>2. FreshInv' /\ WaitInv' /\ LostInv'
    BY <1>1, SharedFrame
<1>3. AnsweredInv'
    <2>1. \A s \in Clients : reply'[s] # NULL \/ closed'[s] = "rst" => asked[s] # NULL
        BY DEF SharedInv, AnsweredInv
    <2>2. \A t \in Threads : hpc'[t] \in {"send", "done"} => asked[hsock'[t]] # NULL
        BY DEF SharedInv, AnsweredInv
    <2>. QED
        BY <2>1, <2>2, UseStays, AnsweredFrame DEF SharedInv
<1>. QED
    BY <1>2, <1>3 DEF SharedInv

(* A put is done by a living server.                                         *)
LEMMA TabReadyAlive ==
    ASSUME NEW k, NEW v, Tab!Put(k, v)
    PROVE  alive
BY DEF Tab!Put, Tab!PutNew, Tab!PutReplace, Tab!WildPut, Tab!Ready

(* The steps of main, the earlier put, and those by which a process dies.    *)
LEMMA QuietWorkerShared ==
    ASSUME BInv, SharedInv,
           \/ UNCHANGED bvars
           \/ Dies \/ EarlierPut \/ Wakes \/ BenchMain
           \/ \E w \in WorkerIds :
                Address(w) \/ Port(w) \/ Token(w) \/ LockClient(w) \/ Count(w) \/ Cancelled(w)
    PROVE  SharedInv'
<1>1. UNCHANGED <<sockfd, rsock>>
    BY DEF Dies, EarlierPut, Wakes, BenchMain, CancelNext, PrintNumber, MainReturns, Address,
           Port, Token, LockClient, Count, Cancelled, bench, bvars
<1>2. UNCHANGED <<cpc, asked, queue, reply, closed, hpc, hsock, mpc, n, tp>>
    BY DEF Dies, EarlierPut, Wakes, BenchMain, CancelNext, PrintNumber, MainReturns, Address,
           Port, Token, LockClient, Count, Cancelled, bvars, vars, client, net, main, handlers
<1>3. \A w \in WorkerIds : SameUse(w)
    <2>1. CASE wpc' = wpc
        BY <2>1 DEF SameUse
    <2>2. CASE wpc' # wpc
        <3>1. PICK w \in WorkerIds :
                Address(w) \/ Port(w) \/ Token(w) \/ LockClient(w) \/ Count(w) \/ Cancelled(w)
            BY <2>2 DEF Dies, EarlierPut, Wakes, BenchMain, CancelNext, PrintNumber,
                        MainReturns, bench, bvars
        <3>2. PICK p \in Phases :
                /\ wpc' = [wpc EXCEPT ![w] = p]
                /\ \/ /\ wpc[w] \in {"address", "port", "token", "socket"}
                      /\ p \in {"address", "port", "token", "socket"}
                   \/ wpc[w] = "connect" /\ p = "ended"
                   \/ wpc[w] = "connecting" /\ p = "abandoned"
                   \/ /\ wpc[w] \in {"lock", "call", "wait", "count"}
                      /\ p \in {"lock", "call", "wait", "count", "ended"}
            BY <2>2, <3>1 DEF Address, Port, Token, LockClient, Count, Cancelled, At, Goes,
                              Phases, Dies
        <3>. QED
            BY <3>2, Shapes DEF SameUse
    <2>. QED
        BY <2>1, <2>2
<1>4. alive' => alive
    BY TabReadyAlive DEF Dies, EarlierPut, Wakes, BenchMain, CancelNext, PrintNumber,
       MainReturns, Address, Port, Token, LockClient, Count, Cancelled, bvars, vars, table
<1>. QED
    BY <1>1, <1>2, <1>3, <1>4, QuietShared

(* The request of a worker: from now on its socket may be answered.          *)
LEMMA CallServerShared ==
    ASSUME BInv, SharedInv, NEW w \in WorkerIds, CallServer(w)
    PROVE  SharedInv'
<1>. USE Shapes
<1>1. CASE Dies
    BY <1>1, QuietWorkerShared
<1>2. CASE ~Dies
    <2> DEFINE s == rsock[w]
    <2>1. /\ wpc[w] = "call" /\ s \in Clients
          /\ UNCHANGED <<sockfd, rsock>>
          /\ wpc' = [wpc EXCEPT ![w] = "wait"] \/ wpc' = [wpc EXCEPT ![w] = "count"]
        BY <1>2, SocketsAre DEF CallServer, At, Goes
    <2>2. PICK m \in Requests :
            Call(s, m) \/ CallDead(s, m) \/ CallFails(s, m) \/ CallClosed(s, m)
        BY <1>2 DEF CallServer
    <2>3. /\ UNCHANGED <<queue, reply, closed, hpc, hsock, mpc, n, tp, alive>>
          /\ asked' = [asked EXCEPT ![s] = m]
        BY <2>2 DEF Call, CallDead, CallFails, CallClosed, Asks, net, main, handlers, table
    <2>4. \A c \in Clients : cpc'[c] = "off" <=> cpc[c] = "off"
        BY <2>1, <2>2 DEF Call, CallDead, CallFails, CallClosed, Asks
    <2>5. \A v \in WorkerIds : SameUse(v)
        BY <2>1 DEF SameUse
    <2>6. \A a, c \in Clients : Lost(a) /\ Ahead(a, c) => Ahead(a, c)'
        BY <2>3 DEF Ahead, Conn, Range
    <2>7. FreshInv' /\ WaitInv' /\ LostInv'
        BY <2>1, <2>3, <2>4, <2>5, <2>6, SharedFrame
    <2>8. AnsweredInv'
        <3>1. asked'[s] = m /\ m # NULL /\ \A c \in Clients : c # s => asked'[c] = asked[c]
            BY <2>1, <2>3, NullAssumption DEF BInv, RInv, TypeOK
        <3>2. Uses(w, s)' /\ wpc'[w] # "keep"
            BY <2>1 DEF Uses
        <3>3. \A c \in Clients :
                asked[c] # NULL => \E v \in WorkerIds : Uses(v, c)' /\ wpc'[v] # "keep"
            BY <2>1, <2>5, UseStays DEF SharedInv, AnsweredInv
        <3>4. \A c \in Clients : asked[c] # NULL => asked'[c] # NULL
            BY <3>1
        <3>5. \A t \in Threads : hpc[t] \in {"send", "done"} => hsock[t] \in Clients
            BY DEF BInv, RInv, ThreadInv, TypeOK
        <3>. QED
            BY <2>1, <2>3, <3>1, <3>2, <3>3, <3>4, <3>5
               DEF SharedInv, AnsweredInv, Threads, WorkerIds
    <2>. QED
        BY <2>7, <2>8 DEF SharedInv
<1>. QED
    BY <1>1, <1>2

(* A reply, or the end of the connection, is read by the worker that waits   *)
(* for it.                                                                   *)
LEMMA AwaitReplyShared ==
    ASSUME BInv, SharedInv, NEW w \in WorkerIds, AwaitReply(w)
    PROVE  SharedInv'
<1>. USE Shapes
<1> DEFINE s == rsock[w]
<1>1. wpc[w] = "wait" /\ s \in Clients /\ Returns(s)
    BY SocketsAre DEF AwaitReply, At
<1>2. /\ UNCHANGED <<sockfd, rsock>>
      /\ UNCHANGED <<asked, queue, closed, hpc, hsock, mpc, n, tp, alive>>
    BY <1>1 DEF AwaitReply, Returns, Return, ReturnReset, ReturnNever, net, main, handlers,
                table
<1>3. \A c \in Clients : cpc'[c] = "off" <=> cpc[c] = "off"
    BY <1>1 DEF Returns, Return, ReturnReset, ReturnNever
<1>4. \A c \in Clients : reply'[c] # NULL => reply[c] # NULL
    BY <1>1 DEF Returns, Return, ReturnReset, ReturnNever, net, BInv, RInv, TypeOK
<1>5. \A v \in WorkerIds : SameUse(v)
    BY <1>1 DEF AwaitReply, Goes, SameUse
<1>6. \A a, c \in Clients : Lost(a) /\ Ahead(a, c) => Ahead(a, c)'
    BY <1>2 DEF Ahead, Conn, Range
<1>7. FreshInv' /\ WaitInv' /\ LostInv'
    BY <1>2, <1>3, <1>5, <1>6, SharedFrame
<1>8. AnsweredInv'
    <2>1. \A c \in Clients : reply'[c] # NULL \/ closed'[c] = "rst" => asked[c] # NULL
        BY <1>2, <1>4 DEF SharedInv, AnsweredInv
    <2>2. \A t \in Threads : hpc'[t] \in {"send", "done"} => asked[hsock'[t]] # NULL
        BY <1>2 DEF SharedInv, AnsweredInv
    <2>. QED
        BY <1>2, <1>5, <2>1, <2>2, UseStays, AnsweredFrame DEF SharedInv
<1>. QED
    BY <1>7, <1>8 DEF SharedInv

(* The end of the process resets only a connection with an unread reply.     *)
LEMMA ProcessClosesShared ==
    ASSUME BInv, SharedInv, ProcessCloses
    PROVE  SharedInv'
<1>. USE Shapes
<1>1. PICK s \in Clients : Quit(s) \/ Kill(s)
    BY DEF ProcessCloses
<1>2. /\ UNCHANGED <<asked, queue, hpc, hsock, mpc, n, tp, alive>>
      /\ UNCHANGED <<wpc, sockfd, rsock>>
    BY <1>1 DEF ProcessCloses, Quit, Kill, main, handlers, bench, table
<1>3. \A c \in Clients : cpc'[c] = "off" <=> cpc[c] = "off"
    BY <1>1 DEF Quit, Kill
<1>4. \A c \in Clients :
        reply'[c] # NULL \/ closed'[c] = "rst" => reply[c] # NULL \/ closed[c] = "rst"
    BY <1>1 DEF Quit, Kill, BInv, RInv, TypeOK
<1>5. \A v \in WorkerIds : SameUse(v)
    BY <1>2 DEF SameUse
<1>6. \A a, c \in Clients : Lost(a) /\ Ahead(a, c) => Ahead(a, c)'
    BY <1>2 DEF Ahead, Conn, Range
<1>7. FreshInv' /\ WaitInv' /\ LostInv'
    BY <1>2, <1>3, <1>5, <1>6, SharedFrame
<1>8. AnsweredInv'
    <2>1. \A c \in Clients : reply'[c] # NULL \/ closed'[c] = "rst" => asked[c] # NULL
        BY <1>4 DEF SharedInv, AnsweredInv
    <2>2. \A t \in Threads : hpc'[t] \in {"send", "done"} => asked[hsock'[t]] # NULL
        BY <1>2 DEF SharedInv, AnsweredInv
    <2>. QED
        BY <1>2, <1>5, <2>1, <2>2, UseStays, AnsweredFrame DEF SharedInv
<1>. QED
    BY <1>7, <1>8 DEF SharedInv

(* The server moves the queue only to serve its head, and goes on to the     *)
(* next only after a reset, which no lost connection can have.               *)
LEMMA ServerAhead ==
    ASSUME BInv, SharedInv, UNCHANGED bench,
           Main \/ ServerKilled \/ \E t \in Threads : Handler(t),
           NEW a \in Clients, NEW s \in Clients, Lost(a), Ahead(a, s)
    PROVE  Ahead(a, s)'
<1>. USE Shapes
<1>0. /\ hpc \in [Threads -> {"none", "start", "receive", "lock", "invoke", "send", "spin", "done"}]
      /\ hsock \in [Threads -> Clients \cup {NULL}]
      /\ n \in 0..Cardinality(Clients) /\ Cardinality(Clients) \in Nat
      /\ mpc = "join" => n \in Threads
    BY ThreadsAre DEF BInv, RInv, TypeOK, RunningInv, Threads
<1>1. CASE Accept
    <2>1. /\ alive
          /\ mpc = "accept" /\ queue # <<>> /\ queue' = Tail(queue) /\ tp' = Head(queue)
          /\ n' = n + 1 /\ mpc' = "join"
          /\ hpc' = [hpc EXCEPT ![n + 1] = "start"]
        BY <1>1 DEF Accept
    <2>2. PICK p, q \in DOMAIN queue : p < q /\ queue[p] = a /\ queue[q] = s
        BY <2>1 DEF Ahead
    <2>3. /\ DOMAIN queue = 1..Len(queue) /\ DOMAIN Tail(queue) = 1..(Len(queue) - 1)
          /\ \A r \in DOMAIN Tail(queue) : Tail(queue)[r] = queue[r + 1]
          /\ Head(queue) = queue[1]
        BY <2>1
    <2>4. q - 1 \in DOMAIN queue' /\ queue'[q - 1] = s
        BY <2>1, <2>2, <2>3
    <2>5. s \in Range(queue')
        BY <2>4 DEF Range
    <2>6. CASE p = 1
        <3>1. n + 1 \in Threads
            <4>1. n + Len(queue) <= Cardinality(Clients)
                BY RoomForThread DEF BInv
            <4>2. Len(queue) > 0
                BY <2>1
            <4>. QED
                BY <1>0, <4>1, <4>2 DEF Threads
        <3>2. hpc'[n'] = "start" /\ tp' = a
            BY <1>0, <2>1, <2>2, <2>3, <2>6, <3>1
        <3>. QED
            BY <2>1, <2>5, <3>2 DEF Ahead, Conn
    <2>7. CASE p # 1
        <3>1. p - 1 \in DOMAIN queue' /\ queue'[p - 1] = a /\ p - 1 < q - 1
            BY <2>1, <2>2, <2>3, <2>7
        <3>. QED
            BY <2>4, <2>5, <3>1 DEF Ahead
    <2>. QED
        BY <2>6, <2>7
<1>2. CASE ServerKilled
    BY <1>2 DEF ServerKilled, Tab!Crash, net, Ahead, Range
<1>5. CASE AcceptAbort
    <2>1. mpc = "accept" /\ alive /\ queue # <<>> /\ queue' = Tail(queue) /\ ~alive'
        BY <1>5 DEF AcceptAbort, Tab!Crash
    <2>2. PICK p, q \in DOMAIN queue : p < q /\ queue[p] = a /\ queue[q] = s
        BY <2>1 DEF Ahead
    <2>3. /\ DOMAIN queue = 1..Len(queue) /\ DOMAIN Tail(queue) = 1..(Len(queue) - 1)
          /\ \A r \in DOMAIN Tail(queue) : Tail(queue)[r] = queue[r + 1]
        BY <2>1
    <2>4. q - 1 \in DOMAIN queue' /\ queue'[q - 1] = s
        BY <2>1, <2>2, <2>3
    <2>. QED
        BY <2>1, <2>4 DEF Ahead, Range
<1>3. CASE Join
    <2>1. /\ alive /\ mpc = "join" /\ n \in Threads /\ hpc[n] = "done"
          /\ UNCHANGED <<queue, n, tp, hpc, hsock>>
        BY <1>0, <1>3 DEF Join, net, handlers
    <2>2. Conn(n) # a
        <3>1. asked[hsock[n]] # NULL /\ hsock[n] \in Clients
            BY <1>0, <2>1 DEF SharedInv, AnsweredInv, BInv, RInv, ThreadInv
        <3>2. \E w \in WorkerIds : Uses(w, hsock[n])
            BY <3>1 DEF SharedInv, AnsweredInv
        <3>. QED
            BY <2>1, <3>2 DEF Conn, Lost
    <2>. QED
        BY <2>1, <2>2 DEF Ahead, Range
<1>4. ASSUME NEW t \in Threads, Handler(t)
      PROVE  Ahead(a, s)'
    <2>1. UNCHANGED <<queue, mpc, n, tp>>
        BY <1>4 DEF Handler, HandlerStart, Receive, ReceiveNever, ReceiveReset, Lock, Invoke,
                    Send, net, main
    <2>2. \A u \in Threads : Conn(u)' = Conn(u)
        BY <1>0, <1>4, <2>1
           DEF Handler, HandlerStart, Receive, ReceiveNever, ReceiveReset, Lock, Invoke, Send,
               Conn
    <2>3. mpc = "join" /\ Conn(n) = a => Conn(n)' = a
        <3>1. mpc = "join" => \A u \in {n} : Conn(u)' = Conn(u)
            BY <1>0, <2>2
        <3>. QED
            BY <2>1, <3>1 DEF Conn
    <2>4. alive
        BY <1>4, InvokeAlive
           DEF Handler, HandlerStart, Receive, ReceiveNever, ReceiveReset, Lock, Send, BInv
    <2>. QED
        BY <2>1, <2>3, <2>4 DEF Ahead, Range
<1>. QED
    BY <1>1, <1>2, <1>3, <1>4, <1>5 DEF Main

(* The steps of the server: who is accepted or done leaves the others in     *)
(* their order.                                                              *)
LEMMA ServerShared ==
    ASSUME BInv, SharedInv, UNCHANGED bench,
           Main \/ ServerKilled \/ \E t \in Threads : Handler(t)
    PROVE  SharedInv'
<1>. USE Shapes
<1>0. /\ hpc \in [Threads -> {"none", "start", "receive", "lock", "invoke", "send", "spin", "done"}]
      /\ hsock \in [Threads -> Clients \cup {NULL}]
      /\ reply \in [Clients -> Replies \cup {NULL}]
    BY DEF BInv, RInv, TypeOK
<1>1. UNCHANGED <<cpc, asked, closed>> /\ UNCHANGED <<wpc, sockfd, rsock>>
    BY DEF Main, Accept, AcceptAbort, Join, ServerKilled, Handler, HandlerStart, Receive,
           ReceiveNever, ReceiveReset, Lock, Invoke, Send, client, net, bench
<1>2. \A w \in WorkerIds : SameUse(w)
    BY <1>1 DEF SameUse
<1>3. alive' => alive /\ n' + Len(queue') = n + Len(queue)
    <2>1. CASE Accept
        BY <2>1 DEF Accept
    <2>2. CASE AcceptAbort \/ ServerKilled
        BY <2>2 DEF AcceptAbort, ServerKilled, Tab!Crash
    <2>3. CASE Join \/ \E t \in Threads : Handler(t)
        BY <2>3, InvokeAlive
           DEF Join, Handler, HandlerStart, Receive, ReceiveNever, ReceiveReset, Lock, Invoke,
               Send, net, main, BInv
    <2>. QED
        BY <2>1, <2>2, <2>3 DEF Main
<1>4. FreshInv' /\ WaitInv' /\ LostInv'
    BY <1>1, <1>2, <1>3, ServerAhead, SharedFrame
<1>5. AnsweredInv'
    <2>1. \A c \in Clients : reply'[c] # NULL =>
            reply[c] # NULL \/ \E t \in Threads : hpc[t] = "send" /\ hsock[t] = c
        BY <1>0 DEF Main, Accept, AcceptAbort, Join, ServerKilled, Handler, HandlerStart,
                    Receive, ReceiveNever, ReceiveReset, Lock, Invoke, Send, net
    <2>2. \A c \in Clients : reply'[c] # NULL \/ closed'[c] = "rst" => asked[c] # NULL
        BY <1>1, <2>1 DEF SharedInv, AnsweredInv
    <2>3. \A t \in Threads :
            hpc'[t] \in {"send", "done"} =>
                /\ hsock'[t] = hsock[t]
                /\ \/ hpc[t] \in {"send", "done", "invoke"}
                   \/ hpc[t] = "receive" /\ closed[hsock[t]] = "rst"
        BY <1>0 DEF Main, Accept, AcceptAbort, Join, ServerKilled, Handler, HandlerStart,
                    Receive, ReceiveNever, ReceiveReset, Lock, Invoke, Send, handlers
    <2>4. \A t \in Threads : hpc[t] = "invoke" => asked[hsock[t]] # NULL
        BY DEF BInv, CallInv
    <2>5. \A t \in Threads : hpc[t] = "receive" => hsock[t] \in Clients
        BY <1>0 DEF BInv, RInv, ThreadInv
    <2>6. \A t \in Threads : hpc'[t] \in {"send", "done"} => asked[hsock'[t]] # NULL
        BY <2>3, <2>4, <2>5 DEF SharedInv, AnsweredInv
    <2>. QED
        BY <1>1, <1>2, <2>2, <2>6, UseStays, AnsweredFrame DEF SharedInv
<1>. QED
    BY <1>4, <1>5 DEF SharedInv

(* The global gets a new socket: who was about to take over the old one has  *)
(* lost a connection now, if not before.                                     *)
LEMMA SocketShared ==
    ASSUME BInv, SharedInv, NEW w \in WorkerIds, Socket(w)
    PROVE  SharedInv'
<1>. USE Shapes
<1>1. /\ UNCHANGED <<cpc, asked, queue, reply, closed, hpc, hsock, mpc, n, tp, rsock, alive>>
      /\ wpc[w] = "socket" /\ wpc' = [wpc EXCEPT ![w] = "connect"] /\ sockfd' = w
    BY DEF Socket, At, Goes, vars, client, net, main, handlers, table
<1>2. w \in Fresh /\ Fresh' = Fresh \ {w}
    BY <1>1 DEF Fresh, WorkerIds
<1>3. cpc[w] = "off" /\ rsock[w] = 0
    BY <1>2 DEF SharedInv, FreshInv
<1>4. \A v \in WorkerIds, s \in Clients :
        Uses(v, s)' <=> IF wpc[v] = "keep" THEN s = w ELSE Uses(v, s)
    BY <1>1 DEF Uses
<1>5. FreshInv'
    BY <1>1, <1>2, <1>3 DEF SharedInv, FreshInv, WorkerIds
<1>6. WaitInv'
    BY <1>1, <1>3 DEF SharedInv, WaitInv, WorkerIds
<1>7. \A a \in Clients : Lost(a) => Lost(a)'
    BY <1>1, <1>2, <1>3, <1>4 DEF Lost, WorkerIds
<1>8. ASSUME NEW u \in WorkerIds, wpc[u] = "keep"
      PROVE  \E a \in Clients : Lost(a)'
    <2> DEFINE o == sockfd
    <2>1. o \in Clients /\ Uses(u, o)
        BY <1>8, SocketsAre DEF Uses
    <2>2. CASE cpc[o] = "off"
        BY <1>7, <2>1, <2>2 DEF SharedInv, LostInv
    <2>3. CASE cpc[o] # "off" /\ \E v \in WorkerIds \ {u} : Uses(v, o)
        BY <1>7, <2>1, <2>3 DEF SharedInv, LostInv
    <2>4. CASE cpc[o] # "off" /\ \A v \in WorkerIds \ {u} : ~Uses(v, o)
        <3>1. o # w /\ o \notin Fresh'
            BY <1>2, <1>3, <2>4 DEF SharedInv, FreshInv
        <3>2. \A s \in Clients : s = o => Lost(s)'
            <4>1. \A v \in WorkerIds, s \in Clients : s = o => ~Uses(v, s)'
                BY <1>4, <1>8, <2>4, <3>1
            <4>. QED
                BY <1>1, <2>4, <3>1, <4>1 DEF Lost, WorkerIds
        <3>. QED
            BY <2>1, <3>2
    <2>. QED
        BY <2>2, <2>3, <2>4
<1>9. LostInv'
    <2>1. ASSUME NEW u \in WorkerIds, NEW s \in Clients, Uses(u, s)'
          PROVE  /\ cpc'[s] = "off" => \E a \in Clients : Lost(a)'
                 /\ \A v \in WorkerIds \ {u} :
                      Uses(v, s)' /\ cpc'[s] # "off" =>
                          \E a \in Clients : Lost(a)' /\ Ahead(a, s)'
        <3>1. CASE wpc[u] = "keep"
            BY <1>1, <1>3, <1>4, <1>8, <2>1, <3>1
        <3>2. CASE wpc[u] # "keep"
            <4>1. Uses(u, s)
                BY <1>4, <2>1, <3>2
            <4>2. cpc'[s] = "off" => \E a \in Clients : Lost(a)'
                BY <1>1, <1>7, <4>1 DEF SharedInv, LostInv
            <4>3. ASSUME NEW v \in WorkerIds \ {u}, Uses(v, s)', cpc'[s] # "off"
                  PROVE  \E a \in Clients : Lost(a)' /\ Ahead(a, s)'
                <5>1. Uses(v, s)
                    BY <1>1, <1>3, <1>4, <4>3
                <5>2. PICK a \in Clients : Lost(a) /\ Ahead(a, s)
                    BY <1>1, <4>1, <4>3, <5>1 DEF SharedInv, LostInv
                <5>3. Ahead(a, s)'
                    BY <1>1, <5>2 DEF Ahead, Conn, Range
                <5>. QED
                    BY <1>7, <5>2, <5>3
            <4>. QED
                BY <4>2, <4>3
        <3>. QED
            BY <3>1, <3>2
    <2>. QED
        BY <2>1 DEF LostInv, WorkerIds
<1>10. AnsweredInv'
    <2>1. \A v \in WorkerIds, s \in Clients :
            Uses(v, s) /\ wpc[v] # "keep" => Uses(v, s)' /\ wpc'[v] # "keep"
        BY <1>1, <1>4
    <2>2. \A s \in Clients : reply'[s] # NULL \/ closed'[s] = "rst" => asked[s] # NULL
        BY <1>1 DEF SharedInv, AnsweredInv
    <2>3. \A t \in Threads : hpc'[t] \in {"send", "done"} => asked[hsock'[t]] # NULL
        BY <1>1 DEF SharedInv, AnsweredInv
    <2>. QED
        BY <1>1, <2>1, <2>2, <2>3, AnsweredFrame DEF SharedInv
<1>. QED
    BY <1>5, <1>6, <1>9, <1>10 DEF SharedInv

(* A worker goes on with what the global holds, or waits to connect it.      *)
LEMMA TakeOverShared ==
    ASSUME BInv, SharedInv, NEW w \in WorkerIds,
           UNCHANGED <<cpc, asked, queue, reply, closed, hpc, hsock, mpc, n, tp, alive, sockfd>>,
           rsock' = [rsock EXCEPT ![w] = sockfd],
           \/ wpc[w] = "keep" /\ Goes(w, "lock")
           \/ /\ wpc[w] = "connect" /\ Goes(w, "connecting")
              /\ cpc[sockfd] = "off" /\ ~Connecting(sockfd) /\ Len(queue) >= Backlog
    PROVE  SharedInv'
<1>. USE Shapes
<1>1. PICK p \in {"lock", "connecting"} : wpc' = [wpc EXCEPT ![w] = p]
    BY DEF Goes
<1>2. sockfd \in Clients /\ sockfd \notin Fresh
    BY SocketsAre DEF SharedInv, FreshInv
<1>3. Fresh' = Fresh
    BY <1>1 DEF Fresh, WorkerIds
<1>4. wpc[w] = "keep" => p = "lock"
    BY <1>1 DEF Goes
<1>5. wpc[w] = "connect" => p = "connecting"
    BY <1>1 DEF Goes
<1>6. \A v \in WorkerIds, s \in Clients : Uses(v, s)' <=> Uses(v, s)
    BY <1>1, <1>4, <1>5 DEF Uses
<1>7. \A a, s \in Clients : Lost(a) /\ Ahead(a, s) => Ahead(a, s)'
    BY DEF Ahead, Conn, Range
<1>8. LostInv'
    BY <1>3, <1>6, <1>7, LostFrame DEF SharedInv
<1>9. FreshInv'
    <2>1. \A v \in WorkerIds : rsock'[v] = rsock[v] \/ (v = w /\ rsock'[v] = sockfd)
        OBVIOUS
    <2>2. \A v \in WorkerIds : v \in Fresh' \/ wpc'[v] = "connect" => v # w
        BY <1>1, <1>3 DEF Fresh
    <2>. QED
        BY <1>1, <1>2, <1>3, <2>1, <2>2 DEF SharedInv, FreshInv, WorkerIds
<1>10. WaitInv'
    <2>1. CASE p = "lock"
        <3>1. \A v \in WorkerIds :
                wpc'[v] \in {"connecting", "abandoned"} =>
                    v # w /\ wpc[v] = wpc'[v] /\ rsock'[v] = rsock[v]
            BY <1>1, <2>1
        <3>. QED
            BY <3>1 DEF SharedInv, WaitInv, WorkerIds
    <2>2. CASE p = "connecting"
        <3>1. /\ cpc[sockfd] = "off" /\ Len(queue) >= Backlog
              /\ \A v \in WorkerIds : wpc[v] \in {"connecting", "abandoned"} => rsock[v] # sockfd
            BY <1>4, <2>2 DEF Connecting
        <3>2. n + Len(queue) >= Backlog
            BY <3>1, RemoteAssumption
        <3>3. \A v \in WorkerIds \ {w} : wpc'[v] = wpc[v] /\ rsock'[v] = rsock[v]
            BY <1>1
        <3>4. rsock'[w] = sockfd
            OBVIOUS
        <3>. QED
            BY <3>1, <3>2, <3>3, <3>4 DEF SharedInv, WaitInv, WorkerIds
    <2>. QED
        BY <2>1, <2>2
<1>11. AnsweredInv'
    <2>1. \A v \in WorkerIds, s \in Clients :
            Uses(v, s) /\ wpc[v] # "keep" => Uses(v, s)' /\ wpc'[v] # "keep"
        BY <1>1, <1>6
    <2>2. \A s \in Clients : reply'[s] # NULL \/ closed'[s] = "rst" => asked[s] # NULL
        BY DEF SharedInv, AnsweredInv
    <2>3. \A t \in Threads : hpc'[t] \in {"send", "done"} => asked[hsock'[t]] # NULL
        BY DEF SharedInv, AnsweredInv
    <2>. QED
        BY <2>1, <2>2, <2>3, AnsweredFrame DEF SharedInv
<1>. QED
    BY <1>8, <1>9, <1>10, <1>11 DEF SharedInv

(* A connection that joins the backlog's tail adds itself to those waiting,  *)
(* and nobody else.                                                          *)
LEMMA AppendedRange ==
  ASSUME NEW S, NEW seq \in Seq(S), NEW e \in S
  PROVE  Range(Append(seq, e)) = Range(seq) \cup {e}
<1> DEFINE longer == Append(seq, e)
<1>1. /\ DOMAIN seq = 1..Len(seq) /\ Len(seq) \in Nat
      /\ DOMAIN longer = 1..(Len(seq) + 1)
      /\ longer[Len(seq) + 1] = e
      /\ \A j \in 1..Len(seq) : longer[j] = seq[j]
    OBVIOUS
<1> HIDE DEF longer
<1>2. DOMAIN longer = DOMAIN seq \cup {Len(seq) + 1}
    BY <1>1
<1>3. \A j \in DOMAIN seq : longer[j] = seq[j]
    BY <1>1
<1>4. Range(longer) = {longer[j] : j \in DOMAIN seq} \cup {longer[Len(seq) + 1]}
    BY <1>2, Zenon DEF Range
<1>5. {longer[j] : j \in DOMAIN seq} = Range(seq)
    BY <1>3, Zenon DEF Range
<1>6. longer[Len(seq) + 1] = e
    BY <1>1
<1>. QED
    BY <1>4, <1>5, <1>6, Zenon DEF longer

(* A connection is completed: it is the last in the queue, so behind every   *)
(* one that is lost. Workers that wait for room while another socket has     *)
(* come into the global and been connected do not get here (WaitInv).        *)
LEMMA ConnectedShared ==
    ASSUME BInv, SharedInv, proc = "running", NEW w \in WorkerIds, NEW b \in Clients,
           Connect(b), UNCHANGED <<sockfd, rsock>>,
           \/ wpc[w] = "connect" /\ b = sockfd /\ ~Connecting(b) /\ Goes(w, "keep")
           \/ wpc[w] = "connecting" /\ b = rsock[w] /\ Goes(w, "keep")
           \/ wpc[w] = "abandoned" /\ b = rsock[w] /\ Goes(w, "ended")
    PROVE  SharedInv'
<1>. USE Shapes
<1>1. /\ cpc[b] = "off" /\ cpc' = [cpc EXCEPT ![b] = "ready"]
      /\ Len(queue) < Backlog /\ queue' = Append(queue, b)
      /\ UNCHANGED <<asked, reply, closed, hpc, hsock, mpc, n, tp>>
      /\ alive /\ alive'
    BY DEF Connect, main, handlers, table
<1>2. PICK p \in {"keep", "ended"} :
        /\ wpc' = [wpc EXCEPT ![w] = p]
        /\ p = "ended" => wpc[w] = "abandoned" /\ b = rsock[w]
        /\ wpc[w] # "abandoned" => p = "keep"
    BY DEF Goes
<1>3. Fresh' = Fresh
    BY <1>2 DEF Fresh, WorkerIds
<1>4. b \notin Fresh
    BY DEF SharedInv, FreshInv
<1>5. cpc[sockfd] = "off"
    <2>1. CASE wpc[w] = "connect"
        BY <1>1, <2>1
    <2>2. CASE wpc[w] \in {"connecting", "abandoned"}
        <3>1. n + Len(queue) <= Backlog
            BY <1>1, OneAccepted, RemoteAssumption
        <3>2. Backlog \in Nat
            BY RemoteAssumption
        <3>3. n + Len(queue) >= Backlog /\ (cpc[sockfd] # "off" => n + Len(queue) > Backlog)
            BY <1>1, <2>2 DEF SharedInv, WaitInv
        <3>4. n \in Nat /\ Len(queue) \in Nat
            BY <1>1 DEF BInv, RInv, TypeOK
        <3>. QED
            BY <3>1, <3>2, <3>3, <3>4
    <2>. QED
        BY <2>1, <2>2
<1>6. /\ \A v \in WorkerIds, s \in Clients : v # w => (Uses(v, s)' <=> Uses(v, s))
      /\ \A s \in Clients : ~Uses(w, s)
      /\ \A s \in Clients : Uses(w, s)' <=> s = (IF p = "keep" THEN sockfd ELSE b)
    BY <1>2 DEF Uses
<1>7. \A a \in Clients : Lost(a) => Lost(a)'
    BY <1>1, <1>3, <1>5, <1>6 DEF Lost, WorkerIds
<1>8. Range(queue') = Range(queue) \cup {b}
    <2>1. queue \in Seq(Clients) /\ queue' = Append(queue, b)
        BY <1>1
    <2>2. b \in Clients
        OBVIOUS
    <2>. QED
        BY <2>1, <2>2, AppendedRange
<1>9. ASSUME NEW a \in Clients, Lost(a)
      PROVE  Ahead(a, b)'
    <2>1. cpc[a] # "off"
        BY <1>9 DEF Lost
    <2>2. CASE a \in Range(queue)
        <3>1. PICK q \in DOMAIN queue : queue[q] = a
            BY <2>2 DEF Range
        <3>2. /\ q \in DOMAIN queue' /\ queue'[q] = a /\ q < Len(queue) + 1
              /\ Len(queue) + 1 \in DOMAIN queue' /\ queue'[Len(queue) + 1] = b
            BY <1>1, <3>1
        <3>. QED
            BY <1>8, <3>2 DEF Ahead
    <2>3. CASE n = 1 /\ Conn(n) = a
        BY <1>1, <1>8, <2>3, OneAccepted DEF Ahead, Conn
    <2>. QED
        BY <1>1, <2>1, <2>2, <2>3, OneAccepted
<1>10. ASSUME NEW a \in Clients, NEW s \in Clients, Ahead(a, s)
       PROVE  Ahead(a, s)'
    <2>1. s \in Range(queue')
        BY <1>8, <1>10 DEF Ahead
    <2>2. CASE mpc = "join" /\ Conn(n) = a
        BY <1>1, <2>1, <2>2 DEF Ahead, Conn
    <2>3. CASE \E r, q \in DOMAIN queue : r < q /\ queue[r] = a /\ queue[q] = s
        <3>1. PICK r, q \in DOMAIN queue : r < q /\ queue[r] = a /\ queue[q] = s
            BY <2>3
        <3>2. /\ r \in DOMAIN queue' /\ queue'[r] = a
              /\ q \in DOMAIN queue' /\ queue'[q] = s
            BY <1>1, <3>1
        <3>. QED
            BY <2>1, <3>1, <3>2 DEF Ahead
    <2>. QED
        BY <1>1, <1>10, <2>2, <2>3 DEF Ahead
<1>11. LostInv'
    <2>1. ASSUME NEW u \in WorkerIds, NEW s \in Clients, Uses(u, s)', cpc'[s] = "off"
          PROVE  \E a \in Clients : Lost(a)'
        <3>1. s # b /\ cpc[s] = "off"
            BY <1>1, <2>1
        <3>2. CASE u # w
            <4>1. Uses(u, s)
                BY <1>6, <2>1, <3>2
            <4>. QED
                BY <1>7, <3>1, <4>1 DEF SharedInv, LostInv
        <3>3. CASE u = w
            <4>1. p = "keep" /\ s = sockfd
                BY <1>6, <2>1, <3>1, <3>3
            <4>2. CASE \E v \in WorkerIds : Uses(v, b)
                BY <1>1, <1>7, <4>2 DEF SharedInv, LostInv
            <4>3. CASE \A v \in WorkerIds : ~Uses(v, b)
                <5>1. \A v \in WorkerIds, c \in Clients : c = b => ~Uses(v, c)'
                    BY <1>6, <3>1, <4>1, <4>3
                <5>2. \A c \in Clients : c = b => Lost(c)'
                    BY <1>1, <1>3, <1>4, <3>1, <4>1, <5>1 DEF Lost, WorkerIds
                <5>. QED
                    BY <5>2
            <4>. QED
                BY <4>2, <4>3
        <3>. QED
            BY <3>2, <3>3
    <2>2. ASSUME NEW u \in WorkerIds, NEW s \in Clients, Uses(u, s)',
                 NEW v \in WorkerIds \ {u}, Uses(v, s)', cpc'[s] # "off"
          PROVE  \E a \in Clients : Lost(a)' /\ Ahead(a, s)'
        <3>1. CASE s = b
            <4>1. PICK x \in {u, v} : x # w
                OBVIOUS
            <4>2. Uses(x, b)
                BY <1>6, <2>2, <3>1, <4>1
            <4>3. PICK a \in Clients : Lost(a)
                BY <1>1, <4>2 DEF SharedInv, LostInv
            <4>4. Lost(a)' /\ Ahead(a, b)'
                BY <1>7, <1>9, <4>3
            <4>5. \A c \in Clients : c = s => Ahead(a, c)'
                BY <1>9, <3>1, <4>3
            <4>. QED
                BY <4>4, <4>5
        <3>2. CASE s # b
            <4>1. cpc[s] # "off"
                BY <1>1, <2>2, <3>2
            <4>2. u # w /\ v # w
                BY <1>5, <1>6, <2>2, <3>2, <4>1
            <4>3. Uses(u, s) /\ Uses(v, s)
                BY <1>6, <2>2, <4>2
            <4>4. PICK a \in Clients : Lost(a) /\ Ahead(a, s)
                BY <4>1, <4>3 DEF SharedInv, LostInv
            <4>. QED
                BY <1>7, <1>10, <4>4
        <3>. QED
            BY <3>1, <3>2
    <2>. QED
        BY <2>1, <2>2 DEF LostInv, WorkerIds
<1>12. FreshInv'
    <2>1. \A v \in WorkerIds : wpc'[v] = "connect" => wpc[v] = "connect"
        BY <1>2
    <2>. QED
        BY <1>1, <1>3, <1>4, <2>1 DEF SharedInv, FreshInv, WorkerIds
<1>13. WaitInv'
    <2>1. \A v \in WorkerIds :
            wpc'[v] \in {"connecting", "abandoned"} =>
                v # w /\ wpc[v] \in {"connecting", "abandoned"} /\ rsock[v] # b
                /\ rsock[v] \in Clients
        <3>1. \A v \in WorkerIds :
                wpc'[v] \in {"connecting", "abandoned"} =>
                    v # w /\ wpc[v] \in {"connecting", "abandoned"}
            BY <1>2
        <3>2. \A v \in WorkerIds :
                v # w /\ wpc[v] \in {"connecting", "abandoned"} => rsock[v] # b
            BY DEF Connecting, SharedInv, WaitInv
        <3>3. \A v \in WorkerIds : wpc[v] \in {"connecting", "abandoned"} => rsock[v] \in Clients
            BY SocketsAre
        <3>. QED
            BY <3>1, <3>2, <3>3
    <2>2. n' + Len(queue') = n + Len(queue) + 1
        BY <1>1
    <2>3. \A v \in WorkerIds :
            wpc'[v] \in {"connecting", "abandoned"} =>
                /\ cpc'[rsock'[v]] = "off"
                /\ n' + Len(queue') > Backlog
        <3>1. Backlog \in Nat
            BY RemoteAssumption
        <3>. QED
            BY <1>1, <2>1, <2>2, <3>1 DEF SharedInv, WaitInv
    <2>. QED
        BY <2>1, <2>3, RemoteAssumption, <2>2, <1>1 DEF SharedInv, WaitInv, WorkerIds
<1>14. AnsweredInv'
    <2>1. \A v \in WorkerIds, s \in Clients :
            Uses(v, s) /\ wpc[v] # "keep" => Uses(v, s)' /\ wpc'[v] # "keep"
        BY <1>2, <1>6
    <2>2. \A s \in Clients : reply'[s] # NULL \/ closed'[s] = "rst" => asked[s] # NULL
        BY <1>1 DEF SharedInv, AnsweredInv
    <2>3. \A t \in Threads : hpc'[t] \in {"send", "done"} => asked[hsock'[t]] # NULL
        BY <1>1 DEF SharedInv, AnsweredInv
    <2>. QED
        BY <1>1, <2>1, <2>2, <2>3, AnsweredFrame DEF SharedInv
<1>. QED
    BY <1>11, <1>12, <1>13, <1>14 DEF SharedInv

(* The steps of network_connect that use the global.                         *)
LEMMA ConnectStepShared ==
    ASSUME BInv, SharedInv, NEW w \in WorkerIds,
           ConnectSocket(w) \/ ConnectCompletes(w) \/ Keep(w)
    PROVE  SharedInv'
<1>1. CASE ConnectSocket(w)
    <2>1. wpc[w] = "connect" /\ proc = "running" /\ sockfd \in Clients
        BY <1>1, SocketsAre DEF ConnectSocket, At
    <2>2. CASE ~Connecting(sockfd) /\ Connect(sockfd) /\ Goes(w, "keep")
                 /\ UNCHANGED <<control, saved, sockfd, rsock, cmtx, counters>>
        BY <2>1, <2>2, ConnectedShared
    <2>3. CASE /\ cpc[sockfd] = "off" /\ ~Connecting(sockfd) /\ Len(queue) >= Backlog
               /\ rsock' = [rsock EXCEPT ![w] = sockfd]
               /\ Goes(w, "connecting")
               /\ UNCHANGED <<vars, control, saved, sockfd, cmtx, counters>>
        <3>1. UNCHANGED <<cpc, asked, queue, reply, closed, hpc, hsock, mpc, n, tp, sockfd,
                          alive>>
            BY <2>3 DEF vars, client, net, main, handlers, table
        <3>. QED
            BY <2>1, <2>3, <3>1, TakeOverShared
    <2>4. CASE Dies
        BY <2>4, QuietWorkerShared
    <2>. QED
        BY <1>1, <2>2, <2>3, <2>4 DEF ConnectSocket
<1>2. CASE ConnectCompletes(w)
    <2>1. proc = "running" /\ rsock[w] \in Clients /\ Connect(rsock[w])
          /\ UNCHANGED <<sockfd, rsock>>
        BY <1>2, SocketsAre DEF ConnectCompletes
    <2>2. CASE wpc[w] = "connecting"
        BY <1>2, <2>1, <2>2, ConnectedShared DEF ConnectCompletes
    <2>3. CASE wpc[w] = "abandoned"
        BY <1>2, <2>1, <2>3, ConnectedShared DEF ConnectCompletes
    <2>. QED
        BY <1>2, <2>2, <2>3 DEF ConnectCompletes
<1>3. CASE Keep(w)
    <2>1. UNCHANGED <<cpc, asked, queue, reply, closed, hpc, hsock, mpc, n, tp, sockfd,
                      alive>>
        BY <1>3 DEF Keep, vars, client, net, main, handlers, table
    <2>. QED
        BY <1>3, <2>1, TakeOverShared DEF Keep, At
<1>. QED
    BY <1>1, <1>2, <1>3

(* No worker has a socket at first.                                          *)
LEMMA InitShared == BenchInit => SharedInv
<1> SUFFICES ASSUME BenchInit PROVE SharedInv
    OBVIOUS
<1>. USE DEF BenchInit, Init
<1>1. FreshInv
    BY WorkersAre DEF FreshInv, Fresh
<1>2. WaitInv
    BY DEF WaitInv
<1>3. LostInv
    BY DEF LostInv, Uses
<1>4. AnsweredInv
    BY DEF AnsweredInv
<1>. QED
    BY <1>1, <1>2, <1>3, <1>4 DEF SharedInv

(* Every step keeps SharedInv.                                               *)
LEMMA NextKeepsShared == BInv /\ SharedInv /\ [BenchNext]_bvars => SharedInv'
<1> SUFFICES ASSUME BInv, SharedInv, [BenchNext]_bvars PROVE SharedInv'
    OBVIOUS
<1>1. ASSUME NEW w \in WorkerIds, Worker(w) \/ ConnectTimeout(w)
      PROVE  SharedInv'
    <2>1. CASE ConnectTimeout(w)
        BY <2>1, QuietWorkerShared DEF ConnectTimeout
    <2>. QED
        BY <1>1, <2>1, QuietWorkerShared, SocketShared, ConnectStepShared,
           CallServerShared, AwaitReplyShared DEF Worker
<1>. QED
    BY <1>1, QuietWorkerShared, ProcessClosesShared, ServerShared
       DEF BenchNext, Accepting, Handling

(* Two threads of the benchmark that come out of network_connect with one    *)
(* socket are never served: the connection that one of them has lost stays   *)
(* ahead of it.                                                              *)
THEOREM SharedNeverServedCorrect == BenchSpec => []SharedNeverServed
<1>1. BInv /\ SharedInv => SharedNeverServed
    <2> SUFFICES ASSUME BInv, SharedInv, NEW w \in WorkerIds, NEW v \in WorkerIds,
                        w # v, rsock[w] = rsock[v],
                        wpc[w] \in {"lock", "call", "wait", "count"},
                        wpc[v] \in {"lock", "call", "wait", "count"},
                        NEW t \in Threads
                 PROVE  hsock[t] # rsock[w] /\ reply[rsock[w]] = NULL
        BY DEF SharedNeverServed
    <2> DEFINE s == rsock[w]
    <2>1. s \in Clients /\ Uses(w, s) /\ Uses(v, s)
        BY SocketsAre DEF Uses
    <2>2. hsock[t] = s => t \in 1..n /\ Conn(t) = s
        BY ThreadsAre, RemoteAssumption, <2>1
           DEF BInv, RInv, TypeOK, ThreadInv, Conn, Threads
    <2>3. CASE cpc[s] = "off"
        BY <2>1, <2>2, <2>3 DEF BInv, RInv, SocketInv, PlaceInv
    <2>4. CASE cpc[s] # "off"
        <3>1. s \in Range(queue)
            BY <2>1, <2>4 DEF SharedInv, LostInv, Ahead
        <3>. QED
            BY <2>1, <2>2, <3>1 DEF BInv, RInv, SocketInv, RunningInv
    <2>. QED
        BY <2>3, <2>4
<1>2. BenchInit => SharedInv
    BY InitShared
<1>3. BenchSpec => [](BInv /\ SharedInv)
    BY <1>2, NextKeepsShared, BenchInvariance, PTL DEF BenchSpec
<1>. QED
    BY <1>1, <1>3, PTL
=============================================================================
