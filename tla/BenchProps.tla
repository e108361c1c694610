----------------------------- MODULE BenchProps -----------------------------
(* The properties of the benchmark. *)
EXTENDS BenchClient

(* The shape of the benchmark's own state. *)
BenchTypeOK ==
    /\ mode \in {"p", "g"}
    /\ proc \in {"running", "dead"}
    /\ mainpc \in {"sleep", "cancel", "return"}
    /\ cancelled \in 0..Workers
    /\ printed \in 0..MaxCalls + 1 \cup {NULL}
    /\ wpc \in [WorkerIds -> {"address", "port", "token", "socket", "connect",
                              "connecting", "abandoned", "keep", "lock", "call",
                              "wait", "count", "ended"}]
    /\ saved \in {"none", "port"}
    /\ sockfd \in Clients \cup {0}
    /\ rsock \in [WorkerIds -> Clients \cup {0}]
    /\ cmtx \in WorkerIds \cup {0}
    /\ key_number \in 1..MaxCalls + 1
    /\ ngets \in 0..MaxCalls

WordOf(m) == IF m.c_type = CT_ENTRY THEN m.entry.key ELSE m.key

(* No number is asked for on two sockets, and none before its turn: the      *)
(* mutex is held from the choice of the number to its increment, across the  *)
(* whole remote call, whatever becomes of the call, of the sockets and of    *)
(* the thread.                                                               *)
NumbersOnce ==
    \A s \in Clients :
        asked[s] # NULL =>
            /\ WordOf(asked[s]) <= key_number
            /\ \A t \in Clients \ {s} :
                 asked[t] # NULL => WordOf(asked[t]) # WordOf(asked[s])

(* "n puts" is read without the mutex, while cancelled threads still run and *)
(* a put may be under way. All the same, every key the benchmark has stored  *)
(* or ever will store is among the numbers up to the one that is printed.    *)
PrintedCovers ==
    mode = "p" /\ printed # NULL =>
        \A k \in Tab!StoredKeys : k[1] <= printed

(* The thread that holds the client's mutex waits on a connection nobody has *)
(* accepted, and the server waits for the end of a connection whose thread   *)
(* waits for the mutex, or that no thread uses.                              *)
Wedged == cmtx # 0 /\ rsock[cmtx] \in Range(queue)
            /\ cpc[rsock[cmtx]] = "waiting" /\ mpc = "join"

(* Mutex, join and queue wait on each other for good: this ends with one of  *)
(* the two processes only, also when the holder of the mutex is cancelled.   *)
WedgedForGood == [][Wedged => Wedged' \/ proc' = "dead" \/ ~alive']_bvars

(* And it is the only way to wait for ever: any other call of the benchmark  *)
(* ends while both processes live.                                           *)
CallEndsUnlessWedged ==
    \A w \in WorkerIds :
        wpc[w] = "wait" ~>
            wpc[w] # "wait" \/ Wedged \/ proc = "dead" \/ ~alive

(* Two threads may come out of network_connect with one socket, because both *)
(* read the global again after connecting. Such a socket is never served:    *)
(* the connection one of them has lost is ahead of it in the server's queue. *)
SharedNeverServed ==
    \A w, v \in WorkerIds :
        /\ w # v /\ rsock[w] = rsock[v]
        /\ wpc[w] \in {"lock", "call", "wait", "count"}
        /\ wpc[v] \in {"lock", "call", "wait", "count"}
        => \A t \in Threads : hsock[t] # rsock[w] /\ reply[rsock[w]] = NULL

-----------------------------------------------------------------------------
(* The inductive invariant. *)

(* Whoever has the client's mutex uses a number, and only its socket can     *)
(* wait for the server. A worker that is cancelled keeps the mutex.          *)
MutexInv ==
    /\ \A w \in WorkerIds : wpc[w] \in {"call", "wait", "count"} => cmtx = w
    /\ cmtx # 0 => wpc[cmtx] \in {"call", "wait", "count", "ended"}
    /\ \A s \in Clients :
         cpc[s] \in {"waiting", "spin"} =>
             cmtx # 0 /\ rsock[cmtx] = s /\ wpc[cmtx] \in {"wait", "ended"}

(* The global and the workers' copies of it hold sockets when they are read. *)
DescriptorInv ==
    \A w \in WorkerIds :
        /\ wpc[w] \notin {"address", "port", "token", "socket"} => sockfd # 0
        /\ wpc[w] \in {"connecting", "abandoned", "lock", "call", "wait", "count"} =>
             rsock[w] # 0

IsNumbered(m) ==
    \E k \in Words : m = KeyMsg(OP_GET, k) \/ \E v \in Vals : m = PutMsg(k, v)

(* The current number has been asked for only if the holder of the mutex has *)
(* made its call, and then on its socket.                                    *)
NumberInv ==
    /\ NumbersOnce
    /\ \A s \in Clients :
         asked[s] # NULL =>
             /\ IsNumbered(asked[s])
             /\ WordOf(asked[s]) = key_number =>
                  cmtx # 0 /\ rsock[cmtx] = s /\ wpc[cmtx] \in {"wait", "count", "ended"}
    /\ \A w \in WorkerIds : wpc[w] \in {"wait", "count"} => key_number <= MaxCalls
    /\ ngets < key_number

(* While the process runs none of its sockets is closed, so that the server  *)
(* is done with none; and a socket in the server's queue has no reply. The   *)
(* server only waits for a handler that it has created.                      *)
RunningInv ==
    /\ proc = "running" =>
         (\A s \in Clients : cpc[s] # "gone") /\ \A t \in Threads : hpc[t] # "done"
    /\ \A s \in Clients : reply[s] # NULL => s \notin Range(queue)
    /\ mpc = "join" => n # 0

(* What is stored has been asked for, by this run or an earlier one, and the *)
(* number is printed after the last call.                                    *)
PrintInv ==
    /\ mainpc = "return" <=> printed # NULL
    /\ printed # NULL => cancelled = Workers
    /\ \A k \in Tab!StoredKeys : k[1] <= key_number
    /\ mode = "p" /\ printed # NULL =>
         /\ \A k \in Tab!StoredKeys : k[1] <= printed
         /\ \A s \in Clients : asked[s] # NULL => WordOf(asked[s]) <= printed

BInv ==
    /\ RInv
    /\ CallInv
    /\ BenchTypeOK
    /\ MutexInv
    /\ DescriptorInv
    /\ NumberInv
    /\ RunningInv
    /\ PrintInv

-----------------------------------------------------------------------------
(* What SharedNeverServed needs besides: the order of the connections. *)

(* The socket a worker calls on, or will once it has read the global again.  *)
(* A worker that has ended still counts.                                     *)
Uses(w, s) ==
    \/ wpc[w] = "keep" /\ sockfd = s
    \/ wpc[w] \in {"lock", "call", "wait", "count", "ended"} /\ rsock[w] = s

(* The workers that have made no socket yet. *)
Fresh == {w \in WorkerIds : wpc[w] \in {"address", "port", "token", "socket"}}

(* A connection that no worker uses and none ever will: the worker that made *)
(* it has found another socket in the global.                                *)
Lost(s) ==
    /\ cpc[s] # "off"
    /\ s # sockfd
    /\ s \notin Fresh
    /\ \A w \in WorkerIds : ~Uses(w, s)

(* Connection s waits in the queue, and first comes a, or nothing does any   *)
(* more: the server is dead.                                                 *)
Ahead(a, s) ==
    /\ s \in Range(queue)
    /\ \/ ~alive
       \/ mpc = "join" /\ Conn(n) = a
       \/ \E p, q \in DOMAIN queue : p < q /\ queue[p] = a /\ queue[q] = s

FreshInv ==
    /\ \A w \in Fresh :
         cpc[w] = "off" /\ w # sockfd /\ \A v \in WorkerIds : rsock[v] # w
    /\ \A w \in WorkerIds :
         w \in Fresh \/ wpc[w] = "connect" => rsock[w] = 0

(* The server accepts one connection only while both processes run. So if a  *)
(* worker waits for room, and the socket that has come into the global since *)
(* is connected, there will be no room any more.                             *)
WaitInv ==
    \A w \in WorkerIds :
        wpc[w] \in {"connecting", "abandoned"} =>
            /\ cpc[rsock[w]] = "off"
            /\ alive => n + Len(queue) >= Backlog
            /\ alive /\ cpc[sockfd] # "off" => n + Len(queue) > Backlog
            /\ \A v \in WorkerIds \ {w} :
                 wpc[v] \in {"connecting", "abandoned"} => rsock[v] # rsock[w]

(* Who uses a socket that is not connected has lost a connection; of two     *)
(* workers that use one socket, one has, and earlier than that socket's.     *)
LostInv ==
    \A w \in WorkerIds, s \in Clients :
        Uses(w, s) =>
            /\ cpc[s] = "off" => \E a \in Clients : Lost(a)
            /\ \A v \in WorkerIds \ {w} :
                 Uses(v, s) /\ cpc[s] # "off" =>
                     \E a \in Clients : Lost(a) /\ Ahead(a, s)

(* Only a connection that was called on is answered, reset or done with.     *)
AnsweredInv ==
    /\ \A s \in Clients :
         /\ asked[s] # NULL => \E w \in WorkerIds : Uses(w, s) /\ wpc[w] # "keep"
         /\ reply[s] # NULL \/ closed[s] = "rst" => asked[s] # NULL
    /\ \A t \in Threads : hpc[t] \in {"send", "done"} => asked[hsock[t]] # NULL

SharedInv ==
    /\ FreshInv
    /\ WaitInv
    /\ LostInv
    /\ AnsweredInv
=============================================================================
