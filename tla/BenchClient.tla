---------------------------- MODULE BenchClient ----------------------------
(* The benchmark of source/table-client.c, `table-client <address> p|g       *)
(* <seconds> <threads>`: worker threads that share a counter, a mutex, the   *)
(* globals of source/network_client.c and the hidden state of strtok, each   *)
(* with a connection to the server of RemoteTable, and a main thread that    *)
(* cancels them. Clients are the sockets of the process here, the number of  *)
(* a socket being that of the thread that made it.                           *)
(*                                                                           *)
(* A cancelled thread goes on to its next cancellation point (connect,       *)
(* write, read, printf); locking a mutex is none.                            *)
EXTENDS RemoteProps

CONSTANT Workers  \* nthreads

ASSUME BenchAssumption ==
    /\ Workers \in Nat \ {0}
    /\ Clients = 1..Workers
    /\ Words = 1..MaxCalls

VARIABLES
    mode,        \* argv[2]
    proc,        \* the process is "running" or "dead"
    mainpc,      \* where main stands
    cancelled,   \* the workers 1..cancelled have been cancelled
    printed,     \* the number main prints
    wpc,         \* worker -> where its program stands
    saved,       \* what strtok goes on with: "none" or the "port"
    sockfd,      \* the global of network_client.c
    rsock,       \* worker -> the socket it connects, then rtable->sockfd
    cmtx,        \* the worker that holds the client's mutex, or 0
    key_number,
    ngets

control == <<mode, proc, mainpc, cancelled, printed>>
counters == <<key_number, ngets>>
bench == <<control, wpc, saved, sockfd, rsock, cmtx, counters>>
bvars == <<vars, bench>>

WorkerIds == 1..Workers

BenchInit ==
    /\ Init
    /\ mode \in {"p", "g"}
    /\ proc = "running"
    /\ mainpc = "sleep"
    /\ cancelled = 0
    /\ printed = NULL
    /\ wpc = [w \in WorkerIds |-> "address"]
    /\ saved = "none"
    /\ sockfd = 0
    /\ rsock = [w \in WorkerIds |-> 0]
    /\ cmtx = 0
    /\ key_number = 1
    /\ ngets = 0

(* An earlier run may have stored a key. Its connections, which its death    *)
(* has reset, and their threads do not show any more.                        *)
EarlierPut ==
    /\ \A w \in WorkerIds : wpc[w] = "address"
    /\ mainpc = "sleep" /\ queue = <<>> /\ ret = Tab!NoRet
    /\ \E k \in ServerKeys, v \in Vals : k[1] = 1 /\ Tab!Put(k, v)
    /\ UNCHANGED <<client, net, main, handlers, bench>>

-----------------------------------------------------------------------------
(* exit or a fatal signal, in whatever thread, ends the process. *)
Dies ==
    /\ proc' = "dead"
    /\ UNCHANGED <<vars, mode, mainpc, cancelled, printed, wpc, saved, sockfd,
                   rsock, cmtx, counters>>

(* Worker w, in a running process, goes from one place of its program to     *)
(* another.                                                                  *)
At(w, place) == proc = "running" /\ wpc[w] = place
Goes(w, place) == wpc' = [wpc EXCEPT ![w] = place]
Uncancelled(w) == w > cancelled

(* rtable_connect: strtok remembers where the rest of the address starts. *)
Address(w) ==
    /\ At(w, "address")
    /\ saved' = "port"
    /\ Goes(w, "port")
    /\ UNCHANGED <<vars, control, sockfd, rsock, cmtx, counters>>

(* strtok(NULL) goes on where the last call of any thread left off. Without  *)
(* a rest it returns NULL, on which atoi crashes.                            *)
Port(w) ==
    /\ At(w, "port")
    /\ \/ saved = "none" /\ Dies
       \/ /\ saved = "port"
          /\ Goes(w, "token")
          /\ UNCHANGED <<vars, control, saved, sockfd, rsock, cmtx, counters>>

(* It remembers that nothing is left. *)
Token(w) ==
    /\ At(w, "token")
    /\ saved' = "none"
    /\ Goes(w, "socket")
    /\ UNCHANGED <<vars, control, sockfd, rsock, cmtx, counters>>

(* network_connect: socket returns into the global. *)
Socket(w) ==
    /\ At(w, "socket")
    /\ sockfd' = w
    /\ Goes(w, "connect")
    /\ UNCHANGED <<vars, control, saved, rsock, cmtx, counters>>

(* The socket is being connected by a thread that has to wait for it. *)
Connecting(s) ==
    \E w \in WorkerIds : wpc[w] \in {"connecting", "abandoned"} /\ rsock[w] = s

(* connect takes what the global holds now. The worker connects it, or waits *)
(* for room in the server's queue, or connect fails: the server is dead, the *)
(* socket is connected or another thread is connecting it. Then put_cicle or *)
(* get_cicle calls exit.                                                     *)
ConnectSocket(w) ==
    /\ At(w, "connect")
    /\ Uncancelled(w)
    /\ \/ /\ ~Connecting(sockfd)
          /\ Connect(sockfd)
          /\ Goes(w, "keep")
          /\ UNCHANGED <<control, saved, sockfd, rsock, cmtx, counters>>
       \/ /\ alive /\ cpc[sockfd] = "off" /\ ~Connecting(sockfd)
          /\ Len(queue) >= Backlog
          /\ rsock' = [rsock EXCEPT ![w] = sockfd]
          /\ Goes(w, "connecting")
          /\ UNCHANGED <<vars, control, saved, sockfd, cmtx, counters>>
       \/ ~alive /\ Dies
       \/ (cpc[sockfd] # "off" \/ Connecting(sockfd)) /\ Dies

(* The kernel completes the connection, also that of a cancelled thread. *)
ConnectCompletes(w) ==
    /\ proc = "running"
    /\ wpc[w] \in {"connecting", "abandoned"}
    /\ Connect(rsock[w])
    /\ Goes(w, IF wpc[w] = "connecting" THEN "keep" ELSE "ended")
    /\ UNCHANGED <<control, saved, sockfd, rsock, cmtx, counters>>

(* Or it gives up. *)
ConnectTimeout(w) ==
    /\ At(w, "connecting")
    /\ Uncancelled(w)
    /\ ~alive \/ Len(queue) >= Backlog
    /\ Dies

(* rtable->sockfd = sockfd: the global is read once more. *)
Keep(w) ==
    /\ At(w, "keep")
    /\ rsock' = [rsock EXCEPT ![w] = sockfd]
    /\ Goes(w, "lock")
    /\ UNCHANGED <<vars, control, saved, sockfd, cmtx, counters>>

-----------------------------------------------------------------------------
(* put_cicle and get_cicle. *)

(* Mutant: the mutex is not waited for. *)
LockClientNot(w) ==
    /\ At(w, "lock")
    /\ cmtx' = w
    /\ Goes(w, "call")
    /\ UNCHANGED <<vars, control, saved, sockfd, rsock, counters>>

LockClient(w) ==
    /\ At(w, "lock")
    /\ cmtx = 0
    /\ cmtx' = w
    /\ Goes(w, "call")
    /\ UNCHANGED <<vars, control, saved, sockfd, rsock, counters>>

(* The request under the current number. *)
Numbered(m) ==
    IF mode = "p"
    THEN \E v \in Vals : m = PutMsg(key_number, v)
    ELSE m = KeyMsg(OP_GET, key_number)

(* rtable_put or rtable_get writes the request. On a socket that is not      *)
(* connected, a signal ends the process; on one that is being connected the  *)
(* thread waits.                                                             *)
CallServer(w) ==
    /\ At(w, "call")
    /\ Uncancelled(w)
    /\ LET s == rsock[w]
       IN  \/ /\ \E m \in Requests :
                   Numbered(m) /\ (Call(s, m) \/ CallDead(s, m))
              /\ Goes(w, "wait")
              /\ UNCHANGED <<control, saved, sockfd, rsock, cmtx, counters>>
           \/ /\ \E m \in Requests :
                   Numbered(m) /\ (CallFails(s, m) \/ CallClosed(s, m))
              /\ Goes(w, "count")
              /\ UNCHANGED <<control, saved, sockfd, rsock, cmtx, counters>>
           \/ cpc[s] = "off" /\ ~Connecting(s) /\ Dies

(* The call returns, or read_all gets 0 again and again. *)
AwaitReply(w) ==
    /\ At(w, "wait")
    /\ Uncancelled(w)
    /\ Returns(rsock[w])
    /\ IF cpc'[rsock[w]] = "spin" THEN UNCHANGED wpc ELSE Goes(w, "count")
    /\ UNCHANGED <<control, saved, sockfd, rsock, cmtx, counters>>

(* The number is used up, whatever the call has returned; unlock. *)
Count(w) ==
    /\ At(w, "count")
    /\ key_number' = key_number + 1
    /\ ngets' = IF mode = "g" /\ outcome[rsock[w]] # NULL THEN ngets + 1 ELSE ngets
    /\ cmtx' = 0
    /\ Goes(w, "lock")
    /\ UNCHANGED <<vars, control, saved, sockfd, rsock>>

(* A cancelled worker ends where it can, and what it holds stays locked. The *)
(* printf of a failed put may be such a point.                               *)
Cancelled(w) ==
    /\ proc = "running"
    /\ ~Uncancelled(w)
    /\ \/ wpc[w] \in {"connect", "call", "wait"} /\ Goes(w, "ended")
       \/ wpc[w] = "connecting" /\ Goes(w, "abandoned")
       \/ wpc[w] = "count" /\ mode = "p" /\ outcome[rsock[w]] = NULL /\ Goes(w, "ended")
    /\ UNCHANGED <<vars, control, saved, sockfd, rsock, cmtx, counters>>

-----------------------------------------------------------------------------
(* main *)

MainAt(place) == proc = "running" /\ mainpc = place

(* The time is over. *)
Wakes ==
    /\ MainAt("sleep")
    /\ mainpc' = "cancel"
    /\ UNCHANGED <<vars, mode, proc, cancelled, printed, wpc, saved, sockfd,
                   rsock, cmtx, counters>>

(* Mutant: one thread more than there are. *)
CancelNextBeyond ==
    /\ MainAt("cancel")
    /\ cancelled <= Workers
    /\ cancelled' = cancelled + 1
    /\ UNCHANGED <<vars, mode, proc, mainpc, printed, wpc, saved, sockfd,
                   rsock, cmtx, counters>>

CancelNext ==
    /\ MainAt("cancel")
    /\ cancelled < Workers
    /\ cancelled' = cancelled + 1
    /\ UNCHANGED <<vars, mode, proc, mainpc, printed, wpc, saved, sockfd,
                   rsock, cmtx, counters>>

(* Mutant: the number of the calls that have returned. *)
PrintReturned ==
    /\ MainAt("cancel")
    /\ cancelled = Workers
    /\ printed' = IF mode = "p" THEN key_number - 1 ELSE ngets
    /\ mainpc' = "return"
    /\ UNCHANGED <<vars, mode, proc, cancelled, wpc, saved, sockfd, rsock,
                   cmtx, counters>>

(* The number is read without the mutex, and the threads are not waited for. *)
PrintNumber ==
    /\ MainAt("cancel")
    /\ cancelled = Workers
    /\ printed' = IF mode = "p" THEN key_number ELSE ngets
    /\ mainpc' = "return"
    /\ UNCHANGED <<vars, mode, proc, cancelled, wpc, saved, sockfd, rsock,
                   cmtx, counters>>

MainReturns == MainAt("return") /\ Dies

(* The kernel closes the sockets of a dead process, one after the other. *)
ProcessCloses ==
    /\ proc = "dead"
    /\ \E s \in Clients : Quit(s) \/ Kill(s)
    /\ UNCHANGED bench

-----------------------------------------------------------------------------
BenchMain == CancelNext \/ PrintNumber \/ MainReturns

Worker(w) ==
    \/ Address(w) \/ Port(w) \/ Token(w)
    \/ Socket(w) \/ ConnectSocket(w) \/ ConnectCompletes(w) \/ Keep(w)
    \/ LockClient(w) \/ CallServer(w) \/ AwaitReply(w) \/ Count(w)
    \/ Cancelled(w)

Accepting == Main /\ UNCHANGED bench
Handling(t) == Handler(t) /\ UNCHANGED bench

BenchNext ==
    \/ EarlierPut
    \/ Wakes
    \/ BenchMain
    \/ \E w \in WorkerIds : Worker(w) \/ ConnectTimeout(w)
    \/ ProcessCloses
    \/ Accepting
    \/ ServerKilled /\ UNCHANGED bench
    \/ \E t \in Threads : Handling(t)

BenchSpec == BenchInit /\ [][BenchNext]_bvars

(* Threads that can run do run, and a dead process closes its sockets.       *)
(* Nothing is assumed of the time main sleeps and of timeouts, nor that a    *)
(* mutex goes to whoever has waited longest.                                 *)
FairBench ==
    /\ BenchSpec
    /\ WF_bvars(BenchMain)
    /\ \A w \in WorkerIds : WF_bvars(Worker(w))
    /\ WF_bvars(ProcessCloses)
    /\ WF_bvars(Accepting)
    /\ \A t \in Threads : WF_bvars(Handling(t))
=============================================================================
