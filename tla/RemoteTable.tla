---------------------------- MODULE RemoteTable ----------------------------
(* The whole system: table-client programs, their connections, and the       *)
(* server with its accepting thread, its handler threads, the mutex and the  *)
(* table (source/table-client.c, client_stub.c, network_client.c,            *)
(* network_server.c, table_skel.c, table.c).                                 *)
(*                                                                           *)
(* A client is one run of the interactive program: it connects once. Sockets *)
(* are modelled as the code uses them: a read of a connection the peer has   *)
(* closed returns 0, of one that was reset -1; a process that ends closes    *)
(* its sockets, and a socket closed with unread data is reset. A message is  *)
(* written and read whole.                                                   *)
EXTENDS Commands, FiniteSets, SequencesExt

CONSTANTS
    Clients,                       \* runs of table-client
    NLists, HashSum, LowestCount,  \* of Table
    Backlog,                       \* connections that wait for an accept
    MaxCalls                       \* bound: calls the clients make in all

ASSUME RemoteAssumption ==
    /\ IsFiniteSet(Clients)
    /\ Backlog \in Nat \ {0}
    /\ MaxCalls \in Nat
    /\ LowestCount \in Int /\ LowestCount <= -MaxCalls
    /\ NLists \in Int
    /\ HashSum \in [ServerKeys -> Int]
    /\ NoVal \notin Vals
    /\ NULL \notin Clients \cup Nat

VARIABLES
    cpc,      \* client -> where its program stands
    asked,    \* client -> the last request it sent
    outcome,  \* client -> what its last call returned
    calls,    \* the number of calls made
    closed,   \* client -> how its end of the connection was closed
    queue,    \* the connections nobody has accepted
    inbox,    \* client -> request in the server's socket buffer
    reply,    \* client -> reply in the client's socket buffer
    mpc,      \* where network_main_loop stands
    n,        \* its i: the number of connections accepted
    tp,       \* tp.socket, the one variable all handlers get the address of
    mtx,      \* the thread that holds the server's mutex
    hpc,      \* thread -> where connection_handler stands
    hsock,    \* thread -> its local variable socket
    hmsg,     \* thread -> its message
    lista, nElems, nLists, alive, pc, i, result, ret  \* of Table

client == <<cpc, asked, outcome, calls>>
net == <<closed, queue, inbox, reply>>
main == <<mpc, n, tp>>
handlers == <<mtx, hpc, hsock, hmsg>>
table == <<lista, nElems, nLists, alive, pc, i, result, ret>>
vars == <<client, net, main, handlers, table>>

Threads == 1..Cardinality(Clients)

Tab == INSTANCE TableProps WITH Keys <- ServerKeys

Init ==
    /\ cpc = [c \in Clients |-> "off"]
    /\ asked = [c \in Clients |-> NULL]
    /\ outcome = [c \in Clients |-> NULL]
    /\ calls = 0
    /\ closed = [c \in Clients |-> "no"]
    /\ queue = <<>>
    /\ inbox = [c \in Clients |-> NULL]
    /\ reply = [c \in Clients |-> NULL]
    /\ mpc = "accept"
    /\ n = 0
    /\ tp = NULL
    /\ mtx = NULL
    /\ hpc = [t \in Threads |-> "none"]
    /\ hsock = [t \in Threads |-> NULL]
    /\ hmsg = [t \in Threads |-> NULL]
    /\ Tab!Init

-----------------------------------------------------------------------------
(* The client. *)

(* rtable_connect: the kernel completes the connection before any accept. *)
Connect(c) ==
    /\ alive
    /\ cpc[c] = "off"
    /\ Len(queue) < Backlog
    /\ queue' = Append(queue, c)
    /\ cpc' = [cpc EXCEPT ![c] = "ready"]
    /\ UNCHANGED <<asked, outcome, calls, closed, inbox, reply, main, handlers, table>>

(* Nobody listens, or nobody accepts for too long: the program exits. *)
ConnectFails(c) ==
    /\ cpc[c] = "off"
    /\ ~alive \/ Len(queue) >= Backlog
    /\ cpc' = [cpc EXCEPT ![c] = "gone"]
    /\ UNCHANGED <<asked, outcome, calls, net, main, handlers, table>>

(* A command is typed: the stub makes its message. *)
Asks(c, m) ==
    /\ cpc[c] = "ready"
    /\ calls < MaxCalls
    /\ asked' = [asked EXCEPT ![c] = m]
    /\ calls' = calls + 1
    /\ UNCHANGED <<closed, queue, reply, main, handlers, table>>

(* network_send_receive writes the request and waits. *)
Call(c, m) ==
    /\ alive
    /\ Asks(c, m)
    /\ inbox' = [inbox EXCEPT ![c] = m]
    /\ cpc' = [cpc EXCEPT ![c] = "waiting"]
    /\ UNCHANGED outcome

(* The server has died after it accepted the connection: write succeeds. *)
CallDead(c, m) ==
    /\ ~alive
    /\ c \notin Range(queue)
    /\ Asks(c, m)
    /\ cpc' = [cpc EXCEPT ![c] = "waiting"]
    /\ UNCHANGED <<outcome, inbox>>

(* It has died before: the connection was reset and write fails. *)
CallFails(c, m) ==
    /\ ~alive
    /\ c \in Range(queue)
    /\ Asks(c, m)
    /\ outcome' = [outcome EXCEPT ![c] = NULL]
    /\ cpc' = [cpc EXCEPT ![c] = "broken"]
    /\ UNCHANGED inbox

(* A call before has failed and closed the socket: this one fails too. *)
CallClosed(c, m) ==
    /\ cpc[c] = "broken"
    /\ calls < MaxCalls
    /\ asked' = [asked EXCEPT ![c] = m]
    /\ calls' = calls + 1
    /\ outcome' = [outcome EXCEPT ![c] = NULL]
    /\ UNCHANGED <<cpc, net, main, handlers, table>>

(* Mutant: part of the reply stays unread. *)
ReturnKeepsReply(c) ==
    /\ cpc[c] = "waiting"
    /\ reply[c] # NULL
    /\ outcome' = [outcome EXCEPT ![c] = Result(reply[c])]
    /\ cpc' = [cpc EXCEPT ![c] = "ready"]
    /\ UNCHANGED <<asked, calls, net, main, handlers, table>>

(* The reply is read and the function of the stub returns. *)
Return(c) ==
    /\ cpc[c] = "waiting"
    /\ reply[c] # NULL
    /\ outcome' = [outcome EXCEPT ![c] = Result(reply[c])]
    /\ reply' = [reply EXCEPT ![c] = NULL]
    /\ cpc' = [cpc EXCEPT ![c] = "ready"]
    /\ UNCHANGED <<asked, calls, closed, queue, inbox, main, handlers, table>>

(* The server died with the request unread: the read fails, the call too. *)
ReturnReset(c) ==
    /\ ~alive
    /\ cpc[c] = "waiting"
    /\ inbox[c] # NULL
    /\ outcome' = [outcome EXCEPT ![c] = NULL]
    /\ inbox' = [inbox EXCEPT ![c] = NULL]
    /\ cpc' = [cpc EXCEPT ![c] = "broken"]
    /\ UNCHANGED <<asked, calls, closed, queue, reply, main, handlers, table>>

(* It died with nothing left to read: read_all gets 0 for ever. *)
ReturnNever(c) ==
    /\ ~alive
    /\ cpc[c] = "waiting"
    /\ inbox[c] = NULL
    /\ reply[c] = NULL
    /\ cpc' = [cpc EXCEPT ![c] = "spin"]
    /\ UNCHANGED <<asked, outcome, calls, net, main, handlers, table>>

(* rtable_disconnect, or a crash of the program: the socket is closed. *)
Quit(c) ==
    /\ cpc[c] \in {"ready", "broken"}
    /\ cpc' = [cpc EXCEPT ![c] = "gone"]
    /\ closed' = [closed EXCEPT ![c] = "fin"]
    /\ UNCHANGED <<asked, outcome, calls, queue, inbox, reply, main, handlers, table>>

(* The user kills a program that waits. *)
Kill(c) ==
    /\ cpc[c] \in {"waiting", "spin"}
    /\ cpc' = [cpc EXCEPT ![c] = "gone"]
    /\ closed' = [closed EXCEPT ![c] = IF reply[c] # NULL THEN "rst" ELSE "fin"]
    /\ reply' = [reply EXCEPT ![c] = NULL]
    /\ UNCHANGED <<asked, outcome, calls, queue, inbox, main, handlers, table>>

-----------------------------------------------------------------------------
(* The accepting thread, network_main_loop. *)

(* A connection is accepted and its thread created. *)
Accept ==
    /\ alive
    /\ mpc = "accept"
    /\ queue # <<>>
    /\ tp' = Head(queue)
    /\ queue' = Tail(queue)
    /\ n' = n + 1
    /\ hpc' = [hpc EXCEPT ![n + 1] = "start"]
    /\ mpc' = "join"
    /\ UNCHANGED <<client, closed, inbox, reply, mtx, hsock, hmsg, table>>

(* The array of thread ids never grows past 16 bytes, 24 with what malloc     *)
(* adds. The third id is written behind it, and the next realloc may notice. *)
ArrayIds == 3

(* The connection is accepted by then: its client talks to a dead server.    *)
AcceptAbort ==
    /\ mpc = "accept"
    /\ queue # <<>>
    /\ n >= ArrayIds
    /\ alive
    /\ queue' = Tail(queue)
    /\ Tab!Crash
    /\ UNCHANGED <<client, closed, inbox, reply, main, handlers>>

(* The operator ends the server with a signal; it never ends by itself. *)
ServerKilled ==
    /\ alive
    /\ Tab!Crash
    /\ UNCHANGED <<client, net, main, handlers>>

(* Mutant: the accepting thread does not wait. *)
JoinNot ==
    /\ alive
    /\ mpc = "join"
    /\ mpc' = "accept"
    /\ UNCHANGED <<client, net, n, tp, handlers, table>>

(* pthread_join: the next accept waits for the handler's end. *)
Join ==
    /\ alive
    /\ mpc = "join"
    /\ hpc[n] = "done"
    /\ mpc' = "accept"
    /\ UNCHANGED <<client, net, n, tp, handlers, table>>

-----------------------------------------------------------------------------
(* A handler thread, connection_handler. *)

(* The thread copies the socket from the variable it was given. *)
HandlerStart(t) ==
    /\ alive
    /\ hpc[t] = "start"
    /\ hsock' = [hsock EXCEPT ![t] = tp]
    /\ hpc' = [hpc EXCEPT ![t] = "receive"]
    /\ UNCHANGED <<client, net, main, mtx, hmsg, table>>

(* network_receive reads a request and makes a message of it. *)
Receive(t) ==
    /\ alive
    /\ hpc[t] = "receive"
    /\ inbox[hsock[t]] # NULL
    /\ \E tail \in Tails :
         hmsg' = [hmsg EXCEPT ![t] = Received(inbox[hsock[t]], tail)]
    /\ inbox' = [inbox EXCEPT ![hsock[t]] = NULL]
    /\ hpc' = [hpc EXCEPT ![t] = "lock"]
    /\ UNCHANGED <<client, closed, queue, reply, main, mtx, hsock, table>>

(* The client has closed the connection: read_all gets 0 for ever. *)
ReceiveNever(t) ==
    /\ alive
    /\ hpc[t] = "receive"
    /\ inbox[hsock[t]] = NULL
    /\ closed[hsock[t]] = "fin"
    /\ hpc' = [hpc EXCEPT ![t] = "spin"]
    /\ UNCHANGED <<client, net, main, mtx, hsock, hmsg, table>>

(* The connection was reset: the socket is closed and the thread ends. *)
ReceiveReset(t) ==
    /\ alive
    /\ hpc[t] = "receive"
    /\ closed[hsock[t]] = "rst"
    /\ hpc' = [hpc EXCEPT ![t] = "done"]
    /\ UNCHANGED <<client, net, main, mtx, hsock, hmsg, table>>

Lock(t) ==
    /\ alive
    /\ hpc[t] = "lock"
    /\ mtx = NULL
    /\ mtx' = t
    /\ hpc' = [hpc EXCEPT ![t] = "invoke"]
    /\ UNCHANGED <<client, net, main, hsock, hmsg, table>>

(* What invoke does to the table, by opcode. *)
Operate(m) ==
    \/ m.opcode = OP_SIZE /\ Tab!Size
    \/ m.opcode = OP_DEL /\ Tab!Del(m.key)
    \/ m.opcode = OP_GET /\ Tab!Get(m.key)
    \/ m.opcode = OP_PUT /\ Tab!Put(m.entry.key, m.entry.value)
    \/ m.opcode = OP_GETKEYS /\ (Tab!GetKeysBegin \/ Tab!Scan)

(* Mutant: the mutex is not given back. *)
InvokeKeepsLock(t) ==
    /\ hpc[t] = "invoke"
    /\ Operate(hmsg[t])
    /\ IF alive' /\ pc' = "idle"
       THEN /\ hmsg' = [hmsg EXCEPT ![t] = Reply(ret')]
            /\ hpc' = [hpc EXCEPT ![t] = "send"]
            /\ UNCHANGED mtx
       ELSE UNCHANGED <<hmsg, hpc, mtx>>
    /\ UNCHANGED <<client, net, main, hsock>>

(* invoke under the mutex. Once the table has its result the message holds   *)
(* the reply and the mutex is free.                                          *)
Invoke(t) ==
    /\ hpc[t] = "invoke"
    /\ Operate(hmsg[t])
    /\ IF alive' /\ pc' = "idle"
       THEN /\ hmsg' = [hmsg EXCEPT ![t] = Reply(ret')]
            /\ hpc' = [hpc EXCEPT ![t] = "send"]
            /\ mtx' = NULL
       ELSE UNCHANGED <<hmsg, hpc, mtx>>
    /\ UNCHANGED <<client, net, main, hsock>>

(* Mutant: an error is not reported to the client. *)
SendOnlyResults(t) ==
    /\ alive
    /\ hpc[t] = "send"
    /\ reply' = IF closed[hsock[t]] = "no" /\ Result(hmsg[t]) # NULL
                THEN [reply EXCEPT ![hsock[t]] = hmsg[t]] ELSE reply
    /\ hmsg' = [hmsg EXCEPT ![t] = NULL]
    /\ hpc' = [hpc EXCEPT ![t] = "receive"]
    /\ UNCHANGED <<client, closed, queue, inbox, main, mtx, hsock, table>>

(* network_send. To a client that is gone the write succeeds too: nobody     *)
(* gets the reply.                                                           *)
Send(t) ==
    /\ alive
    /\ hpc[t] = "send"
    /\ reply' = IF closed[hsock[t]] = "no"
                THEN [reply EXCEPT ![hsock[t]] = hmsg[t]] ELSE reply
    /\ hmsg' = [hmsg EXCEPT ![t] = NULL]
    /\ hpc' = [hpc EXCEPT ![t] = "receive"]
    /\ UNCHANGED <<client, closed, queue, inbox, main, mtx, hsock, table>>

-----------------------------------------------------------------------------
Main == Accept \/ AcceptAbort \/ Join

Handler(t) ==
    \/ HandlerStart(t) \/ Receive(t) \/ ReceiveNever(t) \/ ReceiveReset(t)
    \/ Lock(t) \/ Invoke(t) \/ Send(t)

Returns(c) == Return(c) \/ ReturnReset(c) \/ ReturnNever(c)

Calls(c, m) ==
    Call(c, m) \/ CallDead(c, m) \/ CallFails(c, m) \/ CallClosed(c, m)

(* normal_cicle: connected, and then a command line is typed. One that is no *)
(* command changes nothing.                                                  *)
User(c) ==
    \/ Connect(c) \/ ConnectFails(c) \/ Kill(c)
    \/ \E line \in Asking : Calls(c, RequestOf(line))
    \/ Ending # {} /\ Quit(c)

Next ==
    \/ Main
    \/ ServerKilled
    \/ \E t \in Threads : Handler(t)
    \/ \E c \in Clients : Returns(c) \/ User(c)

Spec == Init /\ [][Next]_vars

(* Threads and programs that can run do run; what users do is up to them. *)
FairSpec ==
    /\ Spec
    /\ WF_vars(Main)
    /\ \A t \in Threads : WF_vars(Handler(t))
    /\ \A c \in Clients : WF_vars(Returns(c))
=============================================================================
