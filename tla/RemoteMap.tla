----------------------------- MODULE RemoteMap -----------------------------
(* What the users of the remote table can count on. A call is performed at   *)
(* most once, as one atomic operation of the map, and only while its caller  *)
(* waits; what it returns is that operation's answer, or nothing once the    *)
(* server is dead. Connections, threads, the mutex and the scan for the keys *)
(* do not show.                                                              *)
EXTENDS Protocol

CONSTANTS Clients

VARIABLES
    map, count, alive, ret,  \* of MapSpec
    stage,    \* client -> "idle", "called", "performed"
    call,     \* client -> its last request
    answer,   \* client -> the reply to it, once performed
    outcome   \* client -> what its last call returned

store == <<map, count, alive, ret>>
vars == <<store, stage, call, answer, outcome>>

Store == INSTANCE MapSpec WITH Keys <- ServerKeys

Init ==
    /\ Store!Init
    /\ stage = [c \in Clients |-> "idle"]
    /\ call = [c \in Clients |-> NULL]
    /\ answer = [c \in Clients |-> NULL]
    /\ outcome = [c \in Clients |-> NULL]

(* A call is made; the server may be dead. *)
Call(c) ==
    /\ stage[c] = "idle"
    /\ \E m \in Requests : call' = [call EXCEPT ![c] = m]
    /\ stage' = IF alive THEN [stage EXCEPT ![c] = "called"] ELSE stage
    /\ UNCHANGED <<store, answer, outcome>>

(* The operations of the map a request stands for. *)
Operate(m) ==
    LET key(tail) == Received(m, tail).key
    IN  \/ m.opcode = OP_SIZE /\ Store!Size
        \/ m.opcode = OP_GETKEYS /\ Store!GetKeys
        \/ \E tail \in Tails :
             \/ m.opcode = OP_GET /\ Store!Get(key(tail))
             \/ m.opcode = OP_DEL
                /\ (Store!DelPresent(key(tail)) \/ Store!DelAbsent(key(tail)))
             \/ m.opcode = OP_PUT
                /\ Store!Put(<<m.entry.key, tail>>, m.entry.value)

Perform(c) ==
    /\ stage[c] = "called"
    /\ Operate(call[c])
    /\ stage' = [stage EXCEPT ![c] = "performed"]
    /\ answer' = [answer EXCEPT ![c] = Reply(ret')]
    /\ UNCHANGED <<call, outcome>>

Return(c) ==
    /\ stage[c] = "performed"
    /\ outcome' = [outcome EXCEPT ![c] = Result(answer[c])]
    /\ stage' = [stage EXCEPT ![c] = "idle"]
    /\ answer' = [answer EXCEPT ![c] = NULL]
    /\ UNCHANGED <<store, call>>

(* The caller is gone before the answer reaches it. *)
Abandon(c) ==
    /\ stage[c] = "performed"
    /\ stage' = [stage EXCEPT ![c] = "idle"]
    /\ answer' = [answer EXCEPT ![c] = NULL]
    /\ UNCHANGED <<store, call, outcome>>

(* Without a server a call may fail. *)
Fail(c) ==
    /\ ~alive
    /\ stage[c] # "performed"
    /\ stage' = [stage EXCEPT ![c] = "idle"]
    /\ outcome' = [outcome EXCEPT ![c] = NULL]
    /\ call' = call \/ \E m \in Requests : call' = [call EXCEPT ![c] = m]
    /\ UNCHANGED <<store, answer>>

Crash ==
    /\ Store!Crash
    /\ UNCHANGED <<stage, call, answer, outcome>>

Next ==
    \/ Crash
    \/ \E c \in Clients :
         Call(c) \/ Perform(c) \/ Return(c) \/ Abandon(c) \/ Fail(c)

Spec == Init /\ [][Next]_vars
=============================================================================
