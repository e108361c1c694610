---------------------------- MODULE RemoteProps ----------------------------
(* The properties of the whole system. *)
EXTENDS RemoteTable

CONSTANT NoTail  \* nothing: the byte behind the key happens to be zero

(* The shape of the state of clients, sockets and threads. *)
TypeOK ==
    /\ cpc \in [Clients -> {"off", "ready", "waiting", "spin", "broken", "gone"}]
    /\ asked \in [Clients -> Requests \cup {NULL}]
    /\ outcome \in [Clients -> Replies \cup {NULL}]
    /\ calls \in 0..MaxCalls
    /\ closed \in [Clients -> {"no", "fin", "rst"}]
    /\ queue \in Seq(Clients)
    /\ inbox \in [Clients -> Requests \cup {NULL}]
    /\ reply \in [Clients -> Replies \cup {NULL}]
    /\ mpc \in {"accept", "join"}
    /\ n \in 0..Cardinality(Clients)
    /\ tp \in Clients \cup {NULL}
    /\ mtx \in Threads \cup {NULL}
    /\ hpc \in [Threads -> {"none", "start", "receive", "lock", "invoke",
                            "send", "spin", "done"}]
    /\ hsock \in [Threads -> Clients \cup {NULL}]
    /\ hmsg \in [Threads -> ServerRequests \cup Replies \cup {NULL}]

(* The threads that serve client c, or will once they have read tp. *)
Serving(c) == {t \in Threads : \/ hsock[t] = c
                               \/ hpc[t] = "start" /\ tp = c}

(* While the server lives every connection that was accepted has a thread of *)
(* its own, although all threads are handed the address of the same variable *)
(* and read it later.                                                        *)
OwnThread ==
    alive => \A c \in Clients :
        closed[c] = "no" /\ cpc[c] \in {"ready", "waiting"} /\ c \notin Range(queue)
            => Cardinality(Serving(c)) = 1

(* The places where the call of client c can be. *)
Places(c) ==
    {<<"inbox">> : x \in {x \in {c} : inbox[x] # NULL}}
        \cup {<<"reply">> : x \in {x \in {c} : reply[x] # NULL}}
        \cup {<<"thread", t>> : t \in {t \in Threads : hsock[t] = c /\ hmsg[t] # NULL}}

(* A call is in exactly one place, from the write of the request to the read *)
(* of the reply, whatever threads and clients do in between: nothing is lost *)
(* or answered twice while the server lives.                                 *)
CallInOnePlace ==
    alive => \A c \in Clients :
               cpc[c] \in {"off", "ready", "waiting"} =>
                   Cardinality(Places(c)) = IF cpc[c] = "waiting" THEN 1 ELSE 0

(* The call of client c as RemoteMap sees it. *)
StageOf(c) ==
    IF reply[c] # NULL \/ \E t \in Threads : hsock[t] = c /\ hpc[t] = "send"
    THEN "performed"
    ELSE IF Places(c) # {} THEN "called" ELSE "idle"

AnswerOf(c) ==
    IF StageOf(c) # "performed" THEN NULL
    ELSE IF reply[c] # NULL THEN reply[c]
    ELSE LET t == CHOOSE t \in Threads : hsock[t] = c /\ hpc[t] = "send"
         IN  hmsg[t]

Remote == INSTANCE RemoteMap WITH
            map <- Tab!Valuation,
            count <- nElems,
            stage <- [c \in Clients |-> StageOf(c)],
            call <- asked,
            answer <- [c \in Clients |-> AnswerOf(c)]

(* Clients, sockets, threads and buckets implement the atomic remote map:    *)
(* each call takes effect at most once, at one moment between its request    *)
(* and its return, and returns what it found then.                           *)
ImplementsRemoteMap == Remote!Spec

(* A client whose connection was accepted and who waits is answered, or the  *)
(* server dies: the handler does not get stuck on the mutex or in the table. *)
AcceptedAnswered ==
    \A c \in Clients :
        (cpc[c] = "waiting" /\ c \notin Range(queue))
            ~> (cpc[c] # "waiting" \/ ~alive)

-----------------------------------------------------------------------------
(* The inductive invariant. *)

(* The connection a thread has been created for. *)
Conn(t) == IF hpc[t] = "start" THEN tp ELSE hsock[t]

(* Threads are created in order, and because of the join only the last one   *)
(* created can be at work; tp still holds its socket if it has not read it.  *)
ThreadInv ==
    /\ n + Len(queue) <= Cardinality({c \in Clients : cpc[c] # "off"})
    /\ \A t \in Threads : hpc[t] = "none" <=> t > n
    /\ \A t \in Threads : t < n \/ (t = n /\ mpc = "accept") => hpc[t] = "done"
    /\ \A t \in Threads : hsock[t] = NULL <=> hpc[t] \in {"none", "start"}
    /\ \A t \in Threads : hpc[t] = "start" => tp \in Clients

(* While the server lives a client's connection is in the queue or belongs   *)
(* to one thread, and at any time it is there only once.                     *)
SocketInv ==
    /\ IsInjective(queue)
    /\ \A t \in 1..n : Conn(t) \notin Range(queue)
    /\ \A t, u \in 1..n : Conn(t) = Conn(u) => t = u
    /\ \A c \in Clients :
         /\ cpc[c] = "off" => c \notin Range(queue) /\ \A t \in 1..n : Conn(t) # c
         /\ alive /\ cpc[c] \in {"ready", "waiting", "spin", "broken"} =>
              c \in Range(queue) \/ \E t \in 1..n : Conn(t) = c
         /\ closed[c] # "no" => cpc[c] = "gone"

(* Where a thread stands says what its message is, and who has the mutex. *)
MessageInv ==
    \A t \in Threads :
        /\ hmsg[t] # NULL <=> hpc[t] \in {"lock", "invoke", "send"}
        /\ hpc[t] \in {"lock", "invoke"} => hmsg[t] \in ServerRequests
        /\ hpc[t] = "send" => hmsg[t] \in Replies
        /\ hpc[t] = "invoke" <=> mtx = t

InThread(c) == \E t \in Threads : hsock[t] = c /\ hmsg[t] # NULL

(* A call is in one place at most, dead server or not; only the death of the *)
(* server lets a client wait for a call that is nowhere.                     *)
PlaceInv ==
    \A c \in Clients :
        /\ inbox[c] # NULL => reply[c] = NULL /\ ~InThread(c)
        /\ reply[c] # NULL => ~InThread(c)
        /\ cpc[c] \in {"off", "ready", "broken"} =>
             inbox[c] = NULL /\ reply[c] = NULL /\ ~InThread(c)
        /\ alive /\ cpc[c] = "waiting" =>
             inbox[c] # NULL \/ reply[c] # NULL \/ InThread(c)

RInv ==
    /\ TypeOK
    /\ Tab!IInv
    /\ ThreadInv
    /\ SocketInv
    /\ MessageInv
    /\ PlaceInv

(* A request is the same on its way, but for what the server reads behind    *)
(* the key, and a call fails only once the server is dead.                   *)
CallInv ==
    /\ \A c \in Clients :
         /\ inbox[c] # NULL => inbox[c] = asked[c]
         /\ cpc[c] = "broken" => ~alive
    /\ \A t \in Threads :
         hpc[t] \in {"lock", "invoke"} =>
             /\ asked[hsock[t]] # NULL
             /\ \E tail \in Tails : hmsg[t] = Received(asked[hsock[t]], tail)

-----------------------------------------------------------------------------
(* What the repository says and the code does not do. *)

(* table-server.c:57-59, "if(read returns 0 bytes) { /* sinal de que a       *)
(* conexão foi fechada pelo cliente */ close(socket_de_cliente);": a thread  *)
(* whose client has closed the connection comes to its end.                  *)
HandlerEndsOnClose ==
    \A t \in Threads, c \in Clients :
        (hpc[t] = "receive" /\ hsock[t] = c /\ closed[c] = "fin")
            ~> (hpc[t] = "done" \/ ~alive)

(* test_message.c:118, "strcmp(msg->content.key, "abcdef") == 0": a key is   *)
(* the same before and after its way through a buffer.                       *)
KeyIntact == \A k \in Tab!StoredKeys : k[2] = NoTail
=============================================================================
