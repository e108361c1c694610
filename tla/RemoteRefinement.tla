-------------------------- MODULE RemoteRefinement --------------------------
(* The system of RemoteTable implements the atomic remote map of RemoteMap,  *)
(* for all numbers of clients, keys, values and buckets.                     *)
EXTENDS RemoteProofs

(* A step that makes no request and moves none disturbs none.                *)
LEMMA CallFrame ==
    ASSUME CallInv, UNCHANGED asked,
           \A c \in Clients : inbox'[c] \in {inbox[c], NULL},
           \A c \in Clients : cpc'[c] = "broken" => cpc[c] = "broken" \/ ~alive',
           alive' => alive,
           \A t \in Threads :
             hpc'[t] \in {"lock", "invoke"} =>
                 hpc[t] \in {"lock", "invoke"} /\ UNCHANGED <<hmsg[t], hsock[t]>>
    PROVE  CallInv'
BY DEF CallInv, Threads

(* The request of a call stays what the client asked for.                    *)
LEMMA NextKeepsCallInv ==
    ASSUME RInv, CallInv, [Next]_vars
    PROVE  CallInv'
<1>1. ASSUME NEW c \in Clients,
             Connect(c) \/ ConnectFails(c) \/ Quit(c) \/ ReturnNever(c)
                 \/ Return(c) \/ ReturnReset(c) \/ Kill(c)
      PROVE  CallInv'
    <2>. USE DEF Connect, ConnectFails, Quit, ReturnNever, Return, ReturnReset, Kill
    <2>1. UNCHANGED <<asked, hpc, hmsg, hsock, alive>>
        BY <1>1 DEF handlers, table
    <2>2. \A d \in Clients : inbox'[d] \in {inbox[d], NULL}
        BY <1>1 DEF net, RInv, TypeOK
    <2>3. \A d \in Clients : cpc'[d] = "broken" => cpc[d] = "broken" \/ ~alive'
        BY <1>1, <2>1 DEF RInv, TypeOK
    <2>. QED
        BY <2>1, <2>2, <2>3, CallFrame
<1>2. ASSUME NEW c \in Clients, NEW m \in Requests, Calls(c, m)
      PROVE  CallInv'
    <2>1. inbox[c] = NULL /\ \A t \in Threads : hpc[t] \in {"lock", "invoke"} => hsock[t] # c
        BY <1>2 DEF Calls, Call, CallDead, CallFails, CallClosed, Asks, RInv, PlaceInv,
                    InThread, MessageInv
    <2>2. UNCHANGED <<hpc, hmsg, hsock, alive>> /\ asked' = [asked EXCEPT ![c] = m]
        BY <1>2 DEF Calls, Call, CallDead, CallFails, CallClosed, Asks, handlers, table
    <2>3. inbox' = inbox \/ inbox' = [inbox EXCEPT ![c] = m]
        BY <1>2 DEF Calls, Call, CallDead, CallFails, CallClosed, Asks, net
    <2>4. cpc'[c] = "broken" => ~alive
        BY <1>2 DEF Calls, Call, CallDead, CallFails, CallClosed, Asks, net, RInv, TypeOK, CallInv
    <2>5. \A d \in Clients : d # c => cpc'[d] = cpc[d]
        BY <1>2 DEF Calls, Call, CallDead, CallFails, CallClosed, Asks, RInv, TypeOK
    <2>. QED
        BY <2>1, <2>2, <2>3, <2>4, <2>5 DEF CallInv, Threads, RInv, TypeOK
<1>4. CASE Main \/ ServerKilled
    <2>1. UNCHANGED <<cpc, asked, inbox, hmsg, hsock>> /\ (alive' => alive)
        BY <1>4 DEF Main, ServerKilled, Accept, AcceptAbort, Join, client, net, main,
                    handlers, table
    <2>2. \A t \in Threads : hpc'[t] \in {"lock", "invoke"} => hpc[t] = hpc'[t]
        BY <1>4 DEF Main, ServerKilled, Accept, AcceptAbort, Join, handlers, RInv, TypeOK
    <2>. QED
        BY <2>1, <2>2, CallFrame
<1>5. ASSUME NEW t \in Threads,
             HandlerStart(t) \/ ReceiveNever(t) \/ ReceiveReset(t) \/ Lock(t) \/ Send(t)
      PROVE  CallInv'
    <2>. USE DEF HandlerStart, ReceiveNever, ReceiveReset, Lock, Send
    <2>1. UNCHANGED <<cpc, asked, inbox, alive>>
        BY <1>5 DEF client, net, table
    <2>2. \A u \in Threads :
            hpc'[u] \in {"lock", "invoke"} =>
                hpc[u] \in {"lock", "invoke"} /\ UNCHANGED <<hmsg[u], hsock[u]>>
        BY <1>5 DEF RInv, TypeOK
    <2>. QED
        BY <2>1, <2>2, CallFrame
<1>6. ASSUME NEW t \in Threads, Receive(t)
      PROVE  CallInv'
    <2>1. hsock[t] \in Clients
        BY <1>6 DEF Receive, RInv, TypeOK, ThreadInv
    <2>. QED
        BY <1>6, <2>1 DEF Receive, client, main, table, CallInv, Threads, RInv, TypeOK
<1>7. ASSUME NEW t \in Threads, Invoke(t)
      PROVE  CallInv'
    <2>1. alive /\ UNCHANGED <<cpc, asked, inbox, hsock>>
        BY <1>7, InvokeAlive DEF Invoke, client, net
    <2>2. \A u \in Threads :
            hpc'[u] \in {"lock", "invoke"} =>
                hpc[u] \in {"lock", "invoke"} /\ UNCHANGED <<hmsg[u], hsock[u]>>
        BY <1>7, <2>1 DEF Invoke, RInv, TypeOK
    <2>. QED
        BY <2>1, <2>2, CallFrame
<1>8. CASE UNCHANGED vars
    BY <1>8 DEF vars, client, net, main, handlers, table, CallInv, Threads
<1>9. ASSUME NEW c \in Clients, User(c)
      PROVE  CallInv'
    BY <1>9, <1>1, <1>2, AskingRequests DEF User
<1>. QED
    BY <1>1, <1>4, <1>5, <1>6, <1>7, <1>8, <1>9 DEF Next, Handler, Returns

-----------------------------------------------------------------------------
(* What RemoteMap sees of the state. *)

Stage == [c \in Clients |-> StageOf(c)]
Answer == [c \in Clients |-> AnswerOf(c)]

Sends(c) == \E t \in Threads : hsock[t] = c /\ hpc[t] = "send"

(* A call is called while its request is in a socket or a thread, performed  *)
(* while its reply is.                                                       *)
StageRight(c) ==
    StageOf(c) = IF reply[c] # NULL \/ Sends(c) THEN "performed"
                 ELSE IF inbox[c] # NULL \/ InThread(c) THEN "called" ELSE "idle"

AnswerRight(c) ==
    /\ reply[c] # NULL => AnswerOf(c) = reply[c]
    /\ \A t \in Threads : hsock[t] = c /\ hpc[t] = "send" => AnswerOf(c) = hmsg[t]
    /\ StageOf(c) # "performed" => AnswerOf(c) = NULL

(* PlaceInv says at what stage of the atomic map a call is.                  *)
LEMMA StageIs == RInv => \A c \in Clients : StageRight(c) /\ AnswerRight(c)
<1> SUFFICES ASSUME RInv, NEW c \in Clients PROVE StageRight(c) /\ AnswerRight(c)
    OBVIOUS
<1>1. StageRight(c)
    <2>1. Places(c) # {} <=> inbox[c] # NULL \/ reply[c] # NULL \/ InThread(c)
        BY DEF Places, InThread
    <2>. QED
        BY <2>1 DEF StageRight, StageOf, Sends
<1>2. ASSUME NEW t \in Threads, hsock[t] = c, hpc[t] = "send"
      PROVE  AnswerOf(c) = hmsg[t]
    <2>1. StageOf(c) = "performed"
        BY <1>1, <1>2 DEF StageRight, Sends
    <2>2. reply[c] = NULL
        BY <1>2 DEF RInv, PlaceInv, InThread, MessageInv
    <2>3. \A u \in Threads : hpc[u] = "send" => u = t
        BY <1>2, OneAtWork DEF RInv, MessageInv
    <2>4. (CHOOSE u \in Threads : hsock[u] = c /\ hpc[u] = "send") = t
        BY <1>2, <2>3
    <2>. QED
        BY <2>1, <2>2, <2>4 DEF AnswerOf
<1>. QED
    BY <1>1, <1>2 DEF StageRight, AnswerRight, AnswerOf

(* The same of the state after a step.                                       *)
LEMMA StageIsNext == RInv' => \A c \in Clients : StageRight(c)' /\ AnswerRight(c)'
<1>1. (RInv => \A c \in Clients : StageRight(c) /\ AnswerRight(c))'
    BY StageIs, PTL
<1>. QED
    BY <1>1

(* A client whose request and reply stay where they are.                     *)
LEMMA SameStage ==
    ASSUME RInv, RInv', NEW c \in Clients,
           reply'[c] = reply[c],
           (inbox[c] # NULL \/ InThread(c))' <=> (inbox[c] # NULL \/ InThread(c)),
           \A t \in Threads :
             /\ (hpc[t] = "send" /\ hsock[t] = c)' <=> (hpc[t] = "send" /\ hsock[t] = c)
             /\ hpc[t] = "send" /\ hsock[t] = c => hmsg'[t] = hmsg[t]
    PROVE  StageOf(c)' = StageOf(c) /\ AnswerOf(c)' = AnswerOf(c)
<1>1. StageRight(c) /\ AnswerRight(c) /\ StageRight(c)' /\ AnswerRight(c)'
    BY StageIs, StageIsNext
<1>2. Sends(c)' <=> Sends(c)
    BY DEF Sends, Threads
<1>3. StageOf(c)' = StageOf(c)
    BY <1>1, <1>2 DEF StageRight
<1>4. CASE reply[c] # NULL \/ ~Sends(c)
    BY <1>1, <1>2, <1>3, <1>4 DEF AnswerRight, StageRight
<1>5. CASE Sends(c)
    <2>1. PICK t \in Threads : hsock[t] = c /\ hpc[t] = "send"
        BY <1>5 DEF Sends
    <2>2. AnswerOf(c) = hmsg[t] /\ AnswerOf(c)' = hmsg'[t]
        BY <1>1, <2>1 DEF AnswerRight, Threads
    <2>. QED
        BY <1>3, <2>1, <2>2
<1>. QED
    BY <1>3, <1>4, <1>5

(* The messages of RemoteMap are those of RemoteTable.                       *)
LEMMA SameMessages ==
    /\ Remote!Requests = Requests
    /\ Remote!ServerKeys = ServerKeys
    /\ \A m, tail : Remote!Received(m, tail) = Received(m, tail)
    /\ \A r : Remote!Reply(r) = Reply(r)
    /\ \A m : Remote!Result(m) = Result(m)
    /\ Remote!OP_SIZE = OP_SIZE /\ Remote!OP_DEL = OP_DEL /\ Remote!OP_GET = OP_GET
    /\ Remote!OP_PUT = OP_PUT /\ Remote!OP_GETKEYS = OP_GETKEYS
<1>. USE DEF Remote!BareMsg, BareMsg, Remote!KeyMsg, KeyMsg, Remote!PutMsg, PutMsg,
            Remote!OP_SIZE, OP_SIZE, Remote!OP_DEL, OP_DEL, Remote!OP_GET, OP_GET,
            Remote!OP_PUT, OP_PUT, Remote!OP_GETKEYS, OP_GETKEYS, Remote!OP_ERROR, OP_ERROR,
            Remote!CT_KEY, CT_KEY, Remote!CT_ENTRY, CT_ENTRY, Remote!CT_VALUE, CT_VALUE,
            Remote!CT_KEYS, CT_KEYS, Remote!CT_RESULT, CT_RESULT, Remote!CT_NONE, CT_NONE
<1>1. Remote!Requests = Requests
    BY DEF Remote!Requests, Requests
<1>2. Remote!ServerKeys = ServerKeys
    BY DEF Remote!ServerKeys, ServerKeys
<1>3. \A m, tail : Remote!Received(m, tail) = Received(m, tail)
    BY DEF Remote!Received, Received
<1>4. \A r : Remote!Reply(r) = Reply(r)
    BY DEF Remote!Reply, Reply
<1>5. \A m : Remote!Result(m) = Result(m)
    BY DEF Remote!Result, Result
<1>. QED
    BY <1>1, <1>2, <1>3, <1>4, <1>5

(* The map that the remote map speaks of is that of TableRefinement.         *)
LEMMA SameValuation == Tab!Valuation = TabT!Valuation
BY DEF Tab!Valuation, TabT!Valuation, Tab!HashOk, TabT!HashOk, Tab!Hash, TabT!Hash,
       Tab!CRem, TabT!CRem, Tab!Buckets, TabT!Buckets, Tab!KeysIn, TabT!KeysIn,
       Tab!ListGet, TabT!ListGet, Tab!Pos, TabT!Pos

(* As long as the table stands still so does the map.                        *)
LEMMA SameTable == UNCHANGED table => UNCHANGED Remote!store
BY DEF Remote!store, table, Tab!Valuation, Tab!HashOk, Tab!Hash, Tab!CRem, Tab!Buckets

(* The operations of the map as the two refinements see them.                *)
LEMMA SameOperations ==
    /\ TabT!Map!Crash <=> Remote!Store!Crash
    /\ TabT!Map!Size <=> Remote!Store!Size
    /\ TabT!Map!GetKeys <=> Remote!Store!GetKeys
    /\ \A k, v : TabT!Map!Put(k, v) <=> Remote!Store!Put(k, v)
    /\ \A k : TabT!Map!Get(k) <=> Remote!Store!Get(k)
    /\ \A k : TabT!Map!DelPresent(k) <=> Remote!Store!DelPresent(k)
    /\ \A k : TabT!Map!DelAbsent(k) <=> Remote!Store!DelAbsent(k)
    /\ UNCHANGED TabT!Map!vars => UNCHANGED Remote!store
<1>1. TabT!Map!Present = Remote!Store!Present
    BY SameValuation DEF TabT!Map!Present, Remote!Store!Present, ServerKeys, Remote!ServerKeys
<1>2. Tab!Valuation = TabT!Valuation /\ Tab!Valuation' = TabT!Valuation'
    <2>1. (Tab!Valuation = TabT!Valuation)'
        BY SameValuation, PTL
    <2>. QED
        BY <2>1, SameValuation
<1>3. /\ TabT!Map!Crash <=> Remote!Store!Crash
      /\ TabT!Map!Size <=> Remote!Store!Size
    BY <1>2 DEF TabT!Map!Crash, Remote!Store!Crash, TabT!Map!Size, Remote!Store!Size
<1>4. TabT!Map!GetKeys <=> Remote!Store!GetKeys
    BY <1>1, <1>2
       DEF TabT!Map!GetKeys, Remote!Store!GetKeys, TabT!Map!IsInjective,
           Remote!Store!IsInjective, TabT!Map!Range, Remote!Store!Range
<1>5. \A k, v : TabT!Map!Put(k, v) <=> Remote!Store!Put(k, v)
    BY <1>1, <1>2 DEF TabT!Map!Put, Remote!Store!Put
<1>6. \A k : TabT!Map!Get(k) <=> Remote!Store!Get(k)
    BY <1>1, <1>2 DEF TabT!Map!Get, Remote!Store!Get
<1>7. \A k : TabT!Map!DelPresent(k) <=> Remote!Store!DelPresent(k)
    BY <1>1, <1>2 DEF TabT!Map!DelPresent, Remote!Store!DelPresent
<1>8. \A k : TabT!Map!DelAbsent(k) <=> Remote!Store!DelAbsent(k)
    BY <1>1, <1>2 DEF TabT!Map!DelAbsent, Remote!Store!DelAbsent
<1>9. UNCHANGED TabT!Map!vars => UNCHANGED Remote!store
    BY <1>2 DEF TabT!Map!vars, Remote!store
<1>. QED
    BY <1>3, <1>4, <1>5, <1>6, <1>7, <1>8, <1>9

-----------------------------------------------------------------------------
(* The steps that do not show. *)
LEMMA Silent ==
    ASSUME RInv, RInv', UNCHANGED <<asked, outcome, table>>,
           \A c \in Clients : StageOf(c)' = StageOf(c) /\ AnswerOf(c)' = AnswerOf(c)
    PROVE  UNCHANGED Remote!vars
BY SameTable DEF Remote!vars

(* Steps that neither ask, answer nor touch the table do not show.           *)
LEMMA QuietSteps ==
    ASSUME RInv, RInv', UNCHANGED <<asked, outcome, inbox, reply, hmsg, table>>,
           \A t \in Threads : (hpc[t] = "send")' <=> hpc[t] = "send",
           \A t \in Threads : hmsg[t] # NULL => hsock'[t] = hsock[t]
    PROVE  UNCHANGED Remote!vars
<1>1. ASSUME NEW c \in Clients
      PROVE  StageOf(c)' = StageOf(c) /\ AnswerOf(c)' = AnswerOf(c)
    <2>1. \A t \in Threads : hmsg[t] = NULL => hpc[t] # "send"
        BY DEF RInv, MessageInv
    <2>2. \A t \in Threads : (hsock[t] = c /\ hmsg[t] # NULL)' <=> (hsock[t] = c /\ hmsg[t] # NULL)
        OBVIOUS
    <2>. QED
        BY <2>1, <2>2, SameStage DEF InThread, Threads
<1>. QED
    BY <1>1, Silent

(* A step about one client: for the others nothing shows.                    *)
LEMMA OneClient ==
    ASSUME NEW c \in Clients, NEW st, NEW an,
           \A d \in Clients \ {c} : StageOf(d)' = StageOf(d) /\ AnswerOf(d)' = AnswerOf(d),
           StageOf(c)' = st, AnswerOf(c)' = an
    PROVE  Stage' = [Stage EXCEPT ![c] = st] /\ Answer' = [Answer EXCEPT ![c] = an]
BY DEF Stage, Answer

(* No call of a client that can make one is under way.                       *)
LEMMA IdleClient ==
    ASSUME RInv, NEW c \in Clients, cpc[c] \in {"ready", "broken"}
    PROVE  Stage[c] = "idle" /\ Answer[c] = NULL
<1>1. StageRight(c) /\ AnswerRight(c)
    BY StageIs
<1>2. ~Sends(c)
    BY DEF RInv, PlaceInv, InThread, MessageInv, Sends
<1>. QED
    BY <1>1, <1>2 DEF StageRight, AnswerRight, Stage, Answer, RInv, PlaceInv

(* A call begins, or fails at once.                                          *)
LEMMA CallMaps ==
    ASSUME RInv, RInv', CallInv, NEW c \in Clients, NEW m \in Requests, Calls(c, m)
    PROVE  Remote!Call(c) \/ Remote!Fail(c)
<1>. USE DEF Call, CallDead, CallFails, CallClosed, Asks
<1>1. /\ UNCHANGED <<reply, hpc, hsock, hmsg, alive>> /\ UNCHANGED table
      /\ cpc[c] \in {"ready", "broken"}
      /\ asked' = [asked EXCEPT ![c] = m]
    BY DEF Calls, handlers, table, net
<1>2. Stage[c] = "idle" /\ Answer[c] = NULL
    BY <1>1, IdleClient
<1>3. UNCHANGED Remote!store
    BY <1>1, SameTable
<1>4. \A d \in Clients : d # c => inbox'[d] = inbox[d]
    BY DEF Calls, net, RInv, TypeOK
<1>5. ASSUME NEW d \in Clients \ {c}
      PROVE  StageOf(d)' = StageOf(d) /\ AnswerOf(d)' = AnswerOf(d)
    BY <1>1, <1>4, SameStage DEF InThread, Threads
<1>6. CASE Call(c, m)
    <2>1. inbox'[c] # NULL
        BY <1>6, NullAssumption DEF RInv, TypeOK
    <2>2. StageOf(c)' = "called" /\ AnswerOf(c)' = NULL
        <3>1. StageRight(c)' /\ AnswerRight(c)'
            BY StageIsNext
        <3>2. reply'[c] = NULL /\ ~Sends(c)'
            BY <1>1, <1>6 DEF RInv, PlaceInv, InThread, MessageInv, Sends, Threads
        <3>. QED
            BY <2>1, <3>1, <3>2 DEF StageRight, AnswerRight
    <2>3. Stage' = [Stage EXCEPT ![c] = "called"] /\ Answer' = [Answer EXCEPT ![c] = NULL]
        BY <1>5, <2>2, OneClient
    <2>4. Answer' = Answer
        BY <1>2, <2>3 DEF Answer
    <2>. QED
        BY <1>1, <1>2, <1>3, <1>6, <2>3, <2>4, SameMessages DEF Remote!Call, Stage, Answer
<1>7. CASE ~Call(c, m)
    <2>1. ~alive /\ inbox' = inbox
        BY <1>7 DEF Calls, CallInv, net
    <2>2. StageOf(c)' = StageOf(c) /\ AnswerOf(c)' = AnswerOf(c)
        BY <1>1, <2>1, SameStage DEF InThread, Threads
    <2>3. Stage' = Stage /\ Answer' = Answer
        BY <1>5, <2>2 DEF Stage, Answer
    <2>4. CASE outcome' = outcome
        BY <1>1, <1>2, <1>3, <2>1, <2>3, <2>4, SameMessages DEF Remote!Call, Stage, Answer
    <2>5. CASE outcome' = [outcome EXCEPT ![c] = NULL]
        <3>1. Stage' = [Stage EXCEPT ![c] = "idle"]
            BY <1>2, <2>3 DEF Stage
        <3>. QED
            BY <1>1, <1>2, <1>3, <2>1, <2>3, <2>5, <3>1, SameMessages
               DEF Remote!Fail, Stage, Answer
    <2>. QED
        BY <1>7, <2>4, <2>5 DEF Calls
<1>. QED
    BY <1>6, <1>7

(* A reply is returned.                                                      *)
LEMMA ReturnMaps ==
    ASSUME RInv, RInv', NEW c \in Clients, Return(c)
    PROVE  Remote!Return(c)
<1>. USE DEF Return
<1>1. UNCHANGED <<asked, inbox, hpc, hsock, hmsg>> /\ UNCHANGED table
    BY DEF handlers
<1>2. /\ \A d \in Clients : d # c => reply'[d] = reply[d]
      /\ reply'[c] = NULL
      /\ ~InThread(c) /\ inbox[c] = NULL
    BY DEF RInv, TypeOK, PlaceInv
<1>3. Stage[c] = "performed" /\ Answer[c] = reply[c]
    BY StageIs DEF StageRight, AnswerRight, Stage, Answer
<1>4. ASSUME NEW d \in Clients \ {c}
      PROVE  StageOf(d)' = StageOf(d) /\ AnswerOf(d)' = AnswerOf(d)
    BY <1>1, <1>2, SameStage DEF InThread, Threads
<1>5. StageOf(c)' = "idle" /\ AnswerOf(c)' = NULL
    <2>1. StageRight(c)' /\ AnswerRight(c)'
        BY StageIsNext
    <2>2. ~Sends(c)' /\ ~InThread(c)'
        BY <1>1, <1>2 DEF RInv, InThread, MessageInv, Sends, Threads
    <2>. QED
        BY <1>1, <1>2, <2>1, <2>2 DEF StageRight, AnswerRight
<1>6. Stage' = [Stage EXCEPT ![c] = "idle"] /\ Answer' = [Answer EXCEPT ![c] = NULL]
    BY <1>4, <1>5, OneClient
<1>. QED
    BY <1>1, <1>3, <1>6, SameTable, SameMessages DEF Remote!Return, Stage, Answer

(* A call fails with the connection.                                         *)
LEMMA ReturnResetMaps ==
    ASSUME RInv, RInv', NEW c \in Clients, ReturnReset(c)
    PROVE  Remote!Fail(c)
<1>. USE DEF ReturnReset
<1>1. UNCHANGED <<asked, reply, hpc, hsock, hmsg>> /\ UNCHANGED table
    BY DEF handlers
<1>2. /\ \A d \in Clients : d # c => inbox'[d] = inbox[d]
      /\ inbox'[c] = NULL
      /\ ~InThread(c) /\ ~Sends(c) /\ reply[c] = NULL
    BY DEF RInv, TypeOK, PlaceInv, InThread, Sends, MessageInv
<1>3. Stage[c] = "called" /\ Answer[c] = NULL
    BY <1>2, StageIs DEF StageRight, AnswerRight, Stage, Answer
<1>4. ASSUME NEW d \in Clients \ {c}
      PROVE  StageOf(d)' = StageOf(d) /\ AnswerOf(d)' = AnswerOf(d)
    BY <1>1, <1>2, SameStage DEF InThread, Threads
<1>5. StageOf(c)' = "idle" /\ AnswerOf(c)' = NULL
    <2>1. StageRight(c)' /\ AnswerRight(c)'
        BY StageIsNext
    <2>2. ~Sends(c)' /\ ~InThread(c)'
        BY <1>1, <1>2 DEF InThread, Sends, Threads
    <2>. QED
        BY <1>1, <1>2, <2>1, <2>2 DEF StageRight, AnswerRight
<1>6. Stage' = [Stage EXCEPT ![c] = "idle"] /\ Answer' = [Answer EXCEPT ![c] = NULL]
    BY <1>4, <1>5, OneClient
<1>7. Answer' = Answer
    BY <1>3, <1>6 DEF Answer
<1>. QED
    BY <1>1, <1>3, <1>6, <1>7, SameTable DEF Remote!Fail, Stage, Answer, table

(* The end of a client abandons its call, if it has one.                     *)
LEMMA KillMaps ==
    ASSUME RInv, RInv', NEW c \in Clients, Kill(c)
    PROVE  Remote!Abandon(c) \/ UNCHANGED Remote!vars
<1>. USE DEF Kill
<1>1. UNCHANGED <<asked, outcome, inbox, hpc, hsock, hmsg>> /\ UNCHANGED table
    BY DEF handlers
<1>2. CASE reply[c] = NULL
    <2>1. reply' = reply
        BY <1>2 DEF RInv, TypeOK
    <2>. QED
        BY <1>1, <2>1, QuietSteps DEF Threads
<1>3. CASE reply[c] # NULL
    <2>1. /\ \A d \in Clients : d # c => reply'[d] = reply[d]
          /\ reply'[c] = NULL
          /\ ~InThread(c) /\ inbox[c] = NULL
        BY <1>3 DEF RInv, TypeOK, PlaceInv
    <2>2. Stage[c] = "performed"
        BY <1>3, StageIs DEF StageRight, Stage
    <2>3. ASSUME NEW d \in Clients \ {c}
          PROVE  StageOf(d)' = StageOf(d) /\ AnswerOf(d)' = AnswerOf(d)
        BY <1>1, <2>1, SameStage DEF InThread, Threads
    <2>4. StageOf(c)' = "idle" /\ AnswerOf(c)' = NULL
        <3>1. StageRight(c)' /\ AnswerRight(c)'
            BY StageIsNext
        <3>2. ~Sends(c)' /\ ~InThread(c)'
            BY <1>1, <2>1 DEF RInv, InThread, MessageInv, Sends, Threads
        <3>. QED
            BY <1>1, <2>1, <3>1, <3>2 DEF StageRight, AnswerRight
    <2>5. Stage' = [Stage EXCEPT ![c] = "idle"] /\ Answer' = [Answer EXCEPT ![c] = NULL]
        BY <2>3, <2>4, OneClient
    <2>. QED
        BY <1>1, <2>2, <2>5, SameTable DEF Remote!Abandon, Stage, Answer
<1>. QED
    BY <1>2, <1>3

(* A reply is sent; it is lost if the client has gone.                       *)
LEMMA SendMaps ==
    ASSUME RInv, RInv', NEW t \in Threads, Send(t)
    PROVE  (\E c \in Clients : Remote!Abandon(c)) \/ UNCHANGED Remote!vars
<1>. USE DEF Send
<1>1. PICK c \in Clients : c = hsock[t]
    BY DEF RInv, TypeOK, ThreadInv
<1>2. /\ UNCHANGED <<asked, outcome, inbox, hsock, closed>> /\ UNCHANGED table
      /\ hmsg[t] # NULL /\ Sends(c) /\ InThread(c)
    BY <1>1 DEF client, RInv, TypeOK, ThreadInv, MessageInv, Sends, InThread
<1>3. /\ inbox[c] = NULL /\ reply[c] = NULL
      /\ \A u \in Threads : hmsg'[u] = NULL /\ hpc'[u] # "send"
      /\ \A u \in Threads : hmsg[u] # NULL => u = t
    BY <1>2, OneAtWork DEF RInv, TypeOK, PlaceInv, MessageInv
<1>4. \A d \in Clients : d # c => reply'[d] = reply[d]
    BY <1>1 DEF RInv, TypeOK
<1>5. Stage[c] = "performed" /\ Answer[c] = hmsg[t]
    BY <1>1, <1>2, StageIs DEF StageRight, AnswerRight, Stage, Answer
<1>6. ASSUME NEW d \in Clients \ {c}
      PROVE  StageOf(d)' = StageOf(d) /\ AnswerOf(d)' = AnswerOf(d)
    <2>1. \A u \in Threads : hpc[u] = "send" => hmsg[u] # NULL
        BY DEF RInv, MessageInv
    <2>2. (\A u \in Threads : ~(hpc[u] = "send" /\ hsock[u] = d)) /\ ~InThread(d) /\ ~InThread(d)'
        BY <1>1, <1>2, <1>3, <2>1 DEF InThread, Threads
    <2>. QED
        BY <1>2, <1>3, <1>4, <2>2, SameStage
<1>7. StageRight(c)' /\ AnswerRight(c)'
    BY StageIsNext
<1>8. CASE closed[c] = "no"
    <2>1. reply'[c] = hmsg[t]
        BY <1>1, <1>8 DEF RInv, TypeOK
    <2>2. StageOf(c)' = "performed" /\ AnswerOf(c)' = hmsg[t]
        BY <1>2, <1>7, <2>1 DEF StageRight, AnswerRight
    <2>3. \A d \in Clients : StageOf(d)' = StageOf(d) /\ AnswerOf(d)' = AnswerOf(d)
        BY <1>5, <1>6, <2>2 DEF Stage, Answer
    <2>. QED
        BY <1>2, <2>3, Silent
<1>9. CASE closed[c] # "no"
    <2>1. reply' = reply
        BY <1>1, <1>9
    <2>2. ~Sends(c)' /\ ~InThread(c)'
        BY <1>3 DEF Sends, InThread, Threads
    <2>3. StageOf(c)' = "idle" /\ AnswerOf(c)' = NULL
        BY <1>2, <1>3, <1>7, <2>1, <2>2 DEF StageRight, AnswerRight
    <2>4. Stage' = [Stage EXCEPT ![c] = "idle"] /\ Answer' = [Answer EXCEPT ![c] = NULL]
        BY <1>6, <2>3, OneClient
    <2>. QED
        BY <1>2, <1>5, <2>4, SameTable DEF Remote!Abandon, Stage, Answer
<1>. QED
    BY <1>8, <1>9

(* The table has not finished: what it did does not show, or it has crashed. *)
LEMMA InvokeGoesOn ==
    ASSUME RInv, RInv', NEW t \in Threads, Invoke(t), ~(alive' /\ pc' = "idle")
    PROVE  Remote!Crash \/ UNCHANGED Remote!vars
<1>. USE DEF Invoke
<1>1. UNCHANGED <<asked, outcome, inbox, reply, hpc, hsock, hmsg>>
    BY DEF client, net
<1>2. TabT!IInv
    BY SameInvariant DEF RInv
<1>3. hmsg[t] \in ServerRequests
    BY DEF RInv, MessageInv
<1>4. ASSUME NEW c \in Clients
      PROVE  StageOf(c)' = StageOf(c) /\ AnswerOf(c)' = AnswerOf(c)
    BY <1>1, SameStage DEF InThread, Threads
<1>5. Stage' = Stage /\ Answer' = Answer
    BY <1>4 DEF Stage, Answer
<1>6. TabT!Next
    BY <1>3, OperateIsNext, SameNext
<1>7. Remote!Store!Crash \/ UNCHANGED Remote!store
    <2>1. ASSUME TabT!Crash PROVE Remote!Store!Crash
        <3>1. alive
            BY InvokeAlive
        <3>. QED
            BY <2>1, <3>1, TabT!CrashMaps, SameOperations, TableAssumptions
    <2>2. CASE TabT!GetKeysBegin
        BY <2>2, TabT!SameStoreSameMap, SameOperations, TableAssumptions
           DEF TabT!GetKeysBegin, TabT!store, TabT!Map!vars
    <2>3. CASE TabT!Scan
        <3>1. CASE TabT!ScanBucket
            BY <3>1, TabT!SameStoreSameMap, SameOperations, TableAssumptions
               DEF TabT!ScanBucket, TabT!store, TabT!Map!vars
        <3>2. CASE TabT!GetKeysEnd
            BY <3>2, InvokeAlive DEF TabT!GetKeysEnd
        <3>. QED
            BY <2>1, <2>3, <3>1, <3>2 DEF TabT!Scan, TabT!ScanCrash, TabT!EndMarkCrash
    <2>4. CASE \E k \in ServerKeys, v \in Vals : TabT!Put(k, v)
        BY <2>1, <2>4, InvokeAlive
           DEF TabT!Put, TabT!PutNew, TabT!PutReplace, TabT!WildPut, TabT!Ready, TabT!loop
    <2>5. CASE \E k \in ServerKeys : TabT!Get(k)
        BY <2>1, <2>5, InvokeAlive
           DEF TabT!Get, TabT!GetNone, TabT!GetLookup, TabT!WildGet, TabT!Ready, TabT!loop
    <2>6. CASE \E k \in ServerKeys : TabT!Del(k)
        BY <2>1, <2>6, InvokeAlive
           DEF TabT!Del, TabT!DelEntry, TabT!DelSole, TabT!DelMissing, TabT!DelPhantom,
               TabT!WildDel, TabT!Ready, TabT!loop
    <2>7. CASE TabT!Size
        BY <2>7, InvokeAlive DEF TabT!Size, TabT!Ready, TabT!loop
    <2>. QED
        BY <1>6, <2>2, <2>3, <2>4, <2>5, <2>6, <2>7 DEF TabT!Next
<1>8. CASE Remote!Store!Crash
    BY <1>1, <1>5, <1>8 DEF Remote!Crash, Stage, Answer
<1>9. CASE UNCHANGED Remote!store
    BY <1>1, <1>5, <1>9 DEF Remote!vars, Stage, Answer
<1>. QED
    BY <1>7, <1>8, <1>9

(* What the server makes of a request keeps its kind and its word.           *)
LEMMA ReceivedRequest ==
    ASSUME NEW m \in Requests, NEW tail \in Tails
    PROVE  /\ Received(m, tail) \in ServerRequests
           /\ Received(m, tail).opcode = m.opcode
           /\ m.opcode = OP_PUT =>
                /\ Received(m, tail).entry.key = <<m.entry.key, tail>>
                /\ Received(m, tail).entry.value = m.entry.value
                /\ m.entry.value \in Vals
                /\ <<m.entry.key, tail>> \in ServerKeys
           /\ m.opcode \in {OP_GET, OP_DEL} => Received(m, tail).key \in ServerKeys
<1>. USE DEF PutMsg, KeyMsg, BareMsg, OP_PUT, OP_GET, OP_DEL, OP_SIZE, OP_GETKEYS
<1>1. Received(m, tail) \in ServerRequests
    BY DEF ServerRequests
<1>2. CASE \E w \in Words, v \in Vals : m = PutMsg(w, v)
    <2>1. PICK w \in Words, v \in Vals : m = PutMsg(w, v)
        BY <1>2
    <2>2. Received(m, tail) = PutMsg(<<w, tail>>, v) /\ <<w, tail>> \in ServerKeys
        BY <2>1 DEF Received, CT_KEY, CT_ENTRY, ServerKeys
    <2>. QED
        BY <1>1, <2>1, <2>2
<1>3. CASE \E op \in {OP_GET, OP_DEL}, w \in Words : m = KeyMsg(op, w)
    <2>1. PICK op \in {OP_GET, OP_DEL}, w \in Words : m = KeyMsg(op, w)
        BY <1>3
    <2>2. Received(m, tail) = KeyMsg(op, <<w, tail>>) /\ <<w, tail>> \in ServerKeys
        BY <2>1 DEF Received, CT_KEY, CT_ENTRY, ServerKeys
    <2>. QED
        BY <1>1, <2>1, <2>2
<1>4. CASE \E op \in {OP_SIZE, OP_GETKEYS} : m = BareMsg(op)
    BY <1>1, <1>4 DEF Received, CT_NONE, CT_KEY, CT_ENTRY
<1>. QED
    BY <1>2, <1>3, <1>4 DEF Requests

(* The table has its result: the call is performed, as one operation of the  *)
(* map, with the answer the client will get.                                 *)
LEMMA InvokeDone ==
    ASSUME RInv, RInv', CallInv, NEW t \in Threads, Invoke(t), alive', pc' = "idle"
    PROVE  \E c \in Clients : Remote!Perform(c)
<1>. USE DEF Invoke
<1>1. PICK c \in Clients : c = hsock[t]
    BY DEF RInv, TypeOK, ThreadInv
<1>2. /\ UNCHANGED <<asked, outcome, inbox, reply, hsock>>
      /\ hmsg' = [hmsg EXCEPT ![t] = Reply(ret')]
      /\ hpc' = [hpc EXCEPT ![t] = "send"]
      /\ hpc \in [Threads -> {"none", "start", "receive", "lock", "invoke", "send", "spin", "done"}]
      /\ DOMAIN hmsg = Threads
      /\ alive
    BY InvokeAlive DEF client, net, RInv, TypeOK
<1>3. PICK tail \in Tails : hmsg[t] = Received(asked[c], tail)
    BY <1>1 DEF CallInv
<1>4. asked[c] \in Requests
    BY <1>1 DEF CallInv, RInv, TypeOK
<1>5. /\ InThread(c) /\ \A u \in Threads : hmsg[u] # NULL => u = t
      /\ reply[c] = NULL /\ ~Sends(c)
    <2>1. InThread(c) /\ hmsg[t] # NULL /\ hpc[t] = "invoke"
        BY <1>1 DEF InThread, RInv, MessageInv
    <2>2. \A u \in Threads : hmsg[u] # NULL => u = t
        BY <2>1, OneAtWork
    <2>. QED
        BY <2>1, <2>2 DEF RInv, PlaceInv, MessageInv, Sends
<1>6. Stage[c] = "called"
    BY <1>5, StageIs DEF StageRight, Stage
<1>7. ASSUME NEW d \in Clients \ {c}
      PROVE  StageOf(d)' = StageOf(d) /\ AnswerOf(d)' = AnswerOf(d)
    BY <1>1, <1>2, SameStage DEF InThread, Threads
<1>8. StageOf(c)' = "performed" /\ AnswerOf(c)' = Reply(ret')
    <2>1. StageRight(c)' /\ AnswerRight(c)'
        BY StageIsNext
    <2>2. t \in Threads' /\ hsock'[t] = c /\ hpc'[t] = "send" /\ hmsg'[t] = Reply(ret')
        BY <1>1, <1>2 DEF Threads
    <2>3. Sends(c)'
        BY <2>2 DEF Sends
    <2>. QED
        BY <2>1, <2>2, <2>3 DEF StageRight, AnswerRight
<1>9. Stage' = [Stage EXCEPT ![c] = "performed"] /\ Answer' = [Answer EXCEPT ![c] = Reply(ret')]
    BY <1>7, <1>8, OneClient
<1>10. Remote!Operate(asked[c])
    <2>. DEFINE m == asked[c]
                r == hmsg[t]
    <2>1. TabT!IInv
        BY SameInvariant DEF RInv
    <2>2. ~TabT!Map!Crash
        BY DEF TabT!Map!Crash
    <2>3. /\ r \in ServerRequests /\ r.opcode = m.opcode
          /\ m.opcode = OP_PUT =>
                r.entry.key = <<m.entry.key, tail>> /\ r.entry.value = m.entry.value
                  /\ m.entry.value \in Vals /\ <<m.entry.key, tail>> \in ServerKeys
          /\ m.opcode \in {OP_GET, OP_DEL} =>
                r.key \in ServerKeys /\ Remote!Received(m, tail).key = r.key
        BY <1>3, <1>4, ReceivedRequest, SameMessages
    <2>4. CASE r.opcode = OP_SIZE /\ Tab!Size
        <3>1. TabT!Map!Size
            BY <2>4, SameActions, TabT!SameStoreSameMap, TableAssumptions
               DEF TabT!Size, TabT!Ready, TabT!SizeRet, TabT!store, TabT!Map!Size
        <3>. QED
            BY <2>3, <2>4, <3>1, SameOperations, SameMessages DEF Remote!Operate
    <2>5. CASE r.opcode = OP_DEL /\ Tab!Del(r.key)
        <3>1. r.key \in ServerKeys /\ Remote!Received(m, tail).key = r.key
            BY <2>3, <2>5
        <3>2. TabT!Map!DelPresent(r.key) \/ TabT!Map!DelAbsent(r.key)
            BY <2>1, <2>2, <2>5, <3>1, SameActions, TabT!DelMaps, TableAssumptions
        <3>. QED
            BY <2>3, <2>5, <3>1, <3>2, SameOperations, SameMessages DEF Remote!Operate
    <2>6. CASE r.opcode = OP_GET /\ Tab!Get(r.key)
        <3>1. r.key \in ServerKeys /\ Remote!Received(m, tail).key = r.key
            BY <2>3, <2>6
        <3>2. TabT!Map!Get(r.key)
            BY <2>1, <2>2, <2>6, <3>1, SameActions, TabT!GetMaps, TableAssumptions
        <3>. QED
            BY <2>3, <2>6, <3>1, <3>2, SameOperations, SameMessages DEF Remote!Operate
    <2>7. CASE r.opcode = OP_PUT /\ Tab!Put(r.entry.key, r.entry.value)
        <3>1. /\ <<m.entry.key, tail>> \in ServerKeys /\ m.entry.value \in Vals
              /\ Tab!Put(<<m.entry.key, tail>>, m.entry.value)
            BY <2>3, <2>7
        <3>2. TabT!Map!Put(<<m.entry.key, tail>>, m.entry.value)
            BY <2>1, <2>2, <3>1, SameActions, TabT!PutMaps, TableAssumptions
        <3>. QED
            BY <2>3, <2>7, <3>2, SameOperations, SameMessages DEF Remote!Operate
    <2>8. CASE r.opcode = OP_GETKEYS /\ (Tab!GetKeysBegin \/ Tab!Scan)
        <3>1. TabT!GetKeysEnd
            BY <2>8, SameActions
               DEF TabT!GetKeysBegin, TabT!Scan, TabT!ScanBucket, TabT!ScanCrash,
                   TabT!EndMarkCrash, TabT!Crash
        <3>2. TabT!Map!GetKeys
            BY <2>1, <2>2, <3>1, TabT!EndMaps, TableAssumptions
        <3>. QED
            BY <2>3, <2>8, <3>2, SameOperations, SameMessages DEF Remote!Operate
    <2>. QED
        BY <2>4, <2>5, <2>6, <2>7, <2>8 DEF Operate
<1>. QED
    BY <1>2, <1>6, <1>9, <1>10, SameMessages DEF Remote!Perform, Stage, Answer

(* A request goes from the socket to the thread: the call is still called.   *)
LEMMA ReceiveMaps ==
    ASSUME RInv, RInv', NEW t \in Threads, Receive(t)
    PROVE  UNCHANGED Remote!vars
<1>. USE DEF Receive
<1>1. PICK c \in Clients : c = hsock[t]
    BY DEF RInv, TypeOK, ThreadInv
<1>2. /\ UNCHANGED <<asked, outcome, reply, hsock>> /\ UNCHANGED table
      /\ inbox[c] # NULL /\ hmsg[t] = NULL /\ hpc'[t] = "lock"
      /\ \A u \in Threads : u # t => hmsg'[u] = hmsg[u] /\ hpc'[u] = hpc[u]
      /\ \A d \in Clients : d # c => inbox'[d] = inbox[d]
    BY <1>1 DEF client, RInv, TypeOK, MessageInv
<1>3. hmsg'[t] # NULL
    BY <1>2 DEF RInv, MessageInv, Threads
<1>4. \A d \in Clients : d # c => (InThread(d)' <=> InThread(d))
    BY <1>1, <1>2 DEF InThread, Threads
<1>5. InThread(c)'
    BY <1>1, <1>2, <1>3 DEF InThread, Threads
<1>6. \A u \in Threads : (hpc[u] = "send")' <=> hpc[u] = "send"
    BY <1>2
<1>7. ASSUME NEW d \in Clients
      PROVE  StageOf(d)' = StageOf(d) /\ AnswerOf(d)' = AnswerOf(d)
    BY <1>2, <1>4, <1>5, <1>6, SameStage
<1>. QED
    BY <1>2, <1>7, Silent

(* Every step of the system is a step of the atomic map or does not show.    *)
LEMMA NextMaps ==
    ASSUME RInv, RInv', CallInv, [Next]_vars
    PROVE  [Remote!Next]_(Remote!vars)
<1>. USE DEF Remote!Next
<1>1. ASSUME NEW c \in Clients, NEW m \in Requests, Calls(c, m)
      PROVE  [Remote!Next]_(Remote!vars)
    BY <1>1, CallMaps
<1>2. ASSUME NEW c \in Clients, Returns(c)
      PROVE  [Remote!Next]_(Remote!vars)
    <2>1. CASE ReturnNever(c)
        BY <2>1, QuietSteps DEF ReturnNever, net, handlers, Threads
    <2>. QED
        BY <1>2, <2>1, ReturnMaps, ReturnResetMaps DEF Returns
<1>3. ASSUME NEW c \in Clients, User(c)
      PROVE  [Remote!Next]_(Remote!vars)
    <2>1. CASE Connect(c) \/ ConnectFails(c) \/ Quit(c)
        BY <2>1, QuietSteps DEF Connect, ConnectFails, Quit, net, handlers, Threads
    <2>. QED
        BY <1>1, <1>3, <2>1, KillMaps, AskingRequests DEF User
<1>4. CASE Main \/ ServerKilled
    <2>1. CASE Accept
        <3>1. \A t \in Threads : (hpc[t] = "send")' <=> hpc[t] = "send"
            <4>1. n + 1 \in Threads /\ hpc[n + 1] = "none"
                BY <2>1, RoomForThread DEF Accept, Threads, RInv, TypeOK, ThreadInv
            <4>. QED
                BY <2>1, <4>1 DEF Accept, RInv, TypeOK
        <3>. QED
            BY <2>1, <3>1, QuietSteps DEF Accept, client
    <2>2. CASE Join
        BY <2>2, QuietSteps DEF Join, client, net, handlers, Threads
    <2>3. CASE AcceptAbort \/ ServerKilled
        <3>1. UNCHANGED <<asked, outcome, inbox, reply, hpc, hsock, hmsg>> /\ alive /\ Tab!Crash
            BY <2>3 DEF AcceptAbort, ServerKilled, client, net, handlers
        <3>2. Stage' = Stage /\ Answer' = Answer
            BY <3>1, SameStage DEF InThread, Threads, Stage, Answer
        <3>3. TabT!Crash
            BY <3>1 DEF Tab!Crash, TabT!Crash, Tab!store, TabT!store, Tab!loop, TabT!loop
        <3>4. Remote!Store!Crash
            BY <3>1, <3>3, TabT!CrashMaps, SameOperations, TableAssumptions
        <3>. QED
            BY <3>1, <3>2, <3>4 DEF Remote!Crash, Stage, Answer
    <2>. QED
        BY <1>4, <2>1, <2>2, <2>3 DEF Main
<1>5. ASSUME NEW t \in Threads, Handler(t)
      PROVE  [Remote!Next]_(Remote!vars)
    <2>1. CASE HandlerStart(t)
        <3>1. hmsg[t] = NULL
            BY <2>1 DEF HandlerStart, RInv, MessageInv
        <3>. QED
            BY <2>1, <3>1, QuietSteps DEF HandlerStart, client, net, RInv, TypeOK
    <2>2. CASE Receive(t)
        BY <2>2, ReceiveMaps
    <2>3. CASE ReceiveNever(t) \/ ReceiveReset(t) \/ Lock(t)
        BY <2>3, QuietSteps DEF ReceiveNever, ReceiveReset, Lock, client, net, RInv, TypeOK
    <2>4. CASE Invoke(t)
        BY <2>4, InvokeGoesOn, InvokeDone
    <2>. QED
        BY <1>5, <2>1, <2>2, <2>3, <2>4, SendMaps DEF Handler
<1>6. CASE UNCHANGED vars
    BY <1>6, QuietSteps DEF vars, client, net, main, handlers, Threads
<1>. QED
    BY <1>2, <1>3, <1>4, <1>5, <1>6 DEF Next

(* Nobody has asked anything and the map is empty.                           *)
LEMMA InitMapsRemote == Init => CallInv /\ Remote!Init
<1> SUFFICES ASSUME Init PROVE CallInv /\ Remote!Init
    OBVIOUS
<1>1. CallInv
    BY DEF Init, CallInv
<1>2. TabT!Init
    BY DEF Init, Tab!Init, TabT!Init, Tab!Buckets, TabT!Buckets, Tab!NoRet, TabT!NoRet
<1>3. Remote!Store!Init
    BY <1>2, SameValuation, SameMessages, TabT!InitMaps, TableAssumptions
       DEF TabT!Map!Init, Remote!Store!Init
<1>4. \A c \in Clients : StageOf(c) = "idle" /\ AnswerOf(c) = NULL
    BY DEF Init, StageOf, AnswerOf, Places
<1>. QED
    BY <1>1, <1>3, <1>4 DEF Init, Remote!Init

(* Clients, connections, threads, the mutex and the buckets implement the    *)
(* atomic remote map, for any number of clients, keys, values and buckets.   *)
THEOREM RemoteImplementsMap == Spec => ImplementsRemoteMap
<1>1. Init => RInv /\ CallInv /\ Remote!Init
    BY InitRInv, InitMapsRemote
<1>2. RInv /\ CallInv /\ [Next]_vars => RInv' /\ CallInv'
    BY NextKeepsRInv, NextKeepsCallInv
<1>3. RInv /\ RInv' /\ CallInv /\ [Next]_vars => [Remote!Next]_(Remote!vars)
    BY NextMaps
<1>. QED
    BY <1>1, <1>2, <1>3, PTL DEF Spec, ImplementsRemoteMap, Remote!Spec
=============================================================================
