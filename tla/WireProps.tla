------------------------------ MODULE WireProps ------------------------------
(* The properties of one connection. *)
EXTENDS Wire

(* The messages side s sends, and what the other makes of them. *)
SentBy(s) == IF s = "client" THEN Requests ELSE Answers
KeptOf(s) == {Kept(m) : m \in SentBy(s)}

(* The shape of the state. Nothing is gathered but while a message is read.  *)
TypeOK ==
    /\ at \in [Sides -> {"ready", "serve", "write", "read", "spin", "done"}]
    /\ out \in [Sides -> Seq(Octets)]
    /\ in \in [Sides -> Seq(Octets)]
    /\ \A s \in Sides : at[s] \notin {"read", "spin", "done"} => in[s] = <<>>
    /\ stream \in [Sides -> Seq(Octets)]
    /\ end \in [Sides -> {"open", "fin", "rst"}]
    /\ DOMAIN sent = Sides /\ \A s \in Sides : sent[s] \in SentBy(s) \cup {NULL}
    /\ DOMAIN got = Sides /\ \A s \in Sides : got[s] \in KeptOf(Peer(s)) \cup {NULL}

(* However write_all and read_all cut the stream: what a receiver has        *)
(* gathered, what is on its way and what the sender has yet to write, or     *)
(* never will because it ended, are always the octets of one message, none   *)
(* lost, doubled or out of order, and nothing is left in the connection once *)
(* that message is received.                                                 *)
StreamIsMessage ==
    \A s \in Sides :
        end[s] = "open" =>
            in[s] \o stream[s] \o out[Peer(s)] =
              IF sent[Peer(s)] = NULL THEN <<>> ELSE Marshal(sent[Peer(s)])

(* The two sides take turns: while one prepares or writes a message the      *)
(* other waits for it, or is gone, and whoever prepares one has nothing left *)
(* of another, neither to write nor to read. Without this the octets of two  *)
(* messages could meet in a stream: nothing on the wire separates them.      *)
Speaks(s) == at[s] \in {"ready", "serve", "write"}

TakesTurns ==
    /\ ~ (Speaks("client") /\ Speaks("server"))
    /\ sent["client"] = NULL \/ sent["server"] = NULL
    /\ \A s \in Sides :
         /\ at[s] = "done" <=> end[s] # "open"
         /\ at[s] # (IF s = "client" THEN "serve" ELSE "ready")
         /\ at[s] \in {"ready", "serve"} => sent[s] = NULL
         /\ Speaks(s) => sent[Peer(s)] = NULL
         /\ at[s] = "write" => sent[s] # NULL /\ out[s] # <<>>
         /\ at[s] \in {"ready", "serve", "read", "spin"} => out[s] = <<>>

(* The two never wait for each other. While both processes run one of them   *)
(* prepares a message, or there is room for an octet that it writes, or an   *)
(* octet on the way that it reads, because the field it asks for goes on: no *)
(* receiver waits for octets behind the message, and no writer for a reader  *)
(* that does not read.                                                       *)
CanMove(s) ==
    \/ at[s] \in {"ready", "serve"}
    \/ at[s] = "write" /\ Len(stream[Peer(s)]) < Capacity
    \/ at[s] = "read" /\ stream[s] # <<>> /\ Len(in[s]) < FieldEnd(s, in[s])

OneCanMove == (\A s \in Sides : at[s] # "done") => \E s \in Sides : CanMove(s)

(* A message counts as posted with its last octet written. *)
StateOf(s) ==
    IF at[s] = "done" THEN "ended"
    ELSE IF at[s] \in {"read", "spin"} THEN "waits" ELSE "active"

OnTheWay(s) ==
    IF at[s] # "done" /\ out[Peer(s)] = <<>> THEN sent[Peer(s)] ELSE NULL

(* What a message that is held says, in the terms of a message that is sent: *)
(* of a value the octets, not the size that is noted with them.              *)
Content(m) ==
    IF m = NULL THEN NULL
    ELSE CASE m.c_type = CT_VALUE -> [m EXCEPT !.value = @.data]
           [] m.c_type = CT_ENTRY /\ m.entry # NULL -> [m EXCEPT !.entry.value = @.data]
           [] OTHER -> m

Whole == INSTANCE Connection WITH
           state <- [s \in Sides |-> StateOf(s)],
           chan <- [s \in Sides |-> OnTheWay(s)],
           got <- [s \in Sides |-> Content(got[s])],
           Posted <- SentBy

(* Octets, cut anywhere by reads, writes and interrupts, with either process *)
(* ending at any octet, implement a connection that carries whole messages,  *)
(* and what a receiver makes of each says what the sender's said, octet by   *)
(* octet of every key and value: what RemoteTable takes for granted.         *)
ImplementsConnection == Whole!Spec

(* test_message.c, lines 169 and 232: a value that was received has the size *)
(* of the one that was sent. The code leaves it the size of the base64 text. *)
SizeIntact ==
    \A s \in Sides :
        LET m == got[s]
        IN  m # NULL =>
              /\ m.c_type = CT_VALUE => m.value.datasize = Len(m.value.data)
              /\ m.c_type = CT_ENTRY => m.entry.value.datasize = Len(m.entry.value.data)

(* A message that a side begins to write comes to be received whole, unless  *)
(* one of the sides ends: neither waits for octets the other will not send,  *)
(* also when the connection holds less than a message.                       *)
MessageArrives ==
    \A s \in Sides :
        at[s] = "write" ~> \/ at[Peer(s)] \in {"ready", "serve", "done"}
                           \/ at[s] = "done"
=============================================================================
