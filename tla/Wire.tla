-------------------------------- MODULE Wire --------------------------------
(* One connection between a client and its handler thread, octet by octet:   *)
(* write_all and read_all of source/read_write.c, network_send_receive of    *)
(* source/network_client.c, network_receive and network_send of              *)
(* source/network_server.c. A write or a read moves any part of what it was  *)
(* asked for, or is interrupted; either process may end at any moment.       *)
EXTENDS Messages

CONSTANTS
    Results,   \* numbers the server answers
    KeyLists,  \* what it answers to getkeys
    Capacity   \* octets on the way in one direction

ASSUME WireAssumption == Capacity \in Nat \ {0}

(* Sizes fit their fields: a line has less than 200 characters (COM_SPACE of *)
(* source/table-client.c), and a value at least one, or entry_create makes   *)
(* nothing of it.                                                            *)
MaxShort == 32767
MaxLong == 2147483647

Texts == {w \in Seq(Octets) : Len(w) <= MaxShort}

ASSUME SizesAssumption ==
    /\ Words \subseteq Texts
    /\ \A v \in Vals : v \in Seq(Octets) /\ Len(v) > 0 /\ Base64Length(Len(v)) <= MaxLong
    /\ \A r \in Results : r \in Int /\ -MaxLong - 1 <= r /\ r <= MaxLong
    /\ \A ks \in KeyLists : ks \in Seq(Texts) /\ Len(ks) <= MaxLong

VARIABLES
    at,      \* side -> where its program stands
    out,     \* side -> what write_all has yet to write
    in,      \* side -> what of the message read_all has read
    stream,  \* side -> the octets on the way to it
    end,     \* side -> how its own end of the connection was closed
    sent,    \* side -> the message it marshalled, until the other has it
    got      \* side -> the message it received, until its own is written

vars == <<at, out, in, stream, end, sent, got>>

Sides == {"client", "server"}
Peer(s) == IF s = "client" THEN "server" ELSE "client"

Answers ==
    {BareMsg(op) : op \in {OP_PUT + 1, OP_DEL + 1, OP_ERROR}}
        \cup [opcode : {OP_GET + 1}, c_type : {CT_VALUE}, value : Vals]
        \cup [opcode : {OP_SIZE + 1}, c_type : {CT_RESULT}, result : Results]
        \cup [opcode : {OP_GETKEYS + 1}, c_type : {CT_KEYS}, keys : KeyLists]

(* No message, entry or value, sent or held, is the null pointer. *)
ASSUME AnswersAssumption ==
    /\ NULL \notin Answers \cup Vals
    /\ \A m \in Requests \cup Answers : NULL # Kept(m)
    /\ \A v \in Vals :
         NULL # Grown(v) /\ \A w \in Words : NULL # [key |-> w, value |-> Grown(v)]

Init ==
    /\ at = [s \in Sides |-> IF s = "client" THEN "ready" ELSE "read"]
    /\ out = [s \in Sides |-> <<>>]
    /\ in = [s \in Sides |-> <<>>]
    /\ stream = [s \in Sides |-> <<>>]
    /\ end = [s \in Sides |-> "open"]
    /\ sent = [s \in Sides |-> NULL]
    /\ got = [s \in Sides |-> NULL]

-----------------------------------------------------------------------------
(* Receivers ask read_all for one field after the other: the sizes they have *)
(* read say how long the next one is. These are the ends of the field that   *)
(* is being read when the message has a key, or data, at offset o.           *)

(* Mutant: two octets more, those the buffer is reallocated with. *)
KeyEndTwice(buf, o) ==
    IF Len(buf) < o + 2 THEN o + 2 ELSE o + 2 + 2 + ToShort(buf, o)

KeyEnd(buf, o) == IF Len(buf) < o + 2 THEN o + 2 ELSE o + 2 + ToShort(buf, o)
DataEnd(buf, o) == IF Len(buf) < o + 4 THEN o + 4 ELSE o + 4 + ToLong(buf, o)

EntryEnd(buf, o) ==
    LET e == KeyEnd(buf, o) IN IF Len(buf) < e THEN e ELSE DataEnd(buf, e)

(* The loop over the keys: where its j-th turn ends, or the field in it that *)
(* is not complete.                                                          *)
KeysEnd(buf, o) ==
    LET n == ToLong(buf, o)
        turn[j \in 0..n] ==
          IF j = 0 THEN o + 4
          ELSE IF Len(buf) < turn[j - 1] THEN turn[j - 1]
          ELSE KeyEnd(buf, turn[j - 1])
    IN  IF Len(buf) < o + 4 THEN o + 4 ELSE turn[n]

(* The end of the field that side s reads when it has read buf; all of buf   *)
(* when the message is complete. Each side reads what the other sends.       *)
FieldEnd(s, buf) ==
    IF Len(buf) < 2 THEN 2
    ELSE IF Len(buf) < 4 THEN 4
    ELSE LET ct == ToShort(buf, 2)
         IN  CASE s = "server" /\ ct = CT_KEY -> KeyEnd(buf, 4)
               [] s = "server" /\ ct = CT_ENTRY -> EntryEnd(buf, 4)
               [] s = "client" /\ ct = CT_VALUE -> DataEnd(buf, 4)
               [] s = "client" /\ ct = CT_KEYS -> KeysEnd(buf, 4)
               [] s = "client" /\ ct = CT_RESULT -> 8
               [] OTHER -> 4

-----------------------------------------------------------------------------
(* message_to_buffer, and write_all is about to start. *)
Marshals(s, m) ==
    /\ sent' = [sent EXCEPT ![s] = m]
    /\ out' = [out EXCEPT ![s] = Marshal(m)]
    /\ at' = [at EXCEPT ![s] = "write"]
    /\ UNCHANGED <<in, stream, end, got>>

Ask(m) == at["client"] = "ready" /\ Marshals("client", m)

(* Mutant: the handler answers before it has read a whole request. *)
ServeAhead(m) == at["server"] \in {"read", "serve"} /\ Marshals("server", m)

Serve(m) == at["server"] = "serve" /\ Marshals("server", m)

(* Mutant: what one write took is taken for all there was to write. *)
WriteOnce(s, n) ==
    /\ at[s] = "write"
    /\ n \in 1..Len(out[s])
    /\ IF end[Peer(s)] = "open"
       THEN /\ Len(stream[Peer(s)]) + n <= Capacity
            /\ stream' = [stream EXCEPT ![Peer(s)] = @ \o SubSeq(out[s], 1, n)]
       ELSE UNCHANGED stream
    /\ out' = [out EXCEPT ![s] = <<>>]
    /\ got' = [got EXCEPT ![s] = NULL]
    /\ at' = [at EXCEPT ![s] = "read"]
    /\ UNCHANGED <<in, end, sent>>

(* One turn of write_all: n octets of the rest are on their way, or lost if  *)
(* nobody is there to read them. After the last one the side reads.          *)
Write(s, n) ==
    /\ at[s] = "write"
    /\ n \in 1..Len(out[s])
    /\ IF end[Peer(s)] = "open"
       THEN /\ Len(stream[Peer(s)]) + n <= Capacity
            /\ stream' = [stream EXCEPT ![Peer(s)] = @ \o SubSeq(out[s], 1, n)]
       ELSE UNCHANGED stream
    /\ out' = [out EXCEPT ![s] = SubSeq(@, n + 1, Len(@))]
    /\ IF n = Len(out[s])
       THEN /\ at' = [at EXCEPT ![s] = "read"]
            /\ got' = [got EXCEPT ![s] = NULL]
       ELSE UNCHANGED <<at, got>>
    /\ UNCHANGED <<in, end, sent>>

(* Mutant: the buffer of the last message is used again. *)
GathersOn(s, buf) ==
    /\ in' = [in EXCEPT ![s] = buf]
    /\ IF FieldEnd(s, buf) > Len(buf)
       THEN UNCHANGED <<at, sent, got>>
       ELSE /\ got' = [got EXCEPT ![s] = Unmarshal(buf)]
            /\ sent' = [sent EXCEPT ![Peer(s)] = NULL]
            /\ at' = [at EXCEPT ![s] = IF s = "client" THEN "ready" ELSE "serve"]

(* What the receiver has gathered is a message, or there is more to read. *)
Gathers(s, buf) ==
    IF FieldEnd(s, buf) > Len(buf)
    THEN /\ in' = [in EXCEPT ![s] = buf]
         /\ UNCHANGED <<at, sent, got>>
    ELSE /\ in' = [in EXCEPT ![s] = <<>>]
         /\ got' = [got EXCEPT ![s] = Unmarshal(buf)]
         /\ sent' = [sent EXCEPT ![Peer(s)] = NULL]
         /\ at' = [at EXCEPT ![s] = IF s = "client" THEN "ready" ELSE "serve"]

(* One turn of read_all: n octets, no more than the field still lacks. *)
Read(s, n) ==
    /\ at[s] = "read"
    /\ n \in 1..Len(stream[s])
    /\ n <= FieldEnd(s, in[s]) - Len(in[s])
    /\ stream' = [stream EXCEPT ![s] = SubSeq(@, n + 1, Len(@))]
    /\ Gathers(s, in[s] \o SubSeq(stream[s], 1, n))
    /\ UNCHANGED <<out, end>>

(* EINTR: the turn is repeated with what is left. *)
Interrupted(s) == at[s] \in {"read", "write"} /\ UNCHANGED vars

(* The other side is gone and has left nothing to read: 0, again and again.  *)
ReadNever(s) ==
    /\ at[s] = "read"
    /\ stream[s] = <<>>
    /\ end[Peer(s)] = "fin"
    /\ at' = [at EXCEPT ![s] = "spin"]
    /\ UNCHANGED <<out, in, stream, end, sent, got>>

-----------------------------------------------------------------------------
(* A side closes its end: unread octets reset the connection. *)
Closes(s) ==
    /\ end' = [end EXCEPT ![s] = IF stream[s] = <<>> THEN "fin" ELSE "rst"]
    /\ stream' = [stream EXCEPT ![s] = <<>>]

(* A read from or a write to a connection that was reset, or a second write  *)
(* to a closed one: -1, and the caller closes the socket; a signal that ends *)
(* the process closes it too.                                                *)
Fails(s) ==
    /\ \/ at[s] = "read" /\ end[Peer(s)] = "rst" /\ stream[s] = <<>>
       \/ at[s] = "write" /\ end[Peer(s)] # "open"
    /\ at' = [at EXCEPT ![s] = "done"]
    /\ Closes(s)
    /\ UNCHANGED <<out, in, sent, got>>

(* The process is killed, or the client quits. *)
Ends(s) ==
    /\ at[s] # "done"
    /\ at' = [at EXCEPT ![s] = "done"]
    /\ Closes(s)
    /\ UNCHANGED <<out, in, sent, got>>

-----------------------------------------------------------------------------
Moves(s) ==
    \/ \E n \in 1..Capacity : Write(s, n) \/ Read(s, n)
    \/ Interrupted(s) \/ ReadNever(s) \/ Fails(s)

Next ==
    \/ \E m \in Requests : Ask(m)
    \/ \E m \in Answers : Serve(m)
    \/ \E s \in Sides : Moves(s) \/ Ends(s)

Spec == Init /\ [][Next]_vars

(* The system calls return; what the user asks, and that the server answers, *)
(* is not part of this module.                                               *)
FairSpec == Spec /\ \A s \in Sides : WF_vars(Moves(s))
=============================================================================
