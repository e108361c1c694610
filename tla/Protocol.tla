------------------------------ MODULE Protocol ------------------------------
(* The messages of include/message.h: what source/client_stub.c asks, what   *)
(* invoke of source/table_skel.c answers, and what the bytes become on the   *)
(* way. The member of the content union that c_type selects is a field of    *)
(* the message; a message with CT_NONE has none.                             *)
EXTENDS Integers, Sequences

CONSTANTS
    Words,   \* the keys as the users type them
    Tails,   \* what can follow a received key up to the next zero byte
    Vals,    \* the values
    NoVal,   \* the NULL that table_get answers
    NULL     \* no message, or the NULL or -1 of a failed call

OP_SIZE == 10
OP_DEL == 20
OP_GET == 30
OP_PUT == 40
OP_GETKEYS == 50
OP_ERROR == 99

CT_KEY == 10
CT_VALUE == 20
CT_ENTRY == 30
CT_KEYS == 40
CT_RESULT == 50
CT_NONE == 60

-----------------------------------------------------------------------------
(* What the stub sends. *)
PutMsg(w, v) == [opcode |-> OP_PUT, c_type |-> CT_ENTRY,
                 entry |-> [key |-> w, value |-> v]]
KeyMsg(op, w) == [opcode |-> op, c_type |-> CT_KEY, key |-> w]
BareMsg(op) == [opcode |-> op, c_type |-> CT_NONE]

Requests ==
    {PutMsg(w, v) : w \in Words, v \in Vals}
        \cup {KeyMsg(op, w) : op \in {OP_GET, OP_DEL}, w \in Words}
        \cup {BareMsg(op) : op \in {OP_SIZE, OP_GETKEYS}}

(* buffer_to_message on the server copies a key without a zero byte behind   *)
(* it: the key the table sees is the word and what follows it in memory.     *)
ServerKeys == Words \X Tails

Received(m, tail) ==
    CASE m.c_type = CT_KEY -> [m EXCEPT !.key = <<@, tail>>]
      [] m.c_type = CT_ENTRY -> [m EXCEPT !.entry.key = <<@, tail>>]
      [] OTHER -> m

(* The requests as the server holds them. *)
ServerRequests == {Received(m, tail) : m \in Requests, tail \in Tails}

-----------------------------------------------------------------------------
(* Mutant: a get that found nothing is answered with a value all the same. *)
ReplyUnchecked(r) ==
    CASE r.op = "put" -> BareMsg(OP_PUT + 1)
      [] r.op = "del" /\ r.code # -1 -> BareMsg(OP_DEL + 1)
      [] r.op = "get" ->
           [opcode |-> OP_GET + 1, c_type |-> CT_VALUE, value |-> r.value]
      [] r.op = "size" ->
           [opcode |-> OP_SIZE + 1, c_type |-> CT_RESULT, result |-> r.size]
      [] r.op = "getkeys" ->
           [opcode |-> OP_GETKEYS + 1, c_type |-> CT_KEYS, keys |-> r.keys]
      [] OTHER -> BareMsg(OP_ERROR)

(* What invoke makes of the message, from what the table returned. *)
Reply(r) ==
    CASE r.op = "put" -> BareMsg(OP_PUT + 1)
      [] r.op = "del" /\ r.code # -1 -> BareMsg(OP_DEL + 1)
      [] r.op = "get" /\ r.value # NoVal ->
           [opcode |-> OP_GET + 1, c_type |-> CT_VALUE, value |-> r.value]
      [] r.op = "size" ->
           [opcode |-> OP_SIZE + 1, c_type |-> CT_RESULT, result |-> r.size]
      [] r.op = "getkeys" ->
           [opcode |-> OP_GETKEYS + 1, c_type |-> CT_KEYS, keys |-> r.keys]
      [] OTHER -> BareMsg(OP_ERROR)

Replies ==
    {BareMsg(op) : op \in {OP_PUT + 1, OP_DEL + 1, OP_ERROR}}
        \cup [opcode : {OP_GET + 1}, c_type : {CT_VALUE}, value : Vals]
        \cup [opcode : {OP_SIZE + 1}, c_type : {CT_RESULT}, result : Int]
        \cup [opcode : {OP_GETKEYS + 1}, c_type : {CT_KEYS}, keys : Seq(ServerKeys)]

(* A message is not the null pointer. *)
ASSUME NullAssumption ==
    NULL \notin Requests /\ NULL \notin ServerRequests /\ NULL \notin Replies

(* What a function of the stub returns for a reply: any_error turns OP_ERROR *)
(* into the -1 or NULL it returns for every other failure too.               *)
Result(m) == IF m.opcode = OP_ERROR THEN NULL ELSE m
=============================================================================
