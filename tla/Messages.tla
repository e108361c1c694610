------------------------------ MODULE Messages ------------------------------
(* source/message.c: the octets of a message, and the message a receiver     *)
(* makes of octets. Here a key and a value are sequences of octets; what     *)
(* follows a received key in memory (Tails of Protocol) is not among the     *)
(* octets and does not show.                                                 *)
EXTENDS Protocol, Base64, SequencesExt

(* htons and htonl of a number, ntohs and ntohl of the octets behind the     *)
(* first o of a buffer.                                                      *)
Short(n) == <<(n \div 256) % 256, n % 256>>
Long(n) == Short((n \div 65536) % 65536) \o Short(n % 65536)

ToShort(buf, o) ==
    LET n == buf[o + 1] * 256 + buf[o + 2]
    IN  IF n >= 32768 THEN n - 65536 ELSE n
ToLong(buf, o) == (ToShort(buf, o) * 65536) + (ToShort(buf, o + 2) % 65536)

Sized(key) == Short(Len(key)) \o key
Encoded(value) == LET text == Base64Encode(value) IN Long(Len(text)) \o text

(* message_to_buffer *)
Marshal(m) ==
    LET content ==
          CASE m.c_type = CT_KEY -> Sized(m.key)
            [] m.c_type = CT_VALUE -> Encoded(m.value)
            [] m.c_type = CT_ENTRY ->
                 Sized(m.entry.key) \o Encoded(m.entry.value)
            [] m.c_type = CT_KEYS ->
                 Long(Len(m.keys))
                   \o FlattenSeq([j \in DOMAIN m.keys |-> Sized(m.keys[j])])
            [] m.c_type = CT_RESULT -> Long(m.result)
            [] OTHER -> <<>>
    IN  Short(m.opcode) \o Short(m.c_type) \o content

-----------------------------------------------------------------------------
(* The n octets behind the first o. *)
Slice(buf, o, n) == SubSeq(buf, o + 1, o + n)

(* base64_decode_alloc *)
Decoded(text) == IF Decodable(text) THEN Base64Decode(text) ELSE NULL

(* data_create2 and entry_create make nothing of nothing. The size is what   *)
(* the caller says, whatever the number of octets.                           *)
DataCreate2(size, data) ==
    IF size <= 0 \/ data = NULL THEN NULL ELSE [datasize |-> size, data |-> data]

EntryCreate(key, value) ==
    IF value = NULL THEN NULL ELSE [key |-> key, value |-> value]

(* A value, or the value of an entry, at offset o: its size is and remains   *)
(* that of the text.                                                         *)
ValueAt(buf, o) ==
    LET size == ToLong(buf, o)
    IN  [datasize |-> size, data |-> Decoded(Slice(buf, o + 4, size))]

EntryAt(buf, o) ==
    LET k == ToShort(buf, o)
        e == o + 2 + k
        size == ToLong(buf, e)
        data == Decoded(Slice(buf, e + 4, size))
    IN  EntryCreate(Slice(buf, o + 2, k), DataCreate2(size, data))

(* The keys read from offset o on: where each starts follows from the sizes  *)
(* of those before it.                                                       *)
KeysAt(buf, o) ==
    LET n == ToLong(buf, o)
        start[j \in 1..n + 1] ==
          IF j = 1 THEN o + 4
          ELSE start[j - 1] + 2 + ToShort(buf, start[j - 1])
    IN  [j \in 1..n |-> Slice(buf, start[j] + 2, ToShort(buf, start[j]))]

(* buffer_to_message *)
Unmarshal(buf) ==
    LET op == ToShort(buf, 0)
        ct == ToShort(buf, 2)
    IN  CASE ct = CT_KEY -> KeyMsg(op, Slice(buf, 6, ToShort(buf, 4)))
          [] ct = CT_VALUE ->
               [opcode |-> op, c_type |-> ct, value |-> ValueAt(buf, 4)]
          [] ct = CT_ENTRY ->
               [opcode |-> op, c_type |-> ct, entry |-> EntryAt(buf, 4)]
          [] ct = CT_KEYS -> [opcode |-> op, c_type |-> ct, keys |-> KeysAt(buf, 4)]
          [] ct = CT_RESULT ->
               [opcode |-> op, c_type |-> ct, result |-> ToLong(buf, 4)]
          [] ct = CT_NONE -> BareMsg(op)
          [] OTHER -> NULL

(* What a receiver holds of a value: its size grows to that of its text. *)
Grown(v) == [datasize |-> Base64Length(Len(v)), data |-> v]

(* What a receiver holds of message m when all octets have come, except that *)
(* nothing ends a key.                                                       *)
Kept(m) ==
    CASE m.c_type = CT_VALUE -> [m EXCEPT !.value = Grown(@)]
      [] m.c_type = CT_ENTRY -> [m EXCEPT !.entry.value = Grown(@)]
      [] OTHER -> m
=============================================================================
