------------------------------- MODULE Base64 -------------------------------
(* source/base64.c as source/message.c uses it: base64_encode_alloc and      *)
(* base64_decode_alloc on sequences of octets. Characters are their ASCII    *)
(* codes, so that text and data travel in the same stream.                   *)
EXTENDS Integers, Sequences, FiniteSets

Octets == 0..255
Pad == 61  \* '='

(* b64str: the character of a group of six bits. *)
Char(x) ==
    CASE x < 26 -> 65 + x
      [] x \in 26..51 -> 71 + x
      [] x \in 52..61 -> x - 4
      [] x = 62 -> 43
      [] OTHER -> 47

(* The table b64, and isbase64: where it has no -1. *)
Alphabet == {Char(x) : x \in 0..63}
Sextet(c) == CHOOSE x \in 0..63 : Char(x) = c

(* BASE64_LENGTH *)
Base64Length(n) == ((n + 2) \div 3) * 4

(* The octet at offset k; what lies behind the last one counts as zero bits. *)
At(in, k) == IF k < Len(in) THEN in[k + 1] ELSE 0

(* Mutant: the last group is padded as if one octet more were there. *)
Base64EncodeShort(in) ==
    [j \in 1..Base64Length(Len(in)) |->
       LET o == 3 * ((j - 1) \div 4)
           p == (j - 1) % 4
       IN  CASE p = 0 -> Char(At(in, o) \div 4)
             [] p = 1 -> Char((At(in, o) % 4) * 16 + At(in, o + 1) \div 16)
             [] p = 2 /\ o + 1 <= Len(in) ->
                  Char((At(in, o + 1) % 16) * 4 + At(in, o + 2) \div 64)
             [] p = 3 /\ o + 2 < Len(in) -> Char(At(in, o + 2) % 64)
             [] OTHER -> Pad]

(* base64_encode into a buffer that is long enough: three octets become four *)
(* characters, and '=' stands for those no octet contributes to.             *)
Base64Encode(in) ==
    [j \in 1..Base64Length(Len(in)) |->
       LET o == 3 * ((j - 1) \div 4)
           p == (j - 1) % 4
       IN  CASE p = 0 -> Char(At(in, o) \div 4)
             [] p = 1 -> Char((At(in, o) % 4) * 16 + At(in, o + 1) \div 16)
             [] p = 2 /\ o + 1 < Len(in) ->
                  Char((At(in, o + 1) % 16) * 4 + At(in, o + 2) \div 64)
             [] p = 3 /\ o + 2 < Len(in) -> Char(At(in, o + 2) % 64)
             [] OTHER -> Pad]

-----------------------------------------------------------------------------
(* The loop of base64_decode goes on to the end: whole quads of characters   *)
(* of the alphabet, of which only the last may end with one '=' or two. At   *)
(* anything else the loop breaks off and the call fails.                     *)
Decodable(in) ==
    /\ Len(in) % 4 = 0
    /\ \A j \in DOMAIN in :
         \/ in[j] \in Alphabet
         \/ in[j] = Pad /\ j = Len(in)
         \/ in[j] = Pad /\ j = Len(in) - 1 /\ in[j + 1] = Pad

(* The octets that '=' leaves out at the end. *)
Padding(in) == Cardinality({j \in DOMAIN in : in[j] = Pad})

(* base64_decode of such a text: four characters become three octets. *)
Base64Decode(in) ==
    [j \in 1..(3 * (Len(in) \div 4) - Padding(in)) |->
       LET o == 4 * ((j - 1) \div 3)
           s(k) == Sextet(in[o + k])
       IN  CASE j % 3 = 1 -> s(1) * 4 + s(2) \div 16
             [] j % 3 = 2 -> (s(2) % 16) * 16 + s(3) \div 4
             [] OTHER -> (s(3) % 4) * 64 + s(4)]
=============================================================================
