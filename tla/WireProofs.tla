----------------------------- MODULE WireProofs -----------------------------
(* What Wire promises holds for all messages, however the octets are cut.    *)
(* In the order of the sections: base64, numbers, keys and whole messages    *)
(* survive the way (Base64RoundTrip, MessageRoundTrip), and a receiver knows *)
(* from any part of a message how far it may read (Carries); from this the   *)
(* invariant WInv of the two loops, the refinement of Connection, and that   *)
(* one of the sides can always go on (FieldEndCorrect, WaitInv).             *)
EXTENDS WireProps, FiniteSetTheorems, SequenceTheorems, WellFoundedInduction, TLAPS

-----------------------------------------------------------------------------
(* Base64: a text decodes to what was encoded.                               *)

(* The characters of the alphabet stand for one group of six bits each, and  *)
(* '=' is none of them.                                                      *)
LEMMA CharIs ==
    \A x \in 0..63 : /\ Char(x) \in Octets /\ Char(x) # Pad /\ Char(x) \in Alphabet
                     /\ Sextet(Char(x)) = x
<1>1. ASSUME NEW x \in 0..63, NEW y \in 0..63, Char(x) = Char(y)
      PROVE  x = y
    BY <1>1 DEF Char
<1>2. ASSUME NEW x \in 0..63
      PROVE  Char(x) \in Octets /\ Char(x) # Pad
    BY DEF Char, Octets, Pad
<1>3. ASSUME NEW x \in 0..63
      PROVE  Sextet(Char(x)) = x
    BY <1>1, Zenon DEF Sextet
<1>. QED
    BY <1>2, <1>3, Zenon DEF Alphabet

(* The octets of a group, and the six bits of its characters. *)
LEMMA AtIs ==
    ASSUME NEW v \in Seq(Octets), NEW k \in Nat
    PROVE  At(v, k) \in 0..255 /\ (k < Len(v) => At(v, k) = v[k + 1])
<1>1. CASE k < Len(v)
    <2>1. k + 1 \in 1..Len(v)
        BY <1>1
    <2>2. v[k + 1] \in Octets
        BY <2>1, ElementOfSeq
    <2>. QED
        BY <1>1, <2>2 DEF At, Octets
<1>2. CASE ~(k < Len(v))
    BY <1>2 DEF At
<1>. QED
    BY <1>1, <1>2

Groups(v) == (Len(v) + 2) \div 3

(* Groups of three octets, the last of which may lack one or two, become     *)
(* four characters each.                                                     *)
LEMMA GroupsIs ==
    ASSUME NEW v \in Seq(Octets)
    PROVE  /\ Groups(v) \in Nat /\ Len(v) \in Nat
           /\ 3 * Groups(v) - 2 <= Len(v) /\ Len(v) <= 3 * Groups(v)
           /\ Base64Length(Len(v)) = 4 * Groups(v)
<1>1. Len(v) \in Nat
    OBVIOUS
<1>2. ASSUME NEW n \in Nat
      PROVE  LET g == (n + 2) \div 3
             IN  g \in Nat /\ 3 * g - 2 <= n /\ n <= 3 * g
    OBVIOUS
<1>3. Groups(v) \in Nat /\ 3 * Groups(v) - 2 <= Len(v) /\ Len(v) <= 3 * Groups(v)
    BY <1>1, <1>2 DEF Groups
<1>. QED
    BY <1>1, <1>3 DEF Groups, Base64Length

(* The four characters of group g. *)
LEMMA GroupIs ==
    ASSUME NEW v \in Seq(Octets), NEW g \in 0..(Groups(v) - 1)
    PROVE  LET text == Base64Encode(v)
               a == At(v, 3 * g)
               b == At(v, 3 * g + 1)
               c == At(v, 3 * g + 2)
           IN  /\ text[4 * g + 1] = Char(a \div 4)
               /\ text[4 * g + 2] = Char((a % 4) * 16 + b \div 16)
               /\ text[4 * g + 3] = IF 3 * g + 1 < Len(v)
                                    THEN Char((b % 16) * 4 + c \div 64) ELSE Pad
               /\ text[4 * g + 4] = IF 3 * g + 2 < Len(v) THEN Char(c % 64) ELSE Pad
<1> DEFINE n == 4 * Groups(v)
           text == Base64Encode(v)
           Sign(o, p) ==
             CASE p = 0 -> Char(At(v, o) \div 4)
               [] p = 1 -> Char((At(v, o) % 4) * 16 + At(v, o + 1) \div 16)
               [] p = 2 /\ o + 1 < Len(v) ->
                    Char((At(v, o + 1) % 16) * 4 + At(v, o + 2) \div 64)
               [] p = 3 /\ o + 2 < Len(v) -> Char(At(v, o + 2) % 64)
               [] OTHER -> Pad
<1>1. /\ 4 * g + 1 \in 1..n /\ 4 * g + 2 \in 1..n
      /\ 4 * g + 3 \in 1..n /\ 4 * g + 4 \in 1..n
    BY GroupsIs
<1>2. /\ 3 * (((4 * g + 1) - 1) \div 4) = 3 * g /\ ((4 * g + 1) - 1) % 4 = 0
      /\ 3 * (((4 * g + 2) - 1) \div 4) = 3 * g /\ ((4 * g + 2) - 1) % 4 = 1
      /\ 3 * (((4 * g + 3) - 1) \div 4) = 3 * g /\ ((4 * g + 3) - 1) % 4 = 2
      /\ 3 * (((4 * g + 4) - 1) \div 4) = 3 * g /\ ((4 * g + 4) - 1) % 4 = 3
    BY GroupsIs
<1>3. \A j \in 1..n : text[j] = Sign(3 * ((j - 1) \div 4), (j - 1) % 4)
    BY GroupsIs DEF Base64Encode
<1>4. /\ Sign(3 * g, 0) = Char(At(v, 3 * g) \div 4)
      /\ Sign(3 * g, 1) = Char((At(v, 3 * g) % 4) * 16 + At(v, 3 * g + 1) \div 16)
      /\ Sign(3 * g, 2) = IF 3 * g + 1 < Len(v)
                          THEN Char((At(v, 3 * g + 1) % 16) * 4 + At(v, 3 * g + 2) \div 64)
                          ELSE Pad
      /\ Sign(3 * g, 3) = IF 3 * g + 2 < Len(v) THEN Char(At(v, 3 * g + 2) % 64) ELSE Pad
    OBVIOUS
<1> HIDE DEF text, n, Sign
<1>5. /\ text[4 * g + 1] = Sign(3 * g, 0) /\ text[4 * g + 2] = Sign(3 * g, 1)
      /\ text[4 * g + 3] = Sign(3 * g, 2) /\ text[4 * g + 4] = Sign(3 * g, 3)
    BY <1>1, <1>2, <1>3
<1>. QED
    BY <1>4, <1>5 DEF text

(* Where the characters are: only the last two places can hold '='. *)
LEMMA TextIs ==
    ASSUME NEW v \in Seq(Octets)
    PROVE  LET text == Base64Encode(v)
               n == 4 * Groups(v)
           IN  /\ text \in Seq(Octets) /\ Len(text) = n /\ DOMAIN text = 1..n
               /\ \A j \in 1..n : IF j <= n - (3 * Groups(v) - Len(v))
                                  THEN text[j] \in Alphabet /\ text[j] # Pad
                                  ELSE text[j] = Pad
<1> DEFINE n == 4 * Groups(v)
           text == Base64Encode(v)
           whole == n - (3 * Groups(v) - Len(v))
<1>0. /\ Groups(v) \in Nat /\ Len(v) \in Nat /\ n \in Nat /\ whole \in Nat
      /\ 3 * Groups(v) - 2 <= Len(v) /\ Len(v) <= 3 * Groups(v)
    BY GroupsIs
<1>1. ASSUME NEW j \in 1..n
      PROVE  /\ j <= whole => \E x \in 0..63 : text[j] = Char(x)
             /\ ~(j <= whole) => text[j] = Pad
    <2> DEFINE g == (j - 1) \div 4
               a == At(v, 3 * g)
               b == At(v, 3 * g + 1)
               c == At(v, 3 * g + 2)
    <2>1. /\ g \in 0..(Groups(v) - 1)
          /\ j = 4 * g + 1 \/ j = 4 * g + 2 \/ j = 4 * g + 3 \/ j = 4 * g + 4
        BY <1>0, SMTT(20)
    <2>2. 3 * g \in Nat /\ 3 * g + 1 \in Nat /\ 3 * g + 2 \in Nat
        BY <2>1
    <2>3. a \in 0..255 /\ b \in 0..255 /\ c \in 0..255
        BY <2>2, AtIs
    <2>4. /\ text[4 * g + 1] = Char(a \div 4)
          /\ text[4 * g + 2] = Char((a % 4) * 16 + b \div 16)
          /\ text[4 * g + 3] = IF 3 * g + 1 < Len(v)
                               THEN Char((b % 16) * 4 + c \div 64) ELSE Pad
          /\ text[4 * g + 4] = IF 3 * g + 2 < Len(v) THEN Char(c % 64) ELSE Pad
        BY <2>1, GroupIs
    <2> HIDE DEF g, a, b, c, text
    <2>5. /\ a \div 4 \in 0..63 /\ (a % 4) * 16 + b \div 16 \in 0..63
          /\ (b % 16) * 4 + c \div 64 \in 0..63 /\ c % 64 \in 0..63
        BY <2>3
    <2>6. CASE j = 4 * g + 1 \/ j = 4 * g + 2
        <3>1. j <= whole
            BY <1>0, <2>1, <2>6, SMTT(20)
        <3>. QED
            BY <2>4, <2>5, <2>6, <3>1
    <2>7. CASE j = 4 * g + 3
        <3>1. 3 * g + 1 < Len(v) <=> j <= whole
            BY <1>0, <2>1, <2>7, SMTT(20)
        <3>. QED
            BY <2>4, <2>5, <2>7, <3>1
    <2>8. CASE j = 4 * g + 4
        <3>1. 3 * g + 2 < Len(v) <=> j <= whole
            BY <1>0, <2>1, <2>8, SMTT(20)
        <3>. QED
            BY <2>4, <2>5, <2>8, <3>1
    <2>. QED
        BY <2>1, <2>6, <2>7, <2>8
<1>2. ASSUME NEW j \in 1..n
      PROVE  IF j <= whole THEN text[j] \in Alphabet /\ text[j] # Pad /\ text[j] \in Octets
             ELSE text[j] = Pad /\ text[j] \in Octets
    <2>1. CASE j <= whole
        <3>1. PICK x \in 0..63 : text[j] = Char(x)
            BY <1>1, <2>1, Zenon
        <3>. QED
            BY <2>1, <3>1, CharIs, Zenon
    <2>2. CASE ~(j <= whole)
        <3>1. Pad \in Octets
            BY DEF Pad, Octets
        <3>. QED
            BY <1>1, <2>2, <3>1, Zenon
    <2>. QED
        BY <2>1, <2>2, Zenon
<1>3. DOMAIN text = 1..n /\ text = [j \in 1..n |-> text[j]]
    <2> DEFINE Sign(o, p) ==
                 CASE p = 0 -> Char(At(v, o) \div 4)
                   [] p = 1 -> Char((At(v, o) % 4) * 16 + At(v, o + 1) \div 16)
                   [] p = 2 /\ o + 1 < Len(v) ->
                        Char((At(v, o + 1) % 16) * 4 + At(v, o + 2) \div 64)
                   [] p = 3 /\ o + 2 < Len(v) -> Char(At(v, o + 2) % 64)
                   [] OTHER -> Pad
    <2>1. text = [j \in 1..n |-> Sign(3 * ((j - 1) \div 4), (j - 1) % 4)]
        BY GroupsIs DEF Base64Encode
    <2> HIDE DEF text, n, Sign
    <2>. QED
        BY <2>1
<1> HIDE DEF text, n, whole
<1>4. text \in Seq(Octets) /\ Len(text) = n
    BY <1>0, <1>2, <1>3, IsASeq, SMTT(20)
<1>. QED
    BY <1>2, <1>3, <1>4 DEF text, n, whole

(* So many '=' as the last group lacks octets. *)
LEMMA PaddingIs ==
    ASSUME NEW v \in Seq(Octets)
    PROVE  Padding(Base64Encode(v)) = 3 * Groups(v) - Len(v)
<1> DEFINE n == 4 * Groups(v)
           text == Base64Encode(v)
           whole == n - (3 * Groups(v) - Len(v))
<1>1. n \in Nat /\ whole \in Nat /\ whole <= n /\ n - whole = 3 * Groups(v) - Len(v)
    <2>1. /\ Groups(v) \in Nat /\ Len(v) \in Nat
          /\ 3 * Groups(v) - 2 <= Len(v) /\ Len(v) <= 3 * Groups(v)
        BY GroupsIs
    <2>2. \A g, k \in Nat : 3 * g - 2 <= k /\ k <= 3 * g =>
            /\ 4 * g \in Nat /\ 4 * g - (3 * g - k) \in Nat
            /\ 4 * g - (3 * g - k) <= 4 * g
            /\ 4 * g - (4 * g - (3 * g - k)) = 3 * g - k
        OBVIOUS
    <2>. QED
        BY <2>1, <2>2
<1>2. \A j \in 1..n : text[j] = Pad <=> ~(j <= whole)
    BY TextIs
<1>3. DOMAIN text = 1..n
    BY TextIs
<1> HIDE DEF n, text, whole
<1>4. {j \in DOMAIN text : text[j] = Pad} = (whole + 1)..n
    <2>1. \A j : j \in DOMAIN text /\ text[j] = Pad <=> j \in 1..n /\ ~(j <= whole)
        BY <1>2, <1>3, Zenon
    <2>2. \A j : j \in 1..n /\ ~(j <= whole) <=> j \in (whole + 1)..n
        BY <1>1
    <2>. QED
        BY <2>1, <2>2, Zenon
<1>5. Cardinality((whole + 1)..n) = n - whole
    <2>1. whole + 1 \in Int /\ n \in Int
        BY <1>1
    <2>2. Cardinality((whole + 1)..n) =
            IF whole + 1 > n THEN 0 ELSE n - (whole + 1) + 1
        BY <2>1, FS_Interval, Zenon
    <2>. QED
        BY <1>1, <2>2
<1>. QED
    BY <1>1, <1>4, <1>5 DEF Padding, text

(* The bits of three octets, from the groups of six they were cut into. *)
LEMMA Sextets ==
    ASSUME NEW a \in 0..255, NEW b \in 0..255, NEW c \in 0..255
    PROVE  /\ (a \div 4) * 4 + (((a % 4) * 16 + b \div 16) \div 16) = a
           /\ (((a % 4) * 16 + b \div 16) % 16) * 16 + (((b % 16) * 4 + c \div 64) \div 4) = b
           /\ (((b % 16) * 4 + c \div 64) % 4) * 64 + (c % 64) = c
<1>1. /\ b \div 16 \in 0..15 /\ c \div 64 \in 0..3
      /\ (a \div 4) * 4 + (a % 4) = a /\ (b \div 16) * 16 + (b % 16) = b
      /\ (c \div 64) * 64 + (c % 64) = c
    OBVIOUS
<1>2. ((a % 4) * 16 + b \div 16) \div 16 = a % 4
    BY <1>1
<1>3. ((a % 4) * 16 + b \div 16) % 16 = b \div 16
    BY <1>1
<1>4. ((b % 16) * 4 + c \div 64) \div 4 = b % 16
    BY <1>1
<1>5. ((b % 16) * 4 + c \div 64) % 4 = c \div 64
    BY <1>1
<1>. QED
    BY <1>1, <1>2, <1>3, <1>4, <1>5

(* base64_decode_alloc gives back what base64_encode_alloc was given. *)
THEOREM Base64RoundTrip ==
    ASSUME NEW v \in Seq(Octets)
    PROVE  Decoded(Base64Encode(v)) = v
<1> DEFINE n == 4 * Groups(v)
           text == Base64Encode(v)
           whole == n - (3 * Groups(v) - Len(v))
<1>0. /\ Groups(v) \in Nat /\ Len(v) \in Nat /\ n \in Nat /\ whole \in Nat
      /\ 3 * Groups(v) - 2 <= Len(v) /\ Len(v) <= 3 * Groups(v)
      /\ whole <= n /\ n - 2 <= whole
    BY GroupsIs
<1>1. /\ text \in Seq(Octets) /\ Len(text) = n /\ DOMAIN text = 1..n
      /\ \A j \in 1..n : IF j <= whole THEN text[j] \in Alphabet /\ text[j] # Pad
                         ELSE text[j] = Pad
    BY TextIs
<1>2. Decodable(text)
    <2>1. n % 4 = 0
        BY <1>0
    <2> HIDE DEF n, whole, text
    <2>2. ASSUME NEW j \in 1..n
          PROVE  \/ text[j] \in Alphabet
                 \/ text[j] = Pad /\ j = n
                 \/ text[j] = Pad /\ j = n - 1 /\ text[j + 1] = Pad
        <3>1. CASE j <= whole
            BY <1>1, <3>1
        <3>2. CASE ~(j <= whole) /\ j = n
            BY <1>1, <3>2
        <3>3. CASE ~(j <= whole) /\ j # n
            <4>1. j = n - 1 /\ j + 1 \in 1..n /\ ~(j + 1 <= whole)
                BY <1>0, <3>3
            <4>. QED
                BY <1>1, <3>3, <4>1
        <3>. QED
            BY <3>1, <3>2, <3>3
    <2>. QED
        BY <1>1, <2>1, <2>2 DEF Decodable
<1>3. 3 * (Len(text) \div 4) - Padding(text) = Len(v)
    <2>1. \A g, k \in Nat : 3 * ((4 * g) \div 4) - (3 * g - k) = k
        OBVIOUS
    <2>. QED
        BY <1>0, <1>1, <2>1, PaddingIs, ZenonT(30)
<1> DEFINE s(j, k) == Sextet(text[4 * ((j - 1) \div 3) + k])
           octet(j) == CASE j % 3 = 1 -> s(j, 1) * 4 + s(j, 2) \div 16
                         [] j % 3 = 2 -> (s(j, 2) % 16) * 16 + s(j, 3) \div 4
                         [] OTHER -> ((s(j, 3) % 4) * 64) + s(j, 4)
<1>4. Base64Decode(text) = [j \in 1..Len(v) |-> octet(j)]
    BY <1>3 DEF Base64Decode
<1>5. ASSUME NEW j \in 1..Len(v)
      PROVE  octet(j) = v[j]
    <2> DEFINE g == (j - 1) \div 3
               a == At(v, 3 * g)
               b == At(v, 3 * g + 1)
               c == At(v, 3 * g + 2)
    <2>1. /\ g \in 0..(Groups(v) - 1)
          /\ \/ j = 3 * g + 1 /\ j % 3 = 1
             \/ j = 3 * g + 2 /\ j % 3 = 2
             \/ j = 3 * g + 3 /\ j % 3 = 0
        <3>1. ASSUME NEW i \in Nat \ {0}
              PROVE  LET h == (i - 1) \div 3
                     IN  /\ h \in Nat /\ 3 * h + 1 <= i
                         /\ \/ i = 3 * h + 1 /\ i % 3 = 1
                            \/ i = 3 * h + 2 /\ i % 3 = 2
                            \/ i = 3 * h + 3 /\ i % 3 = 0
            OBVIOUS
        <3>2. j \in Nat \ {0} /\ j <= 3 * Groups(v)
            BY <1>0, SMTT(20)
        <3>. QED
            BY <1>0, <3>1, <3>2, SMTT(20)
    <2>2. 3 * g \in Nat /\ 3 * g + 1 \in Nat /\ 3 * g + 2 \in Nat
        BY <2>1
    <2>3. a \in 0..255 /\ b \in 0..255 /\ c \in 0..255
        BY <2>2, AtIs
    <2>4. /\ text[4 * g + 1] = Char(a \div 4)
          /\ text[4 * g + 2] = Char((a % 4) * 16 + b \div 16)
          /\ text[4 * g + 3] = IF 3 * g + 1 < Len(v)
                               THEN Char((b % 16) * 4 + c \div 64) ELSE Pad
          /\ text[4 * g + 4] = IF 3 * g + 2 < Len(v) THEN Char(c % 64) ELSE Pad
        BY <2>1, GroupIs
    <2>5. /\ s(j, 1) = Sextet(text[4 * g + 1]) /\ s(j, 2) = Sextet(text[4 * g + 2])
          /\ s(j, 3) = Sextet(text[4 * g + 3]) /\ s(j, 4) = Sextet(text[4 * g + 4])
        OBVIOUS
    <2>6. /\ j = 3 * g + 1 => v[j] = a
          /\ j = 3 * g + 2 => v[j] = b
          /\ j = 3 * g + 3 => v[j] = c
        <3>1. \A k \in Nat : k < Len(v) => At(v, k) = v[k + 1]
            BY AtIs
        <3>2. /\ j = 3 * g + 1 => 3 * g < Len(v)
              /\ j = 3 * g + 2 => 3 * g + 1 < Len(v) /\ (3 * g + 1) + 1 = j
              /\ j = 3 * g + 3 => 3 * g + 2 < Len(v) /\ (3 * g + 2) + 1 = j
            BY <1>0, <2>1, SMTT(20)
        <3> HIDE DEF g
        <3>. QED
            BY <2>2, <3>1, <3>2
    <2> HIDE DEF g, a, b, c, text, s
    <2>7. /\ a \div 4 \in 0..63 /\ (a % 4) * 16 + b \div 16 \in 0..63
          /\ (b % 16) * 4 + c \div 64 \in 0..63 /\ c % 64 \in 0..63
        BY <2>3
    <2>8. CASE j = 3 * g + 1 /\ j % 3 = 1
        <3>1. s(j, 1) = a \div 4 /\ s(j, 2) = (a % 4) * 16 + b \div 16
            BY <2>4, <2>5, <2>7, CharIs
        <3>2. (a \div 4) * 4 + (((a % 4) * 16 + b \div 16) \div 16) = a
            BY <2>3, Sextets, Zenon
        <3>3. s(j, 1) * 4 + s(j, 2) \div 16 = a
            BY <3>1, <3>2, Zenon
        <3>. QED
            BY <2>6, <2>8, <3>3
    <2>9. CASE j = 3 * g + 2 /\ j % 3 = 2
        <3>1. 3 * g + 1 < Len(v)
            BY <1>0, <2>1, <2>9
        <3>2. s(j, 2) = (a % 4) * 16 + b \div 16 /\ s(j, 3) = (b % 16) * 4 + c \div 64
            BY <2>4, <2>5, <2>7, <3>1, CharIs
        <3>3. (((a % 4) * 16 + b \div 16) % 16) * 16
                + (((b % 16) * 4 + c \div 64) \div 4) = b
            <4>1. ((a % 4) * 16 + b \div 16) % 16 = b \div 16
                BY <2>3
            <4>2. ((b % 16) * 4 + c \div 64) \div 4 = b % 16
                BY <2>3
            <4>3. (b \div 16) * 16 + (b % 16) = b
                BY <2>3
            <4>. QED
                BY <4>1, <4>2, <4>3, Zenon
        <3>4. (s(j, 2) % 16) * 16 + s(j, 3) \div 4 = b
            BY <3>2, <3>3, Zenon
        <3>. QED
            BY <2>6, <2>9, <3>4
    <2>10. CASE j = 3 * g + 3 /\ j % 3 = 0
        <3>1. 3 * g + 1 < Len(v) /\ 3 * g + 2 < Len(v)
            BY <1>0, <2>1, <2>10, SMTT(20)
        <3>2. s(j, 3) = (b % 16) * 4 + c \div 64 /\ s(j, 4) = c % 64
            BY <2>4, <2>5, <2>7, <3>1, CharIs
        <3>3. (((b % 16) * 4 + c \div 64) % 4) * 64 + (c % 64) = c
            BY <2>3, Sextets, ZenonT(30)
        <3>4. ((s(j, 3) % 4) * 64) + s(j, 4) = c
            BY <3>2, <3>3, Zenon
        <3>. QED
            BY <2>6, <2>10, <3>4
    <2>. QED
        BY <2>1, <2>8, <2>9, <2>10
<1> HIDE DEF octet, text
<1>6. Base64Decode(text) = v
    <2>1. v = [j \in 1..Len(v) |-> v[j]]
        OBVIOUS
    <2>. QED
        BY <1>4, <1>5, <2>1
<1>. QED
    BY <1>2, <1>6 DEF Decoded, text

-----------------------------------------------------------------------------
(* Induction and recursion over the turns of a loop.                         *)

(* A set of natural numbers that is not empty has a least member. *)
LEMMA LeastTurn ==
    ASSUME NEW T \in SUBSET Nat, T # {}
    PROVE  \E m \in T : \A x \in T : m <= x
<1> DEFINE R == OpToRel(<, Nat)
<1>1. IsWellFoundedOn(R, Nat)
    BY NatLessThanWellFounded
<1>2. \A x, y \in Nat : <<x, y>> \in R <=> x < y
    BY DEF OpToRel
<1> HIDE DEF R
<1>3. PICK m \in T : \A y \in T : ~ (<<y, m>> \in R)
    BY <1>1, WFMin
<1>4. \A x \in T : m \in Nat /\ x \in Nat /\ ~(x < m)
    BY <1>2, <1>3, Zenon
<1>. QED
    BY <1>3, <1>4

(* What holds before the first turn and is kept by each holds after all.     *)
LEMMA AllTurns ==
    ASSUME NEW n \in Nat, NEW T, 0 \in T, \A j \in 1..n : j - 1 \in T => j \in T
    PROVE  0..n \subseteq T
<1> SUFFICES ASSUME (0..n) \ T # {} PROVE FALSE
    OBVIOUS
<1>1. (0..n) \ T \in SUBSET Nat
    OBVIOUS
<1>2. PICK m \in (0..n) \ T : \A x \in (0..n) \ T : m <= x
    BY <1>1, LeastTurn
<1>3. m \in 1..n /\ m - 1 \in 0..n /\ ~(m <= m - 1)
    BY <1>2
<1>4. m - 1 \in T
    BY <1>2, <1>3
<1>. QED
    BY <1>2, <1>3, <1>4

(* A loop of n turns, of which the j-th takes x to step[j][x], has a result. *)
Runs(n, S, a, step, f) ==
    f \in [0..n -> S] /\ f[0] = a /\ \A j \in 1..n : f[j] = step[j][f[j - 1]]

LEMMA Recursion ==
    ASSUME NEW n \in Nat, NEW S, NEW a \in S, NEW step \in [1..n -> [S -> S]]
    PROVE  \E f : Runs(n, S, a, step, f)
<1> DEFINE T == {k \in 0..n : \E f : Runs(k, S, a, step, f)}
<1>1. 0 \in T
    <2> DEFINE f == [j \in 0..0 |-> a]
    <2>1. Runs(0, S, a, step, f)
        BY DEF Runs
    <2> HIDE DEF f
    <2>. QED
        BY <2>1
<1>2. ASSUME NEW k \in 1..n, k - 1 \in T
      PROVE  k \in T
    <2>1. PICK f : Runs(k - 1, S, a, step, f)
        BY <1>2
    <2> DEFINE g == [j \in 0..k |-> IF j = k THEN step[k][f[k - 1]] ELSE f[j]]
    <2>2. f[k - 1] \in S
        BY <2>1 DEF Runs
    <2>3. step[k][f[k - 1]] \in S
        BY <2>2
    <2>4. g \in [0..k -> S] /\ g[0] = a
        BY <2>1, <2>3 DEF Runs
    <2>5. ASSUME NEW j \in 1..k
          PROVE  g[j] = step[j][g[j - 1]]
        <3>1. j - 1 \in 0..k /\ j - 1 # k /\ g[j - 1] = f[j - 1]
            OBVIOUS
        <3>2. CASE j = k
            BY <3>1, <3>2
        <3>3. CASE j # k
            <4>1. j \in 1..(k - 1)
                BY <3>3
            <4>. QED
                BY <2>1, <3>1, <3>3, <4>1 DEF Runs
        <3>. QED
            BY <3>2, <3>3
    <2>6. Runs(k, S, a, step, g)
        BY <2>4, <2>5 DEF Runs
    <2> HIDE DEF g
    <2>. QED
        BY <2>6
<1> HIDE DEF T
<1>3. n \in T
    <2>1. 0..n \subseteq T
        BY <1>1, <1>2, AllTurns
    <2>. QED
        BY <2>1
<1>. QED
    BY <1>3 DEF T

-----------------------------------------------------------------------------
(* Octets behind others.                                                     *)

(* Behind its first o octets, buf holds those of x. *)
Holds(buf, o, x) ==
    o + Len(x) <= Len(buf) /\ \A j \in 1..Len(x) : buf[o + j] = x[j]

(* htons: the high octet before the low one.                                 *)
LEMMA ShortIs ==
    ASSUME NEW k \in Int
    PROVE  /\ Short(k) \in Seq(Octets) /\ Len(Short(k)) = 2
           /\ Short(k)[1] = (k \div 256) % 256 /\ Short(k)[2] = k % 256
<1>1. (k \div 256) % 256 \in 0..255 /\ k % 256 \in 0..255
    OBVIOUS
<1>. QED
    BY <1>1 DEF Short, Octets

(* htonl is htons of both halves. *)
LEMMA LongIs ==
    ASSUME NEW k \in Int
    PROVE  /\ Long(k) \in Seq(Octets) /\ Len(Long(k)) = 4
           /\ Long(k) = Short((k \div 65536) % 65536) \o Short(k % 65536)
<1> DEFINE h == (k \div 65536) % 65536
           l == k % 65536
<1>1. h \in Int /\ l \in Int
    OBVIOUS
<1>2. Long(k) = Short(h) \o Short(l)
    BY DEF Long
<1>3. \A x, y \in Seq(Octets) :
         Len(x) = 2 /\ Len(y) = 2 => x \o y \in Seq(Octets) /\ Len(x \o y) = 4
    <2> TAKE x, y \in Seq(Octets)
    <2>1. x \o y \in Seq(Octets) /\ Len(x \o y) = Len(x) + Len(y)
        BY ConcatProperties
    <2>. QED
        BY <2>1
<1> HIDE DEF h, l
<1>4. /\ Short(h) \in Seq(Octets) /\ Len(Short(h)) = 2
      /\ Short(l) \in Seq(Octets) /\ Len(Short(l)) = 2
    BY <1>1, ShortIs
<1>5. Long(k) \in Seq(Octets) /\ Len(Long(k)) = 4
    BY <1>2, <1>3, <1>4
<1>. QED
    BY <1>2, <1>5 DEF h, l

(* Where the octets of a short number lie, either of them is found.          *)
LEMMA ShortHeld ==
    ASSUME NEW buf, NEW o, NEW k \in Int, Holds(buf, o, Short(k))
    PROVE  buf[o + 1] = (k \div 256) % 256 /\ buf[o + 2] = k % 256
<1>1. Len(Short(k)) = 2 /\ 1 \in 1..2 /\ 2 \in 1..2
    BY ShortIs
<1>2. buf[o + 1] = Short(k)[1] /\ buf[o + 2] = Short(k)[2]
    BY <1>1, Zenon DEF Holds
<1>. QED
    BY <1>2, ShortIs, SMTT(20)

(* What is held in two parts. *)
LEMMA HoldsParts ==
    ASSUME NEW buf \in Seq(Octets), NEW o \in Nat,
           NEW x \in Seq(Octets), NEW y \in Seq(Octets)
    PROVE  Holds(buf, o, x \o y) <=> Holds(buf, o, x) /\ Holds(buf, o + Len(x), y)
<1>1. /\ Len(x \o y) = Len(x) + Len(y) /\ Len(x) \in Nat /\ Len(y) \in Nat
      /\ \A j \in 1..(Len(x) + Len(y)) :
           (x \o y)[j] = IF j <= Len(x) THEN x[j] ELSE y[j - Len(x)]
    BY ConcatProperties
<1>2. ASSUME Holds(buf, o, x \o y)
      PROVE  Holds(buf, o, x) /\ Holds(buf, o + Len(x), y)
    <2>1. ASSUME NEW j \in 1..Len(x)
          PROVE  buf[o + j] = x[j]
        <3>1. j \in 1..(Len(x) + Len(y)) /\ j <= Len(x)
            BY <1>1
        <3>2. buf[o + j] = (x \o y)[j]
            BY <1>1, <1>2, <3>1 DEF Holds
        <3>. QED
            BY <1>1, <3>1, <3>2
    <2>2. ASSUME NEW j \in 1..Len(y)
          PROVE  buf[(o + Len(x)) + j] = y[j]
        <3>1. /\ Len(x) + j \in 1..(Len(x) + Len(y)) /\ ~(Len(x) + j <= Len(x))
              /\ (Len(x) + j) - Len(x) = j /\ (o + Len(x)) + j = o + (Len(x) + j)
            BY <1>1
        <3>2. buf[o + (Len(x) + j)] = (x \o y)[Len(x) + j]
            BY <1>1, <1>2, <3>1 DEF Holds
        <3>. QED
            BY <1>1, <3>1, <3>2
    <2>. QED
        BY <1>1, <1>2, <2>1, <2>2 DEF Holds
<1>3. ASSUME Holds(buf, o, x), Holds(buf, o + Len(x), y)
      PROVE  Holds(buf, o, x \o y)
    <2>1. ASSUME NEW j \in 1..(Len(x) + Len(y))
          PROVE  buf[o + j] = (x \o y)[j]
        <3>1. CASE j <= Len(x)
            <4>1. j \in 1..Len(x)
                BY <1>1, <3>1
            <4>. QED
                BY <1>1, <1>3, <3>1, <4>1 DEF Holds
        <3>2. CASE ~(j <= Len(x))
            <4>1. j - Len(x) \in 1..Len(y) /\ (o + Len(x)) + (j - Len(x)) = o + j
                BY <1>1, <3>2
            <4>2. buf[(o + Len(x)) + (j - Len(x))] = y[j - Len(x)]
                BY <1>3, <4>1 DEF Holds
            <4>. QED
                BY <1>1, <3>2, <4>1, <4>2
        <3>. QED
            BY <3>1, <3>2
    <2>. QED
        BY <1>1, <1>3, <2>1 DEF Holds
<1>. QED
    BY <1>2, <1>3

(* A prefix that is long enough holds the same. *)
LEMMA HoldsPrefix ==
    ASSUME NEW buf \in Seq(Octets), NEW all \in Seq(Octets), NEW o \in Nat,
           NEW x \in Seq(Octets), Holds(all, 0, buf), Holds(all, o, x),
           o + Len(x) <= Len(buf)
    PROVE  Holds(buf, o, x)
<1>1. ASSUME NEW j \in 1..Len(x)
      PROVE  buf[o + j] = x[j]
    <2>1. o + j \in 1..Len(buf) /\ 0 + (o + j) = o + j
        OBVIOUS
    <2>2. all[0 + (o + j)] = buf[o + j]
        BY <2>1 DEF Holds
    <2>. QED
        BY <2>1, <2>2 DEF Holds
<1>. QED
    BY <1>1 DEF Holds

(* A sequence holds itself.                                                  *)
LEMMA HoldsAll ==
    ASSUME NEW buf \in Seq(Octets)
    PROVE  Holds(buf, 0, buf)
<1>1. \A j \in 1..Len(buf) : 0 + j = j
    OBVIOUS
<1>. QED
    BY <1>1 DEF Holds

(* ntohs, ntohl and memcpy find what is held. *)
LEMMA ReadsShort ==
    ASSUME NEW buf \in Seq(Octets), NEW o \in Nat, NEW k \in Int,
           -MaxShort - 1 <= k, k <= MaxShort, Holds(buf, o, Short(k))
    PROVE  ToShort(buf, o) = k
<1>1. buf[o + 1] = (k \div 256) % 256 /\ buf[o + 2] = k % 256
    BY ShortHeld
<1>2. ASSUME NEW u, u = ((k \div 256) % 256) * 256 + (k % 256)
      PROVE  (IF u >= 32768 THEN u - 65536 ELSE u) = k
    BY <1>2 DEF MaxShort
<1>. QED
    BY <1>1, <1>2 DEF ToShort

(* ntohl puts the two halves together again.                                 *)
LEMMA ReadsLong ==
    ASSUME NEW buf \in Seq(Octets), NEW o \in Nat, NEW k \in Int,
           -MaxLong - 1 <= k, k <= MaxLong, Holds(buf, o, Long(k))
    PROVE  ToLong(buf, o) = k
<1> DEFINE h == (k \div 65536) % 65536
           l == k % 65536
<1>1. h \in Int /\ l \in Int /\ 0 <= h /\ h < 65536 /\ 0 <= l /\ l < 65536
    OBVIOUS
<1>2. (IF h >= 32768 THEN h - 65536 ELSE h) * 65536 + l = k
    BY DEF MaxLong
<1>3. Long(k) = Short(h) \o Short(l)
    BY DEF Long
<1> HIDE DEF h, l
<1>4. Holds(buf, o, Short(h)) /\ Holds(buf, o + 2, Short(l))
    <2>1. h \in Int /\ l \in Int
        BY <1>1
    <2>2. /\ Short(h) \in Seq(Octets) /\ Len(Short(h)) = 2
          /\ Short(l) \in Seq(Octets)
        BY ONLY <2>1, ShortIs
    <2>. QED
        BY <1>3, <2>2, HoldsParts
<1>5. ASSUME NEW p \in Nat, NEW i \in Int, Holds(buf, p, Short(i)), 0 <= i, i < 65536
      PROVE  ToShort(buf, p) = IF i >= 32768 THEN i - 65536 ELSE i
    <2>1. buf[p + 1] = (i \div 256) % 256 /\ buf[p + 2] = i % 256
        BY <1>5, ShortHeld
    <2>2. ((i \div 256) % 256) * 256 + (i % 256) = i
        BY <1>5
    <2>3. buf[p + 1] * 256 + buf[p + 2] = i
        BY <2>1, <2>2, Zenon
    <2>. QED
        BY <2>3, SMT DEF ToShort
<1>6. ToShort(buf, o) = IF h >= 32768 THEN h - 65536 ELSE h
    BY <1>1, <1>4, <1>5
<1>7. ToShort(buf, o + 2) = IF l >= 32768 THEN l - 65536 ELSE l
    BY <1>1, <1>4, <1>5
<1>8. (IF l >= 32768 THEN l - 65536 ELSE l) % 65536 = l
    BY <1>1
<1>9. ToShort(buf, o + 2) % 65536 = l
    BY <1>7, <1>8, SMT
<1>. QED
    BY <1>2, <1>6, <1>9, SMT DEF ToLong

(* memcpy takes out what was put in.                                         *)
LEMMA ReadsOctets ==
    ASSUME NEW buf \in Seq(Octets), NEW o \in Nat, NEW x \in Seq(Octets), Holds(buf, o, x)
    PROVE  Slice(buf, o, Len(x)) = x
<1>1. o + Len(x) <= Len(buf) /\ Len(x) \in Nat
    BY DEF Holds
<1> DEFINE t == SubSeq(buf, o + 1, o + Len(x))
<1>2. /\ t \in Seq(Octets) /\ Len(t) = Len(x)
      /\ \A j \in 1..Len(x) : t[j] = buf[(o + 1) + j - 1]
    <2>1. \A j \in (o + 1)..(o + Len(x)) : buf[j] \in Octets
        BY <1>1, ElementOfSeq
    <2>. QED
        BY <1>1, <2>1
<1>3. \A j \in 1..Len(x) : t[j] = x[j]
    <2>1. \A j \in 1..Len(x) : (o + 1) + j - 1 = o + j
        OBVIOUS
    <2>. QED
        BY <1>2, <2>1 DEF Holds
<1> HIDE DEF t
<1>4. t = x
    BY <1>2, <1>3, SeqEqual
<1>. QED
    BY <1>4 DEF Slice, t

-----------------------------------------------------------------------------
(* The keys of a message, one behind the other.                              *)

(* The equation that the recursive function in FlattenSeq solves.            *)
FlattenEq(seqs, W) ==
    W = [i \in 1..Len(seqs) |-> IF i = 1 THEN seqs[i] ELSE W[i - 1] \o seqs[i]]

(* Flattening a sequence of sequences is a loop that appends them one by     *)
(* one.                                                                      *)
LEMMA FlattenIs ==
    ASSUME NEW seqs \in Seq(Seq(Octets))
    PROVE  \E F \in [0..Len(seqs) -> Seq(Octets)] :
             /\ F[0] = <<>>
             /\ \A j \in 1..Len(seqs) : F[j] = F[j - 1] \o seqs[j]
             /\ FlattenSeq(seqs) = F[Len(seqs)]
<1> DEFINE n == Len(seqs)
<1>0. n \in Nat /\ \A j \in 1..n : seqs[j] \in Seq(Octets)
    BY ElementOfSeq
<1>1. FlattenSeq(seqs) = IF n = 0 THEN seqs ELSE (CHOOSE W : FlattenEq(seqs, W))[n]
    BY DEF FlattenSeq, FlattenEq
<1>2. PICK F \in [0..n -> Seq(Octets)] :
         F[0] = <<>> /\ \A j \in 1..n : F[j] = F[j - 1] \o seqs[j]
    <2> DEFINE step == [j \in 1..n |-> [x \in Seq(Octets) |-> x \o seqs[j]]]
    <2>1. step \in [1..n -> [Seq(Octets) -> Seq(Octets)]]
        BY <1>0, ConcatProperties
    <2>2. <<>> \in Seq(Octets)
        OBVIOUS
    <2>3. \A j \in 1..n : \A x \in Seq(Octets) : step[j][x] = x \o seqs[j]
        OBVIOUS
    <2> HIDE DEF step, n
    <2>4. PICK f : Runs(n, Seq(Octets), <<>>, step, f)
        BY <1>0, <2>1, <2>2, Recursion
    <2>5. \A j \in 1..n : f[j - 1] \in Seq(Octets)
        <3>1. \A j \in 1..n : j - 1 \in 0..n
            BY <1>0
        <3>. QED
            BY <2>4, <3>1 DEF Runs
    <2>6. \A j \in 1..n : f[j] = f[j - 1] \o seqs[j]
        BY <2>3, <2>4, <2>5, Zenon DEF Runs
    <2>. QED
        BY <2>4, <2>6 DEF Runs
<1>3. CASE n = 0
    <2>1. seqs = <<>>
        BY <1>3, EmptySeq
    <2>. QED
        BY <1>1, <1>2, <1>3, <2>1
<1>4. CASE n # 0
    <2> DEFINE G == [i \in 1..n |-> F[i]]
               H == CHOOSE W : FlattenEq(seqs, W)
    <2>1. ASSUME NEW i \in 1..n
          PROVE  G[i] = IF i = 1 THEN seqs[i] ELSE G[i - 1] \o seqs[i]
        <3>1. CASE i = 1
            <4>1. <<>> \o seqs[1] = seqs[1]
                BY <1>0, <3>1, ConcatEmptySeq
            <4>2. F[1] = F[1 - 1] \o seqs[1]
                BY <1>2, <3>1, Zenon
            <4>3. F[1 - 1] = F[0]
                OBVIOUS
            <4>4. F[1] = seqs[1]
                BY <1>2, <4>1, <4>2, <4>3, Zenon
            <4>. QED
                BY <3>1, <4>4
        <3>2. CASE i # 1
            <4>1. i - 1 \in 1..n
                BY <1>0, <3>2
            <4>. QED
                BY <1>2, <3>2, <4>1
        <3>. QED
            BY <3>1, <3>2
    <2>2. FlattenEq(seqs, G)
        BY <2>1 DEF FlattenEq
    <2>3. FlattenEq(seqs, H)
        BY <2>2
    <2>4. \A i \in 1..n : H[i] = IF i = 1 THEN seqs[i] ELSE H[i - 1] \o seqs[i]
        <3> HIDE DEF H
        <3>. QED
            BY <2>3 DEF FlattenEq
    <2> HIDE DEF H
    <2> DEFINE T == {0} \cup {i \in 1..n : H[i] = G[i]}
    <2>5. ASSUME NEW j \in 1..n, j - 1 \in T
          PROVE  j \in T
        <3>1. CASE j = 1
            BY <2>1, <2>4, <3>1
        <3>2. CASE j # 1
            <4>1. j - 1 # 0
                BY <3>2
            <4>2. H[j - 1] = G[j - 1]
                BY <2>5, <4>1
            <4> HIDE DEF G
            <4>. QED
                BY <2>1, <2>4, <3>2, <4>2
        <3>. QED
            BY <3>1, <3>2
    <2>6. n \in T
        <3>1. 0 \in T
            OBVIOUS
        <3> HIDE DEF T
        <3>2. 0..n \subseteq T
            BY <1>0, <2>5, <3>1, AllTurns
        <3>. QED
            BY <1>0, <3>2
    <2>7. H[n] = F[n]
        BY <1>0, <1>4, <2>6
    <2>. QED
        BY <1>1, <1>2, <1>4, <2>7 DEF H
<1>. QED
    BY <1>3, <1>4

(* Sequences that are held one behind the other each start where those       *)
(* before it end.                                                            *)
LEMMA FlattenHeld ==
    ASSUME NEW buf \in Seq(Octets), NEW o \in Nat, NEW seqs \in Seq(Seq(Octets)),
           Holds(buf, o, FlattenSeq(seqs))
    PROVE  \E P \in [0..Len(seqs) -> Nat] :
             /\ P[0] = o
             /\ \A j \in 1..Len(seqs) :
                  P[j] = P[j - 1] + Len(seqs[j]) /\ Holds(buf, P[j - 1], seqs[j])
             /\ P[Len(seqs)] = o + Len(FlattenSeq(seqs))
<1> DEFINE n == Len(seqs)
<1>0. n \in Nat /\ \A j \in 1..n : seqs[j] \in Seq(Octets) /\ j - 1 \in 0..n /\ j \in 0..n
    BY ElementOfSeq
<1>1. PICK F \in [0..n -> Seq(Octets)] :
         /\ F[0] = <<>>
         /\ \A j \in 1..n : F[j] = F[j - 1] \o seqs[j]
         /\ FlattenSeq(seqs) = F[n]
    BY FlattenIs
<1> HIDE DEF n
<1>2. ASSUME NEW j \in 1..n
      PROVE  /\ F[j - 1] \in Seq(Octets) /\ seqs[j] \in Seq(Octets)
             /\ Len(F[j]) = Len(F[j - 1]) + Len(seqs[j])
             /\ Holds(buf, o, F[j]) =>
                  Holds(buf, o, F[j - 1]) /\ Holds(buf, o + Len(F[j - 1]), seqs[j])
    <2>1. F[j - 1] \in Seq(Octets) /\ seqs[j] \in Seq(Octets)
        BY <1>0, <1>1
    <2>2. F[j] = F[j - 1] \o seqs[j]
        BY <1>1
    <2>3. Len(F[j - 1] \o seqs[j]) = Len(F[j - 1]) + Len(seqs[j])
        BY <2>1, ConcatProperties
    <2> DEFINE x == F[j - 1]
               y == seqs[j]
    <2>4. x \in Seq(Octets) /\ y \in Seq(Octets)
        BY <2>1
    <2> HIDE DEF x, y
    <2>5. Holds(buf, o, x \o y) <=> Holds(buf, o, x) /\ Holds(buf, o + Len(x), y)
        BY <2>4, HoldsParts
    <2>. QED
        BY <2>1, <2>2, <2>3, <2>5 DEF x, y
<1>3. \A j \in 0..n : Holds(buf, o, F[j])
    <2> DEFINE T == {d \in 0..n : Holds(buf, o, F[n - d])}
    <2>1. 0 \in T
        BY <1>0, <1>1
    <2>2. ASSUME NEW d \in 1..n, d - 1 \in T
          PROVE  d \in T
        <3>1. n - (d - 1) \in 1..n /\ (n - (d - 1)) - 1 = n - d
            BY <1>0
        <3>2. Holds(buf, o, F[n - (d - 1)])
            BY <2>2
        <3>3. Holds(buf, o, F[(n - (d - 1)) - 1])
            BY <1>2, <3>1, <3>2, Zenon
        <3>4. Holds(buf, o, F[n - d]) /\ d \in 0..n
            BY <1>0, <3>1, <3>3
        <3>. QED
            BY <3>4
    <2>3. ASSUME NEW j \in 0..n
          PROVE  n - j \in T => Holds(buf, o, F[j])
        <3>1. n - (n - j) = j
            BY <1>0
        <3>. QED
            BY <3>1
    <2> HIDE DEF T
    <2>4. 0..n \subseteq T
        BY <1>0, <2>1, <2>2, AllTurns
    <2>5. \A j \in 0..n : n - j \in 0..n
        BY <1>0
    <2>. QED
        BY <2>3, <2>4, <2>5
<1> DEFINE P == [j \in 0..n |-> o + Len(F[j])]
<1>4. P \in [0..n -> Nat]
    BY <1>1
<1>5. P[0] = o /\ P[n] = o + Len(FlattenSeq(seqs))
    BY <1>0, <1>1
<1>6. ASSUME NEW j \in 1..n
      PROVE  P[j] = P[j - 1] + Len(seqs[j]) /\ Holds(buf, P[j - 1], seqs[j])
    <2>1. j \in 0..n /\ j - 1 \in 0..n
        BY <1>0
    <2>2. P[j] = o + Len(F[j]) /\ P[j - 1] = o + Len(F[j - 1])
        BY <2>1
    <2>3. Len(F[j - 1]) \in Nat /\ Len(seqs[j]) \in Nat
        BY <1>2
    <2> HIDE DEF P
    <2>4. P[j] = P[j - 1] + Len(seqs[j])
        <3>1. Len(F[j]) = Len(F[j - 1]) + Len(seqs[j])
            BY <1>2, Zenon
        <3>2. \A x, y \in Nat : (o + x) + y = o + (x + y)
            OBVIOUS
        <3>3. (o + Len(F[j - 1])) + Len(seqs[j]) = o + (Len(F[j - 1]) + Len(seqs[j]))
            BY <2>3, <3>2, Zenon
        <3>. QED
            BY <2>2, <3>1, <3>3, Zenon
    <2>5. Holds(buf, o, F[j])
        BY <1>3, <2>1
    <2>6. Holds(buf, o + Len(F[j - 1]), seqs[j])
        BY <1>2, <2>5
    <2>. QED
        BY <2>2, <2>4, <2>6, Zenon
<1> HIDE DEF P
<1>. QED
    BY <1>4, <1>5, <1>6 DEF n

(* A key with its size, and a value with the size of its text.               *)
LEMMA SizedIs ==
    ASSUME NEW w \in Texts
    PROVE  /\ w \in Seq(Octets) /\ Len(w) \in Nat
           /\ Sized(w) \in Seq(Octets) /\ Len(Sized(w)) = 2 + Len(w)
<1>1. w \in Seq(Octets) /\ Len(w) \in Nat
    BY DEF Texts
<1>2. Short(Len(w)) \in Seq(Octets) /\ Len(Short(Len(w))) = 2
    BY <1>1, ShortIs
<1>3. Sized(w) \in Seq(Octets) /\ Len(Sized(w)) = Len(Short(Len(w))) + Len(w)
    BY <1>1, <1>2, ConcatProperties DEF Sized
<1>. QED
    BY <1>1, <1>2, <1>3

(* A key is found behind its length.                                         *)
LEMMA ReadsKey ==
    ASSUME NEW buf \in Seq(Octets), NEW o \in Nat, NEW w \in Texts,
           Holds(buf, o, Sized(w))
    PROVE  ToShort(buf, o) = Len(w) /\ Slice(buf, o + 2, Len(w)) = w
<1>1. w \in Seq(Octets) /\ Len(w) \in Nat /\ Len(w) <= MaxShort /\ -MaxShort - 1 <= Len(w)
    BY DEF Texts, MaxShort
<1>2. Short(Len(w)) \in Seq(Octets) /\ Len(Short(Len(w))) = 2
    BY <1>1, ShortIs
<1>3. Holds(buf, o, Short(Len(w))) /\ Holds(buf, o + Len(Short(Len(w))), w)
    BY <1>1, <1>2, HoldsParts DEF Sized
<1>4. Holds(buf, o + 2, w) /\ o + 2 \in Nat
    BY <1>2, <1>3
<1>5. ToShort(buf, o) = Len(w)
    BY <1>1, <1>3, ReadsShort
<1>. QED
    BY <1>1, <1>4, <1>5, ReadsOctets

(* A value is the length of its text and the text.                           *)
LEMMA EncodedIs ==
    ASSUME NEW v \in Seq(Octets), Base64Length(Len(v)) <= MaxLong
    PROVE  /\ Base64Encode(v) \in Seq(Octets)
           /\ Base64Length(Len(v)) \in Nat /\ Len(Base64Encode(v)) = Base64Length(Len(v))
           /\ Encoded(v) = Long(Base64Length(Len(v))) \o Base64Encode(v)
           /\ Encoded(v) \in Seq(Octets) /\ Len(Encoded(v)) = 4 + Base64Length(Len(v))
<1> DEFINE text == Base64Encode(v)
           n == Base64Length(Len(v))
<1>1. text \in Seq(Octets) /\ Len(text) = 4 * Groups(v)
    BY TextIs
<1>2. n \in Nat /\ n = 4 * Groups(v)
    BY DEF Base64Length, Groups
<1>3. Encoded(v) = Long(Len(text)) \o text
    BY DEF Encoded
<1> HIDE DEF text, n
<1>4. Len(text) = n
    BY <1>1, <1>2
<1>5. Long(n) \in Seq(Octets) /\ Len(Long(n)) = 4
    BY <1>2, LongIs
<1>6. Encoded(v) = Long(n) \o text
    BY <1>3, <1>4
<1>7. Encoded(v) \in Seq(Octets) /\ Len(Encoded(v)) = Len(Long(n)) + Len(text)
    BY <1>1, <1>5, <1>6, ConcatProperties, ZenonT(30)
<1>8. Len(Encoded(v)) = 4 + n
    BY <1>4, <1>5, <1>7
<1>. QED
    BY <1>1, <1>2, <1>4, <1>6, <1>7, <1>8 DEF text, n

(* A value is found behind the length of its text, and decoded.              *)
LEMMA ReadsValue ==
    ASSUME NEW buf \in Seq(Octets), NEW o \in Nat, NEW v \in Seq(Octets),
           Base64Length(Len(v)) <= MaxLong, Holds(buf, o, Encoded(v))
    PROVE  /\ ToLong(buf, o) = Base64Length(Len(v))
           /\ Decoded(Slice(buf, o + 4, Base64Length(Len(v)))) = v
<1> DEFINE n == Base64Length(Len(v))
           text == Base64Encode(v)
<1>1. /\ text \in Seq(Octets) /\ n \in Nat /\ Len(text) = n
      /\ Encoded(v) = Long(n) \o text
    BY EncodedIs
<1>2. n <= MaxLong /\ -MaxLong - 1 <= n
    BY <1>1 DEF MaxLong
<1> HIDE DEF n, text
<1>3. Long(n) \in Seq(Octets) /\ Len(Long(n)) = 4
    BY <1>1, LongIs
<1>4. Holds(buf, o, Long(n)) /\ Holds(buf, o + Len(Long(n)), text)
    <2>1. Holds(buf, o, Long(n) \o text)
        BY <1>1
    <2>. QED
        BY <1>1, <1>3, <2>1, HoldsParts
<1>5. Holds(buf, o + 4, text) /\ o + 4 \in Nat
    BY <1>3, <1>4
<1>6. ToLong(buf, o) = n
    BY <1>1, <1>2, <1>4, ReadsLong
<1>7. Slice(buf, o + 4, Len(text)) = text
    BY <1>1, <1>5, ReadsOctets
<1>8. Decoded(text) = v
    BY Base64RoundTrip DEF text
<1>. QED
    BY <1>1, <1>6, <1>7, <1>8 DEF n

(* Where a field ends of which buf may hold a part: not behind the end of    *)
(* the message, and at it once nothing is missing.                           *)
EndsBy(e, buf, whole) ==
    e \in Nat /\ e <= whole /\ (e <= Len(buf) => e = whole)

(* A receiver that has part of a key asks for no octet behind it.            *)
LEMMA KeyEndIs ==
    ASSUME NEW buf \in Seq(Octets), NEW all \in Seq(Octets), Holds(all, 0, buf),
           NEW o \in Nat, o <= Len(buf), NEW w \in Texts, Holds(all, o, Sized(w))
    PROVE  EndsBy(KeyEnd(buf, o), buf, o + Len(Sized(w)))
<1>1. Len(w) \in Nat /\ Len(Sized(w)) = 2 + Len(w) /\ w \in Seq(Octets)
    BY SizedIs
<1>2. CASE Len(buf) < o + 2
    BY <1>1, <1>2 DEF KeyEnd, EndsBy
<1>3. CASE ~(Len(buf) < o + 2)
    <2>1. Len(w) \in Int /\ Len(w) <= MaxShort /\ -MaxShort - 1 <= Len(w)
        BY <1>1 DEF Texts, MaxShort
    <2>2. Short(Len(w)) \in Seq(Octets) /\ Len(Short(Len(w))) = 2
        BY <1>1, ShortIs
    <2>3. Holds(all, o, Short(Len(w)))
        BY <1>1, <2>2, HoldsParts DEF Sized
    <2>4. Holds(buf, o, Short(Len(w)))
        <3>1. o + Len(Short(Len(w))) <= Len(buf)
            BY <1>3, <2>2
        <3>. QED
            BY <2>2, <2>3, <3>1, HoldsPrefix
    <2>5. ToShort(buf, o) = Len(w)
        BY <2>1, <2>4, ReadsShort
    <2>. QED
        BY <1>1, <1>3, <2>5 DEF KeyEnd, EndsBy
<1>. QED
    BY <1>2, <1>3

(* The same for data,                                                        *)
LEMMA DataEndIs ==
    ASSUME NEW buf \in Seq(Octets), NEW all \in Seq(Octets), Holds(all, 0, buf),
           NEW o \in Nat, o <= Len(buf), NEW v \in Seq(Octets),
           Base64Length(Len(v)) <= MaxLong, Holds(all, o, Encoded(v))
    PROVE  EndsBy(DataEnd(buf, o), buf, o + Len(Encoded(v)))
<1> DEFINE n == Base64Length(Len(v))
<1>1. /\ n \in Nat /\ Len(Encoded(v)) = 4 + n /\ Base64Encode(v) \in Seq(Octets)
      /\ Encoded(v) = Long(n) \o Base64Encode(v)
    BY EncodedIs
<1>2. n \in Int /\ n <= MaxLong /\ -MaxLong - 1 <= n
    BY <1>1 DEF MaxLong
<1> HIDE DEF n
<1>3. CASE Len(buf) < o + 4
    BY <1>1, <1>3 DEF DataEnd, EndsBy
<1>4. CASE ~(Len(buf) < o + 4)
    <2>1. Long(n) \in Seq(Octets) /\ Len(Long(n)) = 4
        BY <1>2, LongIs
    <2>2. Holds(all, o, Long(n))
        BY <1>1, <2>1, HoldsParts
    <2>3. Holds(buf, o, Long(n))
        <3>1. o + Len(Long(n)) <= Len(buf)
            BY <1>4, <2>1
        <3>. QED
            BY <2>1, <2>2, <3>1, HoldsPrefix
    <2>4. ToLong(buf, o) = n
        BY <1>2, <2>3, ReadsLong
    <2>. QED
        BY <1>1, <1>4, <2>4 DEF DataEnd, EndsBy
<1>. QED
    BY <1>3, <1>4

(* and for an entry: first its key, then its data.                           *)
LEMMA EntryEndIs ==
    ASSUME NEW buf \in Seq(Octets), NEW all \in Seq(Octets), Holds(all, 0, buf),
           NEW o \in Nat, o <= Len(buf), NEW w \in Texts, NEW v \in Seq(Octets),
           Base64Length(Len(v)) <= MaxLong, Holds(all, o, Sized(w) \o Encoded(v))
    PROVE  EndsBy(EntryEnd(buf, o), buf, o + Len(Sized(w) \o Encoded(v)))
<1>1. /\ Sized(w) \in Seq(Octets) /\ Encoded(v) \in Seq(Octets)
      /\ Len(Sized(w)) \in Nat /\ Len(Encoded(v)) \in Nat
    BY SizedIs, EncodedIs
<1>2. Len(Sized(w) \o Encoded(v)) = Len(Sized(w)) + Len(Encoded(v))
    BY <1>1, ConcatProperties
<1>3. Holds(all, o, Sized(w)) /\ Holds(all, o + Len(Sized(w)), Encoded(v))
    BY <1>1, HoldsParts
<1> DEFINE e == KeyEnd(buf, o)
           k == o + Len(Sized(w))
           d == Len(Encoded(v))
<1>4. EndsBy(e, buf, k)
    BY <1>3, KeyEndIs
<1>5. EntryEnd(buf, o) = IF Len(buf) < e THEN e ELSE DataEnd(buf, e)
    BY DEF EntryEnd
<1>6. k \in Nat /\ d \in Nat /\ o + Len(Sized(w) \o Encoded(v)) = k + d
    BY <1>1, <1>2
<1>7. k <= Len(buf) => EndsBy(DataEnd(buf, k), buf, k + d)
    BY <1>3, <1>6, DataEndIs
<1> HIDE DEF e, k, d
<1>8. EndsBy(EntryEnd(buf, o), buf, k + d)
    BY <1>4, <1>5, <1>6, <1>7 DEF EndsBy
<1>. QED
    BY <1>6, <1>8

(* The keys of an answer behind their number, and where each begins.         *)
SizedKeys(ks) == [j \in DOMAIN ks |-> Sized(ks[j])]
KeysText(ks) == Long(Len(ks)) \o FlattenSeq(SizedKeys(ks))

(* Each key of an answer has its length in front of it.                      *)
LEMMA SizedKeysAre ==
    ASSUME NEW ks \in Seq(Texts)
    PROVE  /\ Len(ks) \in Nat /\ SizedKeys(ks) \in Seq(Seq(Octets))
           /\ Len(SizedKeys(ks)) = Len(ks)
           /\ \A j \in 1..Len(ks) : /\ ks[j] \in Texts /\ SizedKeys(ks)[j] = Sized(ks[j])
                                    /\ Len(ks[j]) \in Nat
                                    /\ Len(SizedKeys(ks)[j]) = 2 + Len(ks[j])
<1> DEFINE n == Len(ks)
<1>1. n \in Nat /\ DOMAIN ks = 1..n
    OBVIOUS
<1>2. ASSUME NEW j \in 1..n
      PROVE  /\ ks[j] \in Texts /\ Sized(ks[j]) \in Seq(Octets) /\ Len(ks[j]) \in Nat
             /\ Len(Sized(ks[j])) = 2 + Len(ks[j])
    <2>1. ks[j] \in Texts
        BY ElementOfSeq
    <2>. QED
        BY <2>1, SizedIs
<1> HIDE DEF n
<1>3. SizedKeys(ks) = [j \in 1..n |-> Sized(ks[j])]
    BY <1>1 DEF SizedKeys
<1>4. SizedKeys(ks) \in Seq(Seq(Octets)) /\ Len(SizedKeys(ks)) = n
    BY <1>1, <1>2, <1>3
<1>5. \A j \in 1..n : SizedKeys(ks)[j] = Sized(ks[j])
    BY <1>3
<1>. QED
    BY <1>1, <1>2, <1>4, <1>5 DEF n

(* The keys of an answer are so many octets.                                 *)
LEMMA KeysTextIs ==
    ASSUME NEW ks \in Seq(Texts)
    PROVE  /\ FlattenSeq(SizedKeys(ks)) \in Seq(Octets)
           /\ Long(Len(ks)) \in Seq(Octets) /\ Len(Long(Len(ks))) = 4
           /\ KeysText(ks) \in Seq(Octets)
           /\ Len(KeysText(ks)) = 4 + Len(FlattenSeq(SizedKeys(ks)))
<1> DEFINE f == FlattenSeq(SizedKeys(ks))
<1>1. Len(ks) \in Nat /\ SizedKeys(ks) \in Seq(Seq(Octets))
    BY SizedKeysAre
<1>2. f \in Seq(Octets)
    <2> DEFINE seqs == SizedKeys(ks)
    <2>1. PICK F \in [0..Len(seqs) -> Seq(Octets)] : FlattenSeq(seqs) = F[Len(seqs)]
        BY <1>1, FlattenIs
    <2>2. Len(seqs) \in 0..Len(seqs)
        BY <1>1
    <2>. QED
        BY <2>1, <2>2
<1>3. Long(Len(ks)) \in Seq(Octets) /\ Len(Long(Len(ks))) = 4
    BY <1>1, LongIs
<1>4. KeysText(ks) = Long(Len(ks)) \o f
    BY DEF KeysText
<1> HIDE DEF f
<1>5. KeysText(ks) \in Seq(Octets) /\ Len(KeysText(ks)) = Len(Long(Len(ks))) + Len(f)
    BY <1>2, <1>3, <1>4, ConcatProperties, ZenonT(30)
<1>. QED
    BY <1>2, <1>3, <1>5 DEF f

(* Where the keys start in buf, and where the last one ends.                 *)
Offsets(buf, o, ks, P) ==
    /\ P \in [0..Len(ks) -> Nat]
    /\ P[0] = o + 4
    /\ \A j \in 1..Len(ks) :
         P[j] = (P[j - 1] + 2) + Len(ks[j]) /\ Holds(buf, P[j - 1], Sized(ks[j]))
    /\ P[Len(ks)] = o + Len(KeysText(ks))

(* The number of keys is found, and each key where the one before it ends.   *)
LEMMA ReadsKeys ==
    ASSUME NEW buf \in Seq(Octets), NEW o \in Nat, NEW ks \in Seq(Texts),
           Len(ks) <= MaxLong, Holds(buf, o, KeysText(ks))
    PROVE  /\ Holds(buf, o, Long(Len(ks))) /\ ToLong(buf, o) = Len(ks)
           /\ \E P : Offsets(buf, o, ks, P)
<1> DEFINE n == Len(ks)
           seqs == SizedKeys(ks)
           f == FlattenSeq(seqs)
<1>1. /\ f \in Seq(Octets) /\ Long(n) \in Seq(Octets) /\ Len(Long(n)) = 4
      /\ Len(KeysText(ks)) = 4 + Len(f) /\ KeysText(ks) = Long(n) \o f
    BY KeysTextIs DEF KeysText
<1>2. /\ n \in Nat /\ seqs \in Seq(Seq(Octets)) /\ Len(seqs) = n
      /\ \A j \in 1..n : /\ seqs[j] = Sized(ks[j]) /\ Len(ks[j]) \in Nat
                         /\ Len(seqs[j]) = 2 + Len(ks[j])
    BY SizedKeysAre
<1>3. n \in Int /\ n <= MaxLong /\ -MaxLong - 1 <= n
    BY <1>2 DEF MaxLong
<1> HIDE DEF n, seqs, f
<1>4. Holds(buf, o, Long(n)) /\ Holds(buf, o + 4, f) /\ o + 4 \in Nat
    <2>1. Holds(buf, o, Long(n) \o f)
        BY <1>1
    <2>2. Holds(buf, o, Long(n)) /\ Holds(buf, o + Len(Long(n)), f)
        BY <1>1, <2>1, HoldsParts
    <2>. QED
        BY <1>1, <2>2
<1>5. ToLong(buf, o) = n
    BY <1>3, <1>4, ReadsLong
<1>6. PICK P \in [0..n -> Nat] :
         /\ P[0] = o + 4
         /\ \A j \in 1..n :
              P[j] = P[j - 1] + Len(seqs[j]) /\ Holds(buf, P[j - 1], seqs[j])
         /\ P[n] = (o + 4) + Len(f)
    BY <1>2, <1>4, FlattenHeld DEF f
<1>7. ASSUME NEW j \in 1..n
      PROVE  P[j] = (P[j - 1] + 2) + Len(ks[j]) /\ Holds(buf, P[j - 1], Sized(ks[j]))
    <2>1. P[j - 1] \in Nat
        BY <1>2, <1>6
    <2>2. Len(ks[j]) \in Nat /\ Len(seqs[j]) = 2 + Len(ks[j]) /\ seqs[j] = Sized(ks[j])
        BY <1>2
    <2>3. P[j] = P[j - 1] + Len(seqs[j]) /\ Holds(buf, P[j - 1], seqs[j])
        BY <1>6
    <2>4. \A x, y \in Nat : x + (2 + y) = (x + 2) + y
        OBVIOUS
    <2>. QED
        BY <2>1, <2>2, <2>3, <2>4, Zenon
<1>8. P[n] = o + Len(KeysText(ks))
    BY <1>1, <1>6
<1>9. Offsets(buf, o, ks, P)
    BY <1>6, <1>7, <1>8 DEF Offsets, n
<1>. QED
    BY <1>4, <1>5, <1>9 DEF n

(* The equation that the recursive function in KeysAt solves.                *)
StartEq(buf, o, n, W) ==
    W = [j \in 1..n + 1 |-> IF j = 1 THEN o + 4
                            ELSE W[j - 1] + 2 + ToShort(buf, W[j - 1])]

(* The loop of buffer_to_message that takes the keys out finds them all.     *)
LEMMA KeysAtIs ==
    ASSUME NEW buf \in Seq(Octets), NEW o \in Nat, NEW ks \in Seq(Texts),
           Len(ks) <= MaxLong, Holds(buf, o, KeysText(ks))
    PROVE  KeysAt(buf, o) = ks
<1> DEFINE n == Len(ks)
           start == CHOOSE W : StartEq(buf, o, n, W)
<1>1. n \in Nat /\ \A j \in 1..n : ks[j] \in Texts
    BY SizedKeysAre
<1>2. ToLong(buf, o) = n
    BY ReadsKeys
<1>3. KeysAt(buf, o) = [j \in 1..n |-> Slice(buf, start[j] + 2, ToShort(buf, start[j]))]
    BY <1>2 DEF KeysAt, StartEq
<1>4. PICK P : Offsets(buf, o, ks, P)
    BY ReadsKeys
<1>5. P \in [0..n -> Nat] /\ P[0] = o + 4
    BY <1>4 DEF Offsets
<1>6. ASSUME NEW j \in 1..n
      PROVE  /\ P[j - 1] \in Nat /\ P[j] = P[j - 1] + 2 + ToShort(buf, P[j - 1])
             /\ Slice(buf, P[j - 1] + 2, ToShort(buf, P[j - 1])) = ks[j]
    <2>1. P[j - 1] \in Nat
        BY <1>1, <1>5, SMTT(20)
    <2>2. Holds(buf, P[j - 1], Sized(ks[j])) /\ P[j] = (P[j - 1] + 2) + Len(ks[j])
        BY <1>4 DEF Offsets
    <2>3. /\ ToShort(buf, P[j - 1]) = Len(ks[j])
          /\ Slice(buf, P[j - 1] + 2, Len(ks[j])) = ks[j]
        BY <1>1, <2>1, <2>2, ReadsKey
    <2>. QED
        BY <2>1, <2>2, <2>3, Zenon
<1> DEFINE G == [j \in 1..n + 1 |-> P[j - 1]]
<1>7. StartEq(buf, o, n, G)
    <2>1. ASSUME NEW j \in 1..n + 1
          PROVE  P[j - 1] = IF j = 1 THEN o + 4
                            ELSE G[j - 1] + 2 + ToShort(buf, G[j - 1])
        <3>1. CASE j = 1
            BY <1>5, <3>1
        <3>2. CASE j # 1
            <4>1. j - 1 \in 1..n /\ j - 1 \in 1..n + 1
                BY <1>1, <3>2
            <4>2. G[j - 1] = P[(j - 1) - 1]
                BY <4>1
            <4> HIDE DEF G
            <4>3. P[j - 1] = G[j - 1] + 2 + ToShort(buf, G[j - 1])
                BY <1>6, <4>1, <4>2, Zenon
            <4>. QED
                BY <3>2, <4>3, Zenon
        <3>. QED
            BY <3>1, <3>2
    <2>. QED
        BY <2>1 DEF StartEq
<1>8. StartEq(buf, o, n, start)
    <2> HIDE DEF G
    <2>. QED
        BY <1>7
<1> HIDE DEF start, G
<1>9. \A j \in 1..n + 1 : start[j] = IF j = 1 THEN o + 4
                                     ELSE start[j - 1] + 2 + ToShort(buf, start[j - 1])
    BY <1>8 DEF StartEq
<1> DEFINE T == {d \in 0..n : start[d + 1] = P[d]}
<1>10. 0 \in T
    BY <1>1, <1>5, <1>9
<1>11. ASSUME NEW d \in 1..n, d - 1 \in T
       PROVE  d \in T
    <2>1. /\ d + 1 \in 1..n + 1 /\ d + 1 # 1 /\ (d + 1) - 1 = d /\ (d - 1) + 1 = d
          /\ d \in 0..n
        BY <1>1
    <2>2. start[(d - 1) + 1] = P[d - 1]
        BY <1>11
    <2>3. start[d] = P[d - 1]
        BY <2>1, <2>2, Zenon
    <2>4. start[d + 1] = start[(d + 1) - 1] + 2 + ToShort(buf, start[(d + 1) - 1])
        BY <1>9, <2>1, Zenon
    <2>5. start[d + 1] = start[d] + 2 + ToShort(buf, start[d])
        BY <2>1, <2>4, Zenon
    <2>6. start[d + 1] = P[d]
        BY <1>6, <2>3, <2>5, Zenon
    <2>. QED
        BY <2>1, <2>6
<1>12. \A d \in 0..n : start[d + 1] = P[d]
    <2> HIDE DEF T
    <2>1. 0..n \subseteq T
        BY <1>1, <1>10, <1>11, AllTurns
    <2>. QED
        BY <2>1 DEF T
<1>13. ASSUME NEW j \in 1..n
       PROVE  Slice(buf, start[j] + 2, ToShort(buf, start[j])) = ks[j]
    <2>1. j - 1 \in 0..n /\ (j - 1) + 1 = j
        BY <1>1
    <2>2. start[j] = P[j - 1]
        BY <1>12, <2>1, Zenon
    <2>. QED
        BY <1>6, <2>2, Zenon
<1>14. ks = [j \in 1..n |-> ks[j]]
    OBVIOUS
<1> HIDE DEF n
<1>15. KeysAt(buf, o) = [j \in 1..n |-> ks[j]]
    BY <1>3, <1>13
<1>. QED
    BY <1>14, <1>15, Zenon

(* The equation that the recursive function in KeysEnd solves.               *)
TurnEq(buf, o, n, W) ==
    W = [j \in 0..n |-> IF j = 0 THEN o + 4
                        ELSE IF Len(buf) < W[j - 1] THEN W[j - 1]
                        ELSE KeyEnd(buf, W[j - 1])]

(* The turns of the loop in KeysEnd, as long as they end at natural numbers. *)
Turns(buf, o, n, f) ==
    /\ f[0] = o + 4
    /\ \A j \in 1..n : f[j - 1] \in Nat =>
         IF Len(buf) < f[j - 1] THEN f[j] = f[j - 1]
         ELSE KeyEnd(buf, f[j - 1]) \in Nat => f[j] = KeyEnd(buf, f[j - 1])

(* The loop of network_receive over the keys: after each turn the receiver   *)
(* knows of no octet behind the keys so far, and of all of them once it has  *)
(* them.                                                                     *)
LEMMA TurnsEnd ==
    ASSUME NEW buf \in Seq(Octets), NEW all \in Seq(Octets), Holds(all, 0, buf),
           NEW o \in Nat, NEW ks \in Seq(Texts), NEW P, Offsets(all, o, ks, P),
           o + 4 <= Len(buf), NEW f, Turns(buf, o, Len(ks), f)
    PROVE  /\ \A j \in 0..Len(ks) : EndsBy(f[j], buf, P[j])
           /\ \A j \in 1..Len(ks) :
                Len(buf) < f[j - 1] \/ KeyEnd(buf, f[j - 1]) \in Nat
<1> DEFINE n == Len(ks)
           T == {j \in 0..n : EndsBy(f[j], buf, P[j])}
<1>1. n \in Nat /\ \A j \in 1..n : ks[j] \in Texts /\ Len(ks[j]) \in Nat
    BY SizedKeysAre
<1>2. P \in [0..n -> Nat] /\ P[0] = o + 4
    BY DEF Offsets
<1>3. 0 \in T
    BY <1>1, <1>2 DEF EndsBy, Turns
<1>4. ASSUME NEW j \in 1..n, j - 1 \in T
      PROVE  j \in T /\ (Len(buf) < f[j - 1] \/ KeyEnd(buf, f[j - 1]) \in Nat)
    <2> DEFINE e == f[j - 1]
               p == P[j - 1]
               d == Len(Sized(ks[j]))
    <2>1. EndsBy(e, buf, p)
        BY <1>4
    <2>2. p \in Nat /\ P[j] \in Nat
        <3>1. j - 1 \in 0..n /\ j \in 0..n
            BY <1>1
        <3> HIDE DEF n
        <3>. QED
            BY <1>2, <3>1
    <2>3. d = 2 + Len(ks[j]) /\ Len(ks[j]) \in Nat
        BY <1>1, SizedIs
    <2>4. P[j] = (p + 2) + Len(ks[j]) /\ Holds(all, p, Sized(ks[j]))
        BY DEF Offsets
    <2>5. P[j] = p + d /\ d \in Nat
        <3>1. \A x, y \in Nat : (x + 2) + y = x + (2 + y) /\ 2 + y \in Nat
            OBVIOUS
        <3> HIDE DEF p, d
        <3>. QED
            BY <2>2, <2>3, <2>4, <3>1, Zenon
    <2>6. IF Len(buf) < e THEN f[j] = e
          ELSE KeyEnd(buf, e) \in Nat => f[j] = KeyEnd(buf, e)
        BY <2>1 DEF Turns, EndsBy
    <2>7. p <= Len(buf) => EndsBy(KeyEnd(buf, p), buf, p + d)
        BY <1>1, <2>2, <2>4, KeyEndIs
    <2>8. j \in 0..n
        BY <1>1
    <2> HIDE DEF e, p, d
    <2>9. Len(buf) \in Nat
        OBVIOUS
    <2>10. EndsBy(f[j], buf, p + d) /\ (Len(buf) < e \/ KeyEnd(buf, e) \in Nat)
        <3>1. CASE Len(buf) < e
            BY <2>1, <2>2, <2>5, <2>6, <2>9, <3>1 DEF EndsBy
        <3>2. CASE ~(Len(buf) < e)
            <4>1. e = p /\ p <= Len(buf)
                BY <2>1, <2>2, <2>9, <3>2 DEF EndsBy
            <4>2. EndsBy(KeyEnd(buf, e), buf, p + d)
                BY <2>7, <4>1, Zenon
            <4>3. KeyEnd(buf, e) \in Nat
                BY <4>2 DEF EndsBy
            <4>. QED
                BY <2>6, <3>2, <4>2, <4>3, Zenon
        <3>. QED
            BY <3>1, <3>2
    <2>. QED
        BY <2>5, <2>8, <2>10 DEF e
<1>5. 0..n \subseteq T
    <2> HIDE DEF T
    <2>. QED
        BY <1>1, <1>3, <1>4, AllTurns
<1>6. ASSUME NEW j \in 1..n
      PROVE  Len(buf) < f[j - 1] \/ KeyEnd(buf, f[j - 1]) \in Nat
    <2>1. j - 1 \in 0..n
        BY <1>1
    <2>2. j - 1 \in T
        BY <1>5, <2>1
    <2> HIDE DEF T
    <2>. QED
        BY <1>4, <2>2
<1>. QED
    BY <1>5, <1>6

(* So a receiver that has part of the keys asks for no octet behind them.    *)
LEMMA KeysEndIs ==
    ASSUME NEW buf \in Seq(Octets), NEW all \in Seq(Octets), Holds(all, 0, buf),
           NEW o \in Nat, o <= Len(buf), NEW ks \in Seq(Texts), Len(ks) <= MaxLong,
           Holds(all, o, KeysText(ks))
    PROVE  EndsBy(KeysEnd(buf, o), buf, o + Len(KeysText(ks)))
<1> DEFINE n == Len(ks)
           turn == CHOOSE W : TurnEq(buf, o, n, W)
<1>1. /\ n \in Nat /\ Len(KeysText(ks)) \in Nat /\ 4 <= Len(KeysText(ks))
      /\ Long(n) \in Seq(Octets) /\ Len(Long(n)) = 4
    <2>1. Len(FlattenSeq(SizedKeys(ks))) \in Nat
        BY KeysTextIs
    <2>. QED
        BY <2>1, KeysTextIs
<1>2. CASE Len(buf) < o + 4
    <2>1. KeysEnd(buf, o) = o + 4
        BY <1>2 DEF KeysEnd
    <2>. QED
        BY <1>1, <1>2, <2>1 DEF EndsBy
<1>3. CASE ~(Len(buf) < o + 4)
    <2>1. ToLong(buf, o) = n
        <3>1. Holds(all, o, Long(n)) /\ o + Len(Long(n)) <= Len(buf)
            BY <1>1, <1>3, ReadsKeys
        <3>2. Holds(buf, o, Long(n))
            BY <1>1, <3>1, HoldsPrefix
        <3>3. n \in Int /\ n <= MaxLong /\ -MaxLong - 1 <= n
            BY <1>1 DEF MaxLong
        <3>. QED
            BY <3>2, <3>3, ReadsLong
    <2>2. KeysEnd(buf, o) = turn[n]
        BY <1>3, <2>1 DEF KeysEnd, TurnEq
    <2>3. PICK P : Offsets(all, o, ks, P)
        BY ReadsKeys
    <2>4. P \in [0..n -> Nat] /\ P[n] = o + Len(KeysText(ks))
        BY <2>3 DEF Offsets
    <2>5. o + 4 <= Len(buf)
        BY <1>3
    <2>6. \E W : TurnEq(buf, o, n, W)
        <3> DEFINE next(p) == IF Len(buf) < p THEN p
                              ELSE IF KeyEnd(buf, p) \in Nat THEN KeyEnd(buf, p) ELSE 0
                   step == [j \in 1..n |-> [p \in Nat |-> next(p)]]
        <3>1. step \in [1..n -> [Nat -> Nat]] /\ o + 4 \in Nat
            OBVIOUS
        <3>2. \A j \in 1..n : \A p \in Nat : step[j][p] = next(p)
            OBVIOUS
        <3> HIDE DEF step, n
        <3>3. PICK f : Runs(n, Nat, o + 4, step, f)
            BY <1>1, <3>1, Recursion
        <3>4. f \in [0..n -> Nat] /\ f[0] = o + 4
            BY <3>3 DEF Runs
        <3>5. ASSUME NEW j \in 1..n
              PROVE  f[j - 1] \in Nat /\ f[j] \in Nat /\ f[j] = next(f[j - 1])
            <4>1. j - 1 \in 0..n /\ j \in 0..n
                BY <1>1
            <4>2. f[j - 1] \in Nat /\ f[j] \in Nat
                BY <3>4, <4>1
            <4>3. f[j] = step[j][f[j - 1]]
                BY <3>3 DEF Runs
            <4>. QED
                BY <3>2, <4>2, <4>3, Zenon
        <3>6. Turns(buf, o, n, f)
            BY <3>4, <3>5 DEF Turns
        <3>7. \A j \in 1..n : Len(buf) < f[j - 1] \/ KeyEnd(buf, f[j - 1]) \in Nat
            BY <2>3, <2>5, <3>6, TurnsEnd DEF n
        <3>8. ASSUME NEW j \in 0..n
              PROVE  f[j] = IF j = 0 THEN o + 4
                            ELSE IF Len(buf) < f[j - 1] THEN f[j - 1]
                            ELSE KeyEnd(buf, f[j - 1])
            <4>1. CASE j = 0
                BY <3>4, <4>1
            <4>2. CASE j # 0
                <5>1. j \in 1..n
                    BY <1>1, <4>2
                <5>2. f[j] = next(f[j - 1])
                    BY <3>5, <5>1
                <5>3. Len(buf) < f[j - 1] \/ KeyEnd(buf, f[j - 1]) \in Nat
                    BY <3>7, <5>1
                <5>. QED
                    BY <4>2, <5>2, <5>3, Zenon
            <4>. QED
                BY <4>1, <4>2
        <3>9. f = [j \in 0..n |-> f[j]]
            BY <3>4
        <3>10. TurnEq(buf, o, n, f)
            BY <3>8, <3>9 DEF TurnEq
        <3>. QED
            BY <3>10
    <2>7. TurnEq(buf, o, n, turn)
        BY <2>6
    <2> HIDE DEF turn
    <2>8. Turns(buf, o, n, turn)
        <3>1. ASSUME NEW j \in 0..n
              PROVE  turn[j] = IF j = 0 THEN o + 4
                               ELSE IF Len(buf) < turn[j - 1] THEN turn[j - 1]
                               ELSE KeyEnd(buf, turn[j - 1])
            BY <2>7 DEF TurnEq
        <3>2. 0 \in 0..n /\ \A j \in 1..n : j \in 0..n /\ j # 0
            BY <1>1
        <3> HIDE DEF n
        <3>. QED
            BY <3>1, <3>2, Zenon DEF Turns
    <2>9. \A j \in 0..n : EndsBy(turn[j], buf, P[j])
        BY <2>3, <2>5, <2>8, TurnsEnd
    <2>10. EndsBy(turn[n], buf, P[n])
        BY <1>1, <2>9
    <2>. QED
        BY <2>2, <2>4, <2>10
<1>. QED
    BY <1>2, <1>3

-----------------------------------------------------------------------------
(* The messages.                                                             *)

(* The codes that htons carries as they are. *)
Codes == {k \in Nat : k <= MaxShort}

(* Behind the two codes comes the content. *)
Headed(op, ct, content) == Short(op) \o Short(ct) \o content

(* Both codes are found in front of the content.                             *)
LEMMA HeaderIs ==
    ASSUME NEW op \in Codes, NEW ct \in Codes, NEW content \in Seq(Octets)
    PROVE  LET all == Headed(op, ct, content)
           IN  /\ all \in Seq(Octets) /\ Len(content) \in Nat /\ Len(all) = 4 + Len(content)
               /\ Holds(all, 2, Short(ct)) /\ Len(Short(ct)) = 2 /\ Short(ct) \in Seq(Octets)
               /\ Holds(all, 4, content)
               /\ ToShort(all, 0) = op /\ ToShort(all, 2) = ct
<1> DEFINE a == Short(op)
           b == Short(ct)
           all == Headed(op, ct, content)
<1>1. /\ op \in Int /\ op <= MaxShort /\ -MaxShort - 1 <= op
      /\ ct \in Int /\ ct <= MaxShort /\ -MaxShort - 1 <= ct
    BY DEF Codes, MaxShort
<1>2. a \in Seq(Octets) /\ Len(a) = 2 /\ b \in Seq(Octets) /\ Len(b) = 2
    BY <1>1, ShortIs
<1>3. all = (a \o b) \o content
    BY DEF Headed
<1> HIDE DEF a, b, all
<1>4. a \o b \in Seq(Octets) /\ Len(a \o b) = 4
    <2>1. Len(a \o b) = Len(a) + Len(b) /\ a \o b \in Seq(Octets)
        BY <1>2, ConcatProperties
    <2>. QED
        BY <1>2, <2>1
<1>5. all \in Seq(Octets) /\ Len(all) = 4 + Len(content)
    <2>1. all \in Seq(Octets) /\ Len(all) = Len(a \o b) + Len(content)
        BY <1>3, <1>4, ConcatProperties
    <2>. QED
        BY <1>4, <2>1
<1>6. Holds(all, 0, a \o b) /\ Holds(all, 4, content)
    <2>1. Holds(all, 0, (a \o b) \o content)
        BY <1>3, <1>5, HoldsAll
    <2>2. Holds(all, 0, a \o b) /\ Holds(all, 0 + Len(a \o b), content)
        BY <1>4, <1>5, <2>1, HoldsParts
    <2>. QED
        BY <1>4, <2>2
<1>7. Holds(all, 0, a) /\ Holds(all, 2, b)
    <2>1. Holds(all, 0, a) /\ Holds(all, 0 + Len(a), b)
        BY <1>2, <1>5, <1>6, HoldsParts
    <2>. QED
        BY <1>2, <2>1
<1>8. ToShort(all, 0) = op /\ ToShort(all, 2) = ct
    BY <1>1, <1>5, <1>7, ReadsShort DEF a, b
<1>9. Len(content) \in Nat
    OBVIOUS
<1>. QED
    BY <1>2, <1>5, <1>6, <1>7, <1>8, <1>9 DEF b, all

(* A receiver that has read both codes knows the second; until then it reads *)
(* no further than them.                                                     *)
LEMMA HeaderEnds ==
    ASSUME NEW op \in Codes, NEW ct \in Codes, NEW content \in Seq(Octets),
           NEW buf \in Seq(Octets), Holds(Headed(op, ct, content), 0, buf), NEW s
    PROVE  /\ Len(buf) < 4 => EndsBy(FieldEnd(s, buf), buf, Len(Headed(op, ct, content)))
           /\ 4 <= Len(buf) => ToShort(buf, 2) = ct
<1> DEFINE all == Headed(op, ct, content)
<1> HIDE DEF all
<1>1. /\ all \in Seq(Octets) /\ Len(content) \in Nat /\ Len(all) = 4 + Len(content)
      /\ Holds(all, 2, Short(ct)) /\ Len(Short(ct)) = 2 /\ Short(ct) \in Seq(Octets)
      /\ Holds(all, 0, buf)
    BY HeaderIs DEF all
<1>2. Len(buf) \in Nat
    OBVIOUS
<1>3. Len(buf) < 2 => FieldEnd(s, buf) = 2
    BY DEF FieldEnd
<1>4. Len(buf) < 4 /\ ~(Len(buf) < 2) => FieldEnd(s, buf) = 4
    BY DEF FieldEnd
<1>5. Len(buf) < 4 => EndsBy(FieldEnd(s, buf), buf, Len(all))
    BY <1>1, <1>2, <1>3, <1>4 DEF EndsBy
<1>6. ASSUME 4 <= Len(buf)
      PROVE  ToShort(buf, 2) = ct
    <2>1. 2 + Len(Short(ct)) <= Len(buf)
        BY <1>1, <1>6
    <2>2. Holds(buf, 2, Short(ct))
        BY <1>1, <2>1, HoldsPrefix
    <2>3. ct \in Int /\ ct <= MaxShort /\ -MaxShort - 1 <= ct
        BY DEF Codes, MaxShort
    <2>. QED
        BY <2>2, <2>3, ReadsShort
<1>. QED
    BY <1>5, <1>6 DEF all

(* The octets of a message are whole when read_all has read the last field   *)
(* of it, and never before; and they are the message.                        *)
Carries(s, m) ==
    /\ Marshal(m) \in Seq(Octets) /\ 4 <= Len(Marshal(m))
    /\ Unmarshal(Marshal(m)) = Kept(m)
    /\ \A buf \in Seq(Octets) : Holds(Marshal(m), 0, buf) =>
         EndsBy(FieldEnd(Peer(s), buf), buf, Len(Marshal(m)))

(* A message without content comes through,                                  *)
LEMMA CarriesBare ==
    ASSUME NEW s, NEW op \in Codes
    PROVE  Carries(s, BareMsg(op))
<1> DEFINE all == Marshal(BareMsg(op))
<1>1. all = Headed(op, CT_NONE, <<>>)
    BY DEF Headed, Marshal, BareMsg, CT_NONE, CT_KEY, CT_VALUE, CT_ENTRY, CT_KEYS, CT_RESULT
<1>2. CT_NONE \in Codes /\ <<>> \in Seq(Octets) /\ Len(<<>>) = 0
    BY DEF CT_NONE, Codes, MaxShort
<1> HIDE DEF all
<1>3. /\ all \in Seq(Octets) /\ Len(all) = 4
      /\ ToShort(all, 0) = op /\ ToShort(all, 2) = CT_NONE
    <2> DEFINE none == <<>>
    <2>1. all = Headed(op, CT_NONE, none) /\ none \in Seq(Octets) /\ CT_NONE \in Codes
        BY <1>1, <1>2
    <2>2. Len(none) = 0
        BY <1>2
    <2> HIDE DEF none
    <2>3. /\ all \in Seq(Octets) /\ Len(all) = 4 + Len(none)
          /\ ToShort(all, 0) = op /\ ToShort(all, 2) = CT_NONE
        BY <2>1, HeaderIs
    <2>. QED
        BY <2>2, <2>3
<1>4. Unmarshal(all) = BareMsg(op)
    BY <1>3 DEF Unmarshal, CT_NONE, CT_KEY, CT_VALUE, CT_ENTRY, CT_KEYS, CT_RESULT
<1>5. Kept(BareMsg(op)) = BareMsg(op)
    BY DEF Kept, BareMsg, CT_NONE, CT_VALUE, CT_ENTRY
<1>6. ASSUME NEW buf \in Seq(Octets), Holds(all, 0, buf)
      PROVE  EndsBy(FieldEnd(Peer(s), buf), buf, Len(all))
    <2>1. /\ Len(buf) < 4 => EndsBy(FieldEnd(Peer(s), buf), buf, Len(all))
          /\ 4 <= Len(buf) => ToShort(buf, 2) = CT_NONE
        BY <1>1, <1>2, <1>6, HeaderEnds, ZenonT(30)
    <2>2. ASSUME 4 <= Len(buf)
          PROVE  FieldEnd(Peer(s), buf) = 4
        <3>1. ToShort(buf, 2) = CT_NONE /\ ~(Len(buf) < 4) /\ ~(Len(buf) < 2)
            BY <2>1, <2>2
        <3>. QED
            BY <3>1 DEF FieldEnd, CT_NONE, CT_KEY, CT_VALUE, CT_ENTRY, CT_KEYS, CT_RESULT
    <2>. QED
        BY <1>3, <2>1, <2>2 DEF EndsBy
<1>. QED
    BY <1>3, <1>4, <1>5, <1>6 DEF Carries, all

(* one with a key,                                                           *)
LEMMA CarriesKey ==
    ASSUME NEW op \in Codes, NEW w \in Texts
    PROVE  Carries("client", KeyMsg(op, w))
<1> DEFINE all == Marshal(KeyMsg(op, w))
<1>1. all = Headed(op, CT_KEY, Sized(w))
    BY DEF Headed, Marshal, KeyMsg, CT_NONE, CT_KEY, CT_VALUE, CT_ENTRY, CT_KEYS, CT_RESULT
<1>2. CT_KEY \in Codes
    BY DEF CT_KEY, Codes, MaxShort
<1>3. Sized(w) \in Seq(Octets)
    BY SizedIs
<1> HIDE DEF all
<1>4. /\ all \in Seq(Octets) /\ Len(Sized(w)) \in Nat /\ Len(all) = 4 + Len(Sized(w))
      /\ ToShort(all, 0) = op /\ ToShort(all, 2) = CT_KEY /\ Holds(all, 4, Sized(w))
    BY <1>1, <1>2, <1>3, HeaderIs
<1>5. Unmarshal(all) = KeyMsg(op, w)
    <2>1. ToShort(all, 4) = Len(w) /\ Slice(all, 4 + 2, Len(w)) = w
        BY <1>4, ReadsKey
    <2>2. Slice(all, 6, Len(w)) = w
        BY <2>1
    <2>3. Unmarshal(all) = KeyMsg(op, Slice(all, 6, ToShort(all, 4)))
        BY <1>4 DEF Unmarshal, CT_NONE, CT_KEY, CT_VALUE, CT_ENTRY, CT_KEYS, CT_RESULT
    <2>. QED
        BY <2>1, <2>2, <2>3
<1>6. Kept(KeyMsg(op, w)) = KeyMsg(op, w)
    BY DEF Kept, KeyMsg, CT_KEY, CT_VALUE, CT_ENTRY
<1>7. ASSUME NEW buf \in Seq(Octets), Holds(all, 0, buf)
      PROVE  EndsBy(FieldEnd("server", buf), buf, Len(all))
    <2>1. /\ Len(buf) < 4 => EndsBy(FieldEnd("server", buf), buf, Len(all))
          /\ 4 <= Len(buf) => ToShort(buf, 2) = CT_KEY
        BY <1>1, <1>2, <1>3, <1>7, HeaderEnds
    <2>2. ASSUME 4 <= Len(buf)
          PROVE  EndsBy(FieldEnd("server", buf), buf, Len(all))
        <3>1. ToShort(buf, 2) = CT_KEY /\ ~(Len(buf) < 4) /\ ~(Len(buf) < 2)
            BY <2>1, <2>2
        <3>2. FieldEnd("server", buf) = KeyEnd(buf, 4)
            BY <3>1 DEF FieldEnd, CT_NONE, CT_KEY, CT_VALUE, CT_ENTRY, CT_KEYS, CT_RESULT
        <3>3. EndsBy(KeyEnd(buf, 4), buf, 4 + Len(Sized(w)))
            BY <1>4, <1>7, <2>2, KeyEndIs
        <3>. QED
            BY <1>4, <3>2, <3>3
    <2>3. Len(buf) \in Nat
        OBVIOUS
    <2>. QED
        BY <2>1, <2>2, <2>3
<1>. QED
    BY <1>4, <1>5, <1>6, <1>7 DEF Carries, Peer, all

(* The values that base64_encode_alloc makes a text of that htonl can count.  *)
Values ==
    {v \in Seq(Octets) : Len(v) > 0 /\ Base64Length(Len(v)) <= MaxLong
                         /\ v # NULL /\ Grown(v) # NULL}

(* What a value of some size becomes. *)
LEMMA GrownIs ==
    ASSUME NEW buf \in Seq(Octets), NEW o \in Nat, NEW v \in Values,
           Holds(buf, o, Encoded(v))
    PROVE  /\ ToLong(buf, o) = Base64Length(Len(v)) /\ 0 < Base64Length(Len(v))
           /\ Decoded(Slice(buf, o + 4, ToLong(buf, o))) = v
           /\ ValueAt(buf, o) = Grown(v)
           /\ DataCreate2(ToLong(buf, o), v) = Grown(v)
<1>1. /\ v \in Seq(Octets) /\ Len(v) > 0 /\ Len(v) \in Nat /\ v # NULL
      /\ Base64Length(Len(v)) <= MaxLong
    BY DEF Values
<1>2. /\ ToLong(buf, o) = Base64Length(Len(v))
      /\ Decoded(Slice(buf, o + 4, Base64Length(Len(v)))) = v
    BY <1>1, ReadsValue
<1>3. \A n \in Nat : n > 0 => 0 < ((n + 2) \div 3) * 4
    OBVIOUS
<1>4. 0 < Base64Length(Len(v)) /\ Base64Length(Len(v)) \in Int
    BY <1>1, <1>3 DEF Base64Length
<1>5. ValueAt(buf, o) = Grown(v)
    BY <1>2 DEF ValueAt, Grown
<1>6. DataCreate2(ToLong(buf, o), v) = Grown(v)
    BY <1>1, <1>2, <1>4 DEF DataCreate2, Grown
<1>. QED
    BY <1>2, <1>4, <1>5, <1>6

GotMsg(op, v) == [opcode |-> op, c_type |-> CT_VALUE, value |-> v]
SizeMsg(op, r) == [opcode |-> op, c_type |-> CT_RESULT, result |-> r]
KeysMsg(op, ks) == [opcode |-> op, c_type |-> CT_KEYS, keys |-> ks]

(* one with a value,                                                         *)
LEMMA CarriesValue ==
    ASSUME NEW op \in Codes, NEW v \in Values
    PROVE  Carries("server", GotMsg(op, v))
<1> DEFINE all == Marshal(GotMsg(op, v))
<1>1. all = Headed(op, CT_VALUE, Encoded(v))
    BY DEF Headed, Marshal, GotMsg, CT_NONE, CT_KEY, CT_VALUE, CT_ENTRY, CT_KEYS, CT_RESULT
<1>2. CT_VALUE \in Codes
    BY DEF CT_VALUE, Codes, MaxShort
<1>3. /\ Encoded(v) \in Seq(Octets) /\ v \in Seq(Octets)
      /\ Base64Length(Len(v)) <= MaxLong
    BY EncodedIs DEF Values
<1> HIDE DEF all
<1>4. /\ all \in Seq(Octets) /\ Len(Encoded(v)) \in Nat /\ Len(all) = 4 + Len(Encoded(v))
      /\ ToShort(all, 0) = op /\ ToShort(all, 2) = CT_VALUE /\ Holds(all, 4, Encoded(v))
    BY <1>1, <1>2, <1>3, HeaderIs
<1>5. Unmarshal(all) = GotMsg(op, Grown(v))
    <2>1. ValueAt(all, 4) = Grown(v)
        BY <1>4, GrownIs
    <2>2. Unmarshal(all) = GotMsg(op, ValueAt(all, 4))
        BY <1>4 DEF Unmarshal, GotMsg, CT_NONE, CT_KEY, CT_VALUE, CT_ENTRY, CT_KEYS, CT_RESULT
    <2>. QED
        BY <2>1, <2>2
<1>6. Kept(GotMsg(op, v)) = GotMsg(op, Grown(v))
    BY DEF Kept, GotMsg, CT_VALUE, CT_ENTRY
<1>7. ASSUME NEW buf \in Seq(Octets), Holds(all, 0, buf)
      PROVE  EndsBy(FieldEnd("client", buf), buf, Len(all))
    <2>1. /\ Len(buf) < 4 => EndsBy(FieldEnd("client", buf), buf, Len(all))
          /\ 4 <= Len(buf) => ToShort(buf, 2) = CT_VALUE
        BY <1>1, <1>2, <1>3, <1>7, HeaderEnds
    <2>2. ASSUME 4 <= Len(buf)
          PROVE  EndsBy(FieldEnd("client", buf), buf, Len(all))
        <3>1. ToShort(buf, 2) = CT_VALUE /\ ~(Len(buf) < 4) /\ ~(Len(buf) < 2)
            BY <2>1, <2>2
        <3>2. FieldEnd("client", buf) = DataEnd(buf, 4)
            BY <3>1 DEF FieldEnd, CT_NONE, CT_KEY, CT_VALUE, CT_ENTRY, CT_KEYS, CT_RESULT
        <3>3. EndsBy(DataEnd(buf, 4), buf, 4 + Len(Encoded(v)))
            BY <1>3, <1>4, <1>7, <2>2, DataEndIs
        <3>. QED
            BY <1>4, <3>2, <3>3
    <2>3. Len(buf) \in Nat
        OBVIOUS
    <2>. QED
        BY <2>1, <2>2, <2>3
<1>. QED
    BY <1>4, <1>5, <1>6, <1>7 DEF Carries, Peer, all

(* one with a key and a value,                                               *)
LEMMA CarriesEntry ==
    ASSUME NEW w \in Texts, NEW v \in Values
    PROVE  Carries("client", PutMsg(w, v))
<1> DEFINE all == Marshal(PutMsg(w, v))
           entry == Sized(w) \o Encoded(v)
<1>1. all = Headed(OP_PUT, CT_ENTRY, entry)
    BY DEF Headed, Marshal, PutMsg, CT_NONE, CT_KEY, CT_VALUE, CT_ENTRY, CT_KEYS, CT_RESULT
<1>2. CT_ENTRY \in Codes /\ OP_PUT \in Codes
    BY DEF CT_ENTRY, OP_PUT, Codes, MaxShort
<1>3. /\ Encoded(v) \in Seq(Octets) /\ v \in Seq(Octets) /\ v # NULL
      /\ Base64Length(Len(v)) <= MaxLong /\ Grown(v) # NULL
      /\ Sized(w) \in Seq(Octets) /\ Len(Sized(w)) = 2 + Len(w) /\ Len(w) \in Nat
    BY EncodedIs, SizedIs DEF Values
<1>4. entry \in Seq(Octets)
    BY <1>3, ConcatProperties
<1> HIDE DEF all
<1>5. /\ all \in Seq(Octets) /\ Len(entry) \in Nat /\ Len(all) = 4 + Len(entry)
      /\ ToShort(all, 0) = OP_PUT /\ ToShort(all, 2) = CT_ENTRY /\ Holds(all, 4, entry)
    <2> HIDE DEF entry
    <2>. QED
        BY <1>1, <1>2, <1>4, HeaderIs
<1>6. Unmarshal(all) = PutMsg(w, Grown(v))
    <2>1. Holds(all, 4, Sized(w)) /\ Holds(all, 4 + Len(Sized(w)), Encoded(v))
        BY <1>3, <1>5, HoldsParts
    <2>2. ToShort(all, 4) = Len(w) /\ Slice(all, 4 + 2, Len(w)) = w
        BY <1>5, <2>1, ReadsKey
    <2> DEFINE e == 4 + 2 + Len(w)
    <2>3. e \in Nat /\ Holds(all, e, Encoded(v))
        <3>1. e \in Nat /\ 4 + Len(Sized(w)) = e
            BY <1>3
        <3>. QED
            BY <2>1, <3>1
    <2>4. EntryAt(all, 4) =
            EntryCreate(Slice(all, 4 + 2, Len(w)),
                        DataCreate2(ToLong(all, e), Decoded(Slice(all, e + 4, ToLong(all, e)))))
        BY <2>2 DEF EntryAt
    <2> HIDE DEF e, entry
    <2>5. /\ Decoded(Slice(all, e + 4, ToLong(all, e))) = v
          /\ DataCreate2(ToLong(all, e), v) = Grown(v)
        BY <1>5, <2>3, GrownIs
    <2>6. EntryAt(all, 4) = EntryCreate(w, Grown(v))
        BY <2>2, <2>4, <2>5, Zenon
    <2>7. EntryCreate(w, Grown(v)) = [key |-> w, value |-> Grown(v)]
        BY <1>3 DEF EntryCreate
    <2>8. Unmarshal(all) = [opcode |-> OP_PUT, c_type |-> CT_ENTRY, entry |-> EntryAt(all, 4)]
        BY <1>5 DEF Unmarshal, CT_NONE, CT_KEY, CT_VALUE, CT_ENTRY, CT_KEYS, CT_RESULT
    <2>. QED
        BY <2>6, <2>7, <2>8, Zenon DEF PutMsg
<1>7. Kept(PutMsg(w, v)) = PutMsg(w, Grown(v))
    BY DEF Kept, PutMsg, CT_VALUE, CT_ENTRY
<1>8. ASSUME NEW buf \in Seq(Octets), Holds(all, 0, buf)
      PROVE  EndsBy(FieldEnd("server", buf), buf, Len(all))
    <2>1. /\ Len(buf) < 4 => EndsBy(FieldEnd("server", buf), buf, Len(all))
          /\ 4 <= Len(buf) => ToShort(buf, 2) = CT_ENTRY
        BY <1>1, <1>2, <1>4, <1>8, HeaderEnds
    <2>2. ASSUME 4 <= Len(buf)
          PROVE  EndsBy(FieldEnd("server", buf), buf, Len(all))
        <3>1. ToShort(buf, 2) = CT_ENTRY /\ ~(Len(buf) < 4) /\ ~(Len(buf) < 2)
            BY <2>1, <2>2
        <3>2. FieldEnd("server", buf) = EntryEnd(buf, 4)
            BY <3>1 DEF FieldEnd, CT_NONE, CT_KEY, CT_VALUE, CT_ENTRY, CT_KEYS, CT_RESULT
        <3>3. EndsBy(EntryEnd(buf, 4), buf, 4 + Len(entry))
            BY <1>3, <1>5, <1>8, <2>2, EntryEndIs DEF entry
        <3>. QED
            BY <1>5, <3>2, <3>3
    <2>3. Len(buf) \in Nat
        OBVIOUS
    <2>. QED
        BY <2>1, <2>2, <2>3
<1>. QED
    BY <1>5, <1>6, <1>7, <1>8 DEF Carries, Peer, all

(* one with a number,                                                        *)
LEMMA CarriesResult ==
    ASSUME NEW op \in Codes, NEW r \in Int, -MaxLong - 1 <= r, r <= MaxLong
    PROVE  Carries("server", SizeMsg(op, r))
<1> DEFINE all == Marshal(SizeMsg(op, r))
<1>1. all = Headed(op, CT_RESULT, Long(r))
    BY DEF Headed, Marshal, SizeMsg, CT_NONE, CT_KEY, CT_VALUE, CT_ENTRY, CT_KEYS, CT_RESULT
<1>2. CT_RESULT \in Codes
    BY DEF CT_RESULT, Codes, MaxShort
<1>3. Long(r) \in Seq(Octets)
    BY LongIs
<1> HIDE DEF all
<1>4. /\ all \in Seq(Octets) /\ Len(all) = 4 + Len(Long(r))
      /\ ToShort(all, 0) = op /\ ToShort(all, 2) = CT_RESULT /\ Holds(all, 4, Long(r))
    BY <1>1, <1>2, <1>3, HeaderIs
<1>5. Unmarshal(all) = SizeMsg(op, r)
    <2>1. ToLong(all, 4) = r
        BY <1>4, ReadsLong
    <2>2. Unmarshal(all) = SizeMsg(op, ToLong(all, 4))
        BY <1>4 DEF Unmarshal, SizeMsg, CT_NONE, CT_KEY, CT_VALUE, CT_ENTRY, CT_KEYS, CT_RESULT
    <2>. QED
        BY <2>1, <2>2
<1>6. Kept(SizeMsg(op, r)) = SizeMsg(op, r)
    BY DEF Kept, SizeMsg, CT_RESULT, CT_VALUE, CT_ENTRY
<1>7. ASSUME NEW buf \in Seq(Octets), Holds(all, 0, buf)
      PROVE  EndsBy(FieldEnd("client", buf), buf, Len(all))
    <2>1. /\ Len(buf) < 4 => EndsBy(FieldEnd("client", buf), buf, Len(all))
          /\ 4 <= Len(buf) => ToShort(buf, 2) = CT_RESULT
        BY <1>1, <1>2, <1>3, <1>7, HeaderEnds
    <2>2. ASSUME 4 <= Len(buf)
          PROVE  EndsBy(FieldEnd("client", buf), buf, Len(all))
        <3>1. ToShort(buf, 2) = CT_RESULT /\ ~(Len(buf) < 4) /\ ~(Len(buf) < 2)
            BY <2>1, <2>2
        <3>2. FieldEnd("client", buf) = 8
            BY <3>1 DEF FieldEnd, CT_NONE, CT_KEY, CT_VALUE, CT_ENTRY, CT_KEYS, CT_RESULT
        <3>3. EndsBy(8, buf, 8)
            BY DEF EndsBy
        <3>4. Len(all) = 8
            <4>1. Len(Long(r)) = 4
                BY LongIs
            <4>. QED
                BY <1>4, <4>1
        <3>. QED
            BY <3>2, <3>3, <3>4, Zenon
    <2>3. Len(buf) \in Nat
        OBVIOUS
    <2>. QED
        BY <2>1, <2>2, <2>3
<1>8. 4 <= Len(all)
    BY <1>4, LongIs
<1>. QED
    BY <1>4, <1>5, <1>6, <1>7, <1>8 DEF Carries, Peer, all

(* and one with a list of keys.                                              *)
LEMMA CarriesKeys ==
    ASSUME NEW op \in Codes, NEW ks \in Seq(Texts), Len(ks) <= MaxLong
    PROVE  Carries("server", KeysMsg(op, ks))
<1> DEFINE all == Marshal(KeysMsg(op, ks))
<1>1. all = Headed(op, CT_KEYS, KeysText(ks))
    BY DEF Headed, Marshal, KeysMsg, KeysText, SizedKeys, CT_NONE, CT_KEY, CT_VALUE, CT_ENTRY, CT_KEYS, CT_RESULT
<1>2. CT_KEYS \in Codes
    BY DEF CT_KEYS, Codes, MaxShort
<1>3. KeysText(ks) \in Seq(Octets)
    BY KeysTextIs
<1> HIDE DEF all
<1>4. /\ all \in Seq(Octets) /\ Len(KeysText(ks)) \in Nat /\ Len(all) = 4 + Len(KeysText(ks))
      /\ ToShort(all, 0) = op /\ ToShort(all, 2) = CT_KEYS /\ Holds(all, 4, KeysText(ks))
    BY <1>1, <1>2, <1>3, HeaderIs
<1>5. Unmarshal(all) = KeysMsg(op, ks)
    <2>1. KeysAt(all, 4) = ks
        BY <1>4, KeysAtIs
    <2>2. Unmarshal(all) = KeysMsg(op, KeysAt(all, 4))
        BY <1>4 DEF Unmarshal, KeysMsg, CT_NONE, CT_KEY, CT_VALUE, CT_ENTRY, CT_KEYS, CT_RESULT
    <2>. QED
        BY <2>1, <2>2
<1>6. Kept(KeysMsg(op, ks)) = KeysMsg(op, ks)
    BY DEF Kept, KeysMsg, CT_KEYS, CT_VALUE, CT_ENTRY
<1>7. ASSUME NEW buf \in Seq(Octets), Holds(all, 0, buf)
      PROVE  EndsBy(FieldEnd("client", buf), buf, Len(all))
    <2>1. /\ Len(buf) < 4 => EndsBy(FieldEnd("client", buf), buf, Len(all))
          /\ 4 <= Len(buf) => ToShort(buf, 2) = CT_KEYS
        BY <1>1, <1>2, <1>3, <1>7, HeaderEnds
    <2>2. ASSUME 4 <= Len(buf)
          PROVE  EndsBy(FieldEnd("client", buf), buf, Len(all))
        <3>1. ToShort(buf, 2) = CT_KEYS /\ ~(Len(buf) < 4) /\ ~(Len(buf) < 2)
            BY <2>1, <2>2
        <3>2. FieldEnd("client", buf) = KeysEnd(buf, 4)
            BY <3>1 DEF FieldEnd, CT_NONE, CT_KEY, CT_VALUE, CT_ENTRY, CT_KEYS, CT_RESULT
        <3>3. EndsBy(KeysEnd(buf, 4), buf, 4 + Len(KeysText(ks)))
            BY <1>4, <1>7, <2>2, KeysEndIs
        <3>. QED
            BY <1>4, <3>2, <3>3
    <2>3. Len(buf) \in Nat
        OBVIOUS
    <2>. QED
        BY <2>1, <2>2, <2>3
<1>. QED
    BY <1>4, <1>5, <1>6, <1>7 DEF Carries, Peer, all

(* Every message a side sends comes through.                                 *)
LEMMA SentCarries ==
    ASSUME NEW s \in Sides, NEW m \in SentBy(s)
    PROVE  Carries(s, m) /\ m # NULL
<1>1. \A op \in {OP_GET, OP_DEL, OP_SIZE, OP_GETKEYS, OP_PUT + 1, OP_DEL + 1, OP_ERROR,
                 OP_GET + 1, OP_SIZE + 1, OP_GETKEYS + 1} : op \in Codes
    BY DEF OP_GET, OP_DEL, OP_SIZE, OP_GETKEYS, OP_PUT, OP_ERROR, Codes, MaxShort
<1>2. ASSUME NEW w \in Words
      PROVE  w \in Texts
    BY SizesAssumption
<1>3. ASSUME NEW v \in Vals
      PROVE  v \in Values
    BY SizesAssumption, AnswersAssumption DEF Values
<1>4. CASE s = "client"
    <2>1. m \in Requests
        BY <1>4 DEF SentBy
    <2>2. m # NULL
        BY <2>1, NullAssumption
    <2>3. CASE m \in {PutMsg(w, v) : w \in Words, v \in Vals}
        <3>1. PICK w \in Words, v \in Vals : m = PutMsg(w, v)
            BY <2>3
        <3>2. Carries("client", PutMsg(w, v))
            BY <1>2, <1>3, CarriesEntry
        <3>. QED
            BY <1>4, <2>2, <3>1, <3>2
    <2>4. CASE m \in {KeyMsg(op, w) : op \in {OP_GET, OP_DEL}, w \in Words}
        <3>1. PICK op \in {OP_GET, OP_DEL}, w \in Words : m = KeyMsg(op, w)
            BY <2>4
        <3>2. Carries("client", KeyMsg(op, w))
            BY <1>1, <1>2, CarriesKey
        <3>. QED
            BY <1>4, <2>2, <3>1, <3>2
    <2>5. CASE m \in {BareMsg(op) : op \in {OP_SIZE, OP_GETKEYS}}
        <3>1. PICK op \in {OP_SIZE, OP_GETKEYS} : m = BareMsg(op)
            BY <2>5
        <3>2. Carries("client", BareMsg(op))
            BY <1>1, CarriesBare
        <3>. QED
            BY <1>4, <2>2, <3>1, <3>2
    <2>. QED
        BY <2>1, <2>3, <2>4, <2>5 DEF Requests
<1>5. CASE s = "server"
    <2>1. m \in Answers
        BY <1>5 DEF SentBy
    <2>2. m # NULL
        BY <2>1, AnswersAssumption
    <2>3. CASE m \in {BareMsg(op) : op \in {OP_PUT + 1, OP_DEL + 1, OP_ERROR}}
        <3>1. PICK op \in {OP_PUT + 1, OP_DEL + 1, OP_ERROR} : m = BareMsg(op)
            BY <2>3
        <3>2. Carries("server", BareMsg(op))
            BY <1>1, CarriesBare
        <3>. QED
            BY <1>5, <2>2, <3>1, <3>2
    <2>4. CASE m \in [opcode : {OP_GET + 1}, c_type : {CT_VALUE}, value : Vals]
        <3>1. m = GotMsg(OP_GET + 1, m.value) /\ m.value \in Vals
            BY <2>4 DEF GotMsg
        <3>2. Carries("server", GotMsg(OP_GET + 1, m.value))
            BY <1>1, <1>3, <3>1, CarriesValue
        <3>. QED
            BY <1>5, <2>2, <3>1, <3>2
    <2>5. CASE m \in [opcode : {OP_SIZE + 1}, c_type : {CT_RESULT}, result : Results]
        <3>1. m = SizeMsg(OP_SIZE + 1, m.result) /\ m.result \in Results
            BY <2>5 DEF SizeMsg
        <3>2. m.result \in Int /\ -MaxLong - 1 <= m.result /\ m.result <= MaxLong
            BY <3>1, SizesAssumption
        <3>3. Carries("server", SizeMsg(OP_SIZE + 1, m.result))
            BY <1>1, <3>2, CarriesResult
        <3>. QED
            BY <1>5, <2>2, <3>1, <3>3
    <2>6. CASE m \in [opcode : {OP_GETKEYS + 1}, c_type : {CT_KEYS}, keys : KeyLists]
        <3>1. m = KeysMsg(OP_GETKEYS + 1, m.keys) /\ m.keys \in KeyLists
            BY <2>6 DEF KeysMsg
        <3>2. m.keys \in Seq(Texts) /\ Len(m.keys) <= MaxLong
            BY <3>1, SizesAssumption
        <3>3. Carries("server", KeysMsg(OP_GETKEYS + 1, m.keys))
            BY <1>1, <3>2, CarriesKeys
        <3>. QED
            BY <1>5, <2>2, <3>1, <3>3
    <2>. QED
        BY <2>1, <2>3, <2>4, <2>5, <2>6 DEF Answers
<1>. QED
    BY <1>4, <1>5 DEF Sides

(* What is held of a message says what the message does.                     *)
LEMMA ContentIs ==
    ASSUME NEW s \in Sides, NEW m \in SentBy(s)
    PROVE  Content(Kept(m)) = m
<1>1. Kept(m) # NULL
    BY AnswersAssumption DEF SentBy
<1>2. CASE m.c_type \notin {CT_VALUE, CT_ENTRY}
    <2>1. Kept(m) = m
        BY <1>2 DEF Kept
    <2>. QED
        BY <1>1, <1>2, <2>1 DEF Content
<1>3. ASSUME NEW op, NEW v, m = GotMsg(op, v)
      PROVE  Content(Kept(m)) = m
    <2>1. Kept(m) = GotMsg(op, Grown(v))
        BY <1>3 DEF Kept, GotMsg, CT_VALUE, CT_ENTRY
    <2>2. Content(GotMsg(op, Grown(v))) = GotMsg(op, Grown(v).data)
        BY <1>1, <2>1 DEF Content, GotMsg, CT_VALUE, CT_ENTRY
    <2>3. Grown(v).data = v
        BY DEF Grown
    <2>. QED
        BY <1>3, <2>1, <2>2, <2>3
<1>4. ASSUME NEW w \in Words, NEW v \in Vals, m = PutMsg(w, v)
      PROVE  Content(Kept(m)) = m
    <2>1. Kept(m) = PutMsg(w, Grown(v))
        BY <1>4 DEF Kept, PutMsg, CT_VALUE, CT_ENTRY
    <2>2. PutMsg(w, Grown(v)).entry # NULL
        BY AnswersAssumption DEF PutMsg
    <2>3. Content(PutMsg(w, Grown(v))) = PutMsg(w, Grown(v).data)
        BY <1>1, <2>1, <2>2 DEF Content, PutMsg, CT_VALUE, CT_ENTRY
    <2>4. Grown(v).data = v
        BY DEF Grown
    <2>. QED
        BY <1>4, <2>1, <2>3, <2>4
<1>5. \/ m.c_type \notin {CT_VALUE, CT_ENTRY}
      \/ \E op, v : m = GotMsg(op, v)
      \/ \E w \in Words, v \in Vals : m = PutMsg(w, v)
    <2>1. CASE m \in Requests
        BY <2>1 DEF Requests, KeyMsg, BareMsg, CT_KEY, CT_NONE, CT_VALUE, CT_ENTRY
    <2>2. CASE m \in [opcode : {OP_GET + 1}, c_type : {CT_VALUE}, value : Vals]
        <3>1. m = GotMsg(OP_GET + 1, m.value)
            BY <2>2 DEF GotMsg
        <3>. QED
            BY <3>1
    <2>3. CASE m \in Answers \ [opcode : {OP_GET + 1}, c_type : {CT_VALUE}, value : Vals]
        BY <2>3 DEF Answers, BareMsg, CT_NONE, CT_RESULT, CT_KEYS, CT_VALUE, CT_ENTRY
    <2>. QED
        BY <2>1, <2>2, <2>3 DEF SentBy
<1>. QED
    BY <1>2, <1>3, <1>4, <1>5

(* What a receiver makes of the octets of any message that is sent to it     *)
(* says what was sent, every octet of every key and value, number and list   *)
(* of keys; the size it notes with a value is the one that Kept gives it.    *)
THEOREM MessageRoundTrip ==
    \A s \in Sides : \A m \in SentBy(s) :
        LET held == Unmarshal(Marshal(m))
        IN  Content(held) = m /\ held = Kept(m)
BY SentCarries, ContentIs DEF Carries

-----------------------------------------------------------------------------
(* The invariant of the connection: the shape of the state, that the octets  *)
(* in it are those of one message, and that the sides take turns.            *)
WInv == TypeOK /\ StreamIsMessage /\ TakesTurns

(* There are two sides, and each is the peer of the other.                   *)
LEMMA SidesAre ==
    ASSUME NEW s \in Sides
    PROVE  /\ Peer(s) \in Sides /\ Peer(s) # s /\ Peer(Peer(s)) = s
           /\ \A t \in Sides : t = s \/ t = Peer(s)
           /\ "client" \in {s, Peer(s)} /\ "server" \in {s, Peer(s)}
           /\ {s, Peer(s)} = {"client", "server"}
BY DEF Sides, Peer

(* What the invariant says of one side: where it stands (a) and the other    *)
(* does (b), what it has read (i), what is on the way to it (r), what it has *)
(* yet to write (o) and what the other has (q), the messages it sent (x) and *)
(* the other did (y), how its end was closed (e) and what it received (g).   *)
Places == {"ready", "serve", "write", "read", "spin", "done"}
Speaking == {"ready", "serve", "write"}
Whose(y) == IF y = NULL THEN <<>> ELSE Marshal(y)

Shape(s, a, i, r, o, x, e, g) ==
    /\ a \in Places /\ e \in {"open", "fin", "rst"}
    /\ i \in Seq(Octets) /\ r \in Seq(Octets) /\ o \in Seq(Octets)
    /\ x \in SentBy(s) \cup {NULL} /\ g \in KeptOf(Peer(s)) \cup {NULL}
    /\ a \notin {"read", "spin", "done"} => i = <<>>

Turn(s, a, b, o, x, y, e) ==
    /\ a = "done" <=> e # "open"
    /\ a # (IF s = "client" THEN "serve" ELSE "ready")
    /\ a \in {"ready", "serve"} => x = NULL
    /\ a \in Speaking => y = NULL /\ b \notin Speaking
    /\ a = "write" => x # NULL /\ o # <<>>
    /\ a \in {"ready", "serve", "read", "spin"} => o = <<>>
    /\ x = NULL \/ y = NULL

SideIs(s, a, b, i, r, o, q, x, y, e, g) ==
    /\ Shape(s, a, i, r, o, x, e, g)
    /\ e = "open" => i \o r \o q = Whose(y)
    /\ Turn(s, a, b, o, x, y, e)

SideInv(s) ==
    SideIs(s, at[s], at[Peer(s)], in[s], stream[s], out[s], out[Peer(s)],
           sent[s], sent[Peer(s)], end[s], got[s])

IsMap(f) == f = [t \in Sides |-> f[t]]

MapsInv ==
    /\ IsMap(at) /\ IsMap(out) /\ IsMap(in) /\ IsMap(stream)
    /\ IsMap(end) /\ DOMAIN sent = Sides /\ DOMAIN got = Sides

(* The invariant says the same of either side.                               *)
LEMMA SideBySide ==
    WInv <=> MapsInv /\ \A s \in Sides : SideInv(s)
<1>1. ASSUME WInv
      PROVE  MapsInv
    BY <1>1 DEF WInv, TypeOK, MapsInv, IsMap
<1>2. ASSUME WInv, NEW s \in Sides
      PROVE  SideInv(s)
    <2>1. Shape(s, at[s], in[s], stream[s], out[s], sent[s], end[s], got[s])
        BY <1>2 DEF WInv, TypeOK, Shape, Places
    <2>2. end[s] = "open" => in[s] \o stream[s] \o out[Peer(s)] = Whose(sent[Peer(s)])
        BY <1>2 DEF WInv, StreamIsMessage, Whose
    <2>3. Turn(s, at[s], at[Peer(s)], out[s], sent[s], sent[Peer(s)], end[s])
        <3>1. \/ s = "client" /\ Peer(s) = "server"
              \/ s = "server" /\ Peer(s) = "client"
            BY DEF Sides, Peer
        <3>2. TakesTurns
            BY <1>2 DEF WInv
        <3>. QED
            BY <3>1, <3>2 DEF TakesTurns, Turn, Speaks, Speaking
    <2>. QED
        BY <2>1, <2>2, <2>3 DEF SideInv, SideIs
<1>3. ASSUME MapsInv, \A s \in Sides : SideInv(s)
      PROVE  WInv
    <2>1. ASSUME NEW s \in Sides
          PROVE  /\ Shape(s, at[s], in[s], stream[s], out[s], sent[s], end[s], got[s])
                 /\ end[s] = "open" =>
                      in[s] \o stream[s] \o out[Peer(s)] = Whose(sent[Peer(s)])
                 /\ Turn(s, at[s], at[Peer(s)], out[s], sent[s], sent[Peer(s)], end[s])
        BY <1>3 DEF SideInv, SideIs
    <2>2. TypeOK
        BY <1>3, <2>1 DEF MapsInv, IsMap, Shape, Places, TypeOK
    <2>3. StreamIsMessage
        BY <2>1 DEF StreamIsMessage, Whose
    <2>4. TakesTurns
        <3>1. /\ "client" \in Sides /\ Peer("client") = "server"
              /\ "server" \in Sides /\ Peer("server") = "client"
            BY DEF Sides, Peer
        <3>2. /\ Turn("client", at["client"], at["server"], out["client"],
                      sent["client"], sent["server"], end["client"])
              /\ Turn("server", at["server"], at["client"], out["server"],
                      sent["server"], sent["client"], end["server"])
            BY <2>1, <3>1
        <3>3. /\ ~ (Speaks("client") /\ Speaks("server"))
              /\ sent["client"] = NULL \/ sent["server"] = NULL
            BY <3>2 DEF Turn, Speaks, Speaking
        <3>. QED
            BY <2>1, <3>3 DEF TakesTurns, Turn, Speaks, Speaking
    <2>. QED
        BY <2>2, <2>3, <2>4 DEF WInv
<1>. QED
    BY <1>1, <1>2, <1>3

(* The same of the next state. *)
LEMMA SideBySideNext ==
    WInv' <=> MapsInv' /\ (\A s \in Sides : SideInv(s))'
BY SideBySide, PTL

(* What a turn of read_all or write_all leaves, behind what it takes, is the *)
(* whole.                                                                    *)
LEMMA SplitOctets ==
    ASSUME NEW x \in Seq(Octets), NEW n \in 1..Len(x)
    PROVE  LET front == SubSeq(x, 1, n)
               rest == SubSeq(x, n + 1, Len(x))
           IN  /\ front \in Seq(Octets) /\ rest \in Seq(Octets) /\ front \o rest = x
               /\ front # <<>> /\ Len(front) = n
               /\ n = Len(x) <=> rest = <<>>
<1> DEFINE front == SubSeq(x, 1, n)
           rest == SubSeq(x, n + 1, Len(x))
<1>1. Len(x) \in Nat /\ \A j \in 1..Len(x) : x[j] \in Octets
    BY ElementOfSeq
<1>2. front \in Seq(Octets) /\ Len(front) = n
    <2>1. \A j \in 1..n : x[j] \in Octets
        BY <1>1
    <2>. QED
        BY <2>1, SubSeqProperties
<1>3. rest \in Seq(Octets) /\ Len(rest) = Len(x) - n
    <2>1. \A j \in (n + 1)..Len(x) : x[j] \in Octets
        BY <1>1
    <2>2. /\ rest \in Seq(Octets)
          /\ Len(rest) = IF n + 1 <= Len(x) THEN Len(x) - (n + 1) + 1 ELSE 0
        BY <1>1, <2>1, SubSeqProperties
    <2>. QED
        BY <1>1, <2>2
<1>4. front \o rest = x
    <2>1. SubSeq(x, 1, n) \o SubSeq(x, n + 1, Len(x)) = SubSeq(x, 1, Len(x))
        BY <1>1, ConcatAdjacentSubSeq
    <2>. QED
        BY <2>1, SubSeqFull
<1> HIDE DEF front, rest
<1>5. front # <<>>
    BY <1>2, EmptySeq
<1>6. n = Len(x) <=> rest = <<>>
    BY <1>1, <1>3, EmptySeq
<1>. QED
    BY <1>2, <1>3, <1>4, <1>5, <1>6 DEF front, rest

(* Three sequences that make the empty one, and what is nothing but its end. *)
LEMMA EmptyParts ==
    ASSUME NEW x \in Seq(Octets), NEW y \in Seq(Octets), NEW z \in Seq(Octets)
    PROVE  /\ x \o y \o z = <<>> => x = <<>> /\ y = <<>> /\ z = <<>>
           /\ x = <<>> /\ y = <<>> => x \o y \o z = z
<1>1. x \o y \in Seq(Octets)
    BY ConcatProperties
<1>2. (x \o y) \o z = <<>> => x \o y = <<>> /\ z = <<>>
    BY <1>1, ConcatEqualIffEmpty
<1>3. x \o y = <<>> => x = <<>> /\ y = <<>>
    BY ConcatEqualIffEmpty
<1>4. ASSUME x = <<>>, y = <<>>
      PROVE  x \o y \o z = z
    <2>1. x \o y = x
        BY <1>4, ConcatEmptySeq
    <2>2. x \o z = z
        BY <1>4, ConcatEmptySeq
    <2>. QED
        BY <2>1, <2>2
<1>. QED
    BY <1>2, <1>3, <1>4

(* How pieces of a stream are put together does not matter.                  *)
Associates(x, y, z) == (x \o y) \o z = x \o (y \o z)

LEMMA Associate ==
    ASSUME NEW x \in Seq(Octets), NEW y \in Seq(Octets), NEW z \in Seq(Octets)
    PROVE  Associates(x, y, z)
BY DEF Associates

Regroups(x, y, z, w) == x \o (y \o z) \o w = x \o y \o (z \o w)

LEMMA Reassociate ==
    ASSUME NEW x \in Seq(Octets), NEW y \in Seq(Octets), NEW z \in Seq(Octets),
           NEW w \in Seq(Octets)
    PROVE  Regroups(x, y, z, w)
<1>1. x \o y \in Seq(Octets) /\ y \o z \in Seq(Octets)
    BY ConcatProperties
<1>2. x \o (y \o z) = (x \o y) \o z
    OBVIOUS
<1>3. ((x \o y) \o z) \o w = (x \o y) \o (z \o w)
    <2> DEFINE v == x \o y
    <2>1. v \in Seq(Octets)
        BY <1>1
    <2> HIDE DEF v
    <2>2. (v \o z) \o w = v \o (z \o w)
        BY <2>1
    <2>. QED
        BY <2>2 DEF v
<1>. QED
    BY <1>2, <1>3 DEF Regroups

(* A step changes a variable at one side only.                               *)
LEMMA ExceptMap ==
    ASSUME NEW s \in Sides, NEW f, DOMAIN f = Sides, NEW x
    PROVE  LET g == [f EXCEPT ![s] = x]
           IN  IsMap(g) /\ DOMAIN g = Sides /\ g[s] = x /\ g[Peer(s)] = f[Peer(s)]
BY SidesAre DEF IsMap

(* Variables are functions of the sides.                                     *)
LEMMA MapDomain ==
    ASSUME NEW f, IsMap(f)
    PROVE  DOMAIN f = Sides
BY DEF IsMap

(* The invariant from both sides. *)
LEMMA BothSides ==
    ASSUME NEW s \in Sides, MapsInv', SideInv(s)', SideInv(Peer(s))'
    PROVE  WInv'
<1>1. \A t \in Sides : t = s \/ t = Peer(s)
    BY SidesAre
<1>2. (\A t \in Sides : SideInv(t))'
    BY <1>1
<1>. QED
    BY <1>2, SideBySideNext

(* A side begins a message: nothing of another one is in the connection.     *)
LEMMA MarshalsKeeps ==
    ASSUME WInv, NEW s \in Sides, NEW m \in SentBy(s), at[s] \in {"ready", "serve"},
           Marshals(s, m)
    PROVE  WInv'
<1> DEFINE p == Peer(s)
<1>1. p \in Sides /\ p # s /\ Peer(p) = s
    BY SidesAre
<1>2. MapsInv /\ SideInv(s) /\ SideInv(p)
    BY <1>1, SideBySide
<1>3. Marshal(m) \in Seq(Octets) /\ Marshal(m) # <<>> /\ m # NULL
    <2>1. Carries(s, m) /\ m # NULL
        BY SentCarries
    <2>2. Marshal(m) \in Seq(Octets) /\ 4 <= Len(Marshal(m))
        BY <2>1 DEF Carries
    <2>. QED
        BY <2>1, <2>2, EmptySeq
<1> HIDE DEF p
<1>4. /\ IsMap(at') /\ at'[s] = "write" /\ at'[p] = at[p]
      /\ IsMap(out') /\ out'[s] = Marshal(m) /\ out'[p] = out[p]
      /\ DOMAIN sent' = Sides /\ sent'[s] = m /\ sent'[p] = sent[p]
    <2>1. DOMAIN at = Sides /\ DOMAIN out = Sides /\ DOMAIN sent = Sides
        BY <1>2, MapDomain DEF MapsInv
    <2>2. /\ at' = [at EXCEPT ![s] = "write"]
          /\ out' = [out EXCEPT ![s] = Marshal(m)]
          /\ sent' = [sent EXCEPT ![s] = m]
        BY DEF Marshals
    <2>. QED
        BY <2>1, <2>2, ExceptMap DEF p
<1>5. in' = in /\ stream' = stream /\ end' = end /\ got' = got
    BY DEF Marshals
<1>6. MapsInv'
    BY <1>2, <1>4, <1>5 DEF MapsInv
<1>7. SideIs(s, at[s], at[p], in[s], stream[s], out[s], out[p], sent[s], sent[p], end[s], got[s])
    BY <1>2 DEF SideInv, p
<1>8. SideIs(p, at[p], at[s], in[p], stream[p], out[p], out[s], sent[p], sent[s], end[p], got[p])
    BY <1>1, <1>2 DEF SideInv
<1>9. SideIs(s, "write", at[p], in[s], stream[s], Marshal(m), out[p], m, sent[p], end[s], got[s])
    BY <1>3, <1>7 DEF SideIs, Shape, Turn, Speaking, Places
<1>10. end[p] = "open" => in[p] \o stream[p] \o Marshal(m) = Whose(m)
    <2>1. sent[s] = NULL
        BY <1>7 DEF SideIs, Turn
    <2>2. in[p] \in Seq(Octets) /\ stream[p] \in Seq(Octets) /\ out[s] \in Seq(Octets)
        BY <1>7, <1>8 DEF SideIs, Shape
    <2>3. end[p] = "open" => in[p] \o stream[p] \o out[s] = <<>>
        BY <1>8, <2>1 DEF SideIs, Whose
    <2>4. end[p] = "open" => in[p] = <<>> /\ stream[p] = <<>>
        BY <2>2, <2>3, EmptyParts
    <2>5. in[p] = <<>> /\ stream[p] = <<>> => in[p] \o stream[p] \o Marshal(m) = Marshal(m)
        BY <1>3, <2>2, EmptyParts
    <2>. QED
        BY <1>3, <2>4, <2>5 DEF Whose
<1>11. SideIs(p, at[p], "write", in[p], stream[p], out[p], Marshal(m), sent[p], m, end[p], got[p])
    <2>1. Shape(p, at[p], in[p], stream[p], out[p], sent[p], end[p], got[p])
        BY <1>8 DEF SideIs
    <2>2. Turn(p, at[p], "write", out[p], sent[p], m, end[p])
        BY <1>3, <1>7, <1>8 DEF SideIs, Turn, Speaking
    <2>. QED
        BY <1>10, <2>1, <2>2 DEF SideIs
<1>12. SideInv(s)'
    BY <1>4, <1>5, <1>9 DEF SideInv, p
<1>13. SideInv(p)'
    BY <1>1, <1>4, <1>5, <1>11 DEF SideInv
<1>. QED
    BY <1>6, <1>12, <1>13, BothSides DEF p

(* ReadNever, and whatever changes nothing else. *)
LEMMA ReadNeverKeeps ==
    ASSUME WInv, NEW s \in Sides, ReadNever(s)
    PROVE  WInv'
<1> DEFINE p == Peer(s)
<1>1. p \in Sides /\ p # s /\ Peer(p) = s
    BY SidesAre
<1>2. MapsInv /\ SideInv(s) /\ SideInv(p)
    BY <1>1, SideBySide
<1> HIDE DEF p
<1>3. IsMap(at') /\ at'[s] = "spin" /\ at'[p] = at[p] /\ at[s] = "read"
    <2>1. DOMAIN at = Sides
        BY <1>2, MapDomain DEF MapsInv
    <2>2. at' = [at EXCEPT ![s] = "spin"] /\ at[s] = "read"
        BY DEF ReadNever
    <2>. QED
        BY <2>1, <2>2, ExceptMap DEF p
<1>4. /\ out' = out /\ in' = in /\ stream' = stream /\ end' = end
      /\ sent' = sent /\ got' = got
    BY DEF ReadNever
<1>5. MapsInv'
    BY <1>2, <1>3, <1>4 DEF MapsInv
<1>6. SideIs(s, at[s], at[p], in[s], stream[s], out[s], out[p], sent[s], sent[p], end[s], got[s])
    BY <1>2 DEF SideInv, p
<1>7. SideIs(p, at[p], at[s], in[p], stream[p], out[p], out[s], sent[p], sent[s], end[p], got[p])
    BY <1>1, <1>2 DEF SideInv
<1>8. SideIs(s, "spin", at[p], in[s], stream[s], out[s], out[p], sent[s], sent[p], end[s], got[s])
    BY <1>3, <1>6 DEF SideIs, Shape, Turn, Speaking, Places
<1>9. SideIs(p, at[p], "spin", in[p], stream[p], out[p], out[s], sent[p], sent[s], end[p], got[p])
    BY <1>7 DEF SideIs, Shape, Turn, Speaking
<1>10. SideInv(s)'
    BY <1>3, <1>4, <1>8 DEF SideInv, p
<1>11. SideInv(p)'
    BY <1>1, <1>3, <1>4, <1>9 DEF SideInv
<1>. QED
    BY <1>5, <1>10, <1>11, BothSides DEF p

(* A side leaves: its process ends or its last read or write has failed.     *)
Leaves(s) ==
    /\ at[s] # "done"
    /\ at' = [at EXCEPT ![s] = "done"]
    /\ Closes(s)
    /\ UNCHANGED <<out, in, sent, got>>

(* The end of a side loses what was on its way to it, and nothing else.      *)
LEMMA LeavesKeeps ==
    ASSUME WInv, NEW s \in Sides, Leaves(s)
    PROVE  WInv'
<1> DEFINE p == Peer(s)
           how == IF stream[s] = <<>> THEN "fin" ELSE "rst"
<1>1. p \in Sides /\ p # s /\ Peer(p) = s
    BY SidesAre
<1>2. MapsInv /\ SideInv(s) /\ SideInv(p)
    BY <1>1, SideBySide
<1> HIDE DEF p
<1>3. /\ IsMap(at') /\ at'[s] = "done" /\ at'[p] = at[p]
      /\ IsMap(end') /\ end'[s] = how /\ end'[p] = end[p]
      /\ IsMap(stream') /\ stream'[s] = <<>> /\ stream'[p] = stream[p]
    <2>1. DOMAIN at = Sides /\ DOMAIN end = Sides /\ DOMAIN stream = Sides
        BY <1>2, MapDomain DEF MapsInv
    <2>2. /\ at' = [at EXCEPT ![s] = "done"]
          /\ end' = [end EXCEPT ![s] = how]
          /\ stream' = [stream EXCEPT ![s] = <<>>]
        BY DEF Leaves, Closes
    <2> HIDE DEF how
    <2>3. IsMap(at') /\ at'[s] = "done" /\ at'[p] = at[p]
        BY <2>1, <2>2, ExceptMap, ZenonT(30) DEF p
    <2>4. IsMap(end') /\ end'[s] = how /\ end'[p] = end[p]
        BY <2>1, <2>2, ExceptMap, ZenonT(30) DEF p
    <2>5. IsMap(stream') /\ stream'[s] = <<>> /\ stream'[p] = stream[p]
        BY <2>1, <2>2, ExceptMap, ZenonT(30) DEF p
    <2>. QED
        BY <2>3, <2>4, <2>5
<1>4. out' = out /\ in' = in /\ sent' = sent /\ got' = got
    BY DEF Leaves
<1>5. MapsInv'
    BY <1>2, <1>3, <1>4 DEF MapsInv
<1>6. SideIs(s, at[s], at[p], in[s], stream[s], out[s], out[p], sent[s], sent[p], end[s], got[s])
    BY <1>2 DEF SideInv, p
<1>7. SideIs(p, at[p], at[s], in[p], stream[p], out[p], out[s], sent[p], sent[s], end[p], got[p])
    BY <1>1, <1>2 DEF SideInv
<1>8. SideIs(s, "done", at[p], in[s], <<>>, out[s], out[p], sent[s], sent[p], how, got[s])
    BY <1>6 DEF SideIs, Shape, Turn, Speaking, Places
<1>9. SideIs(p, at[p], "done", in[p], stream[p], out[p], out[s], sent[p], sent[s], end[p], got[p])
    BY <1>7 DEF SideIs, Shape, Turn, Speaking
<1>10. SideInv(s)'
    BY <1>3, <1>4, <1>8 DEF SideInv, p
<1>11. SideInv(p)'
    BY <1>1, <1>3, <1>4, <1>9 DEF SideInv
<1>. QED
    BY <1>5, <1>10, <1>11, BothSides DEF p

(* What Write does to the two sides. *)
LEMMA Writes ==
    ASSUME WInv, NEW s \in Sides, NEW n, Write(s, n)
    PROVE  LET p == Peer(s)
               last == n = Len(out[s])
               front == SubSeq(out[s], 1, n)
               rest == SubSeq(out[s], n + 1, Len(out[s]))
           IN  /\ MapsInv'
               /\ at[s] = "write" /\ out[s] \in Seq(Octets) /\ n \in 1..Len(out[s])
               /\ at'[s] = (IF last THEN "read" ELSE "write") /\ at'[p] = at[p]
               /\ out'[s] = rest /\ out'[p] = out[p]
               /\ stream'[s] = stream[s]
               /\ stream'[p] = IF end[p] = "open" THEN stream[p] \o front ELSE stream[p]
               /\ got'[s] = (IF last THEN NULL ELSE got[s]) /\ got'[p] = got[p]
               /\ in' = in /\ end' = end /\ sent' = sent
<1> DEFINE p == Peer(s)
           last == n = Len(out[s])
           front == SubSeq(out[s], 1, n)
           rest == SubSeq(out[s], n + 1, Len(out[s]))
<1>1. p \in Sides /\ p # s /\ Peer(p) = s
    BY SidesAre
<1>2. MapsInv /\ SideInv(s)
    BY SideBySide
<1>3. DOMAIN at = Sides /\ DOMAIN out = Sides /\ DOMAIN stream = Sides /\ DOMAIN got = Sides
    BY <1>2, MapDomain DEF MapsInv
<1>4. at[s] = "write" /\ n \in 1..Len(out[s]) /\ out[s] \in Seq(Octets)
    BY <1>2 DEF Write, SideInv, SideIs, Shape
<1>5. in' = in /\ end' = end /\ sent' = sent
    BY DEF Write
<1>6. out' = [out EXCEPT ![s] = rest]
    BY DEF Write
<1>7. IF last THEN at' = [at EXCEPT ![s] = "read"] /\ got' = [got EXCEPT ![s] = NULL]
      ELSE at' = at /\ got' = got
    BY DEF Write
<1>8. IF end[p] = "open" THEN stream' = [stream EXCEPT ![p] = stream[p] \o front]
      ELSE stream' = stream
    BY DEF Write
<1> HIDE DEF last, front, rest, p
<1>9. IsMap(out') /\ out'[s] = rest /\ out'[p] = out[p]
    BY <1>3, <1>6, ExceptMap, ZenonT(30) DEF p
<1>10. /\ IsMap(at') /\ at'[s] = (IF last THEN "read" ELSE "write") /\ at'[p] = at[p]
       /\ DOMAIN got' = Sides /\ got'[s] = (IF last THEN NULL ELSE got[s]) /\ got'[p] = got[p]
    <2>1. CASE last
        <3>1. at' = [at EXCEPT ![s] = "read"] /\ got' = [got EXCEPT ![s] = NULL]
            BY <1>7, <2>1
        <3>2. IsMap(at') /\ at'[s] = "read" /\ at'[p] = at[p]
            BY <1>3, <3>1, ExceptMap, ZenonT(30) DEF p
        <3>3. DOMAIN got' = Sides /\ got'[s] = NULL /\ got'[p] = got[p]
            BY <1>3, <3>1, ExceptMap DEF p
        <3>. QED
            BY <2>1, <3>2, <3>3
    <2>2. CASE ~last
        BY <1>2, <1>4, <1>7, <2>2 DEF MapsInv
    <2>. QED
        BY <2>1, <2>2
<1>11. /\ IsMap(stream') /\ stream'[s] = stream[s]
       /\ stream'[p] = IF end[p] = "open" THEN stream[p] \o front ELSE stream[p]
    <2>1. CASE end[p] = "open"
        <3>1. stream' = [stream EXCEPT ![p] = stream[p] \o front]
            BY <1>8, <2>1
        <3>2. IsMap(stream') /\ stream'[p] = stream[p] \o front /\ stream'[Peer(p)] = stream[Peer(p)]
            BY <1>1, <1>3, <3>1, ExceptMap
        <3>. QED
            BY <1>1, <2>1, <3>2
    <2>2. CASE end[p] # "open"
        BY <1>2, <1>8, <2>2 DEF MapsInv
    <2>. QED
        BY <2>1, <2>2
<1>12. MapsInv'
    BY <1>2, <1>5, <1>9, <1>10, <1>11 DEF MapsInv
<1>. QED
    BY <1>4, <1>5, <1>9, <1>10, <1>11, <1>12 DEF p, last, front, rest

(* A turn of write_all moves octets from what is left to what is on the way. *)
LEMMA WriteKeeps ==
    ASSUME WInv, NEW s \in Sides, NEW n, Write(s, n)
    PROVE  WInv'
<1> DEFINE p == Peer(s)
           last == n = Len(out[s])
           front == SubSeq(out[s], 1, n)
           rest == SubSeq(out[s], n + 1, Len(out[s]))
           onway == IF end[p] = "open" THEN stream[p] \o front ELSE stream[p]
           place == IF last THEN "read" ELSE "write"
           held == IF last THEN NULL ELSE got[s]
<1>1. p \in Sides /\ p # s /\ Peer(p) = s
    BY SidesAre
<1>2. MapsInv /\ SideInv(s) /\ SideInv(p)
    BY <1>1, SideBySide
<1>3. /\ MapsInv'
      /\ at[s] = "write" /\ out[s] \in Seq(Octets) /\ n \in 1..Len(out[s])
      /\ at'[s] = place /\ at'[p] = at[p]
      /\ out'[s] = rest /\ out'[p] = out[p]
      /\ stream'[s] = stream[s] /\ stream'[p] = onway
      /\ got'[s] = held /\ got'[p] = got[p]
      /\ in' = in /\ end' = end /\ sent' = sent
    BY Writes
<1>4. /\ front \in Seq(Octets) /\ rest \in Seq(Octets) /\ front \o rest = out[s]
      /\ last <=> rest = <<>>
    BY <1>3, SplitOctets
<1> HIDE DEF p, front, rest, last
<1>5. SideIs(s, at[s], at[p], in[s], stream[s], out[s], out[p], sent[s], sent[p], end[s], got[s])
    BY <1>2 DEF SideInv, p
<1>6. SideIs(p, at[p], at[s], in[p], stream[p], out[p], out[s], sent[p], sent[s], end[p], got[p])
    BY <1>1, <1>2 DEF SideInv
<1>7. SideIs(s, place, at[p], in[s], stream[s], rest, out[p], sent[s], sent[p], end[s], held)
    BY <1>3, <1>4, <1>5 DEF SideIs, Shape, Turn, Speaking, Places
<1>8. end[p] = "open" => in[p] \o onway \o rest = Whose(sent[s])
    <2>1. in[p] \in Seq(Octets) /\ stream[p] \in Seq(Octets)
        BY <1>6 DEF SideIs, Shape
    <2>2. in[p] \o (stream[p] \o front) \o rest = in[p] \o stream[p] \o out[s]
        <3>1. front \in Seq(Octets) /\ rest \in Seq(Octets)
            BY <1>4
        <3>2. Regroups(in[p], stream[p], front, rest)
            BY <2>1, <3>1, Reassociate
        <3>. QED
            BY <1>4, <3>2 DEF Regroups
    <2>. QED
        BY <1>6, <2>2 DEF SideIs
<1>9. SideIs(p, at[p], place, in[p], onway, out[p], rest, sent[p], sent[s], end[p], got[p])
    <2>1. onway \in Seq(Octets)
        BY <1>4, <1>6, ConcatProperties DEF SideIs, Shape
    <2> HIDE DEF onway
    <2>2. Shape(p, at[p], in[p], onway, out[p], sent[p], end[p], got[p])
        BY <1>6, <2>1 DEF SideIs, Shape
    <2>3. Turn(p, at[p], place, out[p], sent[p], sent[s], end[p])
        <3>1. at[p] \notin Speaking
            BY <1>3, <1>5 DEF SideIs, Turn, Speaking
        <3>. QED
            BY <1>6, <3>1 DEF SideIs, Turn, Speaking
    <2>. QED
        BY <1>8, <2>2, <2>3 DEF SideIs
<1> HIDE DEF onway, place, held
<1>10. SideInv(s)'
    BY <1>3, <1>7 DEF SideInv, p
<1>11. SideInv(p)'
    BY <1>1, <1>3, <1>9 DEF SideInv
<1>. QED
    BY <1>3, <1>10, <1>11, BothSides DEF p

(* The last octets of a message: whoever has gathered all of a message finds *)
(* nothing behind it, and whoever sent it has stopped writing.               *)
LEMMA WholeMessage ==
    ASSUME NEW x \in Seq(Octets), NEW y \in Seq(Octets), NEW z \in Seq(Octets),
           NEW m \in Seq(Octets), x \o y \o z = m
    PROVE  /\ Holds(m, 0, x)
           /\ Len(m) <= Len(x) => y = <<>> /\ z = <<>> /\ x = m
<1>1. Len(x) \in Nat /\ Len(y) \in Nat /\ Len(z) \in Nat
    OBVIOUS
<1>2. x \o y \in Seq(Octets) /\ Len(x \o y) = Len(x) + Len(y)
    BY ConcatProperties
<1>3. Len((x \o y) \o z) = Len(x \o y) + Len(z)
    BY <1>2, ConcatProperties
<1>4. Len(m) = Len(x) + Len(y) + Len(z)
    BY <1>1, <1>2, <1>3
<1>5. Holds(m, 0, x)
    <2>1. Holds(m, 0, (x \o y) \o z)
        BY HoldsAll
    <2>2. Holds(m, 0, x \o y)
        BY <1>2, <2>1, HoldsParts
    <2>. QED
        BY <2>2, HoldsParts
<1>6. ASSUME Len(m) <= Len(x)
      PROVE  y = <<>> /\ z = <<>> /\ x = m
    <2>1. Len(y) = 0 /\ Len(z) = 0
        BY <1>1, <1>4, <1>6
    <2>2. y = <<>> /\ z = <<>>
        BY <2>1, EmptySeq
    <2>3. x \o y = x
        BY <2>2, ConcatEmptySeq
    <2>4. x \o z = x
        BY <2>2, ConcatEmptySeq
    <2>. QED
        BY <2>2, <2>3, <2>4
<1>. QED
    BY <1>5, <1>6

(* What a side that reads octets has gathered: a message the other has sent, *)
(* or a part of it.                                                          *)
LEMMA Gathered ==
    ASSUME WInv, NEW s \in Sides, at[s] = "read", NEW n \in 1..Len(stream[s])
    PROVE  LET p == Peer(s)
               buf == in[s] \o SubSeq(stream[s], 1, n)
               rest == SubSeq(stream[s], n + 1, Len(stream[s]))
           IN  /\ sent[p] \in SentBy(p) /\ sent[p] # NULL /\ sent[s] = NULL
               /\ out[s] = <<>> /\ end[s] = "open"
               /\ buf \in Seq(Octets) /\ rest \in Seq(Octets)
               /\ buf \o rest \o out[p] = Marshal(sent[p])
               /\ ~ (FieldEnd(s, buf) > Len(buf)) =>
                    /\ rest = <<>> /\ out[p] = <<>> /\ at[p] \notin Speaking
                    /\ Unmarshal(buf) = Kept(sent[p])
<1> DEFINE p == Peer(s)
           front == SubSeq(stream[s], 1, n)
           rest == SubSeq(stream[s], n + 1, Len(stream[s]))
           buf == in[s] \o front
           m == sent[p]
<1>1. p \in Sides /\ p # s /\ Peer(p) = s
    BY SidesAre
<1>2. SideInv(s) /\ SideInv(p)
    BY <1>1, SideBySide
<1> HIDE DEF p
<1>3. SideIs(s, at[s], at[p], in[s], stream[s], out[s], out[p], sent[s], sent[p], end[s], got[s])
    BY <1>2 DEF SideInv, p
<1>4. SideIs(p, at[p], at[s], in[p], stream[p], out[p], out[s], sent[p], sent[s], end[p], got[p])
    BY <1>1, <1>2 DEF SideInv
<1>5. /\ stream[s] \in Seq(Octets) /\ in[s] \in Seq(Octets) /\ out[p] \in Seq(Octets)
      /\ out[s] = <<>> /\ end[s] = "open" /\ in[s] \o stream[s] \o out[p] = Whose(m)
      /\ m \in SentBy(p) \cup {NULL} /\ (sent[s] = NULL \/ m = NULL)
    BY <1>3, <1>4 DEF SideIs, Shape, Turn
<1>6. /\ front \in Seq(Octets) /\ rest \in Seq(Octets) /\ front \o rest = stream[s]
      /\ front # <<>>
    BY <1>5, SplitOctets
<1> HIDE DEF front, rest, m
<1>7. stream[s] # <<>>
    BY <1>6, ConcatEqualIffEmpty
<1>8. m # NULL
    <2>1. ASSUME m = NULL
          PROVE  FALSE
        <3>1. in[s] \o stream[s] \o out[p] = <<>>
            BY <1>5, <2>1 DEF Whose
        <3>. QED
            BY <1>5, <1>7, <3>1, EmptyParts
    <2>. QED
        BY <2>1
<1>9. m \in SentBy(p) /\ sent[s] = NULL /\ in[s] \o stream[s] \o out[p] = Marshal(m)
    BY <1>5, <1>8 DEF Whose
<1>10. Carries(p, m)
    BY <1>1, <1>9, SentCarries
<1>11. buf \in Seq(Octets) /\ buf \o rest = in[s] \o stream[s]
    <2>1. buf \in Seq(Octets)
        BY <1>5, <1>6, ConcatProperties
    <2>2. (in[s] \o front) \o rest = in[s] \o (front \o rest)
        <3>1. in[s] \in Seq(Octets) /\ front \in Seq(Octets) /\ rest \in Seq(Octets)
            BY <1>5, <1>6
        <3>. QED
            BY <3>1, Associate DEF Associates
    <2>. QED
        BY <1>6, <2>1, <2>2
<1> HIDE DEF buf
<1>12. buf \o rest \o out[p] = Marshal(m)
    BY <1>9, <1>11
<1>13. ASSUME ~ (FieldEnd(s, buf) > Len(buf))
       PROVE  /\ rest = <<>> /\ out[p] = <<>> /\ at[p] \notin Speaking
              /\ Unmarshal(buf) = Kept(m)
    <2>1. Marshal(m) \in Seq(Octets)
        BY <1>10 DEF Carries
    <2>2. Holds(Marshal(m), 0, buf)
        BY <1>5, <1>6, <1>11, <1>12, <2>1, WholeMessage
    <2>3. EndsBy(FieldEnd(s, buf), buf, Len(Marshal(m)))
        BY <1>1, <1>10, <1>11, <2>2 DEF Carries
    <2>4. Len(Marshal(m)) <= Len(buf)
        <3>1. Len(buf) \in Nat
            BY <1>11
        <3>. QED
            BY <1>13, <2>3, <3>1 DEF EndsBy
    <2>5. rest = <<>> /\ out[p] = <<>> /\ buf = Marshal(m)
        BY <1>5, <1>6, <1>11, <1>12, <2>1, <2>4, WholeMessage
    <2>6. Unmarshal(buf) = Kept(m)
        BY <1>10, <2>5 DEF Carries
    <2>7. at[p] \notin Speaking
        BY <1>4, <1>8, <2>5 DEF SideIs, Turn, Speaking, m
    <2>. QED
        BY <2>5, <2>6, <2>7
<1>. QED
    BY <1>5, <1>6, <1>8, <1>9, <1>11, <1>12, <1>13 DEF p, m, buf, front, rest

(* A turn of read_all moves octets from what is on the way to what is        *)
(* gathered, and a message that is complete leaves the connection empty.     *)
LEMMA ReadKeeps ==
    ASSUME WInv, NEW s \in Sides, NEW n, Read(s, n)
    PROVE  WInv'
<1> DEFINE p == Peer(s)
           buf == in[s] \o SubSeq(stream[s], 1, n)
           rest == SubSeq(stream[s], n + 1, Len(stream[s]))
<1>1. p \in Sides /\ p # s /\ Peer(p) = s
    BY SidesAre
<1>2. MapsInv /\ SideInv(s) /\ SideInv(p)
    BY <1>1, SideBySide
<1>3. at[s] = "read" /\ n \in 1..Len(stream[s])
    BY DEF Read
<1>4. /\ sent[p] \in SentBy(p) /\ sent[p] # NULL /\ sent[s] = NULL
      /\ out[s] = <<>> /\ end[s] = "open"
      /\ buf \in Seq(Octets) /\ rest \in Seq(Octets)
      /\ buf \o rest \o out[p] = Marshal(sent[p])
      /\ ~ (FieldEnd(s, buf) > Len(buf)) =>
           /\ rest = <<>> /\ out[p] = <<>> /\ at[p] \notin Speaking
           /\ Unmarshal(buf) = Kept(sent[p])
    BY <1>3, Gathered
<1>5. /\ out' = out /\ end' = end /\ stream' = [stream EXCEPT ![s] = rest]
      /\ Gathers(s, buf)
    BY DEF Read
<1>6. /\ DOMAIN at = Sides /\ DOMAIN in = Sides /\ DOMAIN stream = Sides
      /\ DOMAIN sent = Sides /\ DOMAIN got = Sides
    BY <1>2, MapDomain DEF MapsInv
<1> HIDE DEF p, buf, rest
<1>7. IsMap(stream') /\ stream'[s] = rest /\ stream'[p] = stream[p]
    BY <1>5, <1>6, ExceptMap, ZenonT(30) DEF p
<1>8. SideIs(s, at[s], at[p], in[s], stream[s], out[s], out[p], sent[s], sent[p], end[s], got[s])
    BY <1>2 DEF SideInv, p
<1>9. SideIs(p, at[p], at[s], in[p], stream[p], out[p], out[s], sent[p], sent[s], end[p], got[p])
    BY <1>1, <1>2 DEF SideInv
<1>10. CASE FieldEnd(s, buf) > Len(buf)
    <2>1. in' = [in EXCEPT ![s] = buf] /\ at' = at /\ sent' = sent /\ got' = got
        BY <1>5, <1>10 DEF Gathers
    <2>2. IsMap(in') /\ in'[s] = buf /\ in'[p] = in[p]
        BY <1>6, <2>1, ExceptMap, ZenonT(30) DEF p
    <2>3. MapsInv'
        BY <1>2, <1>5, <1>7, <2>1, <2>2 DEF MapsInv
    <2>4. SideIs(s, at[s], at[p], buf, rest, out[s], out[p], sent[s], sent[p], end[s], got[s])
        <3>1. Shape(s, at[s], buf, rest, out[s], sent[s], end[s], got[s])
            BY <1>3, <1>4, <1>8 DEF SideIs, Shape
        <3>2. Turn(s, at[s], at[p], out[s], sent[s], sent[p], end[s])
            BY <1>8 DEF SideIs
        <3>. QED
            BY <1>4, <3>1, <3>2 DEF SideIs, Whose
    <2>5. SideInv(s)'
        BY <1>5, <1>7, <2>1, <2>2, <2>4 DEF SideInv, p
    <2>6. SideInv(p)'
        BY <1>1, <1>5, <1>7, <1>9, <2>1, <2>2 DEF SideInv
    <2>. QED
        BY <2>3, <2>5, <2>6, BothSides DEF p
<1>11. CASE ~ (FieldEnd(s, buf) > Len(buf))
    <2> DEFINE place == IF s = "client" THEN "ready" ELSE "serve"
               m == Kept(sent[p])
    <2>1. /\ rest = <<>> /\ out[p] = <<>> /\ at[p] \notin Speaking
          /\ Unmarshal(buf) = m
        BY <1>4, <1>11
    <2>2. /\ in' = [in EXCEPT ![s] = <<>>] /\ got' = [got EXCEPT ![s] = m]
          /\ sent' = [sent EXCEPT ![p] = NULL] /\ at' = [at EXCEPT ![s] = place]
        BY <1>5, <1>11, <2>1 DEF Gathers, p
    <2>3. m \in KeptOf(p)
        BY <1>4 DEF KeptOf
    <2> HIDE DEF place, m
    <2>4. IsMap(in') /\ in'[s] = <<>> /\ in'[p] = in[p]
        BY <1>6, <2>2, ExceptMap, ZenonT(30) DEF p
    <2>5. DOMAIN got' = Sides /\ got'[s] = m /\ got'[p] = got[p]
        BY <1>6, <2>2, ExceptMap, ZenonT(30) DEF p
    <2>6. DOMAIN sent' = Sides /\ sent'[p] = NULL /\ sent'[s] = sent[s]
        <3>1. DOMAIN sent' = Sides /\ sent'[p] = NULL /\ sent'[Peer(p)] = sent[Peer(p)]
            BY <1>1, <1>6, <2>2, ExceptMap
        <3>. QED
            BY <1>1, <3>1
    <2>7. IsMap(at') /\ at'[s] = place /\ at'[p] = at[p]
        BY <1>6, <2>2, ExceptMap, ZenonT(30) DEF p
    <2>8. MapsInv'
        BY <1>2, <1>5, <1>7, <2>4, <2>5, <2>6, <2>7 DEF MapsInv
    <2>9. SideIs(s, place, at[p], <<>>, <<>>, <<>>, <<>>, NULL, NULL, end[s], m)
        <3>1. <<>> \in Seq(Octets) /\ <<>> \o <<>> \o <<>> = <<>>
            OBVIOUS
        <3>2. Shape(s, place, <<>>, <<>>, <<>>, NULL, end[s], m)
            BY <1>8, <2>3, <3>1 DEF SideIs, Shape, Places, place, p
        <3>3. Turn(s, place, at[p], <<>>, NULL, NULL, end[s])
            BY <1>4, <2>1 DEF Turn, Speaking, place
        <3>. QED
            BY <3>1, <3>2, <3>3 DEF SideIs, Whose
    <2>10. SideIs(p, at[p], place, in[p], stream[p], out[p], out[s], NULL, sent[s], end[p], got[p])
        <3>1. Shape(p, at[p], in[p], stream[p], out[p], NULL, end[p], got[p])
            BY <1>9 DEF SideIs, Shape
        <3>2. Turn(p, at[p], place, out[p], NULL, sent[s], end[p])
            BY <1>9, <2>1 DEF SideIs, Turn, Speaking
        <3>. QED
            BY <1>9, <3>1, <3>2 DEF SideIs
    <2>11. SideInv(s)'
        BY <1>4, <1>5, <1>7, <2>1, <2>4, <2>5, <2>6, <2>7, <2>9 DEF SideInv, p
    <2>12. SideInv(p)'
        BY <1>1, <1>5, <1>7, <2>4, <2>5, <2>6, <2>7, <2>10 DEF SideInv
    <2>. QED
        BY <2>8, <2>11, <2>12, BothSides DEF p
<1>. QED
    BY <1>10, <1>11

(* At the start the connection is empty, and the client speaks.              *)
LEMMA InitWInv == Init => WInv
<1> SUFFICES ASSUME Init PROVE WInv
    OBVIOUS
<1>1. MapsInv
    BY DEF Init, MapsInv, IsMap
<1>2. ASSUME NEW s \in Sides
      PROVE  SideInv(s)
    <2> DEFINE p == Peer(s)
    <2>1. p \in Sides /\ (s = "client" \/ s = "server") /\ (p = "client" <=> s = "server")
        BY DEF Sides, Peer
    <2> DEFINE a == IF s = "client" THEN "ready" ELSE "read"
               b == IF p = "client" THEN "ready" ELSE "read"
    <2>2. /\ at[s] = a /\ at[p] = b /\ in[s] = <<>> /\ stream[s] = <<>> /\ out[s] = <<>>
          /\ out[p] = <<>> /\ sent[s] = NULL /\ sent[p] = NULL /\ end[s] = "open"
          /\ got[s] = NULL
        BY <2>1 DEF Init
    <2>3. <<>> \in Seq(Octets) /\ <<>> \o <<>> \o <<>> = <<>>
        OBVIOUS
    <2>4. Shape(s, a, <<>>, <<>>, <<>>, NULL, "open", NULL)
        BY <2>1, <2>3 DEF Shape, Places
    <2>5. Turn(s, a, b, <<>>, NULL, NULL, "open")
        BY <2>1 DEF Turn, Speaking
    <2>6. SideIs(s, a, b, <<>>, <<>>, <<>>, <<>>, NULL, NULL, "open", NULL)
        BY <2>3, <2>4, <2>5 DEF SideIs, Whose
    <2> HIDE DEF a, b
    <2>. QED
        BY <2>2, <2>6 DEF SideInv
<1>. QED
    BY <1>1, <1>2, SideBySide

(* A read or write that fails and the end of a process look alike.           *)
LEMMA FailsLeave ==
    ASSUME NEW s \in Sides, Fails(s) \/ Ends(s)
    PROVE  Leaves(s)
BY DEF Fails, Ends, Leaves

(* What changes nothing keeps the invariant.                                 *)
LEMMA StutterKeeps ==
    ASSUME WInv, UNCHANGED vars
    PROVE  WInv'
BY DEF vars, WInv, TypeOK, StreamIsMessage, TakesTurns, Speaks

(* Every step keeps the invariant.                                           *)
LEMMA NextKeepsWInv == WInv /\ [Next]_vars => WInv'
<1> SUFFICES ASSUME WInv, [Next]_vars PROVE WInv'
    OBVIOUS
<1>1. ASSUME NEW m \in Requests, Ask(m)
      PROVE  WInv'
    <2>1. /\ "client" \in Sides /\ m \in SentBy("client")
          /\ at["client"] \in {"ready", "serve"} /\ Marshals("client", m)
        BY <1>1 DEF Ask, Sides, SentBy
    <2>. QED
        BY <2>1, MarshalsKeeps
<1>2. ASSUME NEW m \in Answers, Serve(m)
      PROVE  WInv'
    <2>1. /\ "server" \in Sides /\ m \in SentBy("server")
          /\ at["server"] \in {"ready", "serve"} /\ Marshals("server", m)
        BY <1>2 DEF Serve, Sides, SentBy
    <2>. QED
        BY <2>1, MarshalsKeeps
<1>3. ASSUME NEW s \in Sides, NEW n \in 1..Capacity, Write(s, n)
      PROVE  WInv'
    BY <1>3, WriteKeeps
<1>4. ASSUME NEW s \in Sides, NEW n \in 1..Capacity, Read(s, n)
      PROVE  WInv'
    BY <1>4, ReadKeeps
<1>5. ASSUME NEW s \in Sides, Interrupted(s)
      PROVE  WInv'
    BY <1>5, StutterKeeps DEF Interrupted
<1>6. ASSUME NEW s \in Sides, ReadNever(s)
      PROVE  WInv'
    BY <1>6, ReadNeverKeeps
<1>7. ASSUME NEW s \in Sides, Fails(s) \/ Ends(s)
      PROVE  WInv'
    BY <1>7, FailsLeave, LeavesKeeps
<1>8. CASE UNCHANGED vars
    BY <1>8, StutterKeeps
<1>. QED
    BY <1>1, <1>2, <1>3, <1>4, <1>5, <1>6, <1>7, <1>8 DEF Next, Moves

(* In every state the connection holds one message at most, or part of it,   *)
(* and the sides take turns.                                                 *)
THEOREM Invariance == Spec => []WInv
BY InitWInv, NextKeepsWInv, PTL DEF Spec

(* The variables keep their shape, and nothing is gathered but while a       *)
(* message is read.                                                          *)
THEOREM TypeCorrect == Spec => []TypeOK
BY Invariance, PTL DEF WInv

(* Whatever reads and writes make of it, the connection holds the octets of  *)
(* one message, in order and without a gap, or nothing.                      *)
THEOREM StreamIsMessageCorrect == Spec => []StreamIsMessage
BY Invariance, PTL DEF WInv

(* Never do two messages meet in the connection: the sides speak in turns.   *)
THEOREM TakesTurnsCorrect == Spec => []TakesTurns
BY Invariance, PTL DEF WInv

-----------------------------------------------------------------------------
(* The connection of octets implements the one of whole messages.            *)

(* What the abstract connection sees of a step. *)
StateMap == [s \in Sides |-> StateOf(s)]
ChanMap == [s \in Sides |-> OnTheWay(s)]
GotMap == [s \in Sides |-> Content(got[s])]

(* The empty connection is the empty connection of messages.                 *)
LEMMA MapsToInit == Init => Whole!Init
<1> SUFFICES ASSUME Init PROVE Whole!Init
    OBVIOUS
<1>1. ASSUME NEW s \in Sides
      PROVE  /\ StateOf(s) = (IF s = "client" THEN "active" ELSE "waits")
             /\ OnTheWay(s) = NULL
    <2>1. Peer(s) \in Sides
        BY SidesAre
    <2>. QED
        BY <2>1 DEF Init, StateOf, OnTheWay
<1>2. /\ "client" \in Sides /\ Peer("client") = "server" /\ "server" \in Sides
      /\ "server" # "client"
    BY DEF Sides, Peer
<1>3. [s \in Sides |-> Content(got[s])] = [s \in Sides |-> NULL]
    BY DEF Init, Content
<1>4. [s \in Sides |-> StateOf(s)] \in [Sides -> {"active", "waits"}]
    BY <1>1
<1>5. [s \in Sides |-> OnTheWay(s)] = [s \in Sides |-> NULL]
    BY <1>1
<1>6. [s \in Sides |-> StateOf(s)]["client"] # [s \in Sides |-> StateOf(s)][Peer("client")]
    BY <1>1, <1>2
<1>. QED
    BY <1>2, <1>3, <1>4, <1>5, <1>6 DEF Whole!Init

(* A step in which no side begins or ends to wait, and no message begins or  *)
(* ends to be on the way, does not show.                                     *)
LEMMA DoesNotShow ==
    ASSUME \A s \in Sides : StateOf(s)' = StateOf(s) /\ OnTheWay(s)' = OnTheWay(s),
           got' = got
    PROVE  UNCHANGED Whole!vars
<1>1. StateMap' = StateMap /\ ChanMap' = ChanMap /\ GotMap' = GotMap
    BY DEF StateMap, ChanMap, GotMap
<1>. QED
    BY <1>1 DEF Whole!vars, StateMap, ChanMap, GotMap

(* A message that is begun is not yet posted.                                *)
LEMMA MarshalsDoesNotShow ==
    ASSUME WInv, NEW s \in Sides, NEW m \in SentBy(s), at[s] \in {"ready", "serve"},
           Marshals(s, m)
    PROVE  UNCHANGED Whole!vars
<1> DEFINE p == Peer(s)
<1>1. p \in Sides /\ p # s /\ Peer(p) = s /\ \A t \in Sides : t = s \/ t = p
    BY SidesAre
<1>2. MapsInv /\ SideInv(s)
    BY SideBySide
<1>3. Marshal(m) # <<>>
    <2>1. Marshal(m) \in Seq(Octets) /\ 4 <= Len(Marshal(m))
        BY SentCarries DEF Carries
    <2>. QED
        BY <2>1, EmptySeq
<1> HIDE DEF p
<1>4. /\ at'[s] = "write" /\ at'[p] = at[p] /\ got' = got
      /\ out'[s] = Marshal(m) /\ out'[p] = out[p] /\ sent'[p] = sent[p]
    <2>1. DOMAIN at = Sides /\ DOMAIN out = Sides /\ DOMAIN sent = Sides
        BY <1>2, MapDomain DEF MapsInv
    <2>2. /\ at' = [at EXCEPT ![s] = "write"] /\ got' = got
          /\ out' = [out EXCEPT ![s] = Marshal(m)]
          /\ sent' = [sent EXCEPT ![s] = m]
        BY DEF Marshals
    <2>. QED
        BY <2>1, <2>2, ExceptMap DEF p
<1>5. sent[s] = NULL /\ at[s] \notin {"done", "read", "spin"}
    BY <1>2 DEF SideInv, SideIs, Turn
<1>6. StateOf(s)' = StateOf(s) /\ StateOf(p)' = StateOf(p)
    BY <1>4, <1>5 DEF StateOf
<1>7. OnTheWay(s)' = OnTheWay(s)
    BY <1>4, <1>5 DEF OnTheWay, p
<1>8. OnTheWay(p)' = OnTheWay(p)
    BY <1>1, <1>3, <1>4, <1>5 DEF OnTheWay
<1>9. \A t \in Sides : StateOf(t)' = StateOf(t) /\ OnTheWay(t)' = OnTheWay(t)
    BY <1>1, <1>6, <1>7, <1>8
<1>. QED
    BY <1>4, <1>9, DoesNotShow

(* What one side's step shows of the two: a map that changes at one of them. *)
LEMMA MapUpdate ==
    ASSUME NEW s \in Sides, NEW f, NEW g, IsMap(f), IsMap(g), NEW x,
           g[s] = x, g[Peer(s)] = f[Peer(s)]
    PROVE  g = [f EXCEPT ![s] = x]
<1>1. \A t \in Sides : t = s \/ t = Peer(s)
    BY SidesAre
<1>2. Peer(s) # s
    BY SidesAre
<1>3. g = [t \in Sides |-> IF t = s THEN x ELSE f[t]]
    BY <1>1, <1>2 DEF IsMap
<1>4. [f EXCEPT ![s] = x] = [t \in Sides |-> IF t = s THEN x ELSE f[t]]
    BY DEF IsMap
<1>. QED
    BY <1>3, <1>4

(* What the abstract connection sees at either side.                         *)
LEMMA MapsShow ==
    /\ IsMap(StateMap) /\ IsMap(ChanMap) /\ IsMap(StateMap') /\ IsMap(ChanMap')
    /\ \A s \in Sides : /\ StateMap[s] = StateOf(s) /\ ChanMap[s] = OnTheWay(s)
                        /\ StateMap'[s] = StateOf(s)' /\ ChanMap'[s] = OnTheWay(s)'
BY DEF StateMap, ChanMap, IsMap

(* What it sees when a side's received message changes.                      *)
LEMMA GotMaps ==
    ASSUME NEW s \in Sides, NEW m, DOMAIN got = Sides, got' = [got EXCEPT ![s] = m]
    PROVE  GotMap' = [GotMap EXCEPT ![s] = Content(m)]
<1>1. got'[s] = m /\ got'[Peer(s)] = got[Peer(s)] /\ Peer(s) \in Sides
    BY ExceptMap, SidesAre
<1>2. GotMap'[s] = Content(m) /\ GotMap'[Peer(s)] = GotMap[Peer(s)]
    BY <1>1 DEF GotMap
<1>3. IsMap(GotMap) /\ IsMap(GotMap')
    BY DEF IsMap, GotMap
<1>. QED
    BY <1>2, <1>3, MapUpdate

(* Octets of a message that is not at its end do not show; with its last one *)
(* the message is posted.                                                    *)
LEMMA WriteMaps ==
    ASSUME WInv, NEW s \in Sides, NEW n, Write(s, n)
    PROVE  [Whole!Next]_(Whole!vars)
<1> DEFINE p == Peer(s)
           last == n = Len(out[s])
           rest == SubSeq(out[s], n + 1, Len(out[s]))
<1>1. p \in Sides /\ p # s /\ Peer(p) = s /\ \A t \in Sides : t = s \/ t = p
    BY SidesAre
<1>2. MapsInv /\ SideInv(s)
    BY SideBySide
<1>3. /\ at[s] = "write" /\ out[s] \in Seq(Octets) /\ n \in 1..Len(out[s])
      /\ at'[s] = (IF last THEN "read" ELSE "write") /\ at'[p] = at[p]
      /\ out'[s] = rest /\ out'[p] = out[p] /\ sent' = sent
    BY Writes
<1>4. last <=> rest = <<>>
    BY <1>3, SplitOctets
<1>5. out[s] # <<>> /\ sent[s] \in SentBy(s) /\ sent[p] = NULL
    BY <1>2, <1>3 DEF SideInv, SideIs, Shape, Turn, Speaking, p
<1>6. got' = IF last THEN [got EXCEPT ![s] = NULL] ELSE got
    BY DEF Write
<1> HIDE DEF p, rest, last
<1>7. StateOf(p)' = StateOf(p)
    BY <1>3 DEF StateOf
<1>8. OnTheWay(s) = NULL /\ OnTheWay(s)' = NULL /\ OnTheWay(p) = NULL
    BY <1>1, <1>3, <1>5 DEF OnTheWay, p
<1>9. CASE ~last
    <2>1. StateOf(s)' = StateOf(s)
        BY <1>3, <1>9 DEF StateOf
    <2>2. OnTheWay(p)' = NULL
        BY <1>1, <1>3, <1>4, <1>9 DEF OnTheWay
    <2>3. \A t \in Sides : StateOf(t)' = StateOf(t) /\ OnTheWay(t)' = OnTheWay(t)
        BY <1>1, <1>7, <1>8, <2>1, <2>2
    <2>4. got' = got
        BY <1>6, <1>9
    <2>. QED
        BY <2>3, <2>4, DoesNotShow
<1>10. CASE last
    <2>1. StateOf(s) = "active" /\ StateOf(s)' = "waits"
        BY <1>3, <1>10 DEF StateOf
    <2>2. OnTheWay(p)' = IF StateOf(p) = "ended" THEN NULL ELSE sent[s]
        BY <1>1, <1>3, <1>4, <1>10 DEF OnTheWay, StateOf
    <2>3. StateMap' = [StateMap EXCEPT ![s] = "waits"]
        BY <1>1, <1>7, <2>1, MapsShow, MapUpdate DEF p
    <2>4. ChanMap' = IF StateMap[p] = "ended" THEN ChanMap ELSE [ChanMap EXCEPT ![p] = sent[s]]
        <3>1. CASE StateOf(p) = "ended"
            <4>1. ChanMap' = [ChanMap EXCEPT ![p] = NULL]
                BY <1>1, <1>8, <2>2, <3>1, MapsShow, MapUpdate
            <4>2. ChanMap[p] = NULL
                BY <1>1, <1>8, MapsShow
            <4>3. [ChanMap EXCEPT ![p] = NULL] = ChanMap
                BY <1>1, <4>2, MapsShow, MapUpdate
            <4>. QED
                BY <1>1, <3>1, <4>1, <4>3, MapsShow
        <3>2. CASE StateOf(p) # "ended"
            <4>1. ChanMap' = [ChanMap EXCEPT ![p] = sent[s]]
                BY <1>1, <1>8, <2>2, <3>2, MapsShow, MapUpdate
            <4>. QED
                BY <1>1, <3>2, <4>1, MapsShow
        <3>. QED
            BY <3>1, <3>2
    <2>5. StateMap[s] = "active"
        BY <2>1, MapsShow
    <2>6. GotMap' = [GotMap EXCEPT ![s] = NULL]
        <3>1. DOMAIN got = Sides /\ got' = [got EXCEPT ![s] = NULL]
            BY <1>2, <1>6, <1>10 DEF MapsInv
        <3>2. Content(NULL) = NULL
            BY DEF Content
        <3>. QED
            BY <3>1, <3>2, GotMaps
    <2>7. Whole!Post(s, sent[s])
        BY <2>3, <2>4, <2>5, <2>6 DEF Whole!Post, StateMap, ChanMap, GotMap, p
    <2>. QED
        BY <1>5, <2>7 DEF Whole!Next
<1>. QED
    BY <1>9, <1>10

(* Octets of a message that is not complete do not show; with its last one   *)
(* the message is delivered.                                                 *)
LEMMA ReadMaps ==
    ASSUME WInv, NEW s \in Sides, NEW n, Read(s, n)
    PROVE  [Whole!Next]_(Whole!vars)
<1> DEFINE p == Peer(s)
           buf == in[s] \o SubSeq(stream[s], 1, n)
           m == sent[p]
           place == IF s = "client" THEN "ready" ELSE "serve"
<1>1. p \in Sides /\ p # s /\ Peer(p) = s /\ \A t \in Sides : t = s \/ t = p
    BY SidesAre
<1>2. MapsInv
    BY SideBySide
<1>3. at[s] = "read" /\ n \in 1..Len(stream[s])
    BY DEF Read
<1>4. /\ m # NULL /\ sent[s] = NULL /\ out[s] = <<>>
      /\ ~ (FieldEnd(s, buf) > Len(buf)) => out[p] = <<>> /\ Unmarshal(buf) = Kept(m)
    BY <1>3, Gathered
<1>5. out' = out /\ Gathers(s, buf)
    BY DEF Read
<1>6. DOMAIN at = Sides /\ DOMAIN sent = Sides /\ DOMAIN got = Sides
    BY <1>2, MapDomain DEF MapsInv
<1>7. m \in SentBy(p) \cup {NULL}
    BY <1>1, SideBySide DEF SideInv, SideIs, Shape
<1> HIDE DEF p, buf
<1>8. CASE FieldEnd(s, buf) > Len(buf)
    <2>1. at' = at /\ sent' = sent /\ got' = got
        BY <1>5, <1>8 DEF Gathers
    <2>2. \A t \in Sides : StateOf(t)' = StateOf(t) /\ OnTheWay(t)' = OnTheWay(t)
        BY <1>5, <2>1 DEF StateOf, OnTheWay
    <2>. QED
        BY <2>1, <2>2, DoesNotShow
<1>9. CASE ~ (FieldEnd(s, buf) > Len(buf))
    <2>1. /\ got' = [got EXCEPT ![s] = Kept(m)]
          /\ sent' = [sent EXCEPT ![p] = NULL] /\ at' = [at EXCEPT ![s] = place]
        BY <1>4, <1>5, <1>9 DEF Gathers, p
    <2> HIDE DEF m
    <2>2. place \notin {"done", "read", "spin"}
        OBVIOUS
    <2> HIDE DEF place
    <2>3. at'[s] = place /\ at'[p] = at[p]
        BY <1>6, <2>1, ExceptMap DEF p
    <2>4. sent'[p] = NULL /\ sent'[s] = sent[s]
        <3>1. sent'[p] = NULL /\ sent'[Peer(p)] = sent[Peer(p)]
            BY <1>1, <1>6, <2>1, ExceptMap
        <3>. QED
            BY <1>1, <3>1
    <2>5. StateOf(s) = "waits" /\ StateOf(s)' = "active" /\ StateOf(p)' = StateOf(p)
        BY <1>3, <2>2, <2>3 DEF StateOf
    <2>6. OnTheWay(s) = m /\ OnTheWay(s)' = NULL
        BY <1>3, <1>4, <1>9, <2>4 DEF OnTheWay, p, m
    <2>7. OnTheWay(p)' = OnTheWay(p)
        BY <1>1, <1>4, <2>4 DEF OnTheWay
    <2>8. StateMap' = [StateMap EXCEPT ![s] = "active"]
        BY <2>5, MapsShow, MapUpdate, <1>1 DEF p
    <2>9. ChanMap' = [ChanMap EXCEPT ![s] = NULL]
        BY <2>6, <2>7, MapsShow, MapUpdate, <1>1 DEF p
    <2>10. StateMap[s] = "waits" /\ ChanMap[s] = m /\ ChanMap[s] # NULL
        BY <1>4, <2>5, <2>6, MapsShow DEF m
    <2>11. Whole!Deliver(s)
        <3>1. GotMap' = [GotMap EXCEPT ![s] = Content(Kept(m))]
            BY <1>6, <2>1, GotMaps
        <3>2. Content(Kept(m)) = m
            BY <1>1, <1>4, <1>7, ContentIs DEF m
        <3>. QED
            BY <2>8, <2>9, <2>10, <3>1, <3>2 DEF Whole!Deliver, StateMap, ChanMap, GotMap
    <2>. QED
        BY <2>11 DEF Whole!Next
<1>. QED
    BY <1>8, <1>9

(* A side that leaves ends, and what was on the way to it is lost.           *)
LEMMA LeavesMaps ==
    ASSUME WInv, NEW s \in Sides, Leaves(s)
    PROVE  Whole!Next
<1> DEFINE p == Peer(s)
<1>1. p \in Sides /\ p # s /\ Peer(p) = s
    BY SidesAre
<1>2. DOMAIN at = Sides
    BY SideBySide, MapDomain DEF MapsInv
<1> HIDE DEF p
<1>3. /\ at[s] # "done" /\ at' = [at EXCEPT ![s] = "done"]
      /\ out' = out /\ sent' = sent /\ got' = got
    BY DEF Leaves
<1>4. at'[s] = "done" /\ at'[p] = at[p]
    BY <1>2, <1>3, ExceptMap DEF p
<1>5. StateOf(s) # "ended" /\ StateOf(s)' = "ended" /\ StateOf(p)' = StateOf(p)
    BY <1>3, <1>4 DEF StateOf
<1>6. OnTheWay(s)' = NULL /\ OnTheWay(p)' = OnTheWay(p)
    BY <1>1, <1>3, <1>4 DEF OnTheWay
<1>7. StateMap' = [StateMap EXCEPT ![s] = "ended"]
    BY <1>1, <1>5, MapsShow, MapUpdate DEF p
<1>8. ChanMap' = [ChanMap EXCEPT ![s] = NULL]
    BY <1>1, <1>6, MapsShow, MapUpdate DEF p
<1>9. StateMap[s] # "ended"
    BY <1>5, MapsShow
<1>10. GotMap' = GotMap
    BY <1>3 DEF GotMap
<1>11. Whole!End(s)
    BY <1>7, <1>8, <1>9, <1>10 DEF Whole!End, StateMap, ChanMap, GotMap
<1>. QED
    BY <1>11 DEF Whole!Next

(* Whoever waits for ever waits.                                             *)
LEMMA ReadNeverDoesNotShow ==
    ASSUME WInv, NEW s \in Sides, ReadNever(s)
    PROVE  UNCHANGED Whole!vars
<1>1. DOMAIN at = Sides
    BY SideBySide, MapDomain DEF MapsInv
<1>2. /\ at[s] = "read" /\ at' = [at EXCEPT ![s] = "spin"]
      /\ out' = out /\ sent' = sent /\ got' = got
    BY DEF ReadNever
<1>3. at'[s] = "spin" /\ at'[Peer(s)] = at[Peer(s)]
    BY <1>1, <1>2, ExceptMap
<1>4. \A t \in Sides : t = s \/ t = Peer(s)
    BY SidesAre
<1>5. \A t \in Sides : StateOf(t)' = StateOf(t) /\ OnTheWay(t)' = OnTheWay(t)
    BY <1>2, <1>3, <1>4 DEF StateOf, OnTheWay
<1>. QED
    BY <1>2, <1>5, DoesNotShow

(* What changes nothing does not show.                                       *)
LEMMA StutterDoesNotShow == UNCHANGED vars => UNCHANGED Whole!vars
BY DoesNotShow DEF vars, StateOf, OnTheWay

(* Every step of the connection of octets is one of the abstract connection, *)
(* or none.                                                                  *)
LEMMA NextMaps == WInv /\ [Next]_vars => [Whole!Next]_(Whole!vars)
<1> SUFFICES ASSUME WInv, [Next]_vars PROVE [Whole!Next]_(Whole!vars)
    OBVIOUS
<1>1. ASSUME NEW m \in Requests, Ask(m)
      PROVE  UNCHANGED Whole!vars
    <2>1. /\ "client" \in Sides /\ m \in SentBy("client")
          /\ at["client"] \in {"ready", "serve"} /\ Marshals("client", m)
        BY <1>1 DEF Ask, Sides, SentBy
    <2>. QED
        BY <2>1, MarshalsDoesNotShow
<1>2. ASSUME NEW m \in Answers, Serve(m)
      PROVE  UNCHANGED Whole!vars
    <2>1. /\ "server" \in Sides /\ m \in SentBy("server")
          /\ at["server"] \in {"ready", "serve"} /\ Marshals("server", m)
        BY <1>2 DEF Serve, Sides, SentBy
    <2>. QED
        BY <2>1, MarshalsDoesNotShow
<1>3. ASSUME NEW s \in Sides, NEW n \in 1..Capacity, Write(s, n)
      PROVE  [Whole!Next]_(Whole!vars)
    BY <1>3, WriteMaps
<1>4. ASSUME NEW s \in Sides, NEW n \in 1..Capacity, Read(s, n)
      PROVE  [Whole!Next]_(Whole!vars)
    BY <1>4, ReadMaps
<1>5. ASSUME NEW s \in Sides, Interrupted(s)
      PROVE  UNCHANGED Whole!vars
    BY <1>5, StutterDoesNotShow DEF Interrupted
<1>6. ASSUME NEW s \in Sides, ReadNever(s)
      PROVE  UNCHANGED Whole!vars
    BY <1>6, ReadNeverDoesNotShow
<1>7. ASSUME NEW s \in Sides, Fails(s) \/ Ends(s)
      PROVE  Whole!Next
    BY <1>7, FailsLeave, LeavesMaps
<1>8. CASE UNCHANGED vars
    BY <1>8, StutterDoesNotShow
<1>. QED
    BY <1>1, <1>2, <1>3, <1>4, <1>5, <1>6, <1>7, <1>8 DEF Next, Moves

(* Octets, cut anywhere, implement a connection of whole messages, for any   *)
(* capacity and whatever the lines, values, numbers and lists of keys.       *)
THEOREM WireImplementsConnection == Spec => ImplementsConnection
BY MapsToInit, NextMaps, Invariance, PTL DEF Spec, ImplementsConnection, Whole!Spec

-----------------------------------------------------------------------------
(* The sides do not wait for each other.                                     *)

(* A receiver that has part of a message asks for octets of that message,    *)
(* and for at least one until it has all of them.                            *)
THEOREM FieldEndCorrect ==
    ASSUME NEW s \in Sides, NEW m \in SentBy(Peer(s)), NEW n \in 0..Len(Marshal(m))
    PROVE  LET buf == SubSeq(Marshal(m), 1, n)
           IN  /\ FieldEnd(s, buf) <= Len(Marshal(m))
               /\ n < Len(Marshal(m)) <=> n < FieldEnd(s, buf)
<1> DEFINE all == Marshal(m)
           buf == SubSeq(all, 1, n)
<1>1. Peer(s) \in Sides /\ Peer(Peer(s)) = s
    BY SidesAre
<1>2. Carries(Peer(s), m)
    BY <1>1, SentCarries
<1>3. all \in Seq(Octets)
    BY <1>2 DEF Carries
<1>4. \A b \in Seq(Octets) : Holds(all, 0, b) => EndsBy(FieldEnd(s, b), b, Len(all))
    BY <1>1, <1>2 DEF Carries
<1> HIDE DEF all
<1>5. Len(all) \in Nat /\ n \in 0..Len(all) /\ \A j \in 1..n : all[j] \in Octets
    BY <1>3 DEF all
<1>6. buf \in Seq(Octets) /\ Len(buf) = n /\ \A j \in 1..n : buf[j] = all[j]
    BY <1>3, <1>5, SubSeqProperties
<1> HIDE DEF buf
<1>7. Holds(all, 0, buf)
    BY <1>5, <1>6 DEF Holds
<1>8. EndsBy(FieldEnd(s, buf), buf, Len(all))
    BY <1>4, <1>6, <1>7
<1>9. FieldEnd(s, buf) <= Len(all) /\ (n < Len(all) <=> n < FieldEnd(s, buf))
    BY <1>5, <1>6, <1>8 DEF EndsBy
<1>. QED
    BY <1>9 DEF buf, all

(* What a side waits for: octets of the field it is reading, and a message   *)
(* that one of the two has sent, unless the other is gone.                   *)
Waits(a, b, i, s, x, y, e) ==
    /\ a = "read" => Len(i) < FieldEnd(s, i)
    /\ a = "spin" => e # "open"
    /\ a \in {"read", "spin"} /\ b \in {"read", "spin"} => x # NULL \/ y # NULL

WaitsOf(s) == Waits(at[s], at[Peer(s)], in[s], s, sent[s], sent[Peer(s)], end[Peer(s)])

WaitInv == \A s \in Sides : WaitsOf(s)

(* The two of them after a step.                                             *)
LEMMA BothWait ==
    ASSUME NEW s \in Sides, WaitsOf(s)', WaitsOf(Peer(s))'
    PROVE  WaitInv'
<1>1. \A t \in Sides : t = s \/ t = Peer(s)
    BY SidesAre
<1>. QED
    BY <1>1 DEF WaitInv

(* At the start the client speaks, and the server asks for the first code.   *)
LEMMA InitWaitInv == Init => WaitInv
<1> SUFFICES ASSUME Init, NEW s \in Sides PROVE WaitsOf(s)
    BY DEF WaitInv
<1>1. Peer(s) \in Sides /\ (s = "client" \/ Peer(s) = "client")
    BY DEF Sides, Peer
<1>2. in[s] = <<>> /\ Len(<<>>) = 0
    BY DEF Init
<1>3. FieldEnd(s, in[s]) = 2
    BY <1>2 DEF FieldEnd
<1>. QED
    BY <1>1, <1>2, <1>3 DEF Init, WaitsOf, Waits

(* A turn of write_all: after the last one the side asks for the first code, *)
(* and has sent a message.                                                   *)
LEMMA WriteWaits ==
    ASSUME WInv, WaitInv, NEW s \in Sides, NEW n, Write(s, n)
    PROVE  WaitInv'
<1> DEFINE p == Peer(s)
           place == IF n = Len(out[s]) THEN "read" ELSE "write"
<1>1. p \in Sides /\ p # s /\ Peer(p) = s
    BY SidesAre
<1>2. SideInv(s) /\ WaitsOf(s) /\ WaitsOf(p)
    BY <1>1, SideBySide DEF WaitInv
<1>3. /\ at[s] = "write" /\ at'[s] = place /\ at'[p] = at[p]
      /\ in' = in /\ end' = end /\ sent' = sent
    BY Writes
<1>4. sent[s] # NULL /\ in[s] = <<>>
    BY <1>2, <1>3 DEF SideInv, SideIs, Shape, Turn
<1>5. Len(in[s]) < FieldEnd(s, in[s])
    <2>1. Len(<<>>) = 0
        OBVIOUS
    <2>2. FieldEnd(s, <<>>) = 2
        BY <2>1 DEF FieldEnd
    <2>. QED
        BY <1>4, <2>1, <2>2
<1>6. place \in {"read", "write"}
    OBVIOUS
<1> HIDE DEF p, place
<1>7. WaitsOf(s)'
    BY <1>3, <1>4, <1>5, <1>6 DEF WaitsOf, Waits, p
<1>8. WaitsOf(p)'
    BY <1>1, <1>2, <1>3, <1>4 DEF WaitsOf, Waits
<1>. QED
    BY <1>7, <1>8, BothWait DEF p

(* A turn of read_all that leaves the field, or the message, incomplete.     *)
LEMMA ReadWaits ==
    ASSUME WInv, WaitInv, NEW s \in Sides, NEW n, Read(s, n)
    PROVE  WaitInv'
<1> DEFINE p == Peer(s)
           buf == in[s] \o SubSeq(stream[s], 1, n)
           place == IF s = "client" THEN "ready" ELSE "serve"
<1>1. p \in Sides /\ p # s /\ Peer(p) = s
    BY SidesAre
<1>2. MapsInv /\ WaitsOf(s) /\ WaitsOf(p)
    BY <1>1, SideBySide DEF WaitInv
<1>3. at[s] = "read" /\ n \in 1..Len(stream[s]) /\ end' = end /\ Gathers(s, buf)
    BY DEF Read
<1>4. buf \in Seq(Octets)
    BY <1>3, Gathered
<1>5. DOMAIN at = Sides /\ DOMAIN in = Sides
    BY <1>2, MapDomain DEF MapsInv
<1>6. place \notin {"read", "spin"}
    OBVIOUS
<1> HIDE DEF p, buf, place
<1>7. CASE FieldEnd(s, buf) > Len(buf)
    <2>1. in' = [in EXCEPT ![s] = buf] /\ at' = at /\ sent' = sent
        BY <1>3, <1>7 DEF Gathers
    <2>2. in'[s] = buf /\ in'[p] = in[p]
        BY <1>5, <2>1, ExceptMap DEF p
    <2>3. Len(buf) < FieldEnd(s, buf)
        BY <1>7
    <2>4. WaitsOf(s)'
        BY <1>2, <1>3, <2>1, <2>2, <2>3 DEF WaitsOf, Waits
    <2>5. WaitsOf(p)'
        BY <1>1, <1>2, <1>3, <2>1, <2>2 DEF WaitsOf, Waits
    <2>. QED
        BY <2>4, <2>5, BothWait DEF p
<1>8. CASE ~ (FieldEnd(s, buf) > Len(buf))
    <2>1. in' = [in EXCEPT ![s] = <<>>] /\ at' = [at EXCEPT ![s] = place]
        BY <1>3, <1>8 DEF Gathers, place
    <2>2. in'[p] = in[p]
        BY <1>5, <2>1, ExceptMap DEF p
    <2>3. at'[s] = place /\ at'[p] = at[p]
        BY <1>5, <2>1, ExceptMap DEF p
    <2>4. WaitsOf(s)'
        BY <1>6, <2>3 DEF WaitsOf, Waits
    <2>5. WaitsOf(p)'
        BY <1>1, <1>2, <1>3, <1>6, <2>2, <2>3 DEF WaitsOf, Waits
    <2>. QED
        BY <2>4, <2>5, BothWait DEF p
<1>. QED
    BY <1>7, <1>8

(* A side that prepares a message does not wait, nor does one that has left. *)
LEMMA ActiveWaits ==
    ASSUME WInv, WaitInv, NEW s \in Sides, NEW x, x \notin {"read", "spin"},
           at' = [at EXCEPT ![s] = x], in' = in,
           end'[Peer(s)] = end[Peer(s)], end'[s] = end[s] \/ end'[s] # "open"
    PROVE  WaitInv'
<1> DEFINE p == Peer(s)
<1>1. p \in Sides /\ p # s /\ Peer(p) = s
    BY SidesAre
<1>2. WaitsOf(s) /\ WaitsOf(p) /\ DOMAIN at = Sides
    BY <1>1, SideBySide, MapDomain DEF WaitInv, MapsInv
<1> HIDE DEF p
<1>3. at'[s] = x /\ at'[p] = at[p]
    BY <1>2, ExceptMap, ZenonT(30) DEF p
<1>4. WaitsOf(s)'
    BY <1>3 DEF WaitsOf, Waits
<1>5. WaitsOf(p)'
    BY <1>1, <1>2, <1>3 DEF WaitsOf, Waits, p
<1>. QED
    BY <1>4, <1>5, BothWait DEF p

(* Who waits for ever waits for a side that is gone.                         *)
LEMMA ReadNeverWaits ==
    ASSUME WInv, WaitInv, NEW s \in Sides, ReadNever(s)
    PROVE  WaitInv'
<1> DEFINE p == Peer(s)
<1>1. p \in Sides /\ p # s /\ Peer(p) = s
    BY SidesAre
<1>2. WaitsOf(s) /\ WaitsOf(p) /\ DOMAIN at = Sides
    BY <1>1, SideBySide, MapDomain DEF WaitInv, MapsInv
<1>3. /\ at[s] = "read" /\ end[p] = "fin" /\ at' = [at EXCEPT ![s] = "spin"]
      /\ in' = in /\ end' = end /\ sent' = sent
    BY DEF ReadNever
<1> HIDE DEF p
<1>4. at'[s] = "spin" /\ at'[p] = at[p]
    BY <1>2, <1>3, ExceptMap DEF p
<1>5. WaitsOf(s)'
    BY <1>2, <1>3, <1>4 DEF WaitsOf, Waits, p
<1>6. WaitsOf(p)'
    BY <1>1, <1>2, <1>3, <1>4 DEF WaitsOf, Waits
<1>. QED
    BY <1>5, <1>6, BothWait DEF p

(* The end of a side changes the connection at that side.                    *)
LEMMA LeavesWaits ==
    ASSUME WInv, WaitInv, NEW s \in Sides, Leaves(s)
    PROVE  WaitInv'
<1> DEFINE how == IF stream[s] = <<>> THEN "fin" ELSE "rst"
<1>1. DOMAIN end = Sides
    BY SideBySide, MapDomain DEF MapsInv
<1>2. at' = [at EXCEPT ![s] = "done"] /\ in' = in /\ end' = [end EXCEPT ![s] = how]
    BY DEF Leaves, Closes
<1>3. how # "open"
    OBVIOUS
<1> HIDE DEF how
<1>4. end'[s] = how /\ end'[Peer(s)] = end[Peer(s)]
    BY <1>1, <1>2, ExceptMap
<1>5. "done" \notin {"read", "spin"}
    OBVIOUS
<1>. QED
    BY <1>2, <1>3, <1>4, <1>5, ActiveWaits

(* What changes nothing keeps it.                                            *)
LEMMA StutterWaits ==
    ASSUME WaitInv, UNCHANGED vars
    PROVE  WaitInv'
BY DEF vars, WaitInv, WaitsOf, Waits

(* Every step keeps it.                                                      *)
LEMMA NextWaits == WInv /\ WaitInv /\ [Next]_vars => WaitInv'
<1> SUFFICES ASSUME WInv, WaitInv, [Next]_vars PROVE WaitInv'
    OBVIOUS
<1>1. ASSUME NEW s \in Sides, NEW m, Marshals(s, m)
      PROVE  WaitInv'
    <2>1. /\ at' = [at EXCEPT ![s] = "write"] /\ in' = in
          /\ end'[Peer(s)] = end[Peer(s)] /\ end'[s] = end[s]
        BY <1>1 DEF Marshals
    <2>2. "write" \notin {"read", "spin"}
        OBVIOUS
    <2>. QED
        BY <2>1, <2>2, ActiveWaits
<1>2. ASSUME NEW m, Ask(m) \/ Serve(m)
      PROVE  WaitInv'
    <2>1. \E s \in Sides : Marshals(s, m)
        BY <1>2 DEF Ask, Serve, Sides
    <2>. QED
        BY <1>1, <2>1
<1>3. ASSUME NEW s \in Sides, NEW n \in 1..Capacity, Write(s, n)
      PROVE  WaitInv'
    BY <1>3, WriteWaits
<1>4. ASSUME NEW s \in Sides, NEW n \in 1..Capacity, Read(s, n)
      PROVE  WaitInv'
    BY <1>4, ReadWaits
<1>5. ASSUME NEW s \in Sides, Interrupted(s)
      PROVE  WaitInv'
    BY <1>5, StutterWaits DEF Interrupted
<1>6. ASSUME NEW s \in Sides, ReadNever(s)
      PROVE  WaitInv'
    BY <1>6, ReadNeverWaits
<1>7. ASSUME NEW s \in Sides, Fails(s) \/ Ends(s)
      PROVE  WaitInv'
    BY <1>7, FailsLeave, LeavesWaits
<1>8. CASE UNCHANGED vars
    BY <1>8, StutterWaits
<1>. QED
    BY <1>2, <1>3, <1>4, <1>5, <1>6, <1>7, <1>8 DEF Next, Moves

(* A side whose message is not received yet, and which has written all of    *)
(* it, leaves the other something to read.                                   *)
LEMMA SomethingToRead ==
    ASSUME WInv, WaitInv, NEW s \in Sides, at[s] = "read", end[s] = "open",
           sent[Peer(s)] # NULL, out[Peer(s)] = <<>>
    PROVE  CanMove(s)
<1> DEFINE p == Peer(s)
           m == sent[p]
<1>1. p \in Sides /\ Peer(p) = s
    BY SidesAre
<1>2. SideInv(s) /\ SideInv(p) /\ WaitsOf(s)
    BY <1>1, SideBySide DEF WaitInv
<1>3. Len(in[s]) < FieldEnd(s, in[s])
    BY <1>2 DEF WaitsOf, Waits
<1>4. in[s] \in Seq(Octets) /\ stream[s] \in Seq(Octets) /\ m \in SentBy(p)
    BY <1>1, <1>2 DEF SideInv, SideIs, Shape
<1>5. in[s] \o stream[s] \o out[p] = Marshal(m)
    BY <1>2 DEF SideInv, SideIs, Whose
<1>6. Carries(p, m)
    BY <1>1, <1>4, SentCarries
<1> HIDE DEF p, m
<1>7. stream[s] # <<>>
    <2> SUFFICES ASSUME stream[s] = <<>> PROVE FALSE
        OBVIOUS
    <2>1. in[s] = Marshal(m)
        <3>1. in[s] \o stream[s] = in[s]
            BY <1>4, ConcatEmptySeq
        <3>2. in[s] \o out[p] = in[s]
            BY <1>4, ConcatEmptySeq DEF p
        <3>. QED
            BY <1>5, <3>1, <3>2
    <2>2. EndsBy(FieldEnd(s, in[s]), in[s], Len(in[s]))
        BY <1>1, <1>4, <1>6, <2>1, HoldsAll DEF Carries
    <2>3. Len(in[s]) \in Nat
        BY <1>4
    <2>. QED
        BY <1>3, <2>2, <2>3 DEF EndsBy
<1>. QED
    BY <1>3, <1>7 DEF CanMove

(* Whoever the other waits for, or who waits, can go on.                     *)
LEMMA SomeoneMoves == WInv /\ WaitInv => OneCanMove
<1> SUFFICES ASSUME WInv, WaitInv, \A s \in Sides : at[s] # "done"
             PROVE  \E s \in Sides : CanMove(s)
    BY DEF OneCanMove
<1>1. ASSUME NEW s \in Sides
      PROVE  /\ Peer(s) \in Sides /\ Peer(Peer(s)) = s
             /\ at[s] \in {"ready", "serve", "write", "read"} /\ end[s] = "open"
             /\ at[s] = "write" => at[Peer(s)] = "read"
             /\ at[s] = "read" => out[s] = <<>> /\ Len(in[s]) < FieldEnd(s, in[s])
             /\ stream[s] \in Seq(Octets)
    <2>1. Peer(s) \in Sides /\ Peer(Peer(s)) = s
        BY SidesAre
    <2>2. SideInv(s) /\ SideInv(Peer(s)) /\ WaitsOf(s) /\ WaitsOf(Peer(s))
        BY <2>1, SideBySide DEF WaitInv
    <2>3. at[s] # "done" /\ at[Peer(s)] # "done"
        BY <2>1
    <2>4. end[s] = "open" /\ end[Peer(s)] = "open"
        BY <2>1, <2>2, <2>3 DEF SideInv, SideIs, Turn
    <2>5. at[s] # "spin" /\ at[Peer(s)] # "spin"
        BY <2>1, <2>2, <2>4 DEF WaitsOf, Waits
    <2>6. /\ at[s] \in {"ready", "serve", "write", "read"}
          /\ at[s] = "write" => at[Peer(s)] = "read"
        BY <2>1, <2>2, <2>3, <2>5 DEF SideInv, SideIs, Shape, Turn, Places, Speaking
    <2>7. at[s] = "read" => out[s] = <<>> /\ Len(in[s]) < FieldEnd(s, in[s])
        BY <2>2 DEF SideInv, SideIs, Turn, WaitsOf, Waits
    <2>8. stream[s] \in Seq(Octets)
        BY <2>2 DEF SideInv, SideIs, Shape
    <2>. QED
        BY <2>1, <2>4, <2>6, <2>7, <2>8
<1>2. CASE \E s \in Sides : at[s] \in {"ready", "serve"}
    BY <1>2 DEF CanMove
<1>3. ASSUME NEW s \in Sides, at[s] = "write"
      PROVE  \E t \in Sides : CanMove(t)
    <2>1. CASE Len(stream[Peer(s)]) < Capacity
        BY <1>3, <2>1 DEF CanMove
    <2>2. CASE ~ (Len(stream[Peer(s)]) < Capacity)
        <3>1. stream[Peer(s)] # <<>>
            <4>1. Capacity \in Nat /\ Capacity # 0 /\ Len(<<>>) = 0
                BY WireAssumption
            <4>. QED
                BY <2>2, <4>1
        <3>2. CanMove(Peer(s))
            BY <1>1, <1>3, <3>1 DEF CanMove
        <3>. QED
            BY <1>1, <3>2
    <2>. QED
        BY <2>1, <2>2
<1>4. CASE \A s \in Sides : at[s] = "read"
    <2>1. PICK s \in Sides : sent[Peer(s)] # NULL
        <3>1. "client" \in Sides
            BY DEF Sides
        <3>2. WaitsOf("client") /\ Peer("client") \in Sides
            BY <1>1, <3>1 DEF WaitInv
        <3>3. sent["client"] # NULL \/ sent[Peer("client")] # NULL
            BY <1>4, <3>1, <3>2 DEF WaitsOf, Waits
        <3>. QED
            BY <1>1, <3>1, <3>2, <3>3
    <2>2. CanMove(s)
        BY <1>1, <1>4, <2>1, SomethingToRead
    <2>. QED
        BY <2>2
<1>. QED
    BY <1>1, <1>2, <1>3, <1>4

(* Neither side ever waits for what the other waits for: both processes      *)
(* running, one can go on, however little the socket holds.                  *)
THEOREM OneCanMoveCorrect == Spec => []OneCanMove
BY Invariance, InitWaitInv, NextWaits, SomeoneMoves, PTL DEF Spec
=============================================================================
