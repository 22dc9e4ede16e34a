----------------------------- MODULE WireProofs -----------------------------
(***************************************************************************)
(* What the codec of mqtt_wire.go guarantees for every length, packet, id, *)
(* topic and payload.  The leaves with large numbers name SMT: the other   *)
(* provers write numbers in unary.                                         *)
(***************************************************************************)
EXTENDS Wire, SequenceLemmas, TLAPS

Byte == 0..255

MaxUint16 == 65535
MaxLength == 268435455

LEMMA GotFields ==
  /\ ~Failed.ok
  /\ \A v, r : Got(v, r).ok /\ Got(v, r).value = v /\ Got(v, r).rest = r
BY DEF Failed, Got

LEMMA BytesAreNumbers == \A b \in Byte : b \in Nat /\ b <= 255
BY DEF Byte

-----------------------------------------------------------------------------
(* Sequences of bytes *)

LEMMA BytesConcat ==
  ASSUME NEW s \in Seq(Byte), NEW t \in Seq(Byte)
  PROVE  /\ s \o t \in Seq(Byte)
         /\ Len(s) \in Nat /\ Len(t) \in Nat /\ Len(s \o t) = Len(s) + Len(t)
BY ConcatProperties, LenProperties

LEMMA BytesAssociate ==
  ASSUME NEW s \in Seq(Byte), NEW t \in Seq(Byte), NEW u \in Seq(Byte)
  PROVE  (s \o t) \o u = s \o (t \o u)
BY ConcatAssociative

LEMMA BytesPrefix ==
  ASSUME NEW s \in Seq(Byte), NEW k \in Nat, k <= Len(s)
  PROVE  SubSeq(s, 1, k) \in Seq(Byte) /\ Len(SubSeq(s, 1, k)) = k
<1>1. k \in 0..Len(s)
  BY LenProperties
<1> QED
  BY <1>1, PrefixProperties

\* A prefix of a concatenation.
LEMMA BytesPrefixOfConcat ==
  ASSUME NEW s \in Seq(Byte), NEW t \in Seq(Byte),
         NEW k \in Nat, k <= Len(s) + Len(t)
  PROVE  /\ k <= Len(s) => SubSeq(s \o t, 1, k) = SubSeq(s, 1, k)
         /\ k >= Len(s) =>
              SubSeq(s \o t, 1, k) = s \o SubSeq(t, 1, k - Len(s))
<1>1. k \in 0..Len(s \o t)
  BY BytesConcat
<1> QED
  BY <1>1, PrefixOfConcat

-----------------------------------------------------------------------------
(* Numbers *)

\* A number and its low byte, or its lowest seven bits.
LEMMA LowBits ==
  ASSUME NEW n \in Nat
  PROVE  /\ n \div 128 \in Nat /\ n % 128 \in Nat /\ n % 128 < 128
         /\ n = 128 * (n \div 128) + (n % 128)
         /\ n \div 256 \in Nat /\ n % 256 \in Nat /\ n % 256 < 256
         /\ n = 256 * (n \div 256) + (n % 256)
BY SMT

\* Cutting seven bits off twice is cutting off fourteen, and so on.
LEMMA HighBits ==
  ASSUME NEW n \in Nat
  PROVE  /\ n \div 16384 = (n \div 128) \div 128
         /\ n \div 2097152 = ((n \div 128) \div 128) \div 128
BY SMT

LEMMA DigitIsSmall ==
  ASSUME NEW n \in Nat, NEW k \in 1..5
  PROVE  Digit(n, k) \in Nat /\ Digit(n, k) < 128
<1>1. Weight[k] \in Nat /\ Weight[k] > 0
  BY SMT DEF Weight
<1>2. n \div Weight[k] \in Nat
  BY <1>1, SMT
<1> QED
  BY <1>2, LowBits DEF Digit

\* Up to the longest body there is, four digits make the number; the digits past
\* the size of a number are 0.
LEMMA DigitsMakeNumber ==
  ASSUME NEW n \in Nat, n <= MaxLength
  PROVE  /\ n = Digit(n, 1) + Digit(n, 2) * Weight[2]
                  + Digit(n, 3) * Weight[3] + Digit(n, 4) * Weight[4]
         /\ \A k \in 1..3 : n < Weight[k + 1] =>
              \A j \in (k + 1)..4 : Digit(n, j) = 0
<1> DEFINE a == n \div 128
           b == a \div 128
           c == b \div 128
<1>1. /\ a \in Nat /\ n % 128 \in Nat /\ n % 128 < 128
      /\ n = 128 * a + (n % 128)
  BY LowBits
<1>2. /\ b \in Nat /\ a % 128 \in Nat /\ a % 128 < 128
      /\ a = 128 * b + (a % 128)
  BY <1>1, LowBits
<1>3. /\ c \in Nat /\ b % 128 \in Nat /\ b % 128 < 128
      /\ b = 128 * c + (b % 128)
  BY <1>2, LowBits
<1>4. /\ Digit(n, 1) = n % 128 /\ Digit(n, 2) = a % 128
      /\ Digit(n, 3) = b % 128 /\ Digit(n, 4) = c % 128
  <2>1. n \div 1 = n
    BY SMT
  <2> QED
    BY <2>1, HighBits, SMT DEF Digit, Weight
<1>5. n < 268435456
  BY SMT DEF MaxLength
<1> HIDE DEF a, b, c
<1>6. c < 128
  BY <1>1, <1>2, <1>3, <1>5, SMT
<1>7. c % 128 = c
  BY <1>3, <1>6, SMT
<1>8. /\ Weight[2] = 128 /\ Weight[3] = 16384 /\ Weight[4] = 2097152
  BY SMT DEF Weight
<1>9. n = (n % 128) + (a % 128) * 128 + (b % 128) * 16384 + c * 2097152
  BY <1>1, <1>2, <1>3, SMT
<1>10. /\ n < 128 => a = 0 /\ b = 0 /\ c = 0
       /\ n < 16384 => b = 0 /\ c = 0
       /\ n < 2097152 => c = 0
  BY <1>1, <1>2, <1>3, <1>5, SMT
<1>11. 0 % 128 = 0
  BY SMT
<1> QED
  BY <1>4, <1>7, <1>8, <1>9, <1>10, <1>11, SMT
-----------------------------------------------------------------------------
(* Lengths *)

\* The rounds encodeRemainingLength takes for n.
Size(n) == Min({k \in 1..4 : n < Weight[k + 1]} \cup {5})

LEMMA SizeOfLength ==
  ASSUME NEW n \in Nat
  PROVE  /\ Size(n) \in 1..5
         /\ Size(n) < 5 => n < Weight[Size(n) + 1]
         /\ n <= MaxLength => Size(n) < 5
         /\ n > MaxLength => Size(n) = 5
<1> DEFINE S == {k \in 1..4 : n < Weight[k + 1]} \cup {5}
<1>1. \E x \in S : \A y \in S : x <= y
  <2>1. CASE 1 \in S
    BY <2>1, SMT
  <2>2. CASE 1 \notin S /\ 2 \in S
    BY <2>2, SMT
  <2>3. CASE 1 \notin S /\ 2 \notin S /\ 3 \in S
    BY <2>3, SMT
  <2>4. CASE 1 \notin S /\ 2 \notin S /\ 3 \notin S /\ 4 \in S
    BY <2>4, SMT
  <2>5. CASE 1 \notin S /\ 2 \notin S /\ 3 \notin S /\ 4 \notin S
    BY <2>5, SMT
  <2> QED
    BY <2>1, <2>2, <2>3, <2>4, <2>5
<1>2. Size(n) \in S /\ \A y \in S : Size(n) <= y
  BY <1>1 DEF Size, Min
<1>3. n <= MaxLength => 4 \in S
  BY SMT DEF MaxLength, Weight
<1>4. n > MaxLength => \A k \in 1..4 : k \notin S
  BY SMT DEF MaxLength, Weight
<1> QED
  BY <1>2, <1>3, <1>4, SMT

LEMMA EncodedLength ==
  ASSUME NEW n \in Nat
  PROVE  /\ encodeRemainingLength(n) \in Seq(Byte)
         /\ Len(encodeRemainingLength(n)) = Size(n)
         /\ \A k \in 1..Size(n) :
              /\ encodeRemainingLength(n)[k] % 128 = Digit(n, k)
              /\ encodeRemainingLength(n)[k] < 128 <=> k = Size(n)
<1> DEFINE e == encodeRemainingLength(n)
<1>1. Size(n) \in 1..5
  BY SizeOfLength
<1>2. e = [k \in 1..Size(n) |-> Digit(n, k) + (IF k < Size(n) THEN 128 ELSE 0)]
  BY DEF encodeRemainingLength, Size
<1>3. ASSUME NEW k \in 1..Size(n)
      PROVE  /\ e[k] \in Byte /\ e[k] % 128 = Digit(n, k)
             /\ e[k] < 128 <=> k = Size(n)
  <2>1. k \in 1..5 /\ e[k] = Digit(n, k) + (IF k < Size(n) THEN 128 ELSE 0)
    BY <1>1, <1>2
  <2>2. Digit(n, k) \in Nat /\ Digit(n, k) < 128
    BY <2>1, DigitIsSmall
  <2> HIDE DEF e
  <2> QED
    BY <1>1, <2>1, <2>2, SMT DEF Byte
<1>4. e \in Seq(Byte) /\ Len(e) = Size(n)
  <2>1. e \in [1..Size(n) -> Byte] /\ Size(n) \in Nat
    BY <1>1, <1>2, <1>3
  <2> QED
    BY <2>1
<1> QED
  BY <1>3, <1>4

\* What the k-th byte of r adds to a length of s bytes.
Counts(r, s, k) == IF k <= s THEN (r[k] % 128) * Weight[k] ELSE 0

\* What decodeRemainingLength makes of up to four bytes of which only the last
\* is below 128.
LEMMA DecodedLength ==
  ASSUME NEW r \in Seq(Byte), NEW s \in 1..4, s <= Len(r),
         \A k \in 1..s : r[k] < 128 <=> k = s
  PROVE  decodeRemainingLength(r) =
           Got(Counts(r, s, 1) + Counts(r, s, 2) + Counts(r, s, 3) + Counts(r, s, 4),
               SubSeq(r, s + 1, Len(r)))
<1> DEFINE last == {k \in DOMAIN r : k <= MaxLengthBytes /\ r[k] < 128}
<1>1. s \in last /\ \A k \in last : s <= k
  BY DEF MaxLengthBytes
<1>2. last \subseteq Int
  OBVIOUS
<1>3. Min(last) = s
  BY <1>1, <1>2 DEF Min
<1> QED
  BY <1>1, <1>3 DEF decodeRemainingLength, Counts

\* No length ends in these bytes.
LEMMA NoLength ==
  ASSUME NEW r \in Seq(Byte), \A k \in 1..4 : k <= Len(r) => r[k] >= 128
  PROVE  decodeRemainingLength(r) = Failed
<1>1. ASSUME NEW k \in DOMAIN r, k <= MaxLengthBytes, r[k] < 128 PROVE FALSE
  <2>1. k \in 1..4 /\ k <= Len(r) /\ r[k] \in Byte
    BY <1>1, ElementOfSeq DEF MaxLengthBytes
  <2> QED
    BY <1>1, <2>1, BytesAreNumbers
<1> QED
  BY <1>1 DEF decodeRemainingLength

\* A length begins the bytes it was written to.
LEMMA LengthAhead ==
  ASSUME NEW n \in Nat, NEW rest \in Seq(Byte)
  PROVE  LET e == encodeRemainingLength(n)
         IN /\ e \o rest \in Seq(Byte) /\ Len(e \o rest) >= Size(n)
            /\ \A k \in 1..Size(n) : (e \o rest)[k] = e[k]
<1> DEFINE e == encodeRemainingLength(n)
<1>1. e \in Seq(Byte) /\ Len(e) = Size(n) /\ Size(n) \in 1..5
  BY EncodedLength, SizeOfLength
<1> HIDE DEF e
<1>2. /\ e \o rest \in Seq(Byte) /\ Len(e \o rest) = Len(e) + Len(rest)
      /\ \A i \in 1..(Len(e) + Len(rest)) :
           (e \o rest)[i] = IF i <= Len(e) THEN e[i] ELSE rest[i - Len(e)]
  BY <1>1, ConcatProperties
<1>3. Len(rest) \in Nat
  BY LenProperties
<1>4. \A k \in 1..Size(n) : (e \o rest)[k] = e[k]
  BY <1>1, <1>2, <1>3
<1> QED
  BY <1>1, <1>2, <1>3, <1>4 DEF e

\* decodeRemainingLength gives back every length encodeRemainingLength was given,
\* up to the longest there is, and takes no byte of what follows.
THEOREM LengthSurvives ==
  ASSUME NEW n \in Nat, n <= MaxLength, NEW rest \in Seq(Byte)
  PROVE  decodeRemainingLength(encodeRemainingLength(n) \o rest) = Got(n, rest)
<1> DEFINE e == encodeRemainingLength(n)
           r == e \o rest
           s == Size(n)
<1>1. s \in 1..4
  BY SizeOfLength
<1>2. /\ e \in Seq(Byte) /\ Len(e) = s
      /\ \A k \in 1..s : e[k] % 128 = Digit(n, k) /\ (e[k] < 128 <=> k = s)
  BY EncodedLength
<1>3. /\ r \in Seq(Byte) /\ Len(r) >= s
      /\ \A k \in 1..s : r[k] = e[k]
  BY LengthAhead
<1>4. SubSeq(r, s + 1, Len(r)) = rest
  BY <1>2, SplitConcat
<1> HIDE DEF e, r
<1>5. decodeRemainingLength(r) =
        Got(Counts(r, s, 1) + Counts(r, s, 2) + Counts(r, s, 3) + Counts(r, s, 4),
            rest)
  <2>1. \A k \in 1..s : r[k] < 128 <=> k = s
    BY <1>2, <1>3
  <2> HIDE DEF s
  <2> QED
    BY <1>1, <1>3, <1>4, <2>1, DecodedLength
<1>6. \A k \in 1..4 : Counts(r, s, k) = Digit(n, k) * Weight[k]
  <2> TAKE k \in 1..4
  <2>1. CASE k <= s
    BY <1>1, <1>2, <1>3, <2>1 DEF Counts
  <2>2. CASE k > s
    <3>1. n < Weight[s + 1]
      BY <1>1, SizeOfLength
    <3>2. Digit(n, k) = 0
      BY <1>1, <2>2, <3>1, DigitsMakeNumber
    <3>3. Weight[k] \in Nat
      BY SMT DEF Weight
    <3> QED
      BY <1>1, <2>2, <3>2, <3>3 DEF Counts
  <2> QED
    BY <1>1, <2>1, <2>2
<1>7. Weight[1] = 1
  BY SMT DEF Weight
<1>8. Digit(n, 1) \in Nat
  BY DigitIsSmall
<1>9. n = Counts(r, s, 1) + Counts(r, s, 2) + Counts(r, s, 3) + Counts(r, s, 4)
  BY <1>6, <1>7, <1>8, DigitsMakeNumber, SMT
<1> QED
  BY <1>5, <1>9 DEF e, r

\* A length of which bytes are missing is not read.
LEMMA LengthTorn ==
  ASSUME NEW n \in Nat, NEW k \in 0..Len(encodeRemainingLength(n)),
         k < Len(encodeRemainingLength(n))
  PROVE  decodeRemainingLength(SubSeq(encodeRemainingLength(n), 1, k)) = Failed
<1> DEFINE e == encodeRemainingLength(n)
           r == SubSeq(e, 1, k)
<1>1. /\ e \in Seq(Byte) /\ Len(e) = Size(n) /\ Size(n) \in 1..5
      /\ \A i \in 1..Size(n) : e[i] < 128 <=> i = Size(n)
  BY EncodedLength, SizeOfLength
<1> HIDE DEF e
<1>2. r \in Seq(Byte) /\ Len(r) = k /\ \A i \in 1..k : r[i] = e[i]
  BY <1>1, PrefixProperties DEF e
<1>3. \A i \in 1..k : e[i] \in Byte /\ ~(e[i] < 128)
  BY <1>1, ElementOfSeq DEF e
<1> HIDE DEF r
<1>4. \A i \in 1..4 : i <= Len(r) => r[i] >= 128
  BY <1>2, <1>3, BytesAreNumbers
<1>5. decodeRemainingLength(r) = Failed
  BY <1>2, <1>4, NoLength
<1> QED
  BY <1>5 DEF e, r

\* A body longer than the longest there is, which nothing keeps Publish from
\* sending, is never read: its length takes a fifth byte.
THEOREM LengthTooLong ==
  ASSUME NEW n \in Nat, n > MaxLength, NEW rest \in Seq(Byte)
  PROVE  decodeRemainingLength(encodeRemainingLength(n) \o rest) = Failed
<1> DEFINE e == encodeRemainingLength(n)
           r == e \o rest
<1>1. Size(n) = 5
  BY SizeOfLength
<1>2. /\ e \in Seq(Byte) /\ Len(e) = Size(n)
      /\ \A i \in 1..Size(n) : e[i] < 128 <=> i = Size(n)
  BY EncodedLength
<1>3. r \in Seq(Byte) /\ Len(r) >= Size(n) /\ \A i \in 1..Size(n) : r[i] = e[i]
  BY LengthAhead
<1> HIDE DEF e, r
<1>4. \A i \in 1..4 : e[i] \in Byte /\ ~(e[i] < 128)
  BY <1>1, <1>2, ElementOfSeq
<1>5. \A i \in 1..4 : r[i] = e[i]
  BY <1>1, <1>3
<1>6. \A i \in 1..4 : r[i] >= 128
  BY <1>4, <1>5, BytesAreNumbers
<1>7. decodeRemainingLength(r) = Failed
  BY <1>3, <1>6, NoLength
<1> QED
  BY <1>7 DEF e, r

-----------------------------------------------------------------------------
(* Numbers and strings in a packet *)

\* The 16 bits of an id or of a length.
LEMMA Uint16Survives ==
  ASSUME NEW n \in Nat, n <= MaxUint16
  PROVE  /\ Uint16(n) \in Seq(Byte) /\ Len(Uint16(n)) = 2
         /\ FromUint16(Uint16(n)) = n
<1> DEFINE a == (n \div 256) % 256
           b == n % 256
<1>1. a \in 0..255 /\ b \in 0..255 /\ 256 * a + b = n
  BY SMT DEF MaxUint16
<1>2. Uint16(n) = <<a, b>>
  BY DEF Uint16
<1> HIDE DEF a, b
<1> QED
  BY <1>1, <1>2 DEF Byte, FromUint16

\* io.ReadFull takes exactly what it is asked for.
LEMMA ReadFullTakes ==
  ASSUME NEW s \in Seq(Byte), NEW rest \in Seq(Byte)
  PROVE  ReadFull(s \o rest, Len(s)) = Got(s, rest)
<1> DEFINE r == s \o rest
<1>1. Len(r) = Len(s) + Len(rest) /\ Len(s) \in Nat /\ Len(rest) \in Nat
  BY ConcatProperties, LenProperties
<1>2. SubSeq(r, 1, Len(s)) = s /\ SubSeq(r, Len(s) + 1, Len(r)) = rest
  BY SplitConcat
<1> HIDE DEF r
<1>3. ~(Len(r) < Len(s))
  BY <1>1
<1>4. ReadFull(r, Len(s)) = Got(s, rest)
  BY <1>2, <1>3, Zenon DEF ReadFull
<1> QED
  BY <1>4 DEF r

LEMMA StringWritten ==
  ASSUME NEW s \in Seq(Byte), Len(s) <= MaxUint16
  PROVE  /\ writeString(<<>>, s) = Uint16(Len(s)) \o s
         /\ writeString(<<>>, s) \in Seq(Byte)
         /\ Len(writeString(<<>>, s)) = Len(s) + 2
<1>1. Len(s) \in Nat
  BY LenProperties
<1>2. Uint16(Len(s)) \in Seq(Byte) /\ Len(Uint16(Len(s))) = 2
  BY <1>1, Uint16Survives
<1>3. writeString(<<>>, s) = Uint16(Len(s)) \o s
  BY <1>2, ConcatEmptySeq DEF writeString
<1>4. /\ Uint16(Len(s)) \o s \in Seq(Byte)
      /\ Len(Uint16(Len(s)) \o s) = Len(s) + 2
  <2> DEFINE u == Uint16(Len(s))
  <2> HIDE DEF u
  <2>1. u \o s \in Seq(Byte) /\ Len(u \o s) = Len(u) + Len(s)
    BY <1>2, ConcatProperties DEF u
  <2> QED
    BY <1>1, <1>2, <2>1 DEF u
<1> QED
  BY <1>3, <1>4

\* A string is read as it was written, and no byte of what follows.
LEMMA StringSurvives ==
  ASSUME NEW s \in Seq(Byte), Len(s) <= MaxUint16, NEW rest \in Seq(Byte)
  PROVE  readString(writeString(<<>>, s) \o rest) = Got(s, rest)
<1> DEFINE u == Uint16(Len(s))
           t == s \o rest
<1>1. /\ u \in Seq(Byte) /\ Len(u) = 2 /\ FromUint16(u) = Len(s)
      /\ t \in Seq(Byte)
  BY LenProperties, Uint16Survives, ConcatProperties
<1>2. writeString(<<>>, s) \o rest = u \o t
  <2>1. writeString(<<>>, s) = u \o s
    BY StringWritten
  <2> HIDE DEF u
  <2>2. (u \o s) \o rest = u \o (s \o rest)
    BY <1>1, ConcatAssociative
  <2> QED
    BY <2>1, <2>2
<1>3. ReadFull(t, Len(s)) = Got(s, rest)
  BY ReadFullTakes
<1> HIDE DEF u, t
<1>4. ReadFull(u \o t, Len(u)) = Got(u, t)
  BY <1>1, ReadFullTakes
<1>5. ReadFull(u \o t, 2) = Got(u, t)
  BY <1>1, <1>4
<1>6. readString(u \o t) = ReadFull(t, FromUint16(u))
  <2> DEFINE l == ReadFull(u \o t, 2)
  <2>1. l.ok /\ l.value = u /\ l.rest = t
    BY <1>5, GotFields
  <2> QED
    BY <2>1, Zenon DEF readString
<1>7. readString(u \o t) = Got(s, rest)
  BY <1>1, <1>3, <1>6
<1> QED
  BY <1>2, <1>7

-----------------------------------------------------------------------------
(* Packets *)

IsPacket(kind, flags, body) ==
  kind \in 0..15 /\ flags \in 0..15 /\ body \in Seq(Byte) /\ Len(body) <= MaxLength

Header(kind, flags) == <<16 * kind + flags>>

Behind(kind, flags, r) == Header(kind, flags) \o r

\* The first byte of a packet and the others.
LEMMA FirstByte ==
  ASSUME NEW kind \in 0..15, NEW flags \in 0..15, NEW r \in Seq(Byte)
  PROVE  /\ Header(kind, flags) \o r \in Seq(Byte)
         /\ Len(Header(kind, flags) \o r) = Len(r) + 1
         /\ Header(kind, flags) \o r # <<>>
         /\ Tail(Header(kind, flags) \o r) = r
         /\ (Header(kind, flags) \o r)[1] \div 16 = kind
         /\ (Header(kind, flags) \o r)[1] % 16 = flags
<1> DEFINE h == 16 * kind + flags
<1>1. h \in Byte /\ h \div 16 = kind /\ h % 16 = flags
  BY SMT DEF Byte
<1> HIDE DEF h
<1>2. <<h>> \in Seq(Byte) /\ Len(<<h>>) = 1 /\ Len(r) \in Nat
  BY <1>1, LenProperties
<1>3. /\ <<h>> \o r \in Seq(Byte) /\ Len(<<h>> \o r) = Len(r) + 1
      /\ (<<h>> \o r)[1] = h
  BY <1>2, ConcatProperties
<1>4. <<h>> \o r # <<>>
  BY <1>2, <1>3, EmptySeq
<1>5. Tail(<<h>> \o r) = r
  BY <1>2, <1>3, <1>4, TailIsSubSeq, SplitConcat
<1> QED
  BY <1>1, <1>3, <1>4, <1>5 DEF h, Header

LEMMA PacketWritten ==
  ASSUME NEW kind, NEW flags, NEW body, IsPacket(kind, flags, body)
  PROVE  LET e == encodeRemainingLength(Len(body))
         IN /\ e \in Seq(Byte)
            /\ writePacket(kind, flags, body) =
                 Header(kind, flags) \o (e \o body)
            /\ writePacket(kind, flags, body) \in Seq(Byte)
<1> DEFINE e == encodeRemainingLength(Len(body))
           h == Header(kind, flags)
<1>1. Len(body) \in Nat /\ body \in Seq(Byte)
  BY LenProperties DEF IsPacket
<1>2. e \in Seq(Byte)
  BY <1>1, EncodedLength
<1>3. h \in Seq(Byte)
  BY SMT DEF IsPacket, Byte, Header
<1>4. writePacket(kind, flags, body) = (h \o e) \o body
  BY DEF writePacket, Header
<1> HIDE DEF e, h
<1>5. writePacket(kind, flags, body) = h \o (e \o body)
  BY <1>1, <1>2, <1>3, <1>4, ConcatAssociative
<1>6. writePacket(kind, flags, body) \in Seq(Byte) /\ e \o body \in Seq(Byte)
  BY <1>1, <1>2, <1>3, <1>5, ConcatProperties
<1> QED
  BY <1>2, <1>5, <1>6 DEF e, h

\* A packet and what follows it.
LEMMA PacketAhead ==
  ASSUME NEW kind, NEW flags, NEW body, NEW rest \in Seq(Byte),
         IsPacket(kind, flags, body)
  PROVE  writePacket(kind, flags, body) \o rest =
           Behind(kind, flags, encodeRemainingLength(Len(body)) \o (body \o rest))
<1> DEFINE e == encodeRemainingLength(Len(body))
           h == Header(kind, flags)
<1>1. e \in Seq(Byte) /\ writePacket(kind, flags, body) = h \o (e \o body)
  BY PacketWritten
<1>2. h \in Seq(Byte) /\ body \in Seq(Byte)
  BY SMT DEF IsPacket, Byte, Header
<1> HIDE DEF e, h
<1>3. e \o body \in Seq(Byte)
  BY <1>1, <1>2, ConcatProperties
<1>4. (h \o (e \o body)) \o rest = h \o ((e \o body) \o rest)
  BY <1>2, <1>3, BytesAssociate
<1>5. (e \o body) \o rest = e \o (body \o rest)
  BY <1>1, <1>2, BytesAssociate
<1>6. writePacket(kind, flags, body) \o rest = h \o (e \o (body \o rest))
  BY <1>1, <1>4, <1>5
<1> QED
  BY <1>6 DEF e, h, Behind

\* How readPacket goes on from the length and from the body.
LEMMA ReadPacketSteps ==
  ASSUME NEW r, r # <<>>
  PROVE  /\ decodeRemainingLength(Tail(r)) = Failed => readPacket(r) = Failed
         /\ \A n, x : decodeRemainingLength(Tail(r)) = Got(n, x) =>
              /\ ReadFull(x, n) = Failed => readPacket(r) = Failed
              /\ \A b, y : ReadFull(x, n) = Got(b, y) =>
                   readPacket(r) = Got([kind |-> r[1] \div 16,
                                        flags |-> r[1] % 16, body |-> b], y)
<1> DEFINE l == decodeRemainingLength(Tail(r))
           d == IF l.ok THEN ReadBody(l.rest, l.value) ELSE Failed
<1>1. readPacket(r) = IF d.ok
                      THEN Got([kind |-> r[1] \div 16, flags |-> r[1] % 16,
                                body |-> d.value], d.rest)
                      ELSE Failed
  BY Zenon DEF readPacket
<1>2. l = Failed => d = Failed
  BY GotFields, Zenon
<1>3. ASSUME NEW n, NEW x, l = Got(n, x) PROVE d = ReadFull(x, n)
  <2>1. l.ok /\ l.value = n /\ l.rest = x
    BY <1>3, GotFields
  <2> QED
    BY <2>1, Zenon DEF ReadBody
<1> HIDE DEF l, d
<1>4. d = Failed => readPacket(r) = Failed
  BY <1>1, GotFields
<1>5. ASSUME NEW b, NEW y, d = Got(b, y)
      PROVE  readPacket(r) = Got([kind |-> r[1] \div 16, flags |-> r[1] % 16,
                                  body |-> b], y)
  <2>1. d.ok /\ d.value = b /\ d.rest = y
    BY <1>5, GotFields
  <2> QED
    BY <1>1, <2>1, Zenon
<1> QED
  BY <1>2, <1>3, <1>4, <1>5, Zenon DEF l

\* readPacket gets back every packet writePacket was given and takes no byte of
\* the next one.
THEOREM PacketSurvives ==
  ASSUME NEW kind, NEW flags, NEW body, NEW rest \in Seq(Byte),
         IsPacket(kind, flags, body)
  PROVE  readPacket(writePacket(kind, flags, body) \o rest) =
           Got([kind |-> kind, flags |-> flags, body |-> body], rest)
<1> DEFINE e == encodeRemainingLength(Len(body))
           t == e \o (body \o rest)
           r == Header(kind, flags) \o t
<1>1. /\ kind \in 0..15 /\ flags \in 0..15 /\ body \in Seq(Byte)
      /\ Len(body) \in Nat /\ Len(body) <= MaxLength
  BY LenProperties DEF IsPacket
<1>2. writePacket(kind, flags, body) \o rest = r
  <2>1. writePacket(kind, flags, body) \o rest = Behind(kind, flags, t)
    BY PacketAhead
  <2> HIDE DEF t
  <2> QED
    BY <2>1 DEF Behind
<1>3. body \o rest \in Seq(Byte)
  BY <1>1, ConcatProperties
<1>4. t \in Seq(Byte)
  <2>1. e \in Seq(Byte)
    BY PacketWritten
  <2> HIDE DEF e
  <2> QED
    BY <1>3, <2>1, BytesConcat
<1>5. decodeRemainingLength(t) = Got(Len(body), body \o rest)
  BY <1>1, <1>3, LengthSurvives
<1>6. ReadFull(body \o rest, Len(body)) = Got(body, rest)
  BY <1>1, ReadFullTakes
<1> HIDE DEF t
<1>7. r # <<>> /\ Tail(r) = t /\ r[1] \div 16 = kind /\ r[1] % 16 = flags
  BY <1>1, <1>4, FirstByte
<1> HIDE DEF r
<1>8. readPacket(r) = Got([kind |-> r[1] \div 16, flags |-> r[1] % 16,
                           body |-> body], rest)
  BY <1>5, <1>6, <1>7, ReadPacketSteps, Zenon
<1> QED
  BY <1>2, <1>7, <1>8

\* A packet of which bytes are missing, in its length or in its body, is not
\* read.
THEOREM PacketTorn ==
  ASSUME NEW kind, NEW flags, NEW body, IsPacket(kind, flags, body),
         NEW k \in Nat, k < Len(writePacket(kind, flags, body))
  PROVE  readPacket(SubSeq(writePacket(kind, flags, body), 1, k)) = Failed
<1> DEFINE e == encodeRemainingLength(Len(body))
           t == e \o body
           h == Header(kind, flags)
           p == writePacket(kind, flags, body)
           r == SubSeq(p, 1, k)
<1>1. /\ kind \in 0..15 /\ flags \in 0..15 /\ body \in Seq(Byte)
      /\ Len(body) \in Nat /\ Len(body) <= MaxLength
  BY LenProperties DEF IsPacket
<1>2. p = h \o t /\ e \in Seq(Byte)
  BY PacketWritten
<1>3. t \in Seq(Byte) /\ Len(t) = Len(e) + Len(body) /\ Len(e) \in Nat
  <2> HIDE DEF e
  <2> QED
    BY <1>1, <1>2, ConcatProperties, LenProperties
<1>4. h \in Seq(Byte) /\ Len(h) = 1
  BY <1>1, SMT DEF Byte, Header
<1>5. CASE k = 0
  <2>1. r = <<>>
    BY <1>5, SubSeqEmpty
  <2> QED
    BY <2>1 DEF readPacket
<1>6. CASE k > 0
  <2> DEFINE u == SubSeq(t, 1, k - 1)
  <2>1. r = h \o u /\ k - 1 \in 0..Len(t) /\ k - 1 < Len(t)
    <3> HIDE DEF h, t, p
    <3>1. Len(h \o t) = 1 + Len(t) /\ Len(t) \in Nat
      BY <1>3, <1>4, BytesConcat
    <3>2. k < Len(h \o t)
      BY <1>2 DEF p
    <3>3. SubSeq(h \o t, 1, k) = h \o SubSeq(t, 1, k - Len(h))
      <4>1. k <= Len(h) + Len(t) /\ k >= Len(h)
        BY <1>4, <1>6, <3>1, <3>2
      <4> QED
        BY <1>3, <1>4, <4>1, BytesPrefixOfConcat
    <3> QED
      BY <1>2, <1>4, <1>6, <3>1, <3>2, <3>3
  <2>2. u \in Seq(Byte)
    <3> HIDE DEF t
    <3> QED
      BY <1>3, <2>1, PrefixProperties
  <2>3. r # <<>> /\ Tail(r) = u
    <3> HIDE DEF r, u
    <3> QED
      BY <1>1, <2>1, <2>2, FirstByte
  <2>4. CASE k - 1 < Len(e)
    <3>1. u = SubSeq(e, 1, k - 1)
      <4> HIDE DEF e
      <4> QED
        BY <1>1, <1>2, <2>1, <2>4, PrefixOfConcat
    <3>2. decodeRemainingLength(u) = Failed
      <4>1. k - 1 \in 0..Len(e)
        BY <1>3, <1>6, <2>4
      <4> QED
        BY <1>1, <2>4, <3>1, <4>1, LengthTorn
    <3> QED
      BY <2>3, <3>2, ReadPacketSteps, Zenon
  <2>5. CASE k - 1 >= Len(e)
    <3> DEFINE b == SubSeq(body, 1, k - 1 - Len(e))
    <3>1. u = e \o b
      <4> HIDE DEF e
      <4> QED
        BY <1>1, <1>2, <2>1, <2>5, PrefixOfConcat
    <3>2. b \in Seq(Byte) /\ Len(b) < Len(body)
      <4>1. k - 1 - Len(e) \in 0..Len(body) /\ k - 1 - Len(e) < Len(body)
        BY <1>1, <1>3, <2>1, <2>5
      <4> HIDE DEF e
      <4> QED
        BY <1>1, <4>1, PrefixProperties
    <3> HIDE DEF b
    <3>3. decodeRemainingLength(u) = Got(Len(body), b)
      BY <1>1, <3>1, <3>2, LengthSurvives
    <3>4. ReadFull(b, Len(body)) = Failed
      BY <3>2 DEF ReadFull
    <3> QED
      BY <2>3, <3>3, <3>4, ReadPacketSteps, Zenon
  <2> QED
    BY <1>3, <1>6, <2>4, <2>5
<1> QED
  BY <1>5, <1>6

-----------------------------------------------------------------------------
(* Streams of packets *)

AllPackets == {p \in [kind : 0..15, flags : 0..15, body : Seq(Byte)] :
                 Len(p.body) <= MaxLength}

LEMMA AllPacketsArePackets ==
  ASSUME NEW p \in AllPackets
  PROVE  /\ IsPacket(p.kind, p.flags, p.body)
         /\ p = [kind |-> p.kind, flags |-> p.flags, body |-> p.body]
BY DEF AllPackets, IsPacket

LEMMA PacketsAreInAllPackets ==
  ASSUME NEW kind, NEW flags, NEW body, IsPacket(kind, flags, body)
  PROVE  [kind |-> kind, flags |-> flags, body |-> body] \in AllPackets
BY DEF AllPackets, IsPacket

LEMMA PacketRead ==
  ASSUME NEW p \in AllPackets, NEW rest \in Seq(Byte)
  PROVE  readPacket(writePacket(p.kind, p.flags, p.body) \o rest) = Got(p, rest)
<1>1. /\ IsPacket(p.kind, p.flags, p.body)
      /\ p = [kind |-> p.kind, flags |-> p.flags, body |-> p.body]
  BY AllPacketsArePackets
<1>2. readPacket(writePacket(p.kind, p.flags, p.body) \o rest) =
        Got([kind |-> p.kind, flags |-> p.flags, body |-> p.body], rest)
  BY <1>1, PacketSurvives
<1> QED
  BY <1>1, <1>2, Zenon

\* A packet with nothing behind it.
LEMMA LastPacket ==
  ASSUME NEW p \in AllPackets
  PROVE  readPacket(writePacket(p.kind, p.flags, p.body)) = Got(p, <<>>)
<1> DEFINE w == writePacket(p.kind, p.flags, p.body)
<1>1. <<>> \in Seq(Byte)
  OBVIOUS
<1>2. readPacket(w \o <<>>) = Got(p, <<>>)
  BY <1>1, PacketRead
<1>3. w \in Seq(Byte)
  BY AllPacketsArePackets, PacketWritten
<1> HIDE DEF w
<1>4. w \o <<>> = w
  BY <1>3, ConcatEmptySeq
<1>5. readPacket(w) = Got(p, <<>>)
  BY <1>2, <1>4
<1> QED
  BY <1>5 DEF w

LEMMA PacketByPacket ==
  ASSUME NEW F, NEW S
  PROVE  NoTornPacket(F, S) <=> \A p \in F, q \in S : NoTornPacket({p}, {q})
<1> DEFINE
      Whole(p, q) ==
        LET first  == writePacket(p.kind, p.flags, p.body)
            second == writePacket(q.kind, q.flags, q.body)
            stream == first \o second
        IN \A k \in 0..Len(stream) :
             LET got  == readPacket(SubSeq(stream, 1, k))
                 next == readPacket(got.rest)
             IN IF k < Len(first) THEN got = Failed
                ELSE /\ got.ok /\ got.value = p
                     /\ next = IF k < Len(stream) THEN Failed ELSE Got(q, <<>>)
<1>1. \A A, B : NoTornPacket(A, B) <=> \A p \in A, q \in B : Whole(p, q)
  BY Zenon DEF NoTornPacket
<1> HIDE DEF Whole
<1> QED
  BY <1>1

\* Wherever a connection breaks in the bytes of two packets, the packets that
\* had arrived whole are read as they were written, and nothing else is: no
\* part of a packet is taken for one, and none eats into the next.
THEOREM NoPacketTorn == NoTornPacket(AllPackets, AllPackets)
<1> SUFFICES ASSUME NEW p \in AllPackets, NEW q \in AllPackets
             PROVE  NoTornPacket({p}, {q})
  BY PacketByPacket
<1> DEFINE first  == writePacket(p.kind, p.flags, p.body)
           second == writePacket(q.kind, q.flags, q.body)
           stream == first \o second
<1>1. first \in Seq(Byte) /\ second \in Seq(Byte)
  BY AllPacketsArePackets, PacketWritten
<1>2. \A k \in Nat : k < Len(first) => readPacket(SubSeq(first, 1, k)) = Failed
  BY AllPacketsArePackets, PacketTorn
<1>3. \A k \in Nat : k < Len(second) => readPacket(SubSeq(second, 1, k)) = Failed
  BY AllPacketsArePackets, PacketTorn
<1>4. \A r \in Seq(Byte) : readPacket(first \o r) = Got(p, r)
  BY PacketRead
<1>5. readPacket(second) = Got(q, <<>>)
  BY LastPacket
<1> SUFFICES ASSUME NEW k \in 0..Len(stream)
             PROVE  LET got  == readPacket(SubSeq(stream, 1, k))
                        next == readPacket(got.rest)
                    IN IF k < Len(first) THEN got = Failed
                       ELSE /\ got.ok /\ got.value = p
                            /\ next = IF k < Len(stream) THEN Failed
                                      ELSE Got(q, <<>>)
  BY DEF NoTornPacket
<1> HIDE DEF first, second
<1>6. /\ Len(first) \in Nat /\ Len(second) \in Nat
      /\ Len(stream) = Len(first) + Len(second)
      /\ k \in Nat /\ k <= Len(stream)
  BY <1>1, BytesConcat
<1>7. CASE k < Len(first)
  <2>1. SubSeq(stream, 1, k) = SubSeq(first, 1, k)
    BY <1>1, <1>6, <1>7, BytesPrefixOfConcat
  <2> HIDE DEF stream
  <2>2. readPacket(SubSeq(stream, 1, k)) = Failed
    BY <1>2, <1>6, <1>7, <2>1
  <2> QED
    BY <1>7, <2>2
<1>8. CASE k >= Len(first)
  <2> DEFINE r   == SubSeq(second, 1, k - Len(first))
             got == readPacket(SubSeq(stream, 1, k))
  <2>1. SubSeq(stream, 1, k) = first \o r
    BY <1>1, <1>6, <1>8, BytesPrefixOfConcat
  <2>2. r \in Seq(Byte)
    BY <1>1, <1>6, <1>8, BytesPrefix
  <2> HIDE DEF stream, r
  <2>3. got = Got(p, r)
    BY <1>4, <2>1, <2>2
  <2>4. got.ok /\ got.value = p /\ got.rest = r
    BY <2>3, GotFields
  <2>5. CASE k < Len(stream)
    <3>1. k - Len(first) \in Nat /\ k - Len(first) < Len(second)
      BY <1>6, <1>8, <2>5
    <3>2. readPacket(r) = Failed
      BY <1>3, <3>1 DEF r
    <3> QED
      BY <1>6, <1>8, <2>4, <2>5, <3>2
  <2>6. CASE k = Len(stream)
    <3>1. k - Len(first) = Len(second)
      BY <1>6, <2>6
    <3>2. r = second
      BY <1>1, <3>1, SubSeqFull DEF r
    <3>3. readPacket(r) = Got(q, <<>>)
      BY <1>5, <3>2
    <3> QED
      BY <1>6, <1>8, <2>4, <2>6, <3>3
  <2> QED
    BY <1>6, <2>5, <2>6
<1> QED
  BY <1>6, <1>7, <1>8

-----------------------------------------------------------------------------
(* What Publish, handlePublish and readLoop put in and take out *)

LEMMA PublishFlags ==
  ASSUME NEW f \in {2, 10}
  PROVE  f \in 0..15 /\ (f \div 2) % 4 = 1
BY SMT

\* How handlePublish goes on from the topic and from the id.
LEMMA ParseSteps ==
  ASSUME NEW pkt, NEW t, NEW r, NEW u, NEW y,
         readString(pkt.body) = Got(t, r), (pkt.flags \div 2) % 4 = 1,
         ReadFull(r, 2) = Got(u, y)
  PROVE  parsePublish(pkt) = Got([topic |-> t, qos |-> 1, id |-> FromUint16(u)], y)
<1> DEFINE l    == readString(pkt.body)
           qos  == (pkt.flags \div 2) % 4
           acks == IF ~l.ok THEN Failed
                   ELSE IF qos > 0 THEN ReadFull(l.rest, 2)
                                   ELSE Got(<<0, 0>>, l.rest)
<1>1. l.ok /\ l.value = t /\ l.rest = r
  BY GotFields
<1>2. qos = 1 /\ qos > 0
  OBVIOUS
<1>3. parsePublish(pkt) =
        IF acks.ok
        THEN Got([topic |-> l.value, qos |-> qos, id |-> FromUint16(acks.value)],
                 acks.rest)
        ELSE Failed
  BY Zenon DEF parsePublish
<1> HIDE DEF l, qos
<1>4. acks = Got(u, y)
  BY <1>1, <1>2, Zenon
<1>5. acks.ok /\ acks.value = u /\ acks.rest = y
  BY <1>4, GotFields
<1> HIDE DEF acks
<1> QED
  BY <1>1, <1>2, <1>3, <1>5, Zenon

\* The body of a PUBLISH falls apart into the topic, the id and the payload.
LEMMA PublishBody ==
  ASSUME NEW i \in Nat, i <= MaxUint16, NEW t \in Seq(Byte), Len(t) <= MaxUint16,
         NEW y \in Seq(Byte)
  PROVE  LET b == writeString(<<>>, t) \o Uint16(i) \o y
         IN /\ b \in Seq(Byte) /\ Len(b) = Len(t) + 4 + Len(y)
            /\ \E r \in Seq(Byte) : /\ readString(b) = Got(t, r)
                                    /\ ReadFull(r, 2) = Got(Uint16(i), y)
<1> DEFINE s == writeString(<<>>, t)
           u == Uint16(i)
           b == s \o u \o y
<1>1. s \in Seq(Byte) /\ Len(s) = Len(t) + 2 /\ Len(t) \in Nat
  BY StringWritten, LenProperties
<1>2. u \in Seq(Byte) /\ Len(u) = 2
  BY Uint16Survives
<1>3. \A r \in Seq(Byte) : readString(s \o r) = Got(t, r)
  BY StringSurvives
<1> HIDE DEF s, u
<1>4. s \o u \in Seq(Byte) /\ Len(s \o u) = Len(t) + 4
  <2>1. s \o u \in Seq(Byte) /\ Len(s \o u) = Len(s) + Len(u)
    BY <1>1, <1>2, BytesConcat
  <2> QED
    BY <1>1, <1>2, <2>1
<1>5. u \o y \in Seq(Byte) /\ b = s \o (u \o y)
  BY <1>1, <1>2, BytesConcat, BytesAssociate
<1>6. b \in Seq(Byte) /\ Len(b) = Len(t) + 4 + Len(y)
  BY <1>4, BytesConcat
<1>7. readString(b) = Got(t, u \o y)
  BY <1>3, <1>5
<1>8. ReadFull(u \o y, Len(u)) = Got(u, y)
  BY <1>2, ReadFullTakes
<1>9. ReadFull(u \o y, 2) = Got(u, y)
  BY <1>2, <1>8
<1> QED
  BY <1>5, <1>6, <1>7, <1>9 DEF s, u

\* handlePublish gets back the topic, the id and the payload Publish put in,
\* first try and retry, whatever they are, as long as the topic's length has 16
\* bits and the packet is not longer than a packet can be.
THEOREM PublishUnderstood ==
  ASSUME NEW i \in Nat, i <= MaxUint16, NEW t \in Seq(Byte), Len(t) <= MaxUint16,
         NEW y \in Seq(Byte), Len(t) + 4 + Len(y) <= MaxLength
  PROVE  PublishSurvives({i}, {t}, {y})
<1> SUFFICES ASSUME NEW dup \in BOOLEAN
             PROVE  LET p == buildPublish(i, t, y, 1, dup)
                        r == readPacket(writePacket(PUBLISH, p.flags, p.body))
                    IN /\ r.ok /\ r.value.kind = PUBLISH /\ r.rest = <<>>
                       /\ parsePublish(r.value) =
                            Got([topic |-> t, qos |-> 1, id |-> i], y)
  BY DEF PublishSurvives
<1> DEFINE b == writeString(<<>>, t) \o Uint16(i) \o y
           f == 2 + (IF dup THEN 8 ELSE 0)
           p == buildPublish(i, t, y, 1, dup)
           q == [kind |-> PUBLISH, flags |-> f, body |-> b]
           r == readPacket(writePacket(PUBLISH, p.flags, p.body))
<1>1. p.flags = f /\ p.body = b
  BY DEF buildPublish
<1>2. f \in {2, 10}
  OBVIOUS
<1>3. f \in 0..15 /\ (f \div 2) % 4 = 1
  BY <1>2, PublishFlags
<1>4. /\ b \in Seq(Byte) /\ Len(b) = Len(t) + 4 + Len(y)
      /\ \E x \in Seq(Byte) : /\ readString(b) = Got(t, x)
                              /\ ReadFull(x, 2) = Got(Uint16(i), y)
  BY PublishBody
<1>5. FromUint16(Uint16(i)) = i
  BY Uint16Survives
<1> HIDE DEF b, f, p
<1>6. q \in AllPackets
  <2>1. IsPacket(PUBLISH, f, b)
    BY <1>3, <1>4 DEF IsPacket, PUBLISH
  <2> QED
    BY <2>1, PacketsAreInAllPackets
<1>7. readPacket(writePacket(q.kind, q.flags, q.body)) = Got(q, <<>>)
  BY <1>6, LastPacket
<1>8. q.kind = PUBLISH /\ q.flags = f /\ q.body = b
  OBVIOUS
<1> HIDE DEF q
<1>9. r = Got(q, <<>>)
  BY <1>1, <1>7, <1>8, Zenon
<1>10. r.ok /\ r.value = q /\ r.rest = <<>>
  BY <1>9, GotFields
<1>11. parsePublish(q) = Got([topic |-> t, qos |-> 1, id |-> i], y)
  <2>1. PICK x \in Seq(Byte) : /\ readString(b) = Got(t, x)
                               /\ ReadFull(x, 2) = Got(Uint16(i), y)
    BY <1>4
  <2>2. readString(q.body) = Got(t, x) /\ (q.flags \div 2) % 4 = 1
    BY <1>3, <1>8, <2>1, Zenon
  <2>3. parsePublish(q) =
          Got([topic |-> t, qos |-> 1, id |-> FromUint16(Uint16(i))], y)
    BY <2>1, <2>2, ParseSteps
  <2> QED
    BY <1>5, <2>3, Zenon
<1> HIDE DEF r
<1> QED
  BY <1>8, <1>10, <1>11, Zenon DEF p, r

\* readLoop gets back the id that buildPuback put in.
THEOREM PubackUnderstood ==
  ASSUME NEW i \in Nat, i <= MaxUint16
  PROVE  PubackSurvives(i)
<1> DEFINE q == [kind |-> PUBACK, flags |-> 0, body |-> Uint16(i)]
           r == readPacket(writePacket(PUBACK, 0, buildPuback(i)))
<1>1. /\ Uint16(i) \in Seq(Byte) /\ Len(Uint16(i)) = 2
      /\ FromUint16(Uint16(i)) = i
  BY Uint16Survives
<1>2. 2 <= MaxLength
  BY SMT DEF MaxLength
<1>3. q \in AllPackets
  <2>1. IsPacket(PUBACK, 0, Uint16(i))
    BY <1>1, <1>2 DEF IsPacket, PUBACK
  <2> QED
    BY <2>1, PacketsAreInAllPackets
<1>4. readPacket(writePacket(q.kind, q.flags, q.body)) = Got(q, <<>>)
  BY <1>3, LastPacket
<1>5. q.kind = PUBACK /\ q.flags = 0 /\ q.body = Uint16(i)
  OBVIOUS
<1> HIDE DEF q
<1>6. r = Got(q, <<>>)
  BY <1>4, <1>5, Zenon DEF buildPuback
<1>7. r.ok /\ r.value = q
  BY <1>6, GotFields
<1> QED
  BY <1>1, <1>5, <1>7, Zenon DEF PubackSurvives

=============================================================================
