------------------------------- MODULE Encoders -------------------------------
(***************************************************************************)
(* The two packet encoders: NdnTlvEncoder, on the TLV encoder and decoder  *)
(* of pyndn, and SimpleStringEncoder.  A wire format is a sequence of      *)
(* bytes, a name a sequence of components, a component a sequence of       *)
(* bytes.  Names have no digest; the nonce of an interest and the          *)
(* signature of data are zeroes, as no decoder looks at them.              *)
(***************************************************************************)
EXTENDS Integers, SequencesExt, FiniteSetsExt

(* The reasons of a Nack are their wire values.                            *)
NoReason == 0
NackReason == {NoReason, 50, 100, 150} \cup 160 .. 167

(* A packet that was not received has no wire format.                      *)
Interest(name) == [type |-> "interest", name |-> name, wire |-> << >>]
Content(name, payload) ==
    [type |-> "content", name |-> name, payload |-> payload, wire |-> << >>]
Nack(name, reason, interest) ==
    [type |-> "nack", name |-> name, reason |-> reason, interest |-> interest, wire |-> << >>]
UnknownPacket(wire) == [type |-> "unknown", wire |-> wire]
NoInterest == UnknownPacket(<< >>)

Received(p, wire) == [p EXCEPT !.wire = wire]

-----------------------------------------------------------------------------
(* TlvEncoder *)

Zeroes(count) == [i \in 1 .. count |-> 0]
Bytes(n, count) == [i \in 1 .. count |-> (n \div 256 ^ (count - i)) % 256]

(* Mutant of VarNumber: 253 is not taken for a mark. *)
VarNumberShort(n) ==
    CASE n <= 253 -> <<n>>
      [] n >= 254 /\ n <= 65535 -> <<253>> \o Bytes(n, 2)
      [] OTHER -> <<254>> \o Bytes(n, 4)

(* Numbers of five bytes and more need a packet larger than 65,535 bytes.  *)
VarNumber(n) ==
    CASE n < 253 -> <<n>>
      [] n >= 253 /\ n <= 65535 -> <<253>> \o Bytes(n, 2)
      [] OTHER -> <<254>> \o Bytes(n, 4)

BlobTlv(type, value) == VarNumber(type) \o VarNumber(Len(value)) \o value

(* NdnTlvEncoder.encode *)

NameTlv(name) == BlobTlv(7, FlattenSeq([i \in DOMAIN name |-> BlobTlv(8, name[i])]))
InterestTlv(name) == BlobTlv(5, NameTlv(name) \o BlobTlv(10, Zeroes(4)))
DataTlv(name, payload) ==
    BlobTlv(6, NameTlv(name) \o BlobTlv(20, << >>) \o BlobTlv(21, payload)
               \o BlobTlv(22, <<27, 1, 0>>) \o BlobTlv(23, Zeroes(32)))

(* The name of a Nack goes on the wire as that of its interest.            *)
NackTlv(reason, interest) ==
    LET fragment == IF interest.wire = << >> THEN InterestTlv(interest.name) ELSE interest.wire
        cause == IF reason = NoReason THEN << >> ELSE BlobTlv(801, VarNumber(reason))
    IN  BlobTlv(100, BlobTlv(800, cause) \o BlobTlv(80, fragment))

(* A packet that was received goes out as it came.                         *)
EncodedTlv(p) ==
    CASE p.wire # << >> -> p.wire
      [] p.wire = << >> /\ p.type = "interest" -> InterestTlv(p.name)
      [] p.wire = << >> /\ p.type = "content" -> DataTlv(p.name, p.payload)
      [] p.wire = << >> /\ p.type = "nack" -> NackTlv(p.reason, p.interest)

-----------------------------------------------------------------------------
(* TlvDecoder: a number is read at an offset, with what follows it.  Every *)
(* way to fail is an exception, which decode turns into UnknownPacket.     *)

NoNumber == [n |-> -1, next |-> 0]

Number(bytes) ==
    LET n[k \in 0 .. Len(bytes)] == IF k = 0 THEN 0 ELSE n[k - 1] * 256 + bytes[k]
    IN  n[Len(bytes)]

(* A number of four bytes may be too large for a packet, one of eight is.  *)
ReadNumber(in, at) ==
    LET first == in[at]
        count == IF first = 253 THEN 2 ELSE 4
    IN  CASE at \notin DOMAIN in -> NoNumber
          [] at \in DOMAIN in /\ first < 253 -> [n |-> first, next |-> at + 1]
          [] OTHER ->
                IF at + count > Len(in) \/ first = 255 \/ (first = 254 /\ in[at + 1] > 127)
                THEN NoNumber
                ELSE [n |-> Number(SubSeq(in, at + 1, at + count)), next |-> at + count + 1]

(* readTypeAndLength: where the value starts, and where it ends.           *)
NoValue == [start |-> 0, end |-> 0]

Extent(in, length) ==
    IF length = NoNumber \/ length.next + length.n > Len(in) + 1 THEN NoValue
    ELSE [start |-> length.next, end |-> length.next + length.n]

ReadTypeAndLength(in, at, type) ==
    LET t == ReadNumber(in, at)
    IN  IF t.n = type THEN Extent(in, ReadNumber(in, t.next)) ELSE NoValue

Value(in, v) == SubSeq(in, v.start, v.end - 1)

(* NdnTlvEncoder.decode *)

(* Components of any type are read until the end of the name, which the    *)
(* last one must meet.                                                     *)
NoName == [name |-> << >>, next |-> 0]

DecodedName(in, at) ==
    LET start == ReadTypeAndLength(in, at, 7)
        name[o \in 1 .. Len(in) + 1] ==
            LET c == ReadTypeAndLength(in, o, ReadNumber(in, o).n) IN
            CASE o = start.end -> [name |-> << >>, next |-> o]
              [] o > start.end -> NoName
              [] OTHER ->
                    IF c = NoValue \/ name[c.end] = NoName THEN NoName
                    ELSE [name |-> <<Value(in, c)>> \o name[c.end].name,
                          next |-> name[c.end].next]
    IN  IF start = NoValue THEN NoName ELSE name[start.start]

DecodedInterest(in) ==
    LET i == ReadTypeAndLength(in, 1, 5) IN
    IF i = NoValue THEN NoName ELSE DecodedName(in, i.start)

DecodedData(in) ==
    LET d == ReadTypeAndLength(in, 1, 6)
        n == DecodedName(in, d.start)
        info == ReadTypeAndLength(in, n.next, 20)
        payload == ReadTypeAndLength(in, info.end, 21)
    IN  IF NoValue \in {d, info, payload} \/ n = NoName THEN UnknownPacket(in)
        ELSE Received(Content(n.name, Value(in, payload)), in)

(* The interest is looked for at offset 13, where it is if every length    *)
(* takes one byte and a reason is given.  A number that stands for no      *)
(* reason is an error, unlike a reason that is not there.                  *)
DecodedNack(in) ==
    LET n == DecodedInterest(SubSeq(in, 14, Len(in)))
        header == ReadTypeAndLength(in, 1, 100)
        nack == ReadTypeAndLength(in, header.start, 800)
        cause == ReadTypeAndLength(in, nack.start, 801)
        reason == IF cause = NoValue THEN NoReason ELSE ReadNumber(in, cause.start).n
    IN  IF NoValue \in {header, nack} \/ n = NoName \/ reason \notin NackReason
        THEN UnknownPacket(in)
        ELSE Received(Nack(n.name, reason, NoInterest), in)

IsNack(in) == Len(in) >= 5 /\ in[1] = 100 /\ in[4] = 3 /\ in[5] = 32

(* is_content, is_interest *)
HasType(in, type) == in # << >> /\ in[1] = type

DecodedTlv(in) ==
    LET interest == DecodedInterest(in)
    IN  CASE HasType(in, 6) -> DecodedData(in)
          [] HasType(in, 5) /\ interest # NoName -> Received(Interest(interest.name), in)
          [] IsNack(in) -> DecodedNack(in)
          [] OTHER -> UnknownPacket(in)
-----------------------------------------------------------------------------
(* SimpleStringEncoder: I:name: and C:name::payload and N:name::reason,    *)
(* with %2F for a slash within a component and %58 for a colon within the  *)
(* payload.  A reason stands for its text.                                 *)

Slash == <<47>>
Colon == <<58>>
EscapedSlash == <<37, 50, 70>>
EscapedColon == <<37, 53, 56>>

Replaced(new, old, string) ==
    LET after(i) == i + Len(old)
        from[i \in 1 .. Len(string) + 1] ==
            CASE i > Len(string) -> << >>
              [] after(i) - 1 <= Len(string) /\ SubSeq(string, i, after(i) - 1) = old ->
                    new \o from[after(i)]
              [] OTHER -> <<string[i]>> \o from[i + 1]
    IN  from[1]

Split(string, separator) ==
    LET cuts == {0, Len(string) + 1} \cup {i \in DOMAIN string : <<string[i]>> = separator}
        cut(k) == CHOOSE i \in cuts : Cardinality({j \in cuts : j < i}) = k - 1
    IN  [k \in 1 .. Cardinality(cuts) - 1 |-> SubSeq(string, cut(k) + 1, cut(k + 1) - 1)]

(* The empty name is written like the name with one empty component.       *)
NameString(name) ==
    IF name = << >> THEN Slash ELSE
    FlattenSeq([i \in DOMAIN name |->
                   Slash \o Replaced(EscapedSlash, Slash, name[i])])

StringName(string) ==
    LET components == Tail(Split(string, Slash)) IN
    [i \in DOMAIN components |-> Replaced(Slash, EscapedSlash, components[i])]

EncodedString(p) ==
    CASE p.type = "interest" -> <<73>> \o Colon \o NameString(p.name) \o Colon
      [] p.type = "content" -> <<67>> \o Colon \o NameString(p.name) \o Colon \o Colon
                               \o Replaced(EscapedColon, Colon, p.payload)
      [] p.type = "nack" -> <<78>> \o Colon \o NameString(p.name) \o Colon \o Colon
                            \o <<p.reason>>
      [] p.type = "unknown" -> p.wire

DecodedString(string) ==
    LET field == Split(string, Colon)
        name == StringName(field[2])
    IN  CASE string[1] = 73 -> Interest(name)
          [] string[1] = 67 -> Content(name, Replaced(Colon, EscapedColon, field[4]))
          [] string[1] = 78 -> Nack(name, field[4][1], NoInterest)
          [] OTHER -> UnknownPacket(string)

-----------------------------------------------------------------------------
Encoded(encoder, p) == IF encoder = "ndn" THEN EncodedTlv(p) ELSE EncodedString(p)
Decoded(encoder, wire) == IF encoder = "ndn" THEN DecodedTlv(wire) ELSE DecodedString(wire)

(* What a packet says, whatever the form it came in.                       *)
Meaning(p) ==
    CASE p.type = "interest" -> <<p.type, p.name>>
      [] p.type = "content" -> <<p.type, p.name, p.payload>>
      [] p.type = "nack" -> <<p.type, p.name, p.reason>>
      [] p.type = "unknown" -> <<p.type>>
==============================================================================
