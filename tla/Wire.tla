-------------------------------- MODULE Wire --------------------------------
(***************************************************************************)
(* The protobuf wire format the builtin object codecs write and read by    *)
(* hand: builtin_wire::Writer and Reader.  A buffer is a sequence of       *)
(* bytes; a reader is the sequence of the bytes it has left, and a read    *)
(* returns [ok, v, r]: whether it succeeded, the value, the reader after   *)
(* it.  A read that fails may have moved the reader, as in the code.       *)
(*                                                                         *)
(* The widths of the 64- and 32-bit words are parameters (in bytes), so    *)
(* that the limits of an int64 lie within a small instance.  A double is   *)
(* a fixed-point number with One units to 1.0, exact for the values used.  *)
(***************************************************************************)
EXTENDS Integers, Sequences, SequencesExt

CONSTANTS
    W64,            \* bytes of a 64-bit word
    W32,            \* bytes of a 32-bit word
    NanosPerSecond  \* kNanosecondsPerSecond, less than the largest int32

ASSUME WireAssumption ==
    /\ W64 \in Nat \ {0} /\ W32 \in 1 .. W64
    /\ NanosPerSecond \in 1 .. 2 ^ (8 * W32 - 1) - 1

Two64 == 2 ^ (8 * W64)
Two32 == 2 ^ (8 * W32)
Max64 == (Two64 \div 2) - 1
Min64 == -(Two64 \div 2)

(* static_cast between the signed and unsigned words of a width.           *)
asInt64(u) == IF u % Two64 > Max64 THEN (u % Two64) - Two64 ELSE u % Two64
asInt32(u) == IF u % Two32 >= Two32 \div 2 THEN (u % Two32) - Two32 ELSE u % Two32

One == 510

-----------------------------------------------------------------------------
(* WireType.                                                               *)
kVarint == 0
kFixed64 == 1
kLengthDelimited == 2
kFixed32 == 5

(* Writer: each operator is the bytes the method appends.                  *)

RECURSIVE appendVarint(_)
appendVarint(value) ==
    IF value >= 128 THEN <<(value % 128) + 128>> \o appendVarint(value \div 128)
    ELSE <<value>>

appendFixed64(value) == [i \in 1 .. W64 |-> ((value % Two64) \div 256 ^ (i - 1)) % 256]
appendFixed32(value) == [i \in 1 .. W32 |-> ((value % Two32) \div 256 ^ (i - 1)) % 256]

tag(field, type) == appendVarint(field * 8 + type)

varint(field, value) == tag(field, kVarint) \o appendVarint(value)

(* doubleField and floatField: the bits of the value as a fixed word.      *)
doubleField(field, value) == tag(field, kFixed64) \o appendFixed64(value)
floatField(field, value) == tag(field, kFixed32) \o appendFixed32(value)

bytes(field, data) == tag(field, kLengthDelimited) \o appendVarint(Len(data)) \o data
string(field, value) == bytes(field, value)
message(field, body) == bytes(field, body)

(* A packed array is left out when it is empty.                            *)
packedFixed32(field, values) ==
    IF values = <<>> THEN <<>>
    ELSE tag(field, kLengthDelimited) \o appendVarint(Len(values) * W32)
         \o FlattenSeq([i \in DOMAIN values |-> appendFixed32(values[i])])

packedDouble(field, values) ==
    IF values = <<>> THEN <<>>
    ELSE tag(field, kLengthDelimited) \o appendVarint(Len(values) * W64)
         \o FlattenSeq([i \in DOMAIN values |-> appendFixed64(values[i])])

-----------------------------------------------------------------------------
(* Reader.                                                                 *)
Failed(r) == [ok |-> FALSE, v |-> 0, r |-> r]
Got(v, r) == [ok |-> TRUE, v |-> v, r |-> r]

(* A varint has at most as many bytes as the word needs, and its last byte *)
(* only the bits that are left of it.                                      *)
RECURSIVE readVarintFrom(_, _, _)
readVarintFrom(r, shift, out) ==
    IF r = <<>> \/ shift >= 8 * W64 THEN Failed(r)
    ELSE LET byte == Head(r)
             payload == byte % 128
         IN  IF shift + 7 > 8 * W64 /\ payload >= 2 ^ (8 * W64 - shift) THEN Failed(Tail(r))
             ELSE IF byte < 128 THEN Got(out + payload * 2 ^ shift, Tail(r))
             ELSE readVarintFrom(Tail(r), shift + 7, out + payload * 2 ^ shift)

readVarint(r) == readVarintFrom(r, 0, 0)

(* readBytesImpl: the length, then that many bytes; the length stays       *)
(* consumed when they are not there.                                       *)
readBytes(r) ==
    LET len == readVarint(r)
    IN  IF ~len.ok \/ len.v > Len(len.r) THEN Failed(len.r)
        ELSE Got(SubSeq(len.r, 1, len.v), SubSeq(len.r, len.v + 1, Len(len.r)))

readTag(r) ==
    LET raw == readVarint(r)
    IN  [ok |-> raw.ok /\ raw.v \div 8 # 0, field |-> raw.v \div 8,
         type |-> raw.v % 8, r |-> raw.r]

RECURSIVE littleEndian(_)
littleEndian(bs) == IF bs = <<>> THEN 0 ELSE Head(bs) + 256 * littleEndian(Tail(bs))

readFixed64(r) ==
    IF Len(r) < W64 THEN Failed(r)
    ELSE Got(littleEndian(SubSeq(r, 1, W64)), SubSeq(r, W64 + 1, Len(r)))

readFixed32(r) ==
    IF Len(r) < W32 THEN Failed(r)
    ELSE Got(littleEndian(SubSeq(r, 1, W32)), SubSeq(r, W32 + 1, Len(r)))

readDouble(r) == LET x == readFixed64(r) IN [x EXCEPT !.v = asInt64(x.v)]
readFloat(r) == LET x == readFixed32(r) IN [x EXCEPT !.v = asInt32(x.v)]

(* Slip: no case for the 32-bit type.                                      *)
skipNoFixed32(type, r) ==
    CASE type = kVarint -> readVarint(r)
      [] type = kFixed64 -> readFixed64(r)
      [] type = kLengthDelimited -> readBytes(r)
      [] OTHER -> Failed(r)

(* skip: over the value of a field of the given wire type.                 *)
skip(type, r) ==
    CASE type = kVarint -> readVarint(r)
      [] type = kFixed64 -> readFixed64(r)
      [] type = kLengthDelimited -> readBytes(r)
      [] type = kFixed32 -> readFixed32(r)
      [] OTHER -> Failed(r)

(* The words of a packed payload of the given width; it must be whole.     *)
words(bs, width) ==
    [i \in 1 .. Len(bs) \div width |-> littleEndian(SubSeq(bs, (i - 1) * width + 1, i * width))]

readPackedFixed32(r) ==
    LET x == readBytes(r)
    IN  IF ~x.ok THEN Failed(x.r)
        ELSE IF Len(x.v) % W32 # 0 THEN Failed(x.r) ELSE Got(words(x.v, W32), x.r)

readPackedDouble(r) ==
    LET x == readBytes(r)
        ws == words(x.v, W64)
    IN  IF ~x.ok THEN Failed(x.r)
        ELSE IF Len(x.v) % W64 # 0 THEN Failed(x.r)
        ELSE Got([i \in DOMAIN ws |-> asInt64(ws[i])], x.r)

(* readPackedDoubleArray: exactly n of them.                               *)
readPackedDoubleArray(r, n) ==
    LET x == readBytes(r)
        ws == words(x.v, W64)
    IN  IF ~x.ok THEN Failed(x.r)
        ELSE IF Len(x.v) # n * W64 THEN Failed(x.r)
        ELSE Got([i \in DOMAIN ws |-> asInt64(ws[i])], x.r)

-----------------------------------------------------------------------------
(* Timestamps on the wire are seconds and non-negative nanoseconds.        *)

(* C++ division and remainder truncate towards zero.                       *)
quotient(a, b) == IF a >= 0 THEN a \div b ELSE -((-a) \div b)
remainder(a, b) == a - quotient(a, b) * b

splitTimestamp(ts) ==
    LET nanos == remainder(ts, NanosPerSecond)
        seconds == quotient(ts, NanosPerSecond)
    IN  IF nanos < 0 THEN [seconds |-> seconds - 1, nanos |-> nanos + NanosPerSecond]
        ELSE [seconds |-> seconds, nanos |-> nanos]

combineTimestamp(parts) ==
    LET seconds_ns == parts.seconds * NanosPerSecond
        fits == /\ parts.nanos >= 0 /\ parts.nanos < NanosPerSecond
                /\ parts.seconds <= quotient(Max64, NanosPerSecond)
                /\ parts.seconds >= quotient(Min64, NanosPerSecond)
                /\ seconds_ns <= Max64 - parts.nanos
    IN  [ok |-> fits, v |-> IF fits THEN seconds_ns + parts.nanos ELSE 0]

writeTimestamp(ts) ==
    LET parts == splitTimestamp(ts)
    IN  varint(1, parts.seconds % Two64) \o varint(2, parts.nanos % Two32)

(* A colour channel is a byte in memory and a double in 0 .. 1 on the wire.*)
byteToNormalized(c) == c * (One \div 255)

normalizedToByte(value) ==
    LET v == IF value < 0 THEN 0 ELSE IF value > One THEN One ELSE value
    IN  (2 * v * 255 + One) \div (2 * One)
=============================================================================
