--------------------------- MODULE ByteArrayCodec ---------------------------
(***************************************************************************)
(* The typed values of tadpole::ByteArray (src/src/byteArray.cc): integers *)
(* of fixed and of compressed length, floating point numbers and strings,  *)
(* on top of write and read, which are here those of a byte queue (module  *)
(* ByteArray shows that they are).  A writer writes values of any type,    *)
(* and a reader reads the types in the order they were written.            *)
(*                                                                         *)
(* The widths are parameters.  In the code a byte has P + 1 = 8 bits, an   *)
(* int has W = 32 and an int64_t 2 * W.  Arithmetic is that of the build:  *)
(* two's complement, and a shift of an int by s >= W is one by s % W.      *)
(***************************************************************************)
EXTENDS Integers, Sequences, SequencesExt

CONSTANTS
    P,        \* bits a byte of a compressed integer carries
    W,        \* bits of an int, a multiple of P + 1
    Values,   \* the callers' integers
    Chars,    \* bytes found in strings
    MaxLen,   \* bound: length of a string
    MaxItems  \* bound: values written

VARIABLES
    data,    \* the bytes written and not yet read
    pending, \* the values written and not yet read
    last,    \* the value read last, and what the reader was given for it
    count,   \* number of values written
    synced,  \* whether each value wrote bytes and none was read in vain
    status   \* "ok", or where the program is lost: "writing" or "reading"

vars == <<data, pending, last, count, synced, status>>

ByteBits == P + 1
IntBytes == W \div ByteBits

Unsigned(val, bits) == val % 2 ^ bits
Signed(u, bits) == IF u >= 2 ^ (bits - 1) THEN u - 2 ^ bits ELSE u

\* The n bytes of u as a variable of a signed or an unsigned type.
AsType(u, n, signed) == IF signed THEN Signed(u, n * ByteBits) ELSE u

Init ==
    /\ data = << >>
    /\ pending = << >>
    /\ last = [kind |-> "none", n |-> 0, val |-> 0, got |-> {0}]
    /\ count = 0
    /\ synced = TRUE
    /\ status = "ok"

\* Every call: val of this kind and size is written as these bytes.
WriteItem(kind, n, val, bytes) ==
    /\ status = "ok"
    /\ count < MaxItems
    /\ count' = count + 1
    /\ pending' = Append(pending, [kind |-> kind, n |-> n, val |-> val])
    /\ data' = data \o bytes
    /\ synced' = (synced /\ bytes # << >>)
    /\ UNCHANGED <<last, status>>

\* The reader reads what was written next; with nothing left, anything.
Expect(kind, n) ==
    /\ status = "ok"
    /\ pending # << >> => Head(pending).kind = kind /\ Head(pending).n = n

\* The reader is given the value in got (empty if its variable is untouched).
ReadItem(got) ==
    /\ IF pending = << >>
       THEN synced' = FALSE /\ UNCHANGED <<pending, last>>
       ELSE LET item == Head(pending) IN
            /\ last' = [kind |-> item.kind, n |-> item.n, val |-> item.val, got |-> got]
            /\ pending' = Tail(pending)
            /\ UNCHANGED synced
    /\ UNCHANGED <<count, status>>

Rest(n) == SubSeq(data, n + 1, Len(data))

-----------------------------------------------------------------------------
(* Integers and floating point numbers of fixed length: n bytes, the       *)
(* lowest first.                                                           *)

\* Faulty variant: the bytes above the first are not cut off.
FixedBytesUncut(val, n) ==
    [i \in 1..n |-> Unsigned(val, n * ByteBits) \div 2 ^ (ByteBits * (i - 1))]

FixedBytes(val, n) ==
    [i \in 1..n |-> (Unsigned(val, n * ByteBits) \div 2 ^ (ByteBits * (i - 1))) % 2 ^ ByteBits]

\* Faulty variant: the first byte is taken for the highest.
FixedValueSwapped(bytes) ==
    LET value[k \in 0..Len(bytes)] ==
            IF k = 0 THEN 0 ELSE value[k - 1] * 2 ^ ByteBits + bytes[k]
    IN  value[Len(bytes)]

FixedValue(bytes) ==
    LET value[k \in 0..Len(bytes)] ==
            IF k = 0 THEN 0 ELSE value[k - 1] + bytes[k] * 2 ^ (ByteBits * (k - 1))
    IN  value[Len(bytes)]

writeFInt(n, val) == WriteItem("FInt", n, val, FixedBytes(val, n))
writeFUint(n, val) == WriteItem("FUint", n, val, FixedBytes(val, n))

\* A float or double is written as the integer with the same bits.
writeFloat(n, bits) == WriteItem("Float", n, bits, FixedBytes(bits, n))

\* read(&val, n), whose result is not looked at.
ReadBytes(n, signed) ==
    IF n > Len(data)
    THEN ReadItem({}) /\ UNCHANGED data
    ELSE ReadItem({AsType(FixedValue(SubSeq(data, 1, n)), n, signed)}) /\ data' = Rest(n)

readFInt(n) == Expect("FInt", n) /\ ReadBytes(n, TRUE)
readFUint(n) == Expect("FUint", n) /\ ReadBytes(n, FALSE)

\* tmp is 0 before the read, so that val is 0 if there is nothing to read.
readFloat(n) ==
    /\ Expect("Float", n)
    /\ IF n > Len(data) THEN ReadItem({0}) /\ UNCHANGED data ELSE ReadBytes(n, FALSE)

-----------------------------------------------------------------------------
(* Integers of compressed length.                                          *)

Marked(byte) == byte >= 2 ^ P

\* How often the writer's loop runs, and the byte its k-th iteration stores.
Iterations(val) == CHOOSE n \in 0..(2 * W) : val < 2 ^ (P * n) /\ (n > 0 => 2 ^ (P * (n - 1)) <= val)
Digit(val, k) == (val \div 2 ^ (P * (k - 1))) % 2 ^ P

\* Faulty variant: the first byte is marked in place of the last.
CompressedBytesFirstMarked(val) ==
    [k \in 1..Iterations(val) |-> IF k = 1 THEN 2 ^ P + Digit(val, k) ELSE Digit(val, k)]

\* P bits to a byte until nothing is left, the last byte marked.  For 0 there
\* is no byte: the mark goes to tmp[-1], outside the array.
CompressedBytes(val) ==
    LET n == Iterations(val) IN
    [k \in 1..n |-> IF k = n THEN 2 ^ P + Digit(val, k) ELSE Digit(val, k)]

\* The loop of writeInt32 and writeInt64.  A negative val >> P never becomes
\* 0, and the loop runs on over the stack.
WriteCompressed(kind, n, val, arg) ==
    \/ val >= 0 /\ WriteItem(kind, n, arg, CompressedBytes(val))
    \/ /\ val < 0
       /\ status = "ok"
       /\ count < MaxItems
       /\ status' = "writing"
       /\ UNCHANGED <<data, pending, last, count, synced>>

writeInt(n, val) == WriteCompressed("Int", n, val, val)

\* writeUint32 and writeUint64 pass val to the signed one.
writeUint(n, val) == WriteCompressed("Uint", n, Signed(val, n * ByteBits), val)

\* tmp << (k * P), an int, as it is or'ed into a value of so many bits.
Shifted(byte, k, bits) ==
    Unsigned(Signed(Unsigned((byte % 2 ^ P) * 2 ^ ((k * P) % W), W), W), bits)

Bit(val, j) == (val \div 2 ^ j) % 2

\* The value or'ed together has the bits that one of the shifted bytes has.
CompressedValue(bytes, bits) ==
    LET value[j \in 0..bits] ==
            IF j = 0 THEN 0
            ELSE value[j - 1] +
                 IF \E k \in DOMAIN bytes : Bit(Shifted(bytes[k], k - 1, bits), j - 1) = 1
                 THEN 2 ^ (j - 1) ELSE 0
    IN  value[bits]

\* The loop of the four readers.  With no marked byte left it never ends,
\* since tmp keeps its value when read fails.
ReadCompressed(n, signed) ==
    LET marks == {k \in 1..Len(data) : Marked(data[k])} IN
    IF marks = {}
    THEN /\ data' = << >>
         /\ status' = "reading"
         /\ UNCHANGED <<pending, last, count, synced>>
    ELSE LET k == Min(marks) IN
         /\ ReadItem({AsType(CompressedValue(SubSeq(data, 1, k), n * ByteBits), n, signed)})
         /\ data' = Rest(k)

readInt(n) == Expect("Int", n) /\ ReadCompressed(n, TRUE)
readUint(n) == Expect("Uint", n) /\ ReadCompressed(n, FALSE)

-----------------------------------------------------------------------------
(* Strings: the length as an integer of fixed length, then the bytes.      *)

writeString(str) == WriteItem("String", 0, str, FixedBytes(Len(str), IntBytes) \o str)

\* Faulty variant: the bytes of the string are left behind.
readStringLengthOnly ==
    /\ Expect("String", 0)
    /\ Len(data) >= IntBytes
    /\ ReadItem({SubSeq(Rest(IntBytes), 1, FixedValue(SubSeq(data, 1, IntBytes)))})
    /\ data' = Rest(IntBytes)

\* Without a length the string is empty.  With a length that promises more
\* than there is, the length is gone and the string is that many zeros.
readString ==
    /\ Expect("String", 0)
    /\ IF Len(data) < IntBytes
       THEN ReadItem({<< >>}) /\ UNCHANGED data
       ELSE LET size == FixedValue(SubSeq(data, 1, IntBytes))
                rest == Rest(IntBytes)
            IN  IF size > Len(rest)
                THEN ReadItem({[i \in 1..size |-> 0]}) /\ data' = rest
                ELSE ReadItem({SubSeq(rest, 1, size)}) /\ data' = Rest(IntBytes + size)

-----------------------------------------------------------------------------
\* The callers' values, within a type's range.
SignedValues(n) == {v \in Values : -(2 ^ (n * ByteBits - 1)) <= v /\ v < 2 ^ (n * ByteBits - 1)}
UnsignedValues(n) == {v \in Values : 0 <= v /\ v < 2 ^ (n * ByteBits)}
Strings == UNION {[1..n -> Chars] : n \in 0..MaxLen}

FixedSizes == {1, IntBytes \div 2, IntBytes, 2 * IntBytes}
CompressedSizes == {IntBytes, 2 * IntBytes}

Write ==
    \/ \E n \in FixedSizes : \E v \in SignedValues(n) : writeFInt(n, v)
    \/ \E n \in FixedSizes : \E v \in UnsignedValues(n) : writeFUint(n, v)
    \/ \E n \in CompressedSizes : \E v \in UnsignedValues(n) : writeFloat(n, v)
    \/ \E n \in CompressedSizes : \E v \in SignedValues(n) : writeInt(n, v)
    \/ \E n \in CompressedSizes : \E v \in UnsignedValues(n) : writeUint(n, v)
    \/ \E str \in Strings : writeString(str)

Read ==
    \/ \E n \in FixedSizes : readFInt(n) \/ readFUint(n)
    \/ \E n \in CompressedSizes : readFloat(n) \/ readInt(n) \/ readUint(n)
    \/ readString

Next == Write \/ Read
Spec == Init /\ [][Next]_vars

-----------------------------------------------------------------------------
\* Type invariant.
TypeOK ==
    /\ data \in Seq(0..(2 ^ ByteBits - 1))
    /\ count \in 0..MaxItems
    /\ Len(pending) <= count
    /\ synced \in BOOLEAN
    /\ status \in {"ok", "writing", "reading"}

Compressed(item) == item.kind \in {"Int", "Uint"}

\* Every value is read as it was written, whatever was written before and
\* after it: all values of the fixed types, floating point numbers and
\* strings, and the compressed integers from 1 to the largest int, of either
\* width and signedness.
RoundTrip ==
    synced /\ (Compressed(last) => last.val < 2 ^ (W - 1)) => last.got = {last.val}

\* Each reader takes exactly the bytes its writer wrote: the array is empty
\* when the last value is read and not before, even for the compressed values
\* that are not read correctly, and no reader runs out of bytes.
Framed ==
    synced => /\ pending = << >> <=> data = << >>
              /\ status = "reading" => pending = << >>

=============================================================================
