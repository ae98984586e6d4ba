----------------------------- MODULE BitStream -----------------------------
(* encoding/bitstream: the bit writer and reader under every column codec.  A *)
(* stream is a sequence of bits, most significant first, and holds whole      *)
(* bytes.  Byte and Word are the bits of a byte (8) and of a machine word     *)
(* (64): the reader loads a word at a time and the tail byte by byte, and the *)
(* numbers the codecs write wrap at a word.                                   *)
EXTENDS Integers, Sequences, FiniteSets, SequencesExt

CONSTANTS Word, Byte

Bits(u, n) == [i \in 1 .. n |-> (u \div 2 ^ (n - i)) % 2]

Num(bits) ==
    LET n[i \in 0 .. Len(bits)] == IF i = 0 THEN 0 ELSE 2 * n[i - 1] + bits[i]
    IN n[Len(bits)]

\* The signed number a word holds, and what an operation on words leaves of its result.
Signed(u) == IF u >= 2 ^ (Word - 1) THEN u - 2 ^ Word ELSE u

Wrap(x) == Signed(x % 2 ^ Word)

LowBits(x) == x % 2 ^ Word

Lesser(a, b) == IF a < b THEN a ELSE b

Xor(a, b) == Num([i \in 1 .. Word |-> (Bits(a, Word)[i] + Bits(b, Word)[i]) % 2])

Ones(u) == { i \in 1 .. Word : Bits(u, Word)[i] = 1 }

LeadingZeros(u) == IF u = 0 THEN Word ELSE (CHOOSE i \in Ones(u) : \A j \in Ones(u) : i <= j) - 1

TrailingZeros(u) == IF u = 0 THEN Word ELSE Word - (CHOOSE i \in Ones(u) : \A j \in Ones(u) : j <= i)

BytesIn(s) == Len(s) \div Byte

Rest(s, bytes) == SubSeq(s, bytes * Byte + 1, Len(s))

\* The writer: the bits so far; a column ends on a byte.
WriteBits(w, u, n) == w \o Bits(u, n)

PadToByte(w) == w \o [i \in 1 .. (Byte - (Len(w) % Byte)) % Byte |-> 0]

MaxVarintLen == (Word + Byte - 2) \div (Byte - 1)

Groups(u) == CHOOSE n \in 1 .. MaxVarintLen :
                 /\ u < 2 ^ (n * (Byte - 1))
                 /\ n > 1 => u >= 2 ^ ((n - 1) * (Byte - 1))

Uvarint(u, n) ==
    FlattenSeq([k \in 1 .. n |-> <<IF k < n THEN 1 ELSE 0>> \o Bits(u \div 2 ^ ((k - 1) * (Byte - 1)), Byte - 1)])

WriteUvarint(w, u) == w \o Uvarint(u, Groups(u))

WriteVarint(w, i) == WriteUvarint(w, IF i < 0 THEN -2 * i - 1 ELSE 2 * i)

\* The reader: the stream, the bytes loaded and how many loaded bits are still unread.
NewReader(s) == [s |-> s, off |-> 0, valid |-> 0]

ReaderAt(s, bytes) == NewReader(Rest(s, bytes))

Loaded(r, n, left) ==
    LET k == IF left > Word \div Byte THEN Word \div Byte ELSE Lesser(n \div Byte + 1, left)
    IN [r EXCEPT !.off = @ + k, !.valid = k * Byte]

\* loadNextBuffer: a word while more than a word is left, else the bytes n bits need.
LoadNextBuffer(r, n) == IF r.off >= BytesIn(r.s) THEN r ELSE Loaded(r, n, BytesIn(r.s) - r.off)

Unread(r, n) == SubSeq(r.s, r.off * Byte - r.valid + 1, r.off * Byte - r.valid + n)

Got(v, r) == [ok |-> TRUE, v |-> v, r |-> r]

Failed(r) == [ok |-> FALSE, v |-> 0, r |-> r]

ReadLow(high, b, m) ==
    IF b.valid < m THEN Failed(b) ELSE Got(high * 2 ^ m + Num(Unread(b, m)), [b EXCEPT !.valid = @ - m])

\* The bits a value has beyond the loaded ones come from the next load.
ReadAcross(a, n) ==
    ReadLow(Num(Unread(a, a.valid)), LoadNextBuffer([a EXCEPT !.valid = 0], n - a.valid), n - a.valid)

ReadFrom(a, n) ==
    IF a.valid = 0 THEN Failed(a)
    ELSE IF n <= a.valid THEN Got(Num(Unread(a, n)), [a EXCEPT !.valid = @ - n])
    ELSE ReadAcross(a, n)

ReadBits(r, n) == IF n = 0 THEN Got(0, r) ELSE ReadFrom(IF r.valid = 0 THEN LoadNextBuffer(r, n) ELSE r, n)

\* Peek and Skip: the fast path of a prefix code, while enough bits are loaded.
Skip(r, n) == [r EXCEPT !.valid = @ - n]

UvarintStep(a, b, k) ==
    IF ~b.ok THEN [a EXCEPT !.done = TRUE, !.r = b.r]
    ELSE [done |-> b.v < 2 ^ (Byte - 1), ok |-> b.v < 2 ^ (Byte - 1),
          v |-> a.v + (b.v % 2 ^ (Byte - 1)) * 2 ^ ((k - 1) * (Byte - 1)), r |-> b.r]

ReadNumber(a) == [ok |-> a.ok, v |-> LowBits(a.v), r |-> a.r]

ReadUvarint(r) ==
    LET read[k \in 0 .. MaxVarintLen] ==
            IF k = 0 THEN [done |-> FALSE, ok |-> FALSE, v |-> 0, r |-> r]
            ELSE LET a == read[k - 1] IN IF a.done THEN a ELSE UvarintStep(a, ReadBits(a.r, Byte), k)
    IN ReadNumber(read[MaxVarintLen])

Unzig(u) == [u EXCEPT !.v = IF @ % 2 = 0 THEN @ \div 2 ELSE -((@ + 1) \div 2)]

ReadVarint(r) == Unzig(ReadUvarint(r))

ConsumedBytes(r) == r.off - r.valid \div Byte

\* ReadBytesView: n whole bytes from the next byte on.
ViewAt(r, start, n) ==
    IF BytesIn(r.s) - start < n THEN Failed(r)
    ELSE Got(SubSeq(r.s, start * Byte + 1, (start + n) * Byte),
             IF n <= r.off - start THEN [r EXCEPT !.valid = (r.off - start - n) * Byte]
             ELSE [r EXCEPT !.off = start + n, !.valid = 0])

ReadBytesView(r, n) == IF n = 0 THEN Got(<<>>, r) ELSE ViewAt(r, r.off - r.valid \div Byte, n)

\* The column header every codec starts with: a row count, then a reader over what follows.
WriteHeader(rows) == WriteUvarint(<<>>, rows)

HeaderOf(u, s) ==
    [ok |-> u.ok, rows |-> u.v, consumed |-> ConsumedBytes(u.r), r |-> ReaderAt(s, ConsumedBytes(u.r))]

ReadHeader(s) == HeaderOf(ReadUvarint(NewReader(s)), s)

\* boundRows: a count the bytes left could not hold is refused before it is believed.
BoundRows(rows, most) == rows <= most
=============================================================================
