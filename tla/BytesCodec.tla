----------------------------- MODULE BytesCodec -----------------------------
(* encoding/chunk: the codecs of byte columns.  A column is written flat, with *)
(* one width for every cell, or as a dictionary and one id per row; an encoder *)
(* keeps its map and its scratch from one column to the next.  A reader decodes*)
(* it cell by cell or keeps it split into entries and ids, and DictMerger joins*)
(* the split columns of several granules, one after the other or each at its   *)
(* own row.  A cell is a sequence of bytes; an absent cell is the empty one.   *)
EXTENDS BitStream

CONSTANTS MaxDictSize,    \* the entries one byte can name (256)
          MaxDictEntries, \* the entries an encoder keeps (65536)
          MaxEmpty,       \* maxEmptyFixedRows
          MaxGen,         \* the largest generation of the remap scratch (2^32 - 1)
          Jobs,           \* the columns written: [kind, vals] or [kind, entries, ids]
          MaxWrite,       \* the columns one encoder writes
          Shared,         \* the entries a merged column may share
          Granules,       \* the granules merged: [kind, vals] or [kind, ids]
          Places,         \* where a scattered granule may go
          MaxAppend

CONSTANTS None, Err

VARIABLES table,   \* the encoder's map: the values it has met, in the order of their ids
          scratch, \* the remap scratch: [out, stamp, gen]
          form,    \* the kind of column last written
          stream, rows, cut, cells, split, writes,
          merger, want, built

vars == <<table, scratch, form, stream, rows, cut, cells, split, writes, merger, want, built>>

FlagFlat == 0
FlagDict == 1
FlagFixed == 2

Index(seq, v) == IF \E i \in DOMAIN seq : seq[i] = v THEN CHOOSE i \in DOMAIN seq : seq[i] = v ELSE 0

Raw(v) == FlattenSeq([i \in DOMAIN v |-> Bits(v[i], Byte)])

Sized(v) == WriteUvarint(<<>>, Len(v)) \o Raw(v)

Header(n, flag) == WriteHeader(n) \o Bits(flag, Byte)

-----------------------------------------------------------------------------
(* Writing                                                                     *)

AppendFlat(vals) == Header(Len(vals), FlagFlat) \o FlattenSeq([i \in DOMAIN vals |-> Sized(vals[i])])

UniformWidth(vals) == \A i \in DOMAIN vals : Len(vals[i]) = Len(vals[1])

EncodeBytesRaw(vals) ==
    IF vals = <<>> THEN WriteHeader(0)
    ELSE IF UniformWidth(vals)
    THEN WriteUvarint(Header(Len(vals), FlagFixed), Len(vals[1])) \o FlattenSeq([i \in DOMAIN vals |-> Raw(vals[i])])
    ELSE AppendFlat(vals)

IDBytes(size) == IF size <= MaxDictSize THEN 1 ELSE 2

\* appendDictPayload: entries, then a byte per row's id, or two once one is too few.
AppendDictPayload(entries, ids) ==
    WriteUvarint(Header(Len(ids), FlagDict), Len(entries))
    \o FlattenSeq([i \in DOMAIN entries |-> Sized(entries[i])])
    \o FlattenSeq([i \in DOMAIN ids |-> Bits(ids[i], IDBytes(Len(entries)) * Byte)])

\* PutOrGet over the rows: known is the map as it stands, entries what this column adds.
Intern(a, v) ==
    LET at == Index(a.known, v)
    IN IF a.flat THEN a
       ELSE IF at > 0 THEN [a EXCEPT !.ids = Append(@, at - 1)]
       ELSE IF Len(a.entries) = MaxDictEntries THEN [a EXCEPT !.flat = TRUE, !.known = Append(@, v)]
       ELSE [a EXCEPT !.known = Append(@, v), !.entries = Append(@, v), !.ids = Append(@, Len(a.entries))]

Interned(vals, known) ==
    FoldLeft(Intern, [known |-> known, entries |-> <<>>, ids |-> <<>>, flat |-> FALSE], vals)

Payload(vals, a) == IF a.flat THEN AppendFlat(vals) ELSE AppendDictPayload(a.entries, a.ids)

\* EncodeBytes: through a map that holds nothing.
EncodeBytes(vals) == IF vals = <<>> THEN WriteHeader(0) ELSE Payload(vals, Interned(vals, <<>>))

\* A mutant of Known: the encoder's map keeps the last column's values.
KnownStill(t) == t

\* DictEncoder.Encode resets its map before each column.
Known(t) == <<>>

\* A mutant of Arm: the generation starts again and no stamp is cleared.
ArmBlind(s, n) ==
    IF Len(s.stamp) < n THEN [out |-> [i \in 1 .. n |-> 0], stamp |-> [i \in 1 .. n |-> 0], gen |-> 1]
    ELSE [s EXCEPT !.gen = IF @ = MaxGen THEN 1 ELSE @ + 1]

\* dictRemapScratch.arm: a new generation forgets every entry at once; past the last one the
\* stamps themselves are cleared.
Arm(s, n) ==
    IF Len(s.stamp) < n THEN [out |-> [i \in 1 .. n |-> 0], stamp |-> [i \in 1 .. n |-> 0], gen |-> 1]
    ELSE IF s.gen = MaxGen THEN [s EXCEPT !.stamp = [i \in DOMAIN @ |-> 0], !.gen = 1]
    ELSE [s EXCEPT !.gen = @ + 1]

Remap(a, entries, e) ==
    IF a.flat THEN a
    ELSE IF a.s.stamp[e] = a.s.gen THEN [a EXCEPT !.ids = Append(@, a.s.out[e])]
    ELSE IF Len(a.entries) = MaxDictEntries THEN [a EXCEPT !.flat = TRUE]
    ELSE [a EXCEPT !.s.stamp[e] = a.s.gen, !.s.out[e] = Len(a.entries),
                   !.entries = Append(@, entries[e]), !.ids = Append(@, Len(a.entries))]

Remapped(entries, ids, s) ==
    FoldLeft(LAMBDA a, e : Remap(a, entries, e), [s |-> s, entries |-> <<>>, ids |-> <<>>, flat |-> FALSE], ids)

Held(j) == IF j.kind = "split" THEN [i \in DOMAIN j.ids |-> j.entries[j.ids[i]]] ELSE j.vals

Encode(vals, a) ==
    /\ stream' = IF vals = <<>> THEN WriteHeader(0) ELSE Payload(vals, a)
    /\ table' = IF vals = <<>> THEN <<>> ELSE a.known
    /\ UNCHANGED scratch

\* EncodeBytesDict: ids are renumbered through the scratch, no value is compared.
EncodeBytesDict(j, a) ==
    /\ stream' = IF j.ids = <<>> THEN WriteHeader(0) ELSE Payload(Held(j), a)
    /\ scratch' = IF j.ids = <<>> THEN scratch ELSE a.s
    /\ UNCHANGED table

Write(j) ==
    /\ writes < MaxWrite /\ merger = None
    /\ writes' = writes + 1
    /\ form' = j.kind /\ rows' = Held(j) /\ cut' = FALSE /\ cells' = None /\ split' = None
    /\ \/ j.kind = "dict" /\ Encode(j.vals, Interned(j.vals, Known(table)))
       \/ j.kind = "split" /\ EncodeBytesDict(j, Remapped(j.entries, j.ids, Arm(scratch, Len(j.entries))))
       \/ j.kind = "raw" /\ stream' = EncodeBytesRaw(j.vals) /\ UNCHANGED <<table, scratch>>
    /\ UNCHANGED <<merger, want, built>>

-----------------------------------------------------------------------------
(* Reading                                                                     *)

Refused == [ok |-> FALSE]

Bytes(bits) == [i \in 1 .. BytesIn(bits) |-> Num(SubSeq(bits, (i - 1) * Byte + 1, i * Byte))]

NextCell(a, v) == [ok |-> v.ok, r |-> v.r, dst |-> IF v.ok THEN Append(a.dst, Bytes(v.v)) ELSE a.dst]

ReadView(u) == IF u.ok THEN ReadBytesView(u.r, u.v) ELSE u

\* n cells, each behind its length.
ReadCells(r, n) ==
    LET read[i \in 0 .. n] ==
            IF i = 0 THEN [ok |-> TRUE, r |-> r, dst |-> <<>>]
            ELSE LET a == read[i - 1] IN IF a.ok THEN NextCell(a, ReadView(ReadUvarint(a.r))) ELSE a
    IN read[n]

CutCells(v, width, n) ==
    [ok |-> v.ok, r |-> v.r,
     dst |-> IF v.ok THEN [i \in 1 .. n |-> Bytes(SubSeq(v.v, (i - 1) * width * Byte + 1, i * width * Byte))] ELSE <<>>]

\* fixedTotal bounds the block before it is taken.
ReadFixed(width, n) ==
    IF ~width.ok \/ (width.ok /\ width.v = 0 /\ n > MaxEmpty) THEN Refused
    ELSE CutCells(ReadBytesView(width.r, n * width.v), width.v, n)

IDAt(ids, i, width) == Num(SubSeq(ids, (i - 1) * width * Byte + 1, i * width * Byte))

ReadIDs(e, v, n) ==
    IF ~v.ok THEN Refused
    ELSE LET width == IDBytes(Len(e.dst))
             ids == [i \in 1 .. n |-> IDAt(v.v, i, width)]
         IN IF \E i \in 1 .. n : ids[i] >= Len(e.dst) THEN Refused
            ELSE [ok |-> TRUE, r |-> v.r, entries |-> e.dst, ids |-> ids, width |-> width]

ReadEntries(e, n) == IF ~e.ok THEN Refused ELSE ReadIDs(e, ReadBytesView(e.r, n * IDBytes(Len(e.dst))), n)

ReadDict(size, n, avail) == IF ~size.ok \/ size.v > avail THEN Refused ELSE ReadEntries(ReadCells(size.r, size.v), n)

\* What follows a column's flag: cells, or entries with the rows' ids.
ReadBody(flag, n, avail) ==
    IF ~flag.ok THEN Refused
    ELSE IF flag.v = FlagFixed THEN ReadFixed(ReadUvarint(flag.r), n)
    ELSE IF n > avail THEN Refused
    ELSE IF flag.v = FlagFlat THEN ReadCells(flag.r, n)
    ELSE ReadDict(ReadUvarint(flag.r), n, avail)

ReadColumn(src, h) ==
    IF ~h.ok THEN Refused
    ELSE IF h.rows = 0 THEN [ok |-> TRUE, r |-> h.r, dst |-> <<>>]
    ELSE ReadBody(ReadBits(h.r, Byte), h.rows, BytesIn(src) - h.consumed - 1)

IsSplit(c) == "ids" \in DOMAIN c

\* DecodeBytes gathers a row's cell from its entry.
Gathered(c) == IF ~c.ok THEN Err ELSE IF IsSplit(c) THEN [i \in DOMAIN c.ids |-> c.entries[c.ids[i] + 1]] ELSE c.dst

DecodeBytes(src) == Gathered(ReadColumn(src, ReadHeader(src)))

\* DictColumn.DecodeBytes keeps the ids; a column that has none is its own entries.
Unjoined(c) ==
    IF ~c.ok THEN Err
    ELSE IF IsSplit(c) THEN [entries |-> c.entries, ids |-> c.ids, width |-> c.width]
    ELSE [entries |-> c.dst, ids |-> <<>>, width |-> 0]

DecodeBytesDict(src) == Unjoined(ReadColumn(src, ReadHeader(src)))

ColumnLen(c) == IF c.width = 0 THEN Len(c.entries) ELSE Len(c.ids)

At(c, i) == IF c.width = 0 THEN c.entries[i] ELSE c.entries[c.ids[i] + 1]

RowsOf(c) == [i \in 1 .. ColumnLen(c) |-> At(c, i)]

Truncate(bytes) ==
    /\ stream # None /\ ~cut /\ cells = None /\ merger = None
    /\ bytes < BytesIn(stream)
    /\ stream' = SubSeq(stream, 1, bytes * Byte)
    /\ cut' = TRUE
    /\ UNCHANGED <<table, scratch, form, rows, cells, split, writes, merger, want, built>>

Read ==
    /\ stream # None /\ cells = None /\ merger = None
    /\ cells' = DecodeBytes(stream)
    /\ split' = DecodeBytesDict(stream)
    /\ UNCHANGED <<table, scratch, form, stream, rows, cut, writes, merger, want, built>>

-----------------------------------------------------------------------------
(* Merging split columns                                                       *)

NewMerger(n) ==
    [entries |-> <<>>, ids |-> <<>>, flat |-> <<>>, isFlat |-> FALSE,
     shared |-> <<>>, remap |-> <<>>, seeded |-> FALSE, scatter |-> n > 0, rows |-> n]

\* A mutant of Degrade: the rows so far are forgotten.
DegradeForgetting(d) == [d EXCEPT !.isFlat = TRUE, !.ids = <<>>]

\* degrade: the rows merged so far become cells, and so does every later one.
Degrade(d) ==
    IF d.isFlat THEN d
    ELSE [d EXCEPT !.isFlat = TRUE, !.ids = <<>>, !.flat = [i \in DOMAIN d.ids |-> d.entries[d.ids[i] + 1]]]

\* initMap: a scattered column's first entry is the absent cell, which the gaps between granules name.
InitMap(d) == IF d.scatter /\ d.entries = <<>> THEN [d EXCEPT !.entries = <<<<>>>>] ELSE d

\* Each entry's id in the merged dictionary, added where it is new.
Local(d, entries) ==
    FoldLeft(LAMBDA a, e : LET at == Index(a.entries, e)
                           IN IF at > 0 THEN [a EXCEPT !.map = Append(@, at - 1)]
                              ELSE [entries |-> Append(a.entries, e), map |-> Append(a.map, Len(a.entries))],
             [entries |-> d.entries, map |-> <<>>], entries)

\* A dictionary that overflows on its shared entries goes flat.
Seeded(d, l, entries) ==
    IF Len(l.entries) > MaxDictEntries THEN Degrade([d EXCEPT !.seeded = TRUE, !.shared = entries])
    ELSE [d EXCEPT !.seeded = TRUE, !.shared = entries, !.entries = l.entries, !.remap = l.map]

SeedShared(d, entries) ==
    IF d.seeded THEN d
    ELSE IF d.isFlat THEN [d EXCEPT !.seeded = TRUE, !.shared = entries]
    ELSE Seeded(InitMap(d), Local(InitMap(d), entries), entries)

\* n values placed from row off on, with gap in the rows before them nobody has filled.
Placed(seq, vals, off, gap) ==
    [i \in 1 .. (IF Len(seq) > off + Len(vals) THEN Len(seq) ELSE off + Len(vals)) |->
        IF i > off /\ i <= off + Len(vals) THEN vals[i - off] ELSE IF i <= Len(seq) THEN seq[i] ELSE gap]

PutFlat(d, vals, off) == [d EXCEPT !.flat = Placed(@, vals, IF d.scatter THEN off ELSE Len(@), <<>>)]

PutIDs(d, ids, off) == [d EXCEPT !.ids = Placed(@, ids, IF d.scatter THEN off ELSE Len(@), 0)]

\* appendShared: a granule that names the shared entries.
AppendShared(d, ids, off) ==
    IF d.isFlat THEN PutFlat(d, [i \in DOMAIN ids |-> d.shared[ids[i] + 1]], off)
    ELSE PutIDs(d, [i \in DOMAIN ids |-> d.remap[ids[i] + 1]], off)

Renamed(d, l, c, off) ==
    PutIDs([d EXCEPT !.entries = l.entries], [i \in DOMAIN c.ids |-> l.map[c.ids[i] + 1]], off)

Widened(d, c, off) ==
    IF d.isFlat THEN PutFlat(d, RowsOf(c), off)
    ELSE IF Len(d.entries) + Len(c.entries) > MaxDictEntries THEN PutFlat(Degrade(d), RowsOf(c), off)
    ELSE Renamed(InitMap(d), Local(InitMap(d), c.entries), c, off)

\* Append: a granule without ids, or with an entry per row, is not worth a dictionary.
AppendColumn(d, c, off) ==
    IF ColumnLen(c) = 0 THEN d
    ELSE Widened(IF c.width = 0 \/ (Len(c.entries) = ColumnLen(c) /\ ~d.seeded) THEN Degrade(d) ELSE d, c, off)

Narrowed(d) ==
    IF d.isFlat THEN [entries |-> d.flat, ids |-> <<>>, width |-> 0]
    ELSE IF d.ids = <<>> THEN [entries |-> <<>>, ids |-> <<>>, width |-> 0]
    ELSE [entries |-> d.entries, ids |-> [i \in DOMAIN d.ids |-> d.ids[i] % 2 ^ (Byte * IDBytes(Len(d.entries)))],
          width |-> IDBytes(Len(d.entries))]

\* A scattered column has all its rows, those after the last granule absent.
Grow(d) ==
    IF ~d.scatter THEN d
    ELSE IF d.isFlat THEN [d EXCEPT !.flat = Placed(@, <<>>, d.rows, <<>>)]
    ELSE [d EXCEPT !.ids = Placed(@, <<>>, d.rows, 0)]

StartMerge(n) ==
    /\ merger = None /\ writes = 0
    /\ merger' = NewMerger(n)
    /\ want' = [i \in 1 .. n |-> <<>>]
    /\ writes' = MaxWrite
    /\ UNCHANGED <<table, scratch, form, stream, rows, cut, cells, split, built>>

GranuleRows(g) == IF g.kind = "shared" THEN [i \in DOMAIN g.ids |-> Shared[g.ids[i] + 1]] ELSE g.vals

GranuleColumn(g) == DecodeBytesDict(IF g.kind = "raw" THEN EncodeBytesRaw(g.vals) ELSE EncodeBytes(g.vals))

\* bytesWalk.decode: one granule; the entries it shares are seeded when the first one names them.
Decode(g, off) ==
    /\ merger # None /\ built = None /\ writes < MaxWrite + MaxAppend
    /\ merger.scatter => off + Len(GranuleRows(g)) <= merger.rows
    /\ merger' = IF g.kind = "shared" THEN AppendShared(SeedShared(merger, Shared), g.ids, off)
                 ELSE AppendColumn(merger, GranuleColumn(g), off)
    /\ want' = IF merger.scatter THEN Placed(want, GranuleRows(g), off, <<>>) ELSE want \o GranuleRows(g)
    /\ writes' = writes + 1
    /\ UNCHANGED <<table, scratch, form, stream, rows, cut, cells, split, built>>

Build ==
    /\ merger # None /\ built = None /\ writes > MaxWrite
    /\ built' = Narrowed(Grow(merger))
    /\ UNCHANGED <<table, scratch, form, stream, rows, cut, cells, split, writes, merger, want>>

Init ==
    /\ table = <<>> /\ scratch = [out |-> <<>>, stamp |-> <<>>, gen |-> 0]
    /\ form = None /\ stream = None /\ rows = <<>> /\ cut = FALSE /\ cells = None /\ split = None /\ writes = 0
    /\ merger = None /\ want = <<>> /\ built = None

Next ==
    \/ \E j \in Jobs : Write(j)
    \/ \E bytes \in 0 .. (IF stream = None THEN 0 ELSE BytesIn(stream)) : Truncate(bytes)
    \/ Read
    \/ \E n \in {0, 2 + MaxAppend} : StartMerge(n)
    \/ \E g \in Granules, off \in Places : Decode(g, off)
    \/ Build

Spec == Init /\ [][Next]_vars

-----------------------------------------------------------------------------
\* Both decoders return exactly the rows written, whatever form the encoder chose and whatever it
\* encoded before; a stream that lost its end is refused by both (DecodeBytes and
\* DictColumn.DecodeBytes).
CellsExact ==
    cells # None => IF cut THEN cells = Err /\ split = Err ELSE cells = rows /\ RowsOf(split) = rows

\* A column is written as one sequence of bytes alone, whatever the encoder's map or the scratch held
\* before: one that arrives split into entries and ids gets the bytes EncodeBytes writes for its rows
\* (DictEncoder.Encode, EncodeBytesDict).
SplitCanonical == stream # None /\ ~cut /\ form # "raw" => stream = EncodeBytes(rows)

\* The merged column has every granule's rows where they belong and nothing in the gaps, through
\* every switch from a dictionary to flat cells (DictMerger.Build).
MergedRows == built # None => RowsOf(built) = want
=============================================================================
