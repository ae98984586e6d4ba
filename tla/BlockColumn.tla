---------------------------- MODULE BlockColumn ----------------------------
(* A part's column object (package block): rows cut into granules, granules    *)
(* packed into compressed frames, and a directory that says where each is.     *)
(* An object is a sequence of tokens.  A checksum is the token Sum, a damaged  *)
(* token is Bad, and a check fails exactly on a region holding a Bad one.      *)
EXTENDS Integers, Sequences, SequencesExt, FiniteSetsExt

CONSTANTS Granule,      \* rows per granule (WithGranuleSize)
          FrameBytes,   \* raw size at which a frame is sealed (WithCompressBlockBytes)
          DictCap,      \* what a column's shared dictionary may be charged
          MaxEntries,   \* maxSharedEntries
          Narrow,       \* entries a one-token id can address (256)
          Probe,        \* dirProbeBytes
          Nan           \* the one value the decimal codec cannot carry

Sum == 0 - 1

Bad == 0 - 2

Corrupt == [ok |-> FALSE, rows |-> <<>>]

Rows(s) == [ok |-> TRUE, rows |-> s]

Damaged(s) == \E i \in DOMAIN s : s[i] = Bad

Total(s) == FoldLeft(LAMBDA x, y : x + y, 0, s)

Largest(s) == FoldLeft(LAMBDA x, y : IF x < y THEN y ELSE x, 0, s)

ZigZag(d) == IF d >= 0 THEN 2 * d ELSE 0 - 2 * d - 1

UnZigZag(z) == IF z % 2 = 0 THEN z \div 2 ELSE 0 - (z + 1) \div 2

\* Compressor.Compress and Decompress, reduced to run lengths: a tag, then one token per run.
Pack(raw) ==
    LET starts == SelectSeq([i \in DOMAIN raw |-> i], LAMBDA i : i = 1 \/ raw[i] # raw[i - 1])
        end(k) == IF k = Len(starts) THEN Len(raw) + 1 ELSE starts[k + 1]
    IN <<0>> \o [k \in DOMAIN starts |-> (raw[starts[k]] + 2) * 64 + end(k) - starts[k]]

Unpack(s) ==
    FlattenSeq([k \in 1 .. Len(s) - 1 |-> [j \in 1 .. (s[k + 1] % 64) |-> s[k + 1] \div 64 - 2]])

\* The distinct values in order of first appearance.
Firsts(vals) ==
    LET at == SelectSeq([i \in DOMAIN vals |-> i], LAMBDA i : \A j \in 1 .. i - 1 : vals[j] # vals[i])
    IN [k \in DOMAIN at |-> vals[at[k]]]

IndexIn(s, v) == CHOOSE i \in DOMAIN s : s[i] = v

----------------------------------------------------------------------------
(* A granule's stream: what each codec keeps of the values.                    *)

AppendBlockStream(codec, vals) ==
    <<Len(vals)>> \o
    CASE codec = "dod" ->
           [i \in DOMAIN vals |-> ZigZag(IF i = 1 THEN vals[1] ELSE vals[i] - vals[i - 1])]
      [] codec = "gorilla" ->
           FlattenSeq([i \in DOMAIN vals |->
               IF i > 1 /\ vals[i] = vals[i - 1] THEN <<0>> ELSE <<1, vals[i]>>])
      [] codec = "decimal" -> [i \in DOMAIN vals |-> IF vals[i] = Nan THEN 0 ELSE vals[i]]
      [] codec = "raw" -> vals
      [] codec = "dict" ->
           LET e == Firsts(vals)
           IN <<Len(e)>> \o e \o [i \in DOMAIN vals |-> IndexIn(e, vals[i])]

DecodeStream(codec, s) ==
    CASE codec = "dod" ->
           LET at[i \in 0 .. Len(s) - 1] == IF i = 0 THEN 0 ELSE at[i - 1] + UnZigZag(s[i + 1])
           IN [i \in 1 .. Len(s) - 1 |-> at[i]]
      [] codec = "gorilla" ->
           FoldLeft(LAMBDA a, t :
               IF a.value THEN [value |-> FALSE, rows |-> Append(a.rows, t)]
               ELSE IF t = 1 THEN [a EXCEPT !.value = TRUE]
               ELSE [a EXCEPT !.rows = Append(@, Last(@))],
               [value |-> FALSE, rows |-> <<>>], SubSeq(s, 2, Len(s))).rows
      [] codec \in {"decimal", "raw"} -> SubSeq(s, 2, Len(s))
      [] codec = "dict" -> [i \in 1 .. s[1] |-> s[2 + s[2 + s[2] + i]]]

DecimalRoundTrips(vals) ==
    DecodeStream("decimal", AppendBlockStream("decimal", vals)) = vals

----------------------------------------------------------------------------
(* blockAccum: granules collected into frames, kept or sent to an open object. *)

NewBlockAccum ==
    [frames |-> <<>>, counts |-> <<>>, sizes |-> <<>>, raws |-> <<>>, lens |-> <<>>,
     pending |-> <<>>, inFrame |-> 0, sink |-> FALSE, sent |-> <<>>, chunks |-> <<>>, keys |-> <<>>]

Emit(a, f) ==
    IF a.sink THEN [a EXCEPT !.sent = @ \o f] ELSE [a EXCEPT !.frames = Append(@, f)]

Seal(a) ==
    IF a.inFrame = 0 THEN a
    ELSE LET f == Pack(a.pending)
         IN Emit([a EXCEPT !.counts = Append(@, a.inFrame), !.sizes = Append(@, Len(f)),
                           !.raws = Append(@, Len(a.pending)), !.pending = <<>>, !.inFrame = 0], f)

AddGranule(a, stream) ==
    LET b == [a EXCEPT !.pending = @ \o stream, !.lens = Append(@, Len(stream)), !.inFrame = @ + 1]
    IN IF Len(b.pending) >= FrameBytes THEN Seal(b) ELSE b

Attach(a) == [a EXCEPT !.sink = TRUE, !.sent = FlattenSeq(a.frames), !.frames = <<>>]

Discard(a) == [a EXCEPT !.sink = FALSE, !.sent = <<>>, !.frames = <<>>, !.pending = <<>>]

Bytes(a) == Total(a.sizes)

ChunkRow(a, i, bounds) ==
    <<a.chunks[i]>> \o
    (IF ~bounds THEN <<>>
     ELSE <<ZigZag(a.keys[i].lo - (IF i = 1 THEN 0 ELSE a.keys[i - 1].lo)),
            ZigZag(a.keys[i].hi - a.keys[i].lo)>>)

Directory(a, variable, bounds) ==
    <<Len(a.lens), Granule, Len(a.counts)>> \o
    FlattenSeq([i \in DOMAIN a.counts |-> <<a.counts[i], a.sizes[i], Sum>>]) \o a.lens \o
    FlattenSeq(IF variable THEN [i \in DOMAIN a.chunks |-> ChunkRow(a, i, bounds)] ELSE <<>>) \o <<Sum>>

Shorter(dir, packed, allowed) ==
    IF allowed /\ Len(packed) + 1 < Len(dir) THEN [dir |-> Append(packed, Sum), packed |-> TRUE]
    ELSE [dir |-> dir, packed |-> FALSE]

PackedOr(dir, allowed) == Shorter(dir, <<Len(dir)>> \o Pack(dir), allowed)

\* encodeDir: the directory, packed when that is shorter and the reader will know its length.
EncodeDir(a, variable, bounds, compact) == PackedOr(Directory(a, variable, bounds), variable /\ compact)

Sizing(a, dirLen) ==
    [dirLen |-> dirLen, granules |-> Len(a.lens), frames |-> Len(a.counts),
     maxFrame |-> Largest(a.sizes), maxFrameRaw |-> Largest(a.raws),
     maxGranuleRaw |-> Largest(a.lens), streamRaw |-> Total(a.lens)]

\* finishBuffered and finishStreamed: the directory leads a kept object and trails a sent one, or
\* one with a dictionary region.
FinishAccum(a, region, dir) ==
    IF a.sink THEN a.sent \o region \o dir \o <<Len(dir)>>
    ELSE IF region # <<>> THEN FlattenSeq(a.frames) \o region \o dir \o <<Len(dir)>>
    ELSE dir \o FlattenSeq(a.frames)

----------------------------------------------------------------------------
(* blockDir: reading the directory back.                                       *)

NoSizing == [dirLen |-> 0]

Sized(desc) == desc.sizing # NoSizing

\* readFrameTable: how many granules each frame holds and where it begins.
ReadFrameTable(dir, nf) ==
    LET sizes == [f \in 1 .. nf |-> dir[3 * f + 2]]
    IN [counts |-> [f \in 1 .. nf |-> dir[3 * f + 1]], sizes |-> sizes,
        off |-> [f \in 1 .. nf + 1 |-> Total(SubSeq(sizes, 1, f - 1))]]

\* readGranuleLens: where each granule lies in its frame once the frame is raw.
ReadGranuleLens(lens, counts) ==
    LET gFrame == FlattenSeq([f \in DOMAIN counts |-> [i \in 1 .. counts[f] |-> f]])
        before(g) == { h \in 1 .. g - 1 : gFrame[h] = gFrame[g] }
        in(f) == { g \in DOMAIN lens : gFrame[g] = f }
    IN [gFrame |-> gFrame, gOff |-> [g \in DOMAIN lens |-> MapThenSumSet(LAMBDA h : lens[h], before(g))],
        raws |-> [f \in DOMAIN counts |-> MapThenSumSet(LAMBDA g : lens[g], in(f))]]

\* readChunkRows: each chunk's rows and, for the sort key, the bounds of its keys.
ReadChunkRows(dir, at, n, bounds) ==
    LET stride == IF bounds THEN 3 ELSE 1
        rows == [i \in 1 .. n |-> dir[at + stride * (i - 1) + 1]]
        lo[i \in 0 .. n] == IF i = 0 THEN 0 ELSE lo[i - 1] + UnZigZag(dir[at + stride * (i - 1) + 2])
    IN [starts |-> [i \in 1 .. n + 1 |-> Total(SubSeq(rows, 1, i - 1))],
        keys |-> IF ~bounds THEN <<>>
                 ELSE [i \in 1 .. n |-> [lo |-> lo[i], hi |-> lo[i] + UnZigZag(dir[at + stride * (i - 1) + 3])]]]

\* dirCheck: the sizes the manifest states are the ones the directory holds.
SizesDiffer(s, lens, t, raws) ==
    \/ Len(lens) # s.granules \/ Len(t.sizes) # s.frames
    \/ Largest(t.sizes) # s.maxFrame
    \/ Largest(lens) # s.maxGranuleRaw
    \/ Largest(raws) # s.maxFrameRaw
    \/ Total(lens) # s.streamRaw

\* verifyDirCRC: the directory up to its checksum is whole.
VerifyDirCRC(dir, pos) == Len(dir) >= pos + 1 /\ ~Damaged(SubSeq(dir, 1, pos + 1))

\* What the directory's fields, read at their places, make of it.
Fields(dir, desc, n, pos, t, lens, g, c) ==
    IF \/ ~VerifyDirCRC(dir, pos) \/ dir[2] = 0 \/ (VerifyDirCRC(dir, pos) /\ Total(t.counts) # n)
       \/ desc.variable /\ (dir[2] # desc.maxRows \/ Len(t.sizes) # n)
       \/ Sized(desc) /\ SizesDiffer(desc.sizing, lens, t, g.raws)
       \/ desc.variable /\ Last(c.starts) # desc.rows
    THEN Corrupt
    ELSE [ok |-> TRUE, granules |-> n, blockRows |-> dir[2], frameOff |-> t.off, gLen |-> lens,
          total |-> Total(t.sizes), pos |-> pos + 1] @@ g @@ c

FieldsIn(dir, desc, n, rowsAt, t, lens) ==
    Fields(dir, desc, n, rowsAt + (IF ~desc.variable THEN 0 ELSE IF desc.bounds THEN 3 * n ELSE n), t, lens,
           ReadGranuleLens(lens, t.counts),
           IF desc.variable THEN ReadChunkRows(dir, rowsAt, n, desc.bounds) ELSE [starts |-> <<>>, keys |-> <<>>])

FieldsAt(dir, desc, n, lensAt) ==
    FieldsIn(dir, desc, n, lensAt + n, ReadFrameTable(dir, dir[3]), SubSeq(dir, lensAt + 1, lensAt + n))

\* parseFramedDirFields over the tokens at hand.
ParseFields(dir, desc) ==
    IF Len(dir) < 3 \/ (Len(dir) >= 3 /\ Damaged(SubSeq(dir, 1, 3))) THEN Corrupt
    ELSE FieldsAt(dir, desc, dir[1], 3 + 3 * dir[3])

\* parseDetachedDir over exactly the directory's tokens, checked against the frames' size.
Exactly(d, pos, total) == IF ~d.ok \/ (d.ok /\ (d.pos # pos \/ d.total # total)) THEN Corrupt ELSE d

ParseExact(dir, frameBytes, desc) == Exactly(ParseFields(dir, desc), Len(dir), frameBytes)

\* parseCompactDir: a packed directory is checked, unpacked and parsed as the one it stands for.
ParseUnpacked(dir, raw, frameBytes, desc) ==
    IF desc.compact /\ (Damaged(dir) \/ (~Damaged(dir) /\ Len(raw) # dir[1])) THEN Corrupt
    ELSE ParseExact(raw, frameBytes, desc)

ParseDetachedDir(dir, frameBytes, desc) ==
    IF Sized(desc) /\ Len(dir) # desc.sizing.dirLen THEN Corrupt
    ELSE ParseUnpacked(dir, IF desc.compact THEN Unpack(SubSeq(dir, 2, Len(dir) - 1)) ELSE dir, frameBytes, desc)

WithData(d, data) == IF d.ok THEN d @@ [data |-> data] ELSE Corrupt

FooterLen(object) == Last(object)

ParseFooterDir(object, desc) ==
    LET end == Len(object) - 1
    IN IF object = <<>> \/ (object # <<>> /\ (FooterLen(object) = Bad \/ FooterLen(object) > end)) THEN Corrupt
       ELSE LET data == end - FooterLen(object)
            IN WithData(ParseDetachedDir(SubSeq(object, data + 1, end), data, desc), SubSeq(object, 1, data))

ParseTrailerDir(object, desc) ==
    LET region == desc.dictOff + desc.dictLen
        end == Len(object) - 1
    IN IF region > end \/ (region <= end /\ FooterLen(object) # end - region) THEN Corrupt
       ELSE WithData(ParseDetachedDir(SubSeq(object, region + 1, end), desc.dictOff, desc),
                     SubSeq(object, 1, desc.dictOff))

Leading(object, desc, d) ==
    IF ~d.ok THEN Corrupt
    ELSE IF (Sized(desc) /\ d.pos # desc.sizing.dirLen) \/ d.pos + d.total > Len(object) THEN Corrupt
    ELSE WithData(d, SubSeq(object, d.pos + 1, d.pos + d.total))

ParseFramedDir(object, desc) ==
    IF desc.compact
    THEN LET n == desc.sizing.dirLen
         IN WithData(ParseDetachedDir(SubSeq(object, 1, n), Len(object) - n, desc), SubSeq(object, n + 1, Len(object)))
    ELSE Leading(object, desc, ParseFields(object, desc))

\* The layout before frames: each block is a frame of its own, and nothing is checked.
ParseLegacyDir(object) ==
    LET n == object[1]
        sizes == SubSeq(object, 3, n + 2)
    IN [ok |-> TRUE, granules |-> n, blockRows |-> object[2], gFrame |-> [g \in 1 .. n |-> g],
        frameOff |-> [f \in 1 .. n + 1 |-> Total(SubSeq(sizes, 1, f - 1))], gOff |-> <<>>, gLen |-> <<>>,
        raws |-> <<>>, total |-> Total(sizes), pos |-> n + 2, starts |-> <<>>, keys |-> <<>>,
        data |-> SubSeq(object, n + 3, Len(object))]

ParseBlockDir(object, desc) ==
    CASE desc.trailer -> ParseTrailerDir(object, desc)
      [] desc.footer /\ ~desc.trailer -> ParseFooterDir(object, desc)
      [] desc.framed /\ ~desc.footer /\ ~desc.trailer -> ParseFramedDir(object, desc)
      [] OTHER -> ParseLegacyDir(object)

Span(d, b, rows) ==
    IF d.starts # <<>> THEN [lo |-> d.starts[b], hi |-> d.starts[b + 1]]
    ELSE [lo |-> (b - 1) * d.blockRows, hi |-> Min({b * d.blockRows, rows})]

\* The block that holds a row (rows counted from zero).
BlockAt(d, row) ==
    IF d.starts = <<>> THEN row \div d.blockRows + 1
    ELSE Max({ i \in DOMAIN d.starts : d.starts[i] <= row })

\* blockDir.decompress held to the size the directory records.
Decompressed(d, f, raw) ==
    LET out == Unpack(raw)
    IN IF d.raws # <<>> /\ Len(out) # d.raws[f] THEN Corrupt ELSE Rows(out)

\* blockDir.frame from an object in memory.
FrameInMemory(d, f) ==
    LET raw == SubSeq(d.data, d.frameOff[f] + 1, d.frameOff[f + 1])
    IN IF Damaged(raw) THEN Corrupt ELSE Decompressed(d, f, raw)

GranuleStream(d, g, frame) ==
    IF d.gOff = <<>> THEN frame ELSE SubSeq(frame, d.gOff[g] + 1, d.gOff[g] + d.gLen[g])

----------------------------------------------------------------------------
(* Column-level shared dictionary of a bytes column.                           *)

SharedDictJoins(distinct, rows, entries) == distinct * 2 <= rows /\ entries + distinct <= MaxEntries

EntryCharge == 2

\* sharedDictBuilder.addValues: a granule joins as a whole, or stays self-contained.
AddValues(entries, vals) ==
    LET new == SelectSeq(Firsts(vals), LAMBDA v : \A i \in DOMAIN entries : entries[i] # v)
    IN IF /\ SharedDictJoins(Len(Firsts(vals)), Len(vals), Len(entries))
          /\ EntryCharge * Len(new) <= DictCap - EntryCharge * Len(entries)
       THEN [joined |-> TRUE, entries |-> entries \o new]
       ELSE [joined |-> FALSE, entries |-> entries]

\* appendSharedIDs: narrow while the dictionary is short, wide for every granule after.
AppendSharedIDs(ids, entries) ==
    IF Len(entries) <= Narrow THEN <<2>> \o [i \in DOMAIN ids |-> ids[i] - 1]
    ELSE <<3>> \o FlattenSeq([i \in DOMAIN ids |-> <<(ids[i] - 1) \div Narrow, (ids[i] - 1) % Narrow>>])

DictGranuleStream(joined, entries, vals) ==
    IF joined THEN AppendSharedIDs([i \in DOMAIN vals |-> IndexIn(entries, vals[i])], entries)
    ELSE <<1>> \o AppendBlockStream("dict", vals)

DictRegion(entries) ==
    LET packed == Pack(entries) IN <<Len(entries), Len(packed)>> \o packed \o <<Sum>>

ParseSharedDict(region, desc) ==
    IF Damaged(region) \/ (~Damaged(region) /\ region[2] # Len(region) - 3) THEN Corrupt
    ELSE LET e == Unpack(SubSeq(region, 3, Len(region) - 1))
         IN IF Len(e) # desc.dictEntries \/ Len(e) # desc.dictRaw THEN Corrupt ELSE Rows(e)

\* sharedDict.granule and the walk over it: a granule's rows against the dictionary.
SharedGranule(entries, stream, n) ==
    LET wide == stream[1] = 3
        at(r) == IF wide THEN stream[2 * r] * Narrow + stream[2 * r + 1] ELSE stream[r + 1]
    IN IF stream[1] = 1 THEN Rows(DecodeStream("dict", SubSeq(stream, 2, Len(stream))))
       ELSE IF wide /\ Len(entries) <= Narrow THEN Corrupt
       ELSE IF Len(stream) - 1 # n * (IF wide THEN 2 ELSE 1) THEN Corrupt
       ELSE IF \E r \in 1 .. n : at(r) >= Len(entries) THEN Corrupt
       ELSE Rows([r \in 1 .. n |-> entries[at(r) + 1]])

\* What a granule's stream decodes to, held to the rows its span says.
Held(out, n) == IF ~out.ok \/ (out.ok /\ Len(out.rows) # n) THEN Corrupt ELSE out

DecodeStreamOf(desc, entries, n, stream) ==
    Held(IF desc.trailer THEN SharedGranule(entries, stream, n) ELSE Rows(DecodeStream(desc.codec, stream)), n)

DecodeGranule(desc, entries, d, b, stream) ==
    DecodeStreamOf(desc, entries, Span(d, b, desc.rows).hi - Span(d, b, desc.rows).lo, stream)
=============================================================================
