----------------------------- MODULE BlockPart -----------------------------
(* Writing and reading one part (package block): the buffered PartWriter and   *)
(* the StreamWriter that sends frames out as they fill, the manifest and marks *)
(* beside the column, the order the objects are published and deleted in, and  *)
(* every way a column is read back.  The part has one column; an int64 column  *)
(* is its sort key.                                                            *)
EXTENDS BlockColumn, TLC

CONSTANTS Value,     \* the values a row may hold
          MaxRows,   \* rows a part may reach
          MaxChunk,  \* rows one append may bring
          Window,    \* read-ahead of a scan, in tokens
          Option,    \* the columns and writers of the instance
          None

VARIABLES opt,    \* [kind, writer, variable, sizing]
          vals,   \* the rows given to the writer
          col,    \* the StreamWriter's column
          pc,     \* open, built, done, failed, deleting
          built,  \* the objects still to write, in order
          store,  \* the part's objects
          fault,  \* whether the stored column was damaged
          dec,    \* the open Decoder
          out     \* what its last read returned

vars == <<opt, vals, col, pc, built, store, fault, dec, out>>

----------------------------------------------------------------------------
(* streamColumn                                                                *)

NewColumn ==
    [stage |-> <<>>, blk |-> NewBlockAccum, alt |-> NewBlockAccum, altOK |-> opt.kind = "auto",
     seen |-> {}, streaming |-> FALSE, entries |-> <<>>, marks |-> <<>>, encoded |-> 0]

Codec(kind) ==
    CASE kind = "int" -> "dod" [] kind = "auto" -> "gorilla" [] kind = "raw" -> "raw" [] OTHER -> "dict"

Bounded == opt.variable /\ opt.kind = "int"

KeyBounds(vs) == [lo |-> Min(ToSet(vs)), hi |-> Max(ToSet(vs))]

DisableAlt(c) == [c EXCEPT !.altOK = FALSE, !.alt = Discard(@)]

Retained(c) == Bytes(c.blk) + (IF c.altOK THEN Bytes(c.alt) ELSE 0)

\* maybeAttach: the object is opened once the column cannot collapse to a constant, or holds enough.
MaybeAttach(c) ==
    IF opt.writer # "stream" \/ c.streaming \/ (Cardinality(c.seen) < 2 /\ Retained(c) < FrameBytes)
    THEN c
    ELSE [c EXCEPT !.streaming = TRUE, !.blk = Attach(@), !.alt = IF c.altOK THEN Attach(@) ELSE @]

\* sealChunk: a variable chunk is a frame of its own.
SealChunk(c, n) ==
    IF ~opt.variable THEN c
    ELSE LET sealed(a) == Seal([a EXCEPT !.chunks = Append(@, n)])
         IN [c EXCEPT !.blk = sealed(@), !.alt = IF c.altOK THEN sealed(@) ELSE @]

\* flushGranuleInt64: the granule's bounds become a mark, or a chunk's bounds in the directory.
FlushGranuleInt64(c, vs) ==
    LET k == KeyBounds(vs)
        b == [c EXCEPT !.marks = IF opt.variable THEN @
                                 ELSE Append(@, [first |-> c.encoded, lo |-> k.lo, hi |-> k.hi]),
                       !.blk.keys = IF Bounded THEN Append(@, k) ELSE @,
                       !.encoded = @ + Len(vs)]
    IN MaybeAttach(SealChunk([b EXCEPT !.blk = AddGranule(@, AppendBlockStream("dod", vs))], Len(vs)))

\* flushGranuleFloat64: both codecs side by side until the decimal one fails to round-trip.
FlushGranuleFloat64(c, vs) ==
    LET b == [c EXCEPT !.blk = AddGranule(@, AppendBlockStream("gorilla", vs)),
                       !.alt = IF c.altOK THEN AddGranule(@, AppendBlockStream("decimal", vs)) ELSE @]
        kept == IF c.altOK /\ ~DecimalRoundTrips(vs) THEN DisableAlt(b) ELSE b
    IN MaybeAttach(SealChunk(kept, Len(vs)))

SealRaw(c, vs) == MaybeAttach([c EXCEPT !.blk = AddGranule(@, AppendBlockStream("raw", vs))])

\* sealDict: the granule joins the column dictionary whole or carries its own.
SealDict(c, vs) ==
    LET j == AddValues(c.entries, vs)
    IN MaybeAttach([c EXCEPT !.entries = j.entries, !.seen = @ \cup ToSet(vs),
                             !.blk = AddGranule(@, DictGranuleStream(j.joined, j.entries, vs))])

FlushGranule(c, vs) ==
    CASE opt.kind = "int" -> FlushGranuleInt64(c, vs)
      [] opt.kind = "auto" -> FlushGranuleFloat64(c, vs)
      [] opt.kind = "raw" -> SealRaw(c, vs)
      [] OTHER -> SealDict(c, vs)

FlushStage(c) == IF c.stage = <<>> THEN c ELSE [FlushGranule(c, c.stage) EXCEPT !.stage = <<>>]

\* appendByteValue: a bytes row is staged and, at a granule's worth, sealed before the next.
AppendRow(c, v) ==
    LET b == [c EXCEPT !.stage = Append(@, v), !.seen = IF opt.kind = "dict" THEN @ ELSE @ \cup {v}]
    IN IF Len(b.stage) >= Granule THEN FlushStage(b) ELSE b

\* appendInt64 and appendFloat64: the call's rows are tracked and staged, then cut into granules.
AppendNumbers(c, vs) ==
    LET staged == c.stage \o vs
        whole == Len(staged) \div Granule
        cut[i \in 0 .. whole] ==
            IF i = 0 THEN [c EXCEPT !.seen = @ \cup ToSet(vs)]
            ELSE FlushGranule(cut[i - 1], SubSeq(staged, (i - 1) * Granule + 1, i * Granule))
    IN [cut[whole] EXCEPT !.stage = SubSeq(staged, whole * Granule + 1, Len(staged))]

AppendTo(c, vs) == IF opt.kind \in {"int", "auto"} THEN AppendNumbers(c, vs) ELSE FoldLeft(AppendRow, c, vs)

----------------------------------------------------------------------------
(* What a finished column is described by.                                     *)

Plain(n) ==
    [kind |-> opt.kind, codec |-> Codec(opt.kind), const |-> FALSE, cval |-> 0, blocked |-> FALSE,
     framed |-> FALSE, footer |-> FALSE, shared |-> FALSE, trailer |-> FALSE, dictOff |-> 0, dictLen |-> 0,
     dictRaw |-> 0, dictEntries |-> 0, variable |-> FALSE, maxRows |-> 0, bounds |-> FALSE,
     compact |-> FALSE, sizing |-> NoSizing, bytes |-> 0, rows |-> n, lo |-> 0, hi |-> 0]

Stated(d, vs) ==
    IF opt.kind # "int" \/ vs = <<>> THEN d
    ELSE [d EXCEPT !.lo = KeyBounds(vs).lo, !.hi = KeyBounds(vs).hi]

Constant(vs) == vs # <<>> /\ Cardinality(ToSet(vs)) = 1

SizingOf(a, n) == IF opt.sizing THEN Sizing(a, n) ELSE NoSizing

NoColumn == [dirLen |-> 0, granules |-> 0, frames |-> 0, maxFrame |-> 0, maxFrameRaw |-> 0, maxGranuleRaw |-> 0]

\* unframedColumn and sealStream.
UnframedColumn(d, stream) ==
    LET obj == Pack(stream) \o <<Sum>>
    IN [desc |-> [d EXCEPT !.bytes = Len(obj), !.sizing =
                      IF opt.sizing THEN NoColumn @@ [streamRaw |-> Len(stream)] ELSE NoSizing],
        obj |-> obj]

\* finishDict and encodeTrailerDictBytes' tail: frames, the dictionary region, the directory.
TrailerOf(d, a, entries, region, dir, obj) ==
    [desc |-> [d EXCEPT !.blocked = TRUE, !.framed = TRUE, !.shared = TRUE, !.footer = TRUE, !.trailer = TRUE,
                        !.dictOff = Bytes(a), !.dictLen = Len(region), !.dictRaw = Len(entries),
                        !.dictEntries = Len(entries), !.sizing = SizingOf(a, Len(dir)), !.bytes = Len(obj)],
     obj |-> obj]

TrailerWith(d, a, entries, region, dir) == TrailerOf(d, a, entries, region, dir, FinishAccum(a, region, dir))

TrailerColumn(d, a, entries) == TrailerWith(d, a, entries, DictRegion(entries), EncodeDir(a, FALSE, FALSE, FALSE).dir)

FramedOf(d, a, e, obj) ==
    [desc |-> [d EXCEPT !.blocked = TRUE, !.framed = TRUE, !.footer = a.sink, !.variable = opt.variable,
                        !.maxRows = IF opt.variable THEN Granule ELSE 0, !.bounds = Bounded,
                        !.compact = e.packed, !.sizing = SizingOf(a, Len(e.dir)), !.bytes = Len(obj)],
     obj |-> obj]

FramedWith(d, a, e) == FramedOf(d, a, e, FinishAccum(a, <<>>, e.dir))

FramedColumn(d, a) == FramedWith(d, a, EncodeDir(a, opt.variable, Bounded, opt.sizing))

ConstColumn(d, v) == [desc |-> [d EXCEPT !.const = TRUE, !.cval = v], obj |-> None]

\* streamColumn.finish
FinishWith(c, d, sealed) ==
    IF Constant(vals) THEN ConstColumn(d, vals[1])
    ELSE IF opt.kind = "dict"
    THEN IF c.entries = <<>> /\ ~sealed.sink
         THEN UnframedColumn(d, AppendBlockStream("dict", vals))
         ELSE TrailerColumn(d, sealed, c.entries)
    ELSE IF opt.kind = "auto" /\ c.altOK /\ Bytes(c.alt) < Bytes(c.blk)
    THEN FramedColumn([d EXCEPT !.codec = "decimal"], Seal(c.alt))
    ELSE FramedColumn(d, sealed)

FinishColumn(c) == FinishWith(c, Stated(Plain(Len(vals)), vals), Seal(c.blk))

----------------------------------------------------------------------------
(* PartWriter: the whole column at once.                                       *)

Cut(vs) == [g \in 1 .. (Len(vs) + Granule - 1) \div Granule |->
               SubSeq(vs, (g - 1) * Granule + 1, Min({g * Granule, Len(vs)}))]

AccumulateBlocked(streams) == Seal(FoldLeft(AddGranule, NewBlockAccum, streams))

\* encodeTrailerDictBytes: every granule is tried against the dictionary before any is written.
EncodeTrailerDictBytes(d, vs) ==
    LET gs == Cut(vs)
        tried[g \in 0 .. Len(gs)] ==
            IF g = 0 THEN [joined |-> FALSE, entries |-> <<>>] ELSE AddValues(tried[g - 1].entries, gs[g])
        stream == [g \in DOMAIN gs |-> DictGranuleStream(tried[g].joined, tried[g].entries, gs[g])]
    IN IF \A g \in DOMAIN gs : ~tried[g].joined
       THEN UnframedColumn(d, AppendBlockStream("dict", vs))
       ELSE TrailerColumn(d, AccumulateBlocked(stream), tried[Len(gs)].entries)

ChooseFloatCodec(vs) ==
    IF /\ Len(Pack(AppendBlockStream("decimal", vs))) < Len(Pack(AppendBlockStream("gorilla", vs)))
       /\ DecimalRoundTrips(vs)
    THEN "decimal" ELSE "gorilla"

BuildColumn(vs) ==
    LET d == Stated(Plain(Len(vs)), vs)
        codec == IF opt.kind = "auto" THEN ChooseFloatCodec(vs) ELSE Codec(opt.kind)
        gs == Cut(vs)
    IN IF Constant(vs) THEN ConstColumn(d, vs[1])
       ELSE IF opt.kind = "dict" THEN EncodeTrailerDictBytes(d, vs)
       ELSE FramedColumn([d EXCEPT !.codec = codec],
                         AccumulateBlocked([g \in DOMAIN gs |-> AppendBlockStream(codec, gs[g])]))

\* A part of the layout before frames, as an older release left it.
LegacyColumn(vs) ==
    LET d == Stated(Plain(Len(vs)), vs)
        gs == Cut(vs)
        blocks == [g \in DOMAIN gs |-> Pack(AppendBlockStream(d.codec, gs[g]))]
        obj == <<Len(gs), Granule>> \o [g \in DOMAIN gs |-> Len(blocks[g])] \o FlattenSeq(blocks)
    IN [desc |-> [d EXCEPT !.blocked = TRUE], obj |-> obj]

----------------------------------------------------------------------------
(* Marks and manifest.                                                         *)

BuildMarks(vs) ==
    LET gs == Cut(vs)
    IN [g \in DOMAIN gs |-> [first |-> (g - 1) * Granule, lo |-> KeyBounds(gs[g]).lo, hi |-> KeyBounds(gs[g]).hi]]

EncodeMarks(ms) ==
    <<1, Granule, Len(ms)>> \o
    FlattenSeq([i \in DOMAIN ms |-> <<ms[i].first, ZigZag(ms[i].lo - (IF i = 1 THEN 0 ELSE ms[i - 1].lo)),
                                      ZigZag(ms[i].hi - ms[i].lo)>>]) \o <<Sum>>

\* A mutant of DecodeMarks: each minimum is taken for the delta it is stored as.
DecodeMarksFlat(s) ==
    [i \in 1 .. s[3] |-> LET l == UnZigZag(s[3 * i + 2])
                         IN [first |-> s[3 * i + 1], lo |-> l, hi |-> l + UnZigZag(s[3 * i + 3])]]

DecodeMarks(s) ==
    LET lo[i \in 0 .. s[3]] == IF i = 0 THEN 0 ELSE lo[i - 1] + UnZigZag(s[3 * i + 2])
    IN [i \in 1 .. s[3] |-> [first |-> s[3 * i + 1], lo |-> lo[i], hi |-> lo[i] + UnZigZag(s[3 * i + 3])]]

Overlapping(ms, lo, hi) == { m \in ToSet(ms) : m.hi >= lo /\ m.lo <= hi }

Flags(d) ==
    { f \in {"const", "blocked", "framed", "footer", "shared", "bytes"} :
        CASE f = "bytes" -> d.bytes # 0 [] OTHER -> d[f] }

XFlags(d) ==
    { x \in {"variable", "bounds", "compact", "trailer", "sizing"} :
        CASE x = "sizing" -> Sized(d) [] OTHER -> d[x] }

WriterVersion(d) == IF opt.writer = "legacy" THEN 1 ELSE IF XFlags(d) # {} THEN 3 ELSE 2

\* encodeOptions: the optional fields, in the order the decoder takes them.
EncodeOptions(d, flags, x) ==
    (IF "bytes" \in flags THEN <<d.bytes>> ELSE <<>>) \o
    (IF "trailer" \in x THEN <<d.dictOff, d.dictLen, d.dictRaw, d.dictEntries>> ELSE <<>>) \o
    (IF "sizing" \in x THEN <<d.sizing>> ELSE <<>>) \o
    (IF "variable" \in x THEN <<d.maxRows>> ELSE <<>>)

\* Manifest.Encode
EncodeManifest(d) ==
    LET v == WriterVersion(d)
        x == IF v >= 3 THEN XFlags(d) ELSE {}
    IN <<v, d.rows, d.kind, d.codec, Flags(d), x>> \o EncodeOptions(d, Flags(d), x)
       \o (IF d.kind = "int" THEN <<d.lo, d.hi>> ELSE <<>>)
       \o (IF d.const THEN <<d.cval>> ELSE <<>>)

\* setTrailerDict: what the reader refuses of a dictionary's place and size.
TrailerRefused(d) ==
    \/ d.kind # "dict" \/ ~d.blocked \/ ~d.framed \/ ~d.footer \/ ~d.shared \/ d.bytes <= 0 \/ d.const
    \/ d.dictEntries > MaxEntries
    \/ d.dictEntries > d.dictRaw
    \/ d.dictOff + d.dictLen > d.bytes - 1
    \/ d.dictLen < 4
    \/ d.dictLen > d.dictRaw + 4

\* setSizing and checkSizing
SizingRefused(d) ==
    LET s == d.sizing
    IN \/ d.const \/ d.bytes <= 0
       \/ ~d.blocked /\ s # NoColumn @@ [streamRaw |-> s.streamRaw]
       \/ /\ d.blocked
          /\ \/ ~d.framed
             \/ d.trailer /\ s.dirLen # d.bytes - d.dictOff - d.dictLen - 1
             \/ s.dirLen > d.bytes - (IF d.footer THEN 1 ELSE 0)
             \/ s.frames > s.granules
             \/ s.granules > d.rows
             \/ ~d.compact /\ s.granules > s.dirLen
             \/ s.maxFrame > d.bytes
             \/ s.maxGranuleRaw > s.maxFrameRaw

\* decodeVariableRows and decodeChunkOptions
ChunksRefused(d) ==
    \/ d.variable /\ ( d.maxRows = 0 \/ ~d.blocked \/ ~d.framed \/ d.shared \/ ~Sized(d) \/ d.const
                       \/ d.kind \notin {"int", "auto"} )
    \/ d.compact /\ ~d.variable
    \/ d.bounds /\ (~d.variable \/ d.kind # "int")

\* A mutant of DecodeColumnDesc: the recorded sizes are expected before the dictionary's place.
DecodeColumnDescSwapped(m) ==
    [Plain(m[2]) EXCEPT !.kind = m[3], !.codec = m[4], !.const = "const" \in m[5], !.trailer = "trailer" \in m[6],
                        !.sizing = IF {"trailer", "sizing"} \subseteq m[6] THEN [NoSizing EXCEPT !.dirLen = 1] ELSE @]

\* decodeColumnDesc: the optional fields are taken in the order encodeOptions put them.
DecodeColumnDesc(m) ==
    LET flags == m[5]
        x == m[6]
        nb == IF "bytes" \in flags THEN 1 ELSE 0
        nt == IF "trailer" \in x THEN 4 ELSE 0
        ns == IF "sizing" \in x THEN 1 ELSE 0
        nv == IF "variable" \in x THEN 1 ELSE 0
        at == 6 + nb
        stats == at + nt + ns + nv
        nk == IF m[3] = "int" THEN 2 ELSE 0
    IN [kind |-> m[3], codec |-> m[4], rows |-> m[2], const |-> "const" \in flags,
        blocked |-> "blocked" \in flags, framed |-> "framed" \in flags, footer |-> "footer" \in flags,
        shared |-> "shared" \in flags, trailer |-> "trailer" \in x, variable |-> "variable" \in x,
        bounds |-> "bounds" \in x, compact |-> "compact" \in x,
        bytes |-> IF nb = 1 THEN m[7] ELSE 0,
        dictOff |-> IF nt = 4 THEN m[at + 1] ELSE 0, dictLen |-> IF nt = 4 THEN m[at + 2] ELSE 0,
        dictRaw |-> IF nt = 4 THEN m[at + 3] ELSE 0, dictEntries |-> IF nt = 4 THEN m[at + 4] ELSE 0,
        sizing |-> IF ns = 1 THEN m[at + nt + 1] ELSE NoSizing,
        maxRows |-> IF nv = 1 THEN m[at + nt + ns + 1] ELSE 0,
        lo |-> IF nk = 2 THEN m[stats + 1] ELSE 0, hi |-> IF nk = 2 THEN m[stats + 2] ELSE 0,
        cval |-> IF "const" \in flags THEN m[stats + nk + 1] ELSE 0]

\* decodeColumnExt: what a descriptor's extensions may not say.
ExtRefused(version, d) ==
    \/ d.trailer /\ TrailerRefused(d)
    \/ Sized(d) /\ SizingRefused(d)
    \/ version >= 3 /\ d.shared /\ d.footer /\ ~d.trailer

Accepted(version, d) ==
    IF version \notin 1 .. 3 \/ ExtRefused(version, d) \/ ChunksRefused(d) THEN Corrupt
    ELSE [ok |-> TRUE, desc |-> d]

DecodeManifest(m) == Accepted(m[1], DecodeColumnDesc(m))

----------------------------------------------------------------------------
(* ColumnReader: an object read whole.                                         *)

Desc == DecodeManifest(store.manifest).desc

SharedEntries(object, d) ==
    IF ~d.trailer THEN Rows(<<>>)
    ELSE IF d.dictOff + d.dictLen > Len(object) THEN Corrupt
    ELSE ParseSharedDict(SubSeq(object, d.dictOff + 1, d.dictOff + d.dictLen), d)

DecodeFramed(d, desc, entries, b, frame) ==
    IF ~frame.ok THEN Corrupt ELSE DecodeGranule(desc, entries, d, b, GranuleStream(d, b, frame.rows))

GranuleInMemory(d, desc, entries, b) == DecodeFramed(d, desc, entries, b, FrameInMemory(d, d.gFrame[b]))

Joined(parts) ==
    IF \E i \in DOMAIN parts : ~parts[i].ok THEN Corrupt
    ELSE Rows(FlattenSeq([i \in DOMAIN parts |-> parts[i].rows]))

\* decodeBlockedColumn, decodeBlockedBytes and the cursors: every block, in order.
DecodeBlocks(d, sd, desc, blocks) ==
    IF ~d.ok \/ ~sd.ok THEN Corrupt
    ELSE Joined([i \in DOMAIN blocks |-> GranuleInMemory(d, desc, sd.rows, blocks[i])])

Column(desc) ==
    IF desc.bytes > 0 /\ Len(store.col) # desc.bytes THEN Corrupt ELSE Rows(store.col)

DecodeUnframed(object, desc) ==
    IF Damaged(object) THEN Corrupt
    ELSE LET s == Unpack(SubSeq(object, 1, Len(object) - 1))
         IN IF Sized(desc) /\ Len(s) # desc.sizing.streamRaw THEN Corrupt ELSE Rows(DecodeStream(desc.codec, s))

ReadColumn(desc) ==
    IF desc.const THEN Rows([i \in 1 .. desc.rows |-> desc.cval])
    ELSE IF ~Column(desc).ok THEN Corrupt
    ELSE IF ~desc.blocked THEN DecodeUnframed(store.col, desc)
    ELSE LET d == ParseBlockDir(store.col, desc)
         IN DecodeBlocks(d, SharedEntries(store.col, desc), desc, [b \in 1 .. d.granules |-> b])

ReadWhole == ReadColumn(Desc)

\* A mutant of CutRows: rows are cut as if the range's first row began its block.
CutRowsAtBlock(all, lo, hi, base) ==
    IF ~all.ok THEN Corrupt ELSE Rows(SubSeq(all.rows, 1, hi - lo))

CutRows(all, lo, hi, base) ==
    IF ~all.ok \/ (all.ok /\ hi - base > Len(all.rows)) THEN Corrupt
    ELSE Rows(SubSeq(all.rows, lo - base + 1, hi - base))

RangeOfBlocks(d, desc, lo, hi, first) ==
    CutRows(DecodeBlocks(d, SharedEntries(store.col, desc), desc,
                         [i \in 1 .. BlockAt(d, hi - 1) - first + 1 |-> first + i - 1]),
            lo, hi, Span(d, first, desc.rows).lo)

RangeIn(d, desc, lo, hi) == IF ~d.ok THEN Corrupt ELSE RangeOfBlocks(d, desc, lo, hi, BlockAt(d, lo))

\* decodeRange and decodeBlockedRange over rows [lo, hi).
ReadRangeOf(desc, lo, hi) ==
    IF desc.const \/ ~desc.blocked \/ ~Column(desc).ok
    THEN CutRows(ReadColumn(desc), lo, hi, 0)
    ELSE RangeIn(ParseBlockDir(store.col, desc), desc, lo, hi)

ReadRange(lo, hi) == ReadRangeOf(Desc, lo, hi)

----------------------------------------------------------------------------
(* Decoder: the directory by itself, frames fetched as blocks are asked for.   *)

ReadAt(object, off, n) == SubSeq(object, off + 1, Min({off + n, Len(object)}))

At(d, off) == IF d.ok THEN d @@ [dataOff |-> off] ELSE Corrupt

\* readTrailerDir
ReadTrailerDir(object, desc) ==
    LET tail == ReadAt(object, desc.dictOff, desc.bytes - desc.dictOff)
        end == Len(tail) - 1
    IN IF Len(tail) # desc.bytes - desc.dictOff \/ (tail # <<>> /\ FooterLen(tail) # end - desc.dictLen) THEN Corrupt
       ELSE At(ParseDetachedDir(SubSeq(tail, desc.dictLen + 1, end), desc.dictOff, desc), 0)

\* readFooterDir: a probe of the tail, and a second read when the directory is longer.
ReadFooterDir(object, desc) ==
    LET size == desc.bytes
        probe == Min({size, IF Sized(desc) THEN desc.sizing.dirLen + 1 ELSE Probe})
        tail == ReadAt(object, size - probe, probe)
        dirLen == Last(tail)
        frames == size - 1 - dirLen
    IN IF Len(tail) # probe \/ (tail # <<>> /\ (dirLen = Bad \/ dirLen > size - 1)) THEN Corrupt
       ELSE LET raw == IF dirLen > probe - 1 THEN ReadAt(object, frames, dirLen) ELSE SubSeq(tail, probe - dirLen, probe - 1)
            IN IF Len(raw) # dirLen THEN Corrupt ELSE At(ParseDetachedDir(raw, frames, desc), 0)

LeadingAt(d, desc) ==
    IF ~d.ok THEN Corrupt
    ELSE IF (Sized(desc) /\ d.pos # desc.sizing.dirLen) \/ d.pos + d.total # desc.bytes THEN Corrupt
    ELSE At(d, d.pos)

\* readLeadingDir: the counts in the probe say how much more to read.
ReadLeadingDir(object, desc) ==
    LET size == desc.bytes
        probe == ReadAt(object, 0, Min({size, IF Sized(desc) THEN desc.sizing.dirLen ELSE Probe}))
        counted == ~Damaged(SubSeq(probe, 1, 3))
        raw == IF Sized(desc) \/ ~counted THEN probe
               ELSE ReadAt(object, 0, Min({size, Max({Len(probe), Probe + 3 * probe[3] + probe[1]})}))
    IN IF desc.compact THEN At(ParseDetachedDir(raw, size - Len(raw), desc), Len(raw))
       ELSE LeadingAt(ParseFields(raw, desc), desc)

ReadBlockDir(object, desc) ==
    CASE desc.trailer -> ReadTrailerDir(object, desc)
      [] desc.footer /\ ~desc.trailer -> ReadFooterDir(object, desc)
      [] OTHER -> ReadLeadingDir(object, desc)

\* readSharedDict: the dictionary's region by itself.
ReadSharedDict(object, desc) ==
    IF ~desc.trailer THEN Rows(<<>>)
    ELSE LET region == ReadAt(object, desc.dictOff, desc.dictLen)
         IN IF Len(region) # desc.dictLen THEN Corrupt ELSE ParseSharedDict(region, desc)

\* frameSource.fill: frame f and the whole ones after it that fit the window.
Fill(d, window, f) ==
    LET fits == { j \in f + 1 .. Len(d.frameOff) - 1 : d.frameOff[j + 1] - d.frameOff[f] <= window }
    IN [lo |-> d.frameOff[f], hi |-> d.frameOff[Max({f} \cup { j \in fits : \A k \in f + 1 .. j : k \in fits }) + 1]]

\* A mutant of Fetched: a held window is read from its start, whichever frame is asked for.
FetchedFirst(r, f) ==
    LET off == r.d.frameOff[f]
        n == r.d.frameOff[f + 1] - off
        want == IF r.window = 0 THEN [lo |-> off, hi |-> off + n] ELSE Fill(r.d, r.window, f)
        held == r.window > 0 /\ off >= r.lo /\ off + n <= r.hi
        data == IF held THEN r.ahead ELSE ReadAt(store.col, r.d.dataOff + want.lo, want.hi - want.lo)
    IN [lo |-> IF held THEN r.lo ELSE want.lo, hi |-> IF held THEN r.hi ELSE want.hi, ahead |-> data,
        short |-> Len(data) < n, raw |-> ReadAt(data, 0, n)]

\* frameSource.frame, readAhead and read: the frame's tokens and what the window now holds.
Fetched(r, f) ==
    LET off == r.d.frameOff[f]
        n == r.d.frameOff[f + 1] - off
        want == IF r.window = 0 THEN [lo |-> off, hi |-> off + n] ELSE Fill(r.d, r.window, f)
        held == r.window > 0 /\ off >= r.lo /\ off + n <= r.hi
        data == ReadAt(store.col, r.d.dataOff + want.lo, want.hi - want.lo)
    IN IF held
       THEN [lo |-> r.lo, hi |-> r.hi, ahead |-> r.ahead, short |-> FALSE, raw |-> SubSeq(r.ahead, off - r.lo + 1, off - r.lo + n)]
       ELSE IF Len(data) # want.hi - want.lo
       THEN [lo |-> 0, hi |-> 0, ahead |-> <<>>, short |-> TRUE, raw |-> <<>>]
       ELSE [lo |-> want.lo, hi |-> want.hi, ahead |-> data, short |-> FALSE, raw |-> SubSeq(data, 1, n)]

\* blockStreams.granule: the frame last decoded is kept until a block of another is asked for.
Kept(r, f, plain) ==
    IF plain.ok THEN [r |-> [r EXCEPT !.frame = f, !.buf = plain.rows], ok |-> TRUE] ELSE [r |-> r, ok |-> FALSE]

LoadFetched(r, f, got) ==
    Kept([r EXCEPT !.lo = got.lo, !.hi = got.hi, !.ahead = got.ahead], f,
         IF got.short \/ Damaged(got.raw) THEN Corrupt ELSE Decompressed(r.d, f, got.raw))

LoadFrame(r, f) == IF r.frame = f THEN [r |-> r, ok |-> TRUE] ELSE LoadFetched(r, f, Fetched(r, f))

----------------------------------------------------------------------------
Empty == [col |-> None, marks |-> None, manifest |-> None]

Init ==
    /\ opt \in Option
    /\ vals = <<>>
    /\ col = [stage |-> <<>>, blk |-> NewBlockAccum, alt |-> NewBlockAccum, altOK |-> opt.kind = "auto",
              seen |-> {}, streaming |-> FALSE, entries |-> <<>>, marks |-> <<>>, encoded |-> 0]
    /\ pc = "open"
    /\ built = <<>>
    /\ store = Empty
    /\ fault = FALSE
    /\ dec = None
    /\ out = None

AppendChunk(vs) ==
    /\ pc = "open"
    /\ Len(vals) + Len(vs) <= MaxRows
    /\ vals' = vals \o vs
    /\ col' = IF opt.writer \in {"stream", "kept"} THEN AppendTo(col, vs) ELSE col
    /\ UNCHANGED <<opt, pc, built, store, fault, dec, out>>

\* EndGroup closes the chunk of every column.
EndGroup ==
    /\ pc = "open"
    /\ opt.variable
    /\ col.stage # <<>>
    /\ col' = FlushStage(col)
    /\ UNCHANGED <<opt, vals, pc, built, store, fault, dec, out>>

\* A write to the open object fails, and the caller aborts the writer.
AppendFails ==
    /\ pc = "open"
    /\ opt.writer = "stream"
    /\ col.streaming
    /\ pc' = "failed"
    /\ col' = NewColumn
    /\ UNCHANGED <<opt, vals, built, store, fault, dec, out>>

\* PartWriter.build
PartBuild ==
    [column |-> IF opt.writer = "legacy" THEN LegacyColumn(vals) ELSE BuildColumn(vals), sent |-> FALSE,
     marks |-> IF opt.kind = "int" THEN BuildMarks(vals) ELSE <<>>]

\* StreamWriter.build: a column whose object is open is committed to the store here.
StreamBuilt(c, b) == [column |-> b, sent |-> b.desc.footer /\ col.streaming, marks |-> c.marks]

StreamFlushed(c) == StreamBuilt(c, FinishColumn(c))

StreamBuild == StreamFlushed(FlushStage(col))

\* WritePart and WriteStreamPart up to the first object.
Publishing(p) ==
    /\ built' = (IF p.column.obj = None \/ p.sent THEN <<>> ELSE << [key |-> "col", obj |-> p.column.obj] >>)
                \o << [key |-> "marks", obj |-> EncodeMarks(p.marks)],
                      [key |-> "manifest", obj |-> EncodeManifest(p.column.desc)] >>
    /\ store' = IF p.sent THEN [store EXCEPT !.col = p.column.obj] ELSE store

Build ==
    /\ pc = "open"
    /\ vals # <<>>
    /\ Publishing(IF opt.writer \in {"whole", "legacy"} THEN PartBuild ELSE StreamBuild)
    /\ pc' = "built"
    /\ col' = NewColumn
    /\ UNCHANGED <<opt, vals, fault, dec, out>>

\* A mutant of WriteNext: the manifest goes out before what it names.
WriteNextManifestFirst ==
    /\ pc = "built"
    /\ LET o == Last(built) IN store' = [store EXCEPT ![o.key] = o.obj]
    /\ built' = Front(built)
    /\ pc' = IF Len(built) = 1 THEN "done" ELSE "built"
    /\ UNCHANGED <<opt, vals, col, fault, dec, out>>

\* builtPart.write: columns, marks, then the manifest that makes the part present.
WriteNext ==
    /\ pc = "built"
    /\ LET o == Head(built) IN store' = [store EXCEPT ![o.key] = o.obj]
    /\ built' = Tail(built)
    /\ pc' = IF Len(built) = 1 THEN "done" ELSE "built"
    /\ UNCHANGED <<opt, vals, col, fault, dec, out>>

\* The process dies, or a write fails, with the part half published.
Stop ==
    /\ pc \in {"built", "deleting"}
    /\ pc' = "failed"
    /\ built' = <<>>
    /\ UNCHANGED <<opt, vals, col, store, fault, dec, out>>

\* DeletePart: the manifest goes first, whatever follows.
DeleteManifest ==
    /\ pc \in {"done", "failed"}
    /\ store # Empty
    /\ ~fault
    /\ dec = None
    /\ out = None
    /\ store' = [store EXCEPT !.manifest = None]
    /\ pc' = "deleting"
    /\ UNCHANGED <<opt, vals, col, built, fault, dec, out>>

DeleteRest(k) ==
    /\ pc = "deleting"
    /\ store[k] # None
    /\ store' = [store EXCEPT ![k] = None]
    /\ UNCHANGED <<opt, vals, col, pc, built, fault, dec, out>>

\* The stored object loses a token or its tail.
Damage(i) ==
    /\ pc = "done"
    /\ ~fault
    /\ opt.writer # "legacy"
    /\ store.col # None
    /\ i \in DOMAIN store.col
    /\ store' = [store EXCEPT !.col = IF i = Len(store.col) THEN Front(@) ELSE [@ EXCEPT ![i] = Bad]]
    /\ fault' = TRUE
    /\ UNCHANGED <<opt, vals, col, pc, built, dec, out>>

\* ColumnBlocks and ColumnScan: a decoder over ranges of the stored object.
Opened(d, sd, window) ==
    IF d.ok /\ sd.ok
    THEN /\ dec' = [d |-> d, window |-> window, frame |-> 0, buf |-> <<>>, lo |-> 0, hi |-> 0,
                    ahead |-> <<>>, entries |-> sd.rows]
         /\ out' = None
    ELSE dec' = None /\ out' = [block |-> 0, got |-> Corrupt]

OpenOn(desc, window) ==
    /\ ~desc.const
    /\ desc.blocked
    /\ desc.framed
    /\ Opened(ReadBlockDir(store.col, desc), ReadSharedDict(store.col, desc), window)

OpenDecoder(window) ==
    /\ pc = "done"
    /\ dec = None
    /\ OpenOn(Desc, window)
    /\ UNCHANGED <<opt, vals, col, pc, built, store, fault>>

Decoded(b, l) ==
    /\ dec' = l.r
    /\ out' = [block |-> b, got |->
                 IF ~l.ok THEN Corrupt
                 ELSE DecodeGranule(Desc, dec.entries, dec.d, b, GranuleStream(dec.d, b, l.r.buf))]

DecodeBlock(b) ==
    /\ dec # None
    /\ b \in 1 .. dec.d.granules
    /\ Decoded(b, LoadFrame(dec, dec.d.gFrame[b]))
    /\ UNCHANGED <<opt, vals, col, pc, built, store, fault>>

Next ==
    \/ \E vs \in UNION { [1 .. n -> Value] : n \in 1 .. MaxChunk } : AppendChunk(vs)
    \/ EndGroup
    \/ AppendFails
    \/ Build
    \/ WriteNext
    \/ Stop
    \/ DeleteManifest
    \/ \E k \in {"col", "marks"} : DeleteRest(k)
    \/ store.col # None /\ \E i \in {2, Len(store.col) \div 2, Len(store.col)} : Damage(i)
    \/ \E w \in {0, Window} : OpenDecoder(w)
    \/ dec # None /\ \E b \in 1 .. dec.d.granules : DecodeBlock(b)

Spec == Init /\ [][Next]_vars

----------------------------------------------------------------------------
TypeOK ==
    /\ opt \in Option
    /\ vals \in Seq(Value) /\ Len(vals) <= MaxRows
    /\ pc \in {"open", "built", "done", "failed", "deleting"}
    /\ fault \in BOOLEAN

Present == store.manifest # None

\* A part whose manifest is present is whole: its marks are there and its column is, unless the
\* manifest holds the column's one value.  builtPart.write puts the manifest last and DeletePart
\* takes it first, so neither a crash between two writes nor one between two deletes leaves a part
\* that opens and then fails.
PartWhole ==
    Present => /\ store.marks # None
               /\ DecodeManifest(store.manifest).ok => (Desc.const \/ store.col # None)

\* The reader accepts every manifest a writer builds, and reads the descriptor it described: the
\* limits setTrailerDict, checkSizing and decodeChunkOptions hold a stored descriptor to are ones
\* the writers keep, whichever layout the rows led to.
ManifestAccepted ==
    Present => /\ DecodeManifest(store.manifest).ok
               /\ Desc.rows = Len(vals)
               /\ fault \/ Desc.const \/ Desc.bytes = Len(store.col) \/ opt.writer = "legacy"

Exact(r, rows) == (r.ok \/ fault) /\ (r.ok => r.rows = rows)

\* Reading the column whole, or any range of its rows, gives exactly the rows the writer was given,
\* in order: however the appends were cut, wherever frames ended, and whichever codec and dictionary
\* the granules took.  A damaged object is either refused or, where the damage is outside what was
\* read, still read exactly.
ReadsExact ==
    (Present /\ dec = None /\ out = None) =>
        /\ Exact(ReadWhole, vals)
        /\ \A lo \in 0 .. Len(vals) - 1 : \A hi \in lo + 1 .. Len(vals) :
              Exact(ReadRange(lo, hi), SubSeq(vals, lo + 1, hi))

\* A decoder that fetches frames by range, with or without a read-ahead window, returns each block's
\* own rows in whatever order blocks are asked for: the kept frame and the kept window never serve a
\* block they do not hold, and damage is refused rather than decoded.
ScanExact ==
    out # None =>
        /\ out.got.ok => out.got.rows = LET s == Span(dec.d, out.block, Len(vals)) IN SubSeq(vals, s.lo + 1, s.hi)
        /\ out.got.ok \/ fault

ChunkHolds(d, row) == d.keys[BlockAt(d, row)].lo <= vals[row + 1] /\ vals[row + 1] <= d.keys[BlockAt(d, row)].hi

\* No mark and no chunk bound rules out a granule that holds a row of the asked time range.
PruningSafe ==
    (Present /\ dec = None /\ opt.kind = "int") =>
        \A row \in 0 .. Len(vals) - 1 :
            IF ~opt.variable
            THEN \E m \in Overlapping(DecodeMarks(store.marks), vals[row + 1], vals[row + 1]) :
                    m.first <= row /\ row < m.first + Granule
            ELSE (~fault /\ ~Desc.const) => ChunkHolds(ParseBlockDir(store.col, Desc), row)
=============================================================================
