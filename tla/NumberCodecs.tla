---------------------------- MODULE NumberCodecs ----------------------------
(* encoding/chunk: the codecs of number columns.  Timestamps go by delta of     *)
(* delta, scaled to the coarsest unit that divides them or, at a constant       *)
(* stride, by that stride alone; floats by XOR with the previous one or as      *)
(* scaled decimals, each group of a column by whichever is exact and shorter;   *)
(* integers by transposed bit planes; ids by runs.  A writer encodes a column,  *)
(* the stream may lose its end, and readers decode it whole or through a        *)
(* cursor, a row at a time.                                                     *)
EXTENDS BitStream

CONSTANTS Buckets,      \* the bits of the delta-of-delta's three short forms
          Scales,       \* the units a timestamp column is scaled by, coarsest first
          LeadBits, SigBits,  \* the fields of an XOR window
          Unit, Small, FineDigits, CoarseDigits, Magnitudes,  \* the floats: see FloatValue
          MaxRows,      \* MaxFloatGroupRows
          Jobs          \* the columns written: [kind, vals, ...]

CONSTANTS None, Err

VARIABLES job, stream, cut, out, cur, got

vars == <<job, stream, cut, out, cur, got>>

Refused == [ok |-> FALSE, vals |-> <<>>, used |-> 0]

Decoded(vals, used) == [ok |-> TRUE, vals |-> vals, used |-> used]

\* A fold over the rows of a column that stops at the first read that fails.
Rows(n, first, Step(_, _)) ==
    LET read[i \in 0 .. n] ==
            IF i = 0 THEN first ELSE LET a == read[i - 1] IN IF a.ok THEN Step(a, i) ELSE a
    IN read[n]

Result(a, consumed) == IF a.ok THEN Decoded(a.dst, consumed + ConsumedBytes(a.r)) ELSE Refused

-----------------------------------------------------------------------------
(* Timestamps                                                                  *)

BitRange(x, n) == -(2 ^ (n - 1) - 1) <= x /\ x <= 2 ^ (n - 1)

\* A mutant of SignExtend: the two's complement reading of a bucket.
SignExtendTwos(u, n) == IF u >= 2 ^ (n - 1) THEN u - 2 ^ n ELSE u

SignExtend(u, n) == IF u > 2 ^ (n - 1) THEN u - 2 ^ n ELSE u

\* The first short form that holds the value, past the last one for none.
Bucket(d) ==
    IF \E k \in DOMAIN Buckets : BitRange(d, Buckets[k])
    THEN CHOOSE k \in DOMAIN Buckets : BitRange(d, Buckets[k]) /\ \A j \in 1 .. (k - 1) : ~BitRange(d, Buckets[j])
    ELSE Len(Buckets) + 1

Prefix(k) == [i \in 1 .. k |-> 1] \o (IF k <= Len(Buckets) THEN <<0>> ELSE <<>>)

Coded(w, d, k) ==
    IF k <= Len(Buckets) THEN WriteBits(w \o Prefix(k), d % 2 ^ Buckets[k], Buckets[k])
    ELSE WriteBits(w \o Prefix(k), LowBits(d), Word)

WriteDoD(w, d) == IF d = 0 THEN Append(w, 0) ELSE Coded(w, d, Bucket(d))

\* readDoDPrefix: peeked while four bits are loaded, else bit by bit up to the first zero.
Peeked(r, p) ==
    LET ones == IF 0 \in { p[i] : i \in DOMAIN p } THEN (CHOOSE i \in DOMAIN p : p[i] = 0 /\ \A j \in 1 .. (i - 1) : p[j] = 1) - 1
                ELSE Len(p)
    IN Got(ones, Skip(r, Lesser(ones + 1, Len(p))))

NextBit(a, b) == [ok |-> b.ok, end |-> b.v = 0, v |-> a.v + b.v, r |-> b.r]

BitByBit(r) ==
    Rows(Len(Buckets) + 1, [ok |-> TRUE, end |-> FALSE, v |-> 0, r |-> r],
         LAMBDA a, i : IF a.end THEN a ELSE NextBit(a, ReadBits(a.r, 1)))

ReadDoDPrefix(r) ==
    IF r.valid >= Len(Buckets) + 1 THEN Peeked(r, Unread(r, Len(Buckets) + 1)) ELSE BitByBit(r)

DoDBits(p) ==
    IF ~p.ok THEN Failed(p.r)
    ELSE IF p.v = 0 THEN Got(0, p.r)
    ELSE [ReadBits(p.r, IF p.v \in DOMAIN Buckets THEN Buckets[p.v] ELSE Word)
             EXCEPT !.v = IF p.v \in DOMAIN Buckets THEN SignExtend(@, Buckets[p.v]) ELSE Signed(@)]

ReadDoD(r) == DoDBits(ReadDoDPrefix(r))

Deltas(ts) == [i \in 1 .. (Len(ts) - 1) |-> Wrap(ts[i + 1] - ts[i])]

\* A mutant of TsScale: the unit is chosen from the first delta alone.
TsScaleFirst(deltas) ==
    LET fits == { k \in DOMAIN Scales : deltas # <<>> /\ deltas[1] % Scales[k] = 0 }
    IN IF fits = {} THEN 1 ELSE Scales[CHOOSE k \in fits : \A j \in fits : k <= j]

\* tsScale: the coarsest unit that divides every delta, a delta that overflowed included.
TsScale(deltas) ==
    LET fits == { k \in DOMAIN Scales : \A i \in DOMAIN deltas : deltas[i] % Scales[k] = 0 }
    IN IF fits = {} THEN 1 ELSE Scales[CHOOSE k \in fits : \A j \in fits : k <= j]

ValidScale(s) == s = 1 \/ \E k \in DOMAIN Scales : Scales[k] = s

WriteDeltas(w, d) ==
    FoldLeft(LAMBDA a, i : WriteDoD(a, Wrap(d[i] - d[i - 1])), WriteUvarint(w, LowBits(d[1])), [i \in 1 .. (Len(d) - 1) |-> i + 1])

ScaledDeltas(w, deltas, scale) ==
    WriteDeltas(WriteUvarint(w, scale), [i \in DOMAIN deltas |-> deltas[i] \div scale])

EncodeTimestamps(ts, scaled) ==
    LET w == WriteVarint(WriteHeader(Len(ts)), ts[1])
    IN CASE ts = <<>> -> WriteHeader(0)
         [] Len(ts) = 1 -> PadToByte(w)
         [] scaled -> PadToByte(ScaledDeltas(w, Deltas(ts), TsScale(Deltas(ts))))
         [] OTHER -> PadToByte(WriteDeltas(w, Deltas(ts)))

\* EncodeTimestampsAdaptive: a constant stride is written as the stride.
EncodeTimestampsAdaptive(ts) ==
    CASE Len(ts) > MaxRows -> Err
      [] \E i \in 2 .. (Len(ts) - 1) : Deltas(ts)[i] # Deltas(ts)[1] -> Bits(1, Byte) \o EncodeTimestamps(ts, TRUE)
      [] ts = <<>> -> Bits(0, Byte) \o WriteHeader(0)
      [] OTHER -> WriteVarint(WriteVarint(Bits(0, Byte) \o WriteHeader(Len(ts)), ts[1]),
                              IF Len(ts) > 1 THEN Deltas(ts)[1] ELSE 0)

\* TsDecoder: the cursor over a delta-of-delta column, which a whole decode also steps.
TsCursor(h) == [r |-> h.r, rows |-> h.rows, i |-> 0, prev |-> 0, dod |-> 0, t0 |-> 0, scale |-> 1]

NewTsDecoder(src) ==
    LET h == ReadHeader(src)
    IN IF ~h.ok THEN Err
       ELSE IF h.rows > 0 /\ ~BoundRows(h.rows, Len(src) - h.consumed * Byte) THEN Err
       ELSE TsCursor(h)

ReadFirstDelta(r) == [ReadUvarint(r) EXCEPT !.v = Signed(@)]

FirstRow(d, t) == [ok |-> t.ok, v |-> t.v, d |-> [d EXCEPT !.r = t.r, !.prev = t.v, !.i = IF t.ok THEN 1 ELSE 0]]

\* The first delta, and every later one by what it adds to the delta before.
Stepped(d, x) ==
    LET dod == Wrap(d.dod + x.v)
    IN [ok |-> x.ok, v |-> Wrap(d.prev + dod),
        d |-> [d EXCEPT !.r = x.r, !.prev = Wrap(@ + dod), !.dod = dod, !.i = IF x.ok THEN @ + 1 ELSE @]]

TsNext(d) ==
    CASE d.i = 0 -> FirstRow(d, ReadVarint(d.r))
      [] d.i = 1 -> Stepped(d, ReadFirstDelta(d.r))
      [] OTHER -> Stepped(d, ReadDoD(d.r))

ScaledBack(n) ==
    LET d == IF n.d.i = 1 THEN [n.d EXCEPT !.t0 = n.v] ELSE n.d
    IN [n EXCEPT !.d = d, !.v = IF n.ok THEN Wrap(d.t0 + Wrap(n.v - d.t0) * d.scale) ELSE 0]

ScaledFrom(d, s) ==
    IF ~s.ok \/ ~ValidScale(s.v) THEN [ok |-> FALSE, v |-> 0, d |-> [d EXCEPT !.r = s.r]]
    ELSE ScaledBack(TsNext([d EXCEPT !.r = s.r, !.scale = s.v]))

\* scaledTsDecoder.Next: the unit stands between the first value and the first delta.
ScaledNext(d) ==
    ScaledFrom(d, IF d.i = 1 /\ d.rows > 1 THEN ReadUvarint(d.r) ELSE Got(d.scale, d.r))

\* readDeltas and readScaledDeltas: each row is the one before plus the delta in its unit.
AddDelta(a, x, scale) ==
    LET td == Wrap(a.td + x.v)
    IN [a EXCEPT !.ok = x.ok, !.r = x.r, !.td = td, !.dst = Append(@, Wrap(Last(@) + td * scale))]

ReadDeltas(r, t0, rows, scale) ==
    Rows(rows - 1, [ok |-> TRUE, r |-> r, td |-> 0, dst |-> <<t0>>], LAMBDA a, i : AddDelta(a, IF i = 1 THEN ReadFirstDelta(a.r) ELSE ReadDoD(a.r), scale))

Scaled(t, rows, s) == IF ~s.ok \/ ~ValidScale(s.v) THEN [ok |-> FALSE] ELSE ReadDeltas(s.r, t.v, rows, s.v)

DecodeAfter(h, t, scaled) ==
    IF ~t.ok THEN Refused
    ELSE IF h.rows = 1 THEN Decoded(<<t.v>>, h.consumed + ConsumedBytes(t.r))
    ELSE Result(Scaled(t, h.rows, IF scaled THEN ReadUvarint(t.r) ELSE Got(1, t.r)), h.consumed)

DecodeHeader(src, h, scaled) ==
    CASE ~h.ok -> Refused
      [] h.rows = 0 -> Decoded(<<>>, h.consumed)
      [] ~BoundRows(h.rows, Len(src) - h.consumed * Byte) -> Refused
      [] OTHER -> DecodeAfter(h, ReadVarint(h.r), scaled)

DecodeTimestamps(src, scaled) == DecodeHeader(src, ReadHeader(src), scaled)

\* adaptiveTimestampHeader: count, first value and stride, and nothing after them.
StrideAfter(h, first, step, src) ==
    IF ~h.ok \/ h.rows > MaxRows THEN Err
    ELSE IF h.rows = 0 THEN IF BytesIn(src) = h.consumed THEN [rows |-> 0, first |-> 0, step |-> 0] ELSE Err
    ELSE IF ~first.ok \/ ~step.ok \/ ConsumedBytes(step.r) # BytesIn(h.r.s) THEN Err
    ELSE [rows |-> h.rows, first |-> first.v, step |-> step.v]

Stride(src, h, first) == StrideAfter(h, first, ReadVarint(first.r), src)

AdaptiveTimestampHeader(src, h) == Stride(src, h, ReadVarint(h.r))

AtStride(s, bytes) == IF s = Err THEN Refused ELSE Decoded([i \in 1 .. s.rows |-> Wrap(s.first + (i - 1) * s.step)], bytes)

Whole(d, bytes) == IF ~d.ok \/ d.used # bytes THEN Refused ELSE [d EXCEPT !.used = @ + 1]

DecodeAdaptive(body, mode, h) ==
    IF mode = 0 THEN AtStride(AdaptiveTimestampHeader(body, h), BytesIn(body) + 1)
    ELSE IF ~h.ok \/ h.rows = 0 \/ h.rows > MaxRows THEN Refused
    ELSE Whole(DecodeHeader(body, h, TRUE), BytesIn(body))

DecodeTimestampsAdaptive(src) ==
    IF src = <<>> THEN Refused
    ELSE DecodeAdaptive(Rest(src, 1), Num(SubSeq(src, 1, Byte)), ReadHeader(Rest(src, 1)))

\* NewAdaptiveTimestampCursor and its Next: the last row also checks that nothing follows it.
AdaptiveCursor(body, mode, h, stride, fall) ==
    IF mode = 0
    THEN IF stride = Err THEN Err ELSE [rows |-> stride.rows, i |-> 0, next |-> stride.first, step |-> stride.step, fall |-> None]
    ELSE IF ~h.ok \/ h.rows = 0 \/ h.rows > MaxRows \/ fall = Err THEN Err
    ELSE [rows |-> h.rows, i |-> 0, fall |-> fall, bytes |-> BytesIn(body), head |-> h.consumed]

AdaptiveOver(body, mode, h) == AdaptiveCursor(body, mode, h, AdaptiveTimestampHeader(body, h), NewTsDecoder(body))

NewAdaptiveTimestampCursor(src) ==
    IF src = <<>> THEN Err
    ELSE AdaptiveOver(Rest(src, 1), Num(SubSeq(src, 1, Byte)), ReadHeader(Rest(src, 1)))

Fallback(c, n) ==
    [ok |-> n.ok /\ (c.i + 1 = c.rows => c.head + ConsumedBytes(n.d.r) = c.bytes), v |-> n.v,
     d |-> [c EXCEPT !.fall = n.d, !.i = IF n.ok THEN @ + 1 ELSE @]]

AdaptiveNext(c) ==
    IF c.fall # None THEN Fallback(c, ScaledNext(c.fall))
    ELSE [ok |-> TRUE, v |-> c.next, d |-> [c EXCEPT !.next = Wrap(@ + c.step), !.i = @ + 1]]

-----------------------------------------------------------------------------
(* Floats by XOR.  A float is the word that holds it.                          *)

NoWindow == [lead |-> 2 ^ Word, trail |-> 0]

Significant(win) == Word - win.lead - win.trail

\* A mutant of XorWindow: the leading zeros are written as counted.
XorWindowUncapped(delta) == [lead |-> LeadingZeros(delta), trail |-> TrailingZeros(delta)]

\* The window of the changed bits, its leading zeros capped at what their field holds.
XorWindow(delta) == [lead |-> Lesser(LeadingZeros(delta), 2 ^ LeadBits - 1), trail |-> TrailingZeros(delta)]

XorBits(a, delta, new) ==
    CASE delta = 0 -> [a EXCEPT !.w = Append(@, 0)]
      [] delta # 0 /\ a.win # NoWindow /\ new.lead >= a.win.lead /\ new.trail >= a.win.trail ->
            [a EXCEPT !.w = WriteBits(@ \o <<1, 0>>, delta \div 2 ^ a.win.trail, Significant(a.win))]
      [] OTHER ->
            [w |-> WriteBits(WriteBits(WriteBits(a.w \o <<1, 1>>, new.lead, LeadBits), Significant(new), SigBits),
                             delta \div 2 ^ new.trail, Significant(new)),
             win |-> new]

XorWrite(a, new, old) == XorBits(a, Xor(new, old), XorWindow(Xor(new, old)))

EncodeFloats(vals) ==
    IF vals = <<>> THEN WriteHeader(0)
    ELSE PadToByte(FoldLeft(LAMBDA a, i : XorWrite(a, vals[i + 1], vals[i]),
                            [w |-> WriteBits(WriteHeader(Len(vals)), vals[1], Word), win |-> NoWindow],
                            [i \in 1 .. (Len(vals) - 1) |-> i]).w)

\* xorReadControl: whether the value changed and whether a window follows.
Control(r, p) == IF p[1] = 0 THEN [ok |-> TRUE, changed |-> FALSE, fresh |-> FALSE, r |-> Skip(r, 1)]
                 ELSE [ok |-> TRUE, changed |-> TRUE, fresh |-> p[2] = 1, r |-> Skip(r, 2)]

ControlBits(b, f) ==
    IF ~b.ok \/ b.v = 0 THEN [ok |-> b.ok, changed |-> FALSE, fresh |-> FALSE, r |-> b.r]
    ELSE [ok |-> f.ok, changed |-> TRUE, fresh |-> f.v = 1, r |-> f.r]

ControlBit(b) == ControlBits(b, ReadBits(b.r, 1))

XorReadControl(r) == IF r.valid >= 2 THEN Control(r, Unread(r, 2)) ELSE ControlBit(ReadBits(r, 1))

\* A mutant of WindowOf: a full window's width is not restored from the zero it is written as.
WindowOfZero(l, s) ==
    [ok |-> l.ok /\ s.ok /\ l.v + s.v <= Word, win |-> [lead |-> l.v, trail |-> Word - l.v - s.v], r |-> s.r]

\* A width of zero stands for a whole word: its field is one bit short of it.
WindowOf(l, s) ==
    LET sig == IF s.v = 0 THEN Word ELSE s.v
    IN [ok |-> l.ok /\ s.ok /\ l.v + sig <= Word, win |-> [lead |-> l.v, trail |-> Word - l.v - sig], r |-> s.r]

ReadWindow(l) == WindowOf(l, ReadBits(l.r, SigBits))

XorReadWindow(r, fresh, win) ==
    IF fresh THEN ReadWindow(ReadBits(r, LeadBits))
    ELSE [ok |-> win.lead + win.trail <= Word, win |-> win, r |-> r]

XorValue(a, w, m) ==
    [a EXCEPT !.ok = m.ok, !.r = m.r, !.win = w.win, !.val = Xor(@, LowBits(m.v * 2 ^ w.win.trail))]

XorMantissa(a, w) ==
    IF ~w.ok THEN [a EXCEPT !.ok = FALSE, !.r = w.r] ELSE XorValue(a, w, ReadBits(w.r, Significant(w.win)))

XorChanged(a, c) ==
    IF ~c.ok \/ ~c.changed THEN [a EXCEPT !.ok = c.ok, !.r = c.r]
    ELSE XorMantissa(a, XorReadWindow(c.r, c.fresh, a.win))

XorRead(a) == XorChanged(a, XorReadControl(a.r))

Kept(a) == [a EXCEPT !.dst = Append(@, a.val)]

FloatsAfter(h, v0) ==
    IF ~v0.ok THEN Refused
    ELSE Result(Rows(h.rows - 1, [ok |-> TRUE, r |-> v0.r, win |-> NoWindow, val |-> v0.v, dst |-> <<v0.v>>],
                     LAMBDA a, i : Kept(XorRead(a))), h.consumed)

FloatsHeader(src, h) ==
    CASE ~h.ok -> Refused
      [] h.rows = 0 -> Decoded(<<>>, h.consumed)
      [] ~BoundRows(h.rows, Len(src) - h.consumed * Byte) -> Refused
      [] OTHER -> FloatsAfter(h, ReadBits(h.r, Word))

DecodeFloats(src) == FloatsHeader(src, ReadHeader(src))

\* GorillaDecoder.
GorillaCursor(src, h) ==
    IF ~h.ok \/ (h.ok /\ h.rows > 0 /\ ~BoundRows(h.rows, Len(src) - h.consumed * Byte)) THEN Err
    ELSE [ok |-> TRUE, r |-> h.r, rows |-> h.rows, i |-> 0, val |-> 0, win |-> NoWindow]

NewGorillaDecoder(src) == GorillaCursor(src, ReadHeader(src))

FirstFloat(d, v0) == [d EXCEPT !.ok = v0.ok, !.r = v0.r, !.val = v0.v]

GorillaRow(n) == [ok |-> n.ok, v |-> n.val, d |-> [n EXCEPT !.i = IF n.ok THEN @ + 1 ELSE @]]

GorillaNext(d) == GorillaRow(IF d.i = 0 THEN FirstFloat(d, ReadBits(d.r, Word)) ELSE XorRead(d))

-----------------------------------------------------------------------------
(* Floats as scaled decimals.  The words stand for numbers in units of          *)
(* 1 / Unit, a sign bit and one of Magnitudes, the two largest magnitudes being *)
(* infinity and not-a-number, as an IEEE word does for the reals.               *)

SignBit == 2 ^ (Word - 1)

Infinite == SignBit - 2

NotANumber == SignBit - 1

FloatValue(p) == IF p >= SignBit THEN -Magnitudes[p - SignBit + 1] ELSE Magnitudes[p + 1]

Apart(m, u) == IF Magnitudes[m] > u THEN Magnitudes[m] - u ELSE u - Magnitudes[m]

Nearest(u) == CHOOSE m \in DOMAIN Magnitudes : \A n \in DOMAIN Magnitudes : Apart(m, u) <= Apart(n, u)

\* The float a result rounds to, infinite past the largest.
Rounded(u) ==
    LET a == IF u < 0 THEN -u ELSE u
        m == IF a > Magnitudes[Len(Magnitudes)] THEN Infinite ELSE Nearest(a) - 1
    IN IF u < 0 THEN SignBit + m ELSE m

Zeros(u) == Cardinality({ k \in 1 .. 3 : u # 0 /\ u % 10 ^ k = 0 })

Stripped(u, e, negative) ==
    [v |-> (IF negative THEN -1 ELSE 1) * (u \div 10 ^ Zeros(u)), e |-> e + Zeros(u)]

Digits(u, n) == (2 * u * 10 ^ n + Unit) \div (2 * Unit)

\* floatToDecimal: integers exactly, other values to a fixed number of digits.
FloatToDecimal(p) ==
    LET x == FloatValue(p)
        u == IF x < 0 THEN -x ELSE x
    IN CASE p % SignBit = NotANumber -> [v |-> 0, e |-> 0]
         [] p = Infinite -> [v |-> SignBit - 1, e |-> 0]
         [] p = SignBit + Infinite -> [v |-> -SignBit, e |-> 0]
         [] p % SignBit < Infinite /\ u % Unit = 0 -> Stripped(u \div Unit, 0, x < 0)
         [] p % SignBit < Infinite /\ u % Unit # 0 /\ u < Small -> Stripped(Digits(u, FineDigits), -FineDigits, x < 0)
         [] OTHER -> Stripped(Digits(u, CoarseDigits), -CoarseDigits, x < 0)

\* decimalScratch.convert: every value at the least exponent, overflow and all.
AtExponent(ds, e) == [v |-> [i \in DOMAIN ds |-> Wrap(ds[i].v * 10 ^ (ds[i].e - e))], e |-> e]

Converted(ds) == AtExponent(ds, CHOOSE e \in { ds[i].e : i \in DOMAIN ds } : \A i \in DOMAIN ds : e <= ds[i].e)

Convert(vals) == Converted([i \in DOMAIN vals |-> FloatToDecimal(vals[i])])

ScaledToFloat(v, e) ==
    CASE v = SignBit - 1 -> Infinite
      [] v = -SignBit -> SignBit + Infinite
      [] v = 0 -> 0
      [] v # 0 /\ v # SignBit - 1 /\ v # -SignBit /\ e >= 0 -> Rounded(v * 10 ^ e * Unit)
      [] OTHER -> Rounded((v * Unit) \div 10 ^ (-e))

\* A mutant of NearestDelta: the low bits are rounded to nearest, so a delta can grow.
NearestDeltaRounding(d, origin, prec, tz) ==
    LET want == Word - LeadingZeros(LowBits(IF origin < 0 THEN -origin ELSE origin)) - prec
    IN IF d = 0 \/ want <= 0 THEN [d |-> d, tz |-> tz]
       ELSE [d |-> Wrap(((d + 2 ^ (want - 1)) \div 2 ^ want) * 2 ^ want), tz |-> want]

\* nearestDelta: drop the bits of a delta below the precision its value is kept at, except
\* where that changes at once by more than four bits.
NearestDelta(d, origin, prec, tz) ==
    LET want == Word - LeadingZeros(LowBits(IF origin < 0 THEN -origin ELSE origin)) - prec
        mag == LowBits(IF d < 0 THEN -d ELSE d)
        kept == Signed((mag \div 2 ^ want) * 2 ^ want)
    IN CASE d = 0 \/ want <= 0 -> [d |-> d, tz |-> tz]
         [] d # 0 /\ want > 0 /\ want - tz > 4 -> [d |-> d, tz |-> tz + 2]
         [] d # 0 /\ want > 0 /\ tz - want > 4 -> [d |-> d, tz |-> tz - 2]
         [] OTHER -> [d |-> IF d < 0 THEN Wrap(-kept) ELSE kept, tz |-> want]

DecimalStep(a, d, v, prec) ==
    LET n == IF prec < Word THEN NearestDelta(d, v, prec, a.tz) ELSE [d |-> d, tz |-> a.tz]
    IN [w |-> WriteVarint(a.w, n.d), tz |-> n.tz]

DecimalRows(w, c, prec) ==
    FoldLeft(LAMBDA a, i : DecimalStep(a, Wrap(c.v[i + 1] - c.v[i]), c.v[i + 1], prec),
             [w |-> WriteVarint(WriteVarint(w, c.e), c.v[1]), tz |-> 0], [i \in 1 .. (Len(c.v) - 1) |-> i]).w

EncodeFloatsDecimal(vals, prec) ==
    IF vals = <<>> THEN WriteHeader(0)
    ELSE PadToByte(DecimalRows(WriteUvarint(WriteHeader(Len(vals)), prec), Convert(vals), prec))

DecimalStart(e, v) == [ok |-> e.ok /\ v.ok, e |-> e.v, v |-> v.v, r |-> v.r]

DecimalExponent(e) == DecimalStart(e, ReadVarint(e.r))

\* The column's header: precision, exponent, first value.
DecimalHeader(p) == IF p.ok THEN DecimalExponent(ReadVarint(p.r)) ELSE [ok |-> FALSE]

DecimalDelta(a, d, e) ==
    [a EXCEPT !.ok = d.ok, !.r = d.r, !.v = Wrap(@ + d.v), !.dst = Append(@, ScaledToFloat(Wrap(a.v + d.v), e))]

DecimalAfter(h, s) ==
    IF ~s.ok THEN Refused
    ELSE Result(Rows(h.rows - 1, [ok |-> TRUE, r |-> s.r, v |-> s.v, dst |-> <<ScaledToFloat(s.v, s.e)>>],
                     LAMBDA a, i : DecimalDelta(a, ReadVarint(a.r), s.e)), h.consumed)

DecimalRowsOf(src, h) ==
    CASE ~h.ok -> Refused
      [] h.rows = 0 -> Decoded(<<>>, h.consumed)
      [] ~BoundRows(h.rows, BytesIn(src) - h.consumed) -> Refused
      [] OTHER -> DecimalAfter(h, DecimalHeader(ReadUvarint(h.r)))

DecodeFloatsDecimal(src) == DecimalRowsOf(src, ReadHeader(src))

\* DecimalDecoder: the header is read when the cursor is made.
DecimalCursor(h, s) ==
    IF h.ok /\ h.rows = 0 THEN [rows |-> 0, i |-> 0]
    ELSE IF ~h.ok \/ ~s.ok THEN Err
    ELSE [r |-> s.r, rows |-> h.rows, i |-> 0, v |-> s.v, e |-> s.e]

DecimalOver(h) == DecimalCursor(h, DecimalHeader(ReadUvarint(h.r)))

NewDecimalDecoder(src) == DecimalOver(ReadHeader(src))

DecimalNextOf(d, x) ==
    IF ~x.ok THEN [ok |-> FALSE, v |-> 0, d |-> [d EXCEPT !.r = x.r]]
    ELSE [ok |-> TRUE, v |-> ScaledToFloat(Wrap(d.v + x.v), d.e), d |-> [d EXCEPT !.r = x.r, !.v = Wrap(@ + x.v), !.i = @ + 1]]

DecimalNext(d) == DecimalNextOf(d, IF d.i = 0 THEN Got(0, d.r) ELSE ReadVarint(d.r))

-----------------------------------------------------------------------------
(* Groups of floats, each encoded by whichever codec is exact and shorter.      *)

CodecNone == 0
CodecGorilla == 1
CodecDecimal == 2

WordBytes == Word \div Byte

Fragment(codec, rows, data) ==
    WriteUvarint(WriteUvarint(Bits(codec, Byte), rows), BytesIn(data)) \o data

GroupsHeader(rows, groups) == WriteUvarint(WriteUvarint(Bits(1, Byte), rows), groups)

Constant(group) == \A i \in DOMAIN group : group[i] = group[1]

\* A mutant of Reproduces: the trial decode is compared as numbers, which keeps no sign of a zero.
ReproducesValues(d, decimal, group) ==
    /\ d.ok /\ d.used = BytesIn(decimal) /\ Len(d.vals) = Len(group)
    /\ \A i \in DOMAIN group : d.vals[i] % SignBit = group[i] % SignBit

\* The decimal form reproduces every bit of the group.
Reproduces(d, decimal, group) == d.ok /\ d.used = BytesIn(decimal) /\ d.vals = group

Exact(decimal, group) == Reproduces(DecodeFloatsDecimal(decimal), decimal, group)

Denser(gorilla, decimal, group) ==
    IF BytesIn(decimal) < BytesIn(gorilla) /\ Exact(decimal, group) THEN Fragment(CodecDecimal, Len(group), decimal)
    ELSE Fragment(CodecGorilla, Len(group), gorilla)

AppendGroup(group) ==
    IF Constant(group) THEN Fragment(CodecNone, Len(group), Bits(group[1], Word))
    ELSE Denser(EncodeFloats(group), EncodeFloatsDecimal(group, Word), group)

GoodEnds(ends, n) ==
    /\ \A i \in DOMAIN ends : ends[i] > (IF i = 1 THEN 0 ELSE ends[i - 1]) /\ ends[i] <= n
    /\ n = IF ends = <<>> THEN 0 ELSE Last(ends)

EncodeGroups(vals, ends) ==
    IF Len(vals) > MaxRows \/ ~GoodEnds(ends, Len(vals)) THEN Err
    ELSE GroupsHeader(Len(vals), Len(ends)) \o
         FlattenSeq([i \in DOMAIN ends |-> AppendGroup(SubSeq(vals, IF i = 1 THEN 1 ELSE ends[i - 1] + 1, ends[i]))])

\* EncodeGroupWithCost: one group, in the exact codec that a caller's measure prefers.
Preferred(gorilla, decimal, exact, cost) ==
    LET shorter == exact /\ BytesIn(decimal) < BytesIn(gorilla)
    IN IF exact /\ (cost[CodecDecimal] < cost[CodecGorilla] \/ (shorter /\ cost[CodecDecimal] = cost[CodecGorilla]))
       THEN [codec |-> CodecDecimal, data |-> decimal] ELSE [codec |-> CodecGorilla, data |-> gorilla]

Costed(rows, best) == GroupsHeader(rows, 1) \o Fragment(best.codec, rows, best.data)

CostedGroup(group, gorilla, decimal, cost) ==
    Costed(Len(group), Preferred(gorilla, decimal, Exact(decimal, group), cost))

EncodeGroupWithCost(vals, cost) ==
    IF vals = <<>> \/ Len(vals) > MaxRows \/ Constant(vals)
    THEN EncodeGroups(vals, IF vals = <<>> THEN <<>> ELSE <<Len(vals)>>)
    ELSE CostedGroup(vals, EncodeFloats(vals), EncodeFloatsDecimal(vals, Word), cost)

\* readFloatGroup: one fragment, bounded by what is left.
FragmentOf(codec, rows, size) ==
    IF \/ ~rows.ok \/ rows.v = 0 \/ rows.v > MaxRows
       \/ ~size.ok \/ size.v > BytesIn(size.r.s) - ConsumedBytes(size.r)
       \/ codec \notin {CodecNone, CodecGorilla, CodecDecimal}
       \/ codec = CodecNone /\ size.v # WordBytes
    THEN Err
    ELSE LET at == ConsumedBytes(size.r)
         IN [codec |-> codec, rows |-> rows.v, data |-> SubSeq(size.r.s, at * Byte + 1, (at + size.v) * Byte),
             rest |-> Rest(size.r.s, at + size.v)]

FragmentAt(codec, rows) == FragmentOf(codec, rows, ReadUvarint(rows.r))

ReadFloatGroup(src) ==
    IF src = <<>> THEN Err ELSE FragmentAt(Num(SubSeq(src, 1, Byte)), ReadUvarint(ReaderAt(src, 1)))

HeldRows(h) == IF h.ok THEN h.rows ELSE 0

InnerRows(g) == IF g.codec = CodecNone THEN g.rows ELSE HeldRows(ReadHeader(g.data))

CheckedGroup(a, g, count) ==
    IF g = Err \/ (g # Err /\ (g.rows > count - a.sum \/ InnerRows(g) # g.rows)) THEN [a EXCEPT !.ok = FALSE]
    ELSE [ok |-> TRUE, sum |-> a.sum + g.rows, src |-> g.rest]

AllChecked(end, rest, count) == IF end.ok /\ end.sum = count /\ end.src = <<>> THEN [rows |-> count, rest |-> rest] ELSE Err

CheckedGroups(rest, count, groups) ==
    AllChecked(Rows(groups, [ok |-> TRUE, sum |-> 0, src |-> rest], LAMBDA a, i : CheckedGroup(a, ReadFloatGroup(a.src), count)),
               rest, count)

GroupCount(count, groups) ==
    IF ~count.ok \/ count.v > MaxRows \/ ~groups.ok \/ groups.v > count.v THEN Err
    ELSE CheckedGroups(Rest(groups.r.s, ConsumedBytes(groups.r)), count.v, groups.v)

RowCount(count) == GroupCount(count, ReadUvarint(count.r))

\* floatGroupHeader: every fragment's rows and length are checked before any is decoded.
FloatGroupHeader(src) ==
    IF src = <<>> \/ Num(SubSeq(src, 1, Byte)) # 1 THEN Err ELSE RowCount(ReadUvarint(ReaderAt(src, 1)))

WholeGroup(d, g) == IF ~d.ok \/ d.used # BytesIn(g.data) \/ Len(d.vals) # g.rows THEN Err ELSE d.vals

DecodeFloatGroup(g) ==
    CASE g.codec = CodecNone -> [i \in 1 .. g.rows |-> Num(g.data)]
      [] g.codec = CodecGorilla -> WholeGroup(DecodeFloats(g.data), g)
      [] OTHER -> WholeGroup(DecodeFloatsDecimal(g.data), g)

JoinGroup(a, g, vals) ==
    IF vals = Err THEN [a EXCEPT !.ok = FALSE] ELSE [ok |-> TRUE, rest |-> g.rest, dst |-> a.dst \o vals]

NextGroup(a, g) == IF g = Err THEN [a EXCEPT !.ok = FALSE] ELSE JoinGroup(a, g, DecodeFloatGroup(g))

JoinedGroups(end, bytes) == IF end.ok THEN Decoded(end.dst, bytes) ELSE Refused

GroupsAfter(src, h) ==
    IF h = Err THEN Refused
    ELSE JoinedGroups(Rows(h.rows, [ok |-> TRUE, rest |-> h.rest, dst |-> <<>>],
                           LAMBDA a, i : IF a.rest = <<>> THEN a ELSE NextGroup(a, ReadFloatGroup(a.rest))), BytesIn(src))

DecodeFloatGroups(src) == GroupsAfter(src, FloatGroupHeader(src))

\* FloatGroupsDecoder: a group is decoded when the cursor reaches it.
GroupsCursor(h) == IF h = Err THEN Err ELSE [rest |-> h.rest, rows |-> h.rows, i |-> 0, ahead |-> <<>>]

NewFloatGroupsDecoder(src) == GroupsCursor(FloatGroupHeader(src))

\* A mutant of AdvanceGroup: the group before is read again.
AdvanceGroupStale(d, g) == [rest |-> d.rest, ahead |-> DecodeFloatGroup(g)]

AdvanceGroup(d, g) == IF g = Err THEN [rest |-> d.rest, ahead |-> Err] ELSE [rest |-> g.rest, ahead |-> DecodeFloatGroup(g)]

GroupValue(d, a) ==
    IF a.ahead = Err THEN [ok |-> FALSE, v |-> 0, d |-> d]
    ELSE [ok |-> TRUE, v |-> Head(a.ahead), d |-> [d EXCEPT !.rest = a.rest, !.ahead = Tail(a.ahead), !.i = @ + 1]]

GroupsNext(d) ==
    GroupValue(d, IF d.ahead = <<>> THEN AdvanceGroup(d, ReadFloatGroup(d.rest)) ELSE [rest |-> d.rest, ahead |-> d.ahead])

-----------------------------------------------------------------------------
(* Integers by transposed bit planes, ids by runs.                              *)

\* valuableBits: the bits in which the values can differ.
ValuableBits(lo, hi) ==
    LET nb == Word - LeadingZeros(Xor(LowBits(lo), LowBits(hi)))
    IN IF lo = hi THEN 0 ELSE IF lo < 0 /\ hi >= 0 THEN Lesser(nb + 1, Word) ELSE nb

Lowest(vals) == CHOOSE v \in ToSet(vals) : \A x \in ToSet(vals) : v <= x
Highest(vals) == CHOOSE v \in ToSet(vals) : \A x \in ToSet(vals) : x <= v

NextByte(a, b) == [ok |-> b.ok, r |-> b.r, v |-> a.v \o Bits(b.v, Byte)]

ReadBytes(r, n) ==
    Rows(n, [ok |-> TRUE, r |-> r, v |-> <<>>],
         LAMBDA a, i : NextByte(a, ReadBits(a.r, Byte)))

\* A word, low byte first.
LittleEndian(bits) == FlattenSeq([k \in 1 .. WordBytes |-> SubSeq(bits, Word - k * Byte + 1, Word - (k - 1) * Byte)])

\* Plane p of a block: bit p of its values, the first value lowest.
Plane(vals, p) ==
    LittleEndian([j \in 1 .. Word |-> IF Word - j + 1 > Len(vals) THEN 0 ELSE (LowBits(vals[Word - j + 1]) \div 2 ^ (p - 1)) % 2])

EncodeBlock(vals, n) == FlattenSeq([p \in 1 .. n |-> Plane(vals, p)])

BlocksOf(rows) == (rows + Word - 1) \div Word

BlockRows(k, rows) == [lo |-> (k - 1) * Word + 1, hi |-> Lesser(k * Word, rows)]

EncodeIntsT64(vals) ==
    LET lo == Lowest(vals)
        hi == Highest(vals)
    IN IF vals = <<>> THEN WriteHeader(0)
       ELSE WriteHeader(Len(vals)) \o LittleEndian(Bits(LowBits(lo), Word)) \o LittleEndian(Bits(LowBits(hi), Word)) \o
            FlattenSeq([k \in 1 .. BlocksOf(Len(vals)) |->
                LET b == BlockRows(k, Len(vals)) IN EncodeBlock(SubSeq(vals, b.lo, b.hi), ValuableBits(lo, hi))])

\* A mutant of Upper: the bits the values share are taken from zero.
UpperZero(v, n) == 0

\* The bits above the n that differ; a whole word of them leaves none.
Upper(v, n) == (LowBits(v) \div 2 ^ n) * 2 ^ n

BlockValue(planes, i, n, lo, hi) ==
    LET low == FoldLeftDomain(LAMBDA a, p : a + planes[p][Word - i + 1] * 2 ^ (p - 1), 0, planes)
        top == IF lo < 0 /\ hi >= 0 /\ low \div 2 ^ (n - 1) = 0 THEN hi ELSE lo
    IN Signed(low + Upper(top, n))

Planes(bits, n) == [p \in 1 .. n |-> LittleEndian(SubSeq(bits, (p - 1) * Word + 1, p * Word))]

DecodeBlock(a, view, rows, n, lo, hi) ==
    IF ~view.ok THEN [a EXCEPT !.ok = FALSE]
    ELSE [a EXCEPT !.r = view.r, !.dst = @ \o [i \in 1 .. rows |-> BlockValue(Planes(view.v, n), i, n, lo, hi)]]

DecodeBlocks(src, h, r, n, lo, hi) ==
    IF n = 0 THEN Decoded([i \in 1 .. h.rows |-> lo], h.consumed + ConsumedBytes(r))
    ELSE IF ~BoundRows(h.rows, Len(src) - h.consumed * Byte) THEN Refused
    ELSE Result(Rows(BlocksOf(h.rows), [ok |-> TRUE, r |-> r, dst |-> <<>>],
                     LAMBDA a, k : DecodeBlock(a, ReadBytes(a.r, n * WordBytes),
                                               BlockRows(k, h.rows).hi - BlockRows(k, h.rows).lo + 1, n, lo, hi)), h.consumed)

WordIn(view) == Signed(Num(LittleEndian(view.v)))

T64Between(src, h, a, b) ==
    IF ~a.ok \/ ~b.ok THEN Refused
    ELSE DecodeBlocks(src, h, b.r, ValuableBits(WordIn(a), WordIn(b)), WordIn(a), WordIn(b))

T64From(src, h, a) == T64Between(src, h, a, ReadBytes(a.r, WordBytes))

T64Header(src, h, want) ==
    IF ~h.ok \/ h.rows # want THEN Refused
    ELSE IF h.rows = 0 THEN Decoded(<<>>, h.consumed)
    ELSE T64From(src, h, ReadBytes(h.r, WordBytes))

DecodeIntsT64(src, want) == T64Header(src, ReadHeader(src), want)

\* Where the run of equal values that begins at i ends.
RunEnd(vals, i) == CHOOSE j \in i .. Len(vals) :
                       /\ \A k \in i .. j : vals[k] = vals[i]
                       /\ j < Len(vals) => vals[j + 1] # vals[i]

Begins(vals, i) == IF i = 1 THEN TRUE ELSE vals[i - 1] # vals[i]

Starts(vals) == SelectSeq([i \in DOMAIN vals |-> i], LAMBDA i : Begins(vals, i))

OneRun(v, n) == WriteUvarint(Bits(v, 2 * Word), n)

EncodeU128(vals) ==
    WriteHeader(Len(vals)) \o
    FlattenSeq([k \in DOMAIN Starts(vals) |->
        LET i == Starts(vals)[k] IN OneRun(vals[i], RunEnd(vals, i) - i + 1)])

\* A mutant of JoinRun: an empty run keeps its neighbours apart.
JoinRunApart(a, run) ==
    IF a # <<>> /\ Last(a).v = run.v THEN [a EXCEPT ![Len(a)].n = @ + run.n] ELSE Append(a, run)

\* EncodeU128Runs: runs of one value are joined, across empty ones too.
JoinRun(a, run) ==
    IF run.n <= 0 THEN a
    ELSE IF a # <<>> /\ Last(a).v = run.v THEN [a EXCEPT ![Len(a)].n = @ + run.n]
    ELSE Append(a, run)

Joined(runs) == FoldLeft(JoinRun, <<>>, runs)

RunsBits(joined) ==
    WriteHeader(FoldLeft(LAMBDA a, run : a + run.n, 0, joined)) \o
    FlattenSeq([k \in DOMAIN joined |-> OneRun(joined[k].v, joined[k].n)])

EncodeU128Runs(runs) == RunsBits(Joined(runs))

U128Run(a, id, n, rows) ==
    IF ~id.ok \/ ~n.ok \/ n.v = 0 \/ n.v > rows - Len(a.dst) THEN [a EXCEPT !.ok = FALSE]
    ELSE [a EXCEPT !.r = n.r, !.dst = @ \o [i \in 1 .. n.v |-> Num(id.v)]]

U128Id(a, id, rows) == U128Run(a, id, ReadUvarint(id.r), rows)

U128Rows(h, want) ==
    IF ~h.ok \/ h.rows # want THEN Refused
    ELSE Result(Rows(h.rows, [ok |-> TRUE, r |-> h.r, dst |-> <<>>],
                     LAMBDA a, i : IF Len(a.dst) = h.rows THEN a ELSE U128Id(a, ReadBytesView(a.r, 2 * WordBytes), h.rows)),
                h.consumed)

DecodeU128(src, want) == U128Rows(ReadHeader(src), want)

-----------------------------------------------------------------------------
(* A column written, perhaps cut short, and read whole and through a cursor.    *)

\* The rows a job's column holds.
Held(j) == IF j.kind = "runs" THEN FlattenSeq([k \in DOMAIN j.vals |-> [i \in 1 .. j.vals[k].n |-> j.vals[k].v]]) ELSE j.vals

Encoded(j) ==
    CASE j.kind = "dod" -> EncodeTimestamps(j.vals, FALSE)
      [] j.kind = "scaled" -> EncodeTimestamps(j.vals, TRUE)
      [] j.kind = "adaptive" -> EncodeTimestampsAdaptive(j.vals)
      [] j.kind = "xor" -> EncodeFloats(j.vals)
      [] j.kind = "lossy" -> EncodeFloatsDecimal(j.vals, j.prec)
      [] j.kind = "groups" -> EncodeGroups(j.vals, j.ends)
      [] j.kind = "costed" -> EncodeGroupWithCost(j.vals, j.cost)
      [] j.kind = "t64" -> EncodeIntsT64(j.vals)
      [] j.kind = "u128" -> EncodeU128(j.vals)
      [] j.kind = "runs" -> EncodeU128Runs(j.vals)

\* DecodeTimestampsAdaptiveRows and DecodeFloatGroupsRows: the reader knows how many rows to expect.
ExpectedRows(d, rows) == IF Len(d.vals) # rows THEN Refused ELSE d

DecodeAs(j, s) ==
    CASE j.kind = "dod" -> DecodeTimestamps(s, FALSE)
      [] j.kind = "scaled" -> DecodeTimestamps(s, TRUE)
      [] j.kind = "adaptive" -> ExpectedRows(DecodeTimestampsAdaptive(s), Len(j.vals))
      [] j.kind = "xor" -> DecodeFloats(s)
      [] j.kind = "lossy" -> DecodeFloatsDecimal(s)
      [] j.kind \in {"groups", "costed"} -> ExpectedRows(DecodeFloatGroups(s), Len(j.vals))
      [] j.kind = "t64" -> DecodeIntsT64(s, Len(j.vals))
      [] j.kind \in {"u128", "runs"} -> DecodeU128(s, Len(Held(j)))

\* NewTsCursor and NewFloatDecoder.
Cursors == {"dod", "scaled", "adaptive", "xor", "lossy", "groups", "costed"}

NewCursor(kind, s) ==
    CASE kind \in {"dod", "scaled"} -> NewTsDecoder(s)
      [] kind = "adaptive" -> NewAdaptiveTimestampCursor(s)
      [] kind = "xor" -> NewGorillaDecoder(s)
      [] kind = "lossy" -> NewDecimalDecoder(s)
      [] OTHER -> NewFloatGroupsDecoder(s)

CursorNext(kind, d) ==
    CASE kind = "dod" -> TsNext(d)
      [] kind = "scaled" -> ScaledNext(d)
      [] kind = "adaptive" -> AdaptiveNext(d)
      [] kind = "xor" -> GorillaNext(d)
      [] kind = "lossy" -> DecimalNext(d)
      [] OTHER -> GroupsNext(d)

Init ==
    /\ job = None /\ stream = None /\ cut = FALSE
    /\ out = None /\ cur = None /\ got = <<>>

Write(j) ==
    /\ job = None
    /\ job' = j /\ stream' = Encoded(j)
    /\ UNCHANGED <<cut, out, cur, got>>

Readable == job # None /\ stream # Err

\* The stream loses its end.
Truncate(bytes) ==
    /\ Readable /\ ~cut /\ out = None /\ cur = None
    /\ bytes < BytesIn(stream)
    /\ stream' = SubSeq(stream, 1, bytes * Byte)
    /\ cut' = TRUE
    /\ UNCHANGED <<job, out, cur, got>>

ReadWhole ==
    /\ Readable /\ out = None /\ cur = None
    /\ out' = DecodeAs(job, stream)
    /\ UNCHANGED <<job, stream, cut, cur, got>>

OpenCursor ==
    /\ Readable /\ cur = None /\ out = None /\ job.kind \in Cursors
    /\ cur' = NewCursor(job.kind, stream)
    /\ UNCHANGED <<job, stream, cut, out, got>>

Read(n) ==
    /\ cur' = IF n.ok THEN n.d ELSE Err
    /\ got' = IF n.ok THEN Append(got, n.v) ELSE got

ReadNext ==
    /\ cur # None /\ cur # Err
    /\ cur.i < cur.rows
    /\ Read(CursorNext(job.kind, cur))
    /\ UNCHANGED <<job, stream, cut, out>>

Next ==
    \/ \E j \in Jobs : Write(j)
    \/ \E bytes \in 0 .. (IF Readable THEN BytesIn(stream) ELSE 0) : Truncate(bytes)
    \/ ReadWhole
    \/ OpenCursor
    \/ ReadNext

Spec == Init /\ [][Next]_vars

-----------------------------------------------------------------------------
\* A whole decode returns every row exactly and consumes the whole stream, whatever overflowed
\* on the way; a stream that lost its end is refused, never read as a shorter or other column
\* (DecodeTimestamps, DecodeTimestampsAdaptive, DecodeFloats, DecodeFloatGroups, DecodeIntsT64,
\* DecodeU128 against their encoders).
RoundTrips ==
    out # None =>
        IF cut THEN ~out.ok
        ELSE out.ok /\ out.used = BytesIn(stream) /\ (job.kind # "lossy" => out.vals = Held(job))

\* What a whole decode of the column as written returns.
Sent(j) == IF j.kind = "lossy" THEN DecodeFloatsDecimal(EncodeFloatsDecimal(j.vals, j.prec)).vals ELSE Held(j)

\* A cursor returns, row by row, what the whole decode returns, before failing at the row a cut
\* reached; it never fails on a whole stream and never returns more (TsDecoder, scaledTsDecoder,
\* adaptiveTimestampCursor, GorillaDecoder, DecimalDecoder, FloatGroupsDecoder).
CursorAgrees ==
    /\ job # None => IsPrefix(got, Sent(job))
    /\ cur = Err => cut
    /\ (cur # None /\ cur # Err /\ ~cut) => cur.rows = Len(Held(job))

\* A lossy column of a counter is a counter: nearestDelta only shortens a delta, so values that
\* do not fall decode to values that do not fall and never pass the ones written, and no
\* spurious reset appears.
CountersRise ==
    (out # None /\ job # None) => (job.kind = "lossy" /\ out.ok =>
        \A i \in DOMAIN out.vals :
            /\ FloatValue(out.vals[i]) <= FloatValue(job.vals[i])
            /\ i > 1 => FloatValue(out.vals[i - 1]) <= FloatValue(out.vals[i]))

\* Ids written as runs are the bytes that the same ids written row by row are: EncodeU128Runs
\* joins what EncodeU128 would, across empty runs.
RunsCanonical == (job # None /\ stream # None /\ ~cut) => (job.kind = "runs" => stream = EncodeU128(Held(job)))
=============================================================================
