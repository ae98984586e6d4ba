-------------------------------- MODULE Otlp --------------------------------
(* The two ways an OTLP request becomes a native batch: otlpdecode walks the   *)
(* protobuf bytes field by field, pdataconv converts the collector's already   *)
(* decoded pdata; otlpdecode's contract is to be indistinguishable from it.     *)
(* Then the series ids and the nested sets projected from the batch.           *)
(* A message is the sequence of its fields <<name, value>>, a byte string a     *)
(* small number (0 the empty one), a value <<kind, payload>>, a hash its input. *)
EXTENDS Integers, Sequences, FiniteSets, SequencesExt, FiniteSetsExt, TLC

CONSTANTS Requests, \* the requests a new converter meets, and the ones it meets later
          Again,
          Bad,      \* a field whose bytes do not parse
          Err,      \* a request refused
          MaxTurns  \* the requests one converter handles

VARIABLES in, out, cells, turns

vars == <<in, out, cells, turns>>

Zero == -1       \* an id of the right width, all zero bytes
Wide == -2       \* an id of a wrong width
KeyKind == 2     \* the reserved keys, in byte order among the user's keys
KeyMonotonic == 3
KeyName == 4
KeyTemporality == 5
KeyUnit == 6
KeyLe == 8
KeyQuantile == 9
Inf == 1000
Empty == <<"empty", 0>>

------------------------------------------------------------------------------
(* Walking a message                                                           *)

All(src, f) == LET hit == SelectSeq(src, LAMBDA x : x[1] = f)
               IN [i \in DOMAIN hit |-> hit[i][2]]

Get(src, f, default) == LET s == All(src, f) IN IF s = <<>> THEN default ELSE s[Len(s)]

Packed(src, f) == FlattenSeq(All(src, f))

Has(src, f) == All(src, f) # <<>>

Read(src, fields, result) ==
    IF \E i \in DOMAIN src : src[i][1] \in fields \cup {"cut"} /\ src[i][2] = Bad
    THEN Err ELSE result

Then(r, K(_)) == IF r = Err THEN Err ELSE K(r)

\* One failed item fails the list.
Collected(t) == IF \E i \in DOMAIN t : t[i] = Err THEN Err ELSE t

Each(s, F(_)) == Collected([i \in DOMAIN s |-> F(s[i])])

\* The last field of a oneof decides it.
OneOf(src, fields) == SelectSeq(src, LAMBDA x : x[1] \in fields)

Total(s, f(_)) == FoldLeft(LAMBDA n, x : n + f(x), 0, s)

Concat(s, f(_)) == FlattenSeq([i \in DOMAIN s |-> f(s[i])])

------------------------------------------------------------------------------
(* signal: values, attributes and their canonical hash input                   *)

NewAttributes(kvs) ==
    FoldLeft(LAMBDA s, kv : SelectSeq(s, LAMBDA o : o[1] <= kv[1]) \o <<kv>>
                            \o SelectSeq(s, LAMBDA o : o[1] > kv[1]), <<>>, kvs)

MapValue(kvs) == <<"map", NewAttributes(kvs)>>

RECURSIVE AppendHash(_)

AppendKeyValueHashInput(k, v) == <<<<"key", k>>>> \o AppendHash(v)

AppendHashInput(as) ==
    <<<<"len", Len(as)>>>> \o Concat(as, LAMBDA kv : AppendKeyValueHashInput(kv[1], kv[2]))

AppendHash(v) ==
    CASE v[1] = "slice" -> <<<<"kind", "slice">>, <<"len", Len(v[2])>>>>
                           \o Concat(v[2], AppendHash)
      [] v[1] = "map" -> <<<<"kind", "map">>>> \o AppendHashInput(v[2])
      [] OTHER -> <<<<"kind", v[1]>>, v>>

ResourceHashInput(r) == <<<<"key", r.schema>>>> \o AppendHashInput(r.attributes)

ScopeHashInput(s) ==
    <<<<"key", s.name>>, <<"key", s.version>>, <<"key", s.schema>>>> \o AppendHashInput(s.attributes)

SeriesHash(s) ==
    ResourceHashInput(s.resource) \o ScopeHashInput(s.scope) \o AppendHashInput(s.attributes)

------------------------------------------------------------------------------
(* otlpdecode: what every signal shares                                        *)

InRange(s, i) == i \in 0 .. Len(s) - 1

Lookup(str, i) == str[i + 1]

TakeID(v) == IF v = Wide THEN Err ELSE v

PresentID(v) == IF v = Zero THEN 0 ELSE v

RECURSIVE AnyValue(_, _)

\* An index into the profiles' string table names the key when it resolves.
KeyValue(str, src) ==
    Read(src, {"key", "value", "keyindex"},
        Then(AnyValue(str, Get(src, "value", <<>>)), LAMBDA v :
            << IF Has(src, "keyindex") /\ InRange(str, Get(src, "keyindex", 0))
               THEN Lookup(str, Get(src, "keyindex", 0)) ELSE Get(src, "key", 0), v >>))

Attributes(str, kvs) ==
    Then(Each(kvs, LAMBDA m : KeyValue(str, m)), LAMBDA as : NewAttributes(as))

ArrayValue(str, src) ==
    Read(src, {"values"},
        Then(Each(All(src, "values"), LAMBDA m : AnyValue(str, m)), LAMBDA vs : <<"slice", vs>>))

KvlistValue(str, src) ==
    Read(src, {"values"}, Then(Attributes(str, All(src, "values")), LAMBDA as : MapValue(as)))

AnyFields == {"str", "bool", "int", "double", "bytes", "strindex", "slice", "map"}

AnyValue(str, src) ==
    LET one == OneOf(src, AnyFields)
        x == Last(one)
    IN Read(src, AnyFields,
           CASE one = <<>> -> Empty
             [] x[1] = "strindex" -> IF x[2] # 0 /\ InRange(str, x[2]) THEN <<"str", Lookup(str, x[2])>>
                                     ELSE Empty
             [] x[1] = "slice" -> ArrayValue(str, x[2])
             [] x[1] = "map" -> KvlistValue(str, x[2])
             [] OTHER -> x)

Resource(str, src) == Read(src, {"attributes"}, Attributes(str, All(src, "attributes")))

Scope(str, src) ==
    Read(src, {"name", "version", "attributes"},
        Then(Attributes(str, All(src, "attributes")), LAMBDA as :
            [name |-> Get(src, "name", 0), version |-> Get(src, "version", 0), attributes |-> as]))

\* A body keeps a string as it is and renders everything else; a JSON object keeps a key once.
RECURSIVE RawValue(_)
RawValue(v) ==
    CASE v[1] = "slice" -> <<"slice", [i \in DOMAIN v[2] |-> RawValue(v[2][i])]>>
      [] v[1] = "map" -> <<"map", [k \in { v[2][i][1] : i \in DOMAIN v[2] } |->
             RawValue(Last(SelectSeq(v[2], LAMBDA kv : kv[1] = k))[2])]>>
      [] OTHER -> v

RenderText(v) ==
    CASE v[1] = "str" -> v
      [] v[1] = "empty" -> <<"str", 0>>
      [] v[1] \in {"slice", "map"} -> <<"json", RawValue(v)>>
      [] OTHER -> <<"text", v>>

\* What one submessage adds to its scope, and the points and exemplars it could not keep.
Yield(items, points, exemplars) == [items |-> items, points |-> points, exemplars |-> exemplars]

ScopeGroup(str, src, Item(_)) ==
    Read(src, {"scope", "items", "schema"},
        Then(Scope(str, Get(src, "scope", <<>>)), LAMBDA sc :
        Then(Each(All(src, "items"), Item), LAMBDA ys :
            [scope |-> [schema |-> Get(src, "schema", 0)] @@ sc,
             items |-> Concat(ys, LAMBDA y : y.items),
             points |-> Total(ys, LAMBDA y : y.points),
             exemplars |-> Total(ys, LAMBDA y : y.exemplars)])))

ResourceGroup(str, src, Scopes(_)) ==
    Read(src, {"resource", "scopes", "schema"},
        Then(Resource(str, Get(src, "resource", <<>>)), LAMBDA as :
        Then(Each(All(src, "scopes"), Scopes), LAMBDA ss :
            [resource |-> [schema |-> Get(src, "schema", 0), attributes |-> as], scopes |-> ss])))

Requested(src, Group(_)) == Read(src, {"resources"}, Each(All(src, "resources"), Group))

------------------------------------------------------------------------------
(* otlpdecode: logs                                                            *)

\* A record with no event time takes the observed one; with neither it is dropped, and its
\* attributes are never decoded.
Record(src) ==
    LET ts == IF Get(src, "time", 0) = 0 THEN Get(src, "observed", 0) ELSE Get(src, "time", 0)
        body == AnyValue(<<>>, Get(src, "body", <<>>))
    IN Read(src, {"time", "observed", "severity", "body", "attributes", "traceid", "spanid"},
           Then(body, LAMBDA b :
           Then(TakeID(Get(src, "traceid", 0)), LAMBDA trace :
           Then(TakeID(Get(src, "spanid", 0)), LAMBDA span :
               IF ts = 0 THEN Yield(<<>>, 1, 0)
               ELSE Then(Attributes(<<>>, All(src, "attributes")), LAMBDA as :
                   Yield(<<[ts |-> ts, observed |-> Get(src, "observed", 0),
                            severity |-> Get(src, "severity", 0),
                            body |-> IF Has(src, "body") THEN RenderText(b) ELSE <<"str", 0>>,
                            trace |-> trace, span |-> span, attributes |-> as]>>, 0, 0))))))

ScopeLogs(src) == ScopeGroup(<<>>, src, Record)

ResourceLogs(src) == ResourceGroup(<<>>, src, ScopeLogs)

ConvertLogs(src) == Requested(src, ResourceLogs)

------------------------------------------------------------------------------
(* otlpdecode: metrics.  A retained metric cell is reset, then the fields the  *)
(* code assigns are written over it.                                           *)

TemporalityOf(v) == IF v \in {1, 2} THEN v ELSE 0

Cumulative == 2

NumberValue(src) == OneOf(src, {"double", "int"})

PointExemplar(src) ==
    Read(src, {"time", "double", "int", "traceid", "spanid", "attributes"},
        Then(TakeID(Get(src, "traceid", 0)), LAMBDA trace :
        Then(TakeID(Get(src, "spanid", 0)), LAMBDA span :
            IF NumberValue(src) = <<>> THEN Yield(<<>>, 0, 1)
            ELSE Then(Attributes(<<>>, All(src, "attributes")), LAMBDA as :
                Yield(<<[ts |-> Get(src, "time", 0), value |-> Last(NumberValue(src))[2],
                         trace |-> PresentID(trace), span |-> PresentID(span),
                         attributes |-> as]>>, 0, 0)))))

\* Exemplars that carry no value are counted; the rest go with their point.
PointExemplars(srcs) ==
    Then(Each(srcs, PointExemplar), LAMBDA ys :
        Yield(Concat(ys, LAMBDA y : y.items), 0, Total(ys, LAMBDA y : y.exemplars)))

NumberPoint(src) ==
    Read(src, {"start", "time", "double", "int", "attributes", "exemplars"},
        IF NumberValue(src) = <<>> THEN Yield(<<>>, 1, Len(All(src, "exemplars")))
        ELSE Then(Attributes(<<>>, All(src, "attributes")), LAMBDA as :
             Then(PointExemplars(All(src, "exemplars")), LAMBDA y :
                 Yield(<<[attributes |-> as, start |-> Get(src, "start", 0),
                          ts |-> Get(src, "time", 0), value |-> Last(NumberValue(src))[2],
                          exemplars |-> y.items]>>, 0, y.exemplars))))

Numbers(name, unit, src, kind, temp, monotonic) ==
    Read(src, {"points"},
        Then(Each(All(src, "points"), NumberPoint), LAMBDA ys :
            Yield(<<[name |-> name, unit |-> unit, kind |-> kind, temp |-> temp,
                     monotonic |-> monotonic, points |-> Concat(ys, LAMBDA y : y.items)]>>,
                  Total(ys, LAMBDA y : y.points), Total(ys, LAMBDA y : y.exemplars))))

SumOf(name, unit, src) ==
    Read(src, {"temporality", "monotonic"},
        Numbers(name, unit, src, "sum", TemporalityOf(Get(src, "temporality", 0)),
                Get(src, "monotonic", FALSE)))

WithLabel(base, key, text) == NewAttributes(base \o <<<<key, <<"str", text>>>>>>)

AddSeries(name, unit, temp, monotonic, attrs, src, value) ==
    [name |-> name, unit |-> unit, kind |-> "sum", temp |-> temp, monotonic |-> monotonic,
     points |-> <<[attributes |-> attrs, start |-> Get(src, "start", 0), ts |-> Get(src, "time", 0),
                   value |-> value, exemplars |-> <<>>]>>]

CountAndSum(name, unit, temp, base, src) ==
    <<AddSeries(<<name, "_count">>, unit, temp, temp = Cumulative, base, src, Get(src, "count", 0))>>
    \o IF ~Has(src, "total") THEN <<>>
       ELSE <<AddSeries(<<name, "_sum">>, unit, temp, FALSE, base, src, Get(src, "total", 0))>>

Bucket(name, unit, temp, base, src, b) ==
    AddSeries(<<name, "_bucket">>, unit, temp, temp = Cumulative, WithLabel(base, KeyLe, b.le), src, b.n)

HistogramPoint(name, unit, temp, src) ==
    LET counts == Packed(src, "buckets")
        bounds == Packed(src, "bounds")
        bucket(i) == [le |-> IF i <= Len(bounds) THEN bounds[i] ELSE Inf,
                      n |-> Total(SubSeq(counts, 1, i), LAMBDA n : n)]
    IN Read(src, {"start", "time", "count", "total", "buckets", "bounds", "attributes"},
           Then(Attributes(<<>>, All(src, "attributes")), LAMBDA base :
               Yield(CountAndSum(name, unit, temp, base, src)
                     \o [i \in DOMAIN counts |-> Bucket(name, unit, temp, base, src, bucket(i))],
                     0, Len(All(src, "exemplars")))))

Points(src, Point(_)) ==
    Read(src, {"points", "temporality"},
        Then(Each(All(src, "points"), Point), LAMBDA ys :
            Yield(Concat(ys, LAMBDA y : y.items), 0, Total(ys, LAMBDA y : y.exemplars))))

Histogram(name, unit, src) ==
    Points(src, LAMBDA m : HistogramPoint(name, unit, TemporalityOf(Get(src, "temporality", 0)), m))

QuantileOf(src) == Read(src, {"quantile", "at"}, <<Get(src, "quantile", 0), Get(src, "at", 0)>>)

\* A quantile is a gauge: only its name, unit, kind and point are assigned.
SummaryPoint(name, unit, src) ==
    Read(src, {"start", "time", "count", "total", "quantiles", "attributes"},
        Then(Attributes(<<>>, All(src, "attributes")), LAMBDA base :
        Then(Each(All(src, "quantiles"), QuantileOf), LAMBDA qs :
            Yield(<<AddSeries(<<name, "_count">>, unit, Cumulative, TRUE, base, src, Get(src, "count", 0)),
                    AddSeries(<<name, "_sum">>, unit, Cumulative, FALSE, base, src, Get(src, "total", 0))>>
                  \o [i \in DOMAIN qs |->
                        [name |-> name, unit |-> unit, kind |-> "gauge",
                         points |-> <<[attributes |-> WithLabel(base, KeyQuantile, qs[i][1]),
                                       start |-> Get(src, "start", 0), ts |-> Get(src, "time", 0),
                                       value |-> qs[i][2], exemplars |-> <<>>]>>]], 0, 0))))

Summary(name, unit, src) == Points(src, LAMBDA m : SummaryPoint(name, unit, m))

BucketsOf(src) ==
    Read(src, {"offset", "counts"}, [offset |-> Get(src, "offset", 0), counts |-> Packed(src, "counts")])

\* Any strictly rising function of the index stands for base^index.
Bound(i) == 50 + i

\* The non-empty buckets in index order, negative, zero, positive, then the one for everything.
ExpBuckets(neg, pos, zeros, total) ==
    LET below == [i \in DOMAIN neg.counts |-> [le |-> -Bound(neg.offset + i - 1), n |-> neg.counts[i]]]
        above == [i \in DOMAIN pos.counts |-> [le |-> Bound(pos.offset + i), n |-> pos.counts[i]]]
        all == SelectSeq(below \o <<[le |-> 0, n |-> zeros]>> \o above, LAMBDA b : b.n > 0)
    IN [i \in DOMAIN all |->
          [le |-> all[i].le, n |-> Total(SubSeq(all, 1, i), LAMBDA b : b.n)]]
       \o <<[le |-> Inf, n |-> total]>>

ExpHistogramPoint(name, unit, temp, src) ==
    Read(src, {"start", "time", "count", "total", "zeros", "positive", "negative", "attributes"},
        Then(Attributes(<<>>, All(src, "attributes")), LAMBDA base :
        Then(BucketsOf(Get(src, "negative", <<>>)), LAMBDA neg :
        Then(BucketsOf(Get(src, "positive", <<>>)), LAMBDA pos :
            LET bs == ExpBuckets(neg, pos, Get(src, "zeros", 0), Get(src, "count", 0))
            IN Yield(CountAndSum(name, unit, temp, base, src)
                     \o [i \in DOMAIN bs |-> Bucket(name, unit, temp, base, src, bs[i])],
                     0, Len(All(src, "exemplars")))))))

ExpHistogram(name, unit, src) ==
    Points(src, LAMBDA m : ExpHistogramPoint(name, unit, TemporalityOf(Get(src, "temporality", 0)), m))

Bodies == {"gauge", "sum", "histogram", "exphistogram", "summary"}

\* A producer may write the metric's name after its body: the body is kept until the end.
MetricOf(src) ==
    LET name == Get(src, "name", 0)
        unit == Get(src, "unit", 0)
        one == OneOf(src, Bodies)
        x == Last(one)
    IN Read(src, Bodies \cup {"name", "unit"},
           CASE one = <<>> -> Yield(<<>>, 0, 0)
             [] x[1] = "gauge" -> Numbers(name, unit, x[2], "gauge", 0, FALSE)
             [] x[1] = "sum" -> SumOf(name, unit, x[2])
             [] x[1] = "histogram" -> Histogram(name, unit, x[2])
             [] x[1] = "exphistogram" -> ExpHistogram(name, unit, x[2])
             [] OTHER -> Summary(name, unit, x[2]))

ScopeMetrics(src) == ScopeGroup(<<>>, src, MetricOf)

ResourceMetrics(src) == ResourceGroup(<<>>, src, ScopeMetrics)

NoMetric == [name |-> 0, unit |-> 0, kind |-> "gauge", temp |-> 0, monotonic |-> FALSE, points |-> <<>>]

\* A mutant of AddMetric: a retained cell keeps its monotonicity.
AddMetricStale(cell) == [NoMetric EXCEPT !.monotonic = cell.monotonic]

\* Metrics.AddMetric: a retained cell handed out again carries nothing over.
AddMetric(cell) == [cell EXCEPT !.name = 0, !.unit = 0, !.kind = "gauge", !.temp = 0,
                                !.monotonic = FALSE, !.points = <<>>]

Cell(kept, slot) == IF slot \in DOMAIN kept THEN kept[slot] ELSE NoMetric

Filled(kept, i, j, scope) ==
    [scope EXCEPT !.items = [k \in DOMAIN @ |-> @[k] @@ AddMetric(Cell(kept, <<i, j, k>>))]]

ConvertMetrics(src, kept) ==
    Then(Requested(src, ResourceMetrics), LAMBDA rs :
        [i \in DOMAIN rs |-> [rs[i] EXCEPT !.scopes = [j \in DOMAIN @ |-> Filled(kept, i, j, @[j])]]])

------------------------------------------------------------------------------
(* otlpdecode: traces                                                          *)

Event(src) ==
    Read(src, {"time", "name", "attributes", "dropped"},
        Then(Attributes(<<>>, All(src, "attributes")), LAMBDA as :
            [time |-> Get(src, "time", 0), name |-> Get(src, "name", 0), attributes |-> as,
             dropped |-> Get(src, "dropped", 0)]))

Link(src) ==
    Read(src, {"traceid", "spanid", "state", "attributes", "dropped"},
        Then(TakeID(Get(src, "traceid", 0)), LAMBDA trace :
        Then(TakeID(Get(src, "spanid", 0)), LAMBDA span :
        Then(Attributes(<<>>, All(src, "attributes")), LAMBDA as :
            [trace |-> trace, span |-> span, state |-> Get(src, "state", 0), attributes |-> as,
             dropped |-> Get(src, "dropped", 0)]))))

Status(src) == Read(src, {"message", "code"}, [message |-> Get(src, "message", 0), code |-> Get(src, "code", 0)])

Span(src) ==
    Read(src, {"traceid", "spanid", "parentid", "name", "start", "end", "attributes", "events",
               "links", "status"},
        Then(Each(<<"traceid", "spanid", "parentid">>, LAMBDA f : TakeID(Get(src, f, 0))), LAMBDA ids :
        Then(Attributes(<<>>, All(src, "attributes")), LAMBDA as :
        Then(Status(Get(src, "status", <<>>)), LAMBDA st :
        Then(Each(All(src, "events"), Event), LAMBDA evs :
        Then(Each(All(src, "links"), Link), LAMBDA lns :
            Yield(<<[trace |-> ids[1], span |-> ids[2], parent |-> ids[3], name |-> Get(src, "name", 0),
                     start |-> Get(src, "start", 0), end |-> Get(src, "end", 0), attributes |-> as,
                     status |-> st, events |-> evs, links |-> lns]>>, 0, 0)))))))

ScopeSpans(src) == ScopeGroup(<<>>, src, Span)

ResourceSpans(src) == ResourceGroup(<<>>, src, ScopeSpans)

ConvertTraces(src) == Requested(src, ResourceSpans)

------------------------------------------------------------------------------
(* otlpdecode: profiles.  The dictionary is decoded before the resources       *)
(* whatever the order of the fields, since their attributes point into it.     *)

Mapping(src) ==
    Read(src, {"start", "limit", "offset", "filename", "attrindices"},
        [start |-> Get(src, "start", 0), limit |-> Get(src, "limit", 0), offset |-> Get(src, "offset", 0),
         filename |-> Get(src, "filename", 0), attributes |-> Packed(src, "attrindices")])

Line(src) ==
    Read(src, {"function", "line", "column"},
        [function |-> Get(src, "function", 0), line |-> Get(src, "line", 0), column |-> Get(src, "column", 0)])

Location(src) ==
    Read(src, {"mapping", "address", "lines", "attrindices"},
        Then(Each(All(src, "lines"), Line), LAMBDA ls :
            [mapping |-> Get(src, "mapping", 0), address |-> Get(src, "address", 0), lines |-> ls,
             attributes |-> Packed(src, "attrindices")]))

Function(src) ==
    Read(src, {"name", "system", "filename", "start"},
        [name |-> Get(src, "name", 0), system |-> Get(src, "system", 0),
         filename |-> Get(src, "filename", 0), start |-> Get(src, "start", 0)])

Stack(src) == Read(src, {"frames"}, Packed(src, "frames"))

Attribute(str, src) ==
    Read(src, {"key", "value", "unit"},
        Then(AnyValue(str, Get(src, "value", <<>>)), LAMBDA v :
            [key |-> Get(src, "key", 0), unit |-> Get(src, "unit", 0), value |-> v]))

ProfileLink(src) ==
    Read(src, {"traceid", "spanid"},
        Then(TakeID(Get(src, "traceid", 0)), LAMBDA trace :
        Then(TakeID(Get(src, "spanid", 0)), LAMBDA span : [trace |-> trace, span |-> span])))

Tables == {"mappings", "locations", "functions", "links", "stacks", "strings", "attributes"}

Dictionary(src) ==
    Read(src, Tables,
        Then(Each(All(src, "mappings"), Mapping), LAMBDA ms :
        Then(Each(All(src, "locations"), Location), LAMBDA ls :
        Then(Each(All(src, "functions"), Function), LAMBDA fs :
        Then(Each(All(src, "links"), ProfileLink), LAMBDA ks :
        Then(Each(All(src, "stacks"), Stack), LAMBDA ss :
        Then(Each(All(src, "attributes"), LAMBDA m : Attribute(All(src, "strings"), m)), LAMBDA as :
            [strings |-> All(src, "strings"), mappings |-> ms, locations |-> ls, functions |-> fs,
             links |-> ks, stacks |-> ss, attributes |-> as])))))))

ValueType(src) == Read(src, {"type", "unit"}, [type |-> Get(src, "type", 0), unit |-> Get(src, "unit", 0)])

Sample(src) ==
    Read(src, {"stack", "link", "attrindices", "counts", "times"},
        [stack |-> Get(src, "stack", 0), link |-> Get(src, "link", 0), attributes |-> Packed(src, "attrindices"),
         values |-> Packed(src, "counts"), times |-> Packed(src, "times")])

Profile(src) ==
    Read(src, {"sampletype", "periodtype", "samples", "time", "period", "id", "attrindices"},
        Then(TakeID(Get(src, "id", 0)), LAMBDA id :
        Then(ValueType(Get(src, "sampletype", <<>>)), LAMBDA st :
        Then(ValueType(Get(src, "periodtype", <<>>)), LAMBDA pt :
        Then(Each(All(src, "samples"), Sample), LAMBDA ss :
            Yield(<<[id |-> id, sampletype |-> st, periodtype |-> pt, time |-> Get(src, "time", 0),
                     period |-> Get(src, "period", 0), attributes |-> Packed(src, "attrindices"),
                     samples |-> ss]>>, 0, 0))))))

ScopeProfiles(str, src) == ScopeGroup(str, src, Profile)

ResourceProfiles(str, src) == ResourceGroup(str, src, LAMBDA m : ScopeProfiles(str, m))

\* A mutant of ConvertProfiles: the resources see the strings only if the dictionary came first.
ConvertProfilesInOrder(src) ==
    Read(src, {"dictionary"},
        Then(Dictionary(Get(src, "dictionary", <<>>)), LAMBDA d :
            LET str == IF src # <<>> /\ src[1][1] = "dictionary" THEN d.strings ELSE <<>>
            IN Then(Requested(src, LAMBDA m : ResourceProfiles(str, m)), LAMBDA rs :
                   [dictionary |-> d, resources |-> rs])))

ConvertProfiles(src) ==
    Read(src, {"dictionary"},
        Then(Dictionary(Get(src, "dictionary", <<>>)), LAMBDA d :
        Then(Requested(src, LAMBDA m : ResourceProfiles(d.strings, m)), LAMBDA rs :
            [dictionary |-> d, resources |-> rs])))

------------------------------------------------------------------------------
(* pdataconv, over pdata (external): the same message, decoded whole up front, *)
(* with references into the string table already resolved.                     *)

MessageFields == {"resources", "resource", "scopes", "scope", "items", "attributes", "value", "values",
                  "slice", "map", "body", "points", "exemplars", "quantiles", "positive", "negative",
                  "events", "links", "status", "dictionary", "samples", "lines", "mappings",
                  "locations", "functions", "stacks", "sampletype", "periodtype"} \cup Bodies

\* pdata unmarshals a request whole or not at all, ids of a wrong width included.
RECURSIVE Unmarshals(_)
Unmarshals(src) ==
    \A i \in DOMAIN src :
        /\ src[i][2] # Bad
        /\ src[i][1] \in {"traceid", "spanid", "parentid", "id"} => src[i][2] # Wide
        /\ src[i][1] \in MessageFields => Unmarshals(src[i][2])

PdataKey(str, kv) ==
    LET i == Get(kv, "keyindex", 0)
    IN IF i # 0 /\ InRange(str, i) THEN Lookup(str, i) ELSE Get(kv, "key", 0)

PdataValue(str, src) ==
    LET one == OneOf(src, AnyFields)
        x == Last(one)
    IN CASE one = <<>> -> Empty
         [] x[1] = "strindex" -> IF x[2] # 0 /\ InRange(str, x[2]) THEN <<"str", Lookup(str, x[2])>> ELSE Empty
         [] OTHER -> x

RECURSIVE ConvertValue(_, _)

ConvertMap(str, kvs) ==
    NewAttributes([i \in DOMAIN kvs |->
        <<PdataKey(str, kvs[i]), ConvertValue(str, Get(kvs[i], "value", <<>>))>>])

ConvertValue(str, src) ==
    LET v == PdataValue(str, src)
    IN CASE v[1] = "slice" -> <<"slice", [i \in DOMAIN All(v[2], "values") |->
                                  ConvertValue(str, All(v[2], "values")[i])]>>
         [] v[1] = "map" -> MapValue(ConvertMap(str, All(v[2], "values")))
         [] OTHER -> v

\* AsString (external) renders what is not a string; a missing value is the empty text.
AsString(src) == RenderText(ConvertValue(<<>>, src))

BodyBytes(src) == IF PdataValue(<<>>, src)[1] = "str" THEN PdataValue(<<>>, src) ELSE AsString(src)

TraceIDBytes(id) == IF id \in {0, Zero} THEN 0 ELSE id

AppendScopes(str, rs, Item(_)) ==
    [j \in DOMAIN All(rs, "scopes") |->
        LET ss == All(rs, "scopes")[j]
            sc == Get(ss, "scope", <<>>)
            ys == [k \in DOMAIN All(ss, "items") |-> Item(All(ss, "items")[k])]
        IN [scope |-> [name |-> Get(sc, "name", 0), version |-> Get(sc, "version", 0),
                       schema |-> Get(ss, "schema", 0),
                       attributes |-> ConvertMap(str, All(sc, "attributes"))],
            items |-> Concat(ys, LAMBDA y : y.items),
            points |-> Total(ys, LAMBDA y : y.points),
            exemplars |-> Total(ys, LAMBDA y : y.exemplars)]]

AppendResources(str, md, Item(_)) ==
    [i \in DOMAIN All(md, "resources") |->
        LET rs == All(md, "resources")[i]
        IN [resource |-> [schema |-> Get(rs, "schema", 0),
                attributes |-> ConvertMap(str, All(Get(rs, "resource", <<>>), "attributes"))],
            scopes |-> AppendScopes(str, rs, Item)]]

AppendRecord(r) ==
    LET ts == IF Get(r, "time", 0) # 0 THEN Get(r, "time", 0) ELSE Get(r, "observed", 0)
    IN IF ts = 0 THEN Yield(<<>>, 1, 0)
       ELSE Yield(<<[ts |-> ts, observed |-> Get(r, "observed", 0), severity |-> Get(r, "severity", 0),
                     body |-> BodyBytes(Get(r, "body", <<>>)),
                     trace |-> TraceIDBytes(Get(r, "traceid", 0)), span |-> TraceIDBytes(Get(r, "spanid", 0)),
                     attributes |-> ConvertMap(<<>>, All(r, "attributes"))]>>, 0, 0)

AppendLogs(ld) == AppendResources(<<>>, ld, AppendRecord)

AppendExemplars(exs) ==
    LET kept == SelectSeq(exs, LAMBDA e : NumberValue(e) # <<>>)
    IN Yield([i \in DOMAIN kept |->
                [ts |-> Get(kept[i], "time", 0), value |-> Last(NumberValue(kept[i]))[2],
                 trace |-> TraceIDBytes(Get(kept[i], "traceid", 0)),
                 span |-> TraceIDBytes(Get(kept[i], "spanid", 0)),
                 attributes |-> ConvertMap(<<>>, All(kept[i], "attributes"))]],
             0, Len(exs) - Len(kept))

AppendNumber(dp) ==
    LET exs == All(dp, "exemplars")
    IN IF NumberValue(dp) = <<>> THEN Yield(<<>>, 1, Len(exs))
       ELSE Yield(<<[attributes |-> ConvertMap(<<>>, All(dp, "attributes")), start |-> Get(dp, "start", 0),
                     ts |-> Get(dp, "time", 0), value |-> Last(NumberValue(dp))[2],
                     exemplars |-> AppendExemplars(exs).items]>>, 0, AppendExemplars(exs).exemplars)

\* The kind of a number metric, and what only a sum says of itself.
MetricMetadata(one) ==
    IF one[1] = "sum"
    THEN [kind |-> "sum", temp |-> TemporalityOf(Get(one[2], "temporality", 0)),
          monotonic |-> Get(one[2], "monotonic", FALSE)]
    ELSE [kind |-> "gauge", temp |-> 0, monotonic |-> FALSE]

AppendNumbers(m, one) ==
    LET ys == [i \in DOMAIN All(one[2], "points") |-> AppendNumber(All(one[2], "points")[i])]
    IN Yield(<<MetricMetadata(one) @@ [name |-> Get(m, "name", 0), unit |-> Get(m, "unit", 0),
                                       points |-> Concat(ys, LAMBDA y : y.items)]>>,
             Total(ys, LAMBDA y : y.points), Total(ys, LAMBDA y : y.exemplars))

AppendHistogram(m, h) ==
    LET temp == TemporalityOf(Get(h, "temporality", 0))
        point(dp) ==
            LET base == ConvertMap(<<>>, All(dp, "attributes"))
                counts == Packed(dp, "buckets")
                bounds == Packed(dp, "bounds")
                cum[i \in 0 .. Len(counts)] == IF i = 0 THEN 0 ELSE cum[i - 1] + counts[i]
            IN CountAndSum(Get(m, "name", 0), Get(m, "unit", 0), temp, base, dp)
               \o [i \in DOMAIN counts |-> Bucket(Get(m, "name", 0), Get(m, "unit", 0), temp, base, dp,
                      [le |-> IF i <= Len(bounds) THEN bounds[i] ELSE Inf, n |-> cum[i]])]
    IN Concat(All(h, "points"), point)

PdataExpBuckets(dp) ==
    LET neg == Get(dp, "negative", <<>>)
        pos == Get(dp, "positive", <<>>)
        negN == Packed(neg, "counts")
        posN == Packed(pos, "counts")
        pairs == SelectSeq([i \in DOMAIN negN |-> <<-Bound(Get(neg, "offset", 0) + i - 1), negN[i]>>]
                           \o <<<<0, Get(dp, "zeros", 0)>>>>
                           \o [i \in DOMAIN posN |-> <<Bound(Get(pos, "offset", 0) + i), posN[i]>>],
                           LAMBDA p : p[2] > 0)
        cum[i \in 0 .. Len(pairs)] == IF i = 0 THEN 0 ELSE cum[i - 1] + pairs[i][2]
    IN [i \in DOMAIN pairs |-> [le |-> pairs[i][1], n |-> cum[i]]] \o <<[le |-> Inf, n |-> Get(dp, "count", 0)]>>

AppendExpHistogram(m, h) ==
    LET temp == TemporalityOf(Get(h, "temporality", 0))
        point(dp) ==
            LET base == ConvertMap(<<>>, All(dp, "attributes"))
            IN CountAndSum(Get(m, "name", 0), Get(m, "unit", 0), temp, base, dp)
               \o Concat(PdataExpBuckets(dp), LAMBDA b :
                      <<Bucket(Get(m, "name", 0), Get(m, "unit", 0), temp, base, dp, b)>>)
    IN Concat(All(h, "points"), point)

AppendSummary(m, h) ==
    LET name == Get(m, "name", 0)
        unit == Get(m, "unit", 0)
        gauge(dp, base, q) ==
            [NoMetric EXCEPT !.name = name, !.unit = unit,
                !.points = <<[attributes |-> WithLabel(base, KeyQuantile, Get(q, "quantile", 0)),
                              start |-> Get(dp, "start", 0), ts |-> Get(dp, "time", 0),
                              value |-> Get(q, "at", 0), exemplars |-> <<>>]>>]
        point(dp) ==
            LET base == ConvertMap(<<>>, All(dp, "attributes"))
            IN <<AddSeries(<<name, "_count">>, unit, Cumulative, TRUE, base, dp, Get(dp, "count", 0)),
                 AddSeries(<<name, "_sum">>, unit, Cumulative, FALSE, base, dp, Get(dp, "total", 0))>>
               \o Concat(All(dp, "quantiles"), LAMBDA q : <<gauge(dp, base, q)>>)
    IN Concat(All(h, "points"), point)

DecomposedExemplarCount(h) == Total(All(h, "points"), LAMBDA dp : Len(All(dp, "exemplars")))

AppendMetric(m) ==
    LET one == OneOf(m, Bodies)
        x == Last(one)
    IN CASE one = <<>> -> Yield(<<>>, 0, 0)
         [] x[1] \in {"gauge", "sum"} -> AppendNumbers(m, x)
         [] x[1] = "histogram" -> Yield(AppendHistogram(m, x[2]), 0, DecomposedExemplarCount(x[2]))
         [] x[1] = "exphistogram" -> Yield(AppendExpHistogram(m, x[2]), 0, DecomposedExemplarCount(x[2]))
         [] OTHER -> Yield(AppendSummary(m, x[2]), 0, 0)

AppendMetrics(md) == AppendResources(<<>>, md, AppendMetric)

AppendSpan(s) ==
    LET st == Get(s, "status", <<>>)
        id(f) == TraceIDBytes(Get(s, f, 0))
    IN Yield(<<[trace |-> id("traceid"), span |-> id("spanid"), parent |-> id("parentid"),
                name |-> Get(s, "name", 0), start |-> Get(s, "start", 0), end |-> Get(s, "end", 0),
                attributes |-> ConvertMap(<<>>, All(s, "attributes")),
                status |-> [message |-> Get(st, "message", 0), code |-> Get(st, "code", 0)],
                events |-> [i \in DOMAIN All(s, "events") |->
                    LET e == All(s, "events")[i]
                    IN [time |-> Get(e, "time", 0), name |-> Get(e, "name", 0),
                        attributes |-> ConvertMap(<<>>, All(e, "attributes")), dropped |-> Get(e, "dropped", 0)]],
                links |-> [i \in DOMAIN All(s, "links") |->
                    LET l == All(s, "links")[i]
                    IN [trace |-> TraceIDBytes(Get(l, "traceid", 0)), span |-> TraceIDBytes(Get(l, "spanid", 0)),
                        state |-> Get(l, "state", 0), attributes |-> ConvertMap(<<>>, All(l, "attributes")),
                        dropped |-> Get(l, "dropped", 0)]]]>>, 0, 0)

AppendTraces(td) == AppendResources(<<>>, td, AppendSpan)

AppendProfile(p) ==
    LET type(f) == [type |-> Get(Get(p, f, <<>>), "type", 0), unit |-> Get(Get(p, f, <<>>), "unit", 0)]
    IN Yield(<<[id |-> TraceIDBytes(Get(p, "id", 0)), sampletype |-> type("sampletype"),
                periodtype |-> type("periodtype"), time |-> Get(p, "time", 0), period |-> Get(p, "period", 0),
                attributes |-> Packed(p, "attrindices"),
                samples |-> [i \in DOMAIN All(p, "samples") |->
                    LET s == All(p, "samples")[i]
                    IN [stack |-> Get(s, "stack", 0), link |-> Get(s, "link", 0),
                        attributes |-> Packed(s, "attrindices"), values |-> Packed(s, "counts"),
                        times |-> Packed(s, "times")]]]>>, 0, 0)

ConvertDictionary(d) ==
    LET table(f, Row(_)) == Concat(All(d, f), LAMBDA m : <<Row(m)>>)
        str == All(d, "strings")
    IN [strings |-> str,
        mappings |-> table("mappings", LAMBDA m :
            [start |-> Get(m, "start", 0), limit |-> Get(m, "limit", 0), offset |-> Get(m, "offset", 0),
             filename |-> Get(m, "filename", 0), attributes |-> Packed(m, "attrindices")]),
        locations |-> table("locations", LAMBDA m :
            [mapping |-> Get(m, "mapping", 0), address |-> Get(m, "address", 0),
             lines |-> [i \in DOMAIN All(m, "lines") |->
                 LET l == All(m, "lines")[i]
                 IN [function |-> Get(l, "function", 0), line |-> Get(l, "line", 0), column |-> Get(l, "column", 0)]],
             attributes |-> Packed(m, "attrindices")]),
        functions |-> table("functions", LAMBDA m :
            [name |-> Get(m, "name", 0), system |-> Get(m, "system", 0), filename |-> Get(m, "filename", 0),
             start |-> Get(m, "start", 0)]),
        links |-> table("links", LAMBDA m :
            [trace |-> TraceIDBytes(Get(m, "traceid", 0)), span |-> TraceIDBytes(Get(m, "spanid", 0))]),
        stacks |-> table("stacks", LAMBDA m : Packed(m, "frames")),
        attributes |-> table("attributes", LAMBDA m :
            [key |-> Get(m, "key", 0), unit |-> Get(m, "unit", 0),
             value |-> ConvertValue(str, Get(m, "value", <<>>))])]

AppendProfiles(pd) ==
    LET d == Get(pd, "dictionary", <<>>)
    IN [dictionary |-> ConvertDictionary(d),
        resources |-> AppendResources(All(d, "strings"), pd, AppendProfile)]

------------------------------------------------------------------------------
(* The series id of a point: three ways to hash the same identity               *)

\* Identity.ToSeries: the reserved labels join the point's, after them where a key repeats.
ToSeries(group, m, attrs) ==
    [resource |-> group.resource, scope |-> group.scope,
     attributes |-> NewAttributes(attrs \o
         <<<<KeyName, <<"str", m.name>>>>, <<KeyUnit, <<"str", m.unit>>>>, <<KeyKind, <<"kindof", m.kind>>>>,
           <<KeyTemporality, <<"int", m.temp>>>>, <<KeyMonotonic, <<"bool", m.monotonic>>>>>>)]

\* projector.setMetric: the reserved labels, already in key order.
Reserved(m) ==
    <<<<KeyKind, <<"kindof", m.kind>>>>, <<KeyMonotonic, <<"bool", m.monotonic>>>>,
      <<KeyName, <<"str", m.name>>>>, <<KeyTemporality, <<"int", m.temp>>>>, <<KeyUnit, <<"str", m.unit>>>>>>

Hashed(kvs) == Concat(kvs, LAMBDA kv : AppendKeyValueHashInput(kv[1], kv[2]))

\* A mutant of MergedHashInput: a reserved label goes before a point's label of the same key.
MergedHashInputReservedFirst(a, b) ==
    LET merge[i \in 0 .. Len(a), j \in 0 .. Len(b)] ==
            IF i = Len(a) THEN SubSeq(b, j + 1, Len(b))
            ELSE IF j = Len(b) THEN SubSeq(a, i + 1, Len(a))
            ELSE IF a[i + 1][1] < b[j + 1][1] THEN <<a[i + 1]>> \o merge[i + 1, j]
            ELSE <<b[j + 1]>> \o merge[i, j + 1]
    IN Hashed(merge[0, 0])

MergedHashInput(a, b) ==
    LET merge[i \in 0 .. Len(a), j \in 0 .. Len(b)] ==
            IF i = Len(a) THEN SubSeq(b, j + 1, Len(b))
            ELSE IF j = Len(b) THEN SubSeq(a, i + 1, Len(a))
            ELSE IF a[i + 1][1] <= b[j + 1][1] THEN <<a[i + 1]>> \o merge[i + 1, j]
            ELSE <<b[j + 1]>> \o merge[i, j + 1]
    IN Hashed(merge[0, 0])

GroupPrefix(group) == ResourceHashInput(group.resource) \o ScopeHashInput(group.scope)

\* projector.id: no merge where every reserved key comes before the point's first.
PointID(group, m, attrs) ==
    GroupPrefix(group) \o <<<<"len", Len(attrs) + 5>>>>
    \o IF attrs = <<>> \/ KeyUnit < attrs[1][1] THEN Hashed(Reserved(m)) \o Hashed(attrs)
       ELSE MergedHashInput(attrs, Reserved(m))

\* projectPoints: a run of points with the first one's attributes shares its id.
ProjectPoints(group, m) ==
    LET fresh == [i \in DOMAIN m.points |-> PointID(group, m, m.points[i].attributes)]
        same(i) == \A j \in 2 .. i : m.points[j].attributes = m.points[1].attributes
    IN IF Len(m.points) < 2 \/ m.points[1].attributes # m.points[2].attributes THEN fresh
       ELSE [i \in DOMAIN m.points |-> IF same(i) THEN fresh[1] ELSE fresh[i]]

\* metricsHash.id: the same walk over a pdata map that was never converted.
HashID(group, m, kvs) ==
    LET es == NewAttributes(kvs)
        go[i \in 0 .. Len(es), j \in 0 .. 5] ==
            IF i = Len(es) THEN Hashed(SubSeq(Reserved(m), j + 1, 5))
            ELSE IF j < 5 /\ Reserved(m)[j + 1][1] < es[i + 1][1]
                 THEN Hashed(<<Reserved(m)[j + 1]>>) \o go[i, j + 1]
            ELSE Hashed(<<es[i + 1]>>) \o go[i + 1, j]
    IN GroupPrefix(group) \o <<<<"len", Len(es) + 5>>>> \o go[0, 0]

\* MetricsProjector.Prepare takes number metrics without exemplars only.
Prepare(md) ==
    \A r \in Range(All(md, "resources")) : \A s \in Range(All(r, "scopes")) : \A m \in Range(All(s, "items")) :
        LET one == OneOf(m, Bodies)
        IN one # <<>> /\ Last(one)[1] \in {"gauge", "sum"}
           /\ \A p \in Range(All(Last(one)[2], "points")) : ~Has(p, "exemplars")

\* MetricsProjector.Project: the ids of the points with a value, metric by metric.
ProjectIDs(md) ==
    LET metric(m) == MetricMetadata(Last(OneOf(m, Bodies))) @@ [name |-> Get(m, "name", 0), unit |-> Get(m, "unit", 0)]
        valued(m) == SelectSeq(All(Last(OneOf(m, Bodies))[2], "points"), LAMBDA p : NumberValue(p) # <<>>)
        raw(p) == [i \in DOMAIN All(p, "attributes") |->
                     LET kv == All(p, "attributes")[i] IN <<PdataKey(<<>>, kv), ConvertValue(<<>>, Get(kv, "value", <<>>))>>]
        scopes(r) == AppendScopes(<<>>, r, LAMBDA m : Yield(<<m>>, 0, 0))
        resource(r) == [schema |-> Get(r, "schema", 0),
                        attributes |-> ConvertMap(<<>>, All(Get(r, "resource", <<>>), "attributes"))]
    IN Concat(All(md, "resources"), LAMBDA r : Concat(scopes(r), LAMBDA s : Concat(s.items, LAMBDA m :
           Concat(valued(m), LAMBDA p :
               <<HashID([resource |-> resource(r), scope |-> s.scope], metric(m), raw(p))>>))))

\* metric.Project over the converted batch.
Projected(rs) ==
    Concat(rs, LAMBDA r : Concat(r.scopes, LAMBDA s :
        Concat(s.items, LAMBDA m : ProjectPoints([resource |-> r.resource, scope |-> s.scope], m))))

SeriesIDs(rs) ==
    Concat(rs, LAMBDA r : Concat(r.scopes, LAMBDA s : Concat(s.items, LAMBDA m :
        [i \in DOMAIN m.points |->
            SeriesHash(ToSeries([resource |-> r.resource, scope |-> s.scope], m, m.points[i].attributes))])))

------------------------------------------------------------------------------
(* One converter handles one request after another                             *)

\* What pdata and pdataconv make of the request.
Reference(req) ==
    CASE req[1] = "logs" -> AppendLogs(req[2])
      [] req[1] = "metrics" -> AppendMetrics(req[2])
      [] req[1] = "traces" -> AppendTraces(req[2])
      [] OTHER -> AppendProfiles(req[2])

Decode(req, kept) ==
    CASE req[1] = "logs" -> ConvertLogs(req[2])
      [] req[1] = "metrics" -> ConvertMetrics(req[2], kept)
      [] req[1] = "traces" -> ConvertTraces(req[2])
      [] OTHER -> ConvertProfiles(req[2])

\* The batch's storage outlives it: a cell not filled again keeps what an earlier request left.
Retained(rs, kept) ==
    LET slots == { <<i, j, k>> : i \in DOMAIN rs, j \in 1 .. 2, k \in 1 .. 8 }
        used == { t \in slots : t[2] <= Len(rs[t[1]].scopes) /\ t[3] <= Len(rs[t[1]].scopes[t[2]].items) }
    IN [t \in used |-> rs[t[1]].scopes[t[2]].items[t[3]]] @@ kept

Init == in = <<"none">> /\ out = Err /\ cells = <<>> /\ turns = 0

Convert(req) ==
    /\ turns < MaxTurns
    /\ turns' = turns + 1
    /\ in' = req
    /\ out' = Decode(req, cells)
    /\ cells' = IF req[1] = "metrics" /\ out' # Err THEN Retained(out', cells) ELSE cells

Next == \E req \in IF turns = 0 THEN Requests ELSE Again : Convert(req)

Spec == Init /\ [][Next]_vars

------------------------------------------------------------------------------
IDFields == {"trace", "span", "parent", "id"}

Contextless(item) ==
    [f \in DOMAIN item |->
        CASE f \in IDFields -> PresentID(item[f])
          [] f = "links" -> [i \in DOMAIN item[f] |->
                [g \in DOMAIN item[f][i] |-> IF g \in IDFields THEN PresentID(item[f][i][g]) ELSE item[f][i][g]]]
          [] OTHER -> item[f]]

ContextlessGroups(rs) ==
    [i \in DOMAIN rs |-> [rs[i] EXCEPT !.scopes = [j \in DOMAIN @ |->
        [@[j] EXCEPT !.items = [k \in DOMAIN @ |-> Contextless(@[k])]]]]]

\* The batch with its all-zero ids taken for absent ones.
WithoutZeroIDs(batch) ==
    IF in[1] # "profiles" THEN ContextlessGroups(batch)
    ELSE [dictionary |-> Contextless(batch.dictionary), resources |-> ContextlessGroups(batch.resources)]

\* The byte decoder is indistinguishable from pdata followed by pdataconv (ids.go): on every
\* request pdata accepts it builds the same batch and drops the same points, whatever order the
\* producer wrote the fields in, and whatever requests the same converter handled before.  The one
\* exception: an all-zero id of a log, span, link or profile, which pdataconv leaves unset, is kept
\* as it came (only an exemplar's goes through presentID), so such ids are compared as absent.
Indistinguishable == (turns > 0 /\ Unmarshals(in[2])) => out # Err /\ WithoutZeroIDs(out) = Reference(in)

\* A point has one series id: hashing the whole identity (Identity.SeriesID), merging the reserved
\* labels into a sorted point (metric.Project) and hashing pdata directly (MetricsProjector) agree,
\* also where a point carries a label with a reserved key.
OneSeriesID ==
    (turns > 0 /\ in[1] = "metrics" /\ out # Err) =>
        /\ Projected(out) = SeriesIDs(out)
        /\ (Unmarshals(in[2]) /\ Prepare(in[2])) => ProjectIDs(in[2]) = SeriesIDs(out)

\* The classic buckets of a point are "in ascending bound order with cumulative counts" up to the
\* total (histogramPoint, expBuckets).  The one exception: the bounds of two negative exponential
\* buckets that hold a count descend; their counts are cumulative all the same.
BucketsCumulative ==
    (turns > 0 /\ in[1] = "metrics" /\ out # Err) =>
        \A r \in Range(out) : \A s \in Range(r.scopes) :
            LET bs == SelectSeq(s.items, LAMBDA m : m.kind = "sum" /\ Len(m.points) = 1
                          /\ \E kv \in Range(m.points[1].attributes) : kv[1] = KeyLe)
                le(b) == Last(SelectSeq(b.points[1].attributes, LAMBDA kv : kv[1] = KeyLe))[2][2]
            IN \A i, j \in DOMAIN bs : i < j /\ bs[i].points[1].ts = bs[j].points[1].ts =>
                   /\ le(bs[i]) < le(bs[j]) \/ (le(bs[i]) < 0 /\ le(bs[j]) < 0)
                   /\ bs[i].points[1].value <= bs[j].points[1].value
==============================================================================
