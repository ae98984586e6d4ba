----------------------------- MODULE MCCluster ------------------------------
(* The components of the cluster and of the data it exchanges, each explored*)
(* on its own: which says which component this behaviour runs, and the slots*)
(* hold its variables.                                                      *)
EXTENDS Integers, Sequences, FiniteSets, SequencesExt

CONSTANTS None, Bad, Err

VARIABLES which, v1, v2, v3, v4, v5, v6, v7, v8, v9, v10, v11, v12, v13   \* the component's variables, in its order

vars == <<which, v1, v2, v3, v4, v5, v6, v7, v8, v9, v10, v11, v12, v13>>

R == INSTANCE Repairs WITH MaxFlush <- 3, MaxPart <- 5, MaxLoss <- 1, MaxPass <- 1,
        FetchesPerCycle <- 1, HoleConfirmations <- 1, MaxLineage <- 1, part <- v1, live <- v2,
        wants <- v3, holes <- v4, catalog <- v5, mark <- v6, disk <- v7, peer <- v8,
        plan <- v9, evidence <- v10, tried <- v11, pass <- v12, losses <- v13

IndexPart(p, t, ns, lo, hi, r) == [prefix |-> p, term |-> t, nums |-> ns, min |-> lo, max |-> hi, rollup |-> r]

IndexParts ==
    { IndexPart(<<1, 2>>, 0, <<1, 2, 3>>, 0, 0, [tiers |-> <<>>]), IndexPart(<<1>>, 0, <<2, 5>>, -1, 2, None),
      IndexPart(<<2>>, 1, <<1, 2>>, 2, 3, [tiers |-> << [before |-> -1, interval |-> 2, agg |-> 1] >>]) }

X == INSTANCE IndexCodec WITH MaxN <- 5, MaxLevel <- 3, MaxAgg <- 3, MaxRemovals <- 1,
        MaxWriters <- 1, Fresh <- IndexParts, Writer <- { <<1>>, <<2>> }, Self <- <<1>>,
        Changes <- {0, 4}, MaxStep <- 3, ix <- v1, made <- v2, mark <- v3, steps <- v4,
        stream <- v5, ver <- v6, harm <- v7, got <- v8

Y == INSTANCE PartSync WITH Node <- {"a", "b"}, First <- "a", None <- None, MaxFlush <- 3,
        MaxPart <- 3, MaxTerm <- 2, MaxPass <- 2, MaxFault <- 1, MaxExpire <- 1,
        WantAfter <- 1, PruneAfter <- 2, owner <- v1, term <- v2, part <- v3, ix <- v4,
        obj <- v5, safe <- v6, pass <- v7, seen <- v8, adopted <- v9, dropped <- v10,
        undone <- v11, spent <- v12

RemoteRow(i, s, t, v, c, k, w, sh) ==
    [id |-> i, s |-> s, t |-> t, v |-> v, c |-> c, k |-> k, w |-> w, sh |-> sh]

RemoteRows ==
    { RemoteRow(1, 1, 1, 5, "z", "empty", 1, 1), RemoteRow(2, 1, 2, 3, "y", "x", 1, 1),
      RemoteRow(3, 2, 2, 4, "z", "x", 2, 1), RemoteRow(4, 3, 3, 1, "z", "y", 1, 2),
      RemoteRow(5, 3, 1, 2, "empty", "x", 1, 2), RemoteRow(6, 1, 3, 9, "y", "y", 1, 2),
      RemoteRow(7, 4, 2, 7, "y", "empty", 3, 2), RemoteRow(8, 2, 3, 6, "x", "empty", 1, 2) }

RemoteText == [x |-> "x", y |-> "y", z |-> "z", seven |-> "7", empty |-> ""]
RemoteOrder == [x |-> 2, y |-> 3, z |-> 4] @@ ("7" :> 1) @@ ("" :> 0)

Equals(t) == [spec |-> t, strings |-> {}, match |-> { v \in DOMAIN RemoteText : RemoteText[v] = t }]
AnyOf(ss, extra) == [spec |-> None, strings |-> ss, match |-> ss \cup extra]
Opaque(m) == [spec |-> None, strings |-> {}, match |-> m]
Column(col, e, any, m) == [column |-> col, equal |-> e, any |-> any, match |-> m]

Ask(op, ms, cs, all, pr, l, rev, sec) ==
    [op |-> op, start |-> 1, end |-> 3, matchers |-> ms, conds |-> cs, all |-> all, projection |-> pr,
     limit |-> l, reverse |-> rev, second |-> sec, step |-> 2, window |-> 3]

RemoteMatchers ==
    { <<>>, <<Equals("7")>>, <<AnyOf({"x", "y"}, {})>>, <<AnyOf({"x"}, {"seven"})>>,
      <<Opaque({"x", "seven"})>>, <<Equals("x"), Opaque({"x"})>>, <<Opaque({"seven"})>> }

RemoteConditions ==
    { <<>>, <<Column("c", "x", {}, {"x"})>>, <<Column("k", None, {"x", "y"}, {"x"})>>,
      <<Column("k", None, {}, {"empty"}), Column("c", None, {"y"}, {"y"})>>,
      <<Column("c", "y", {}, {"y"}), Column("k", None, {"x"}, {"x"})>> }

RemoteQueries ==
    { q \in { Ask("rows", m, c, all, p, l, rev, None) : m \in RemoteMatchers, c \in RemoteConditions,
                 all \in BOOLEAN, p \in { <<>>, <<"c">> }, l \in {0, 1}, rev \in BOOLEAN } :
        q.limit > 0 => q.all }
    \cup { Ask("rows", m, c, TRUE, <<"c">>, 0, FALSE, {1, 3}) : m \in RemoteMatchers, c \in RemoteConditions }
    \cup { Ask(op, m, <<>>, TRUE, <<>>, 0, FALSE, None) :
             op \in {"samples", "aggregate", "window", "series", "labels"}, m \in RemoteMatchers }
    \cup { Ask("keys", <<>>, <<>>, TRUE, <<>>, 0, FALSE, None) }
    \cup { Ask("values", <<>>, <<>>, TRUE, <<>>, l, FALSE, None) : l \in 0 .. 3 }

G == INSTANCE RemoteRead WITH Row <- RemoteRows, Query <- RemoteQueries,
        Label <- <<"x", "seven", "y", "seven">>, Text <- RemoteText, Order <- RemoteOrder,
        Strings <- {"x", "y", "z", "empty"}, Shards <- <<1, 2>>, Sections <- {1, 3, 4, 5},
        Budget <- 5, q <- v1, here <- v2, known <- v3, asked <- v4, wire <- v5, got <- v6,
        out <- v7

FanBatch(c, id) ==
    [id |-> id, samples |-> [ts |-> IF c = 1 THEN <<1, 2>> ELSE <<2, 3>>, val |-> <<10 * c + id, 10 * c + id + 1>>,
                             sf |-> IF c = 2 THEN <<4, 5>> ELSE None]]

FanInputs ==
    { [c \in 1 .. 3 |-> [k \in DOMAIN s[c] |-> FanBatch(c, s[c][k])]] :
        s \in [1 .. 3 -> { <<>>, <<1>>, <<1, 2>>, <<2, 3>>, <<2, 1>>, <<1, 1>>, <<3>> }] }

J == INSTANCE FetchMerge WITH Inputs <- FanInputs, MaxFault <- 1, Nil <- None, given <- v1,
        rest <- v2, cur <- v3, heap <- v4, refill <- v5, last <- v6, err <- v7, out <- v8,
        eof <- v9, closed <- v10, released <- v11, faults <- v12

Field(f, v) == <<f, v>>

KV(k, v) == Field("attributes", <<Field("key", k), Field("value", v)>>)

OtlpValues ==
    { <<>>, <<Field("str", 1)>>, <<Field("int", 0), Field("bool", TRUE)>>,
      <<Field("slice", <<Field("values", <<Field("str", 2)>>), Field("values", <<>>)>>)>>,
      <<Field("map", <<Field("values", <<Field("key", 7), Field("value", <<Field("str", 1)>>)>>),
                       Field("values", <<Field("value", <<Field("double", 2)>>), Field("key", 1)>>),
                       Field("values", <<Field("key", 7), Field("value", <<Field("str", 2)>>)>>)>>)>> }

\* Labels out of order, repeated, and with the key of a reserved one (4, the name).
OtlpLabels ==
    { <<>>, <<KV(7, <<Field("str", 1)>>)>>, <<KV(7, <<Field("str", 1)>>), KV(1, <<Field("str", 2)>>)>>,
      <<KV(4, <<Field("str", 9)>>), KV(4, <<Field("int", 2)>>), KV(1, <<>>)>> }

\* Any message in the producer's order and in the opposite one.
BothWays(ms) == ms \cup { Reverse(m) : m \in ms }

OneGroup(items, labels) ==
    <<Field("resources", <<Field("scopes", [i \in DOMAIN items |-> Field("items", items[i])]
                                           \o <<Field("scope", labels \o <<Field("name", 3)>>)>>),
                           Field("resource", labels), Field("schema", 1)>>)>>

OtlpLogs ==
    { <<Field("time", t), Field("observed", o), Field("body", b), Field("traceid", id), Field("spanid", id)>> \o as :
        t \in {0, 2}, o \in {0, 1}, b \in OtlpValues, id \in {-1, 0, 5}, as \in OtlpLabels }
    \cup { <<Field("time", t), Field("body", b), Field("spanid", id), KV(1, v)>> :
             t \in {0, 2}, b \in { <<>>, Bad, <<Field("str", Bad)>> }, id \in {5, -2}, v \in { <<>>, Bad } }

Point(labels, value, ts) == Field("points", <<Field("time", ts)>> \o value \o labels)

Exemplars ==
    { <<>>, <<Field("exemplars", <<Field("traceid", -1), Field("int", 1), Field("spanid", 5)>>),
              Field("exemplars", <<Field("time", 1)>>)>> }

OtlpNumbers ==
    { <<Field("gauge", <<Point(a, <<Field("double", 1)>> \o e, 1), Point(b, v, 2)>>), Field("name", 3), Field("unit", 1)>> :
        a \in OtlpLabels, b \in OtlpLabels, e \in Exemplars, v \in { <<>>, <<Field("int", 2)>> } }
    \cup { <<Field("sum", <<Field("temporality", t), Point(a, <<Field("int", 2)>>, 1), Point(a, <<Field("int", 3)>>, 2),
                            Field("monotonic", TRUE)>>), Field("name", 3)>> : t \in {2, 3}, a \in OtlpLabels }

OtlpHistograms ==
    { <<Field("name", 3), Field("histogram", <<Field("temporality", 2), Field("points",
            <<Field("buckets", c), Field("bounds", <<1, 2>>), Field("count", 4), Field("time", 1)>> \o s \o a)>>)>> :
        c \in { <<>>, <<1, 0, 3>> }, s \in { <<>>, <<Field("total", 7)>> }, a \in OtlpLabels }
    \cup { <<Field("name", 3), Field("exphistogram", <<Field("points",
            <<Field("positive", <<Field("offset", -1), Field("counts", p)>>), Field("zeros", z), Field("time", 1),
              Field("negative", <<Field("counts", n), Field("offset", 1)>>), Field("count", 9)>> \o a)>>)>> :
        p \in { <<>>, <<2, 0, 1>> }, n \in { <<>>, <<0, 3>>, <<1, 3>> }, z \in {0, 1}, a \in OtlpLabels }
    \cup { <<Field("summary", <<Field("points", <<Field("count", 2), Field("total", 3), Field("time", 1),
            Field("quantiles", <<Field("quantile", 5), Field("at", 4)>>)>> \o a)>>), Field("name", 3)>> : a \in OtlpLabels }

OtlpSpans ==
    { <<Field("traceid", 5), Field("spanid", id), Field("parentid", p), Field("start", 1), Field("end", 3)>> \o a \o x :
        id \in {5, -1, -2}, p \in {-1, 0, 5}, a \in OtlpLabels, x \in { <<>>, <<Field("links", Bad)>> } }
    \cup { <<Field("spanid", 5), Field("status", <<Field("code", 2)>>), Field("links", <<Field("spanid", id)>> \o a),
             Field("events", <<Field("name", 1), Field("time", 2)>> \o a)>> : id \in {0, 5, -1, -2}, a \in OtlpLabels }

OtlpDictionary ==
    <<Field("strings", 0), Field("strings", 7), Field("strings", 1),
      Field("mappings", <<Field("filename", 1), Field("attrindices", <<0, 1>>)>>),
      Field("functions", <<Field("name", 2)>>), Field("stacks", <<Field("frames", <<0>>)>>),
      Field("locations", <<Field("lines", <<Field("function", 0), Field("line", 4)>>), Field("address", 2)>>),
      Field("links", <<Field("spanid", 5), Field("traceid", -1)>>),
      Field("attributes", <<Field("key", 1), Field("value", <<Field("strindex", 2)>>)>>)>>

OtlpProfiles ==
    { OneGroup(<<<<Field("samples", <<Field("counts", <<1, 2>>), Field("stack", 0)>>), Field("time", t), Field("id", id),
                   Field("sampletype", <<Field("type", 1)>>)>>>>,
               <<Field("attributes", <<Field("keyindex", k), Field("value", <<Field("strindex", v)>>)>>)>>)
      \o <<Field("dictionary", d)>> :
        t \in {0, 1}, id \in {-1, 0, 5}, k \in {1, 2}, v \in 0 .. 3, d \in { <<>>, OtlpDictionary } }

OtlpRequests ==
    { <<"logs", OneGroup(<<r>>, <<>>)>> : r \in BothWays(OtlpLogs) }
    \cup { <<"metrics", OneGroup(<<m>>, <<KV(7, <<Field("str", 1)>>)>>)>> : m \in BothWays(OtlpNumbers \cup OtlpHistograms) }
    \cup { <<"traces", OneGroup(<<s, s>>, <<>>)>> : s \in BothWays(OtlpSpans) }
    \cup { <<"profiles", p>> : p \in BothWays(OtlpProfiles) }

\* Requests decoded into the cells an earlier one left: a summary, a gauge, a sum without its flags.
OtlpAgain ==
    { <<"metrics", OneGroup(<<m>>, <<>>)>> :
        m \in { <<Field("summary", <<Field("points", <<Field("count", 2), Field("time", 1),
                    Field("quantiles", <<Field("quantile", 5), Field("at", 4)>>)>>)>>), Field("name", 3)>>,
                <<Field("gauge", <<Point(<<>>, <<Field("double", 1)>>, 1)>>), Field("name", 3)>> } }

O == INSTANCE Otlp WITH Requests <- OtlpRequests, Again <- OtlpAgain, MaxTurns <- 2, in <- v1,
        out <- v2, cells <- v3, turns <- v4

SpanAttrs ==
    { <<>>, <<<<1, <<"str", 7>>>>, <<2, <<"empty", 0>>>>, <<2, <<"int", 5>>>>>>,
      <<<<1, <<"slice", <<<<"str", 2>>, <<"map", <<<<2, <<"bool", TRUE>>>>>>>>>>>>>>, <<3, <<"bytes", 1>>>>>> }

SpanOf(trace, span, parent, start, as) ==
    [trace |-> trace, span |-> span, parent |-> parent, start |-> start,
     events |-> IF as = <<>> THEN <<>>
                ELSE [i \in 1 .. span |-> [time |-> i, name |-> 4, attributes |-> as, dropped |-> i]],
     links |-> IF as = <<>> THEN <<>>
               ELSE <<[trace |-> 9, span |-> span, state |-> 0, attributes |-> as, dropped |-> 0]>>]

StreamOf(as, bs) ==
    [resource |-> [schema |-> 1, attributes |-> as],
     scope |-> [name |-> 1, version |-> 0, schema |-> 2, attributes |-> bs], attributes |-> as]

SpanRequests ==
    { <<[i \in 1 .. 3 |-> SpanOf(1, ids[i], ps[i], i - (IF i = late THEN 2 ELSE 0), <<>>)], StreamOf(<<>>, <<>>)>> :
        ids \in [1 .. 3 -> 1 .. 3], ps \in [1 .. 3 -> 0 .. 3], late \in 1 .. 3 }
    \cup { <<[i \in 1 .. 4 |-> SpanOf(1 + (i \div split), i, ps[i], 1, <<>>)], StreamOf(<<>>, <<>>)>> :
             ps \in [1 .. 4 -> 0 .. 4], split \in {4, 9} }
    \cup { <<<<SpanOf(1, 1, 0, 1, as), SpanOf(1, 2, 1, 1, bs)>>, StreamOf(as, bs)>> : as \in SpanAttrs, bs \in SpanAttrs }

T == INSTANCE SpanRecords WITH Requests <- SpanRequests, Keys <- 1 .. 4, in <- v1, nsets <- v2,
        stored <- v3

Upto(S, n) == UNION { [1 .. k -> S] : k \in 0 .. n }

Column1(k, v) == [kind |-> k, vals |-> v]

CodecMagnitudes == [m \in 1 .. 126 |-> IF m <= 100 THEN 5 * (m - 1) ELSE 1000 * (m - 100)]

\* Both sides of every short form's bounds, overflow, every unit, and a column too long for a group.
CodecTimes ==
    Upto({-128, 0, 27}, 2)
    \cup { <<0, 0, d>> : d \in {-16, -15, -3, -2, -1, 2, 3, 4, 5, 16, 17} }
    \cup { <<0, 27, 81>>, <<0, 27, 36>>, <<0, 3, 5, 22, 38>>, <<-128, 127, -128, 100>>, <<5, 5, 5, 9>> }

CodecJobs ==
    { Column1(k, v) : k \in {"dod", "scaled", "adaptive"}, v \in CodecTimes }
    \cup { Column1("adaptive", [i \in 1 .. n |-> i]) : n \in {3, 10} }
    \cup { Column1("xor", v) : v \in Upto({0, 5, 110, 128}, 2) \cup {<<1, 3, 2, 34, 98>>, <<1, 1, 255>>} }
    \cup { [kind |-> "lossy", vals |-> v, prec |-> p] : p \in {2, 8},
             v \in { <<>>, <<0>>, <<101, 104, 109>>, <<100, 101, 110, 125>>, <<2, 4, 40, 44>>, <<0, 125>>, <<4, 6, 100>> } }
    \cup { [kind |-> "groups", vals |-> v, ends |-> e] : e \in { <<>>, <<1>>, <<1, 2>>, <<2, 4>> },
             v \in Upto({0, 5, 110}, 2) \cup { <<101, 104, 101>>, <<110, 120, 119, 110>> } }
    \cup { [kind |-> "costed", vals |-> v, cost |-> c] : v \in Upto({0, 5, 110, 128}, 2), c \in { <<1, 0>>, <<0, 1>> } }
    \cup { Column1("t64", v) : v \in Upto({-128, -5, 3, 127}, 2) \cup { [i \in 1 .. 9 |-> i * 3], [i \in 1 .. 8 |-> i - 4] } }
    \cup { Column1("u128", v) : v \in Upto({1, 513}, 3) }
    \cup { Column1("runs", v) : v \in Upto([v : {1, 513}, n : 0 .. 1], 2) \cup Upto([v : {1, 513}, n : {2}], 3) }

K == INSTANCE NumberCodecs WITH Word <- 8, Byte <- 2, Buckets <- <<2, 3, 5>>,
        Scales <- <<27, 9, 3>>, LeadBits <- 2, SigBits <- 3, Unit <- 1000, Small <- 300,
        FineDigits <- 2, CoarseDigits <- 1, Magnitudes <- CodecMagnitudes, MaxRows <- 9,
        Jobs <- CodecJobs, job <- v1, stream <- v2, cut <- v3, out <- v4, cur <- v5, got <- v6

ByteColumns == { <<>>, << <<0>>, <<1>>, <<0>> >>, << <<1>>, <<2, 3>> >> }

\* As many cells as one byte can name, and one more than a dictionary holds.
ManyCells == << <<0>>, <<1>>, <<2, 3>>, <<>>, <<3>>, <<2>>, <<0, 0>> >>

SplitColumn(e, i) == [kind |-> "split", entries |-> e, ids |-> i]

ByteJobs ==
    { Column1("dict", v) : v \in ByteColumns \cup { SubSeq(ManyCells, 1, 5) \o << <<1>> >>, ManyCells \o << <<0>> >> } }
    \cup { Column1("raw", v) : v \in { <<>>, << <<0>>, <<1>>, <<0>> >>, << <<2, 3>>, <<0>> >>, << <<>>, <<>>, <<>> >> } }
    \cup { SplitColumn(<< <<0>>, <<1>>, <<2, 3>> >>, <<3, 1, 3>>), SplitColumn(<< <<1>>, <<0>> >>, <<2>>),
            SplitColumn(<< <<2, 3>>, <<>>, <<0>> >>, <<2, 1>>), SplitColumn(<< <<0>> >>, <<>>),
            SplitColumn(ManyCells, <<7, 6, 5, 4, 3, 2, 1>>) }

ByteGranules ==
    { Column1("dict", v) : v \in { << <<0>>, <<0>>, <<1>> >>, << <<1>>, <<2, 3>> >>, << <<>>, <<3>>, <<>> >>,
                                   << <<2, 3>>, <<2>>, <<2, 3>> >> } }
    \cup { Column1("raw", << <<2, 3>>, <<0>> >>) }
    \cup { [kind |-> "shared", ids |-> i] : i \in { <<2, 0>>, <<1>> } }

Z == INSTANCE BytesCodec WITH Byte <- 2, Word <- 8, MaxDictSize <- 4, MaxDictEntries <- 6,
        MaxEmpty <- 4, MaxGen <- 2, Jobs <- ByteJobs, MaxWrite <- 3,
        Shared <- <<<<1>>, <<>>, <<2, 3>>>>, Granules <- ByteGranules, Places <- {0, 2},
        MaxAppend <- 3, table <- v1, scratch <- v2, form <- v3, stream <- v4, rows <- v5,
        cut <- v6, cells <- v7, split <- v8, writes <- v9, merger <- v10, want <- v11,
        built <- v12

H == INSTANCE ByteIntMap WITH Key <- 1 .. 5, Value <- 1 .. 2, Hash <- <<3, 7, 3, 0, 2>>,
        Initial <- 4, MaxSlots <- 8, MaxPooled <- 4, MaxReuse <- 1, slots <- v1, count <- v2,
        used <- v3, growAt <- v4, truth <- v5, reuse <- v6

B == INSTANCE BlockCache WITH Reader <- {"r", "s"}, Part <- {1}, Key <- 1 .. 3,
        PartOf <- <<1, 2, 2>>, ShardOf <- <<1, 2, 1>>, Bytes <- <<2, 3, 1>>, Marks <- {3},
        Shards <- 2, MaxBytes <- 4, MarksShare <- 1, FreeCap <- 1, Buffer <- 1 .. 5,
        Nil <- None, ll <- v1, entry <- v2, content <- v3, free <- v4, bytes <- v5,
        marksBytes <- v6, trimmer <- v7, trimNext <- v8, gone <- v9, pc <- v10, want <- v11,
        at <- v12, left <- v13

Init ==
    \/ /\ which = "repairs" /\ R!Init
    \/ /\ which = "index" /\ X!Init /\ v9 = 0 /\ v10 = 0 /\ v11 = 0 /\ v12 = 0 /\ v13 = 0
    \/ /\ which = "partsync" /\ Y!Init /\ v13 = 0
    \/ /\ which = "remote" /\ G!Init /\ v8 = 0 /\ v9 = 0 /\ v10 = 0 /\ v11 = 0 /\ v12 = 0
       /\ v13 = 0
    \/ /\ which = "fanout" /\ J!Init /\ v13 = 0
    \/ /\ which = "otlp" /\ O!Init /\ v5 = 0 /\ v6 = 0 /\ v7 = 0 /\ v8 = 0 /\ v9 = 0 /\ v10 = 0
       /\ v11 = 0 /\ v12 = 0 /\ v13 = 0
    \/ /\ which = "spans" /\ T!Init /\ v4 = 0 /\ v5 = 0 /\ v6 = 0 /\ v7 = 0 /\ v8 = 0 /\ v9 = 0
       /\ v10 = 0 /\ v11 = 0 /\ v12 = 0 /\ v13 = 0
    \/ /\ which = "codecs" /\ K!Init /\ v7 = 0 /\ v8 = 0 /\ v9 = 0 /\ v10 = 0 /\ v11 = 0
       /\ v12 = 0 /\ v13 = 0
    \/ /\ which = "bytes" /\ Z!Init /\ v13 = 0
    \/ /\ which = "map" /\ H!Init /\ v7 = 0 /\ v8 = 0 /\ v9 = 0 /\ v10 = 0 /\ v11 = 0 /\ v12 = 0
       /\ v13 = 0
    \/ /\ which = "cache" /\ B!Init

Next ==
    \/ /\ which = "repairs" /\ R!Next /\ UNCHANGED <<which>>
    \/ /\ which = "index" /\ X!Next /\ UNCHANGED <<which, v9, v10, v11, v12, v13>>
    \/ /\ which = "partsync" /\ Y!Next /\ UNCHANGED <<which, v13>>
    \/ /\ which = "remote" /\ G!Next /\ UNCHANGED <<which, v8, v9, v10, v11, v12, v13>>
    \/ /\ which = "fanout" /\ J!Next /\ UNCHANGED <<which, v13>>
    \/ /\ which = "otlp" /\ O!Next
       /\ UNCHANGED <<which, v5, v6, v7, v8, v9, v10, v11, v12, v13>>
    \/ /\ which = "spans" /\ T!Next
       /\ UNCHANGED <<which, v4, v5, v6, v7, v8, v9, v10, v11, v12, v13>>
    \/ /\ which = "codecs" /\ K!Next /\ UNCHANGED <<which, v7, v8, v9, v10, v11, v12, v13>>
    \/ /\ which = "bytes" /\ Z!Next /\ UNCHANGED <<which, v13>>
    \/ /\ which = "map" /\ H!Next /\ UNCHANGED <<which, v7, v8, v9, v10, v11, v12, v13>>
    \/ /\ which = "cache" /\ B!Next /\ UNCHANGED <<which>>

Spec == Init /\ [][Next]_vars
-----------------------------------------------------------------------------
\* Repair by block lineage: whatever merges, splits, losses and repair passes of two owners
\* interleave, the index never names parts that hold the same rows twice, and a row that is gone is
\* still wanted or acknowledged as lost.  The index that carries the lineage (bucketindex) reads
\* back as it was saved, by this release and as far as an earlier one could say, and is refused
\* when it lost its end; what it accepts is in the one form it writes; and its intervals stand for
\* the sets of blocks that went into the parts.
LineageSound ==
    /\ which = "repairs" => R!RowsOnce /\ R!NothingForgotten
    /\ which = "index" => X!IndexReadsBack /\ X!OneForm /\ X!IntervalsAreSets /\ X!SavedSound

\* Mirroring parts between owners: an index names only parts whose objects are durable at its node,
\* the rows of every flushed part stay named by some owner, through reclaims, handoffs and power
\* losses in the middle of a pass, and no pass replaces an index by an older one.  The exception is
\* a pass that runs beside the owner's own commits: its install is a plain write, which may put an
\* older index over a commit made since the pass read its own, and the parts of such a commit are
\* not judged.
MirrorSound ==
    /\ [](which = "partsync" => Y!NamedBacked /\ Y!RowsNamed)
    /\ [][which = "partsync" => Y!InstallSupersedes]_vars

\* A read answered by remote shards equals the read of one store: the owner decodes the question
\* the caller encoded, rows survive pushed-down limits and filters, sampling weights stay with
\* their samples, buckets and windows that span shards fold to the whole, and listings are complete
\* up to the limit.
RemoteExact ==
    which = "remote" => G!RowsExact /\ G!SamplesExact /\ G!AggregatesExact /\ G!ListingsExact /\ G!RequestUnderstood

\* The merge of a fan-out (mergeIter, MergeBatches): each series of every child once, in ascending
\* order, each timestamp with the value and weight of the last child that holds it, or an error; a
\* child out of order is never merged to the end; every batch pulled is released or handed on once.
FanOutExact ==
    which = "fanout" => J!FanOutExact /\ J!ReleasedOnce

\* otlpdecode, walking a request's fields in any order and into cells still full of the previous
\* request, gives the batch pdataconv gives for the same request, except that an all-zero id of a
\* log, span, link or profile stays where pdataconv leaves it unset; a series has one id however
\* its labels were split or ordered; histogram buckets are cumulative, in ascending order except
\* among negative exponential ones.
BatchesFaithful ==
    which = "otlp" => O!Indistinguishable /\ O!OneSeriesID /\ O!BucketsCumulative

\* The spans of a batch get nested-set numbers.  In a trace whose ids are all different a span lies
\* inside another exactly when the other is its ancestor, orphans included, and a span on or below
\* a cycle of parents lies inside none.  Spans of a trace that share an id share their place in the
\* tree: there two spans of different ids lie apart or one inside the other, and inside only along
\* parent ids.  Events, links, attributes and resources read back as they were stored.
SpansFaithful ==
    which = "spans" => T!NumbersNest /\ T!StoredReadsBack

\* A column decodes to exactly what was encoded: numbers by a whole decode and row by row through a
\* cursor alike, at every bucket, window, unit and overflow boundary, a lossy counter never
\* falling; cells whichever form the encoder chose and whatever its reused map and scratch held;
\* ids in one encoding however their runs were cut; granules joined with every row in its place.  A
\* stream that lost its end is refused.  The map the encoders intern through reads back what was
\* last put, after growth, deletions and a trip through the pool.  A block that a fetch reads from
\* the cache of decoded blocks stays as it was decoded, and the cache within its bytes.
EncodingsExact ==
    /\ which = "codecs" => K!RoundTrips /\ K!CursorAgrees /\ K!CountersRise /\ K!RunsCanonical
    /\ which = "bytes" => Z!CellsExact /\ Z!SplitCanonical /\ Z!MergedRows
    /\ which = "map" => H!LookupExact /\ H!ProbesEnd
    /\ which = "cache" => B!ViewsIntact /\ B!WithinBudget
=============================================================================
