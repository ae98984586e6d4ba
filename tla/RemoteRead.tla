----------------------------- MODULE RemoteRead -----------------------------
(* A read that a coordinator gathers from the shards of a tenant (cluster.go)  *)
(* over the read RPCs of package cluster: what is pushed down to a peer, how   *)
(* the request and the answer cross the wire, what the peer serves, what the   *)
(* coordinator filters again and how the shards' answers are put together.     *)
(* A row is [id, s, t, v, c, k, sh]: its series, time, value, a column, an     *)
(* attribute kept in the attribute column, and its shard.  A frame is a        *)
(* sequence of tokens; a length-prefixed list is a count and its elements.     *)
EXTENDS Integers, Sequences, FiniteSets, FiniteSetsExt, SequencesExt, Functions

CONSTANTS
    Row,        \* the stored rows
    Query,      \* the reads a client may ask for
    Label,      \* each series' label value
    Text,       \* the text of each value
    Order,      \* the texts' sort order
    Strings,    \* the values whose kind is string
    Shards,     \* the tenant's shards, in the order they are asked
    Sections,   \* how many request sections the older of two releases knows: a set
    Budget,     \* tokens of response a query may hold
    None

VARIABLES
    q,          \* the client's request
    here,       \* the shards this node owns
    known,      \* the request sections both ends know
    asked,      \* shards answered so far
    wire,       \* the frame in flight: None, a request or a response
    got,        \* what has been gathered
    out         \* the outcome, once there is one

vars == <<q, here, known, asked, wire, got, out>>

SetOf(s) == { s[i] : i \in DOMAIN s }

Pick(s, Test(_)) == SelectSeq(s, Test)

Init ==
    /\ q \in Query
    /\ here \in SUBSET SetOf(Shards)
    /\ known \in Sections
    /\ asked = 0
    /\ wire = None
    /\ got = {}
    /\ out = None

---------------------------------------------------------------------------
(* Matchers and conditions. *)

\* MatchesSeries.
MatchesSeries(s, matchers) == \A i \in DOMAIN matchers : Label[s] \in matchers[i].match

\* RowValue: a column of the batch, else the attribute inside the attribute column, else empty.
RowValue(r, column) ==
    IF column = "c" /\ "c" \in r.cols THEN r.row.c
    ELSE IF column = "k" /\ "attrs" \in r.cols THEN r.row.k
    ELSE "empty"

MatchesRow(r, conds) == \A i \in DOMAIN conds : RowValue(r, conds[i].column) \in conds[i].match

EqualitySpecs(matchers) == [i \in DOMAIN Pick(matchers, LAMBDA m : m.spec # None) |->
                              Pick(matchers, LAMBDA m : m.spec # None)[i].spec]

StringSpecs(matchers) == LET ms == Pick(matchers, LAMBDA m : m.strings # {})
                         IN [i \in DOMAIN ms |-> ms[i].strings]

EqualPredicate(text) == { v \in DOMAIN Text : Text[v] = text }

\* StringSetMatcher.Matcher: it only decides values whose kind is string.
StringSetPredicate(set) == { v \in DOMAIN Text : set = {} \/ v \notin Strings \/ Text[v] \in set }

AnyEqualPredicate(set) == { v \in DOMAIN Text : Text[v] \in set }

---------------------------------------------------------------------------
(* What is pushed down. *)

\* ConditionHints: only under AllConditions, only what an equality or a set says.
ConditionHints(r) ==
    LET cs == IF r.all THEN Pick(r.conds, LAMBDA c : c.equal # None \/ c.any # {}) ELSE <<>>
    IN [i \in DOMAIN cs |-> [column |-> cs[i].column, equal |-> cs[i].equal, any |-> cs[i].any]]

\* projectionPreservesConditions: every condition reads a physical column that is projected.
ProjectionPreserves(r) ==
    r.second = None /\ \A i \in DOMAIN r.conds : r.conds[i].column \in SetOf(r.projection) \ {"k"}

\* A mutant of LimitPushable: matchers the peer cannot apply are forgotten.
LimitPushableHints(r) == r.conds = <<>> /\ r.second = None /\ r.limit > 0

\* The peer may cut only what it can filter itself.
LimitPushable(r) ==
    /\ Len(EqualitySpecs(r.matchers)) = Len(r.matchers)
    /\ r.conds = <<>> /\ r.second = None /\ r.limit > 0

RemoteFetchRequest(r, shard) ==
    [shard |-> shard, start |-> r.start, end |-> r.end,
     equal |-> EqualitySpecs(r.matchers),
     conds |-> ConditionHints(r),
     projection |-> IF ProjectionPreserves(r) THEN r.projection ELSE <<>>,
     limit |-> IF LimitPushable(r) THEN r.limit ELSE 0,
     reverse |-> LimitPushable(r) /\ r.reverse,
     strings |-> StringSpecs(r.matchers)]

---------------------------------------------------------------------------
(* The frames. *)

AppendList(s) == <<Len(s)>> \o s

\* A counted list at the head of d, and what follows it.
TakeList(d) == [list |-> SubSeq(d, 2, 1 + d[1]), rest |-> SubSeq(d, 2 + d[1], Len(d))]

\* appendConditionSets: index and members of the conditions that carry a set.
AppendConditionSets(conds, force) ==
    LET with == SetToSortSeq({ i \in DOMAIN conds : conds[i].any # {} }, <)
    IN IF with = <<>> /\ ~force THEN <<>>
       ELSE AppendList([j \in DOMAIN with |-> [idx |-> with[j], set |-> conds[with[j]].any]])

AppendOptions(r) == AppendList(r.projection) \o <<r.limit, r.reverse>>

AppendStringMatchers(strings) == IF strings = <<>> THEN <<>> ELSE AppendList(strings)

HasOptions(r) == r.projection # <<>> \/ r.limit > 0 \/ r.strings # <<>>

\* FetchRequest.Encode, section by section: each one is an optional tail of the previous.
EncodeSections(r) ==
    LET options == HasOptions(r)
        more == r.conds # <<>> \/ options
    IN << <<r.shard, r.start, r.end>> \o AppendList(r.equal),
          IF more THEN AppendList([i \in DOMAIN r.conds |-> [column |-> r.conds[i].column,
                                                             equal |-> r.conds[i].equal]])
                  ELSE <<>>,
          IF more THEN AppendConditionSets(r.conds, options) ELSE <<>>,
          IF options THEN AppendOptions(r) ELSE <<>>,
          AppendStringMatchers(r.strings) >>

\* The sections both ends know: an older release neither writes nor reads the later ones.
Encode(r, n) == FlattenSeq(SubSeq(EncodeSections(r), 1, n))

\* A mutant of TakeConditionSets: the sets are taken for the conditions in order.
TakeConditionSetsInOrder(d, conds) ==
    LET l == TakeList(d).list
    IN [i \in DOMAIN conds |-> [column |-> conds[i].column, equal |-> conds[i].equal,
                                any |-> IF i \in DOMAIN l THEN l[i].set ELSE {}]]

TakeConditionSets(d, conds) ==
    LET l == TakeList(d).list
    IN [i \in DOMAIN conds |-> [column |-> conds[i].column, equal |-> conds[i].equal,
                                any |-> UNION { l[j].set : j \in { x \in DOMAIN l : l[x].idx = i } }]]

\* takeFetchOptions, on a frame that has them.
TakeOptions(d) ==
    LET l == TakeList(d)
    IN [projection |-> l.list, limit |-> l.rest[1], reverse |-> l.rest[1] > 0 /\ l.rest[2],
        rest |-> SubSeq(l.rest, 3, Len(l.rest))]

NoOptions == [projection |-> <<>>, limit |-> 0, reverse |-> FALSE, rest |-> <<>>]

EmptyList == <<0>>

\* ParseFetchRequest: a frame may end after any section.
Parse(d) ==
    LET eq == TakeList(SubSeq(d, 4, Len(d)))
        cs == TakeList(IF eq.rest = <<>> THEN EmptyList ELSE eq.rest)
        sets == IF cs.rest = <<>> THEN EmptyList ELSE cs.rest
        opts == IF TakeList(sets).rest = <<>> THEN NoOptions ELSE TakeOptions(TakeList(sets).rest)
        str == IF opts.rest = <<>> THEN <<>> ELSE TakeList(opts.rest).list
    IN [shard |-> d[1], start |-> d[2], end |-> d[3], equal |-> eq.list,
        conds |-> TakeConditionSets(sets, cs.list), projection |-> opts.projection,
        limit |-> opts.limit, reverse |-> opts.reverse, strings |-> str]

\* ConditionHint.Condition: the predicate a hint stands for.
HintCondition(h) ==
    [column |-> h.column, equal |-> h.equal, any |-> h.any,
     match |-> IF h.equal # None THEN EqualPredicate(h.equal) ELSE AnyEqualPredicate(h.any)]

\* hintMatchers: the equalities and the string sets, as matchers.
HintMatchers(equal, strings) ==
    [i \in DOMAIN equal |-> [match |-> EqualPredicate(equal[i])]]
    \o [i \in DOMAIN strings |-> [match |-> StringSetPredicate(strings[i])]]

\* FetchRequest.Request: the request the peer's engine is given.
ToRequest(p) ==
    [start |-> p.start, end |-> p.end, limit |-> p.limit, reverse |-> p.reverse,
     matchers |-> HintMatchers(p.equal, p.strings),
     conds |-> [i \in DOMAIN p.conds |-> HintCondition(p.conds[i])],
     all |-> TRUE, projection |-> p.projection, second |-> None]

---------------------------------------------------------------------------
(* What an engine answers, external to this module: RecordFetch and MetricsEngine. *)

Stored(sh, r) == { x \in Row : x.sh = sh /\ r.start <= x.t /\ x.t <= r.end
                               /\ MatchesSeries(x.s, r.matchers) }

Columns(r) == IF r.projection = <<>> THEN {"c", "attrs"} ELSE SetOf(r.projection)

Whole(x) == [row |-> x, cols |-> {"c", "attrs"}]

Key(r, t) == IF r.reverse THEN -t ELSE t

LimitTrim(r, rows) ==
    IF r.limit = 0 THEN rows
    ELSE { x \in rows : Cardinality({ y \in rows : Key(r, y.t) < Key(r, x.t) }) < r.limit }

EngineFetch(sh, r) ==
    LET hits == { x \in Stored(sh, r) : r.all => MatchesRow(Whole(x), r.conds) }
    IN { [row |-> x, cols |-> Columns(r)] :
           x \in { y \in LimitTrim(r, hits) : r.second # None => y.s \in r.second } }

Agg(s, b, rows) ==
    [s |-> s, b |-> b, count |-> Cardinality(rows), sum |-> MapThenSumSet(LAMBDA x : x.v, rows),
     min |-> Min({ x.v : x \in rows }), max |-> Max({ x.v : x \in rows })]

\* AggregateStepNamed: one entry per series and non-empty bucket.
AggregateOf(r, rows) ==
    { Agg(g[1], g[2], { x \in rows : <<x.s, x.t \div r.step>> = g }) :
        g \in { <<x.s, x.t \div r.step>> : x \in rows } }

\* AggregateWindowNamed: the windows end at the steps and may overlap.
AggregateWindowOf(r, rows) ==
    LET in(x, e) == e - r.window < x.t /\ x.t <= e
        ends == { e \in r.start .. r.end + r.window : e % r.step = 0 }
    IN { Agg(g[1], g[2], { x \in rows : x.s = g[1] /\ in(x, g[2]) }) :
           g \in { h \in { x.s : x \in rows } \X ends : \E x \in rows : x.s = h[1] /\ in(x, h[2]) } }

Sample(x) == [s |-> x.s, t |-> x.t, v |-> x.v, w |-> x.w]

FirstOf(n, texts) == { v \in texts : n = 0 \/ Cardinality({ u \in texts : Order[u] < Order[v] }) < n }

\* A key and the scopes it is seen in.
KeyScopes(rows) ==
    { <<"label", "series">> : x \in rows } \cup { <<"k", "record">> : x \in { y \in rows : y.k # "empty" } }

LocalFetch(r, sh) == { Sample(x) : x \in Stored(sh, r) }

LocalRecordFetch(r, sh) == EngineFetch(sh, r)

LocalAggregate(r, sh) == AggregateOf(r, Stored(sh, r))

LocalAggregateWindow(r, sh) == AggregateWindowOf(r, Stored(sh, r))

LocalSeries(r, sh) == { x.s : x \in Stored(sh, r) }

LocalKeys(r, sh) == KeyScopes(Stored(sh, r))

LocalValues(r, sh) == FirstOf(r.limit, { Text[x.c] : x \in Stored(sh, r) } \ {""})

LocalLabels(r, sh) == { Text[Label[x.s]] : x \in Stored(sh, r) }

LocalAnswer(r, sh) ==
    CASE r.op = "samples" -> LocalFetch(r, sh)
      [] r.op = "rows" -> LocalRecordFetch(r, sh)
      [] r.op = "aggregate" -> LocalAggregate(r, sh)
      [] r.op = "window" -> LocalAggregateWindow(r, sh)
      [] r.op = "series" -> LocalSeries(r, sh)
      [] r.op = "keys" -> LocalKeys(r, sh)
      [] r.op = "values" -> LocalValues(r, sh)
      [] r.op = "labels" -> LocalLabels(r, sh)

---------------------------------------------------------------------------
(* Answers on the wire. *)

\* A batch per series, in the order of the series, its samples in the order of their times.
BatchesOf(samples) ==
    LET ss == SetToSortSeq({ x.s : x \in samples }, <)
    IN [i \in DOMAIN ss |-> SetToSortSeq({ x \in samples : x.s = ss[i] }, LAMBDA a, b : a.t < b.t)]

\* appendScaleFactors: a trailer naming the batches that carry weights, where any does.
AppendScaleFactors(bs) ==
    LET weighted == SetToSortSeq({ i \in DOMAIN bs : \E x \in SetOf(bs[i]) : x.w # 1 }, <)
    IN IF weighted = <<>> THEN <<>>
       ELSE AppendList([k \in DOMAIN weighted |->
              [idx |-> weighted[k], sf |-> [j \in DOMAIN bs[weighted[k]] |-> bs[weighted[k]][j].w]]])

EncodeBatches(samples) ==
    LET bs == BatchesOf(samples)
    IN AppendList([i \in DOMAIN bs |-> [s |-> bs[i][1].s, ts |-> [j \in DOMAIN bs[i] |-> bs[i][j].t],
                                        vs |-> [j \in DOMAIN bs[i] |-> bs[i][j].v]]])
       \o AppendScaleFactors(bs)

\* A mutant of DecodeScaleFactors: the trailer's entries are taken for the batches in order.
DecodeScaleFactorsInOrder(d, i, j) ==
    LET tr == IF d = <<>> THEN <<>> ELSE TakeList(d).list
    IN IF i \notin DOMAIN tr THEN 1 ELSE IF j \in DOMAIN tr[i].sf THEN tr[i].sf[j] ELSE 1

\* decodeScaleFactors: the weight of a sample; a batch the trailer does not name has none.
DecodeScaleFactors(d, i, j) ==
    LET tr == IF d = <<>> THEN <<>> ELSE TakeList(d).list
        named == { e \in SetOf(tr) : e.idx = i }
    IN IF named = {} THEN 1 ELSE (CHOOSE e \in named : TRUE).sf[j]

DecodeBatches(d) ==
    LET bs == TakeList(d).list
        tail == TakeList(d).rest
    IN UNION { { [s |-> bs[i].s, t |-> bs[i].ts[j], v |-> bs[i].vs[j], w |-> DecodeScaleFactors(tail, i, j)] :
                   j \in DOMAIN bs[i].ts } : i \in DOMAIN bs }

\* EncodeLogBatches: a batch per series, with its timestamps and the columns it has.
EncodeLogBatches(rows) ==
    LET ss == SetToSortSeq({ x.row.s : x \in rows }, <)
    IN AppendList([i \in DOMAIN ss |->
         LET b == SetToSortSeq({ x \in rows : x.row.s = ss[i] }, LAMBDA x, y : x.row.id < y.row.id)
         IN [s |-> ss[i], ts |-> [j \in DOMAIN b |-> b[j].row.t], cols |-> b[1].cols,
             rest |-> [j \in DOMAIN b |-> b[j].row]]])

DecodeLogBatches(d) ==
    LET bs == TakeList(d).list
    IN UNION { { [row |-> [bs[i].rest[j] EXCEPT !.s = bs[i].s, !.t = bs[i].ts[j]], cols |-> bs[i].cols] :
                   j \in DOMAIN bs[i].ts } : i \in DOMAIN bs }

\* Aggregates by series, each with its buckets.
EncodeAggregates(aggs) ==
    LET ss == SetToSortSeq({ a.s : a \in aggs }, <)
    IN AppendList([i \in DOMAIN ss |->
         [s |-> ss[i], buckets |-> SetToSortSeq({ a \in aggs : a.s = ss[i] }, LAMBDA x, y : x.b < y.b)]])

DecodeAggregates(d) ==
    LET ns == TakeList(d).list
    IN UNION { { [ns[i].buckets[j] EXCEPT !.s = ns[i].s] : j \in DOMAIN ns[i].buckets } : i \in DOMAIN ns }

\* Windows cross the wire as buckets do, keyed by their ends.
EncodeWindowAggregates(aggs) == EncodeAggregates(aggs)

DecodeWindowAggregates(d) == DecodeAggregates(d)

EncodeSeriesList(ss) == AppendList(SetToSortSeq(ss, <))

DecodeSeriesList(d) == SetOf(TakeList(d).list)

\* A key crosses with the scopes it has, once.
EncodeKeyList(ks) ==
    LET names == SetToSeq({ k[1] : k \in ks })
    IN AppendList([i \in DOMAIN names |-> [key |-> names[i], scope |-> { k[2] : k \in { x \in ks : x[1] = names[i] } }]])

DecodeKeyList(d) == UNION { { <<e.key, sc>> : sc \in e.scope } : e \in SetOf(TakeList(d).list) }

EncodeValueList(vs) == AppendList(SetToSortSeq(vs, LAMBDA a, b : Order[a] < Order[b]))

DecodeValueList(d) == SetOf(TakeList(d).list)

EncodeStringList(vs) == EncodeValueList(vs)

DecodeStringList(d) == DecodeValueList(d)

---------------------------------------------------------------------------
(* The peer's handlers: parse, serve, encode. *)

ServeRead(op, d) ==
    LET p == Parse(d)
    IN IF op = "samples" THEN EncodeBatches(LocalFetch(ToRequest(p), p.shard))
       ELSE EncodeLogBatches(LocalRecordFetch(ToRequest(p), p.shard))

\* The aggregate requests: shard, window, steps, equalities, then the string sets as a tail.
EncodeAggregateRequest(r, sh) ==
    <<sh, r.start, r.end, r.step, r.window>> \o AppendList(EqualitySpecs(r.matchers))
    \o AppendStringMatchers(StringSpecs(r.matchers))

\* decodeAggregateRequest and hintMatchers.
DecodeAggregateRequest(d) ==
    LET eq == TakeList(SubSeq(d, 6, Len(d)))
    IN [start |-> d[2], end |-> d[3], step |-> d[4], window |-> d[5],
        matchers |-> HintMatchers(eq.list, IF eq.rest = <<>> THEN <<>> ELSE TakeList(eq.rest).list)]

ServeAggregate(d) == EncodeAggregates(LocalAggregate(DecodeAggregateRequest(d), d[1]))

ServeAggregateWindow(d) == EncodeWindowAggregates(LocalAggregateWindow(DecodeAggregateRequest(d), d[1]))

ServeSeries(d) == LET p == Parse(d) IN EncodeSeriesList(LocalSeries(ToRequest(p), p.shard))

ServeKeys(d) == LET p == Parse(d) IN EncodeKeyList(LocalKeys(ToRequest(p), p.shard))

EncodeValuesRequest(r, sh) == <<sh, r.start, r.end, r.limit>>

ServeValues(d) ==
    EncodeValueList(LocalValues([start |-> d[2], end |-> d[3], limit |-> d[4], matchers |-> <<>>], d[1]))

ServeLabels(d) == LET p == Parse(d) IN EncodeStringList(LocalLabels(ToRequest(p), p.shard))

Serve(op, d) ==
    CASE op \in {"samples", "rows"} -> ServeRead(op, d)
      [] op = "aggregate" -> ServeAggregate(d)
      [] op = "window" -> ServeAggregateWindow(d)
      [] op = "series" -> ServeSeries(d)
      [] op = "keys" -> ServeKeys(d)
      [] op = "values" -> ServeValues(d)
      [] op = "labels" -> ServeLabels(d)

---------------------------------------------------------------------------
(* The coordinator. *)

\* A request for identities only: no conditions, no options.
IdentityRequest(r, sh) ==
    [RemoteFetchRequest(r, sh) EXCEPT !.conds = <<>>, !.projection = <<>>, !.limit = 0, !.reverse = FALSE]

\* What each operation's client sends.
Frame(r, sh) ==
    CASE r.op \in {"samples", "rows"} -> Encode(RemoteFetchRequest(r, sh), known)
      [] r.op \in {"aggregate", "window"} -> EncodeAggregateRequest(r, sh)
      [] r.op \in {"series", "keys", "labels"} -> Encode(IdentityRequest(r, sh), known)
      [] r.op = "values" -> EncodeValuesRequest(r, sh)

\* fetch.Filter, over a peer's rows: everything the peer could not decide.
FilterRows(r, a) ==
    { x \in a : /\ MatchesSeries(x.row.s, r.matchers)
                /\ MatchesRow(x, r.conds)
                /\ r.second # None => x.row.s \in r.second }

FilterSeries(r, ss) == { s \in ss : MatchesSeries(s, r.matchers) }

\* Samples and aggregates of series the matchers reject are dropped.
FilterNamed(r, a) == { x \in a : MatchesSeries(x.s, r.matchers) }

\* A response decoded, and narrowed by what the peer could not decide.
Received(r, d) ==
    CASE r.op = "samples" -> FilterNamed(r, DecodeBatches(d))
      [] r.op = "rows" -> FilterRows(r, DecodeLogBatches(d))
      [] r.op = "aggregate" -> FilterNamed(r, DecodeAggregates(d))
      [] r.op = "window" -> FilterNamed(r, DecodeWindowAggregates(d))
      [] r.op = "series" -> FilterSeries(r, DecodeSeriesList(d))
      [] r.op = "keys" -> DecodeKeyList(d)
      [] r.op = "values" -> DecodeValueList(d)
      [] r.op = "labels" -> DecodeStringList(d)

\* A mutant of Fold: a bucket two shards hold is taken from the later one.
FoldLast(acc, x) == { y \in acc : <<y.s, y.b>> # <<x.s, x.b>> } \cup {x}

\* mergeBucketLists, one entry.
Fold(acc, x) ==
    LET same == { y \in acc : <<y.s, y.b>> = <<x.s, x.b>> }
    IN (acc \ same) \cup
         (IF same = {} THEN {x}
          ELSE LET y == CHOOSE z \in same : TRUE
               IN { [s |-> x.s, b |-> x.b, count |-> x.count + y.count, sum |-> x.sum + y.sum,
                     min |-> Min({x.min, y.min}), max |-> Max({x.max, y.max})] })

\* gatherShards: the shards' aggregates, folded entry by entry.
GatherShards(acc, a) == FoldSet(LAMBDA x, y : Fold(y, x), acc, a)

\* concatFetcher, Merge, clusterSeries, clusterKeys, clusterValues, clusterLabels: a union.
Gather(r, acc, a) == IF r.op \in {"aggregate", "window"} THEN GatherShards(acc, a) ELSE acc \cup a

Shard == Shards[asked + 1]

Running == out = None /\ asked < Len(Shards)

Take(a) ==
    /\ got' = Gather(q, got, a)
    /\ asked' = asked + 1
    /\ wire' = None
    /\ UNCHANGED <<q, here, known, out>>

\* Label listings are served only where a peer can apply every matcher.
Refuse ==
    /\ Running /\ q.op = "labels" /\ Len(EqualitySpecs(q.matchers)) # Len(q.matchers)
    /\ out' = [kind |-> "unsupported"]
    /\ UNCHANGED <<q, here, known, asked, wire, got>>

Askable == Running /\ (q.op = "labels" => Len(EqualitySpecs(q.matchers)) = Len(q.matchers))

AnswerHere ==
    /\ Askable /\ wire = None /\ Shard \in here
    /\ Take(LocalAnswer(q, Shard))

SendRequest ==
    /\ Askable /\ wire = None /\ Shard \notin here
    /\ wire' = [kind |-> "request", data |-> Frame(q, Shard)]
    /\ UNCHANGED <<q, here, known, asked, got, out>>

ServeRequest ==
    /\ Running /\ wire # None /\ wire.kind = "request"
    /\ wire' = [kind |-> "response", data |-> Serve(q.op, wire.data)]
    /\ UNCHANGED <<q, here, known, asked, got, out>>

\* readBudgeted: a response the query may not hold ends the read.
ReceiveResponse ==
    /\ Running /\ wire # None /\ wire.kind = "response"
    /\ Len(wire.data) <= Budget
    /\ Take(Received(q, wire.data))

Fail ==
    /\ Running /\ wire # None
    /\ wire.kind = "response" => Len(wire.data) > Budget
    /\ out' = [kind |-> "error"]
    /\ UNCHANGED <<q, here, known, asked, wire, got>>

\* A mutant of Final: the shards' cuts are trusted.
FinalUncut(r, acc) == acc

\* clusterValues sorts the union and cuts it again; rows and samples are the caller's to cut.
Final(r, acc) == IF r.op = "values" THEN FirstOf(r.limit, acc) ELSE acc

Finish ==
    /\ out = None /\ asked = Len(Shards)
    /\ out' = [kind |-> "answer", answer |-> Final(q, got)]
    /\ UNCHANGED <<q, here, known, asked, wire, got>>

Next == Refuse \/ AnswerHere \/ SendRequest \/ ServeRequest \/ ReceiveResponse \/ Fail \/ Finish

Spec == Init /\ [][Next]_vars

---------------------------------------------------------------------------
(* Properties. *)

\* The state is one of a read in progress.
TypeOK ==
    /\ q \in Query /\ here \subseteq SetOf(Shards) /\ asked \in 0 .. Len(Shards)
    /\ wire # None => wire.kind \in {"request", "response"}

Answered == IF out = None THEN FALSE ELSE out.kind = "answer"

\* What one engine holding every row would be asked to return.
Everything(r) == UNION { Stored(sh, r) : sh \in SetOf(Shards) }

Survivors(r) ==
    { x \in Everything(r) : MatchesRow(Whole(x), r.conds) /\ (r.second # None => x.s \in r.second) }

\* remoteFetchRequest, Filter: whatever part of the request the peers could apply, and whichever
\* shards are local, a gathered row fetch returns every surviving row the limit keeps, no row the
\* request excludes, each with the columns asked for.
RowsExact ==
    Answered /\ q.op = "rows" =>
        LET ids == { x.row : x \in out.answer }
        IN /\ LimitTrim(q, Survivors(q)) \subseteq ids
           /\ ids \subseteq Everything(q)
           /\ q.all => ids \subseteq Survivors(q)
           /\ \A x \in out.answer : Columns(q) \subseteq x.cols

\* EncodeBatches and its weight trailer: gathered samples carry the values and weights stored.
SamplesExact ==
    Answered /\ q.op = "samples" => out.answer = { Sample(x) : x \in Everything(q) }

\* shardAggregate, mergeBucketLists, mergeWindowLists: aggregating at the shards and folding gives
\* the aggregate of all matching rows, even where a matcher could not be pushed down and a bucket
\* or an overlapping window spans shards.
AggregatesExact ==
    /\ Answered /\ q.op = "aggregate" => out.answer = AggregateOf(q, Everything(q))
    /\ Answered /\ q.op = "window" => out.answer = AggregateWindowOf(q, Everything(q))

\* clusterSeries, clusterKeys, clusterValues, clusterLabels: a listing over all shards is the one
\* a single engine would give, also where every shard cuts its own values at the limit.
ListingsExact ==
    /\ Answered /\ q.op = "series" => out.answer = { x.s : x \in Everything(q) }
    /\ Answered /\ q.op = "keys" => out.answer = KeyScopes(Everything(q))
    /\ Answered /\ q.op = "values" =>
          out.answer = FirstOf(q.limit, { Text[x.c] : x \in Everything(q) } \ {""})
    /\ Answered /\ q.op = "labels" => out.answer = { Text[Label[x.s]] : x \in Everything(q) }

\* FetchRequest.Encode and ParseFetchRequest: the peer
\* reads the request that was sent, up to the sections both ends know.
RequestUnderstood ==
    wire # None /\ wire.kind = "request" /\ q.op \in {"samples", "rows"} =>
        LET sent == RemoteFetchRequest(q, Shard)
            read == Parse(wire.data)
        IN /\ <<read.shard, read.start, read.end, read.equal>> = <<sent.shard, sent.start, sent.end, sent.equal>>
           /\ known >= 3 => read.conds = sent.conds
           /\ known >= 4 => <<read.projection, read.limit, read.reverse>>
                            = <<sent.projection, sent.limit, sent.reverse>>
           /\ known >= 5 => read = sent
=============================================================================
