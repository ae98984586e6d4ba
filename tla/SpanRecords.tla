---------------------------- MODULE SpanRecords ----------------------------
(* What a trace batch becomes on its way into the record engine and back: the  *)
(* nested-set numbers of its spans (signal/trace/records.go), and the stored   *)
(* form of attributes, series, events and links (signal/codec.go and           *)
(* signal/trace/codec.go).  A stored form is a sequence of tokens.             *)
EXTENDS Integers, Sequences, FiniteSets, SequencesExt, FiniteSetsExt

CONSTANTS Requests, \* the spans and the stream identity each request brings
          Keys,     \* the attribute keys a reader looks up
          Err       \* a stored form refused

VARIABLES in, nsets, stored

vars == <<in, nsets, stored>>

Concat(s, f(_)) == FlattenSeq([i \in DOMAIN s |-> f(s[i])])

------------------------------------------------------------------------------
(* The stored form                                                             *)

RECURSIVE AppendHash(_)

AppendHashInput(as) == <<<<"len", Len(as)>>>> \o Concat(as, LAMBDA kv : <<<<"bytes", kv[1]>>>> \o AppendHash(kv[2]))

AppendHash(v) ==
    CASE v[1] = "empty" -> <<<<"kind", "empty">>>>
      [] v[1] = "slice" -> <<<<"kind", "slice">>, <<"len", Len(v[2])>>>> \o Concat(v[2], AppendHash)
      [] v[1] = "map" -> <<<<"kind", "map">>>> \o AppendHashInput(v[2])
      [] v[1] \in {"str", "bytes"} -> <<<<"kind", v[1]>>, <<"bytes", v[2]>>>>
      [] OTHER -> <<<<"kind", v[1]>>, <<"word", v[2]>>>>

AppendSeries(s) ==
    <<<<"bytes", s.resource.schema>>>> \o AppendHashInput(s.resource.attributes)
    \o <<<<"bytes", s.scope.name>>, <<"bytes", s.scope.version>>, <<"bytes", s.scope.schema>>>>
    \o AppendHashInput(s.scope.attributes) \o AppendHashInput(s.attributes)

\* A read at an offset gives a value and the offset after it.
Got(v, off) == <<"got", v, off>>

Then(r, K(_, _)) == IF r = Err THEN Err ELSE K(r[2], r[3])

Token(src, off, what) ==
    IF off + 1 <= Len(src) /\ src[off + 1][1] = what THEN Got(src[off + 1][2], off + 1) ELSE Err

ReadLenBytes(src, off) == Token(src, off, "bytes")

\* n items in a row, each read where the one before it ended.
Times(n, off, Item(_)) ==
    LET go[k \in 0 .. n] ==
            IF k = 0 THEN Got(<<>>, off)
            ELSE Then(go[k - 1], LAMBDA vs, at : Then(Item(at), LAMBDA v, next : Got(Append(vs, v), next)))
    IN go[n]

\* A count beyond what is left of the input is refused before anything is allocated for it.
Counted(src, off, Item(_)) ==
    Then(Token(src, off, "len"), LAMBDA n, at : IF n > Len(src) THEN Err ELSE Times(n, at, Item))

RECURSIVE DecodeValue(_, _)

DecodeAttributes(src, off) ==
    Counted(src, off, LAMBDA at :
        Then(ReadLenBytes(src, at), LAMBDA k, at1 :
        Then(DecodeValue(src, at1), LAMBDA v, at2 : Got(<<k, v>>, at2))))

DecodeSlice(src, off) == Counted(src, off, LAMBDA at : DecodeValue(src, at))

DecodeValue(src, off) ==
    Then(Token(src, off, "kind"), LAMBDA kind, at :
        CASE kind = "empty" -> Got(<<"empty", 0>>, at)
          [] kind = "slice" -> Then(DecodeSlice(src, at), LAMBDA vs, end : Got(<<"slice", vs>>, end))
          [] kind = "map" -> Then(DecodeAttributes(src, at), LAMBDA as, end : Got(<<"map", as>>, end))
          [] kind \in {"str", "bytes"} -> Then(ReadLenBytes(src, at), LAMBDA b, end : Got(<<kind, b>>, end))
          [] OTHER -> Then(Token(src, at, "word"), LAMBDA w, end : Got(<<kind, w>>, end)))

DecodeResource(src, off) ==
    Then(ReadLenBytes(src, off), LAMBDA schema, at :
    Then(DecodeAttributes(src, at), LAMBDA as, end : Got([schema |-> schema, attributes |-> as], end)))

DecodeScope(src, off) ==
    Then(Times(3, off, LAMBDA at : ReadLenBytes(src, at)), LAMBDA f, at :
    Then(DecodeAttributes(src, at), LAMBDA as, end :
        Got([name |-> f[1], version |-> f[2], schema |-> f[3], attributes |-> as], end)))

DecodeSeries(src) ==
    Then(DecodeResource(src, 0), LAMBDA r, at1 :
    Then(DecodeScope(src, at1), LAMBDA s, at2 :
    Then(DecodeAttributes(src, at2), LAMBDA as, end :
        Got([resource |-> r, scope |-> s, attributes |-> as], end))))

\* LookupAttribute walks the stored form and stops at the first attribute with the key.
LookupAttribute(src, key) ==
    Then(DecodeAttributes(src, 0), LAMBDA as, end :
        LET hit == SelectSeq(as, LAMBDA kv : kv[1] = key) IN IF hit = <<>> THEN Err ELSE Got(hit[1][2], end))

\* An attribute set is stored as bytes of its own inside an event or a link.
EncodeEvents(evs) ==
    IF evs = <<>> THEN <<>>
    ELSE <<<<"len", Len(evs)>>>> \o Concat(evs, LAMBDA e :
        <<<<"varint", e.time>>, <<"bytes", e.name>>, <<"nested", AppendHashInput(e.attributes)>>,
          <<"varint", e.dropped>>>>)

Nested(src, off) ==
    Then(Token(src, off, "nested"), LAMBDA b, at : Then(DecodeAttributes(b, 0), LAMBDA as, end : Got(as, at)))

DecodeEvents(src) ==
    IF src = <<>> THEN Got(<<>>, 0)
    ELSE Counted(src, 0, LAMBDA off :
        Then(Token(src, off, "varint"), LAMBDA t, a1 :
        Then(Token(src, a1, "bytes"), LAMBDA n, a2 :
        Then(Nested(src, a2), LAMBDA as, a3 :
        Then(Token(src, a3, "varint"), LAMBDA d, end :
            Got([time |-> t, name |-> n, attributes |-> as, dropped |-> d], end))))))

EncodeLinks(ls) ==
    IF ls = <<>> THEN <<>>
    ELSE <<<<"len", Len(ls)>>>> \o Concat(ls, LAMBDA l :
        <<<<"bytes", l.trace>>, <<"bytes", l.span>>, <<"bytes", l.state>>,
          <<"nested", AppendHashInput(l.attributes)>>, <<"varint", l.dropped>>>>)

DecodeLinks(src) ==
    IF src = <<>> THEN Got(<<>>, 0)
    ELSE Counted(src, 0, LAMBDA off :
        Then(Times(3, off, LAMBDA at : Token(src, at, "bytes")), LAMBDA ids, a3 :
        Then(Nested(src, a3), LAMBDA as, a4 :
        Then(Token(src, a4, "varint"), LAMBDA d, end :
            Got([trace |-> ids[1], span |-> ids[2], state |-> ids[3], attributes |-> as, dropped |-> d], end)))))

------------------------------------------------------------------------------
(* Nested sets                                                                 *)

\* Spans of one trace; of two with one id the later is the one its children point at.
Parent(spans, i) ==
    LET same == { j \in DOMAIN spans : spans[j].trace = spans[i].trace /\ spans[j].span = spans[i].parent }
    IN IF same = {} THEN 0 ELSE Max(same)

Before(spans, i, j) ==
    \/ spans[i].start < spans[j].start
    \/ spans[i].start = spans[j].start /\ spans[i].span < spans[j].span
    \/ spans[i].start = spans[j].start /\ spans[i].span = spans[j].span /\ i < j

ByStart(spans, is) == SetToSortSeq(is, LAMBDA i, j : Before(spans, i, j))

Roots(spans, trace) ==
    ByStart(spans, { i \in DOMAIN spans : spans[i].trace = trace /\ Parent(spans, i) \in {0, i} })

Children(spans, i) ==
    ByStart(spans, { j \in DOMAIN spans :
        spans[j].trace = spans[i].trace /\ spans[j].parent = spans[i].span /\ Parent(spans, j) \notin {0, j} })

\* A mutant of Visit: the right number is not taken from the counter.
RECURSIVE VisitTouching(_, _, _, _)
VisitTouching(spans, st, i, parentLeft) ==
    IF spans[i].span \in st.visited THEN st
    ELSE LET left == st.counter
             below == FoldLeft(LAMBDA s, c : VisitTouching(spans, s, c, left),
                               [st EXCEPT !.counter = left + 1, !.visited = @ \cup {spans[i].span}],
                               Children(spans, i))
         IN [below EXCEPT !.sets = @ \cup {[span |-> spans[i].span, left |-> left, right |-> below.counter,
                                            parent |-> parentLeft]}]

\* One step of the depth-first walk: a left number going down, a right one coming back up.
RECURSIVE Visit(_, _, _, _)
Visit(spans, st, i, parentLeft) ==
    IF spans[i].span \in st.visited THEN st
    ELSE LET left == st.counter
             below == FoldLeft(LAMBDA s, c : Visit(spans, s, c, left),
                               [st EXCEPT !.counter = left + 1, !.visited = @ \cup {spans[i].span}],
                               Children(spans, i))
         IN [below EXCEPT !.counter = @ + 1,
                !.sets = @ \cup {[span |-> spans[i].span, left |-> left, right |-> below.counter,
                                  parent |-> parentLeft]}]

AssignNestedSet(spans, trace) ==
    FoldLeft(LAMBDA s, r : Visit(spans, s, r, 0), [counter |-> 1, visited |-> {}, sets |-> {}],
             Roots(spans, trace)).sets

ComputeNestedSets(spans) ==
    [t \in { spans[i].trace : i \in DOMAIN spans } |-> AssignNestedSet(spans, t)]

\* fillBatch: a span the walk never reached is stored with zeros.
Unreached == [left |-> 0, right |-> 0, parent |-> 0]

FillBatch(spans) ==
    LET nsets0 == ComputeNestedSets(spans)
        of(sp) == { n \in nsets0[sp.trace] : n.span = sp.span }
        num(sp) == IF of(sp) = {} THEN Unreached
                   ELSE LET n == CHOOSE x \in of(sp) : TRUE
                        IN [left |-> n.left, right |-> n.right, parent |-> n.parent]
    IN [i \in DOMAIN spans |-> num(spans[i])]

------------------------------------------------------------------------------
Init == in = [spans |-> <<>>, series |-> Err] /\ nsets = <<>> /\ stored = <<>>

\* Project: one record batch per request, its stream's identity and its spans' side data stored.
Project(spans, s) ==
    /\ in' = [spans |-> spans, series |-> s]
    /\ nsets' = FillBatch(spans)
    /\ stored' = [series |-> AppendSeries(s),
                  events |-> [i \in DOMAIN spans |-> EncodeEvents(spans[i].events)],
                  links |-> [i \in DOMAIN spans |-> EncodeLinks(spans[i].links)]]

Next == in.series = Err /\ \E r \in Requests : Project(r[1], r[2])

Spec == Init /\ [][Next]_vars

------------------------------------------------------------------------------
Reached(i) == nsets[i].left > 0

RECURSIVE Above(_, _)
Above(i, n) == IF n = 0 THEN {}
               ELSE LET p == Parent(in.spans, i) IN IF p \in {0, i} THEN {} ELSE {p} \cup Above(p, n - 1)

\* The ids above the given ones in a trace, through the parent of any span that has the id.
RECURSIVE IdsAbove(_, _, _)
IdsAbove(t, ids, n) ==
    IF n = 0 THEN {}
    ELSE LET of == { k \in DOMAIN in.spans : in.spans[k].trace = t }
             up == { in.spans[k].parent : k \in { m \in of : in.spans[m].span \in ids } }
                   \cap { in.spans[k].span : k \in of }
         IN up \cup IdsAbove(t, up, n - 1)

Inside(j, i) == nsets[i].left < nsets[j].left /\ nsets[j].right < nsets[i].right

\* The numbers a structural query compares (records.go: "descendant iff a.left<b.left &&
\* b.right<a.right") are laminar, two spans of a trace being disjoint or nested, and a span lies
\* inside only spans whose ids are above its own.  Where every id of the trace is one span's, a
\* span lies inside exactly its ancestors, its parent number is its parent's left one, and the
\* walk misses only the spans on or under a cycle, whose zeros put them inside nothing.  The
\* exception: spans that share an id share the numbers of the one the walk met first, and may so
\* lie inside an ancestor of the other only, or outside an ancestor of their own.
NumbersNest ==
    LET spans == in.spans
        n == Len(spans)
        unique(t) == \A i, j \in DOMAIN spans :
                        i # j /\ spans[i].trace = t /\ spans[j].trace = t => spans[i].span # spans[j].span
    IN /\ \A i, j \in DOMAIN nsets : spans[i].trace = spans[j].trace /\ spans[i].span # spans[j].span =>
            /\ Reached(i) /\ Reached(j) =>
                   \/ nsets[i].right < nsets[j].left \/ nsets[j].right < nsets[i].left
                   \/ Inside(i, j) \/ Inside(j, i)
            /\ Inside(j, i) => spans[i].span \in IdsAbove(spans[j].trace, {spans[j].span}, n)
       /\ \A i \in DOMAIN nsets : unique(spans[i].trace) =>
            LET p == Parent(spans, i)
                up == Above(i, n)
            IN /\ Reached(i) <=> \A a \in up \cup {i} : a \notin Above(a, n)
               /\ Reached(i) => /\ nsets[i].parent = IF p \in {0, i} THEN 0 ELSE nsets[p].left
                                /\ { a \in DOMAIN nsets : spans[a].trace = spans[i].trace /\ Inside(i, a) } = up
               /\ ~Reached(i) => \A a \in DOMAIN nsets : ~Inside(i, a) /\ ~Inside(a, i)

\* What was stored reads back whole and equal, a lookup of one key agrees with decoding all of them,
\* and no shorter input is taken for a stored series.
StoredReadsBack ==
    in.series # Err =>
        /\ DecodeSeries(stored.series) = Got(in.series, Len(stored.series))
        /\ \A n \in 0 .. Len(stored.series) - 1 : DecodeSeries(SubSeq(stored.series, 1, n)) = Err
        /\ \A k \in Keys :
              LET r == LookupAttribute(AppendHashInput(in.series.attributes), k)
                  as == SelectSeq(in.series.attributes, LAMBDA kv : kv[1] = k)
              IN IF as = <<>> THEN r = Err ELSE r # Err /\ r[2] = as[1][2]
        /\ \A i \in DOMAIN in.spans :
              /\ DecodeEvents(stored.events[i]) = Got(in.spans[i].events, Len(stored.events[i]))
              /\ DecodeLinks(stored.links[i]) = Got(in.spans[i].links, Len(stored.links[i]))
==============================================================================
