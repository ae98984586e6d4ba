----------------------------- MODULE DictColumn -----------------------------
(* A bytes column written granule by granule from decoded granules of another  *)
(* part (block/streambytes.go, binding.go, dictgen.go): the granule's own      *)
(* dictionary, the column's shared one, the caches that spare a lookup per     *)
(* row, and the tokens that say when a decoded granule may still be read.      *)
EXTENDS BlockColumn, TLC

CONSTANTS Value,      \* the values rows hold
          Source,     \* the granules the source can decode: [shared, entries, ids]
          MaxAppend,  \* rows the column may reach
          MaxDecode,  \* granules the source decodes
          GenWrap,    \* where the granule generation wraps (2^32 in the code)
          None

VARIABLES rows,     \* ghost: the values appended, in order
          sealed,   \* the granules' streams and row counts
          d,        \* sharedDictBuilder: [entries, counts]
          g,        \* dictGranule: [vals, counts, did, rowGid, fresh]
          gen, epoch,
          gOfD,     \* by dictionary id, the granule id it has in generation stamp
          bnd,      \* the Binding, or None
          src,      \* the source decoder's buffer: [epoch, granule]
          held,     \* a DecodedGranule the caller kept, or None
          self,     \* values counted by Observer.SelfGranule
          out       \* None, or what finishDict wrote

vars == <<rows, sealed, d, g, gen, epoch, gOfD, bnd, src, held, self, out>>

NewGranule == [vals |-> <<>>, counts |-> <<>>, did |-> <<>>, rowGid |-> <<>>, fresh |-> 0]

NoSlot == [stamp |-> 0, gid |-> 0]

\* The writer's working state, as the helpers below pass it on.
State == [sealed |-> sealed, d |-> d, g |-> g, gen |-> gen, epoch |-> epoch, gOfD |-> gOfD,
          bnd |-> bnd, self |-> self]

Counted(vals, counts, v) ==
    MapThenSumSet(LAMBDA i : IF vals[i] = v THEN counts[i] ELSE 0, DOMAIN vals)

Added(s, v, did) ==
    [s EXCEPT !.g.vals = Append(@, v), !.g.counts = Append(@, 0), !.g.did = Append(@, did)]

\* resetGranule: when the generation wraps, nothing cached under an old one may match again.
ResetGranule(s) ==
    LET next == (s.gen + 1) % GenWrap
    IN [s EXCEPT !.g = NewGranule,
                 !.gen = IF next = 0 THEN 1 ELSE next,
                 !.epoch = IF next = 0 THEN @ + 1 ELSE @,
                 !.gOfD = IF next = 0 THEN [i \in DOMAIN @ |-> [@[i] EXCEPT !.stamp = 0]] ELSE @]

\* gidOfD: a dictionary value's id in this granule.
GidOfD(s, did) ==
    LET a == Added(s, s.d.entries[did], did)
    IN IF s.gOfD[did].stamp = s.gen THEN [s |-> s, gid |-> s.gOfD[did].gid]
       ELSE [s |-> [a EXCEPT !.gOfD[did] = [stamp |-> s.gen, gid |-> Len(a.g.vals)]], gid |-> Len(a.g.vals)]

\* gidOfValue: in the granule, else in the dictionary, else new to both.
GidOfValue(s, v) ==
    LET here == { i \in DOMAIN s.g.vals : s.g.vals[i] = v /\ s.g.did[i] = 0 }
        there == { i \in DOMAIN s.d.entries : s.d.entries[i] = v }
        new == Added(s, v, 0)
    IN IF here # {} THEN [s |-> s, gid |-> Max(here), did |-> 0]
       ELSE IF there # {} THEN LET o == GidOfD(s, Max(there)) IN [s |-> o.s, gid |-> o.gid, did |-> Max(there)]
       ELSE [s |-> [new EXCEPT !.g.fresh = @ + EntryCharge], gid |-> Len(new.g.vals), did |-> 0]

\* A mutant of SelfGranule: a value the dictionary already holds is left to the dictionary's count.
SelfGranuleUncounted(s) ==
    LET vals == [r \in DOMAIN s.g.rowGid |-> s.g.vals[s.g.rowGid[r]]]
        new == SelectSeq([i \in DOMAIN s.g.vals |-> i], LAMBDA i : s.g.did[i] = 0)
    IN [s EXCEPT !.sealed = Append(@, [rows |-> Len(vals), stream |-> <<1>> \o AppendBlockStream("dict", vals)]),
                 !.self = [v \in Value |-> @[v] + MapThenSumSet(LAMBDA i : IF s.g.vals[i] = v THEN s.g.counts[i] ELSE 0, ToSet(new))]]

\* joinGranule: the granule's new values enter the dictionary and its rows become their ids.
JoinGranule(s) ==
    LET fresh == SelectSeq([i \in DOMAIN s.g.vals |-> i], LAMBDA i : s.g.did[i] = 0)
        place(i) == Len(s.d.entries) + Cardinality({ j \in DOMAIN fresh : fresh[j] <= i })
        did == [i \in DOMAIN s.g.vals |-> IF s.g.did[i] = 0 THEN place(i) ELSE s.g.did[i]]
        entries == s.d.entries \o [j \in DOMAIN fresh |-> s.g.vals[fresh[j]]]
        counts == s.d.counts \o [j \in DOMAIN fresh |-> 0]
        add(k) == MapThenSumSet(LAMBDA i : IF did[i] = k THEN s.g.counts[i] ELSE 0, DOMAIN did)
    IN [s EXCEPT !.d = [entries |-> entries, counts |-> [k \in DOMAIN counts |-> counts[k] + add(k)]],
                 !.gOfD = @ \o [j \in DOMAIN fresh |-> NoSlot],
                 !.sealed = Append(@, [rows |-> Len(s.g.rowGid), stream |->
                     AppendSharedIDs([r \in DOMAIN s.g.rowGid |-> did[s.g.rowGid[r]]], entries)])]

\* SelfGranule: the granule keeps a dictionary of its own.
SelfGranule(s) ==
    LET vals == [r \in DOMAIN s.g.rowGid |-> s.g.vals[s.g.rowGid[r]]]
    IN [s EXCEPT !.sealed = Append(@, [rows |-> Len(vals), stream |-> <<1>> \o AppendBlockStream("dict", vals)]),
                 !.self = [v \in Value |-> @[v] + Counted(s.g.vals, s.g.counts, v)]]

Joins(s) ==
    /\ SharedDictJoins(Len(s.g.vals), Len(s.g.rowGid), Len(s.d.entries))
    /\ s.g.fresh <= DictCap - EntryCharge * Len(s.d.entries)

SealDict(s) == ResetGranule(IF Joins(s) THEN JoinGranule(s) ELSE SelfGranule(s))

AppendGid(s, gid) ==
    LET a == [s EXCEPT !.g.rowGid = Append(@, gid), !.g.counts[gid] = @ + 1]
    IN IF Len(a.g.rowGid) >= Granule THEN SealDict(a) ELSE a

AppendByteValue(s, v) == LET o == GidOfValue(s, v) IN AppendGid(o.s, o.gid)

\* Binding.append: the entry's id in this granule, cached by generation, else through the dictionary
\* id it once had, else by value.
BindingAppend(s, e) ==
    LET b == IF s.bnd.epoch = s.epoch THEN s.bnd
             ELSE [s.bnd EXCEPT !.epoch = s.epoch, !.slot = [i \in DOMAIN @ |-> NoSlot]]
        o == IF b.did[e] # 0 THEN GidOfD(s, b.did[e]) @@ [did |-> b.did[e]] ELSE GidOfValue(s, b.entries[e])
    IN IF b.slot[e].stamp = s.gen THEN AppendGid([s EXCEPT !.bnd = b], b.slot[e].gid)
       ELSE AppendGid([o.s EXCEPT !.bnd = [b EXCEPT !.slot[e] = [stamp |-> s.gen, gid |-> o.gid],
                                                    !.did[e] = o.did]], o.gid)

----------------------------------------------------------------------------
(* Tokens.                                                                     *)

SharedToken == [owner |-> "shared", epoch |-> 0]

GranuleToken == [owner |-> "granules", epoch |-> src.epoch]

Live(t) == t = SharedToken \/ t = GranuleToken

TokenOf(granule) == IF granule.shared THEN SharedToken ELSE GranuleToken

Becomes(s) ==
    /\ sealed' = s.sealed
    /\ d' = s.d
    /\ g' = s.g
    /\ gen' = s.gen
    /\ epoch' = s.epoch
    /\ gOfD' = s.gOfD
    /\ bnd' = s.bnd
    /\ self' = s.self

Unwritten == UNCHANGED <<rows, sealed, d, g, gen, epoch, gOfD, self>>

Init ==
    /\ rows = <<>>
    /\ sealed = <<>>
    /\ d = [entries |-> <<>>, counts |-> <<>>]
    /\ g = NewGranule
    /\ gen = 1
    /\ epoch = 0
    /\ gOfD = <<>>
    /\ bnd = None
    /\ src = [epoch |-> 0, granule |-> None]
    /\ held = None
    /\ self = [v \in Value |-> 0]
    /\ out = None

AppendBytes(v) ==
    /\ out = None
    /\ Len(rows) < MaxAppend
    /\ rows' = Append(rows, v)
    /\ Becomes(AppendByteValue(State, v))
    /\ UNCHANGED <<src, held, out>>

\* DecodeBytesBlock: the buffer is overwritten and the last granule's token retired.
DecodeBytesBlock(granule) ==
    /\ src.epoch < MaxDecode
    /\ src' = [epoch |-> src.epoch + 1, granule |-> granule]
    /\ UNCHANGED <<held, bnd, out>>
    /\ Unwritten

\* The caller keeps the granule last decoded; want is the ghost of what it held then.
Keep ==
    /\ src.granule # None
    /\ held' = [table |-> TokenOf(src.granule), lease |-> GranuleToken, entries |-> Len(src.granule.entries),
                want |-> [r \in DOMAIN src.granule.ids |-> src.granule.entries[src.granule.ids[r]]]]
    /\ held' # held
    /\ UNCHANGED <<bnd, src, out>>
    /\ Unwritten

\* Bind and BindStable
Bind ==
    /\ out = None
    /\ src.granule # None
    /\ LET n == Len(src.granule.entries)
           b == [entries |-> src.granule.entries, token |-> TokenOf(src.granule), epoch |-> epoch,
                 slot |-> [i \in 1 .. n |-> NoSlot], did |-> [i \in 1 .. n |-> 0]]
       IN bnd' = b /\ b # bnd
    /\ UNCHANGED <<src, held, out>>
    /\ Unwritten

\* A mutant of Usable: the table's token alone is checked.
UsableTable == held.table = bnd.token /\ Live(held.table)

\* AppendDict's refusals: another table's granule, and one a later decode has overwritten.
Usable == held.table = bnd.token /\ Live(held.lease) /\ Live(held.table)

\* AppendDict: what is read is what the buffer holds now, whatever the granule held when decoded.
AppendDict(lo, hi) ==
    /\ out = None
    /\ bnd # None
    /\ held # None
    /\ Usable
    /\ lo < hi /\ hi <= Len(held.want)
    /\ Len(rows) + hi - lo <= MaxAppend
    /\ hi <= Len(src.granule.ids)
    /\ held.entries = Len(bnd.entries)
    /\ rows' = rows \o SubSeq(held.want, lo + 1, hi)
    /\ Becomes(FoldLeft(BindingAppend, State, SubSeq(src.granule.ids, lo + 1, hi)))
    /\ UNCHANGED <<src, held, out>>

\* unframeSelf: a column no granule of which joined is written again as one stream.
UnframeSelf(granules) ==
    FlattenSeq([i \in DOMAIN granules |-> DecodeStream("dict", SubSeq(granules[i].stream, 2, Len(granules[i].stream)))])

\* finishDict, the pending granule flushed first.
FinishDict ==
    /\ out = None
    /\ rows # <<>>
    /\ LET s == IF g.rowGid = <<>> THEN State ELSE SealDict(State)
       IN /\ out' = IF s.d.entries = <<>> THEN [kind |-> "whole", rows |-> UnframeSelf(s.sealed)]
                    ELSE [kind |-> "framed",
                          rows |-> FlattenSeq([i \in DOMAIN s.sealed |->
                                      SharedGranule(s.d.entries, s.sealed[i].stream, s.sealed[i].rows).rows])]
          /\ Becomes([s EXCEPT !.bnd = None])
    /\ UNCHANGED <<rows, src, held>>

Next ==
    \/ \E v \in Value : AppendBytes(v)
    \/ \E granule \in Source : DecodeBytesBlock(granule)
    \/ Keep
    \/ Bind
    \/ \E lo \in 0 .. Granule - 1 : \E hi \in 1 .. Granule : AppendDict(lo, hi)
    \/ FinishDict

Spec == Init /\ [][Next]_vars

----------------------------------------------------------------------------
TypeOK ==
    /\ rows \in Seq(Value)
    /\ gen \in 1 .. GenWrap - 1
    /\ epoch \in Nat
    /\ Len(gOfD) = Len(d.entries)
    /\ self \in [Value -> Nat]

Occurs(s, v) == Cardinality({ i \in DOMAIN s : s[i] = v })

\* A finished column reads back as the rows appended, in order, through every cache a row's id came
\* from: the binding's slot of this generation, the dictionary id remembered across granules, the
\* dictionary's own slot, and the generation that wraps between them.  The granule is the one the
\* caller decoded, never one a later decode wrote over it.
RowsKept == out # None => out.rows = rows

\* What the observer is told adds up: self-contained granules' counts and the dictionary's together
\* count every sealed row once, by value.
ObservedOnce ==
    \A v \in Value :
        self[v] + Counted(d.entries, d.counts, v) =
            Occurs(SubSeq(rows, 1, Len(rows) - Len(g.rowGid)), v)
=============================================================================
