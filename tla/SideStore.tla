------------------------------ MODULE SideStore ------------------------------
(* The side store of a record engine: the accumulator that follows the head,  *)
(* the snapshot an in-flight flush holds, the sidecars of every part, and the *)
(* reads that resolve a fetched record's stack through all three              *)
(* (recordengine/sidestore.go, append.go, replicate.go, engine.go, index.go,  *)
(* merge.go; profiles.go; signal/profile).  One stream, whose rows are        *)
(* numbered by time.  Node "o" owns the shard and flushes and merges; node    *)
(* "r" is a replica over the same object store.                               *)
(*                                                                            *)
(* What other modules check is one step here: a commit of the part index, and *)
(* a log write (Wal).  The log is a sequence of frames; skip is the prefix of *)
(* it that the stored index covers.                                           *)
EXTENDS Integers, Sequences, SequencesExt, FiniteSets, FiniteSetsExt

CONSTANTS Row,        \* rows, numbered by timestamp
          Source,     \* Row -> [dict, stack]: the batch dictionary and index
          Window,     \* read windows <<lo, hi>>; <<0, 0>> reads every part
          Setup,      \* [mode, rows]: "plain", "logged" or "clustered", and
                      \* the rows its clients write
          MaxPart, MaxFault, MaxRead, None

Node == {"o", "r"}

-----------------------------------------------------------------------------
(* The profiles symbol store (signal/profile/symbols.go, tables.go,           *)
(* retain.go, resolve.go): five content-addressed tables of strings,          *)
(* mappings, functions, locations and stacks.  An entry's id is the hash of   *)
(* its table's tag and its bytes, and the bytes hold the ids of what it       *)
(* references.  With a hash that never collides an id and its entry say the   *)
(* same, so a table is the set of its entries and an entry holds the entries  *)
(* it references.  A batch carries its own dictionary, indexed from 0, whose  *)
(* indices may be out of range.                                               *)

Table == {"strings", "mappings", "functions", "locations", "stacks"}

NoTables == [t \in Table |-> {}]

\* Absorb, Restore, Union's merge and unionTable: a plain dedup, no id remapped.
Join(a, b) == [t \in Table |-> a[t] \cup b[t]]

----------------------------------------------------------------------------
(* The builder: a batch's indices resolved to content ids, bottom up.         *)

At(s, i, zero) == IF i \in 0 .. Len(s) - 1 THEN s[i + 1] ELSE zero

Mapping(d, i) == At(d.mappings, i, [start |-> 0, file |-> 0])
Function(d, i) == At(d.functions, i, [name |-> 0, sys |-> 0, file |-> 0])
Location(d, i) == At(d.locations, i, [mapping |-> 0, lines |-> <<>>])
Stack(d, i) == At(d.stacks, i, <<>>)

StringID(d, i) == At(d.strings, i, "")

MappingID(d, i) ==
  LET m == Mapping(d, i) IN <<m.start, StringID(d, m.file)>>

FunctionID(d, i) ==
  LET f == Function(d, i)
  IN  <<StringID(d, f.name), StringID(d, f.sys), StringID(d, f.file)>>

LocationID(d, i) ==
  LET l == Location(d, i)
  IN  <<MappingID(d, l.mapping),
        [k \in DOMAIN l.lines |->
           <<FunctionID(d, l.lines[k].fn), l.lines[k].line>>]>>

StackID(d, i) ==
  LET s == Stack(d, i) IN [k \in DOMAIN s |-> LocationID(d, s[k])]

\* Every entry the walk from the stacks at the indices I touches.
Delta(d, I) ==
  LET locs == UNION {Range(Stack(d, i)) : i \in I}
      maps == {Location(d, i).mapping : i \in locs}
      fns  == {l.fn : l \in UNION {Range(Location(d, i).lines) : i \in locs}}
      strs == {Mapping(d, i).file : i \in maps}
                \cup UNION {{Function(d, i).name, Function(d, i).sys,
                             Function(d, i).file} : i \in fns}
  IN  [strings   |-> {StringID(d, i) : i \in strs},
       mappings  |-> {MappingID(d, i) : i \in maps},
       functions |-> {FunctionID(d, i) : i \in fns},
       locations |-> {LocationID(d, i) : i \in locs},
       stacks    |-> {StackID(d, i) : i \in I}]

----------------------------------------------------------------------------
(* Retain: what the stack ids in refs reach through entries that are present. *)

Retain(acc, refs) ==
  LET s == refs \cap acc.stacks
      l == UNION {Range(x) : x \in s} \cap acc.locations
      m == {x[1] : x \in l} \cap acc.mappings
      f == {x[1] : x \in UNION {Range(y[2]) : y \in l}} \cap acc.functions
  IN  [stacks |-> s, locations |-> l, mappings |-> m, functions |-> f,
       strings |-> ({x[2] : x \in m} \cup UNION {Range(x) : x \in f})
                     \cap acc.strings]

----------------------------------------------------------------------------
(* The resolver, over a sequence of layers.                                   *)

\* The layer that holds id, the hint tried first; 0 when none does.
Lookup(layers, t, id, hint) ==
  LET in == {i \in DOMAIN layers : id \in layers[i][t]}
  IN  CASE in = {} -> 0
        [] hint \in in -> hint
        [] OTHER -> CHOOSE i \in in : \A j \in in : i <= j

Text(layers, id, hint) ==
  IF Lookup(layers, "strings", id, hint) = 0 THEN "" ELSE id

Frame(layers, id, line, hint) ==
  LET at == Lookup(layers, "functions", id, hint)
  IN  IF at = 0
      THEN [function |-> "", file |-> "", line |-> line]
      ELSE [function |-> Text(layers, id[1], at),
            file |-> Text(layers, id[3], at), line |-> line]

LocationFrames(layers, id, hint) ==
  LET at == Lookup(layers, "locations", id, hint)
  IN  IF at = 0
      THEN <<>>
      ELSE [k \in DOMAIN id[2] |->
              Frame(layers, id[2][k][1], id[2][k][2], at)]

Resolve(layers, id) ==
  LET at == Lookup(layers, "stacks", id, 1)
  IN  IF at = 0
      THEN <<>>
      ELSE FlattenSeq([k \in DOMAIN id |-> LocationFrames(layers, id[k], at)])

----------------------------------------------------------------------------
(* What the client sent, read straight from its dictionary.                   *)

Sent(d, i) ==
  LET frame(l) == LET f == Function(d, l.fn)
                  IN  [function |-> StringID(d, f.name),
                       file |-> StringID(d, f.file), line |-> l.line]
      lines(j) == LET ls == Location(d, j).lines
                  IN  [k \in DOMAIN ls |-> frame(ls[k])]
      locs == Stack(d, i)
  IN  FlattenSeq([k \in DOMAIN locs |-> lines(locs[k])])

\* Every entry of the tables has what it references beside it.
Closed(t) ==
  /\ \A s \in t.stacks : Range(s) \subseteq t.locations
  /\ \A l \in t.locations :
       /\ l[1] \in t.mappings
       /\ {x[1] : x \in Range(l[2])} \subseteq t.functions
  /\ \A m \in t.mappings : m[2] \in t.strings
  /\ \A f \in t.functions : Range(f) \subseteq t.strings

-----------------------------------------------------------------------------

VARIABLES head, acc, absorbed, stray,   \* per node
          flushing, fside, sealed,      \* the owner's flush; fside = None: none
          part, stored, live, view,     \* parts, objects, stored index, loaded
          retiring, log, skip,
          todo,                         \* rows not yet written
          rd,                           \* the read in progress, or None
          mode, faults, reads

mem == <<head, acc, absorbed, stray>>
flush == <<flushing, fside, sealed>>
disk == <<part, stored, live, retiring>>
wal == <<log, skip>>
count == <<mode, faults, reads>>
vars == <<mem, flush, disk, view, wal, todo, rd, count>>

Ref(i) == StackID(Source[i].dict, Source[i].stack)
Refs(R) == {Ref(i) : i \in R}
DeltaOf(R) == Delta((Source[CHOOSE i \in R : TRUE]).dict,
                    {Source[i].stack : i \in R})

\* A batch has one dictionary.
Batch == {R \in SUBSET Row : /\ R # {}
                             /\ \A i, j \in R : Source[i].dict = Source[j].dict}

RowsIn(P) == UNION {part[p].rows : p \in P}

Init ==
  /\ head = [n \in Node |-> {}]
  /\ acc = [n \in Node |-> NoTables]
  /\ absorbed = [n \in Node |-> FALSE]
  /\ stray = [n \in Node |-> FALSE]
  /\ flushing = {} /\ fside = None /\ sealed = 0
  /\ part = <<>> /\ stored = {} /\ live = {} /\ retiring = {}
  /\ view = [n \in Node |-> {}]
  /\ log = <<>> /\ skip = 0
  /\ rd = None
  /\ \E s \in Setup : mode = s.mode /\ todo = s.rows
  /\ faults = 0 /\ reads = 0

----------------------------------------------------------------------------
(* Writes.                                                                    *)

SideFrame(t) == [kind |-> "side", side |-> t, rows |-> {}]
RecFrame(R) == [kind |-> "recs", side |-> NoTables, rows |-> R]

\* absorbSideLocked, with the stray mark its callers add.
Absorb(n, t, s) ==
  /\ acc' = [acc EXCEPT ![n] = Join(@, t)]
  /\ absorbed' = [absorbed EXCEPT ![n] = TRUE]
  /\ stray' = [stray EXCEPT ![n] = @ \/ s]

AppendUnlogged(b, ok) ==
  /\ mode = "plain"
  /\ head' = [head EXCEPT !["o"] = @ \cup ok]
  /\ IF ok # {}
     THEN Absorb("o", DeltaOf(b), ok # b)
     ELSE UNCHANGED <<acc, absorbed, stray>>
  /\ todo' = todo \ b
  /\ UNCHANGED <<flush, disk, view, wal, rd, count>>

Frames(b, ok) == <<SideFrame(DeltaOf(b)), RecFrame(ok)>>

\* appendLogged: the delta absorbed, the frames logged, the rows applied.
AppendLogged(b, ok) ==
  /\ mode = "logged"
  /\ IF ok = {}
     THEN UNCHANGED <<mem, wal>>
     ELSE /\ Absorb("o", DeltaOf(b), ok # b)
          /\ head' = [head EXCEPT !["o"] = @ \cup ok]
          /\ log' = log \o Frames(b, ok)
          /\ UNCHANGED skip
  /\ todo' = todo \ b
  /\ UNCHANGED <<flush, disk, view, rd, count>>

\* The log write fails after k of its frames.  The batch may come again.
AppendFails(b, ok, k) ==
  /\ mode = "logged"
  /\ faults < MaxFault
  /\ Absorb("o", DeltaOf(b), TRUE)
  /\ log' = log \o SubSeq(Frames(b, ok), 1, k)
  /\ faults' = faults + 1
  /\ UNCHANGED <<head, flush, disk, view, skip, todo, rd, mode, reads>>

\* ApplyPrimary.  Without a retention cutoff the delta is absorbed while the
\* payload is read; with one, only if some record was accepted.  The replica
\* applies the accepted frames (ApplyReplicated), unless they are lost.
ApplyPrimary(b, ok, cutoff, reached) ==
  LET touched == ~cutoff \/ ok # {}
      side == IF touched THEN DeltaOf(b) ELSE NoTables
      at == IF reached THEN Node ELSE {"o"}
  IN  /\ mode = "clustered"
      /\ head' = [n \in Node |-> IF n \in at THEN head[n] \cup ok ELSE head[n]]
      /\ acc' = [n \in Node |-> IF n \in at THEN Join(acc[n], side) ELSE acc[n]]
      /\ absorbed' = [n \in Node |-> absorbed[n] \/ (n \in at /\ touched)]
      /\ stray' = [n \in Node |-> stray[n] \/ (n \in at /\ touched /\ (n = "r" \/ ok # b))]
      /\ log' = log \o (IF touched THEN <<SideFrame(side)>> ELSE <<>>)
                     \o (IF ok # {} THEN <<RecFrame(ok)>> ELSE <<>>)
      /\ todo' = todo \ b
      /\ UNCHANGED <<flush, disk, view, skip, rd, count>>

----------------------------------------------------------------------------
(* Flush.                                                                     *)

\* settleSideLocked before a flush.
Settled ==
  CASE head["o"] = {} /\ absorbed["o"] ->
         [acc |-> NoTables, absorbed |-> FALSE, stray |-> FALSE]
    [] head["o"] # {} /\ stray["o"] ->
         [acc |-> Retain(acc["o"], Refs(head["o"])),
          absorbed |-> FALSE, stray |-> FALSE]
    [] OTHER ->
         [acc |-> acc["o"], absorbed |-> absorbed["o"], stray |-> stray["o"]]

\* The head is empty, or the tenure, the fence or the log's seal refuses.
FlushRefused ==
  /\ fside = None
  /\ head["o"] = {} \/ faults < MaxFault
  /\ acc' = [acc EXCEPT !["o"] = Settled.acc]
  /\ absorbed' = [absorbed EXCEPT !["o"] = Settled.absorbed]
  /\ stray' = [stray EXCEPT !["o"] = Settled.stray]
  /\ faults' = IF head["o"] = {} THEN faults ELSE faults + 1
  /\ UNCHANGED <<head, flush, disk, view, wal, todo, rd, mode, reads>>

FlushDetach ==
  /\ fside = None
  /\ head["o"] # {}
  /\ flushing' = head["o"]
  /\ head' = [head EXCEPT !["o"] = {}]
  /\ sealed' = Len(log)
  /\ fside' = Settled.acc
  /\ acc' = [acc EXCEPT !["o"] = NoTables]
  /\ absorbed' = [absorbed EXCEPT !["o"] = FALSE]
  /\ stray' = [stray EXCEPT !["o"] = FALSE]
  /\ UNCHANGED <<disk, view, wal, todo, rd, count>>

FlushAbort ==
  /\ fside # None
  /\ faults < MaxFault
  /\ head' = [head EXCEPT !["o"] = @ \cup flushing]
  /\ acc' = [acc EXCEPT !["o"] = Join(@, fside)]
  /\ absorbed' = [absorbed EXCEPT !["o"] = TRUE]
  /\ flushing' = {} /\ fside' = None /\ sealed' = 0
  /\ faults' = faults + 1
  /\ UNCHANGED <<stray, disk, view, wal, todo, rd, mode, reads>>

\* The rows R laid out as one part, or as two when they pass the size bound.
Splits(R) == {<<R>>} \cup {<<{i \in R : i < m}, {i \in R : i >= m}>> :
                               m \in R \ {Min(R)}}

Writes(rows, tab) ==
  /\ Len(part) + Len(rows) <= MaxPart
  /\ part' = part \o [k \in DOMAIN rows |-> [rows |-> rows[k], tab |-> tab[k]]]

New(rows) == {Len(part) + k : k \in DOMAIN rows}

\* publishFlushLocked.  A commit whose answer is lost may have landed; the
\* parts stay in the owner's set and the log stays whole.
FlushPublish(rows, landed, confirmed) ==
  /\ fside # None
  /\ confirmed => landed
  /\ ~confirmed => faults < MaxFault
  /\ Writes(rows, [k \in DOMAIN rows |-> fside])
  /\ stored' = stored \cup New(rows)
  /\ view' = [view EXCEPT !["o"] = @ \cup New(rows)]
  /\ live' = IF landed THEN view["o"] \cup New(rows) ELSE live
  /\ log' = IF confirmed THEN SubSeq(log, sealed + 1, Len(log)) ELSE log
  /\ skip' = CASE confirmed -> 0 [] landed /\ ~confirmed -> sealed [] OTHER -> skip
  /\ flushing' = {} /\ fside' = None /\ sealed' = 0
  /\ faults' = IF confirmed THEN faults ELSE faults + 1
  /\ UNCHANGED <<mem, retiring, todo, rd, mode, reads>>

----------------------------------------------------------------------------
(* Merge, retention and reclaim.                                              *)

JoinAll(T) == [t \in Table |-> UNION {x[t] : x \in T}]

\* The sidecars of a merge's output that holds the rows R.
MergeSide(src, R) == Retain(JoinAll({part[p].tab : p \in src}), Refs(R))

Merge(src, rows) ==
  /\ fside = None
  /\ Writes(rows, [k \in DOMAIN rows |-> MergeSide(src, rows[k])])
  /\ stored' = stored \cup New(rows)
  /\ view' = [view EXCEPT !["o"] = (@ \ src) \cup New(rows)]
  /\ live' = (view["o"] \ src) \cup New(rows)
  /\ retiring' = retiring \cup src
  /\ UNCHANGED <<mem, flush, wal, todo, rd, count>>

DropExpired(p) ==
  /\ fside = None
  /\ view' = [view EXCEPT !["o"] = @ \ {p}]
  /\ live' = view["o"] \ {p}
  /\ retiring' = retiring \cup {p}
  /\ UNCHANGED <<mem, flush, part, stored, wal, todo, rd, count>>

\* A read pins its parts in its own engine; only the owner's engine deletes.
Pinned == IF rd = None THEN {} ELSE IF rd.at = "o" THEN rd.pins ELSE {}

\* A mutant of Reclaimable: a retired part is deleted while a read still holds it.
ReclaimableNow == retiring

Reclaimable == retiring \ Pinned

Reclaim(p) ==
  /\ p \in Reclaimable
  /\ stored' = stored \ {p}
  /\ retiring' = retiring \ {p}
  /\ UNCHANGED <<mem, flush, part, live, view, wal, todo, rd, count>>

----------------------------------------------------------------------------
(* Restart of the owner, and the replica's refresh.                           *)

RowsOf(fs) == UNION {f.rows : f \in Range(fs)}
SidesOf(fs) == {f.side : f \in {g \in Range(fs) : g.kind = "side"}}

\* A crash keeps a prefix of the log that holds what the index covers.
Crash(k) ==
  LET fs == SubSeq(log, skip + 1, k)
      sides == SidesOf(fs)
  IN  /\ faults < MaxFault
      /\ faults' = faults + 1
      /\ log' = SubSeq(log, 1, k)
      /\ head' = [head EXCEPT !["o"] = RowsOf(fs)]
      /\ acc' = [acc EXCEPT !["o"] = JoinAll(sides)]
      /\ absorbed' = [absorbed EXCEPT !["o"] = sides # {}]
      /\ stray' = [stray EXCEPT !["o"] = sides # {}]
      /\ flushing' = {} /\ fside' = None /\ sealed' = 0
      /\ view' = [view EXCEPT !["o"] = live]
      /\ stored' = live /\ retiring' = {}
      /\ rd' = IF rd # None THEN (IF rd.at = "r" THEN rd ELSE None) ELSE None
      /\ UNCHANGED <<part, live, skip, todo, mode, reads>>

RefreshReplica ==
  LET top == Max({0} \cup RowsIn(live))
      kept == {i \in head["r"] : i > top}
  IN  /\ view' = [view EXCEPT !["r"] = live]
      /\ head' = [head EXCEPT !["r"] = kept]
      /\ IF kept = head["r"] /\ ~absorbed["r"]
         THEN UNCHANGED <<acc, absorbed, stray>>
         ELSE /\ acc' = [acc EXCEPT !["r"] = Retain(@, Refs(kept))]
              /\ absorbed' = [absorbed EXCEPT !["r"] = FALSE]
              /\ stray' = [stray EXCEPT !["r"] = FALSE]
      /\ UNCHANGED <<flush, disk, wal, todo, rd, count>>

----------------------------------------------------------------------------
(* Reads: ReadSide's snapshot of the node that serves it, then each pinned    *)
(* part's tables, then Release.                                               *)

InWindow(R, w) == \/ w = <<0, 0>>
                  \/ Min(R) <= w[2] /\ Max(R) >= w[1]

Fetchable(n) == head[n] \cup (IF n = "o" THEN flushing ELSE {}) \cup RowsIn(view[n])

\* The accumulator and an in-flight flush's snapshot, newest first.
Above(n) == <<acc[n]>> \o (IF n = "o" /\ fside # None THEN <<fside>> ELSE <<>>)

ReadSide(n, w) ==
  LET ps == {p \in view[n] : InWindow(part[p].rows, w)}
  IN  /\ rd = None
      /\ n = "r" => mode = "clustered"
      /\ reads < MaxRead
      /\ reads' = reads + 1
      /\ rd' = [at |-> n, layers |-> Above(n), pins |-> ps, load |-> ps, gone |-> {},
                want |-> {i \in Fetchable(n) : w = <<0, 0>> \/ i \in w[1] .. w[2]}]
      /\ UNCHANGED <<mem, flush, disk, view, wal, todo, mode, faults>>

\* SymbolCache.Get over SidePart.Load: an absent sidecar reads as no entries.
\* A part never changes and its prefix is never reused, so a cached table is
\* the one a load would read.
Load(p) ==
  /\ rd # None
  /\ p \in rd.load
  /\ rd' = [rd EXCEPT !.load = @ \ {p},
                      !.gone = IF p \in stored THEN @ ELSE @ \cup {p},
                      !.layers = Append(@, IF p \in stored THEN part[p].tab ELSE NoTables)]
  /\ UNCHANGED <<mem, flush, disk, view, wal, todo, count>>

Release ==
  /\ rd # None
  /\ rd' = None
  /\ UNCHANGED <<mem, flush, disk, view, wal, todo, count>>

----------------------------------------------------------------------------

Next ==
  \/ \E b \in Batch : b \subseteq todo /\ \E ok \in SUBSET b :
       \/ AppendUnlogged(b, ok)
       \/ AppendLogged(b, ok)
       \/ ok # {} /\ \E k \in 0 .. 1 : AppendFails(b, ok, k)
       \/ \E cutoff, reached \in BOOLEAN : ApplyPrimary(b, ok, cutoff, reached)
  \/ FlushRefused
  \/ FlushDetach
  \/ FlushAbort
  \/ fside # None /\ \E rows \in Splits(flushing), landed, confirmed \in BOOLEAN :
       FlushPublish(rows, landed, confirmed)
  \/ \E src \in SUBSET view["o"] : Cardinality(src) > 1 /\
       \E rows \in Splits(RowsIn(src)) : Merge(src, rows)
  \/ \E p \in view["o"] : DropExpired(p)
  \/ \E p \in retiring : Reclaim(p)
  \/ \E k \in skip .. Len(log) : Crash(k)
  \/ RefreshReplica
  \/ \E n \in Node, w \in Window : ReadSide(n, w)
  \/ rd # None /\ \E p \in rd.load : Load(p)
  \/ Release

Spec == Init /\ [][Next]_vars

----------------------------------------------------------------------------

\* A read of the symbols over a window resolves every row that a fetch over the same window would
\* have returned at that node when it was taken, to exactly the frames its client sent: whatever
\* flush, abort, merge, retention, reclaim, refresh or restart of the owner ran between its
\* snapshot and its last load.  The exception: a replica's pins do not hold the owner's deletes, so
\* the rows of a part deleted under a read at a replica may resolve to nothing, its sidecars
\* reading as empty; the read's other rows resolve, and no part is deleted under one at the owner.
ReadResolves ==
  rd # None /\ rd.load = {} =>
    /\ rd.at = "o" => rd.gone = {}
    /\ \A i \in rd.want \ RowsIn(rd.gone) :
         Resolve(rd.layers, Ref(i)) = Sent(Source[i].dict, Source[i].stack)

\* What resolve.go's lookup relies on: the layer that holds a stack holds all
\* it reaches.  And the rows of the head, of the flush and of each part resolve
\* from the accumulator, the snapshot and the part's own sidecars alone, so a
\* part may be taken over, merged or expired without its neighbours.
SelfContained ==
  /\ \A n \in Node : Closed(acc[n]) /\ Refs(head[n]) \subseteq acc[n].stacks
  /\ fside # None => Closed(fside) /\ Refs(flushing) \subseteq fside.stacks
  /\ \A p \in DOMAIN part :
       Closed(part[p].tab) /\ Refs(part[p].rows) \subseteq part[p].tab.stacks

\* A flush writes no symbols of rejected, failed or trimmed writes: all of the
\* snapshot it writes beside its rows is reachable from those rows.
NoStrays ==
  fside # None => fside = Retain(fside, Refs(flushing))
=============================================================================
