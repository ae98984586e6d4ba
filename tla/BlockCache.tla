----------------------------- MODULE BlockCache -----------------------------
(***************************************************************************)
(* engine.blockCache: the decoded column blocks that fetches share, in     *)
(* shards with a mutex each, under one byte budget, and the free list the  *)
(* buffers of evicted blocks go back to.  A buffer has an identity; the    *)
(* entry that holds it goes by the same one.  What interleaves is the      *)
(* insertion of one fetch, which gives its shard up while it reserves      *)
(* bytes, with the evictions, insertions and reads of the others.          *)
(***************************************************************************)
EXTENDS Naturals, Sequences, SequencesExt, FiniteSetsExt

CONSTANTS
    Reader,     \* goroutines of fetches and flushes
    Part,       \* part prefixes
    Key,        \* block keys, with
    PartOf,     \*   blockKey.prefix,
    ShardOf,    \*   the shard the hash puts it in,
    Bytes,      \*   blockEntry.bytes,
    Marks,      \*   and the keys of granule marks, which hold no pooled buffer
    Shards,     \* how many shards
    MaxBytes,   \* blockCache.maxBytes
    MarksShare, \* maxBytes / marksCacheFraction
    FreeCap,    \* bufFreeList's bound
    Buffer,     \* buffers, and with them entries
    Nil

VARIABLES
    ll,         \* blockCacheShard.ll and .marks, the most recently used first
    entry,      \* blockEntry, or Nil
    content,    \* the block last decoded into a buffer
    free,       \* bufFreeList.free
    bytes,      \* blockCache.bytes: linked entries and reservations
    marksBytes, \* blockCache.marksBytes
    trimmer,    \* the reader that has trimMu; trimming is true while one has
    trimNext,   \* the shard to trim next
    gone,       \* the parts reclaimed
    pc, want, at, left  \* per reader: the block it wants, its entry, shards still to scan

vars == <<ll, entry, content, free, bytes, marksBytes, trimmer, trimNext, gone, pc, want, at, left>>

cache == <<ll, entry, content, free, bytes, marksBytes>>
trim == <<trimmer, trimNext>>

Init ==
    /\ ll = [s \in 1 .. Shards |-> <<>>] /\ entry = [b \in Buffer |-> Nil]
    /\ content = [b \in Buffer |-> Nil] /\ free = {}
    /\ bytes = 0 /\ marksBytes = 0 /\ trimmer = Nil /\ trimNext = 1 /\ gone = {}
    /\ pc = [r \in Reader |-> "idle"] /\ want = [r \in Reader |-> Nil]
    /\ at = [r \in Reader |-> Nil] /\ left = [r \in Reader |-> 0]

Linked == UNION {Range(ll[s]) : s \in 1 .. Shards}

\* blockCacheShard.lookup: the linked entry of key k, if any.
Found(k) == {b \in Range(ll[ShardOf[k]]) : entry[b].key = k}

ToFront(q, b) == <<b>> \o SelectSeq(q, LAMBDA x : x # b)

\* The buffer the allocator hands out: one that no entry or free list has.
Fresh == {Min({b \in Buffer : entry[b] = Nil} \ free)}

Marked(k) == IF k \in Marks THEN Bytes[k] ELSE 0

\* recycle, bufFreeList.put: the free list once the buffer of b is offered to
\* it; marks have none.
Recycled(b) ==
    IF entry[b].key \in Marks \/ Cardinality(free) >= FreeCap THEN free ELSE free \cup {b}

\* What was decoded into a buffer that no entry has any more is forgotten.
Decoded == content' = [b \in Buffer |-> IF entry'[b] = Nil THEN Nil ELSE content[b]]

Reset(r) ==
    /\ pc' = [pc EXCEPT ![r] = "idle"] /\ want' = [want EXCEPT ![r] = Nil]
    /\ at' = [at EXCEPT ![r] = Nil] /\ UNCHANGED left

To(r, where) == pc' = [pc EXCEPT ![r] = where] /\ UNCHANGED <<want, at, left>>

Reads(r, b) ==
    /\ pc' = [pc EXCEPT ![r] = "reading"] /\ at' = [at EXCEPT ![r] = b]
    /\ UNCHANGED <<want, left>>

\* get: a hit is pinned.
Hit(r, k) ==
    /\ pc[r] = "idle" /\ PartOf[k] \notin gone
    /\ \E b \in Found(k) :
        /\ ll' = [ll EXCEPT ![ShardOf[k]] = ToFront(@, b)]
        /\ entry' = [entry EXCEPT ![b].refs = @ + 1]
        /\ at' = [at EXCEPT ![r] = b]
    /\ pc' = [pc EXCEPT ![r] = "reading"] /\ want' = [want EXCEPT ![r] = k]
    /\ UNCHANGED <<content, free, bytes, marksBytes, trim, gone, left>>

\* A miss draws a buffer, decodes the block into it and makes an entry of it;
\* which of the pooled buffers has room is left open.  Marks are not read
\* through the cache: cacheWrittenMarks puts them in when their part is written,
\* unless they outweigh their share.
Miss(r, k, b) ==
    /\ pc[r] = "idle" /\ PartOf[k] \notin gone
    /\ IF k \in Marks THEN Bytes[k] <= MarksShare /\ b \in Fresh
                      ELSE Found(k) = {} /\ b \in Fresh \cup free
    /\ free' = free \ {b}
    /\ content' = [content EXCEPT ![b] = k]
    /\ entry' = [entry EXCEPT ![b] = [key |-> k, refs |-> 0, evicted |-> FALSE]]
    /\ pc' = [pc EXCEPT ![r] = "insert"] /\ want' = [want EXCEPT ![r] = k]
    /\ at' = [at EXCEPT ![r] = b]
    /\ UNCHANGED <<ll, bytes, marksBytes, trim, gone, left>>

\* A decode that fails leaves its buffer to the collector.
DecodeFails(r) ==
    /\ pc[r] = "insert" /\ want[r] \notin Marks
    /\ entry' = [entry EXCEPT ![at[r]] = Nil]
    /\ Reset(r)
    /\ Decoded
    /\ UNCHANGED <<ll, free, bytes, marksBytes, trim, gone>>

\* redundantInsert: the entry c that is linked already is pinned, the
\* reader's own goes to the pool.
Redundant(r, c) ==
    /\ ll' = [ll EXCEPT ![ShardOf[want[r]]] = ToFront(@, c)]
    /\ entry' = [entry EXCEPT ![c].refs = @ + 1, ![at[r]] = Nil]
    /\ free' = Recycled(at[r])
    /\ Reads(r, c)

\* The reader's own entry stays out of the cache, and is its own to release.
Private(r) == entry' = [entry EXCEPT ![at[r]] = [@ EXCEPT !.refs = 1, !.evicted = TRUE]]

\* insert, its first critical section.
Insert(r) ==
    /\ pc[r] = "insert"
    /\ \/ \E c \in Found(want[r]) : Redundant(r, c)
       \/ /\ Found(want[r]) = {} /\ Bytes[want[r]] > MaxBytes
          /\ Private(r) /\ To(r, "reading") /\ UNCHANGED <<ll, free>>
       \/ /\ Found(want[r]) = {} /\ Bytes[want[r]] <= MaxBytes
          /\ entry' = [entry EXCEPT ![at[r]].refs = 1]
          /\ To(r, IF trimmer = Nil THEN "try" ELSE "lock") /\ UNCHANGED <<ll, free>>
    /\ Decoded
    /\ UNCHANGED <<bytes, marksBytes, trim, gone>>

Fits(k) == bytes + Bytes[k] <= MaxBytes

\* tryReserveAvailable, once no trimmer was seen.
Try(r) ==
    /\ pc[r] = "try"
    /\ IF Fits(want[r]) THEN bytes' = bytes + Bytes[want[r]] /\ To(r, "link")
                        ELSE To(r, "lock") /\ UNCHANGED bytes
    /\ UNCHANGED <<ll, entry, content, free, marksBytes, trim, gone>>

\* reserve takes trimMu.
Lock(r) ==
    /\ pc[r] = "lock" /\ trimmer = Nil
    /\ trimmer' = r /\ To(r, "trim")
    /\ UNCHANGED <<cache, trimNext, gone>>

\* reserve's loop, under trimMu.
Trim(r) ==
    /\ pc[r] = "trim"
    /\ IF Fits(want[r])
       THEN /\ bytes' = bytes + Bytes[want[r]] /\ trimmer' = Nil /\ To(r, "link")
       ELSE /\ pc' = [pc EXCEPT ![r] = "scan"] /\ left' = [left EXCEPT ![r] = Shards]
            /\ UNCHANGED <<bytes, trimmer, want, at>>
    /\ UNCHANGED <<ll, entry, content, free, marksBytes, trimNext, gone>>

\* The entries of shard s that are marks, or are not, the oldest last.
Order(s, marks) == SelectSeq(ll[s], LAMBDA b : (entry[b].key \in Marks) = marks)

\* evictOldestShardEntry's choice in shard s: the oldest marks when marks have
\* more than their share or need is more than the rest, else the oldest block.
Victim(s, need) ==
    LET marks == Order(s, TRUE)
        blocks == Order(s, FALSE)
        first == marksBytes > MarksShare \/ need > MaxBytes - MarksShare
    IN  IF first /\ marks # <<>> THEN {Last(marks)} ELSE IF blocks # <<>> THEN {Last(blocks)} ELSE {}

\* removeElem: a pinned entry keeps its buffer until its last release.
removeElem(b) ==
    /\ ll' = [s \in 1 .. Shards |-> SelectSeq(ll[s], LAMBDA x : x # b)]
    /\ entry' = [entry EXCEPT ![b] = IF entry[b].refs = 0 THEN Nil ELSE [@ EXCEPT !.evicted = TRUE]]
    /\ free' = IF entry[b].refs = 0 THEN Recycled(b) ELSE free
    /\ bytes' = bytes - Bytes[entry[b].key] /\ marksBytes' = marksBytes - Marked(entry[b].key)

Back(r, where) ==
    /\ pc' = [pc EXCEPT ![r] = where] /\ left' = [left EXCEPT ![r] = 0]
    /\ UNCHANGED <<want, at>>

\* evictOldestShardEntry, one shard: an eviction goes back to reserve's loop, a
\* round that finds nothing gives the reservation up.
Scan(r) ==
    /\ pc[r] = "scan"
    /\ trimNext' = (trimNext % Shards) + 1
    /\ LET v == Victim(trimNext, Bytes[want[r]])
       IN  \/ /\ v # {} /\ (\E b \in v : removeElem(b))
              /\ Back(r, "trim") /\ UNCHANGED trimmer
           \/ /\ v = {} /\ left[r] > 1
              /\ left' = [left EXCEPT ![r] = @ - 1]
              /\ UNCHANGED <<ll, entry, free, bytes, marksBytes, trimmer, pc, want, at>>
           \/ /\ v = {} /\ left[r] = 1
              /\ Private(r) /\ trimmer' = Nil /\ Back(r, "reading")
              /\ UNCHANGED <<ll, free, bytes, marksBytes>>
    /\ Decoded
    /\ UNCHANGED <<gone>>

\* insert, its second critical section.
Link(r) ==
    /\ pc[r] = "link"
    /\ \/ /\ \E c \in Found(want[r]) : Redundant(r, c)
          /\ bytes' = bytes - Bytes[want[r]] /\ UNCHANGED marksBytes
       \/ /\ Found(want[r]) = {}
          /\ ll' = [ll EXCEPT ![ShardOf[want[r]]] = ToFront(@, at[r])]
          /\ marksBytes' = marksBytes + Marked(want[r])
          /\ To(r, "reading") /\ UNCHANGED <<entry, free, bytes>>
    /\ Decoded
    /\ UNCHANGED <<trim, gone>>

\* release: the last one of an evicted entry recycles its buffer.
Release(r) ==
    /\ pc[r] = "reading"
    /\ LET e == entry[at[r]]
           last == e.refs = 1 /\ e.evicted
       IN  /\ entry' = [entry EXCEPT ![at[r]] = IF last THEN Nil ELSE [@ EXCEPT !.refs = @ - 1]]
           /\ free' = IF last THEN Recycled(at[r]) ELSE free
    /\ Reset(r)
    /\ Decoded
    /\ UNCHANGED <<ll, bytes, marksBytes, trim, gone>>

\* reclaimRetired: once no fetch holds the part, evictPrefix drops its blocks.
Reclaim(p) ==
    /\ p \notin gone
    /\ \A r \in Reader : pc[r] # "idle" => PartOf[want[r]] # p
    /\ gone' = gone \cup {p}
    /\ LET out == {b \in Linked : PartOf[entry[b].key] = p}
           room == FreeCap - Cardinality(free)
           poolable == {b \in out : entry[b].key \notin Marks}
       IN  /\ ll' = [s \in 1 .. Shards |-> SelectSeq(ll[s], LAMBDA b : b \notin out)]
           /\ entry' = [b \in Buffer |-> IF b \in out THEN Nil ELSE entry[b]]
           /\ \E kept \in SUBSET poolable :
                /\ Cardinality(kept) = (IF Cardinality(poolable) < room THEN Cardinality(poolable) ELSE room)
                /\ free' = free \cup kept
           /\ bytes' = bytes - MapThenSumSet(LAMBDA b : Bytes[entry[b].key], out)
           /\ marksBytes' = marksBytes - MapThenSumSet(LAMBDA b : Marked(entry[b].key), out)
    /\ Decoded
    /\ UNCHANGED <<trim, pc, want, at, left>>

Next ==
    \/ \E r \in Reader :
        \/ \E k \in Key : Hit(r, k) \/ \E b \in Buffer : Miss(r, k, b)
        \/ DecodeFails(r) \/ Insert(r) \/ Try(r) \/ Lock(r) \/ Trim(r) \/ Scan(r) \/ Link(r) \/ Release(r)
    \/ \E p \in Part : Reclaim(p)

Spec == Init /\ [][Next]_vars

\* No block changes under a fetch that reads it: a buffer goes to the free list,
\* and from there to the next decode, only when its entry is both evicted and
\* unpinned, whichever of two decodes of a block won (release, removeElem,
\* redundantInsert).  And what a hit finds is the block of its key.
ViewsIntact ==
    /\ \A r \in Reader : pc[r] = "reading" => content[at[r]] = want[r]
    /\ \A b \in Linked : content[b] = entry[b].key

\* The byte count is that of the linked entries and the reservations of
\* insertions under way, and never above the budget; a key is linked once; and
\* nothing of a reclaimed part is left (reserve, insert, removeElem,
\* evictPrefix).
WithinBudget ==
    /\ bytes <= MaxBytes
    /\ bytes = MapThenSumSet(LAMBDA b : Bytes[entry[b].key], Linked)
               + MapThenSumSet(LAMBDA r : Bytes[want[r]], {r \in Reader : pc[r] = "link"})
    /\ marksBytes = MapThenSumSet(LAMBDA b : Marked(entry[b].key), Linked)
    /\ \A k \in Key : Cardinality(Found(k)) <= 1
    /\ \A b \in Linked : PartOf[entry[b].key] \notin gone

=============================================================================
