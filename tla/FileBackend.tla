---------------------------- MODULE FileBackend ----------------------------
(* backend/file: objects as files of a directory tree.  A write goes to a      *)
(* temporary file that is synced and renamed over the key; publish then syncs  *)
(* the directory and every ancestor whose own entry is not known to be on the  *)
(* disk, and dirCache remembers the ones that are.  A delete prunes the        *)
(* directories it leaves empty.  A directory that is removed and made again is *)
(* another directory: its generation tells the two apart.  Power may fail at   *)
(* any step; each entry is then as last synced or as it was, one by one.       *)
EXTENDS Integers

CONSTANTS Dir, Root,  \* the directories below the root, and the root
          Parent,     \* the directory that names a directory
          Path,       \* the directories on the way to a directory, itself included
          Key, Home,  \* the keys, and the directory of each
          Proc,       \* the callers
          None, Unknown,
          MaxOp,      \* the operations started, which are also the values written
          MaxGen,     \* how often one directory is made
          MaxTrouble  \* failed calls and power cuts together

VARIABLES node,    \* directory -> its generation, 0 when it is not there
          made,    \* directory -> the generations it has had
          file,    \* key -> what it holds now
          temp,    \* caller -> the directory of its temporary file
          litter,  \* directories where a temporary file was left behind
          sub,     \* directory, parent's generation -> the generation named there on the disk
          obj,     \* key, directory's generation -> the object named there on the disk
          known, epoch,
          proc, lock,
          said,    \* key -> what the last operation that returned promised
          owed,    \* key -> what a deferred write left for SyncPrefix
          ops, troubles

vars == <<node, made, file, temp, litter, sub, obj, known, epoch, proc, lock, said, owed, ops, troubles>>

tree == <<node, made, file, temp, litter>>
platter == <<sub, obj>>
cache == <<known, epoch>>
told == <<said, owed>>
bounds == <<ops, troubles>>

Gen == 0 .. MaxGen
Val == (1 .. MaxOp) \cup {None}
Writes == {"write", "put", "cas", "defer"}
Deletes == {"delete", "drop"}

Idle == [pc |-> "idle", op |-> "write", key |-> None, dir |-> None, val |-> None, want |-> None,
         again |-> FALSE, sure |-> FALSE, snap |-> 0, at |-> None, synced |-> {}, keys |-> {}]

Busy(p) == proc[p].pc # "idle"
Synchronous(p) == proc[p].op \notin {"defer", "drop"}
GenOf(d) == IF d = Root THEN 1 ELSE node[d]
To(p, pc) == proc' = [proc EXCEPT ![p].pc = pc]
At(p, pc, d) == proc' = [proc EXCEPT ![p].pc = pc, ![p].at = d]

\* A directory holds nothing: no key, no directory, no temporary file.
Empty(d) ==
    /\ \A k \in Key : Home[k] = d => file[k] = None
    /\ \A e \in Dir : Parent[e] = d => node[e] = 0
    /\ \A p \in Proc : temp[p] # d
    /\ d \notin litter

\* SyncDir: the entries of the directory that is now at d.
SyncDir(d) ==
    /\ obj' = [k \in Key |-> IF Home[k] = d THEN [obj[k] EXCEPT ![GenOf(d)] = file[k]] ELSE obj[k]]
    /\ sub' = [e \in Dir |-> IF Parent[e] = d THEN [sub[e] EXCEPT ![GenOf(d)] = node[e]] ELSE sub[e]]

Unlocked(p) == [k \in Key |-> IF lock[k] = p THEN None ELSE lock[k]]
Closed(p) == [temp EXCEPT ![p] = None]

\* The call returns; told is what the caller may now rely on.
Return(p) == proc' = [proc EXCEPT ![p] = Idle] /\ lock' = Unlocked(p)

Promise(p) == said' = [k \in Key |-> IF k \in proc[p].keys THEN proc[p].val ELSE said[k]]

-----------------------------------------------------------------------------
(* Starting                                                                    *)

Under(q, k) == Busy(q) /\ (proc[q].key = k \/ (proc[q].op = "sync" /\ proc[q].dir = Home[k]))

\* A delete overlaps neither another delete nor an operation on its own key: removeEmptyDir forgets
\* a directory before it removes it, and what publishes there in between remembers it again.
Free(k, op) ==
    \A q \in Proc : /\ op \in Deletes => ~Under(q, k) /\ (Busy(q) => proc[q].op \notin Deletes)
                    /\ proc[q].op \in Deletes => ~Under(q, k)

Forgotten(k) == said' = [said EXCEPT ![k] = Unknown] /\ owed' = [owed EXCEPT ![k] = Unknown]

\* Operations on one key may overlap; none of those that do promises anything of it.
Started(p, k, rec) ==
    proc' = [q \in Proc |-> IF q = p THEN [rec EXCEPT !.keys = { k } \ { proc[r].key : r \in Proc }]
                            ELSE [proc[q] EXCEPT !.keys = @ \ { k }]]

\* Write, PutIfAbsent, CompareAndSwap, WriteDeferred, Delete and DeleteDeferred; the swap's caller
\* has read some version before.
Start(p, op, k, want) ==
    /\ ~Busy(p) /\ ops < MaxOp /\ Free(k, op)
    /\ op # "cas" => want = None
    /\ ops' = ops + 1
    /\ Forgotten(k)
    /\ Started(p, k,
           [Idle EXCEPT !.pc = IF op = "cas" THEN "lock" ELSE IF op \in Writes THEN "mkdir" ELSE "remove",
                        !.op = op, !.key = k, !.dir = Home[k], !.want = want, !.sure = said[k] # Unknown,
                        !.val = IF op \in Writes THEN ops + 1 ELSE None])
    /\ UNCHANGED <<tree, platter, cache, lock, troubles>>

\* SyncPrefix, by the writer of a part once its objects are there.
StartSync(p, d) ==
    /\ ~Busy(p) /\ ops < MaxOp
    /\ \E k \in Key : Home[k] = d /\ owed[k] # Unknown
    /\ \A q \in Proc : Busy(q) /\ proc[q].op \in Deletes => proc[q].dir # d
    /\ ops' = ops + 1
    /\ proc' = [proc EXCEPT ![p] = [Idle EXCEPT !.pc = "snap", !.op = "sync", !.dir = d,
                                               !.keys = { k \in Key : Home[k] = d /\ owed[k] # Unknown }]]
    /\ UNCHANGED <<tree, platter, cache, lock, told, troubles>>

-----------------------------------------------------------------------------
(* Writing                                                                     *)

\* CompareAndSwap under the key's lock: a version that moved is answered with no.
Compare(p) ==
    /\ proc[p].pc = "lock" /\ lock[proc[p].key] = None
    /\ IF file[proc[p].key] = proc[p].want
       THEN To(p, "mkdir") /\ lock' = [lock EXCEPT ![proc[p].key] = p]
       ELSE Return(p)
    /\ UNCHANGED <<tree, platter, cache, told, bounds>>

Missing(d) == { e \in Path[d] : node[e] = 0 }

\* createTemp: the directories first, then the file, once more when a prune came between.
MkdirAll(p) ==
    LET new == Missing(proc[p].dir)
    IN /\ proc[p].pc = "mkdir"
       /\ \A e \in new : made[e] < MaxGen
       /\ node' = [e \in Dir |-> IF e \in new THEN made[e] + 1 ELSE node[e]]
       /\ made' = [e \in Dir |-> IF e \in new THEN made[e] + 1 ELSE made[e]]
       /\ To(p, "temp")
       /\ UNCHANGED <<file, temp, litter, platter, cache, lock, told, bounds>>

CreateTemp(p) ==
    /\ proc[p].pc = "temp"
    /\ \/ node[proc[p].dir] # 0 /\ temp' = [temp EXCEPT ![p] = proc[p].dir] /\ To(p, "rename") /\ UNCHANGED lock
       \/ /\ node[proc[p].dir] = 0 /\ ~proc[p].again
          /\ proc' = [proc EXCEPT ![p].pc = "mkdir", ![p].again = TRUE]
          /\ UNCHANGED <<temp, lock>>
       \/ node[proc[p].dir] = 0 /\ proc[p].again /\ Return(p) /\ UNCHANGED temp
    /\ UNCHANGED <<node, made, file, litter, platter, cache, told, bounds>>

Exists(p) == proc[p].op = "put" /\ file[proc[p].key] # None

\* A name that only waits for SyncPrefix.
Owe(p) ==
    /\ owed' = [k \in Key |-> IF k \in proc[p].keys THEN proc[p].val ELSE owed[k]]
    /\ UNCHANGED said

\* The temporary file, synced, takes the key's name: rename replaces, link refuses a key that is there.
Rename(p) ==
    /\ proc[p].pc = "rename"
    /\ \/ Exists(p) /\ Return(p) /\ UNCHANGED <<file, told>>
       \/ ~Exists(p) /\ file' = [file EXCEPT ![proc[p].key] = proc[p].val]
          /\ \/ Synchronous(p) /\ To(p, "snap") /\ UNCHANGED <<lock, told>>
             \/ ~Synchronous(p) /\ Return(p) /\ Owe(p)
    /\ temp' = Closed(p)
    /\ UNCHANGED <<node, made, litter, platter, cache, bounds>>

\* A write, sync, rename or directory sync that fails ends the call with an error.
Fail(p) ==
    /\ troubles < MaxTrouble
    /\ proc[p].pc \in {"mkdir", "temp", "rename", "sync", "up", "rmsync"}
    /\ troubles' = troubles + 1
    /\ temp' = Closed(p)
    /\ Return(p)
    /\ UNCHANGED <<node, made, file, litter, platter, cache, told, ops>>

-----------------------------------------------------------------------------
(* Publishing                                                                  *)

Snapshot(p) ==
    /\ proc[p].pc = "snap"
    /\ proc' = [proc EXCEPT ![p].pc = "sync", ![p].snap = epoch]
    /\ UNCHANGED <<tree, platter, cache, lock, told, bounds>>

\* The directory itself; SyncPrefix counts it among the ones it synced.
SyncHome(p) ==
    /\ proc[p].pc = "sync"
    /\ \/ node[proc[p].dir] = 0 /\ Return(p) /\ UNCHANGED platter
       \/ /\ node[proc[p].dir] # 0
          /\ SyncDir(proc[p].dir)
          /\ proc' = [proc EXCEPT ![p].pc = "check", ![p].at = proc[p].dir,
                                  ![p].synced = IF proc[p].op = "sync" THEN {proc[p].dir} ELSE {}]
          /\ UNCHANGED lock
    /\ UNCHANGED <<tree, cache, told, bounds>>

Durable(d) == d = Root \/ d \in known

CheckKnown(p) ==
    /\ proc[p].pc = "check"
    /\ To(p, IF Durable(proc[p].at) THEN "mark" ELSE "up")
    /\ UNCHANGED <<tree, platter, cache, lock, told, bounds>>

\* A mutant of SyncUp: the walk syncs the directory it stands on, not the one that names it.
SyncUpHere(p) ==
    /\ proc[p].pc = "up"
    /\ SyncDir(proc[p].at)
    /\ proc' = [proc EXCEPT ![p].pc = "check", ![p].at = Parent[proc[p].at],
                            ![p].synced = proc[p].synced \cup {proc[p].at}]
    /\ UNCHANGED <<tree, cache, lock, told, bounds>>

\* The entry of an ancestor not known durable.
SyncUp(p) ==
    /\ proc[p].pc = "up"
    /\ \/ GenOf(Parent[proc[p].at]) = 0 /\ Return(p) /\ UNCHANGED platter
       \/ /\ GenOf(Parent[proc[p].at]) # 0
          /\ SyncDir(Parent[proc[p].at])
          /\ proc' = [proc EXCEPT ![p].pc = "check", ![p].at = Parent[proc[p].at],
                                  ![p].synced = proc[p].synced \cup {proc[p].at}]
          /\ UNCHANGED lock
    /\ UNCHANGED <<tree, cache, told, bounds>>

\* A mutant of Mark: directories are remembered whatever was removed meanwhile.
MarkAlways(p) ==
    /\ proc[p].pc = "mark"
    /\ known' = known \cup proc[p].synced
    /\ IF proc[p].op = "sync"
       THEN said' = [k \in Key |-> IF k \in proc[p].keys THEN owed[k] ELSE said[k]]
       ELSE Promise(p)
    /\ Return(p)
    /\ UNCHANGED <<tree, platter, epoch, owed, bounds>>

\* dirCache.mark, and the call returns: what was written, or what this prefix owed, is promised.
Mark(p) ==
    /\ proc[p].pc = "mark"
    /\ known' = IF epoch = proc[p].snap THEN known \cup proc[p].synced ELSE known
    /\ IF proc[p].op = "sync"
       THEN said' = [k \in Key |-> IF k \in proc[p].keys THEN owed[k] ELSE said[k]]
       ELSE Promise(p)
    /\ Return(p)
    /\ UNCHANGED <<tree, platter, epoch, owed, bounds>>

-----------------------------------------------------------------------------
(* Deleting                                                                    *)

Remove(p) ==
    /\ proc[p].pc = "remove"
    /\ \/ file[proc[p].key] = None /\ Return(p) /\ UNCHANGED file
       \/ /\ file[proc[p].key] # None
          /\ file' = [file EXCEPT ![proc[p].key] = None]
          /\ At(p, IF Synchronous(p) THEN "rmsync" ELSE "look", proc[p].dir)
          /\ UNCHANGED lock
    /\ UNCHANGED <<node, made, temp, litter, platter, cache, told, bounds>>

SyncRemoved(p) ==
    /\ proc[p].pc = "rmsync"
    /\ \/ node[proc[p].dir] = 0 /\ Return(p) /\ UNCHANGED platter
       \/ node[proc[p].dir] # 0 /\ SyncDir(proc[p].dir) /\ To(p, "look") /\ UNCHANGED lock
    /\ UNCHANGED <<tree, cache, told, bounds>>

\* A delete of what was promised is promised too; one of a name that only waited for its sync may
\* uncover an older object, which a deferred delete left on the disk.
Removed(p) ==
    /\ Return(p)
    /\ IF Synchronous(p) /\ proc[p].sure THEN Promise(p) ELSE UNCHANGED said
    /\ UNCHANGED owed

\* pruneParents: a directory with nothing in it is taken out of the cache and then removed.
Look(p) ==
    /\ proc[p].pc = "look"
    /\ IF proc[p].at # Root /\ node[proc[p].at] # 0 /\ Empty(proc[p].at)
       THEN To(p, "forget") /\ UNCHANGED <<lock, told>>
       ELSE Removed(p)
    /\ UNCHANGED <<tree, platter, cache, bounds>>

Forget(p) ==
    /\ proc[p].pc = "forget"
    /\ epoch' = epoch + 1
    /\ known' = known \ {proc[p].at}
    /\ To(p, "rmdir")
    /\ UNCHANGED <<tree, platter, lock, told, bounds>>

RemoveDir(p) ==
    /\ proc[p].pc = "rmdir"
    /\ IF node[proc[p].at] # 0 /\ Empty(proc[p].at)
       THEN /\ node' = [node EXCEPT ![proc[p].at] = 0]
            /\ IF Synchronous(p) THEN To(p, "rmup") ELSE At(p, "look", Parent[proc[p].at])
            /\ UNCHANGED <<lock, told>>
       ELSE Removed(p) /\ UNCHANGED node
    /\ UNCHANGED <<made, file, temp, litter, platter, cache, bounds>>

\* The parent's sync; a prune that cannot sync simply stops, and the delete is reported as done.
SyncPruned(p) ==
    /\ proc[p].pc = "rmup"
    /\ \/ /\ GenOf(Parent[proc[p].at]) # 0
          /\ SyncDir(Parent[proc[p].at])
          /\ At(p, "look", Parent[proc[p].at])
          /\ UNCHANGED <<lock, told, troubles>>
       \/ /\ troubles' = IF GenOf(Parent[proc[p].at]) = 0 THEN troubles ELSE troubles + 1
          /\ troubles' <= MaxTrouble
          /\ Removed(p)
          /\ UNCHANGED platter
    /\ UNCHANGED <<tree, cache, ops>>

-----------------------------------------------------------------------------
(* A power cut                                                                 *)

\* What the directory that comes back as generation g of d's parent may name.
DirsLeft(d, g) == IF g = 0 THEN {0} ELSE {sub[d][g]} \cup (IF GenOf(Parent[d]) = g THEN {node[d]} ELSE {})

KeysLeft(k, g) == IF g = 0 THEN {None} ELSE {obj[k][g]} \cup (IF node[Home[k]] = g THEN {file[k]} ELSE {})

Above(n, d) == IF Parent[d] = Root THEN 1 ELSE n[Parent[d]]

\* What is there is then on the disk, and every process starts anew.
PowerCut(n, f, left) ==
    /\ node' = n /\ file' = f /\ litter' = left
    /\ sub' = [d \in Dir |-> [sub[d] EXCEPT ![Above(n, d)] = n[d]]]
    /\ obj' = [k \in Key |-> [obj[k] EXCEPT ![n[Home[k]]] = f[k]]]
    /\ temp' = [p \in Proc |-> None]
    /\ known' = {} /\ epoch' = 0
    /\ proc' = [p \in Proc |-> Idle] /\ lock' = [k \in Key |-> None]
    /\ owed' = [k \in Key |-> Unknown]
    /\ troubles' = troubles + 1
    /\ UNCHANGED <<made, said, ops>>

Littered(n) == { d \in Dir : n[d] # 0 /\ n[d] = node[d] /\ (d \in litter \/ \E p \in Proc : temp[p] = d) }

Crash ==
    /\ troubles < MaxTrouble
    /\ \E n \in [Dir -> Gen] :
          /\ \A d \in Dir : n[d] \in DirsLeft(d, Above(n, d))
          /\ \E f \in [Key -> Val], left \in SUBSET Littered(n) :
                (\A k \in Key : f[k] \in KeysLeft(k, n[Home[k]])) /\ PowerCut(n, f, left)

Init ==
    /\ node = [d \in Dir |-> 0] /\ made = [d \in Dir |-> 0]
    /\ file = [k \in Key |-> None] /\ temp = [p \in Proc |-> None] /\ litter = {}
    /\ sub = [d \in Dir |-> [g \in Gen |-> 0]] /\ obj = [k \in Key |-> [g \in Gen |-> None]]
    /\ known = {} /\ epoch = 0
    /\ proc = [p \in Proc |-> Idle] /\ lock = [k \in Key |-> None]
    /\ said = [k \in Key |-> Unknown] /\ owed = [k \in Key |-> Unknown]
    /\ ops = 0 /\ troubles = 0

Step(p) ==
    \/ Compare(p) \/ MkdirAll(p) \/ CreateTemp(p) \/ Rename(p) \/ Fail(p)
    \/ Snapshot(p) \/ SyncHome(p) \/ CheckKnown(p) \/ SyncUp(p) \/ Mark(p)
    \/ Remove(p) \/ SyncRemoved(p) \/ Look(p) \/ Forget(p) \/ RemoveDir(p) \/ SyncPruned(p)

Next ==
    \/ \E p \in Proc : Step(p)
    \/ \E p \in Proc, op \in Writes \cup Deletes, k \in Key, want \in {None} \cup 1 .. ops : Start(p, op, k, want)
    \/ \E p \in Proc, d \in Dir : StartSync(p, d)
    \/ Crash

Spec == Init /\ [][Next]_vars

-----------------------------------------------------------------------------
\* What an operation reported as stored or removed stays so until the next operation on the key,
\* whenever the power fails and whatever writes, a delete and its prune are under way meanwhile
\* (Write, PutIfAbsent, CompareAndSwap, Delete, SyncPrefix).  No delete overlaps another or an
\* operation on its own key, and of writes to one key that overlap nothing is claimed.
Stored == \A k \in Key : said[k] # Unknown => file[k] = said[k]

\* A directory in the cache is on the disk, and so is every directory above it (dirCache), as long
\* as no delete overlaps another, or an operation on its own key.
KnownDurable ==
    \A d \in known : \A e \in Path[d] : node[e] # 0 /\ sub[e][GenOf(Parent[e])] = node[e]
=============================================================================
