-------------------------------- MODULE LSM --------------------------------
(***************************************************************************)
(* The LSM metadata of dm-imrsim (imr_lsm_meta in imrsim_kmod/dm-imrsim.c):*)
(* the unsorted list that takes every write and discard, the sorted list   *)
(* of each level, the segments with their block tables, the index of the   *)
(* newest record of each key, the accounting of invalid entries, and the   *)
(* work item that moves records down the dynamic levels.                   *)
(*                                                                         *)
(* A record carries the number of the write it maps (0 is a tombstone)     *)
(* instead of a physical address: where blocks lie, and the cache of       *)
(* lookups, are module ActiveZone's subject.  One action is one critical   *)
(* section of imr_lsm_lock; writers, the level worker, manual compactions  *)
(* and the zone collector interleave between them.  Whoever holds          *)
(* imr_lsm_compaction_lock has a plan or is the worker between its locks.  *)
(*                                                                         *)
(* LSM implements BlockMap: a lookup returns the last write of the key.    *)
(***************************************************************************)
EXTENDS Integers, Sequences, FiniteSets, FiniteSetsExt

CONSTANTS
    NumKeys,         \* logical blocks
    Preloaded,       \* how many of them an earlier target may have written
    Levels,          \* IMR_LSM_LEVELS
    Threshold,       \* imr_lsm_compaction_threshold
    BaseBytes,       \* IMR_LSM_MAX_BYTES_FOR_LEVEL_BASE_DEFAULT
    OtherBases,      \* what debugfs max_bytes_for_level_base may be set to
    Multiplier,      \* imr_lsm_max_bytes_for_level_multiplier
    RecordBytes,     \* IMR_LSM_RECORD_BYTES
    MaxCallers,      \* bound: callers between their append and the queueing
    MaxOps,          \* bound: writes and discards
    MaxEvents,       \* bound: collections, failures, resets, debugfs commands
    MaxWork          \* bound: all of these together, when the next one begins

ASSUME LSMAssumption ==
    /\ NumKeys \in Nat \ {0} /\ Preloaded \subseteq 0 .. NumKeys
    /\ Levels \in Nat /\ Levels >= 3
    /\ Threshold \in Nat \ {0} /\ Multiplier \in Nat /\ Multiplier >= 2
    /\ RecordBytes \in Nat \ {0} /\ MaxOps \in Nat
    /\ {BaseBytes} \cup OtherBases \subseteq Nat
    /\ \A b \in {BaseBytes} \cup OtherBases : b >= RecordBytes

VARIABLES
    meta,        \* imr_lsm_meta: lists, segments, index, clock
    fmap,        \* z_pba_map: key -> the write it maps, 0 if unmapped
    plan,        \* the level or zone compaction under way
    worker,      \* where imr_lsm_level_compaction_auto_work stands
    queued,      \* the work item is on its workqueue
    pending,     \* level_compaction_pending
    running,     \* level_compaction_running
    kicks,       \* callers that appended and have not yet queued the work
    base,        \* imr_lsm_max_bytes_for_level_base
    unmarked,    \* history: no append since a worker error, a manual compaction
                 \* or a change of base, none of which looks for more work
    writes,      \* writes so far: the number of the next write
    ops, events  \* work done so far

bounds == <<ops, events>>
sched == <<worker, queued, pending, running, kicks>>
vars == <<meta, fmap, plan, sched, base, unmarked, writes, bounds>>
-----------------------------------------------------------------------------
Keys == 1 .. NumKeys
MaxLevel == Levels - 1
Tombstone == 0
NoPlan == [kind |-> "none"]
NoTable == <<>>

EmptyMeta ==
    [clock    |-> 0,
     unsorted |-> <<>>,
     sorted   |-> [l \in 1 .. MaxLevel |-> <<>>],
     segs     |-> {},
     had      |-> {},
     index    |-> [k \in Keys |-> 0],
     exact    |-> TRUE]

\* The device may have been written before its target was created.
Init ==
    /\ meta = EmptyMeta
    /\ writes \in Preloaded
    /\ fmap = [k \in Keys |-> IF k <= writes THEN k ELSE 0]
    /\ plan = NoPlan
    /\ worker = "idle" /\ kicks = 0
    /\ queued = FALSE /\ pending = FALSE /\ running = FALSE
    /\ base = BaseBytes /\ unmarked = FALSE
    /\ ops = 0 /\ events = 0
-----------------------------------------------------------------------------
(* Records.  A record of a list is [key, ts, val], an entry of a sorted    *)
(* list or a block table [ts, val] under its key; table entries also carry *)
(* the two accounting flags.  Segments are a set: every scan of the list   *)
(* takes a maximum.  meta.had are the levels with a segment, retired ones  *)
(* included.                                                               *)

Bare(e) == [ts |-> e.ts, val |-> e.val]

UnsortedRecords(m, k) ==
    {Bare(m.unsorted[i]) : i \in {j \in DOMAIN m.unsorted : m.unsorted[j].key = k}}

SortedRecords(m, k, L) == {m.sorted[l][k] : l \in {j \in L : k \in DOMAIN m.sorted[j]}}

SegmentRecords(m, k) ==
    {Bare(s.table[k]) : s \in {t \in m.segs : k \in DOMAIN t.table}}

Records(m, k) ==
    UnsortedRecords(m, k) \cup SortedRecords(m, k, 1 .. MaxLevel) \cup SegmentRecords(m, k)

Newest(R) == CHOOSE r \in R : \A s \in R : s.ts <= r.ts

\* imr_lsm_read behind its cache: the sorted list of a level counts only while
\* the level never had a segment; a miss falls back to the forward map.
Lookup(k) ==
    LET found == UnsortedRecords(meta, k) \cup SegmentRecords(meta, k)
                    \cup SortedRecords(meta, k, 1 .. MaxLevel \ meta.had)
    IN  IF found = {} THEN fmap[k] ELSE Newest(found).val
-----------------------------------------------------------------------------
(* Which entries are still needed.                                         *)

FoundByScan(m, k, ts) == \E r \in Records(m, k) : r.ts > ts

FindNewer(m, k, ts) ==
    IF m.exact /\ m.index[k] # 0 THEN m.index[k] > ts ELSE FoundByScan(m, k, ts)

\* Mutant: a tombstone is kept only for the forward map's sake.
TombstoneKeptForMap(m, f, k, ts) == f[k] # 0

TombstoneKept(m, f, k, ts) ==
    \/ f[k] # 0
    \/ \E r \in Records(m, k) : r.val # Tombstone /\ r.ts < ts

Unneeded(m, f, k, e) ==
    \/ FindNewer(m, k, e.ts)
    \/ e.val = Tombstone /\ ~TombstoneKept(m, f, k, e.ts)

WithFlags(m, f, s) ==
    [s EXCEPT !.table = [k \in DOMAIN s.table |->
        [s.table[k] EXCEPT !.obs = FindNewer(m, k, s.table[k].ts),
                           !.inv = Unneeded(m, f, k, s.table[k])]]]

Recalculate(m, f) == [m EXCEPT !.segs = {WithFlags(m, f, s) : s \in m.segs}]

\* Mutant: the index takes every record, also one older than what it holds.
IndexTakesAny(m, T, ok) ==
    [m EXCEPT
        !.index = [k \in Keys |-> IF k \in DOMAIN T THEN T[k].ts ELSE m.index[k]],
        !.exact = @ /\ (ok \/ \A k \in DOMAIN T : m.index[k] # 0)]

\* Mutant: the index learns the records, the tables keep their live entries.
IndexWithoutSupersede(m, T, ok) ==
    LET missing == {k \in DOMAIN T : m.index[k] = 0}
    IN  [m EXCEPT
            !.index = [k \in Keys |->
                IF k \in DOMAIN T /\ T[k].ts > m.index[k] /\ (ok \/ k \notin missing)
                THEN T[k].ts ELSE m.index[k]],
            !.exact = @ /\ (ok \/ missing = {})]

\* The index learns the records T; a node that is missing has to be allocated,
\* and a failure (~ok) gives the index up.  Live table entries of the keys are
\* superseded.
IndexUpdate(m, T, ok) ==
    LET missing == {k \in DOMAIN T : m.index[k] = 0}
        newer   == {k \in DOMAIN T \ missing : T[k].ts > m.index[k]}
        Superseded(s) ==
            [s EXCEPT !.table = [k \in DOMAIN s.table |->
                IF k \in newer /\ ~s.table[k].inv
                THEN [s.table[k] EXCEPT !.inv = TRUE, !.obs = TRUE]
                ELSE s.table[k]]]
    IN  [m EXCEPT
            !.index = [k \in Keys |->
                IF k \in newer \/ (k \in missing /\ ok) THEN T[k].ts ELSE m.index[k]],
            !.exact = @ /\ (ok \/ missing = {}),
            !.segs = IF m.exact THEN {Superseded(s) : s \in @} ELSE @]

NewSegment(l, T) ==
    [level |-> l,
     table |-> [k \in DOMAIN T |->
        [ts |-> T[k].ts, val |-> T[k].val, inv |-> FALSE, obs |-> FALSE]]]

\* Accounts for segment s, already linked; a stale index is repaired first.
Account(m, f, s) ==
    LET stale == {k \in DOMAIN s.table : m.index[k] < s.table[k].ts}
        n == IndexUpdate([m EXCEPT !.segs = @ \ {s}], [k \in stale |-> s.table[k]], TRUE)
        linked == [n EXCEPT !.segs = @ \cup {s}]
    IN  IF m.exact
        THEN [n EXCEPT !.segs = @ \cup {WithFlags(linked, f, s)}]
        ELSE Recalculate(m, f)

\* The segments S are retired; live tombstones of their keys may have lost the
\* last record they hide.  Segments not accounted for yet (fresh) stay as they are.
Retire(m, f, S, fresh) ==
    LET n == [m EXCEPT !.segs = @ \ S]
        K == UNION {DOMAIN s.table : s \in S}
        Dead(k, e) == k \in K /\ e.val = Tombstone /\ ~TombstoneKept(n, f, k, e.ts)
        Reevaluated(s) ==
            [s EXCEPT !.table = [k \in DOMAIN s.table |->
                [s.table[k] EXCEPT !.inv = @ \/ Dead(k, s.table[k])]]]
    IN  [n EXCEPT !.segs = {Reevaluated(s) : s \in @ \ fresh} \cup fresh]

Linked(m, s) == [m EXCEPT !.segs = @ \cup {s}, !.had = @ \cup {s.level}]
-----------------------------------------------------------------------------
(* Dynamic levels (imr_lsm_calculate_dynamic_levels_locked) and the choice *)
(* of the level to compact.                                                *)

\* unsorted_count + sorted_count of every level; only L0 has unsorted records.
Sizes(m) ==
    [l \in 0 .. MaxLevel |->
        IF l = 0 THEN Len(m.unsorted) ELSE Cardinality(DOMAIN m.sorted[l])]

DivRoundUp(n, d) == (n + d - 1) \div d

\* What a last level of n bytes leaves for level l at fanout mult.
TargetBelow(n, mult) ==
    LET t[l \in 1 .. MaxLevel] == IF l = MaxLevel THEN n ELSE DivRoundUp(t[l + 1], mult)
    IN  t

\* The smallest fanout, not below the configured one, that keeps L1 within b.
EffectiveMultiplier(n, b) ==
    Min({mult \in Multiplier .. Max({Multiplier, n}) : TargetBelow(n, mult)[1] <= b})

\* base: the level L0 compacts into; target: bytes per level, 0 where none is
\* set; surplus: the deepest level above the base that holds data, 0 if none.
DynamicLevels(sz, b) ==
    LET largest == Max({sz[l] * RecordBytes : l \in 1 .. MaxLevel})
        small   == largest <= b
        mult    == IF small THEN Multiplier ELSE EffectiveMultiplier(largest, b)
        least   == Max({1, b \div mult})
        raw     == TargetBelow(largest, mult)
        fit     == {l \in 1 .. MaxLevel - 1 : raw[l] <= b}
        bl      == IF small THEN MaxLevel ELSE IF fit = {} THEN 1 ELSE Max(fit)
        target  == [l \in 1 .. MaxLevel |->
                        IF l < bl THEN 0
                        ELSE IF small THEN b
                        ELSE IF l = bl THEN Max({raw[l], least + 1})
                        ELSE raw[l]]
    IN  [base |-> bl, target |-> target,
         surplus |-> Max({0} \cup {l \in 1 .. bl - 1 : sz[l] > 0})]

DstLevel(sz, b, l) ==
    LET target == DynamicLevels(sz, b).target
    IN  Min({MaxLevel} \cup {d \in l + 1 .. MaxLevel : target[d] # 0})

Scale == 1000       \* IMR_LSM_SCORE_SCALE
Boost == 10         \* IMR_LSM_SCORE_BOOST

Score(sz, dyn, l, down) ==
    IF l = 0 THEN (sz[0] * Scale) \div Threshold
    ELSE IF sz[l] = 0 THEN 0
    ELSE IF l <= dyn.surplus THEN Scale * Boost + 1 + dyn.surplus - l
    ELSE (sz[l] * RecordBytes * Scale) \div (Max({1, dyn.target[l]}) + down)

Excess(sz, dyn, l) ==
    IF l = 0 THEN IF sz[0] >= Threshold THEN sz[0] * RecordBytes ELSE 0
    ELSE IF l <= dyn.surplus THEN sz[l] * RecordBytes
    ELSE IF dyn.target[l] # 0 THEN Max({0, sz[l] * RecordBytes - dyn.target[l]})
    ELSE 0

\* imr_lsm_pick_compaction_level_locked: the first level with the best score;
\* Levels means none.
PickLevel(sz, b) ==
    LET dyn == DynamicLevels(sz, b)
        down[l \in 0 .. MaxLevel] == IF l = 0 THEN 0 ELSE down[l - 1] + Excess(sz, dyn, l - 1)
        score == [l \in 0 .. MaxLevel - 1 |-> Score(sz, dyn, l, down[l])]
        first == {l \in 0 .. MaxLevel - 1 :
                    /\ score[l] >= Scale
                    /\ \A j \in 0 .. MaxLevel - 1 :
                            score[j] < score[l] \/ (score[j] = score[l] /\ l <= j)}
    IN  IF first = {} THEN Levels ELSE CHOOSE l \in first : TRUE

Overfull(sz, b) == sz[0] >= Threshold \/ PickLevel(sz, b) < Levels

Needed(m, b) == Overfull(Sizes(m), b)
-----------------------------------------------------------------------------
(* Writes and discards: one critical section that appends a record, marks  *)
(* compaction pending if it is needed and sets the forward map.  A write   *)
(* and a discard bio queue the work while they still hold the zone lock,   *)
(* imrsim_lsm_delete_key only after it dropped both locks (Kick).          *)

HasWork == ops + events < MaxWork

Event == HasWork /\ events < MaxEvents /\ events' = events + 1

AppendRecord(k, v, ok) ==
    LET node == [key |-> k, ts |-> meta.clock + 1, val |-> v]
        m == IndexUpdate([meta EXCEPT !.clock = @ + 1, !.unsorted = <<node>> \o @],
                         [j \in {k} |-> Bare(node)], ok)
    IN  /\ HasWork /\ ops < MaxOps /\ ops' = ops + 1
        /\ IF ok THEN UNCHANGED events ELSE meta.index[k] = 0 /\ Event
        /\ meta' = m
        /\ fmap' = [fmap EXCEPT ![k] = v]
        /\ pending' = (pending \/ Needed(m, base))
        /\ unmarked' = FALSE
        /\ UNCHANGED <<plan, worker, running, base>>

QueueIf(p) == queued' = (queued \/ (p /\ ~running))

Put(k, ok) ==
    /\ AppendRecord(k, writes + 1, ok)
    /\ writes' = writes + 1
    /\ QueueIf(pending')
    /\ UNCHANGED kicks

Discard(k, ok) ==
    /\ AppendRecord(k, Tombstone, ok)
    /\ QueueIf(pending')
    /\ UNCHANGED <<kicks, writes>>

DeleteKey(k, ok) ==
    /\ AppendRecord(k, Tombstone, ok)
    /\ kicks < MaxCallers
    /\ kicks' = kicks + (IF pending' THEN 1 ELSE 0)
    /\ UNCHANGED <<queued, writes>>

\* imr_lsm_queue_level_compaction_work, by a caller that holds no lsm lock.
Kick ==
    /\ kicks > 0
    /\ kicks' = kicks - 1
    /\ QueueIf(pending)
    /\ UNCHANGED <<meta, fmap, plan, worker, pending, running, base, unmarked, writes, bounds>>
-----------------------------------------------------------------------------
(* Level compaction: prepare under the locks, build without them, publish  *)
(* under them.  A plan borrows its inputs: it names the first node, their  *)
(* number and the node after them (0 is the end of the list).              *)

\* Mutant: a manual compaction gives the lock up while it builds.
WorkerAway == worker \in {"idle", "started"}

CompactionLockFree == plan = NoPlan /\ worker \in {"idle", "started"}

\* How the code recognises a sorted list: its length and its first node.
SortedId(m, l) ==
    IF l = 0 \/ m.sorted[l] = NoTable
    THEN <<0, 0>>
    ELSE <<Cardinality(DOMAIN m.sorted[l]), Min(DOMAIN m.sorted[l])>>

TsAt(q, i) == IF i \in DOMAIN q THEN q[i].ts ELSE 0

LevelPlan(l, limit, by) ==
    LET available == IF l = 0 THEN Len(meta.unsorted) ELSE 0
        n   == Min({available, limit})
        dst == DstLevel(Sizes(meta), base, l)
    IN  [kind |-> "level", by |-> by, src |-> l, dst |-> dst,
         n |-> n, head |-> TsAt(meta.unsorted, 1), after |-> TsAt(meta.unsorted, n + 1),
         retire |-> dst # l /\ n = available,
         srcId |-> SortedId(meta, l), dstId |-> SortedId(meta, dst),
         table |-> NoTable]

HasInput(p) == p.n > 0 \/ (p.retire /\ p.src > 0 /\ Sizes(meta)[p.src] > 0)

\* Where the borrowed nodes start in the unsorted list, 0 if they are gone.
Position(q, ts) ==
    LET at == {i \in DOMAIN q : q[i].ts = ts} IN IF at = {} THEN 0 ELSE Min(at)

Borrowed(p) ==
    LET i == Position(meta.unsorted, p.head)
    IN  IF p.n = 0 THEN <<>> ELSE SubSeq(meta.unsorted, i, i + p.n - 1)

SourceSorted(p) == IF p.retire /\ p.src > 0 THEN meta.sorted[p.src] ELSE NoTable

\* imr_lsm_segment_builder_add keeps the newest record of every key.
Built(p) ==
    LET q == Borrowed(p)
        t == SourceSorted(p)
        Of(k) == {Bare(q[i]) : i \in {j \in DOMAIN q : q[j].key = k}}
                    \cup (IF k \in DOMAIN t THEN {t[k]} ELSE {})
    IN  [k \in {j \in Keys : Of(j) # {}} |-> Newest(Of(k))]

\* imr_lsm_validate_level_compaction_plan_locked
PlanValid(p) ==
    LET q == meta.unsorted
        i == Position(q, p.head)
    IN  /\ SortedId(meta, p.dst) = p.dstId
        /\ p.retire => SortedId(meta, p.src) = p.srcId
        /\ p.n > 0 => i > 0 /\ i + p.n - 1 <= Len(q) /\ TsAt(q, i + p.n) = p.after

Merge(f, t) ==
    [k \in DOMAIN f \cup DOMAIN t |->
        Newest((IF k \in DOMAIN f THEN {f[k]} ELSE {}) \cup (IF k \in DOMAIN t THEN {t[k]} ELSE {}))]

Without(q, i, n) == SubSeq(q, 1, i - 1) \o SubSeq(q, i + n, Len(q))

\* Mutant: the compacted nodes stay on the unsorted list.
PublishedUnlinksNothing(p) ==
    LET m0 == [meta EXCEPT
                !.sorted = [l \in 1 .. MaxLevel |->
                    CASE l = p.dst -> Merge(@[l], p.table)
                      [] l = p.src /\ p.retire -> NoTable
                      [] OTHER -> @[l]]]
        new == NewSegment(p.dst, p.table)
        old == IF p.retire THEN {s \in meta.segs : s.level = p.src} ELSE {}
    IN  Account(Retire(Linked(m0, new), fmap, old, {new}), fmap, new)

\* What publication makes of the lists, then of the segments and the accounts.
Published(p) ==
    LET m0 == [meta EXCEPT
                !.unsorted = IF p.n = 0 THEN @ ELSE Without(@, Position(@, p.head), p.n),
                !.sorted = [l \in 1 .. MaxLevel |->
                    CASE l = p.dst -> Merge(@[l], p.table)
                      [] l = p.src /\ p.retire -> NoTable
                      [] OTHER -> @[l]]]
        new == NewSegment(p.dst, p.table)
        m1  == Linked(m0, new)
        old == IF p.retire THEN {s \in meta.segs : s.level = p.src} ELSE {}
    IN  Account(Retire(m1, fmap, old, {new}), fmap, new)

\* How a compaction ends for whoever runs it.
Return(p, outcome) ==
    /\ plan' = NoPlan
    /\ worker' = IF p.by = "worker" THEN outcome ELSE worker

Build ==
    /\ plan.kind = "level" /\ plan.table = NoTable
    /\ plan' = [plan EXCEPT !.table = Built(plan)]
    /\ UNCHANGED <<meta, fmap, sched, base, unmarked, writes, bounds>>

BuildFails ==
    /\ plan.kind = "level" /\ plan.table = NoTable
    /\ Event
    /\ Return(plan, "failed")
    /\ UNCHANGED <<meta, fmap, queued, pending, running, kicks, base, unmarked, writes, ops>>

Publish ==
    /\ plan.kind = "level" /\ plan.table # NoTable
    /\ IF PlanValid(plan)
       THEN meta' = Published(plan) /\ Return(plan, "end")
       ELSE UNCHANGED meta /\ Return(plan, "failed")
    /\ unmarked' = (unmarked \/ plan.by = "manual")
    /\ UNCHANGED <<fmap, queued, pending, running, kicks, base, writes, bounds>>

\* debugfs compact: any level, all of its records.
ManualCompaction(l) ==
    LET p == LevelPlan(l, MaxOps, "manual")
    IN  /\ CompactionLockFree
        /\ HasInput(p)
        /\ Event
        /\ plan' = p
        /\ UNCHANGED <<meta, fmap, sched, base, unmarked, writes, ops>>
-----------------------------------------------------------------------------
(* The work item.  It holds the compaction lock from WorkerLock to its end.*)

WorkerStart ==
    /\ queued /\ worker = "idle"
    /\ queued' = FALSE /\ running' = TRUE
    /\ worker' = "started"
    /\ UNCHANGED <<meta, fmap, plan, pending, kicks, base, unmarked, writes, bounds>>

WorkerLock ==
    /\ worker = "started" /\ CompactionLockFree
    /\ pending' = FALSE /\ running' = TRUE
    /\ worker' = "round"
    /\ UNCHANGED <<meta, fmap, plan, queued, kicks, base, unmarked, writes, bounds>>

\* A reset left the metadata uninitialized and nobody has used it since.
WorkerGivesUp ==
    /\ worker = "started" /\ CompactionLockFree
    /\ meta = EmptyMeta
    /\ pending' = FALSE /\ running' = FALSE
    /\ worker' = "idle"
    /\ UNCHANGED <<meta, fmap, plan, queued, kicks, base, unmarked, writes, bounds>>

WorkerPrepare ==
    LET l == PickLevel(Sizes(meta), base)
        p == LevelPlan(l, IF l = 0 THEN Threshold ELSE MaxOps, "worker")
        work == l < Levels /\ HasInput(p)
    IN  /\ worker = "round"
        /\ plan' = IF work THEN p ELSE NoPlan
        /\ worker' = IF work THEN "compacting" ELSE "end"
        /\ UNCHANGED <<meta, fmap, queued, pending, running, kicks, base, unmarked, writes, bounds>>

\* Mutant: the work item forgets to look again before it ends.
WorkerEndsForGood ==
    /\ worker \in {"end", "failed"}
    /\ pending' = FALSE /\ running' = FALSE
    /\ worker' = "idle"
    /\ unmarked' = (unmarked \/ worker = "failed")
    /\ UNCHANGED <<meta, fmap, plan, queued, kicks, base, writes, bounds>>

WorkerEnd ==
    LET again == worker = "end" /\ Needed(meta, base)
    IN  /\ worker \in {"end", "failed"}
        /\ pending' = again /\ running' = FALSE
        /\ worker' = IF again THEN "requeue" ELSE "idle"
        /\ unmarked' = (unmarked \/ worker = "failed")
        /\ UNCHANGED <<meta, fmap, plan, queued, kicks, base, writes, bounds>>

WorkerRequeue ==
    /\ worker = "requeue"
    /\ worker' = "idle"
    /\ QueueIf(pending)
    /\ UNCHANGED <<meta, fmap, plan, pending, running, kicks, base, unmarked, writes, bounds>>
-----------------------------------------------------------------------------
(* Zone collection as the LSM sees it: the live keys K of some zone get    *)
(* new timestamps when the copy is planned; publication links a segment of *)
(* the last level, takes over the map of the keys nobody has written since *)
(* and advances the index.                                                 *)

\* Mutant: the timestamps of the copies are not taken off the clock.
GcBorrowsTimestamps(K) ==
    /\ CompactionLockFree
    /\ Event
    /\ K # {} /\ \A k \in K : fmap[k] # 0
    /\ plan' = [kind |-> "gc",
                table |-> [k \in K |->
                    [ts |-> meta.clock + Cardinality({j \in K : j <= k}), val |-> fmap[k]]]]
    /\ UNCHANGED <<meta, fmap, sched, base, unmarked, writes, ops>>

GcPrepare(K) ==
    /\ CompactionLockFree
    /\ Event
    /\ K # {} /\ \A k \in K : fmap[k] # 0
    /\ plan' = [kind |-> "gc",
                table |-> [k \in K |->
                    [ts |-> meta.clock + Cardinality({j \in K : j <= k}), val |-> fmap[k]]]]
    /\ meta' = [meta EXCEPT !.clock = @ + Cardinality(K)]
    /\ UNCHANGED <<fmap, sched, base, unmarked, writes, ops>>

GcFails ==
    /\ plan.kind = "gc"
    /\ Event
    /\ plan' = NoPlan
    /\ UNCHANGED <<meta, fmap, sched, base, unmarked, writes, ops>>

GcPublish(ok) ==
    LET new == NewSegment(MaxLevel, plan.table)
        m   == IndexUpdate(meta, plan.table, ok)
    IN  /\ plan.kind = "gc"
        /\ IF ok THEN UNCHANGED events ELSE m.exact # meta.exact /\ Event
        /\ meta' = Account(Linked(m, new), fmap, new)
        /\ plan' = NoPlan
        /\ UNCHANGED <<fmap, sched, base, unmarked, writes, ops>>
-----------------------------------------------------------------------------
(* debugfs compact_segment: rewrites a segment without the entries nobody  *)
(* needs.  The code takes the candidate with the best score; here it is    *)
(* any candidate.                                                          *)

MinObsoleteRatio == 250     \* IMR_LSM_COMPACTION_MIN_OBSOLETE_RATIO

Candidate(s) ==
    LET invalid == Cardinality({k \in DOMAIN s.table : s.table[k].inv})
    IN  invalid >= 1 /\ (invalid * 1000) \div Cardinality(DOMAIN s.table) >= MinObsoleteRatio

CompactSegment ==
    LET m == Recalculate(meta, fmap)
    IN  /\ CompactionLockFree
        /\ Event
        /\ \E s \in {t \in m.segs : Candidate(t)} :
            LET keep == {k \in DOMAIN s.table : ~Unneeded(m, fmap, k, s.table[k])}
                new  == NewSegment(s.level, [k \in keep |-> s.table[k]])
                n    == IF keep = {} THEN m ELSE Account(Linked(m, new), fmap, new)
            IN  meta' = Retire(n, fmap, {s}, {})
        /\ UNCHANGED <<fmap, plan, sched, base, unmarked, writes, ops>>

\* debugfs max_bytes_for_level_base: changes the targets, marks nothing.
SetBase(b) ==
    /\ CompactionLockFree
    /\ Event
    /\ b # base /\ base' = b
    /\ unmarked' = TRUE
    /\ UNCHANGED <<meta, fmap, plan, sched, writes, ops>>
-----------------------------------------------------------------------------
(* An orderly removal and creation of the target drains all work, keeps    *)
(* the forward map and forgets the LSM metadata.  A reset of the zone      *)
(* configuration, on a live target, forgets both; its memset also clears   *)
(* the flags of a worker that waits for the compaction lock.               *)

Reload ==
    /\ Event
    /\ CompactionLockFree /\ worker = "idle" /\ kicks = 0
    /\ meta' = EmptyMeta /\ base' = BaseBytes
    /\ queued' = FALSE /\ pending' = FALSE /\ running' = FALSE
    /\ unmarked' = FALSE
    /\ UNCHANGED <<fmap, plan, worker, kicks, writes, ops>>

ResetZones ==
    /\ Event
    /\ CompactionLockFree
    /\ meta' = EmptyMeta
    /\ fmap' = [k \in Keys |-> 0]
    /\ pending' = FALSE /\ running' = FALSE
    /\ UNCHANGED <<plan, worker, queued, kicks, base, unmarked, writes, ops>>
-----------------------------------------------------------------------------
Worker ==
    WorkerStart \/ WorkerLock \/ WorkerGivesUp \/ WorkerPrepare \/ WorkerEnd \/ WorkerRequeue

Next ==
    \/ \E k \in Keys, ok \in BOOLEAN : Put(k, ok) \/ Discard(k, ok) \/ DeleteKey(k, ok)
    \/ Kick
    \/ Worker
    \/ Build \/ BuildFails \/ Publish
    \/ \E l \in 0 .. MaxLevel : ManualCompaction(l)
    \/ \E K \in SUBSET Keys : GcPrepare(K)
    \/ GcFails
    \/ \E ok \in BOOLEAN : GcPublish(ok)
    \/ CompactSegment
    \/ \E b \in {BaseBytes} \cup OtherBases : SetBase(b)
    \/ Reload \/ ResetZones

Spec == Init /\ [][Next]_vars
-----------------------------------------------------------------------------
(* Properties.                                                             *)

Entries == {x \in Keys \X meta.segs : x[1] \in DOMAIN x[2].table}

\* Lists and tables hold records the clock has issued, a list of a key never
\* holds two records with one timestamp, and the flags are flags.
TypeOK ==
    /\ meta.clock \in Nat /\ meta.exact \in BOOLEAN
    /\ \A k \in Keys : meta.index[k] \in 0 .. meta.clock /\ fmap[k] \in 0 .. writes
    /\ \A k \in Keys : \A r \in Records(meta, k) :
            r.ts \in 1 .. meta.clock /\ r.val \in 0 .. writes
    /\ \A i \in 2 .. Len(meta.unsorted) : meta.unsorted[i].ts < meta.unsorted[i - 1].ts
    /\ \A s \in meta.segs : s.level \in meta.had /\ DOMAIN s.table # {}
    /\ plan.kind \in {"none", "level", "gc"}
    /\ worker \in {"idle", "started", "round", "compacting", "end", "failed", "requeue"}
    /\ {queued, pending, running, unmarked} \subseteq BOOLEAN
    /\ base \in {BaseBytes} \cup OtherBases

B == INSTANCE BlockMap WITH val <- [k \in Keys |-> Lookup(k)]

\* Every lookup returns the last write of its key, or nothing after a discard:
\* compactions, collections, dropped tombstones and reloads change no answer.
LookupsAreLastWrites == B!Spec

\* While the index of newest records is in use it names, for every key, exactly
\* the timestamp the scan of all lists and segments would find.
IndexExact ==
    meta.exact => \A k \in Keys :
        meta.index[k] = Max({0} \cup {r.ts : r \in Records(meta, k)})

\* While its inputs are borrowed without the locks, nothing can change them: the
\* validation before publication never fails.
PlanStaysValid == plan.kind = "level" => PlanValid(plan)

\* An entry counted as invalid is one a full recount also finds unneeded, and
\* one counted as live is not older than another record of its key.
AccountingSound ==
    meta.exact => \A x \in Entries :
        LET e == x[2].table[x[1]]
        IN  /\ e.inv => Unneeded(meta, fmap, x[1], e)
            /\ ~e.inv => ~FoundByScan(meta, x[1], e.ts)

\* How far the records still are from the last level.
Depth(m) == MapThenSumSet(LAMBDA l : Sizes(m)[l] * (MaxLevel - l), 0 .. MaxLevel)

\* No lost wakeup: when a level is over its limit the work item is queued,
\* running, or about to be queued by a caller.
NeededIsScheduled ==
    Needed(meta, base) /\ ~unmarked => queued \/ kicks > 0 \/ worker # "idle"

\* The work item catches up instead of spinning: a round that ends without a
\* plan leaves no level over its limit, and one that published moved records
\* down, which can be repeated only finitely often.
RoundsMakeProgress ==
    [][/\ worker = "round" /\ worker' = "end" => ~Needed(meta, base)
       /\ worker = "compacting" /\ worker' = "end" => Depth(meta') < Depth(meta)]_vars
=============================================================================
