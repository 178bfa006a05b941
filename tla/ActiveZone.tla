----------------------------- MODULE ActiveZone -----------------------------
(***************************************************************************)
(* The active-zone allocator and zone garbage collector of the dm-imrsim   *)
(* device-mapper target (imrsim_kmod/dm-imrsim.c).                         *)
(*                                                                         *)
(* Every 4 KiB logical block (a key) that is written receives a fresh      *)
(* append slot of the one open physical zone; the forward map z_pba_map    *)
(* says where a key's newest version is and the reverse map z_key_map of a *)
(* zone says which key each of its slots was appended for.  The collector  *)
(* copies the live blocks of a sealed zone to a free one without holding   *)
(* the locks, so foreground writes, discards and reads run during a copy.  *)
(*                                                                         *)
(* One action is one critical section of imrsim_zone_lock (every handler   *)
(* of imrsim_map, imrsim_end_io, and each section of the collector); the   *)
(* completion of an append bio is a step of the device.  The LSM record    *)
(* lists are abstracted to the record with the newest timestamp of a key,  *)
(* the only one imr_lsm_read ever returns; the bounded LRU cache in front  *)
(* of them (read_tree) is kept exactly.                                    *)
(***************************************************************************)
EXTENDS Integers, FiniteSets, Sequences

CONSTANTS
    NumZones,        \* IMR_NUMZONES
    TrackGroups,     \* TOP_TRACK_NUM_TOTAL: TOP/BOTTOM track pairs of a zone
    TopSize,         \* IMR_TOP_TRACK_SIZE in blocks
    BottomSize,      \* IMR_BOTTOM_TRACK_SIZE in blocks
    Keys,            \* the logical blocks the workload touches
    ReadTreeLimit,   \* imr_lsm_meta.read_tree_limit
    MinInvalidRatio, \* imr_lsm_zone_gc_min_invalid_ratio_permille
    LowWatermark,    \* imr_lsm_zone_gc_free_low_watermark
    MaxWrites,       \* bound: foreground writes and discards
    MaxReads,        \* bound: read bios in flight
    MaxFaults,       \* bound: failed allocations and copy errors
    MaxAdmin         \* bound: debugfs commands and target reloads

TotalItems == (TopSize + BottomSize) * TrackGroups

ASSUME ZoneGeometryAssumption ==
    /\ NumZones \in Nat /\ NumZones >= 2
    /\ TrackGroups \in Nat \ {0} /\ TopSize \in Nat \ {0} /\ BottomSize \in Nat \ {0}

ASSUME KeysAssumption == Keys \subseteq 0 .. (NumZones * TotalItems - 1)

ASSUME GCAssumption ==
    /\ ReadTreeLimit \in Nat \ {0}
    /\ {MinInvalidRatio, LowWatermark, MaxWrites, MaxReads, MaxFaults, MaxAdmin} \subseteq Nat

VARIABLES
    zone_status,     \* physical zone -> z_conds, z_map_size, z_live_count, ...
    z_pba_map,       \* forward map: key -> physical block, Unmapped when -1
    active_zone, free_cursor, next_generation,   \* imr_lsm_allocator
    copy,            \* imr_lsm_zone_copy_source / _dest, None when inactive
    candidate,       \* stats.zone_compaction_candidate_zone / _dest_zone
    auto,            \* auto_run, auto_pending_zone (None: not pending), auto_running
    queued,          \* imr_lsm_zone_compaction_work is on its workqueue
    worker,          \* the work item: where it is, the zone it compacts
    gc,              \* imr_lsm_compact_zone: who runs it, its plan, next entry
    timestamp,       \* imr_lsm_meta.timestamp
    newest,          \* key -> the LSM record with the newest timestamp
    read_lru,        \* the read tree in LRU order, least recent first
    inflight,        \* append bios submitted and not completed
    reads,           \* read bios remapped and not completed
    media,           \* the backing device: physical block -> content
    latest,          \* the version a read of the key should return (0: zeros)
    writes, faults, admin                        \* work done so far

zoneVars == <<zone_status, z_pba_map, active_zone, free_cursor, next_generation>>
lsmVars  == <<timestamp, newest, read_lru>>
gcVars   == <<copy, candidate, auto, queued, worker, gc>>
ioVars   == <<inflight, reads, media, latest>>
bounds   == <<writes, faults, admin>>
vars     == <<zoneVars, lsmVars, gcVars, ioVars, bounds>>

Zones == 0 .. NumZones - 1
Slots == 0 .. TotalItems - 1
Pbas  == 0 .. NumZones * TotalItems - 1
None  == NumZones         \* IMR_LSM_ZONE_COMPACTION_NONE: no zone
Unmapped == -1
NoKey    == -1            \* IMR_LSM_KEY_EMPTY

-----------------------------------------------------------------------------
(* Slots and physical blocks.  BOTTOM tracks are filled first.             *)

BottomBlocks == BottomSize * TrackGroups
GroupBlocks  == TopSize + BottomSize

AppendPba(z, slot) ==
    LET top == slot - BottomBlocks
        block == IF slot < BottomBlocks
                 THEN (slot \div BottomSize) * GroupBlocks + TopSize + (slot % BottomSize)
                 ELSE (top \div TopSize) * GroupBlocks + (top % TopSize)
    IN  z * TotalItems + block

ZoneOf(pba) == pba \div TotalItems

(* Mutant: the slots of the TOP tracks counted first.                      *)
AppendSlotTopFirst(z, pba) ==
    LET block  == pba - z * TotalItems
        group  == block \div GroupBlocks
        within == block % GroupBlocks
    IN  IF within < TopSize
        THEN group * TopSize + within
        ELSE TopSize * TrackGroups + group * BottomSize + within - TopSize

AppendSlot(z, pba) ==
    LET block  == pba - z * TotalItems
        group  == block \div GroupBlocks
        within == block % GroupBlocks
    IN  IF within < TopSize
        THEN BottomBlocks + group * TopSize + within
        ELSE group * BottomSize + within - TopSize

LogicalZone(key) == key \div TotalItems

(* A bio waits while its LOGICAL zone number is one of the two PHYSICAL    *)
(* zones of the copy in progress (imr_lsm_zone_copy_overlaps_locked).      *)
Overlaps(key) == LogicalZone(key) \in {copy.source, copy.dest}
-----------------------------------------------------------------------------
(* Free zones and the choice of a victim, as functions of the state the    *)
(* calling handler has reached: zs the zone table, act the active zone,    *)
(* cp the copy in progress, cur the free cursor.                           *)

Free(zs, act, cp) ==
    {z \in Zones \ {act, cp.source, cp.dest} : zs[z].z_map_size = 0 /\ zs[z].z_live_count = 0}

FirstFrom(S, cur) ==
    IF S = {} THEN None
    ELSE CHOOSE z \in S : \A y \in S : (z - cur + NumZones) % NumZones <= (y - cur + NumZones) % NumZones

(* Mutant: the cursor runs past the last zone.                             *)
CursorAfterNoWrap(z, cur) == IF z = None THEN cur ELSE z + 1

CursorAfter(z, cur) == IF z = None THEN cur ELSE (z + 1) % NumZones

Reclaimable(s) == s.z_map_size - s.z_live_count
Ratio(s) == (Reclaimable(s) * 1000) \div s.z_map_size

Victims(zs, act, free) ==
    {z \in Zones \ {act} :
        /\ zs[z].z_conds \in {"FULL", "CLOSED"}
        /\ zs[z].z_map_size > 0
        /\ zs[z].z_live_count < zs[z].z_map_size
        /\ Cardinality(free) >= LowWatermark => Ratio(zs[z]) >= MinInvalidRatio}

Better(s, t) ==
    \/ Ratio(s) > Ratio(t)
    \/ Ratio(s) = Ratio(t) /\ Reclaimable(s) > Reclaimable(t)
    \/ Ratio(s) = Ratio(t) /\ Reclaimable(s) = Reclaimable(t) /\ s.z_generation < t.z_generation

Victim(zs, V) ==
    IF V = {} THEN None
    ELSE CHOOSE z \in V : \A y \in V \ {z} :
            Better(zs[z], zs[y]) \/ (~Better(zs[y], zs[z]) /\ z < y)

(* imr_lsm_record_zone_compaction_candidate_locked: the victim and the     *)
(* free zone reserved as its destination; a destination already advertised *)
(* for the same victim is kept while it is free.                           *)
Candidate(zs, act, cur, cp, old) ==
    LET free == Free(zs, act, cp)
        src  == Victim(zs, Victims(zs, act, free))
        keep == src = old.zone /\ old.dest # src /\ old.dest \in free
    IN  [zone |-> src,
         dest |-> IF src = None THEN None
                  ELSE IF keep THEN old.dest ELSE FirstFrom(free \ {src}, cur)]

CandidateCursor(new, old, cur) ==
    IF new.zone = None \/ new = old THEN cur ELSE CursorAfter(new.dest, cur)

NoCandidate == [zone |-> None, dest |-> None]
Ready(c) == c.dest # None

(* imr_lsm_defer_zone_compaction_auto_run_locked for the candidate c.      *)
Deferred(a, c) ==
    IF a.run /\ ~a.running /\ c.zone # None /\ Ready(c) THEN [a EXCEPT !.pending = c.zone] ELSE a

(* record_candidate clears the pending run when there is no victim left.   *)
Recorded(a, c) == IF c.zone = None THEN [a EXCEPT !.pending = None] ELSE a

(* The handlers end with: record the candidate for the new zone table,     *)
(* defer an automatic run of it, and leave the copy alone.                 *)
RecordAndDefer(zs, act, cur) ==
    /\ candidate' = Candidate(zs, act, cur, copy, candidate)
    /\ free_cursor' = CandidateCursor(candidate', candidate, cur)
    /\ auto' = Deferred(Recorded(auto, candidate'), candidate')
-----------------------------------------------------------------------------
(* The read tree.                                                          *)

Cached(lru, key) == {i \in DOMAIN lru : lru[i].key = key}
TreeRemove(lru, key) == SelectSeq(lru, LAMBDA n : n.key # key)

(* A node that exists is only overwritten by a record that is not older;   *)
(* either way it becomes the most recently used.  A new node is appended   *)
(* whatever its timestamp, and the tree is cut back to its limit.          *)
(* The mutant overwrites a node whatever the timestamps.                   *)
TreeUpdateBlind(lru, n) ==
    IF Cached(lru, n.key) # {} THEN Append(TreeRemove(lru, n.key), n)
    ELSE LET grown == Append(lru, n)
         IN  IF Len(grown) > ReadTreeLimit THEN Tail(grown) ELSE grown

TreeUpdate(lru, n) ==
    IF Cached(lru, n.key) # {}
    THEN LET old == lru[CHOOSE i \in Cached(lru, n.key) : TRUE]
         IN  Append(TreeRemove(lru, n.key), IF n.ts >= old.ts THEN n ELSE old)
    ELSE LET grown == Append(lru, n)
         IN  IF Len(grown) > ReadTreeLimit THEN Tail(grown) ELSE grown

Record(key, pba, ts) == [key |-> key, pba |-> pba, ts |-> ts]
NoRecord(key) == Record(key, Unmapped, 0)

(* imr_lsm_read followed by the fallback to the forward map: the physical  *)
(* block a read of the key goes to, Unmapped for a block of zeros.  A      *)
(* record whose pba is Unmapped is a tombstone.                            *)
Lookup(key) ==
    IF Cached(read_lru, key) # {} THEN read_lru[CHOOSE i \in Cached(read_lru, key) : TRUE].pba
    ELSE IF newest[key].ts > 0 THEN newest[key].pba
    ELSE z_pba_map[key]

TreeAfterRead(key) ==
    IF Cached(read_lru, key) = {} /\ newest[key].ts = 0 THEN read_lru
    ELSE IF Cached(read_lru, key) # {}
         THEN TreeUpdate(read_lru, read_lru[CHOOSE i \in Cached(read_lru, key) : TRUE])
         ELSE TreeUpdate(read_lru, newest[key])
-----------------------------------------------------------------------------
(* Foreground: imrsim_map with a 4 KiB write.                              *)

Holds(key) == z_pba_map[key] # Unmapped
OldZone(key) == ZoneOf(z_pba_map[key])

(* A mapping into a zone that counts no live block is metadata corruption  *)
(* and makes writes and discards of the key return -EUCLEAN.               *)
Unclean(key) == Holds(key) /\ zone_status[OldZone(key)].z_live_count = 0

(* imr_lsm_activate_zone_locked: the open zone, or a free one that is not  *)
(* the advertised destination; one free zone is always left to the GC.     *)
Usable == active_zone # None /\ zone_status[active_zone].z_conds = "OPEN"
                             /\ zone_status[active_zone].z_map_size < TotalItems

(* Mutant: the last free zone is given to a foreground write.              *)
ForegroundTakesLast ==
    LET free == Free(zone_status, None, copy)
    IN  IF Cardinality(free) < 1 THEN None ELSE FirstFrom(free, free_cursor)

ForegroundFree ==
    LET free == Free(zone_status, None, copy)
    IN  IF Cardinality(free) < 2 THEN None ELSE FirstFrom(free \ {candidate.dest}, free_cursor)

ActivatedZone == IF Usable THEN active_zone ELSE ForegroundFree

Activated ==
    IF Usable THEN zone_status
    ELSE [zone_status EXCEPT ![ActivatedZone].z_conds = "OPEN",
                             ![ActivatedZone].z_generation = next_generation]

ActivatedCursor == IF Usable THEN free_cursor ELSE CursorAfter(ActivatedZone, free_cursor)
ActivatedGeneration == IF Usable THEN next_generation ELSE next_generation + 1

(* No zone can be activated: the write fails, but first records a victim   *)
(* and queues a deferred collection.                                       *)
WriteNoSpace(key) ==
    /\ writes < MaxWrites
    /\ ~Overlaps(key)
    /\ ActivatedZone = None
    /\ active_zone' = None
    /\ RecordAndDefer(zone_status, None, free_cursor)
    /\ queued' = (queued \/ auto'.pending # None)
    /\ writes' = writes + 1
    /\ UNCHANGED <<zone_status, z_pba_map, next_generation, lsmVars, copy, worker, gc,
                   ioVars, faults, admin>>

(* The zone table after slot z_map_size of zone z is given to the key.     *)
Appended(zs, z, key) ==
    LET slot == zs[z].z_map_size
    IN  [zs EXCEPT ![z].z_key_map[slot] = key,
                   ![z].z_map_size = slot + 1,
                   ![z].z_live_count = @ + 1,
                   ![z].z_conds = IF slot + 1 = TotalItems THEN "FULL" ELSE "OPEN"]

Dropped(zs, key) == IF Holds(key) THEN [zs EXCEPT ![OldZone(key)].z_live_count = @ - 1] ELSE zs

(* imr_lsm_append_logical_block_locked and the remapped bio that leaves    *)
(* for the device.                                                         *)
Write(key) ==
    LET z   == ActivatedZone
        pba == AppendPba(z, zone_status[z].z_map_size)
        zs  == Dropped(Appended(Activated, z, key), key)
        act == IF zs[z].z_conds = "FULL" THEN None ELSE z
    IN  /\ writes < MaxWrites
        /\ ~Overlaps(key)
        /\ z # None
        /\ ~Unclean(key)
        /\ zone_status' = zs
        /\ active_zone' = act
        /\ next_generation' = ActivatedGeneration
        /\ timestamp' = timestamp + 1
        /\ newest' = [newest EXCEPT ![key] = Record(key, pba, timestamp')]
        /\ read_lru' = TreeUpdate(read_lru, newest'[key])
        /\ z_pba_map' = [z_pba_map EXCEPT ![key] = pba]
        /\ RecordAndDefer(zs, act, ActivatedCursor)
        /\ writes' = writes + 1
        /\ latest' = [latest EXCEPT ![key] = writes']
        /\ inflight' = inflight \cup {[key |-> key, pba |-> pba, version |-> writes']}
        /\ UNCHANGED <<copy, queued, worker, gc, reads, media, faults, admin>>

(* The LSM record cannot be allocated: the reservation is rolled back, but *)
(* the zone stays activated.                                               *)
WriteNoMem(key) ==
    LET z == ActivatedZone
    IN  /\ faults < MaxFaults
        /\ ~Overlaps(key)
        /\ z # None
        /\ ~Unclean(key)
        /\ zone_status' = [Activated EXCEPT ![z].z_key_map[Activated[z].z_map_size] = NoKey]
        /\ active_zone' = z
        /\ next_generation' = ActivatedGeneration
        /\ free_cursor' = ActivatedCursor
        /\ faults' = faults + 1
        /\ UNCHANGED <<z_pba_map, lsmVars, gcVars, ioVars, writes, admin>>

(* imrsim_end_io: the block reaches the media; the last append in flight   *)
(* queues a pending collection (the mutant forgets to).                    *)
EndIoNoQueue(w) ==
    /\ media' = [media EXCEPT ![w.pba] = [key |-> w.key, version |-> w.version]]
    /\ inflight' = inflight \ {w}
    /\ UNCHANGED <<zoneVars, lsmVars, gcVars, reads, latest, bounds>>

EndIo(w) ==
    /\ media' = [media EXCEPT ![w.pba] = [key |-> w.key, version |-> w.version]]
    /\ inflight' = inflight \ {w}
    /\ queued' = (queued \/ (inflight' = {} /\ auto.pending # None))
    /\ UNCHANGED <<zoneVars, lsmVars, copy, candidate, auto, worker, gc, reads, latest, bounds>>

(* imrsim_lsm_delete_key, or the discard of one block.                     *)
Delete(key) ==
    LET zs == Dropped(zone_status, key)
    IN  /\ writes < MaxWrites
        /\ ~Overlaps(key)
        /\ ~Unclean(key)
        /\ timestamp' = timestamp + 1
        /\ newest' = [newest EXCEPT ![key] = Record(key, Unmapped, timestamp')]
        /\ read_lru' = TreeUpdate(TreeRemove(read_lru, key), newest'[key])
        /\ z_pba_map' = [z_pba_map EXCEPT ![key] = Unmapped]
        /\ zone_status' = zs
        /\ IF Holds(key) THEN RecordAndDefer(zs, active_zone, free_cursor)
                         ELSE UNCHANGED <<candidate, free_cursor, auto>>
        /\ queued' = (queued \/ auto'.pending # None)
        /\ writes' = writes + 1
        /\ latest' = [latest EXCEPT ![key] = 0]
        /\ UNCHANGED <<active_zone, next_generation, copy, worker, gc, inflight, reads, media,
                       faults, admin>>

(* The tombstone cannot be allocated: the cached node is gone already.     *)
DeleteNoMem(key) ==
    /\ faults < MaxFaults
    /\ ~Overlaps(key)
    /\ ~Unclean(key)
    /\ read_lru' = TreeRemove(read_lru, key)
    /\ queued' = (queued \/ auto.pending # None)
    /\ faults' = faults + 1
    /\ UNCHANGED <<zoneVars, timestamp, newest, copy, candidate, auto, worker, gc, ioVars, writes, admin>>

(* imrsim_map with a read: the lookup and the remapped bio.  Reads of      *)
(* zeros complete without touching the device.                             *)
Read(key) ==
    /\ ~Overlaps(key)
    /\ Lookup(key) # Unmapped => Cardinality(reads) < MaxReads
    /\ read_lru' = TreeAfterRead(key)
    /\ reads' = IF Lookup(key) = Unmapped THEN reads
                ELSE reads \cup {[key |-> key, pba |-> Lookup(key)]}
    /\ UNCHANGED <<zoneVars, timestamp, newest, gcVars, inflight, media, latest, bounds>>

EndRead(r) ==
    /\ reads' = reads \ {r}
    /\ UNCHANGED <<zoneVars, lsmVars, gcVars, inflight, media, latest, bounds>>
-----------------------------------------------------------------------------
(* The collector.                                                          *)

NoCopy == [source |-> None, dest |-> None]
NoGC   == [by |-> "none", plan |-> <<>>, next |-> 1]
NoWork == [pc |-> "idle", zone |-> None, ret |-> "OK"]

(* The work item picks the pending zone up, unless appends are in flight:  *)
(* then the last imrsim_end_io queues it again.                            *)
AutoWork ==
    LET z == auto.pending
        start == candidate.zone = z /\ Ready(candidate) /\ ~auto.running
    IN  /\ queued /\ worker.pc = "idle"
        /\ queued' = FALSE
        /\ IF inflight # {} \/ ~auto.run \/ z = None
           THEN UNCHANGED <<auto, worker>>
           ELSE /\ auto' = [auto EXCEPT !.pending = None, !.running = @ \/ start]
                /\ worker' = IF start THEN [pc |-> "run", zone |-> z, ret |-> "OK"] ELSE worker
        /\ UNCHANGED <<zoneVars, lsmVars, copy, candidate, gc, ioVars, bounds>>

(* What imr_lsm_prepare_zone_compaction_locked finds in the source zone.   *)
(* The mutant takes the slots of overwritten blocks for live ones.         *)
LiveSlotsStale(z) ==
    {s \in 0 .. zone_status[z].z_map_size - 1 : zone_status[z].z_key_map[s] # NoKey}

LiveSlots(z) ==
    {s \in 0 .. zone_status[z].z_map_size - 1 :
        /\ zone_status[z].z_key_map[s] # NoKey
        /\ z_pba_map[zone_status[z].z_key_map[s]] = AppendPba(z, s)}

PlanDest(z) ==
    LET free == Free(zone_status, active_zone, copy)
    IN  IF candidate.zone = z /\ candidate.dest \in free THEN candidate.dest
        ELSE FirstFrom(free \ {z}, free_cursor)

PlanCursor(z) ==
    IF PlanDest(z) = candidate.dest /\ candidate.zone = z THEN free_cursor
    ELSE CursorAfter(PlanDest(z), free_cursor)

(* One entry per live slot, in key order: the entry of the i-th live slot  *)
(* goes to slot i of the destination with the i-th new timestamp.          *)
Plan(z, dest) ==
    LET live     == LiveSlots(z)
        key(s)   == zone_status[z].z_key_map[s]
        rank(s)  == Cardinality({t \in live : t < s})
        place(s) == Cardinality({t \in live : key(t) < key(s)}) + 1
        entry(s) == [key    |-> key(s),
                     source |-> AppendPba(z, s),
                     pba    |-> AppendPba(dest, rank(s)),
                     ts     |-> timestamp + rank(s) + 1]
    IN  [i \in 1 .. Cardinality(live) |-> entry(CHOOSE s \in live : place(s) = i)]

(* Mutant: appends in flight do not stop a collection.                     *)
NeverBusy == FALSE

(* A slot may not be copied before its append has reached the device.      *)
AppendsInFlight == inflight # {}

CompactError(z) ==
    IF AppendsInFlight THEN "EBUSY"
    ELSE IF \/ z = active_zone
            \/ zone_status[z].z_conds \notin {"FULL", "CLOSED"}
            \/ zone_status[z].z_map_size = 0 THEN "EINVAL"
    ELSE IF PlanDest(z) = None THEN "ENOSPC"
    ELSE IF Cardinality(LiveSlots(z)) # zone_status[z].z_live_count THEN "EUCLEAN"
    ELSE "OK"

(* The first section of imr_lsm_compact_zone, under the compaction lock:   *)
(* make the plan and reserve the two zones.                                *)
Reserve(by, z) ==
    /\ gc.by = "none"
    /\ CompactError(z) = "OK"
    /\ gc' = [by |-> by, plan |-> Plan(z, PlanDest(z)), next |-> 1]
    /\ copy' = [source |-> z, dest |-> PlanDest(z)]
    /\ free_cursor' = PlanCursor(z)
    /\ timestamp' = timestamp + Cardinality(LiveSlots(z))
    /\ UNCHANGED <<zone_status, z_pba_map, active_zone, next_generation, newest, read_lru,
                   candidate, auto, queued, worker, ioVars, writes, faults>>

AutoReserve == worker.pc = "run" /\ Reserve("auto", worker.zone) /\ UNCHANGED admin

(* A manual collection: a zone number written to debugfs compact_zone.     *)
ManualReserve(z) == admin < MaxAdmin /\ Reserve("manual", z) /\ admin' = admin + 1

AutoRefused ==
    /\ worker.pc = "run" /\ gc.by = "none"
    /\ CompactError(worker.zone) # "OK"
    /\ worker' = [worker EXCEPT !.pc = "done", !.ret = CompactError(worker.zone)]
    /\ UNCHANGED <<zoneVars, lsmVars, copy, candidate, auto, queued, gc, ioVars, bounds>>

(* Without the locks: copy one block (the mutant copies the same one for   *)
(* ever).                                                                  *)
CopyBlockAgain ==
    /\ gc.by # "none" /\ gc.next <= Len(gc.plan)
    /\ media' = [media EXCEPT ![gc.plan[gc.next].pba] = media[gc.plan[gc.next].source]]
    /\ UNCHANGED <<zoneVars, lsmVars, gcVars, inflight, reads, latest, bounds>>

CopyBlock ==
    /\ gc.by # "none" /\ gc.next <= Len(gc.plan)
    /\ media' = [media EXCEPT ![gc.plan[gc.next].pba] = media[gc.plan[gc.next].source]]
    /\ gc' = [gc EXCEPT !.next = @ + 1]
    /\ UNCHANGED <<zoneVars, lsmVars, copy, candidate, auto, queued, worker, inflight, reads,
                   latest, bounds>>

(* The end of imr_lsm_compact_zone releases the reservation.               *)
Returns(ret) ==
    /\ gc' = NoGC
    /\ copy' = NoCopy
    /\ worker' = IF gc.by = "auto" THEN [worker EXCEPT !.pc = "done", !.ret = ret] ELSE worker

(* A block cannot be read or written, or the output segment cannot be      *)
(* allocated: nothing is published, the reservation is released.           *)
AbortCopy ==
    /\ gc.by # "none"
    /\ faults < MaxFaults
    /\ faults' = faults + 1
    /\ Returns("EIO")
    /\ UNCHANGED <<zoneVars, lsmVars, candidate, auto, queued, ioVars, writes, admin>>

EmptyZone ==
    [z_conds |-> "EMPTY", z_map_size |-> 0, z_live_count |-> 0, z_generation |-> 0,
     z_key_map |-> [s \in Slots |-> NoKey]]

PlanEntries == {gc.plan[i] : i \in DOMAIN gc.plan}

(* Mutant: the copy always wins.                                           *)
CommittedAll == PlanEntries

(* An entry is committed when no foreground write or discard of its key    *)
(* won while the copy ran.                                                 *)
Committed == {e \in PlanEntries : z_pba_map[e.key] = e.source}

Moved(key) == CHOOSE e \in Committed : e.key = key

(* The destination is appended to further if it has room and no zone is    *)
(* open; the mutant opens it whether or not another zone is.               *)
DestAlwaysOpens == Len(gc.plan) < TotalItems
DestOpens == Len(gc.plan) < TotalItems /\ active_zone = None

DestZone ==
    LET n == Len(gc.plan)
    IN  [z_conds |-> IF n = 0 THEN "EMPTY" ELSE IF DestOpens THEN "OPEN"
                     ELSE IF n = TotalItems THEN "FULL" ELSE "CLOSED",
         z_map_size |-> n,
         z_live_count |-> Cardinality(Committed),
         z_generation |-> IF n = 0 THEN 0 ELSE next_generation,
         z_key_map |-> [s \in Slots |->
            IF \E e \in PlanEntries : AppendSlot(copy.dest, e.pba) = s
            THEN (CHOOSE e \in PlanEntries : AppendSlot(copy.dest, e.pba) = s).key ELSE NoKey]]

(* The new records enter the LSM lists for every entry of the plan; the    *)
(* newest record of a key whose foreground write won stays newer.          *)
PublishedNewest ==
    [k \in Keys |->
        IF \E e \in PlanEntries : e.key = k /\ e.ts > newest[k].ts
        THEN LET e == CHOOSE f \in PlanEntries : f.key = k IN Record(k, e.pba, e.ts)
        ELSE newest[k]]

PublishedTree ==
    LET tree[i \in 0 .. Len(gc.plan)] ==
            IF i = 0 THEN read_lru
            ELSE LET e == gc.plan[i] IN TreeUpdate(tree[i - 1], Record(e.key, e.pba, e.ts))
    IN  tree[Len(gc.plan)]

(* imr_lsm_publish_zone_compaction_locked, the release of the reservation  *)
(* and the choice of the next victim.                                      *)
Publish ==
    LET zs  == [zone_status EXCEPT ![copy.dest] = DestZone, ![copy.source] = EmptyZone]
        act == IF DestZone.z_conds = "OPEN" THEN copy.dest ELSE active_zone
        old == IF candidate.zone = copy.source THEN NoCandidate ELSE candidate
        a   == IF candidate.zone = copy.source /\ auto.pending = copy.source
               THEN [auto EXCEPT !.pending = None] ELSE auto
    IN  /\ gc.by # "none" /\ gc.next > Len(gc.plan)
        /\ zone_status' = zs
        /\ z_pba_map' = [k \in Keys |-> IF \E e \in Committed : e.key = k THEN Moved(k).pba
                                        ELSE z_pba_map[k]]
        /\ active_zone' = act
        /\ next_generation' = IF gc.plan = <<>> THEN next_generation ELSE next_generation + 1
        /\ newest' = PublishedNewest
        /\ read_lru' = PublishedTree
        /\ Returns("OK")
        /\ candidate' = Candidate(zs, act, free_cursor, NoCopy, old)
        /\ free_cursor' = CandidateCursor(candidate', old, free_cursor)
        /\ auto' = Recorded(a, candidate')
        /\ UNCHANGED <<timestamp, queued, ioVars, bounds>>

(* The work item ends: a busy collection, or a new victim, is deferred and *)
(* queued again.                                                           *)
AutoDone ==
    /\ worker.pc = "done"
    /\ LET a == [auto EXCEPT !.running = FALSE]
           again == candidate.zone # None /\ (worker.ret = "EBUSY" \/ candidate.zone # worker.zone)
           next == IF again THEN Deferred(a, candidate) ELSE a
       IN  /\ auto' = next
           /\ queued' = (queued \/ next.pending # auto.pending)
    /\ worker' = NoWork
    /\ UNCHANGED <<zoneVars, lsmVars, copy, candidate, gc, ioVars, bounds>>
-----------------------------------------------------------------------------
(* Administration: the debugfs switch zone_compaction_auto_run, and the    *)
(* removal and reload of the target, which saves the zone table and the    *)
(* forward map, forgets the LSM records and recovers the allocator.        *)

SetAutoRun(on) ==
    LET a == [auto EXCEPT !.run = on]
    IN  /\ admin < MaxAdmin
        /\ admin' = admin + 1
        /\ IF on
           THEN /\ candidate' = Candidate(zone_status, active_zone, free_cursor, copy, candidate)
                /\ free_cursor' = CandidateCursor(candidate', candidate, free_cursor)
                /\ auto' = Deferred(Recorded(a, candidate'), candidate')
                /\ queued' = (queued \/ (auto'.pending # None /\ auto'.pending # auto.pending))
           ELSE auto' = [a EXCEPT !.pending = None] /\ UNCHANGED <<candidate, free_cursor, queued>>
        /\ UNCHANGED <<zone_status, z_pba_map, active_zone, next_generation, lsmVars, copy, worker,
                       gc, ioVars, writes, faults>>

(* imr_lsm_allocator_recover_locked: the newest OPEN zone is resumed, the  *)
(* others are sealed; a zone that was activated and never written is free. *)
Partial == {z \in Zones : zone_status[z].z_conds = "OPEN" /\ zone_status[z].z_map_size \in 1 .. TotalItems - 1}

Resumed ==
    IF Partial = {} THEN None
    ELSE CHOOSE z \in Partial : \A y \in Partial \ {z} :
            \/ zone_status[z].z_generation > zone_status[y].z_generation
            \/ zone_status[z].z_generation = zone_status[y].z_generation /\ z < y

Recovered ==
    [z \in Zones |->
        LET s == zone_status[z]
        IN  IF s.z_map_size = 0
            THEN [s EXCEPT !.z_live_count = 0, !.z_generation = 0, !.z_conds = "EMPTY"]
            ELSE IF s.z_map_size = TotalItems THEN [s EXCEPT !.z_conds = "FULL"]
            ELSE IF s.z_conds = "OPEN" /\ z # Resumed THEN [s EXCEPT !.z_conds = "CLOSED"]
            ELSE s]

Generations == {zone_status[z].z_generation : z \in Zones}

Reload ==
    LET cand == Candidate(Recovered, Resumed, 0, NoCopy, NoCandidate)
        a == Deferred([run |-> TRUE, pending |-> None, running |-> FALSE], cand)
    IN  /\ admin < MaxAdmin
        /\ inflight = {} /\ reads = {}
        /\ worker.pc = "idle" /\ gc.by = "none"
        /\ zone_status' = Recovered
        /\ active_zone' = Resumed
        /\ next_generation' = (CHOOSE g \in Generations : \A h \in Generations : h <= g) + 1
        /\ timestamp' = 0
        /\ newest' = [k \in Keys |-> NoRecord(k)]
        /\ read_lru' = <<>>
        /\ candidate' = cand
        /\ free_cursor' = CandidateCursor(cand, NoCandidate, 0)
        /\ auto' = a
        /\ queued' = (a.pending # None)
        /\ admin' = admin + 1
        /\ UNCHANGED <<z_pba_map, copy, worker, gc, ioVars, writes, faults>>
-----------------------------------------------------------------------------
Init ==
    /\ zone_status = [z \in Zones |-> EmptyZone]
    /\ z_pba_map = [k \in Keys |-> Unmapped]
    /\ active_zone = None /\ free_cursor = 0 /\ next_generation = 1
    /\ copy = NoCopy
    /\ candidate = NoCandidate
    /\ auto = [run |-> TRUE, pending |-> None, running |-> FALSE]
    /\ queued = FALSE
    /\ worker = NoWork
    /\ gc = NoGC
    /\ timestamp = 0
    /\ newest = [k \in Keys |-> NoRecord(k)]
    /\ read_lru = <<>>
    /\ inflight = {} /\ reads = {}
    /\ media = [p \in Pbas |-> [key |-> NoKey, version |-> 0]]
    /\ latest = [k \in Keys |-> 0]
    /\ writes = 0 /\ faults = 0 /\ admin = 0

Foreground ==
    \E k \in Keys :
        WriteNoSpace(k) \/ Write(k) \/ WriteNoMem(k) \/ Delete(k) \/ DeleteNoMem(k) \/ Read(k)

Device == (\E w \in inflight : EndIo(w)) \/ (\E r \in reads : EndRead(r))

Collector == AutoWork \/ AutoReserve \/ AutoRefused \/ CopyBlock \/ Publish \/ AutoDone

Admin == (\E z \in Zones : ManualReserve(z)) \/ (\E on \in BOOLEAN : SetAutoRun(on)) \/ Reload

Next == Foreground \/ Device \/ Collector \/ AbortCopy \/ Admin

Fairness == WF_vars(\E w \in inflight : EndIo(w)) /\ WF_vars(Collector)

Spec == Init /\ [][Next]_vars /\ Fairness
-----------------------------------------------------------------------------
ZoneRecord ==
    [z_conds : {"EMPTY", "OPEN", "CLOSED", "FULL"}, z_map_size : 0 .. TotalItems,
     z_live_count : 0 .. TotalItems, z_generation : Nat, z_key_map : [Slots -> Keys \cup {NoKey}]]

(* The zone table, the maps and the collector's registers hold what their  *)
(* C types and the geometry allow: cursors and zone numbers are zones, and *)
(* the read tree is cut back to its limit after every insertion.           *)
TypeOK ==
    /\ zone_status \in [Zones -> ZoneRecord]
    /\ z_pba_map \in [Keys -> Pbas \cup {Unmapped}]
    /\ active_zone \in Zones \cup {None} /\ free_cursor \in Zones /\ next_generation \in Nat \ {0}
    /\ copy \in [source : Zones \cup {None}, dest : Zones \cup {None}]
    /\ candidate \in [zone : Zones \cup {None}, dest : Zones \cup {None}]
    /\ auto \in [run : BOOLEAN, pending : Zones \cup {None}, running : BOOLEAN]
    /\ queued \in BOOLEAN
    /\ worker \in [pc : {"idle", "run", "done"}, zone : Zones \cup {None},
                   ret : {"OK", "EBUSY", "EINVAL", "ENOSPC", "EUCLEAN", "EIO"}]
    /\ Len(read_lru) <= ReadTreeLimit
    /\ media \in [Pbas -> [key : Keys \cup {NoKey}, version : 0 .. MaxWrites]]
    /\ latest \in [Keys -> 0 .. MaxWrites]

(* The two maps agree: the block the forward map names was appended for    *)
(* that key and is below the append pointer of its zone.                   *)
MapsAgree ==
    \A k \in Keys : Holds(k) =>
        LET z == OldZone(k)
            s == AppendSlot(z, z_pba_map[k])
        IN  s < zone_status[z].z_map_size /\ zone_status[z].z_key_map[s] = k

(* z_live_count is exactly the number of keys mapped into the zone.        *)
LiveCountExact ==
    \A z \in Zones : zone_status[z].z_live_count = Cardinality({k \in Keys : Holds(k) /\ OldZone(k) = z})

(* The zone reserved for the collector: one zone is always empty, or is    *)
(* the destination of the copy in progress.                                *)
GCReserve == Free(zone_status, active_zone, copy) # {} \/ copy.dest # None

(* No collection is refused for want of a destination or for a live count  *)
(* that does not match, and no write or discard with -EUCLEAN: whatever    *)
(* the foreground has done, a sealed zone can be collected.                *)
CollectionsFit ==
    /\ gc.by = "none" => \A z \in Zones : CompactError(z) \notin {"ENOSPC", "EUCLEAN"}
    /\ \A k \in Keys : ~Unclean(k)

(* Exactly the active zone is open.                                        *)
OneOpenZone == \A z \in Zones : zone_status[z].z_conds = "OPEN" <=> z = active_zone

(* Append bios in flight go to distinct blocks, and none to a zone that is *)
(* being copied from or to.                                                *)
AppendsDisjoint ==
    \A w \in inflight :
        /\ ZoneOf(w.pba) \notin {copy.source, copy.dest}
        /\ \A v \in inflight : v.pba = w.pba => v = w

(* Every read whose newest write has reached the device is answered with   *)
(* that write, and with zeros after a discard.                             *)
ReadsLatest ==
    \A k \in Keys :
        (\A w \in inflight : w.key = k => w.version # latest[k]) =>
            IF latest[k] = 0 THEN Lookup(k) = Unmapped
            ELSE Lookup(k) # Unmapped /\ media[Lookup(k)] = [key |-> k, version |-> latest[k]]

(* A read bio in flight reads a block of its own key.                      *)
ReadBiosOwnBlock ==
    \A r \in reads : (\A w \in inflight : w.pba # r.pba) => media[r.pba].key = r.key

(* A pending collection is taken up once the writers pause.                *)
PendingServed == (auto.pending # None) ~> (auto.pending = None)

(* A copy always ends and releases the bios waiting for its two zones.     *)
CopyEnds == (copy.dest # None) ~> (copy.dest = None)
=============================================================================
