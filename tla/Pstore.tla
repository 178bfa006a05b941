------------------------------- MODULE Pstore -------------------------------
(***************************************************************************)
(* How the dm-imrsim target keeps its metadata on the tail of the backing  *)
(* device (imrsim_kmod/dm-imrsim.c).                                       *)
(*                                                                         *)
(* The state in memory (zone_state) is one array of bytes: a header with a *)
(* CRC of all the rest, the configuration and the device counters, the     *)
(* counters of every zone, the status of every zone and a magic number.    *)
(* Handlers change it under imrsim_zone_lock and mark what they changed in *)
(* imrsim_ptask; once a second a kernel thread copies the whole state      *)
(* under the lock and then, without the lock, writes only the pages that   *)
(* were marked, the page with the header last.  Nothing but the marks      *)
(* relates the pages that are written to the CRC, which covers all of them.*)
(*                                                                         *)
(* One action is one critical section of imrsim_zone_lock, or one page     *)
(* write.  A page write is REQ_FUA and so durable when it completes; the   *)
(* device writes a page entirely or not at all.  The order of the data     *)
(* pages within a save is left open (the code writes them in the order of  *)
(* the queue, repeating shared pages); the place of the header is kept.    *)
(* The CRC is taken to tell any two states apart: it is modelled by the    *)
(* state it was computed from.                                             *)
(***************************************************************************)
EXTENDS Integers, FiniteSets

CONSTANTS
    NumZones,        \* IMR_NUMZONES
    PageSize,        \* PAGE_SIZE
    PgOff,           \* IMR_PSTORE_PG_OFF: where the counters of the zones start
    StatBytes,       \* sizeof(struct imrsim_zone_stats)
    StatusBytes,     \* sizeof(struct imrsim_zone_status)
    Align,           \* __alignof__(struct imrsim_zone_status)
    MagicBytes,      \* sizeof(__u32)
    QDepth,          \* IMR_PSTORE_QDEPTH
    TotalItems,      \* append slots of a zone
    UsedZones,       \* zones that are full on a device used before
    MaxChanges,      \* bound: handlers that change the state
    MaxPartial,      \* bound: partial writes among them
    MaxModify,       \* bound: failed appends and imrsim_modify_zone_config
    MaxErrors,       \* bound: page writes that fail
    MaxCrashes       \* bound: crashes and removals of the target

ASSUME LayoutAssumption ==
    /\ NumZones \in Nat \ {0} /\ PageSize \in Nat \ {0}
    /\ PgOff \in Nat \ {0} /\ PgOff <= PageSize
    /\ StatBytes \in Nat \ {0} /\ StatusBytes \in Nat \ {0}
    /\ Align \in Nat \ {0} /\ MagicBytes \in Nat \ {0}

ASSUME PstoreBoundsAssumption ==
    /\ QDepth \in Nat \ {0} /\ TotalItems \in Nat \ {0}
    /\ UsedZones \subseteq 0 .. NumZones - 1
    /\ MaxChanges \in Nat /\ MaxPartial \in Nat /\ MaxModify \in Nat
    /\ MaxErrors \in Nat /\ MaxCrashes \in Nat

VARIABLES
    target,      \* "none", "formatting" (first save), "active", "stopping",
                 \* "saving" (last save)
    mem,         \* zone_state: item -> content
    disk,        \* the persistence tail: page -> content of its items
    crc,         \* header.crc32 on disk, NoHeader while page 0 is zeros
    ptask,       \* imrsim_ptask: flag, stu_zone_idx, stu_zone_idx_gap
    thread,      \* the persistence thread: its snapshot, the pages to write
    left,        \* pages imrsim_save_persistence has still to write
    partials,    \* partial writes queued on imrsim_partial_io_wq
    stray,       \* history: items changed while a page of theirs was unmarked
    torn,        \* history: a save has begun to write and has not completed
    removed,     \* history: the last save of a removal completed
    changes, modifies, errors, crashes      \* work done so far

bounds == <<changes, modifies, errors, crashes>>
vars == <<target, mem, disk, crc, ptask, thread, left, partials, stray, torn, removed, bounds>>
-----------------------------------------------------------------------------
(* The layout of the state.                                                *)

Zones == 0 .. NumZones - 1

StatsEnd  == PgOff + StatBytes * NumZones
StatusOff == ((StatsEnd + Align - 1) \div Align) * Align
MagicOff  == StatusOff + StatusBytes * NumZones
Length    == MagicOff + MagicBytes
LastPage  == (Length - 1) \div PageSize
Pages     == 0 .. LastPage

Span(start, bytes) == (start \div PageSize) .. ((start + bytes - 1) \div PageSize)
StatSpan(z)   == Span(PgOff + StatBytes * z, StatBytes)
StatusSpan(z) == Span(StatusOff + StatusBytes * z, StatusBytes)

Head      == <<"head", 0>>        \* configuration and device counters
Magic     == <<"magic", 0>>       \* the trailing magic number
Stat(z)   == <<"stat", z>>        \* stats.zone_stats[z]
Status(z) == <<"status", z>>      \* zone_status[z]
Items     == {Head, Magic} \cup {Stat(z) : z \in Zones} \cup {Status(z) : z \in Zones}

ItemPages ==
    [i \in Items |-> CASE i[1] = "head"   -> Span(0, PgOff)
                       [] i[1] = "stat"   -> StatSpan(i[2])
                       [] i[1] = "status" -> StatusSpan(i[2])
                       [] i[1] = "magic"  -> Span(MagicOff, MagicBytes)]

On == [p \in Pages |-> {i \in Items : p \in ItemPages[i]}]
Page(m, p) == [i \in On[p] |-> m[i]]

(* The content of an item: a version, and for a zone status its condition  *)
(* and z_map_size (the version then stands for its maps, its live count    *)
(* and its generation).                                                    *)
Conds == {"EMPTY", "OPEN", "CLOSED", "FULL"}
Content == [conds : Conds, size : 0 .. TotalItems, version : Nat]
States  == [Items -> Content]

Version(n) == [conds |-> "EMPTY", size |-> 0, version |-> n]

(* What imrsim_init_zone_state_default builds: nothing but the counters is *)
(* zero.  And a device of zeros, which holds no header.                    *)
DefaultState == [i \in Items |-> Version(IF i[1] = "stat" THEN 0 ELSE 1)]
BlankState   == [i \in Items |-> Version(0)]
NoHeader     == BlankState

(* What imrsim_load_persistence computes: every byte the CRC covers is     *)
(* the one it was computed from.                                           *)
Loads == crc # NoHeader /\ \A p \in Pages : disk[p] = Page(crc, p)
-----------------------------------------------------------------------------
(* Marking.                                                                *)

PgGap == 2
Marks == [flag : SUBSET {"CONFIG", "STATS", "STATUS"}, zones : SUBSET Zones, gap : {0, PgGap}]
NoMarks == [flag |-> {}, zones |-> {}, gap |-> 0]

(* imrsim_ptask_mark_config_change_locked: a full save subsumes all.       *)
MarkConfig == [flag |-> {"CONFIG"}, zones |-> {}, gap |-> 0]

MarkStats(t) == [t EXCEPT !.flag = @ \cup {"STATS"}]

(* imrsim_ptask_queue_zone_status_locked.  The mutant never finds the      *)
(* queue full.                                                             *)
QueueZoneUnlimited(t, z) ==
    [t EXCEPT !.flag = @ \cup {"STATUS"}, !.zones = @ \cup {z}]

QueueZone(t, z) ==
    IF Cardinality(t.zones) = QDepth
    THEN [t EXCEPT !.flag = @ \cup {"STATUS"}, !.gap = PgGap]
    ELSE [t EXCEPT !.flag = @ \cup {"STATUS"}, !.zones = @ \cup {z}]

FullSave(t) == "CONFIG" \in t.flag \/ t.gap >= PgGap

(* The last page with counters of zones: pg_nxt.                           *)
StatsLast == (PgOff + StatBytes * NumZones - 1) \div PageSize

(* The data pages imrsim_write_persistence_snapshot writes for the marks.  *)
DataPages(t) ==
    IF FullSave(t) THEN Pages \ {0}
    ELSE (IF "STATS" \in t.flag THEN 1 .. StatsLast ELSE {})
         \cup (IF "STATUS" \in t.flag THEN UNION {ItemPages[Status(z)] : z \in t.zones} ELSE {})

Marked(t) == IF t.flag = {} THEN {} ELSE {0} \cup DataPages(t)

(* The end of every handler that has changed the state to m and the marks  *)
(* to t; the history of strays is kept here.                               *)
Commit(m, t) ==
    /\ mem' = m
    /\ ptask' = t
    /\ stray' = stray \cup {i \in Items : m[i] # mem[i] /\ ~(ItemPages[i] \subseteq Marked(t))}
-----------------------------------------------------------------------------
(* Handlers, each under imrsim_zone_lock of an active target.              *)

(* imrsim_dev_idle_update and the device totals: the head changes.         *)
Bump(m, i) == [m EXCEPT ![i].version = @ + 1]

(* The maps of the zones of Z change.                                      *)
Touch(m, Z) ==
    [i \in Items |-> IF i \in {Status(z) : z \in Z} THEN [m[i] EXCEPT !.version = @ + 1] ELSE m[i]]

(* imrsim_target_ready_locked.  The mutant lets handlers in until the      *)
(* target is gone.                                                         *)
HandlerUngated ==
    /\ target \in {"active", "stopping", "saving"}
    /\ changes < MaxChanges /\ changes' = changes + 1

Handler == target = "active" /\ changes < MaxChanges /\ changes' = changes + 1

Rest == UNCHANGED <<target, disk, crc, thread, left, torn, removed, errors, crashes>>

(* The zones an append may go to: an open one with room, or a free one.    *)
(* Which of them the allocator takes is left open here.                    *)
AppendZones ==
    {z \in Zones : mem[Status(z)].size < TotalItems
                   /\ (mem[Status(z)].conds = "OPEN" \/ mem[Status(z)].size = 0)}

(* The zones a superseded mapping may point into; the key's own logical    *)
(* zone stands for "there is none".                                        *)
OldZones(lz) == {lz} \cup {z \in Zones : mem[Status(z)].size > 0}

(* imr_lsm_append_logical_block_locked of a key of logical zone lz into    *)
(* physical zone pz, superseding a block of zone oz.                       *)
AppendState(m, lz, oz, pz) ==
    [Touch(m, {lz, oz, pz}) EXCEPT
        ![Status(pz)].size = @ + 1,
        ![Status(pz)].conds = IF m[Status(pz)].size + 1 = TotalItems THEN "FULL" ELSE "OPEN"]

(* Its marks: the zone if it is activated, the logical zone, the old zone, *)
(* the zone, and the caller's mark of the logical zone.                    *)
AppendMarks(t, lz, oz, pz) ==
    LET activated == IF mem[Status(pz)].conds = "OPEN" THEN t ELSE QueueZone(t, pz)
    IN  QueueZone(QueueZone(QueueZone(QueueZone(activated, lz), oz), pz), lz)

(* imrsim_active_write_rule_check counts the write of the zone.            *)
Counted(m, pz) == Bump(Bump(m, Stat(pz)), Head)

(* imrsim_map with an aligned 4 KiB write.                                 *)
Write(lz, oz, pz) ==
    /\ Handler
    /\ oz \in OldZones(lz) /\ pz \in AppendZones
    /\ Commit(Counted(AppendState(mem, lz, oz, pz), pz),
              AppendMarks(MarkStats(ptask), lz, oz, pz))
    /\ Rest /\ UNCHANGED <<partials, modifies>>

(* The append fails after it has activated a free zone (no memory for the  *)
(* record): the reservation is rolled back and the zone stays open, empty. *)
WriteNoMem(pz) ==
    /\ Handler /\ modifies < MaxModify
    /\ mem[Status(pz)].size = 0 /\ mem[Status(pz)].conds # "OPEN"
    /\ Commit([Touch(Bump(mem, Head), {pz}) EXCEPT ![Status(pz)].conds = "OPEN"],
              QueueZone(MarkStats(ptask), pz))
    /\ modifies' = modifies + 1
    /\ Rest /\ UNCHANGED partials

(* imrsim_map with a write that is not one aligned block: counted and      *)
(* queued for the worker ...                                               *)
PartialQueue(lz) ==
    /\ Handler /\ Cardinality(partials) < MaxPartial /\ lz \notin partials
    /\ Commit(Bump(Bump(mem, Head), Stat(lz)), MarkStats(ptask))
    /\ partials' = partials \cup {lz}
    /\ Rest /\ UNCHANGED modifies

(* ... which later appends the merged block, and marks no counters.  (A    *)
(* worker that finds no page changes nothing.)                             *)
PartialWork(lz, oz, pz) ==
    /\ target = "active" /\ lz \in partials
    /\ oz \in OldZones(lz) /\ pz \in AppendZones
    /\ Commit(Counted(AppendState(mem, lz, oz, pz), pz), AppendMarks(ptask, lz, oz, pz))
    /\ partials' = partials \ {lz}
    /\ UNCHANGED <<target, disk, crc, thread, left, torn, removed, bounds>>

PartialFails(lz) ==
    /\ target = "active" /\ lz \in partials
    /\ partials' = partials \ {lz}
    /\ UNCHANGED <<target, mem, disk, crc, ptask, thread, left, stray, torn, removed, bounds>>

(* imrsim_map with a discard of a mapped block.                            *)
Discard(lz, oz) ==
    /\ Handler
    /\ oz \in OldZones(lz)
    /\ Commit(Touch(Bump(mem, Head), {lz, oz}), QueueZone(QueueZone(MarkStats(ptask), lz), oz))
    /\ Rest /\ UNCHANGED <<partials, modifies>>

(* imrsim_map with a read that is out of policy; an ioctl.                 *)
Read(z) ==
    /\ Handler
    /\ Commit(Bump(Bump(mem, Head), Stat(z)), MarkStats(ptask))
    /\ Rest /\ UNCHANGED <<partials, modifies>>

(* imr_lsm_publish_zone_compaction_locked: n live blocks of the victim src *)
(* are now in the free zone dst, and src is reclaimed.  The keys that      *)
(* moved are of logical zone lz (src stands for "a newer write won").      *)
GcPublish(src, dst, lz, n) ==
    /\ Handler
    /\ mem[Status(src)].conds \in {"FULL", "CLOSED"} /\ n < mem[Status(src)].size
    /\ mem[Status(dst)].size = 0
    /\ \E c \in IF n = 0 THEN {"EMPTY"} ELSE {"OPEN", "CLOSED"} :
          Commit([Touch(mem, IF n = 0 THEN {src, dst} ELSE {src, dst, lz}) EXCEPT
                    ![Status(dst)].size = n, ![Status(dst)].conds = c,
                    ![Status(src)].size = 0, ![Status(src)].conds = "EMPTY"],
                 LET both == QueueZone(QueueZone(ptask, src), dst)
                 IN  QueueZone(IF n = 0 THEN both ELSE QueueZone(both, lz), src))
    /\ Rest /\ UNCHANGED <<partials, modifies>>

(* The configuration setters; imrsim_reset_default_zone_config rebuilds    *)
(* the whole state.  The mutant marks it as a change of counters.          *)
SetConfigAsStats(m) ==
    /\ Handler
    /\ Commit(m, MarkStats(ptask))
    /\ Rest /\ UNCHANGED <<partials, modifies>>

SetConfig(m) ==
    /\ Handler
    /\ Commit(m, MarkConfig)
    /\ Rest /\ UNCHANGED <<partials, modifies>>

(* imrsim_reset_zone_stats and imrsim_reset_stats, which also clears the   *)
(* totals of the device.                                                   *)
Totals(Z) == IF Z = Zones THEN Bump(mem, Head) ELSE mem

ResetStats(Z) ==
    /\ Handler
    /\ Commit([i \in Items |-> IF i \in {Stat(z) : z \in Z} THEN Version(0) ELSE Totals(Z)[i]],
              MarkStats(ptask))
    /\ Rest /\ UNCHANGED <<partials, modifies>>

(* imrsim_modify_zone_config of a sequential zone.                         *)
ModifyZone(z, c) ==
    /\ Handler /\ modifies < MaxModify
    /\ Commit([mem EXCEPT ![Status(z)].conds = c], QueueZone(ptask, z))
    /\ modifies' = modifies + 1
    /\ Rest /\ UNCHANGED partials
-----------------------------------------------------------------------------
(* The persistence thread.                                                 *)

Idle == [busy |-> FALSE, marks |-> NoMarks, snap |-> BlankState, todo |-> {}]

(* imrsim_capture_persistence_snapshot_locked; the loop may still come     *)
(* here while kthread_stop waits for it.  (The capacity test never fails:  *)
(* only the default geometry is accepted.)  The mutant does not wake up    *)
(* for counters alone.                                                     *)
CaptureZones ==
    /\ target \in {"active", "stopping"}
    /\ ~thread.busy /\ ptask.flag \notin {{}, {"STATS"}}
    /\ thread' = [busy |-> TRUE, marks |-> ptask, snap |-> mem, todo |-> DataPages(ptask)]
    /\ ptask' = NoMarks
    /\ UNCHANGED <<target, mem, disk, crc, left, partials, stray, torn, removed, bounds>>

Capture ==
    /\ target \in {"active", "stopping"}
    /\ ~thread.busy /\ ptask.flag # {}
    /\ thread' = [busy |-> TRUE, marks |-> ptask, snap |-> mem, todo |-> DataPages(ptask)]
    /\ ptask' = NoMarks
    /\ UNCHANGED <<target, mem, disk, crc, left, partials, stray, torn, removed, bounds>>

(* A page of the state m reaches the device; the header is in page 0.      *)
PutPage(m, p) ==
    /\ disk' = [disk EXCEPT ![p] = Page(m, p)]
    /\ crc' = IF p = 0 THEN m ELSE crc

(* imrsim_write_persistence_snapshot: the data pages, then the header.     *)
WriteData(p) ==
    /\ thread.busy /\ p \in thread.todo
    /\ PutPage(thread.snap, p)
    /\ thread' = [thread EXCEPT !.todo = @ \ {p}]
    /\ torn' = TRUE
    /\ UNCHANGED <<target, mem, ptask, left, partials, stray, removed, bounds>>

(* The mutant writes the header as soon as there is one page left.         *)
WriteHeaderEarly ==
    /\ thread.busy /\ Cardinality(thread.todo) <= 1
    /\ PutPage(thread.snap, 0)
    /\ thread' = Idle
    /\ torn' = FALSE
    /\ UNCHANGED <<target, mem, ptask, left, partials, stray, removed, bounds>>

WriteHeader ==
    /\ thread.busy /\ thread.todo = {}
    /\ PutPage(thread.snap, 0)
    /\ thread' = Idle
    /\ torn' = FALSE
    /\ UNCHANGED <<target, mem, ptask, left, partials, stray, removed, bounds>>

(* imrsim_restore_persistence_snapshot_locked: s is put back into t.  The  *)
(* zones of s are queued one by one; which of them still find room depends *)
(* on the order of the queue, which is left open.                          *)
Restored(t, s, r) ==
    /\ r.flag = t.flag \cup s.flag
    /\ t.zones \subseteq r.zones /\ r.zones \subseteq t.zones \cup s.zones
    /\ Cardinality(r.zones) <= QDepth
    /\ r.zones # t.zones \cup s.zones => Cardinality(r.zones) = QDepth /\ r.gap = PgGap
    /\ FullSave(s) => r.gap = PgGap
    /\ r.gap # t.gap => r.gap = PgGap /\ (FullSave(s) \/ Cardinality(r.zones) = QDepth)

(* A page write fails, with or without its effect on the device; the loop  *)
(* puts the marks back and tries again later.  The mutant forgets them.    *)
WriteFailsForgetting(p, r) ==
    /\ thread.busy /\ errors < MaxErrors
    /\ p \in thread.todo \/ (thread.todo = {} /\ p = 0)
    /\ PutPage(thread.snap, p) \/ UNCHANGED <<disk, crc>>
    /\ thread' = Idle
    /\ torn' = TRUE
    /\ errors' = errors + 1
    /\ UNCHANGED <<target, mem, ptask, left, partials, stray, removed, changes, modifies, crashes>>

WriteFails(p, r) ==
    /\ thread.busy /\ errors < MaxErrors
    /\ p \in thread.todo \/ (thread.todo = {} /\ p = 0)
    /\ PutPage(thread.snap, p) \/ UNCHANGED <<disk, crc>>
    /\ Restored(ptask, thread.marks, r)
    /\ ptask' = r
    /\ thread' = Idle
    /\ torn' = TRUE
    /\ errors' = errors + 1
    /\ UNCHANGED <<target, mem, left, partials, stray, removed, changes, modifies, crashes>>
-----------------------------------------------------------------------------
(* Creation and removal of the target, and crashes.                        *)

(* imr_lsm_allocator_recover_locked: zones without blocks become EMPTY,    *)
(* full ones FULL, and of the open ones only the newest stays open.        *)
RecoverZone(s, newest) ==
    IF s.size = 0 THEN [s EXCEPT !.conds = "EMPTY"]
    ELSE IF s.size = TotalItems THEN [s EXCEPT !.conds = "FULL"]
    ELSE IF s.conds = "OPEN" /\ ~newest THEN [s EXCEPT !.conds = "CLOSED"]
    ELSE s

OpenZones(m) == {z \in Zones : m[Status(z)].conds = "OPEN" /\ m[Status(z)].size \in 1 .. TotalItems - 1}

Recovered(m, newest) ==
    [i \in Items |-> IF i[1] = "status" THEN RecoverZone(m[i], i[2] = newest) ELSE m[i]]

(* Its marks t: only the zones it closes are queued, as many as there is   *)
(* room for (the code takes the lowest, which is left open here).          *)
RecoverMarks(m, newest, t) ==
    LET closed == OpenZones(m) \ {newest}
    IN  /\ t.flag = IF closed = {} THEN {} ELSE {"STATUS"}
        /\ t.zones \subseteq closed /\ Cardinality(t.zones) <= QDepth
        /\ IF t.zones = closed THEN t.gap = 0
           ELSE Cardinality(t.zones) = QDepth /\ t.gap = PgGap

(* imrsim_ctr with a tail that loads.                                      *)
Load(newest, t) ==
    /\ target = "none" /\ Loads
    /\ IF OpenZones(crc) = {} THEN newest = NumZones ELSE newest \in OpenZones(crc)
    /\ mem' = Recovered(crc, newest)
    /\ RecoverMarks(crc, newest, t)
    /\ ptask' = t
    /\ stray' = {i \in Items : mem'[i] # crc[i] /\ ~(ItemPages[i] \subseteq Marked(t))}
    /\ target' = "active"
    /\ torn' = FALSE /\ removed' = FALSE
    /\ UNCHANGED <<disk, crc, thread, left, partials, bounds>>

(* imrsim_ctr with a tail of zeros: defaults, and a first save.            *)
Format ==
    /\ target = "none" /\ crc = NoHeader
    /\ mem' = DefaultState
    /\ ptask' = NoMarks
    /\ left' = Pages
    /\ target' = "formatting"
    /\ UNCHANGED <<disk, crc, thread, partials, stray, torn, removed, bounds>>

(* imrsim_ctr with a tail that does not load: -EUCLEAN.                    *)
Refuse ==
    /\ target = "none" /\ crc # NoHeader /\ ~Loads
    /\ UNCHANGED vars

(* imrsim_save_persistence of a new or a dying target: the header first.   *)
SavePage(p) ==
    /\ target \in {"formatting", "saving"}
    /\ p \in left /\ \A q \in left : p <= q
    /\ PutPage(mem, p)
    /\ left' = left \ {p}
    /\ torn' = (left' # {})
    /\ stray' = IF left' = {} THEN {} ELSE stray
    /\ target' = IF left' # {} THEN target ELSE IF target = "saving" THEN "none" ELSE "active"
    /\ removed' = (left' = {} /\ target = "saving")
    /\ UNCHANGED <<mem, ptask, thread, partials, bounds>>

SaveFails(p) ==
    /\ target \in {"formatting", "saving"}
    /\ errors < MaxErrors
    /\ p \in left /\ \A q \in left : p <= q
    /\ PutPage(mem, p) \/ UNCHANGED <<disk, crc>>
    /\ left' = {}
    /\ torn' = TRUE
    /\ target' = "none"
    /\ mem' = BlankState
    /\ errors' = errors + 1
    /\ UNCHANGED <<ptask, thread, partials, stray, removed, changes, modifies, crashes>>

(* imrsim_dtr: close the gate (device-mapper has drained the bios), wait   *)
(* for the thread, save everything.                                        *)
Stop ==
    /\ target = "active" /\ partials = {}
    /\ crashes < MaxCrashes
    /\ target' = "stopping"
    /\ crashes' = crashes + 1
    /\ UNCHANGED <<mem, disk, crc, ptask, thread, left, partials, stray, torn, removed, changes, modifies, errors>>

BeginLastSave ==
    /\ target = "stopping" /\ ~thread.busy
    /\ target' = "saving"
    /\ left' = Pages
    /\ UNCHANGED <<mem, disk, crc, ptask, thread, partials, stray, torn, removed, bounds>>

(* Power is lost: what is on the device stays.                             *)
Crash ==
    /\ target # "none"
    /\ crashes < MaxCrashes
    /\ crashes' = crashes + 1
    /\ target' = "none"
    /\ mem' = BlankState
    /\ ptask' = NoMarks
    /\ thread' = Idle
    /\ left' = {}
    /\ partials' = {}
    /\ UNCHANGED <<disk, crc, stray, torn, removed, changes, modifies, errors>>
-----------------------------------------------------------------------------
(* What an earlier run of the target left on the device.                   *)
UsedState ==
    [i \in Items |-> IF i \in {Status(z) : z \in UsedZones}
                     THEN [conds |-> "FULL", size |-> TotalItems, version |-> 1]
                     ELSE DefaultState[i]]

Init ==
    /\ target = "none"
    /\ mem = BlankState
    /\ crc \in {NoHeader, UsedState}
    /\ disk = [p \in Pages |-> Page(crc, p)]
    /\ ptask = NoMarks
    /\ thread = Idle
    /\ left = {} /\ partials = {} /\ stray = {}
    /\ torn = FALSE /\ removed = FALSE
    /\ changes = 0 /\ modifies = 0 /\ errors = 0 /\ crashes = 0

Handlers ==
    \/ \E lz, oz, pz \in Zones : Write(lz, oz, pz)
    \/ \E z \in Zones : WriteNoMem(z)
    \/ \E z \in Zones : PartialQueue(z)
    \/ \E lz, oz, pz \in Zones : PartialWork(lz, oz, pz)
    \/ \E z \in Zones : PartialFails(z)
    \/ \E lz, oz \in Zones : Discard(lz, oz)
    \/ \E z \in Zones : Read(z)
    \/ \E src, dst, lz \in Zones, n \in 0 .. TotalItems - 1 : GcPublish(src, dst, lz, n)
    \/ \E m \in {Bump(mem, Head), DefaultState} : SetConfig(m)
    \/ \E Z \in {{z} : z \in Zones} \cup {Zones} : ResetStats(Z)
    \/ \E z \in Zones, c \in Conds \ {"EMPTY"} : ModifyZone(z, c)

ThreadSteps ==
    \/ Capture
    \/ \E p \in Pages : WriteData(p)
    \/ WriteHeader

Next ==
    \/ Handlers
    \/ ThreadSteps
    \/ \E p \in Pages, r \in Marks : WriteFails(p, r)
    \/ \E z \in 0 .. NumZones, t \in Marks : Load(z, t)
    \/ Format \/ Refuse
    \/ \E p \in Pages : SavePage(p) \/ SaveFails(p)
    \/ Stop \/ BeginLastSave
    \/ Crash

(* The thread is woken every second and a page write completes or fails;   *)
(* nothing obliges a caller, the failures or the power to act.             *)
Spec == Init /\ [][Next]_vars /\ WF_vars(ThreadSteps)
-----------------------------------------------------------------------------
(* Types, and: the queue never holds more zones than it has room for, and  *)
(* a zone is only queued under the flag that has the queue read.           *)
TypeOK ==
    /\ target \in {"none", "formatting", "active", "stopping", "saving"}
    /\ mem \in States /\ crc \in States
    /\ DOMAIN disk = Pages /\ \A p \in Pages : disk[p] \in [On[p] -> Content]
    /\ ptask \in Marks
    /\ Cardinality(ptask.zones) <= QDepth
    /\ ptask.zones # {} => "STATUS" \in ptask.flag
    /\ thread \in [busy : BOOLEAN, marks : Marks, snap : States, todo : SUBSET Pages]
    /\ left \subseteq Pages
    /\ partials \subseteq Zones /\ stray \subseteq Items
    /\ {torn, removed} \subseteq BOOLEAN
    /\ {changes, modifies, errors, crashes} \subseteq Nat

(* The page p holds, or will hold once the running save is through, what   *)
(* memory holds (in the items no stray change has reached).                *)
Follows(p, m) == \A i \in On[p] \ stray : disk[p][i] = m[i]

(* No change is forgotten: while the target runs, a page whose content     *)
(* differs from what the thread last took is marked, and a page that       *)
(* differs on the device from what it took is still to be written,         *)
(* whatever the queue's limit, a configuration change that clears the      *)
(* queue and failed writes did to the marks.                               *)
DirtyIsMarked ==
    target \in {"active", "stopping"} =>
        IF thread.busy
        THEN /\ \A p \in Pages \ Marked(ptask) : \A i \in On[p] \ stray : mem[i] = thread.snap[i]
             /\ \A p \in Pages \ (thread.todo \cup {0}) : Follows(p, thread.snap)
        ELSE \A p \in Pages \ Marked(ptask) : Follows(p, mem)

(* The metadata on the device is refused by a later imrsim_ctr only if a   *)
(* save was cut short or failed between its first and its last page write, *)
(* or a change went past the marks.                                        *)
RefusedOnlyIfTorn == crc # NoHeader /\ ~torn /\ stray = {} => Loads

(* Every handler leaves the pages of all it changed marked for the next    *)
(* save, whatever was queued before.  The exceptions: the counters bumped  *)
(* by the worker of a partial write, which relies on the flag set when the *)
(* write was queued, and recovery, which queues only the zones it closes.  *)
HandlersMark ==
    [][ \/ stray' \subseteq stray
        \/ target = "none"
        \/ partials' # partials /\ stray' \ stray \subseteq {Stat(z) : z \in Zones} ]_vars

(* imrsim_dtr: "an orderly dm remove cannot lose the final second of       *)
(* metadata updates": what the next creation loads is the memory of the    *)
(* removed target.                                                         *)
RemovalSavesAll == removed => Loads /\ crc = mem

(* Every header the thread puts on the device comes after the pages its    *)
(* CRC covers: "Commit the CRC-bearing header only after all snapshot data *)
(* pages."                                                                 *)
HeaderIsLast == [][crc' # crc /\ thread.busy => \A p \in Pages : disk'[p] = Page(crc', p)]_vars

(* Once the handlers pause, a running target is saved: the thread runs out *)
(* of marks, failed writes notwithstanding.                                *)
SavesCatchUp == target = "active" ~> (target # "active" \/ (ptask.flag = {} /\ ~thread.busy))
=============================================================================
