-------------------------------- MODULE KVIMR --------------------------------
(***************************************************************************)
(* The KVIMR userspace middleware (db/kvimr.{h,cc}) between RocksDB's Env  *)
(* and the IMR device, with its track allocator, its metadata file         *)
(* KVIMR-META and the device below it.                                     *)
(*                                                                         *)
(* Every public method runs under KVIMR's mutex, so at most one is in      *)
(* progress: `op' is that method and how far it has got.  A method is      *)
(* split at each device or filesystem call and at each iteration of its    *)
(* loops: each of those calls can fail, and the machine can crash between  *)
(* any two of them.                                                        *)
(*                                                                         *)
(* An SSTable's name determines its file number (NNNNNN.sst), so a file is *)
(* named by its number; its tracks are segments[number] of the allocator.  *)
(***************************************************************************)
EXTENDS TrackAllocator

CONSTANTS
    NZones,        \* zone count InitializePersistence is called with
    Tables,        \* the SSTables that are built: [id, level]
    LargestLevel,  \* effective_largest_level given to RegisterSSTable
    MemoryOnly,    \* TRUE: InitializePersistence is never called
    Quiescent,     \* TRUE: no file has unsynced data while another is
                   \* synced or unlinked (an assumption on the callers)
    Modes,         \* the RMW modes newKVIMREnv is called with
    MaxLen,        \* bound: bytes appended to one SSTable
    MaxAppend,     \* bound: bytes of one append
    MaxFaults,     \* bound: failed device or filesystem calls
    MaxBegins,     \* bound: SSTables begun (new or rewritten)
    MaxCrashes     \* bound: crashes

ASSUME KVIMRAssumption ==
    /\ NZones \in ZoneCounts /\ NZones > 0
    /\ Tables \subseteq [id : Ids, level : Levels]
    /\ MemoryOnly \in BOOLEAN /\ Quiescent \in BOOLEAN
    /\ Modes \subseteq {"NAIVE", "MERGED"}
    /\ MaxLen \in Nat /\ MaxAppend \in Nat /\ MaxFaults \in Nat
    /\ MaxBegins \in Nat /\ MaxCrashes \in Nat

VARIABLES
    files_,     \* files_[f]: SSTableState of each known SSTable
    s2tmap_,    \* SSTable number -> its tracks, as reported outside
    persistence_enabled_,
    rmw_mode_,
    rmw_balance,  \* merged_logical_update_count - merged_rmw_count
                  \*   - merged_updates_saved, since they were last reset
    op,         \* the method holding the mutex
    disk,       \* what a read of each device byte returns
    stable,     \* device bytes that are certain to survive a crash
    meta,       \* KVIMR-META: the entries a reader of the file sees
    metaStable, \* KVIMR-META as of the last completed directory fsync
    init_status,  \* how the last InitializePersistence ended
    open,       \* SSTables with an open KVIMRWritableFile
    acked,      \* history: acked[f], the data of f whose sync was acknowledged
    faults,     \* history: failed calls so far
    begins,     \* history: BeginWrite calls so far
    crashes     \* history: crashes so far

memVars  == <<files_, s2tmap_, persistence_enabled_, rmw_mode_, rmw_balance>>
diskVars == <<disk, stable, meta, metaStable>>
envVars  == <<init_status, open, acked, faults, begins, crashes>>
vars     == <<allocVars, memVars, op, diskVars, envVars>>

Device == 0 .. NZones * kZoneSectors * kSectorSize - 1

\* The byte a table builder writes at an offset of a file: never 0, and
\* different for any two places, so that misplaced bytes show.
Payload(f, offset) == 10 * f + offset + 1

NoOp == [name |-> "none", file |-> 0, pc |-> "idle", u |-> 0, k |-> 0, todo |-> {}]

Ready == MemoryOnly \/ init_status = "ok"

MayCall == op = NoOp /\ Ready

Fault == faults < MaxFaults /\ faults' = faults + 1

NewState == [level |-> 0, largest |-> 0, synced |-> FALSE, data |-> <<>>,
             pending |-> <<>>, buffers |-> <<>>]

Put(map, key, value) ==
    [x \in DOMAIN map \cup {key} |-> IF x = key THEN value ELSE map[x]]

Erase(f, map) == [g \in DOMAIN map \ {f} |-> map[g]]

-----------------------------------------------------------------------------
(* RegisterSSTable, BeginWrite (NewWritableFile) and kvwrite (Append).     *)

\* Mutant: the table outside is keyed by the level.
RegisterByLevel(f, level, largest) ==
    LET old == IF f \in DOMAIN files_ THEN files_[f] ELSE NewState
    IN  /\ MayCall
        /\ f \notin open
        /\ files_' = Put(files_, f, [old EXCEPT !.level = level, !.largest = largest])
        /\ s2tmap_' = IF f \in DOMAIN s2tmap_ THEN s2tmap_ ELSE Put(s2tmap_, level, <<>>)
        /\ UNCHANGED <<allocVars, persistence_enabled_, rmw_mode_, rmw_balance,
                       op, diskVars, envVars>>

RegisterSSTable(f, level, largest) ==
    LET old == IF f \in DOMAIN files_ THEN files_[f] ELSE NewState
    IN  /\ MayCall
        /\ f \notin open
        /\ files_' = Put(files_, f, [old EXCEPT !.level = level, !.largest = largest])
        /\ s2tmap_' = IF f \in DOMAIN s2tmap_ THEN s2tmap_ ELSE Put(s2tmap_, f, <<>>)
        /\ UNCHANGED <<allocVars, persistence_enabled_, rmw_mode_, rmw_balance,
                       op, diskVars, envVars>>

\* Mutant: a rewritten SSTable forgets its tracks without releasing them.
BeginWriteForgets(f) ==
    /\ MayCall
    /\ f \in DOMAIN files_ \ open
    /\ begins < MaxBegins /\ begins' = begins + 1
    /\ segments' = [segments EXCEPT ![f] = <<>>]
    /\ s2tmap_' = Erase(f, s2tmap_)
    /\ files_' = [files_ EXCEPT ![f].data = <<>>, ![f].pending = <<>>,
                                ![f].buffers = <<>>, ![f].synced = FALSE]
    /\ open' = open \cup {f}
    /\ acked' = Erase(f, acked)
    /\ UNCHANGED <<zones_, owner, cursor, call, persistence_enabled_, rmw_mode_,
                   rmw_balance, op, diskVars, init_status, faults, crashes>>

BeginWrite(f) ==
    /\ MayCall
    /\ f \in DOMAIN files_ \ open
    /\ begins < MaxBegins /\ begins' = begins + 1
    /\ IF segments[f] # <<>>
       THEN Release(f) /\ s2tmap_' = Erase(f, s2tmap_)
       ELSE UNCHANGED <<allocVars, s2tmap_>>
    /\ files_' = [files_ EXCEPT ![f].data = <<>>, ![f].pending = <<>>,
                                ![f].buffers = <<>>, ![f].synced = FALSE]
    /\ open' = open \cup {f}
    /\ acked' = Erase(f, acked)
    /\ UNCHANGED <<persistence_enabled_, rmw_mode_, rmw_balance, op, diskVars,
                   init_status, faults, crashes>>

\* The callers' discipline under Quiescent: nothing else is unsynced.
OthersSynced(f) == \A g \in DOMAIN files_ \ {f} : files_[g].pending = <<>>

\* The data of a pending update is the slice of `data' it appended, so the
\* update is kept as the offset and the size of that slice.
kvwrite(f, n) ==
    LET offset == Len(files_[f].data)
    IN  /\ MayCall
        /\ f \in open \cap DOMAIN files_
        /\ Quiescent => OthersSynced(f)
        /\ offset + n <= MaxLen
        /\ files_' = [files_ EXCEPT
              ![f].data = @ \o [i \in 1 .. n |-> Payload(f, offset + i - 1)],
              ![f].pending = IF n = 0 THEN @
                             ELSE Append(@, [offset |-> offset, size |-> n]),
              ![f].synced = FALSE]
        /\ UNCHANGED <<allocVars, s2tmap_, persistence_enabled_, rmw_mode_,
                       rmw_balance, op, diskVars, envVars>>

-----------------------------------------------------------------------------
(* The payload: PersistPayloadLocked and ApplyPendingUpdatesLocked.        *)

Capacity(f, n) == TracksBytes(segments[f], n)

\* Mutant: the offset of the BOTTOM track within its group is left out.
GroupOffset(f, k) == segments[f][k].index * kGroupSectors * kSectorSize

ByteOffset(f, k) == SegmentStart(segments[f][k]) * kSectorSize

\* The device after writing the sequence `bytes' at byte `at'.
Written(at, bytes) ==
    [b \in Device |-> IF b \in at .. at + Len(bytes) - 1 THEN bytes[b - at + 1]
                                                         ELSE disk[b]]

\* `track' (a whole track, as a sequence) with the bytes of `data' from file
\* offset lo up to hi copied in, where the track holds the file from `start'.
Patched(track, data, start, lo, hi) ==
    [i \in DOMAIN track |-> IF start + i - 1 \in lo .. hi - 1
                            THEN data[start + i] ELSE track[i]]

ReadTrack(f, k) ==
    [i \in 1 .. SegmentBytes(segments[f][k].type) |-> disk[ByteOffset(f, k) + i - 1]]

Goto(pc) == op' = [op EXCEPT !.pc = pc, !.u = 1, !.k = 1]

Return == op' = NoOp

\* The method fails on entry to ApplyPendingUpdatesLocked when the file has
\* outgrown its tracks; otherwise the loop over the updates starts.
EnterApply(f, name) ==
    op' = IF Len(files_[f].data) > Capacity(f, Len(segments[f])) THEN NoOp
          ELSE [NoOp EXCEPT !.name = name, !.file = f, !.pc = "apply",
                            !.u = 1, !.k = 1]

\* One iteration of the inner loop: track k against update u.
ApplyStep ==
    LET f     == op.file
        state == files_[f]
        update == state.pending[op.u]
        track == segments[f][op.k]
        start == Capacity(f, op.k - 1)
        end   == start + SegmentBytes(track.type)
        lo    == IF update.offset > start THEN update.offset ELSE start
        hi    == IF update.offset + update.size < end
                 THEN update.offset + update.size ELSE end
        at    == ByteOffset(f, op.k)
        aligned_lo == (lo \div kSectorSize) * kSectorSize
        aligned_hi == ((hi + kSectorSize - 1) \div kSectorSize) * kSectorSize
        direct == [i \in 1 .. aligned_hi - aligned_lo |->
                      IF aligned_lo + i <= Len(state.data)
                      THEN state.data[aligned_lo + i] ELSE 0]
        merged == track.type = "TOP" /\ rmw_mode_ = "MERGED"
        loaded == op.k \in DOMAIN state.buffers
        buffer == IF loaded THEN state.buffers[op.k] ELSE ReadTrack(f, op.k)
        written == IF track.type = "TOP"
                   THEN Written(at, Patched(ReadTrack(f, op.k), state.data, start, lo, hi))
                   ELSE Written(at + aligned_lo - start, direct)
        advance == op' = IF end >= update.offset + update.size \/ op.k = Len(segments[f])
                         THEN [op EXCEPT !.u = @ + 1, !.k = 1]
                         ELSE [op EXCEPT !.k = @ + 1]
    IN  /\ op.pc = "apply"
        /\ op.u <= Len(state.pending)
        /\ \/ \* nothing of the update falls in this track
              /\ lo >= hi
              /\ advance
              /\ UNCHANGED <<files_, rmw_balance, disk, faults>>
           \/ \* naive read-modify-write of a TOP track, or aligned direct write
              /\ lo < hi /\ ~merged
              /\ disk' = written
              /\ advance
              /\ UNCHANGED <<files_, rmw_balance, faults>>
           \/ \* the same, failing before or after the device took the data
              /\ lo < hi /\ ~merged
              /\ Fault
              /\ disk' \in {disk, written}
              /\ Return
              /\ UNCHANGED <<files_, rmw_balance>>
           \/ \* merged: the update goes to the track's buffer, loaded on first use
              /\ lo < hi /\ merged
              /\ files_' = [files_ EXCEPT ![f].buffers =
                    Put(@, op.k, Patched(buffer, state.data, start, lo, hi))]
              /\ rmw_balance' = IF loaded THEN rmw_balance ELSE rmw_balance + 1
              /\ advance
              /\ UNCHANGED <<disk, faults>>
           \/ \* merged: loading the buffer fails, after the touch was counted
              /\ lo < hi /\ merged /\ ~loaded
              /\ Fault
              /\ rmw_balance' = rmw_balance + 1
              /\ Return
              /\ UNCHANGED <<files_, disk>>
        /\ UNCHANGED <<allocVars, s2tmap_, persistence_enabled_, rmw_mode_,
                       stable, meta, metaStable, init_status, open, acked, begins, crashes>>

\* Mutant: the merged buffers are never flushed.
ApplyDoneNoFlush ==
    /\ op.pc = "apply"
    /\ op.u > Len(files_[op.file].pending)
    /\ Goto("devsync")
    /\ UNCHANGED <<allocVars, memVars, diskVars, envVars>>

ApplyDone ==
    /\ op.pc = "apply"
    /\ op.u > Len(files_[op.file].pending)
    /\ Goto(IF rmw_mode_ = "MERGED" THEN "flush" ELSE "devsync")
    /\ UNCHANGED <<allocVars, memVars, diskVars, envVars>>

\* FlushMergedBuffersLocked, one buffer at a time in track order.
FlushStep ==
    LET f == op.file
        left == {k \in DOMAIN files_[f].buffers : k >= op.k}
        k == Min(left)
        written == Written(ByteOffset(f, k), files_[f].buffers[k])
    IN  /\ op.pc = "flush"
        /\ left # {}
        /\ \/ /\ disk' = written
              /\ rmw_balance' = rmw_balance - 1
              /\ op' = [op EXCEPT !.k = k + 1]
              /\ UNCHANGED faults
           \/ /\ Fault
              /\ disk' \in {disk, written}
              /\ Return
              /\ UNCHANGED rmw_balance
        /\ UNCHANGED <<allocVars, files_, s2tmap_, persistence_enabled_, rmw_mode_,
                       stable, meta, metaStable, init_status, open, acked, begins, crashes>>

FlushDone ==
    /\ op.pc = "flush"
    /\ {k \in DOMAIN files_[op.file].buffers : k >= op.k} = {}
    /\ Goto("devsync")
    /\ UNCHANGED <<allocVars, memVars, diskVars, envVars>>

\* Allocate has returned to kvsync or to PersistPayloadLocked.
Allocated ==
    LET f == op.file
    IN  /\ op.pc = "alloc"
        /\ Idle
        /\ IF call.status # "OK"
           THEN Return /\ UNCHANGED <<files_, s2tmap_>>
           ELSE /\ s2tmap_' = Put(s2tmap_, f, segments[f])
                /\ IF persistence_enabled_
                   THEN EnterApply(f, op.name) /\ UNCHANGED files_
                   ELSE files_' = [files_ EXCEPT ![f].synced = TRUE] /\ Return
        /\ UNCHANGED <<allocVars, persistence_enabled_, rmw_mode_, rmw_balance,
                       diskVars, envVars>>

CallAllocate(f, name) ==
    /\ Allocate(f, Len(files_[f].data), files_[f].level, files_[f].largest)
    /\ op' = [NoOp EXCEPT !.name = name, !.file = f, !.pc = "alloc"]

AllocatorRuns ==
    /\ op.pc = "alloc"
    /\ AllocateStep
    /\ UNCHANGED <<memVars, op, diskVars, envVars>>

-----------------------------------------------------------------------------
(* PersistSnapshotLocked: write and fdatasync a temporary file, rename it  *)
(* over KVIMR-META, fsync the directory.  Until the rename nothing a       *)
(* reader can see has changed.                                             *)

Snapshot ==
    [f \in DOMAIN files_ |->
        [level |-> files_[f].level, largest |-> files_[f].largest,
         size |-> Len(files_[f].data), synced |-> files_[f].synced,
         tracks |-> segments[f]]]

\* How the method that called PersistSnapshotLocked takes its error.
SnapshotFailed ==
    /\ files_' = IF op.name = "sync" THEN [files_ EXCEPT ![op.file].synced = FALSE]
                                     ELSE files_
    /\ Return

SnapshotRename ==
    /\ op.pc = "snapshot"
    /\ meta' = Snapshot
    /\ Goto("dirsync")
    /\ UNCHANGED <<allocVars, memVars, disk, stable, metaStable, envVars>>

SnapshotDirSync ==
    /\ op.pc = "dirsync"
    /\ metaStable' = meta
    /\ IF op.name = "sync"
       THEN /\ files_' = [files_ EXCEPT ![op.file].pending = <<>>,
                                        ![op.file].buffers = <<>>]
            /\ acked' = Put(acked, op.file, files_[op.file].data)
       ELSE UNCHANGED <<files_, acked>>
    /\ Return
    /\ UNCHANGED <<allocVars, s2tmap_, persistence_enabled_, rmw_mode_, rmw_balance,
                   disk, stable, meta, init_status, open, faults,
                   begins, crashes>>

SnapshotFault ==
    /\ op.pc \in {"snapshot", "dirsync"}
    /\ Fault
    /\ SnapshotFailed
    /\ UNCHANGED <<allocVars, s2tmap_, persistence_enabled_, rmw_mode_, rmw_balance,
                   diskVars, init_status, open, acked, begins, crashes>>

-----------------------------------------------------------------------------
(* kvsync and kvunlink.                                                    *)

\* KVIMRWritableFile::Sync, or Close, which also gives up the handle.
kvsync(f, closing) ==
    LET state == files_[f]
    IN  /\ MayCall
        /\ f \in open \cap DOMAIN files_
        /\ Quiescent => OthersSynced(f)
        /\ open' = IF closing THEN open \ {f} ELSE open
        /\ CASE state.data = <<>> /\ state.pending = <<>> ->
                  /\ files_' = [files_ EXCEPT ![f].synced = TRUE]
                  /\ op' = IF persistence_enabled_
                           THEN [NoOp EXCEPT !.name = "sync", !.file = f,
                                             !.pc = "devsync"]
                           ELSE NoOp
                  /\ UNCHANGED allocVars
             [] state.data # <<>> /\ segments[f] = <<>> ->
                  CallAllocate(f, "sync") /\ UNCHANGED files_
             [] OTHER ->
                  /\ IF persistence_enabled_
                     THEN EnterApply(f, "sync") /\ UNCHANGED files_
                     ELSE files_' = [files_ EXCEPT ![f].synced = TRUE]
                          /\ UNCHANGED op
                  /\ UNCHANGED allocVars
        /\ UNCHANGED <<s2tmap_, persistence_enabled_, rmw_mode_, rmw_balance,
                       diskVars, init_status, acked, faults, begins, crashes>>

\* Mutants: the tail of kvunlink that keeps the file's state, and the one that
\* keeps its entry in the table outside.
UnlinkKeepsState(f) ==
    /\ Release(f)
    /\ s2tmap_' = Erase(f, s2tmap_)
    /\ op' = IF persistence_enabled_
             THEN [NoOp EXCEPT !.name = "unlink", !.file = f, !.pc = "snapshot"]
             ELSE NoOp
    /\ UNCHANGED files_

UnlinkKeepsMap(f) ==
    /\ Release(f)
    /\ files_' = Erase(f, files_)
    /\ op' = IF persistence_enabled_
             THEN [NoOp EXCEPT !.name = "unlink", !.file = f, !.pc = "snapshot"]
             ELSE NoOp
    /\ UNCHANGED s2tmap_

\* The tail of kvunlink for a known file: give up tracks and state, then
\* persist the snapshot.
UnlinkRelease(f) ==
    /\ Release(f)
    /\ s2tmap_' = Erase(f, s2tmap_)
    /\ files_' = Erase(f, files_)
    /\ op' = IF persistence_enabled_
             THEN [NoOp EXCEPT !.name = "unlink", !.file = f, !.pc = "snapshot"]
             ELSE NoOp

kvunlink(f) ==
    /\ MayCall
    /\ f \notin open
    /\ Quiescent => OthersSynced(f)
    /\ acked' = Erase(f, acked)
    /\ CASE f \notin DOMAIN files_ ->
              /\ s2tmap_' = Erase(f, s2tmap_)
              /\ op' = IF persistence_enabled_
                       THEN [NoOp EXCEPT !.name = "unlink", !.file = f,
                                         !.pc = "snapshot"]
                       ELSE NoOp
              /\ UNCHANGED <<allocVars, files_>>
         [] f \in DOMAIN files_ ->
              IF persistence_enabled_ /\ files_[f].pending # <<>>
              THEN /\ IF segments[f] = <<>>
                      THEN CallAllocate(f, "unlink")
                      ELSE EnterApply(f, "unlink") /\ UNCHANGED allocVars
                   /\ UNCHANGED <<files_, s2tmap_>>
              ELSE UnlinkRelease(f)
    /\ UNCHANGED <<persistence_enabled_, rmw_mode_, rmw_balance, diskVars,
                   init_status, open, faults, begins, crashes>>

\* backend_.Sync() of kvsync and of kvunlink.
DeviceSync ==
    /\ op.pc = "devsync"
    /\ stable' = disk
    /\ IF op.name = "sync"
       THEN /\ files_' = [files_ EXCEPT ![op.file].synced = TRUE]
            /\ Goto("snapshot")
            /\ UNCHANGED <<allocVars, s2tmap_>>
       ELSE UnlinkRelease(op.file)
    /\ UNCHANGED <<persistence_enabled_, rmw_mode_, rmw_balance,
                   disk, meta, metaStable, envVars>>

DeviceSyncFault ==
    /\ op.pc = "devsync"
    /\ Fault
    /\ Return
    /\ UNCHANGED <<allocVars, memVars, diskVars, init_status, open, acked, begins, crashes>>

-----------------------------------------------------------------------------
(* InitializePersistence (called by newKVIMREnv, after SetRMWMode) and     *)
(* LoadSnapshotLocked, one metadata entry at a time in name order.         *)

InitializePersistence(mode) ==
    /\ ~MemoryOnly
    /\ op = NoOp
    /\ open = {}
    /\ rmw_mode_' = mode
    /\ files_' = <<>>
    /\ s2tmap_' = <<>>
    /\ Reset(NZones)
    /\ \/ \* the device is opened; KVIMR-META is read
          /\ persistence_enabled_' = TRUE
          /\ op' = [NoOp EXCEPT !.name = "init", !.pc = "load", !.todo = DOMAIN meta]
          /\ init_status' = "loading"
          /\ UNCHANGED faults
       \/ \* opening the device fails
          /\ Fault
          /\ init_status' = "fault"
          /\ UNCHANGED <<persistence_enabled_, op>>
    /\ UNCHANGED <<rmw_balance, diskVars, open, acked, begins, crashes>>

\* The state of an entry before and after RestorePayloadLocked.
LoadedState(e, data) ==
    [level |-> e.level, largest |-> e.largest, synced |-> e.synced,
     data |-> data, pending |-> <<>>, buffers |-> <<>>]

\* The byte of the device that holds a file's byte at `offset'.
DeviceByte(tracks, offset) ==
    LET k == CHOOSE j \in DOMAIN tracks :
                /\ TracksBytes(tracks, j - 1) <= offset
                /\ offset < TracksBytes(tracks, j)
    IN  SegmentStart(tracks[k]) * kSectorSize + offset - TracksBytes(tracks, k - 1)

LoadEntry ==
    LET f == Min(op.todo)
        e == meta[f]
        blank == [i \in 1 .. e.size |-> 0]
        short == e.size > TracksBytes(e.tracks, Len(e.tracks))
        restored == [i \in 1 .. e.size |-> disk[DeviceByte(e.tracks, i - 1)]]
    IN  /\ op.pc = "load"
        /\ op.todo # {}
        /\ IF e.tracks # <<>> THEN Restore(f, e.tracks) ELSE UNCHANGED allocVars
        /\ IF e.tracks # <<>> /\ call'.status # "OK"
           THEN /\ init_status' = "error"
                /\ Return
                /\ UNCHANGED <<files_, s2tmap_, faults>>
           ELSE /\ s2tmap_' = Put(s2tmap_, f, e.tracks)
                /\ \/ \* the payload is read back
                      /\ ~short
                      /\ files_' = Put(files_, f, LoadedState(e, restored))
                      /\ op' = [op EXCEPT !.todo = @ \ {f}]
                      /\ UNCHANGED <<init_status, faults>>
                   \/ \* "KVIMR payload shorter than metadata"
                      /\ short
                      /\ files_' = Put(files_, f, LoadedState(e, blank))
                      /\ init_status' = "error"
                      /\ Return
                      /\ UNCHANGED faults
                   \/ \* a device read fails
                      /\ e.size > 0 /\ e.tracks # <<>>
                      /\ Fault
                      /\ files_' = Put(files_, f, LoadedState(e, blank))
                      /\ init_status' = "fault"
                      /\ Return
        /\ UNCHANGED <<persistence_enabled_, rmw_mode_, rmw_balance, diskVars,
                       open, acked, begins, crashes>>

LoadDone ==
    /\ op.pc = "load"
    /\ op.todo = {}
    /\ init_status' = "ok"
    /\ Return
    /\ UNCHANGED <<allocVars, memVars, diskVars, open, acked, faults, begins, crashes>>

\* ResetRMWCounters.
ResetRMWCounters ==
    /\ op = NoOp
    /\ rmw_balance # 0
    /\ rmw_balance' = 0
    /\ UNCHANGED <<allocVars, files_, s2tmap_, persistence_enabled_, rmw_mode_,
                   op, diskVars, envVars>>

-----------------------------------------------------------------------------
SectorOf(b) == b \div kSectorSize

\* A crash: memory is lost; each sector written since the last device sync
\* has or has not reached the medium; the last rename has or has not.
Crash ==
    /\ ~MemoryOnly
    /\ crashes < MaxCrashes /\ crashes' = crashes + 1
    /\ Reset(NZones)
    /\ files_' = <<>>
    /\ s2tmap_' = <<>>
    /\ persistence_enabled_' = FALSE
    /\ rmw_mode_' = "NAIVE"
    /\ rmw_balance' = 0
    /\ op' = NoOp
    /\ \E kept \in SUBSET {SectorOf(b) : b \in {b \in Device : disk[b] # stable[b]}} :
          disk' = [b \in Device |-> IF SectorOf(b) \in kept THEN disk[b] ELSE stable[b]]
    /\ stable' = disk'
    /\ meta' \in {meta, metaStable}
    /\ metaStable' = meta'
    /\ init_status' = "none"
    /\ open' = {}
    /\ UNCHANGED <<acked, faults, begins>>

Init ==
    /\ AllocInit
    /\ zones_ = NZones
    /\ files_ = <<>>
    /\ s2tmap_ = <<>>
    /\ persistence_enabled_ = FALSE
    /\ rmw_mode_ = "NAIVE"
    /\ rmw_balance = 0
    /\ op = NoOp
    /\ disk = [b \in Device |-> 0]
    /\ stable = disk
    /\ meta = <<>>
    /\ metaStable = <<>>
    /\ init_status = "none"
    /\ open = {}
    /\ acked = <<>>
    /\ faults = 0
    /\ begins = 0
    /\ crashes = 0

\* The steps of the thread that holds the mutex.
MethodStep ==
    \/ AllocatorRuns \/ Allocated
    \/ ApplyStep \/ ApplyDone \/ FlushStep \/ FlushDone
    \/ DeviceSync \/ DeviceSyncFault
    \/ SnapshotRename \/ SnapshotDirSync \/ SnapshotFault
    \/ LoadEntry \/ LoadDone

MethodCall ==
    \/ \E t \in Tables : RegisterSSTable(t.id, t.level, LargestLevel)
    \/ \E f \in Ids : BeginWrite(f) \/ kvunlink(f)
    \/ \E f \in Ids, n \in 1 .. MaxAppend : kvwrite(f, n)
    \/ \E f \in Ids, closing \in BOOLEAN : kvsync(f, closing)
    \/ \E mode \in Modes : InitializePersistence(mode)
    \/ ResetRMWCounters

Next == MethodCall \/ MethodStep \/ Crash

\* A thread that holds the mutex keeps running; nothing makes callers call,
\* devices fail or machines crash.
Spec == Init /\ [][Next]_vars /\ WF_vars(MethodStep)

-----------------------------------------------------------------------------
\* The SSTables known in memory, in the metadata file and outside are ones
\* that were registered, and the method in progress is at one of its steps.
KTypeOK ==
    /\ DOMAIN files_ \subseteq Ids
    /\ \A f \in DOMAIN files_ : DOMAIN files_[f] = DOMAIN NewState
    /\ DOMAIN s2tmap_ \subseteq Ids
    /\ persistence_enabled_ \in BOOLEAN
    /\ rmw_mode_ \in {"NAIVE", "MERGED"}
    /\ rmw_balance \in Int
    /\ DOMAIN disk = Device /\ DOMAIN stable = Device
    /\ DOMAIN meta \subseteq Ids /\ DOMAIN metaStable \subseteq Ids
    /\ init_status \in {"none", "loading", "ok", "fault", "error"}
    /\ open \subseteq Ids
    /\ DOMAIN acked \subseteq Ids
    /\ faults \in 0 .. MaxFaults
    /\ begins \in 0 .. MaxBegins
    /\ crashes \in 0 .. MaxCrashes
    /\ op.pc \in {"idle", "alloc", "apply", "flush", "devsync", "snapshot",
                  "dirsync", "load"}

\* An SSTable whose kvsync (or Close) was acknowledged is there, with the
\* bytes that were acknowledged, whenever InitializePersistence has run to
\* its end without a failing device - after a crash anywhere, or a clean
\* reload - and until the SSTable is rewritten or unlinked.
AckedSurvives ==
    persistence_enabled_ /\ init_status \in {"ok", "error"} =>
        \A f \in DOMAIN acked :
            /\ f \in DOMAIN files_
            /\ Len(files_[f].data) >= Len(acked[f])
            /\ SubSeq(files_[f].data, 1, Len(acked[f])) = acked[f]

\* InitializePersistence succeeds unless a device call fails during it: what
\* PersistSnapshotLocked writes, LoadSnapshotLocked can always load.
SnapshotLoads == init_status # "error"

\* Between methods the allocator's owners are exactly the tracks of the known
\* files: no failure, unlink, rewrite or reload loses a track for good.
NoTrackLeak ==
    op = NoOp /\ init_status # "error" =>
        \A type \in TrackType : \A i \in Indices :
            owner[type][i] # 0 =>
                /\ owner[type][i] \in DOMAIN files_
                /\ \E k \in 1 .. Len(segments[owner[type][i]]) :
                      segments[owner[type][i]][k] = [type |-> type, index |-> i]

\* s2tmap_, which the caller-visible counts come from, agrees with the tracks
\* the files hold whenever no method is in progress.
S2TMapAgrees ==
    op = NoOp =>
        /\ \A f \in DOMAIN s2tmap_ : f \in DOMAIN files_ /\ s2tmap_[f] = segments[f]
        /\ \A f \in DOMAIN files_ : segments[f] # <<>> => f \in DOMAIN s2tmap_

\* A method writes the device only inside tracks its own file owns.
WritesOwnTracks ==
    [][\A b \in Device : disk'[b] # disk[b] /\ op # NoOp /\ persistence_enabled_' =>
          \E k \in 1 .. Len(segments[op.file]) :
             /\ b \div kSectorSize \in SegmentSectors(segments[op.file][k])
             /\ owner[segments[op.file][k].type][segments[op.file][k].index] = op.file]_vars

\* Every method returns and gives the mutex up.
MethodReturns == (op # NoOp) ~> (op = NoOp)

\* merged_logical_update_count = merged_rmw_count + merged_updates_saved
\* whenever no method is in progress.
MergedCountersBalance == op = NoOp => rmw_balance = 0
=============================================================================
