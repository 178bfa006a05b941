---------------------------- MODULE KVIMRProofs ----------------------------
(***************************************************************************)
(* Theorems about KVIMR for every device geometry, every set of SSTables   *)
(* and any number of faults and crashes.                                   *)
(***************************************************************************)
EXTENDS KVIMRSpace, TrackAllocatorProofs

(* A nonempty set of numbers has a minimum.                                *)
LEMMA LeastFound == LeastInSets
<1> SUFFICES ASSUME NEW S \in SUBSET Nat, S # {}
             PROVE  Min(S) \in S /\ \A x \in S : Min(S) <= x
    BY DEF LeastInSets
<1> QED BY LeastExists, Zenon DEF Min

-----------------------------------------------------------------------------
(* KVIMR calls its allocator only in ways that keep the allocator's        *)
(* invariant.                                                              *)

(* A call that has returned needs nothing more.                            *)
LEMMA ReturnedInv ==
    ASSUME AllocTypeOK', SegmentsOwned', NEW status, call' = Returned(status)
    PROVE  AllocInv'
BY DEF AllocInv, CallOK, Returned, NoCall

(* Reset.                                                                  *)
LEMMA ResetInv ==
    ASSUME AllocInv, NEW n \in ZoneCounts, Reset(n)
    PROVE  AllocInv'
<1>1. AllocTypeOK'
    BY ResetTypeOK DEF AllocInv
<1>2. SegmentsOwned' /\ CallOK'
    BY DEF Reset, SegmentsOwned, CallOK, NoCall
<1> QED BY <1>1, <1>2 DEF AllocInv

(* Release, of any SSTable.                                                *)
LEMMA ReleaseInv ==
    ASSUME AllocInv, NEW f \in Ids, Release(f)
    PROVE  AllocInv'
<1>1. AllocTypeOK' /\ SegmentsOwned'
    BY ReleaseTypeOK, ReleaseOwned DEF AllocInv
<1>2. \E status : call' = Returned(status)
    BY DEF Release
<1> QED BY <1>1, <1>2, ReturnedInv

(* Allocate, called for an SSTable without tracks.                         *)
LEMMA AllocateInv ==
    ASSUME AllocInv, NEW f \in Ids, NEW n \in Nat, NEW level, NEW largest, segments[f] = <<>>,
           Allocate(f, n, level, largest)
    PROVE  AllocInv'
BY AllocateTypeOK, AllocateOwned, AllocateCallOK DEF AllocInv

(* Restore, with the tracks of an entry of the metadata file.              *)
LEMMA RestoreInv ==
    ASSUME AllocInv, NEW f \in Ids, NEW s \in Seq(Track), Restore(f, s)
    PROVE  AllocInv'
<1>1. AllocTypeOK' /\ SegmentsOwned'
    BY RestoreTypeOK, RestoreOwned DEF AllocInv
<1>2. \E status : call' = Returned(status)
    BY DEF Restore
<1> QED BY <1>1, <1>2, ReturnedInv

(* What kvsync and kvunlink do to the allocator.                           *)
LEMMA CallsAllocator ==
    ASSUME SpaceInv, NEW f \in Ids, kvunlink(f) \/ (\E closing \in BOOLEAN : kvsync(f, closing))
    PROVE  AllocInv'
<1>0. AllocInv /\ FilesType
    BY DEF SpaceInv
<1>1. \/ UNCHANGED allocVars
      \/ Release(f)
      \/ \E name : f \in DOMAIN files_ /\ segments[f] = <<>> /\ CallAllocate(f, name)
    BY Zenon DEF kvsync, kvunlink, UnlinkRelease
<1>2. CASE \E name : f \in DOMAIN files_ /\ segments[f] = <<>> /\ CallAllocate(f, name)
    <2>1. f \in DOMAIN files_ /\ segments[f] = <<>>
          /\ Allocate(f, Len(files_[f].data), files_[f].level, files_[f].largest)
        BY <1>2 DEF CallAllocate
    <2>2. Len(files_[f].data) \in Nat
        BY <1>0, <2>1, IsSeqFacts DEF FilesType, StateType
    <2> QED BY <1>0, <2>1, <2>2, AllocateInv
<1> QED BY <1>0, <1>1, <1>2, SameAlloc, ReleaseInv

(* Every step of KVIMR, a crash included, keeps it.                        *)
LEMMA AllocatorKept ==
    ASSUME SpaceInv, [Next]_vars
    PROVE  AllocInv'
<1>0. AllocInv /\ OpInv /\ FilesType
    BY DEF SpaceInv
<1>1. CASE AllocatorRuns
    <2>1. AllocNext
        BY <1>1 DEF AllocatorRuns, AllocNext
    <2> QED BY <1>0, <2>1, AllocInvStep
<1>2. CASE \E f \in Ids : kvunlink(f) \/ (\E closing \in BOOLEAN : kvsync(f, closing))
    BY <1>2, CallsAllocator
<1>3. CASE \E f \in Ids : BeginWrite(f)
    BY <1>0, <1>3, SameAlloc, ReleaseInv DEF BeginWrite
<1>4. CASE DeviceSync
    <2>1. op.file \in Ids
        BY <1>0, <1>4 DEF OpInv, DeviceSync, Calls
    <2> QED BY <1>0, <1>4, <2>1, SameAlloc, ReleaseInv DEF DeviceSync, UnlinkRelease
<1>5. CASE Crash \/ (\E mode \in Modes : InitializePersistence(mode))
    BY <1>0, <1>5, ResetInv, KVIMRAssumption DEF Crash, InitializePersistence
<1>6. CASE LoadEntry
    <2>1. PICK f \in op.todo : IF meta[f].tracks # <<>> THEN Restore(f, meta[f].tracks) ELSE UNCHANGED allocVars
        BY <1>6, LeastFound, LoadEntryFacts, Zenon DEF Loads
    <2>2. f \in Ids /\ meta[f].tracks \in Seq(Track)
        BY <1>6, <2>1, Zenon DEF SpaceInv, LoadInv, MetaInv, LoadEntry
    <2> QED BY <1>0, <2>1, <2>2, SameAlloc, RestoreInv
<1>7. CASE UNCHANGED allocVars
    BY <1>0, <1>7, SameAlloc
<1>8. CASE \/ Allocated \/ ApplyStep \/ ApplyDone \/ FlushStep \/ FlushDone \/ DeviceSyncFault
           \/ SnapshotRename \/ SnapshotDirSync \/ SnapshotFault \/ LoadDone \/ UNCHANGED vars
    <2>1. UNCHANGED allocVars
        BY <1>8, Zenon DEF Allocated, ApplyStep, ApplyDone, FlushStep, FlushDone, DeviceSyncFault, SnapshotRename,
           SnapshotDirSync, SnapshotFault, LoadDone, vars
    <2> QED BY <1>7, <2>1
<1>9. CASE \/ \E t \in Tables : RegisterSSTable(t.id, t.level, LargestLevel)
           \/ \E f \in Ids, n \in 1 .. MaxAppend : kvwrite(f, n)
           \/ ResetRMWCounters
    <2>1. UNCHANGED allocVars
        BY <1>9, Zenon DEF RegisterSSTable, kvwrite, ResetRMWCounters
    <2> QED BY <1>7, <2>1
<1> QED BY <1>1, <1>2, <1>3, <1>4, <1>5, <1>6, <1>8, <1>9, Zenon DEF Next, MethodCall, MethodStep

-----------------------------------------------------------------------------
(* The invariant of the space, and what follows from it.                   *)

(* The tracks in memory, in the table outside and in both versions of the  *)
(* metadata file stay consistent through every method, failure, crash and  *)
(* reload.                                                                 *)
THEOREM SpaceInvariant == Spec => []SpaceInv
<1>1. SpaceInv /\ [Next]_vars => SpaceInv'
    <2> SUFFICES ASSUME SpaceInv, [Next]_vars PROVE SpaceInv'
        OBVIOUS
    <2>1. AllocInv'
        BY AllocatorKept
    <2>2. TakesFree
        BY ReserveNextFree, Zenon DEF TakesFree, SpaceInv, AllocInv
    <2> QED BY <2>1, <2>2, LeastFound, NextSpace
<1>2. Init => SpaceInv
    BY KVIMRAssumption, AllocInvInit, InitSpace, Zenon DEF Init
<1> QED BY <1>1, <1>2, PTL DEF Spec

(* KVIMR's state is well typed, whatever fails or crashes.                 *)
THEOREM KTypeCorrect == Spec => []KTypeOK
<1>1. SpaceInv => KTypeOK
    BY Zenon DEF SpaceInv, KTypeOK, FilesType, StateType, StateFields, NewState, MemType, EnvType, MetaInv, OpInv, Calls
<1> QED BY <1>1, SpaceInvariant, PTL

(* In the middleware too, no track is ever in the lists of two SSTables:   *)
(* rewrites, unlinks, failed allocations, crashes and reloads of KVIMR-META *)
(* included.                                                               *)
THEOREM KTracksExclusive == Spec => []SegmentsOwned
<1>1. SpaceInv => SegmentsOwned
    BY DEF SpaceInv, AllocInv
<1> QED BY <1>1, SpaceInvariant, PTL

(* No failure, unlink, rewrite, crash or reload loses a track for good:    *)
(* every track the allocator has given away is in the list of a file that  *)
(* is known and can release it.                                            *)
THEOREM NoTrackLost == Spec => []NoTrackLeak
<1>1. SpaceInv => NoTrackLeak
    BY Zenon DEF SpaceInv, LeakInv, NoTrackLeak
<1> QED BY <1>1, SpaceInvariant, PTL

(* The table outside reports the tracks the files really hold whenever no  *)
(* method is in progress.                                                  *)
THEOREM OutsideAgrees == Spec => []S2TMapAgrees
<1>1. SpaceInv => S2TMapAgrees
    <2> SUFFICES ASSUME SpaceInv, op = NoOp PROVE S2TMapAgrees
        BY Zenon DEF S2TMapAgrees
    <2>1. MapInv /\ \A f : ~Allocating(f)
        BY Zenon DEF SpaceInv, Allocating, NoOp
    <2> QED BY <2>1, Zenon DEF MapInv, S2TMapAgrees
<1> QED BY <1>1, SpaceInvariant, PTL
=============================================================================
