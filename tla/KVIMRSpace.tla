---------------------------- MODULE KVIMRSpace ----------------------------
(***************************************************************************)
(* The inductive invariant of KVIMR's space, SpaceInv, and the proof that  *)
(* every step keeps it, for every device geometry, every set of SSTables   *)
(* and any number of faults and crashes.  What it needs of the allocator   *)
(* is a hypothesis here; KVIMRProofs discharges it.                        *)
(***************************************************************************)
EXTENDS KVIMR, TLAPS

-----------------------------------------------------------------------------
(* The invariant of the space: which tracks belong to whom, in memory, in  *)
(* the table outside and in the two versions of the metadata file.         *)

Calls == {"alloc", "apply", "flush", "devsync", "snapshot", "dirsync"}

\* The method in progress works on a file that is known.
OnFile == op.pc \in Calls /\ (op.pc \in {"snapshot", "dirsync"} => op.name = "sync")

OpFields == {"name", "file", "pc", "u", "k", "todo"}

OpInv ==
    /\ DOMAIN op = OpFields
    /\ op = NoOp <=> op.pc = "idle"
    /\ op.pc \in Calls \cup {"idle", "load"}
    /\ op.u \in Nat /\ op.k \in Nat
    /\ op.pc \in Calls => op.file \in Ids /\ op.name \in {"sync", "unlink"} /\ Ready
    /\ op.pc \in Calls \ {"alloc"} => persistence_enabled_
    /\ OnFile => op.file \in DOMAIN files_
    /\ call.op = "allocate" => op.pc = "alloc" /\ call.id = op.file
    /\ op.pc = "load" <=> init_status = "loading"
    /\ MemoryOnly => init_status = "none"

StateFields == {"level", "largest", "synced", "data", "pending", "buffers"}

IsSeq(q) == \E S : q \in Seq(S)

StateType(s) ==
    /\ DOMAIN s = StateFields
    /\ IsSeq(s.data)
    /\ s.pending \in Seq([offset : Nat, size : Nat])
    /\ DOMAIN s.buffers \subseteq Nat

FilesType ==
    /\ DOMAIN files_ \subseteq Ids
    /\ \A f \in DOMAIN files_ : StateType(files_[f])

MemType ==
    /\ DOMAIN s2tmap_ \subseteq Ids
    /\ persistence_enabled_ \in BOOLEAN
    /\ rmw_mode_ \in {"NAIVE", "MERGED"}
    /\ rmw_balance \in Int

EnvType ==
    /\ DOMAIN disk = Device /\ DOMAIN stable = Device
    /\ init_status \in {"none", "loading", "ok", "fault", "error"}
    /\ open \subseteq Ids
    /\ DOMAIN acked \subseteq Ids
    /\ faults \in 0 .. MaxFaults
    /\ begins \in 0 .. MaxBegins
    /\ crashes \in 0 .. MaxCrashes

\* The entries of a metadata file name tracks of the device, and no track twice.
MetaInv(M) ==
    /\ DOMAIN M \subseteq Ids
    /\ \A f \in DOMAIN M :
          /\ M[f].tracks \in Seq(Track) /\ M[f].size \in Nat
          /\ \A k \in 1 .. Len(M[f].tracks) : M[f].tracks[k].index \in 0 .. TrackCount(NZones) - 1
    /\ \A f, g \in DOMAIN M : \A j \in 1 .. Len(M[f].tracks), k \in 1 .. Len(M[g].tracks) :
          M[f].tracks[j] = M[g].tracks[k] => f = g /\ j = k

\* Every owned track is one its owner, a known file, lists; only known files
\* have tracks.
LeakInv ==
    /\ \A type \in TrackType : \A i \in Indices :
          owner[type][i] # 0 =>
             /\ owner[type][i] \in DOMAIN files_
             /\ \E k \in 1 .. Len(segments[owner[type][i]]) :
                   segments[owner[type][i]][k] = [type |-> type, index |-> i]
    /\ \A f \in Ids \cup {0} : f \notin DOMAIN files_ => segments[f] = <<>>

\* The file an Allocate call is made for.
Allocating(f) == op.pc = "alloc" /\ f = op.file

MapInv ==
    /\ \A f \in DOMAIN s2tmap_ :
          /\ f \in DOMAIN files_
          /\ IF Allocating(f) THEN s2tmap_[f] = <<>> ELSE s2tmap_[f] = segments[f]
    /\ \A f \in DOMAIN files_ : segments[f] # <<>> => f \in DOMAIN s2tmap_ \/ Allocating(f)
    /\ op.pc = "alloc" /\ Idle /\ call.status # "OK" => segments[op.file] = <<>>

\* What LoadSnapshotLocked has loaded is what the metadata file says.
LoadInv ==
    op.pc = "load" =>
        /\ op.todo \subseteq DOMAIN meta
        /\ DOMAIN files_ = DOMAIN meta \ op.todo
        /\ \A f \in DOMAIN files_ : segments[f] = meta[f].tracks

SpaceInv ==
    /\ AllocInv /\ zones_ = NZones
    /\ OpInv /\ FilesType /\ MemType /\ EnvType
    /\ MetaInv(meta) /\ MetaInv(metaStable)
    /\ LeakInv /\ MapInv /\ LoadInv

-----------------------------------------------------------------------------
(* What the lemmas below take from elsewhere as hypotheses: AllocInv' and  *)
(* TakesFree from the facts about the allocator, and LeastInSets from      *)
(* those about the naturals.                                               *)

TakesFree == ReserveNext => NextFree(call.tier) \in Free(call.tier)

LeastInSets == \A S \in SUBSET Nat : S # {} => Min(S) \in S /\ \A x \in S : Min(S) <= x

-----------------------------------------------------------------------------
(* Sequences of any elements.                                              *)

(* Their length, their positions, and what concatenation does.             *)
LEMMA IsSeqFacts ==
    /\ \A q : IsSeq(q) => Len(q) \in Nat /\ DOMAIN q = 1 .. Len(q)
    /\ \A q, r : IsSeq(q) /\ IsSeq(r) =>
          /\ IsSeq(q \o r) /\ Len(q \o r) = Len(q) + Len(r)
          /\ \A i \in 1 .. Len(q) : (q \o r)[i] = q[i]
          /\ \A i \in 1 .. Len(r) : (q \o r)[Len(q) + i] = r[i]
<1>1. ASSUME NEW q, IsSeq(q) PROVE Len(q) \in Nat /\ DOMAIN q = 1 .. Len(q)
    <2>1. PICK S : q \in Seq(S)
        BY <1>1 DEF IsSeq
    <2> QED BY <2>1
<1>2. ASSUME NEW q, NEW r, IsSeq(q), IsSeq(r)
      PROVE  /\ IsSeq(q \o r) /\ Len(q \o r) = Len(q) + Len(r)
             /\ \A i \in 1 .. Len(q) : (q \o r)[i] = q[i]
             /\ \A i \in 1 .. Len(r) : (q \o r)[Len(q) + i] = r[i]
    <2>1. PICK S : q \in Seq(S)
        BY <1>2 DEF IsSeq
    <2>2. PICK T : r \in Seq(T)
        BY <1>2 DEF IsSeq
    <2>3. q \in Seq(S \cup T) /\ r \in Seq(S \cup T)
        BY <2>1, <2>2
    <2> DEFINE V == S \cup T
    <2>4. q \in Seq(V) /\ r \in Seq(V)
        BY <2>3
    <2> HIDE DEF V
    <2>5. q \o r \in Seq(V) /\ Len(q \o r) = Len(q) + Len(r)
        BY <2>4
    <2>6. \A i \in 1 .. Len(q) : (q \o r)[i] = q[i]
        BY <2>4
    <2>7. \A i \in 1 .. Len(r) : (q \o r)[Len(q) + i] = r[i]
        BY <2>4
    <2> QED BY <2>5, <2>6, <2>7 DEF IsSeq
<1> QED BY <1>1, <1>2

-----------------------------------------------------------------------------
(* What the methods do to the files in memory.                             *)

\* The state of f becomes one with these fields; no other file changes.
Assigned(f, data, pending, buffers) ==
    /\ DOMAIN files_' = DOMAIN files_ \cup {f}
    /\ \A g \in DOMAIN files_ : g # f => files_'[g] = files_[g]
    /\ DOMAIN files_'[f] = StateFields
    /\ files_'[f].data = data /\ files_'[f].pending = pending /\ files_'[f].buffers = buffers

\* At most the synced flags and the levels change.
SameFiles ==
    /\ DOMAIN files_' = DOMAIN files_
    /\ \A g \in DOMAIN files_ :
          /\ DOMAIN files_'[g] = StateFields
          /\ files_'[g].data = files_[g].data
          /\ files_'[g].pending = files_[g].pending
          /\ files_'[g].buffers = files_[g].buffers

(* Nothing changes in a state that is unchanged.                           *)
LEMMA UnchangedFiles ==
    ASSUME FilesType, UNCHANGED files_
    PROVE  SameFiles
BY DEF SameFiles, FilesType, StateType

(* Setting the synced flag of a file changes no data.                      *)
LEMMA SyncedFiles ==
    ASSUME FilesType, NEW f \in DOMAIN files_, NEW b,
           files_' = [files_ EXCEPT ![f].synced = b]
    PROVE  SameFiles
BY DEF SameFiles, FilesType, StateType, StateFields

(* kvwrite appends to the data and to the pending updates.                 *)
LEMMA WriteFiles ==
    ASSUME FilesType, NEW f, NEW n, kvwrite(f, n)
    PROVE  Assigned(f, files_[f].data \o [i \in 1 .. n |-> Payload(f, Len(files_[f].data) + i - 1)],
                    IF n = 0 THEN files_[f].pending
                    ELSE Append(files_[f].pending, [offset |-> Len(files_[f].data), size |-> n]),
                    files_[f].buffers)
BY Zenon DEF kvwrite, Assigned, FilesType, StateType, StateFields

(* BeginWrite empties the file.                                            *)
LEMMA BeginFiles ==
    ASSUME FilesType, NEW f, BeginWrite(f)
    PROVE  Assigned(f, <<>>, <<>>, <<>>)
BY Zenon DEF BeginWrite, Assigned, FilesType, StateType, StateFields

(* RegisterSSTable makes a new file empty and leaves a known one its data. *)
LEMMA RegisterFiles ==
    ASSUME FilesType, NEW f, NEW level, NEW largest, RegisterSSTable(f, level, largest)
    PROVE  IF f \in DOMAIN files_ THEN SameFiles ELSE Assigned(f, <<>>, <<>>, <<>>)
<1> DEFINE old == IF f \in DOMAIN files_ THEN files_[f] ELSE NewState
           new == [old EXCEPT !.level = level, !.largest = largest]
<1>1. files_' = Put(files_, f, new)
    BY DEF RegisterSSTable
<1>2. DOMAIN old = StateFields
    BY DEF FilesType, StateType, StateFields, NewState
<1>3. /\ DOMAIN new = StateFields
      /\ new.data = old.data /\ new.pending = old.pending /\ new.buffers = old.buffers
    BY <1>2 DEF StateFields
<1>4. f \notin DOMAIN files_ => old.data = <<>> /\ old.pending = <<>> /\ old.buffers = <<>>
    BY DEF NewState
<1> HIDE DEF new
<1> QED
    BY <1>1, <1>3, <1>4, Zenon DEF Put, Assigned, SameFiles, FilesType, StateType

(* The end of a sync clears the pending updates and the buffers.           *)
LEMMA DirSyncFiles ==
    ASSUME FilesType, SnapshotDirSync, op.file \in DOMAIN files_, op.name = "sync"
    PROVE  Assigned(op.file, files_[op.file].data, <<>>, <<>>)
<1> DEFINE f == op.file
<1>1. files_' = [files_ EXCEPT ![f].pending = <<>>, ![f].buffers = <<>>]
    BY DEF SnapshotDirSync
<1>2. f \in DOMAIN files_ /\ DOMAIN files_[f] = StateFields
    BY DEF FilesType, StateType
<1> HIDE DEF f
<1>3. Assigned(f, files_[f].data, <<>>, <<>>)
    BY <1>1, <1>2, Zenon DEF Assigned, StateFields
<1> QED
    BY <1>3 DEF f
-----------------------------------------------------------------------------
(* What leaves the invariant of the space alone.                           *)

(* A file keeps its types when it keeps its data.                          *)
LEMMA SameFilesType ==
    ASSUME FilesType, SameFiles
    PROVE  FilesType'
BY Zenon DEF FilesType, SameFiles, StateType

(* Well-typed contents make a well-typed file.                             *)
LEMMA AssignedType ==
    ASSUME FilesType, NEW f \in Ids, NEW data, IsSeq(data),
           NEW pending \in Seq([offset : Nat, size : Nat]),
           NEW buffers, DOMAIN buffers \subseteq Nat, Assigned(f, data, pending, buffers)
    PROVE  FilesType'
<1>1. StateType(files_'[f])
    BY Zenon DEF Assigned, StateType
<1>2. \A g \in DOMAIN files_ : g # f => StateType(files_'[g])
    BY Zenon DEF FilesType, Assigned
<1>3. DOMAIN files_' = DOMAIN files_ \cup {f}
    BY DEF Assigned
<1> QED BY <1>1, <1>2, <1>3 DEF FilesType

(* The allocator's invariant is about its variables only.                  *)
LEMMA SameAlloc ==
    ASSUME AllocInv, UNCHANGED allocVars
    PROVE  AllocInv'
<1>1. AllocTypeOK' /\ SegmentsOwned'
    BY DEF AllocInv, AllocTypeOK, SegmentsOwned, allocVars, Indices
<1>2. CallOK'
    BY DEF AllocInv, CallOK, Free, allocVars, Indices
<1> QED BY <1>1, <1>2 DEF AllocInv

(* No call of the allocator is in progress outside of "alloc".             *)
LEMMA CallIdle ==
    ASSUME AllocInv, OpInv, op.pc # "alloc"
    PROVE  Idle
BY DEF AllocInv, AllocTypeOK, CallType, OpInv, Idle

(* Whose tracks are whose, when neither tracks nor files come or go.       *)
LEMMA SameLeak ==
    ASSUME LeakInv, UNCHANGED <<zones_, owner, segments>>, DOMAIN files_' = DOMAIN files_
    PROVE  LeakInv'
<1>1. Indices' = Indices
    BY DEF Indices
<1> QED BY <1>1, Zenon DEF LeakInv

\* The table outside has the same entries.
SameOutside ==
    /\ DOMAIN s2tmap_' = DOMAIN s2tmap_
    /\ \A f \in DOMAIN s2tmap_ : s2tmap_'[f] = s2tmap_[f]

(* The table outside, when it and the tracks stay, between allocations.    *)
LEMMA SameMap ==
    ASSUME MapInv, UNCHANGED segments, SameOutside, DOMAIN files_' = DOMAIN files_,
           op.pc # "alloc", op'.pc # "alloc"
    PROVE  MapInv'
BY Zenon DEF MapInv, Allocating, SameOutside

\* The method in progress, and its step, after an action.
OpIs(name, file, pc) ==
    /\ DOMAIN op' = OpFields
    /\ op'.name = name /\ op'.file = file /\ op'.pc = pc
    /\ op'.u \in Nat /\ op'.k \in Nat

(* What the next step of a method needs.                                   *)
LEMMA StepOp ==
    ASSUME NEW name \in {"sync", "unlink"}, NEW file \in Ids, NEW pc \in Calls, OpIs(name, file, pc),
           Ready', pc # "alloc" => persistence_enabled_',
           pc \notin {"snapshot", "dirsync"} \/ name = "sync" => file \in DOMAIN files_',
           call'.op = "allocate" => pc = "alloc" /\ call'.id = file,
           init_status' # "loading", MemoryOnly => init_status' = "none"
    PROVE  OpInv'
BY DEF OpInv, OpIs, OnFile, Calls, NoOp, Ready

(* No method in progress.                                                  *)
LEMMA IdleOp ==
    ASSUME op' = NoOp, Idle', init_status' # "loading", MemoryOnly => init_status' = "none"
    PROVE  OpInv'
BY DEF OpInv, OnFile, Calls, NoOp, OpFields, Idle
-----------------------------------------------------------------------------
(* Steps that move no tracks.                                              *)

\* No track, file or entry comes or goes, and no load or allocation runs.
SpaceFrame ==
    /\ UNCHANGED allocVars /\ SameOutside /\ DOMAIN files_' = DOMAIN files_
    /\ op.pc # "alloc" /\ op'.pc \notin {"alloc", "load"}

(* Such a step leaves the tracks alone.                                    *)
LEMMA FrameSpace ==
    ASSUME SpaceInv, SpaceFrame
    PROVE  AllocInv' /\ zones_' = NZones /\ LeakInv' /\ MapInv' /\ LoadInv' /\ Idle /\ Idle'
<1>1. AllocInv' /\ zones_' = NZones
    BY SameAlloc DEF SpaceInv, SpaceFrame, allocVars
<1>2. LeakInv'
    BY SameLeak DEF SpaceInv, SpaceFrame, allocVars
<1>3. MapInv'
    BY SameMap DEF SpaceInv, SpaceFrame, allocVars
<1>4. LoadInv'
    BY DEF SpaceFrame, LoadInv
<1>5. Idle /\ Idle'
    BY CallIdle DEF SpaceInv, SpaceFrame, Idle, allocVars
<1> QED BY <1>1, <1>2, <1>3, <1>4, <1>5

(* A failed call is counted.                                               *)
LEMMA FaultType ==
    ASSUME EnvType, Fault
    PROVE  faults' \in 0 .. MaxFaults
BY KVIMRAssumption DEF EnvType, Fault

(* The step a Goto goes to.                                                *)
LEMMA GotoOp ==
    ASSUME OpInv, NEW pc, Goto(pc)
    PROVE  OpIs(op.name, op.file, pc) /\ op'.u = 1 /\ op'.k = 1
BY DEF OpInv, Goto, OpIs, OpFields

(* A method at one of its steps runs on a device that is open.             *)
LEMMA InMethod ==
    ASSUME OpInv, op.pc \in Calls
    PROVE  /\ op.file \in Ids /\ op.name \in {"sync", "unlink"} /\ Ready
           /\ init_status # "loading" /\ (MemoryOnly => init_status = "none")
           /\ op.pc # "alloc" => persistence_enabled_
           /\ OnFile => op.file \in DOMAIN files_
BY DEF OpInv, Calls

(* The rest of the invariant, when nothing it speaks of changes.           *)
LEMMA SameMeta ==
    ASSUME SpaceInv, UNCHANGED <<meta, metaStable>>
    PROVE  MetaInv(meta)' /\ MetaInv(metaStable)'
BY DEF SpaceInv, MetaInv, Track, TrackType, TrackCount

(* kvwrite keeps the space.                                                *)
LEMMA WriteSpace ==
    ASSUME SpaceInv, NEW f \in Ids, NEW n \in Nat, kvwrite(f, n)
    PROVE  SpaceInv'
<1>0. AllocInv /\ OpInv /\ FilesType /\ MemType /\ EnvType
    BY DEF SpaceInv
<1>1. op = NoOp /\ Ready /\ f \in DOMAIN files_ /\ StateType(files_[f])
    BY <1>0, Zenon DEF kvwrite, MayCall, FilesType
<1>2. IsSeq(files_[f].data) /\ files_[f].pending \in Seq([offset : Nat, size : Nat])
    BY <1>1 DEF StateType
<1> DEFINE len == Len(files_[f].data)
           more == [i \in 1 .. n |-> Payload(f, len + i - 1)]
           update == [offset |-> len, size |-> n]
<1>3. len \in Nat
    BY <1>2, IsSeqFacts
<1>4. more \in Seq(Nat)
    <2> HIDE DEF len
    <2>1. \A i \in 1 .. n : 10 * f + (len + i - 1) + 1 \in Nat
        BY <1>3, IdsAssumption
    <2> QED BY <2>1 DEF Payload
<1>5. IsSeq(files_[f].data \o more)
    BY <1>2, <1>4, IsSeqFacts, Zenon DEF IsSeq
<1>6. (IF n = 0 THEN files_[f].pending ELSE Append(files_[f].pending, update))
         \in Seq([offset : Nat, size : Nat])
    <2> HIDE DEF len
    <2>1. update \in [offset : Nat, size : Nat]
        BY <1>3
    <2> HIDE DEF update
    <2>2. \A S : \A q \in Seq(S) : \A e \in S : Append(q, e) \in Seq(S)
        OBVIOUS
    <2> QED BY <1>2, <2>1, <2>2, Zenon
<1>7. FilesType' /\ DOMAIN files_' = DOMAIN files_
    <2>1. Assigned(f, files_[f].data \o more,
                   IF n = 0 THEN files_[f].pending ELSE Append(files_[f].pending, update),
                   files_[f].buffers)
        BY <1>0, WriteFiles
    <2> HIDE DEF more, update, len
    <2>2. DOMAIN files_' = DOMAIN files_ \cup {f}
        BY <2>1 DEF Assigned
    <2>3. DOMAIN files_[f].buffers \subseteq Nat
        BY <1>1 DEF StateType
    <2> QED BY <1>0, <1>1, <1>5, <1>6, <2>1, <2>2, <2>3, AssignedType, Zenon
<1>8. UNCHANGED <<allocVars, s2tmap_, persistence_enabled_, rmw_mode_, rmw_balance, op, diskVars, envVars>>
    BY Zenon DEF kvwrite
<1>9. SpaceFrame
    BY <1>1, <1>7, <1>8 DEF SpaceFrame, SameOutside, NoOp
<1>10. OpInv'
    BY <1>0, <1>1, <1>8, <1>9, FrameSpace, IdleOp, Zenon DEF envVars, OpInv, NoOp
<1>11. MemType' /\ EnvType'
    BY <1>0, <1>8, Zenon DEF MemType, EnvType, envVars, diskVars
<1>12. MetaInv(meta)' /\ MetaInv(metaStable)'
    BY <1>8, SameMeta DEF diskVars
<1> QED BY <1>7, <1>9, <1>10, <1>11, <1>12, FrameSpace DEF SpaceInv

(* ApplyStep changes at most the buffers of its file.                      *)
LEMMA ApplyFiles ==
    ASSUME FilesType, op.file \in DOMAIN files_, ApplyStep
    PROVE  SameFiles \/ \E buffer : Assigned(op.file, files_[op.file].data, files_[op.file].pending,
                                             Put(files_[op.file].buffers, op.k, buffer))
<1> DEFINE f == op.file
<1>1. UNCHANGED files_ \/ \E buffer : files_' = [files_ EXCEPT ![f].buffers = Put(@, op.k, buffer)]
    BY Zenon DEF ApplyStep
<1>2. CASE UNCHANGED files_
    BY <1>2, UnchangedFiles
<1>3. CASE \E buffer : files_' = [files_ EXCEPT ![f].buffers = Put(@, op.k, buffer)]
    <2>1. PICK buffer : files_' = [files_ EXCEPT ![f].buffers = Put(@, op.k, buffer)]
        BY <1>3, Zenon
    <2>2. f \in DOMAIN files_ /\ DOMAIN files_[f] = StateFields
        BY Zenon DEF FilesType, StateType
    <2> HIDE DEF f
    <2>3. Assigned(f, files_[f].data, files_[f].pending, Put(files_[f].buffers, op.k, buffer))
        BY <2>1, <2>2 DEF Assigned, StateFields
    <2> QED BY <2>3 DEF f
<1> QED BY <1>1, <1>2, <1>3

(* A step within a method, or its return, that moves no tracks.            *)
LEMMA MethodSpace ==
    ASSUME SpaceInv, op.pc \in Calls \ {"alloc"}, UNCHANGED <<allocVars, s2tmap_, persistence_enabled_, rmw_mode_, init_status, open, begins, crashes>>,
           FilesType', DOMAIN files_' = DOMAIN files_,
           rmw_balance' \in Int, faults' \in 0 .. MaxFaults, DOMAIN acked' \subseteq Ids,
           DOMAIN disk' = Device, DOMAIN stable' = Device,
           MetaInv(meta)', MetaInv(metaStable)',
           \/ op' = NoOp
           \/ \E pc \in Calls \ {"alloc"} :
                 /\ OpIs(op.name, op.file, pc)
                 /\ OnFile \/ (pc \in {"snapshot", "dirsync"} /\ op.name # "sync")
    PROVE  SpaceInv'
<1>0. AllocInv /\ OpInv /\ FilesType /\ MemType /\ EnvType
    BY DEF SpaceInv
<1>1. SpaceFrame
    BY DEF SpaceFrame, SameOutside, NoOp, OpIs, Calls
<1>2. /\ op.file \in Ids /\ op.name \in {"sync", "unlink"} /\ Ready
      /\ init_status # "loading" /\ (MemoryOnly => init_status = "none") /\ persistence_enabled_
      /\ OnFile => op.file \in DOMAIN files_
    BY <1>0, InMethod, Zenon
<1>3. Idle' /\ AllocInv'
    BY <1>1, FrameSpace, Zenon
<1>4. OpInv'
    <2>1. CASE op' = NoOp
        BY <1>2, <1>3, <2>1, IdleOp
    <2>2. CASE op' # NoOp
        <3>1. PICK pc \in Calls \ {"alloc"} :
                 /\ OpIs(op.name, op.file, pc)
                 /\ OnFile \/ (pc \in {"snapshot", "dirsync"} /\ op.name # "sync")
            BY <2>2
        <3>2. Ready' /\ init_status' # "loading" /\ (MemoryOnly => init_status' = "none")
              /\ persistence_enabled_'
            BY <1>2 DEF Ready
        <3>3. call'.op # "allocate"
            BY <1>3, Zenon DEF Idle
        <3>4. pc \notin {"snapshot", "dirsync"} \/ op.name = "sync" => op.file \in DOMAIN files_'
            BY <1>2, <3>1, Zenon
        <3> QED BY <1>2, <3>1, <3>2, <3>3, <3>4, StepOp, Zenon
    <2> QED BY <2>1, <2>2
<1>5. MemType' /\ EnvType'
    BY <1>0, Zenon DEF MemType, EnvType
<1> QED BY <1>1, <1>4, <1>5, FrameSpace, Zenon DEF SpaceInv

(* The steps of ApplyPendingUpdatesLocked keep the space.                  *)
LEMMA ApplySpace ==
    ASSUME SpaceInv, ApplyStep
    PROVE  SpaceInv'
<1>0. OpInv /\ FilesType /\ MemType /\ EnvType
    BY DEF SpaceInv
<1>1. op.pc \in Calls \ {"alloc"} /\ OnFile /\ op.file \in DOMAIN files_ /\ op.file \in Ids
    BY <1>0, Zenon DEF ApplyStep, OpInv, Calls, OnFile
<1>2. FilesType' /\ DOMAIN files_' = DOMAIN files_
    <2>1. CASE SameFiles
        BY <1>0, <2>1, SameFilesType DEF SameFiles
    <2>2. ASSUME NEW buffer, Assigned(op.file, files_[op.file].data, files_[op.file].pending,
                                      Put(files_[op.file].buffers, op.k, buffer))
          PROVE  FilesType' /\ DOMAIN files_' = DOMAIN files_
        <3>1. IsSeq(files_[op.file].data) /\ files_[op.file].pending \in Seq([offset : Nat, size : Nat])
            BY <1>0, <1>1, Zenon DEF FilesType, StateType
        <3>2. DOMAIN files_' = DOMAIN files_ \cup {op.file}
            BY <2>2, Zenon DEF Assigned
        <3>3. DOMAIN Put(files_[op.file].buffers, op.k, buffer) \subseteq Nat
            BY <1>0, <1>1, Zenon DEF FilesType, StateType, Put, OpInv
        <3> QED BY <1>0, <1>1, <2>2, <3>1, <3>2, <3>3, AssignedType, Zenon
    <2> QED BY <1>0, <1>1, <2>1, <2>2, ApplyFiles, Zenon
<1>3. DOMAIN disk' = Device
    <2>1. \A at, bytes : DOMAIN Written(at, bytes) = Device
        BY DEF Written
    <2>2. disk' = disk \/ \E at, bytes : disk' = Written(at, bytes)
        BY Zenon DEF ApplyStep
    <2> QED BY <1>0, <2>1, <2>2, Zenon DEF EnvType
<1>4. rmw_balance' \in Int /\ faults' \in 0 .. MaxFaults
    <2>1. rmw_balance' \in {rmw_balance, rmw_balance + 1} /\ (faults' = faults \/ Fault)
        BY Zenon DEF ApplyStep
    <2> QED BY <1>0, <2>1, FaultType DEF MemType, EnvType
<1>5. op' = NoOp \/ OpIs(op.name, op.file, "apply")
    <2>1. op' = NoOp \/ op' = [op EXCEPT !.u = @ + 1, !.k = 1] \/ op' = [op EXCEPT !.k = @ + 1]
        BY Zenon DEF ApplyStep, Return
    <2>2. op.pc = "apply"
        BY Zenon DEF ApplyStep
    <2>3. DOMAIN op = OpFields /\ op.u \in Nat /\ op.k \in Nat
        BY <1>0 DEF OpInv
    <2>4. CASE op' = [op EXCEPT !.u = @ + 1, !.k = 1]
        BY <2>2, <2>3, <2>4 DEF OpIs, OpFields
    <2>5. CASE op' = [op EXCEPT !.k = @ + 1]
        BY <2>2, <2>3, <2>5 DEF OpIs, OpFields
    <2> QED BY <2>1, <2>4, <2>5
<1>6. UNCHANGED <<allocVars, s2tmap_, persistence_enabled_, rmw_mode_, stable, meta, metaStable,
                  init_status, open, acked, begins, crashes>>
    BY Zenon DEF ApplyStep
<1>7. MetaInv(meta)' /\ MetaInv(metaStable)'
    BY <1>6, SameMeta
<1> QED BY <1>0, <1>1, <1>2, <1>3, <1>4, <1>5, <1>6, <1>7, MethodSpace, Zenon DEF EnvType, Calls

(* Leaving the loops, and the steps of FlushMergedBuffersLocked.           *)
LEMMA FlushSpace ==
    ASSUME SpaceInv, LeastInSets, ApplyDone \/ FlushStep \/ FlushDone \/ DeviceSyncFault
    PROVE  SpaceInv'
<1>0. OpInv /\ FilesType /\ MemType /\ EnvType
    BY DEF SpaceInv
<1>1. op.pc \in Calls \ {"alloc"} /\ OnFile
    BY DEF ApplyDone, FlushStep, FlushDone, DeviceSyncFault, Calls, OnFile
<1>2. UNCHANGED <<allocVars, files_, s2tmap_, persistence_enabled_, rmw_mode_, stable, meta, metaStable,
                  init_status, open, acked, begins, crashes>>
    BY DEF ApplyDone, FlushStep, FlushDone, DeviceSyncFault, memVars, diskVars, envVars
<1>3. FilesType' /\ DOMAIN files_' = DOMAIN files_
    BY <1>0, <1>2, UnchangedFiles, SameFilesType
<1>4. DOMAIN disk' = Device
    <2>1. \A at, bytes : DOMAIN Written(at, bytes) = Device
        BY DEF Written
    <2>2. disk' = disk \/ \E at, bytes : disk' = Written(at, bytes)
        BY DEF ApplyDone, FlushStep, FlushDone, DeviceSyncFault, diskVars
    <2> QED BY <1>0, <2>1, <2>2, Zenon DEF EnvType
<1>5. rmw_balance' \in Int /\ faults' \in 0 .. MaxFaults
    <2>1. rmw_balance' \in {rmw_balance, rmw_balance - 1} /\ (faults' = faults \/ Fault)
        BY DEF ApplyDone, FlushStep, FlushDone, DeviceSyncFault, memVars, envVars
    <2> QED BY <1>0, <2>1, FaultType DEF MemType, EnvType
<1>6. op' = NoOp \/ \E pc \in Calls \ {"alloc"} : OpIs(op.name, op.file, pc)
    <2>1. CASE FlushStep
        <3> DEFINE left == {k \in DOMAIN files_[op.file].buffers : k >= op.k}
        <3>1. left \in SUBSET Nat /\ left # {}
            <4>1. op.file \in DOMAIN files_
                BY <1>0, <1>1 DEF OpInv
            <4> QED BY <1>0, <2>1, <4>1 DEF FilesType, StateType, FlushStep
        <3>2. Min(left) \in Nat
            BY <3>1, Zenon DEF LeastInSets
        <3>3. op' = NoOp \/ op' = [op EXCEPT !.k = Min(left) + 1]
            BY <2>1, Zenon DEF FlushStep, Return
        <3>4. op.pc = "flush"
            BY <2>1, Zenon DEF FlushStep
        <3> HIDE DEF left
        <3> QED BY <1>0, <3>2, <3>3, <3>4 DEF OpInv, OpIs, OpFields, Calls
    <2>2. CASE ApplyDone \/ FlushDone
        <3>1. \E pc \in {"flush", "devsync"} : Goto(pc)
            BY <2>2 DEF ApplyDone, FlushDone
        <3> QED BY <1>0, <3>1, GotoOp DEF Calls
    <2>3. CASE DeviceSyncFault
        BY <2>3 DEF DeviceSyncFault, Return
    <2> QED BY <2>1, <2>2, <2>3
<1>7. MetaInv(meta)' /\ MetaInv(metaStable)'
    BY <1>2, SameMeta
<1> QED BY <1>0, <1>1, <1>2, <1>3, <1>4, <1>5, <1>6, <1>7, MethodSpace, Zenon DEF EnvType

(* A snapshot names the tracks of the files, which are theirs alone.       *)
LEMMA SnapshotMeta ==
    ASSUME SpaceInv
    PROVE  MetaInv(Snapshot)
<1>0. AllocTypeOK /\ SegmentsOwned /\ FilesType /\ zones_ = NZones
    BY DEF SpaceInv, AllocInv
<1> DEFINE M == Snapshot
<1>1. DOMAIN M = DOMAIN files_ /\ DOMAIN files_ \subseteq Ids
    BY <1>0, Zenon DEF Snapshot, FilesType
<1>2. \A f \in DOMAIN files_ : M[f].tracks = segments[f] /\ M[f].size = Len(files_[f].data)
    BY Zenon DEF Snapshot
<1> HIDE DEF M
<1>3. ASSUME NEW f \in DOMAIN M
      PROVE  /\ M[f].tracks \in Seq(Track) /\ M[f].size \in Nat
             /\ \A k \in 1 .. Len(M[f].tracks) : M[f].tracks[k].index \in 0 .. TrackCount(NZones) - 1
    <2>1. segments[f] \in Seq(Track)
        BY <1>0, <1>1 DEF AllocTypeOK
    <2>2. Len(files_[f].data) \in Nat
        BY <1>0, <1>1, IsSeqFacts, Zenon DEF FilesType, StateType
    <2>3. \A k \in 1 .. Len(segments[f]) : segments[f][k].index \in 0 .. TrackCount(NZones) - 1
        BY <1>0, <1>1, Zenon DEF SegmentsOwned, Indices
    <2> QED BY <1>1, <1>2, <2>1, <2>2, <2>3, Zenon
<1>4. ASSUME NEW f \in DOMAIN M, NEW g \in DOMAIN M, NEW j \in 1 .. Len(M[f].tracks),
             NEW k \in 1 .. Len(M[g].tracks), M[f].tracks[j] = M[g].tracks[k]
      PROVE  f = g /\ j = k
    <2>1. f \in Ids \cup {0} /\ g \in Ids \cup {0} /\ M[f].tracks = segments[f] /\ M[g].tracks = segments[g]
        BY <1>1, <1>2
    <2>2. owner[segments[f][j].type][segments[f][j].index] = f
        BY <1>0, <2>1, Zenon DEF SegmentsOwned
    <2>3. owner[segments[g][k].type][segments[g][k].index] = g
        BY <1>0, <2>1, Zenon DEF SegmentsOwned
    <2>4. f = g
        BY <1>4, <2>1, <2>2, <2>3, Zenon
    <2> QED BY <1>0, <1>4, <2>1, <2>4 DEF SegmentsOwned
<1> QED BY <1>1, <1>3, <1>4, Zenon DEF MetaInv, M

(* The steps of PersistSnapshotLocked keep the space.                      *)
LEMMA SnapshotSpace ==
    ASSUME SpaceInv, SnapshotRename \/ SnapshotDirSync \/ SnapshotFault
    PROVE  SpaceInv'
<1>0. OpInv /\ FilesType /\ MemType /\ EnvType /\ MetaInv(meta) /\ MetaInv(metaStable)
    BY DEF SpaceInv
<1>1. op.pc \in Calls \ {"alloc"} /\ op.pc \in {"snapshot", "dirsync"} /\ op.file \in Ids
      /\ (op.name = "sync" => OnFile /\ op.file \in DOMAIN files_)
    BY <1>0 DEF SnapshotRename, SnapshotDirSync, SnapshotFault, Calls, OpInv, OnFile
<1>2. UNCHANGED <<allocVars, s2tmap_, persistence_enabled_, rmw_mode_, rmw_balance, disk, stable,
                  init_status, open, begins, crashes>>
    BY DEF SnapshotRename, SnapshotDirSync, SnapshotFault, memVars, diskVars, envVars
<1>3. FilesType' /\ DOMAIN files_' = DOMAIN files_
    <2>1. CASE UNCHANGED files_
        BY <1>0, <2>1, UnchangedFiles, SameFilesType
    <2>2. CASE op.name = "sync" /\ files_' = [files_ EXCEPT ![op.file].synced = FALSE]
        <3>1. SameFiles
            BY <1>0, <1>1, <2>2, SyncedFiles, Zenon
        <3> QED BY <1>0, <3>1, SameFilesType, Zenon DEF SameFiles
    <2>3. CASE op.name = "sync" /\ SnapshotDirSync
        <3>1. Assigned(op.file, files_[op.file].data, <<>>, <<>>)
            BY <1>0, <1>1, <2>3, DirSyncFiles, Zenon
        <3>2. IsSeq(files_[op.file].data)
            BY <1>0, <1>1, <2>3, Zenon DEF FilesType, StateType
        <3>3. <<>> \in Seq([offset : Nat, size : Nat]) /\ DOMAIN <<>> \subseteq Nat
            OBVIOUS
        <3>4. DOMAIN files_' = DOMAIN files_
            BY <1>1, <2>3, <3>1, Zenon DEF Assigned
        <3> QED BY <1>0, <1>1, <3>1, <3>2, <3>3, <3>4, AssignedType, Zenon
    <2> QED BY <2>1, <2>2, <2>3 DEF SnapshotRename, SnapshotDirSync, SnapshotFault, SnapshotFailed, memVars
<1>4. faults' \in 0 .. MaxFaults /\ DOMAIN acked' \subseteq Ids
    <2>1. faults' = faults \/ Fault
        BY DEF SnapshotRename, SnapshotDirSync, SnapshotFault, envVars
    <2>2. acked' = acked \/ acked' = Put(acked, op.file, files_[op.file].data)
        BY DEF SnapshotRename, SnapshotDirSync, SnapshotFault, envVars
    <2>3. DOMAIN acked' \subseteq Ids
        BY <1>0, <1>1, <2>2 DEF Put, EnvType
    <2> QED BY <1>0, <2>1, <2>3, FaultType, Zenon DEF EnvType
<1>5. op' = NoOp \/ OpIs(op.name, op.file, "dirsync")
    <2>1. op' = NoOp \/ Goto("dirsync")
        BY DEF SnapshotRename, SnapshotDirSync, SnapshotFault, SnapshotFailed, Return
    <2> QED BY <1>0, <2>1, GotoOp
<1>6. MetaInv(meta)' /\ MetaInv(metaStable)'
    <2>1. meta' \in {meta, Snapshot} /\ metaStable' \in {meta, metaStable}
        BY DEF SnapshotRename, SnapshotDirSync, SnapshotFault, diskVars
    <2>2. MetaInv(meta') /\ MetaInv(metaStable')
        BY <1>0, <2>1, SnapshotMeta, Zenon
    <2> QED BY <2>2, Zenon DEF MetaInv, Track, TrackType, TrackCount
<1> QED BY <1>0, <1>1, <1>2, <1>3, <1>4, <1>5, <1>6, MethodSpace, Zenon DEF EnvType, MemType, Calls
-----------------------------------------------------------------------------
(* Tracks that are released, reserved and given back.                      *)

\* Track i of the tier is in the list q.
Lists(q, type, i) == \E k \in 1 .. Len(q) : q[k] = [type |-> type, index |-> i]

(* LeakInv, with the listing named.                                        *)
LEMMA LeakInvIs ==
    LeakInv <=> /\ \A type \in TrackType : \A i \in Indices :
                      owner[type][i] # 0 => owner[type][i] \in DOMAIN files_ /\ Lists(segments[owner[type][i]], type, i)
                /\ \A f \in Ids \cup {0} : f \notin DOMAIN files_ => segments[f] = <<>>
BY Zenon DEF LeakInv, Lists

(* The same of the next state.                                             *)
LEMMA LeakInvNext ==
    ASSUME Indices' = Indices,
           \A type \in TrackType : \A i \in Indices : owner'[type][i] # 0 =>
              owner'[type][i] \in DOMAIN files_' /\ Lists(segments'[owner'[type][i]], type, i),
           \A f \in Ids \cup {0} : f \notin DOMAIN files_' => segments'[f] = <<>>
    PROVE  LeakInv'
BY Zenon DEF LeakInv, Lists

(* Release takes every track of f back, whether f stays known or not.      *)
LEMMA ReleaseLeak ==
    ASSUME AllocTypeOK, LeakInv, NEW f \in Ids, Release(f),
           DOMAIN files_' = DOMAIN files_ \/ DOMAIN files_' = DOMAIN files_ \ {f}
    PROVE  LeakInv' /\ segments'[f] = <<>> /\ \A g \in Ids \cup {0} : g # f => segments'[g] = segments[g]
<1>1. /\ segments'[f] = <<>> /\ \A g \in Ids \cup {0} : g # f => segments'[g] = segments[g]
      /\ Indices' = Indices
    BY Zenon DEF Release, AllocTypeOK, Indices
<1>2. ASSUME NEW type \in TrackType, NEW i \in Indices, owner'[type][i] # 0
      PROVE  owner'[type][i] \in DOMAIN files_' /\ Lists(segments'[owner'[type][i]], type, i)
    <2>1. owner'[type][i] = owner[type][i] /\ owner[type][i] # f /\ owner[type][i] \in Ids \cup {0}
        BY <1>2, IdsAssumption DEF Release, AllocTypeOK
    <2>2. owner[type][i] \in DOMAIN files_ /\ Lists(segments[owner[type][i]], type, i)
        BY <1>2, <2>1, LeakInvIs, Zenon
    <2>3. segments'[owner[type][i]] = segments[owner[type][i]]
        BY <1>1, <2>1, Zenon
    <2> QED BY <2>1, <2>2, <2>3, Zenon
<1>3. \A g \in Ids \cup {0} : g \notin DOMAIN files_' => segments'[g] = <<>>
    BY <1>1, LeakInvIs, Zenon
<1> QED BY <1>1, <1>2, <1>3, LeakInvNext, Zenon

(* Every step of Allocate records the track it takes, and a rollback gives *)
(* all of them back.                                                       *)
LEMMA AllocateLeak ==
    ASSUME AllocInv, LeakInv, AllocateStep, call.id \in DOMAIN files_, DOMAIN files_' = DOMAIN files_,
           TakesFree
    PROVE  LeakInv' /\ \A g \in Ids \cup {0} : g # call.id => segments'[g] = segments[g]
<1> DEFINE id == call.id
<1>0. AllocTypeOK /\ SegmentsOwned /\ CallOK
    BY Zenon DEF AllocInv
<1>1. call.op = "allocate" /\ id \in Ids /\ id # 0
    BY <1>0, IdsAssumption DEF AllocateStep, ReserveNext, NextTier, AllocateReturn, CallOK
<1>2. Indices' = Indices
    BY DEF AllocateStep, ReserveNext, NextTier, AllocateReturn, Indices
<1>3. CASE ReserveNext
    <2> DEFINE t == call.tier
               x == NextFree(t)
               seg == [type |-> t, index |-> x]
    <2>1. t \in TrackType /\ Free(t) # {} /\ x \in Free(t) /\ x \in Indices
        BY <1>0, <1>3 DEF ReserveNext, TakesFree, AllocTypeOK, CallType, Free
    <2>2. segments'[id] = Append(segments[id], seg) /\ segments[id] \in Seq(Track)
          /\ \A g \in Ids \cup {0} : g # id => segments'[g] = segments[g]
        BY <1>0, <1>1, <1>3 DEF ReserveNext, AllocTypeOK
    <2>3. \A type \in TrackType : \A i \in Indices :
             owner'[type][i] = IF type = t /\ i = x THEN id ELSE owner[type][i]
        BY <1>0, <1>3, <2>1 DEF ReserveNext, AllocTypeOK
    <2> HIDE DEF x, t, id
    <2>4. Lists(segments'[id], t, x)
        <3>1. Len(segments[id]) + 1 \in 1 .. Len(segments'[id]) /\ segments'[id][Len(segments[id]) + 1] = seg
            BY <2>2
        <3> QED BY <3>1, Zenon DEF Lists
    <2>5. \A type, i : Lists(segments[id], type, i) => Lists(segments'[id], type, i)
        <3>1. Len(segments'[id]) = Len(segments[id]) + 1
              /\ \A k \in 1 .. Len(segments[id]) : segments'[id][k] = segments[id][k]
            BY <2>2
        <3> QED BY <2>2, <3>1 DEF Lists
    <2>6. ASSUME NEW type \in TrackType, NEW i \in Indices, owner'[type][i] # 0
          PROVE  owner'[type][i] \in DOMAIN files_' /\ Lists(segments'[owner'[type][i]], type, i)
        <3>1. CASE type = t /\ i = x
            BY <2>3, <2>4, <3>1, Zenon DEF id
        <3>2. CASE ~(type = t /\ i = x)
            <4>1. owner'[type][i] = owner[type][i] /\ owner[type][i] \in Ids \cup {0}
                BY <1>0, <2>3, <3>2, Zenon DEF AllocTypeOK
            <4>2. owner[type][i] \in DOMAIN files_ /\ Lists(segments[owner[type][i]], type, i)
                BY <2>6, <4>1, LeakInvIs, Zenon
            <4>3. owner[type][i] # id => Lists(segments'[owner[type][i]], type, i)
                BY <2>2, <4>1, <4>2, Zenon
            <4> QED BY <2>5, <4>1, <4>2, <4>3, Zenon
        <3> QED BY <3>1, <3>2, Zenon
    <2>7. \A g \in Ids \cup {0} : g \notin DOMAIN files_' => segments'[g] = <<>>
        BY <2>2, LeakInvIs, Zenon DEF id
    <2> QED BY <1>2, <2>2, <2>6, <2>7, LeakInvNext, Zenon DEF id
<1>4. CASE NextTier \/ (AllocateReturn /\ call.remaining = 0)
    <2>1. UNCHANGED <<zones_, owner, segments>>
        BY <1>4 DEF NextTier, AllocateReturn
    <2> QED BY <2>1, SameLeak
<1>5. CASE AllocateReturn /\ call.remaining # 0
    <2>1. owner' = Undone(segments[id], id) /\ segments' = [segments EXCEPT ![id] = <<>>]
        BY <1>5, Zenon DEF AllocateReturn
    <2>2. segments'[id] = <<>> /\ \A g \in Ids \cup {0} : g # id => segments'[g] = segments[g]
        BY <1>0, <1>1, <2>1, Zenon DEF AllocTypeOK
    <2>3. ASSUME NEW type \in TrackType, NEW i \in Indices, owner'[type][i] # 0
          PROVE  owner'[type][i] \in DOMAIN files_' /\ Lists(segments'[owner'[type][i]], type, i)
        <3>1. owner'[type][i] = IF owner[type][i] = id /\ Lists(segments[id], type, i) THEN 0 ELSE owner[type][i]
            BY <2>1, Zenon DEF Undone, Lists
        <3>2. owner'[type][i] = owner[type][i] /\ owner[type][i] \in Ids \cup {0}
            BY <1>0, <2>3, <3>1, Zenon DEF AllocTypeOK
        <3>3. owner[type][i] \in DOMAIN files_ /\ Lists(segments[owner[type][i]], type, i)
            BY <2>3, <3>2, LeakInvIs
        <3>4. owner[type][i] # id
            BY <2>3, <3>1, <3>3, Zenon
        <3>5. segments'[owner[type][i]] = segments[owner[type][i]]
            BY <2>2, <3>2, <3>4, Zenon
        <3> QED BY <3>2, <3>3, <3>5, Zenon
    <2>4. \A g \in Ids \cup {0} : g \notin DOMAIN files_' => segments'[g] = <<>>
        BY <2>2, LeakInvIs, Zenon
    <2> QED BY <1>2, <2>2, <2>3, <2>4, LeakInvNext, Zenon
<1> QED BY <1>3, <1>4, <1>5, Zenon DEF AllocateStep

(* The empty contents of a new file are well typed.                        *)
LEMMA EmptyTypes ==
    IsSeq(<<>>) /\ <<>> \in Seq([offset : Nat, size : Nat]) /\ DOMAIN <<>> \subseteq Nat
<1>1. <<>> \in Seq(Nat)
    OBVIOUS
<1> QED BY <1>1 DEF IsSeq

(* RegisterSSTable keeps the space.                                        *)
LEMMA RegisterSpace ==
    ASSUME SpaceInv, NEW f \in Ids, NEW level, NEW largest, RegisterSSTable(f, level, largest)
    PROVE  SpaceInv'
<1>0. AllocInv /\ OpInv /\ FilesType /\ MemType /\ EnvType /\ LeakInv /\ MapInv /\ zones_ = NZones
    BY DEF SpaceInv
<1>1. op = NoOp /\ op.pc = "idle" /\ Ready /\ Idle
    BY <1>0, CallIdle DEF RegisterSSTable, MayCall, NoOp
<1>2. UNCHANGED <<allocVars, persistence_enabled_, rmw_mode_, rmw_balance, op, diskVars, envVars>>
    BY DEF RegisterSSTable
<1>3. FilesType' /\ DOMAIN files_' = DOMAIN files_ \cup {f}
    <2>1. CASE f \in DOMAIN files_
        BY <1>0, <2>1, RegisterFiles, SameFilesType, Zenon DEF SameFiles
    <2>2. CASE f \notin DOMAIN files_
        <3>1. Assigned(f, <<>>, <<>>, <<>>)
            BY <1>0, <2>2, RegisterFiles
        <3> QED BY <1>0, <3>1, EmptyTypes, AssignedType, Zenon DEF Assigned
    <2> QED BY <2>1, <2>2, Zenon
<1>4. /\ DOMAIN s2tmap_' = DOMAIN s2tmap_ \cup {f}
      /\ \A g \in DOMAIN s2tmap_ : s2tmap_'[g] = s2tmap_[g]
      /\ f \notin DOMAIN s2tmap_ => s2tmap_'[f] = <<>>
    BY DEF RegisterSSTable, Put
<1>5. LeakInv'
    <2>1. UNCHANGED <<owner, segments>> /\ Indices' = Indices
        BY <1>2 DEF allocVars, Indices
    <2> QED BY <1>0, <1>3, <2>1, LeakInvIs, LeakInvNext, Zenon
<1>6. MapInv'
    <2>1. segments' = segments /\ op' = op
        BY <1>2 DEF allocVars
    <2>2. \A g \in DOMAIN s2tmap_ : g \in DOMAIN files_ /\ s2tmap_[g] = segments[g]
        BY <1>0, <1>1, Zenon DEF MapInv, Allocating
    <2>3. f \notin DOMAIN s2tmap_ => segments[f] = <<>>
        BY <1>0, <1>1, Zenon DEF MapInv, Allocating, LeakInv
    <2>4. \A g \in DOMAIN files_' : segments[g] # <<>> => g \in DOMAIN s2tmap_'
        BY <1>0, <1>1, <1>3, <1>4, Zenon DEF MapInv, Allocating
    <2> QED BY <1>1, <1>3, <1>4, <2>1, <2>2, <2>3, <2>4, Zenon DEF MapInv, Allocating
<1>7. AllocInv' /\ zones_' = NZones /\ Idle'
    BY <1>0, <1>1, <1>2, SameAlloc, Zenon DEF allocVars, Idle
<1>8. OpInv'
    BY <1>0, <1>1, <1>2, <1>7, IdleOp, Zenon DEF envVars, OpInv
<1>9. MemType' /\ EnvType' /\ LoadInv'
    BY <1>0, <1>1, <1>2, <1>4, Zenon DEF MemType, EnvType, LoadInv, envVars, diskVars
<1>10. MetaInv(meta)' /\ MetaInv(metaStable)'
    BY <1>2, SameMeta DEF diskVars
<1> QED BY <1>3, <1>5, <1>6, <1>7, <1>8, <1>9, <1>10, Zenon DEF SpaceInv

(* Taking the tracks of f back, its entry outside with them.               *)
LEMMA ReleaseSpace ==
    ASSUME SpaceInv, NEW f \in Ids, Release(f), s2tmap_' = Erase(f, s2tmap_),
           DOMAIN files_' = DOMAIN files_ \/ DOMAIN files_' = DOMAIN files_ \ {f},
           op.pc # "alloc", op'.pc \notin {"alloc", "load"}
    PROVE  zones_' = NZones /\ LeakInv' /\ MapInv' /\ LoadInv' /\ Idle' /\ DOMAIN s2tmap_' \subseteq Ids
<1>0. AllocInv /\ LeakInv /\ MapInv /\ zones_ = NZones /\ DOMAIN s2tmap_ \subseteq Ids
    BY Zenon DEF SpaceInv, MemType
<1>1. AllocTypeOK /\ SegmentsOwned
    BY <1>0, Zenon DEF AllocInv
<1>2. zones_' = NZones /\ Idle'
    <2>1. \A status : Returned(status).op = "idle"
        BY DEF Returned, NoCall
    <2> QED BY <1>0, <2>1, Zenon DEF Release, Idle
<1>4. LeakInv' /\ segments'[f] = <<>> /\ \A g \in Ids \cup {0} : g # f => segments'[g] = segments[g]
    BY <1>0, <1>1, ReleaseLeak, Zenon
<1>5. DOMAIN s2tmap_' = DOMAIN s2tmap_ \ {f} /\ \A g \in DOMAIN s2tmap_' : s2tmap_'[g] = s2tmap_[g]
    BY Zenon DEF Erase
<1>6. MapInv'
    <2>1. \A g \in DOMAIN s2tmap_' : g \in DOMAIN files_' /\ s2tmap_'[g] = segments'[g]
        BY <1>0, <1>4, <1>5, Zenon DEF MapInv, Allocating
    <2>2. \A g \in DOMAIN files_' : segments'[g] # <<>> => g \in DOMAIN s2tmap_'
        <3>1. DOMAIN files_ \subseteq Ids
            BY Zenon DEF SpaceInv, FilesType
        <3> QED BY <1>0, <1>4, <1>5, <3>1, Zenon DEF MapInv, Allocating
    <2> QED BY <2>1, <2>2, Zenon DEF MapInv, Allocating
<1> QED BY <1>0, <1>2, <1>4, <1>5, <1>6, Zenon DEF LoadInv

(* BeginWrite keeps the space.                                             *)
LEMMA BeginSpace ==
    ASSUME SpaceInv, AllocInv', NEW f \in Ids, BeginWrite(f)
    PROVE  SpaceInv'
<1>0. AllocInv /\ OpInv /\ FilesType /\ MemType /\ EnvType
    BY DEF SpaceInv
<1>1. op = NoOp /\ op.pc = "idle" /\ Ready /\ f \in DOMAIN files_
    BY DEF BeginWrite, MayCall, NoOp
<1>2. UNCHANGED <<persistence_enabled_, rmw_mode_, rmw_balance, op, diskVars, init_status, faults, crashes>>
    BY DEF BeginWrite
<1>3. FilesType' /\ DOMAIN files_' = DOMAIN files_
    <2>1. Assigned(f, <<>>, <<>>, <<>>)
        BY <1>0, BeginFiles
    <2> QED BY <1>0, <1>1, <2>1, EmptyTypes, AssignedType, Zenon DEF Assigned
<1>4. AllocInv' /\ zones_' = NZones /\ LeakInv' /\ MapInv' /\ LoadInv' /\ Idle' /\ DOMAIN s2tmap_' \subseteq Ids
    <2>1. CASE segments[f] # <<>>
        <3>1. Release(f) /\ s2tmap_' = Erase(f, s2tmap_)
            BY <2>1 DEF BeginWrite
        <3> QED BY <1>1, <1>2, <1>3, <3>1, ReleaseSpace, Zenon
    <2>2. CASE segments[f] = <<>>
        <3>1. SpaceFrame
            BY <1>1, <1>2, <1>3, <2>2 DEF SpaceFrame, SameOutside, BeginWrite
        <3> QED BY <1>0, <3>1, FrameSpace, Zenon DEF SpaceFrame, SameOutside, MemType
    <2> QED BY <2>1, <2>2, Zenon
<1>5. OpInv'
    BY <1>0, <1>1, <1>2, <1>4, IdleOp, Zenon DEF OpInv
<1>6. MemType'
    BY <1>0, <1>2, <1>4, Zenon DEF MemType
<1>7. EnvType'
    <2>1. begins' \in 0 .. MaxBegins
        BY <1>0, KVIMRAssumption DEF BeginWrite, EnvType
    <2>2. open' = open \cup {f} /\ DOMAIN acked' \subseteq DOMAIN acked
        BY DEF BeginWrite, Erase
    <2> QED BY <1>0, <1>2, <2>1, <2>2, Zenon DEF EnvType, diskVars
<1>8. MetaInv(meta)' /\ MetaInv(metaStable)'
    BY <1>2, SameMeta, Zenon DEF diskVars
<1> QED BY <1>3, <1>4, <1>5, <1>6, <1>7, <1>8, Zenon DEF SpaceInv
-----------------------------------------------------------------------------
(* The methods that may allocate or release.                               *)

(* Calling Allocate for a known file without tracks.                       *)
LEMMA CallSpace ==
    ASSUME SpaceInv, NEW f \in DOMAIN files_, NEW name \in {"sync", "unlink"}, op = NoOp,
           segments[f] = <<>>, CallAllocate(f, name), UNCHANGED <<files_, s2tmap_, init_status>>, Ready
    PROVE  zones_' = NZones /\ LeakInv' /\ MapInv' /\ LoadInv' /\ OpInv'
<1>0. AllocInv /\ OpInv /\ FilesType /\ LeakInv /\ MapInv /\ zones_ = NZones
    BY Zenon DEF SpaceInv
<1>1. AllocTypeOK /\ SegmentsOwned /\ f \in Ids /\ Len(files_[f].data) \in Nat
    BY <1>0, IsSeqFacts, Zenon DEF AllocInv, FilesType, StateType
<1>2. Allocate(f, Len(files_[f].data), files_[f].level, files_[f].largest)
    BY DEF CallAllocate
<1>4. UNCHANGED <<zones_, owner, segments>>
    <2>1. segments' = [segments EXCEPT ![f] = <<>>]
        BY <1>2, Zenon DEF Allocate
    <2>2. segments' = segments
        BY <1>1, <2>1, Zenon DEF AllocTypeOK
    <2> QED BY <1>2, <2>2, Zenon DEF Allocate
<1>5. LeakInv'
    BY <1>0, <1>4, SameLeak, Zenon
<1>6. OpIs(name, f, "alloc")
    BY DEF CallAllocate, NoOp, OpIs, OpFields
<1>7. MapInv'
    <2>1. op.pc = "idle"
        BY Zenon DEF NoOp
    <2>2. op'.pc = "alloc" /\ op'.file = f
        BY <1>6, Zenon DEF OpIs
    <2> QED BY <1>0, <1>4, <2>1, <2>2, Zenon DEF MapInv, Allocating
<1>8. call'.op = "allocate" => call'.id = f
    BY <1>2 DEF Allocate, Returned, NoCall
<1>9. OpInv'
    <2>1. init_status' # "loading" /\ (MemoryOnly => init_status' = "none") /\ Ready'
        BY <1>0, Zenon DEF OpInv, NoOp, Ready
    <2> QED BY <1>1, <1>6, <1>8, <2>1, StepOp, Zenon DEF Calls
<1>10. LoadInv'
    BY <1>6, Zenon DEF LoadInv, OpIs
<1> QED BY <1>0, <1>4, <1>5, <1>7, <1>9, <1>10, Zenon

(* The steps of Allocate keep the space.                                   *)
LEMMA AllocatorSpace ==
    ASSUME SpaceInv, AllocInv', TakesFree, AllocatorRuns
    PROVE  SpaceInv'
<1>0. AllocInv /\ OpInv /\ FilesType /\ MemType /\ EnvType /\ LeakInv /\ MapInv /\ zones_ = NZones
    BY DEF SpaceInv
<1>1. op.pc = "alloc" /\ AllocateStep /\ UNCHANGED <<memVars, op, diskVars, envVars>>
    BY Zenon DEF AllocatorRuns
<1>2. UNCHANGED <<files_, s2tmap_, op, init_status, persistence_enabled_>>
    BY <1>1, Zenon DEF memVars, envVars
<1>3. call.op = "allocate" /\ call.id = op.file /\ op.file \in DOMAIN files_ /\ op.file \in Ids
    BY <1>0, <1>1, Zenon DEF AllocateStep, ReserveNext, NextTier, AllocateReturn, OpInv, OnFile, Calls
<1>4. AllocInv' /\ zones_' = NZones
    <2>2. zones_' = zones_
        BY <1>1 DEF AllocateStep, ReserveNext, NextTier, AllocateReturn
    <2> QED BY <1>0, <2>2
<1>5. LeakInv' /\ \A g \in Ids \cup {0} : g # op.file => segments'[g] = segments[g]
    BY <1>0, <1>1, <1>2, <1>3, AllocateLeak, Zenon
<1>6. call'.op = "allocate" => call'.id = op.file
    <2>1. call' = [call EXCEPT !.remaining = RemainingAfter(call.tier)]
          \/ call' = [call EXCEPT !.tier = "TOP"] \/ call' = Returned("OK") \/ call' = Returned("IOError")
        BY <1>1 DEF AllocateStep, ReserveNext, NextTier, AllocateReturn
    <2>2. call \in CallType
        BY <1>0, Zenon DEF AllocInv, AllocTypeOK
    <2>3. \A status : Returned(status).op = "idle"
        BY DEF Returned, NoCall
    <2> QED BY <1>3, <2>1, <2>2, <2>3 DEF CallType
<1>7. Idle' /\ call'.status # "OK" => segments'[op.file] = <<>>
    <2>1. CASE ReserveNext \/ NextTier
        <3>1. call'.op = "allocate"
            BY <1>0, <2>1, Zenon DEF AllocInv, AllocTypeOK, CallType, ReserveNext, NextTier
        <3> QED BY <3>1, Zenon DEF Idle
    <2>2. CASE AllocateReturn
        <3>1. call.remaining = 0 => call'.status = "OK"
            BY <2>2 DEF AllocateReturn, Returned, NoCall
        <3>2. call.remaining # 0 => segments'[op.file] = <<>>
            BY <1>0, <1>3, <2>2, Zenon DEF AllocateReturn, AllocInv, AllocTypeOK
        <3> QED BY <3>1, <3>2, Zenon
    <2> QED BY <1>1, <2>1, <2>2, Zenon DEF AllocateStep
<1>8. OpInv'
    BY <1>0, <1>1, <1>2, <1>6 DEF OpInv, OnFile, Ready
<1>9. MapInv'
    <2>1. DOMAIN s2tmap_ \subseteq Ids /\ DOMAIN files_ \subseteq Ids
        BY <1>0, Zenon DEF MemType, FilesType
    <2> QED BY <1>0, <1>1, <1>2, <1>5, <1>7, <2>1, Zenon DEF MapInv, Allocating
<1>10. FilesType' /\ MemType' /\ EnvType' /\ LoadInv'
    <2>1. FilesType'
        BY <1>0, <1>2, UnchangedFiles, SameFilesType
    <2> QED BY <1>0, <1>1, <2>1, Zenon DEF MemType, EnvType, memVars, diskVars, envVars, LoadInv
<1>11. MetaInv(meta)' /\ MetaInv(metaStable)'
    BY <1>1, SameMeta DEF diskVars
<1> QED BY <1>4, <1>5, <1>8, <1>9, <1>10, <1>11, Zenon DEF SpaceInv

(* The step a method is at when it has entered ApplyPendingUpdatesLocked.  *)
LEMMA EnterOp ==
    ASSUME NEW f, NEW name, EnterApply(f, name)
    PROVE  op' = NoOp \/ (OpIs(name, f, "apply") /\ op'.u = 1 /\ op'.k = 1
                          /\ ~(Len(files_[f].data) > Capacity(f, Len(segments[f]))))
BY DEF EnterApply, NoOp, OpIs, OpFields

(* A method that starts, or returns at once, and moves no tracks.          *)
LEMMA StartSpace ==
    ASSUME SpaceInv, op = NoOp, Ready,
           UNCHANGED <<allocVars, persistence_enabled_, rmw_mode_, rmw_balance, diskVars,
                       init_status, faults, begins, crashes>>, SameOutside,
           FilesType', DOMAIN files_' = DOMAIN files_, open' \subseteq Ids, DOMAIN acked' \subseteq Ids,
           \/ op' = NoOp
           \/ /\ persistence_enabled_
              /\ \E name \in {"sync", "unlink"}, f \in Ids, pc \in Calls \ {"alloc"} :
                    /\ OpIs(name, f, pc)
                    /\ f \in DOMAIN files_ \/ (pc \in {"snapshot", "dirsync"} /\ name # "sync")
    PROVE  SpaceInv'
<1>0. AllocInv /\ OpInv /\ FilesType /\ MemType /\ EnvType
    BY Zenon DEF SpaceInv
<1>1. SpaceFrame
    <2>1. op.pc = "idle" /\ op'.pc \notin {"alloc", "load"}
        BY DEF NoOp, OpIs, Calls
    <2> QED BY <2>1, Zenon DEF SpaceFrame
<1>2. init_status # "loading" /\ (MemoryOnly => init_status = "none")
    BY <1>0, Zenon DEF OpInv, NoOp
<1>3. Idle'
    BY <1>1, FrameSpace, Zenon
<1>4. OpInv'
    <2>1. CASE op' = NoOp
        BY <1>2, <1>3, <2>1, IdleOp, Zenon
    <2>2. CASE op' # NoOp
        <3>1. PICK name \in {"sync", "unlink"}, f \in Ids, pc \in Calls \ {"alloc"} :
                    /\ OpIs(name, f, pc)
                    /\ f \in DOMAIN files_ \/ (pc \in {"snapshot", "dirsync"} /\ name # "sync")
            BY <2>2, Zenon
        <3>2. Ready' /\ init_status' # "loading" /\ (MemoryOnly => init_status' = "none")
              /\ persistence_enabled_' = persistence_enabled_ /\ persistence_enabled_
            BY <1>2, <2>2, Zenon DEF Ready
        <3>3. call'.op # "allocate"
            BY <1>3, Zenon DEF Idle
        <3>4. pc \notin {"snapshot", "dirsync"} \/ name = "sync" => f \in DOMAIN files_'
            BY <3>1, Zenon
        <3>5. pc \in Calls /\ OpIs(name, f, pc) /\ (call'.op = "allocate" => pc = "alloc" /\ call'.id = f)
              /\ (pc # "alloc" => persistence_enabled_')
            BY <3>1, <3>2, <3>3
        <3> QED BY <3>2, <3>4, <3>5, StepOp, Zenon
    <2> QED BY <2>1, <2>2, Zenon
<1>5. MemType' /\ EnvType'
    BY <1>0, Zenon DEF MemType, EnvType, diskVars, SameOutside
<1>6. MetaInv(meta)' /\ MetaInv(metaStable)'
    BY SameMeta, Zenon DEF diskVars
<1> QED BY <1>1, <1>4, <1>5, <1>6, FrameSpace, Zenon DEF SpaceInv

(* kvsync keeps the space.                                                 *)
LEMMA SyncSpace ==
    ASSUME SpaceInv, AllocInv', NEW f \in Ids, NEW closing, kvsync(f, closing)
    PROVE  SpaceInv'
<1>0. AllocInv /\ OpInv /\ FilesType /\ MemType /\ EnvType
    BY DEF SpaceInv
<1>1. op = NoOp /\ Ready /\ f \in DOMAIN files_ /\ open' \subseteq Ids
    BY <1>0 DEF kvsync, MayCall, EnvType
<1>2. UNCHANGED <<s2tmap_, persistence_enabled_, rmw_mode_, rmw_balance, diskVars,
                  init_status, acked, faults, begins, crashes>>
    BY DEF kvsync
<1>3. CASE CallAllocate(f, "sync") /\ UNCHANGED files_ /\ segments[f] = <<>>
    <2>1. AllocInv' /\ zones_' = NZones /\ LeakInv' /\ MapInv' /\ LoadInv' /\ OpInv'
        BY <1>1, <1>2, <1>3, CallSpace, Zenon
    <2>2. FilesType'
        BY <1>0, <1>3, UnchangedFiles, SameFilesType, Zenon
    <2>3. MemType' /\ EnvType'
        BY <1>0, <1>1, <1>2, Zenon DEF MemType, EnvType, diskVars
    <2>4. MetaInv(meta)' /\ MetaInv(metaStable)'
        BY <1>2, SameMeta, Zenon DEF diskVars
    <2> QED BY <2>1, <2>2, <2>3, <2>4, Zenon DEF SpaceInv
<1>4. CASE /\ UNCHANGED allocVars
           /\ op' = NoOp \/ (persistence_enabled_ /\ (EnterApply(f, "sync") \/
                op' = [NoOp EXCEPT !.name = "sync", !.file = f, !.pc = "devsync"]))
    <2>1. FilesType' /\ DOMAIN files_' = DOMAIN files_
        <3>1. files_' = files_ \/ files_' = [files_ EXCEPT ![f].synced = TRUE]
            BY DEF kvsync
        <3>2. SameFiles
            BY <1>0, <1>1, <3>1, UnchangedFiles, SyncedFiles
        <3> QED BY <1>0, <3>2, SameFilesType, Zenon DEF SameFiles
    <2>2. CASE op' = NoOp
        BY <1>0, <1>1, <1>2, <1>4, <2>1, <2>2, StartSpace DEF SameOutside, EnvType
    <2>3. CASE op' # NoOp
        <3>1. persistence_enabled_ /\ (EnterApply(f, "sync") \/
                 op' = [NoOp EXCEPT !.name = "sync", !.file = f, !.pc = "devsync"])
            BY <1>4, <2>3
        <3>2. CASE EnterApply(f, "sync")
            <4>1. OpIs("sync", f, "apply")
                BY <2>3, <3>2, EnterOp, Zenon
            <4> QED BY <1>0, <1>1, <1>2, <1>4, <2>1, <3>1, <4>1, StartSpace DEF SameOutside, EnvType, Calls
        <3>3. CASE op' = [NoOp EXCEPT !.name = "sync", !.file = f, !.pc = "devsync"]
            <4>1. OpIs("sync", f, "devsync")
                BY <3>3 DEF OpIs, NoOp, OpFields
            <4> QED BY <1>0, <1>1, <1>2, <1>4, <2>1, <3>1, <4>1, StartSpace DEF SameOutside, EnvType, Calls
        <3> QED BY <3>1, <3>2, <3>3
    <2> QED BY <2>2, <2>3
<1> QED BY <1>1, <1>3, <1>4 DEF kvsync

(* The tail of kvunlink keeps the space.                                   *)
LEMMA UnlinkReleaseSpace ==
    ASSUME SpaceInv, AllocInv', NEW f \in DOMAIN files_, op.pc # "alloc", Ready, init_status # "loading", UnlinkRelease(f),
           UNCHANGED <<persistence_enabled_, rmw_mode_, rmw_balance, disk, meta, metaStable,
                       init_status, open, faults, begins, crashes>>,
           DOMAIN stable' = Device, DOMAIN acked' \subseteq Ids
    PROVE  SpaceInv'
<1>0. AllocInv /\ OpInv /\ FilesType /\ MemType /\ EnvType /\ f \in Ids
    BY Zenon DEF SpaceInv, FilesType
<1>1. Release(f) /\ s2tmap_' = Erase(f, s2tmap_) /\ files_' = Erase(f, files_)
    BY DEF UnlinkRelease
<1>2. op' = NoOp \/ (persistence_enabled_ /\ OpIs("unlink", f, "snapshot"))
    BY DEF UnlinkRelease, OpIs, NoOp, OpFields
<1>3. FilesType' /\ DOMAIN files_' = DOMAIN files_ \ {f}
    BY <1>0, <1>1, Zenon DEF Erase, FilesType
<1>4. AllocInv' /\ zones_' = NZones /\ LeakInv' /\ MapInv' /\ LoadInv' /\ Idle' /\ DOMAIN s2tmap_' \subseteq Ids
    <2>1. op'.pc \notin {"alloc", "load"}
        BY <1>2 DEF OpIs, NoOp
    <2> QED BY <1>0, <1>1, <1>3, <2>1, ReleaseSpace, Zenon
<1>5. OpInv'
    <2>1. Ready' /\ init_status' # "loading" /\ (MemoryOnly => init_status' = "none")
        BY <1>0, Zenon DEF Ready, OpInv
    <2>2. CASE op' = NoOp
        BY <1>4, <2>1, <2>2, IdleOp, Zenon
    <2>3. CASE op' # NoOp
        <3>1. persistence_enabled_' /\ OpIs("unlink", f, "snapshot") /\ call'.op # "allocate"
            BY <1>2, <1>4, <2>3, Zenon DEF Idle
        <3> QED BY <1>0, <2>1, <3>1, StepOp, Zenon DEF Calls
    <2> QED BY <2>2, <2>3, Zenon
<1>6. MemType' /\ EnvType'
    BY <1>0, <1>4, Zenon DEF MemType, EnvType
<1>7. MetaInv(meta)' /\ MetaInv(metaStable)'
    BY SameMeta, Zenon
<1> QED BY <1>3, <1>4, <1>5, <1>6, <1>7, Zenon DEF SpaceInv

(* kvunlink keeps the space.                                               *)
LEMMA UnlinkSpace ==
    ASSUME SpaceInv, AllocInv', NEW f \in Ids, kvunlink(f)
    PROVE  SpaceInv'
<1>0. AllocInv /\ OpInv /\ FilesType /\ MemType /\ EnvType /\ MapInv
    BY DEF SpaceInv
<1>1. op = NoOp /\ op.pc = "idle" /\ Ready /\ init_status # "loading"
    BY <1>0 DEF kvunlink, MayCall, NoOp, OpInv
<1>2. UNCHANGED <<persistence_enabled_, rmw_mode_, rmw_balance, diskVars,
                  init_status, open, faults, begins, crashes>>
      /\ DOMAIN acked' \subseteq Ids
    BY <1>0 DEF kvunlink, Erase, EnvType
<1>3. CASE f \notin DOMAIN files_
    <2>1. /\ UNCHANGED <<allocVars, files_>> /\ s2tmap_' = Erase(f, s2tmap_)
          /\ op' = IF persistence_enabled_
                   THEN [NoOp EXCEPT !.name = "unlink", !.file = f, !.pc = "snapshot"] ELSE NoOp
        BY <1>3 DEF kvunlink
    <2>2. f \notin DOMAIN s2tmap_
        BY <1>0, <1>3, Zenon DEF MapInv
    <2>4. SameOutside
        BY <2>1, <2>2 DEF Erase, SameOutside
    <2>5. FilesType' /\ DOMAIN files_' = DOMAIN files_
        BY <1>0, <2>1, UnchangedFiles, SameFilesType
    <2>6. op' = NoOp \/ (persistence_enabled_ /\ OpIs("unlink", f, "snapshot"))
        BY <2>1 DEF OpIs, NoOp, OpFields
    <2> QED BY <1>0, <1>1, <1>2, <2>1, <2>4, <2>5, <2>6, StartSpace DEF EnvType, Calls
<1>4. CASE f \in DOMAIN files_ /\ UnlinkRelease(f)
    BY <1>0, <1>1, <1>2, <1>4, UnlinkReleaseSpace, Zenon DEF EnvType, diskVars
<1>5. CASE f \in DOMAIN files_ /\ segments[f] = <<>> /\ CallAllocate(f, "unlink") /\ UNCHANGED <<files_, s2tmap_>>
    <2>1. AllocInv' /\ zones_' = NZones /\ LeakInv' /\ MapInv' /\ LoadInv' /\ OpInv'
        BY <1>1, <1>2, <1>5, CallSpace, Zenon
    <2>2. FilesType'
        BY <1>0, <1>5, UnchangedFiles, SameFilesType, Zenon
    <2>3. MemType' /\ EnvType'
        BY <1>0, <1>2, <1>5, Zenon DEF MemType, EnvType, diskVars
    <2>4. MetaInv(meta)' /\ MetaInv(metaStable)'
        BY <1>2, SameMeta, Zenon DEF diskVars
    <2> QED BY <2>1, <2>2, <2>3, <2>4, Zenon DEF SpaceInv
<1>6. CASE f \in DOMAIN files_ /\ EnterApply(f, "unlink") /\ persistence_enabled_
           /\ UNCHANGED <<allocVars, files_, s2tmap_>>
    <2>1. FilesType' /\ DOMAIN files_' = DOMAIN files_
        BY <1>0, <1>6, UnchangedFiles, SameFilesType, Zenon
    <2>2. op' = NoOp \/ OpIs("unlink", f, "apply")
        BY <1>6, EnterOp, Zenon
    <2>3. "unlink" \in {"sync", "unlink"} /\ "apply" \in Calls \ {"alloc"}
        BY DEF Calls
    <2> QED BY <1>0, <1>1, <1>2, <1>6, <2>1, <2>2, <2>3, StartSpace, Zenon DEF SameOutside, EnvType
<1> QED BY <1>3, <1>4, <1>5, <1>6, Zenon DEF kvunlink

(* The return of Allocate keeps the space.                                 *)
LEMMA AllocatedSpace ==
    ASSUME SpaceInv, Allocated
    PROVE  SpaceInv'
<1> DEFINE f == op.file
<1>0. AllocInv /\ OpInv /\ FilesType /\ MemType /\ EnvType /\ LeakInv /\ MapInv /\ zones_ = NZones
    BY DEF SpaceInv
<1>1. op.pc = "alloc" /\ Idle /\ UNCHANGED <<allocVars, persistence_enabled_, rmw_mode_, rmw_balance, diskVars, envVars>>
    BY DEF Allocated
<1>2. /\ f \in Ids /\ op.name \in {"sync", "unlink"} /\ Ready /\ f \in DOMAIN files_
      /\ init_status # "loading" /\ (MemoryOnly => init_status = "none")
    BY <1>0, <1>1, InMethod, Zenon DEF Calls, OnFile
<1>3. FilesType' /\ DOMAIN files_' = DOMAIN files_
    <2>1. files_' = files_ \/ files_' = [files_ EXCEPT ![f].synced = TRUE]
        BY DEF Allocated
    <2>2. SameFiles
        BY <1>0, <1>2, <2>1, UnchangedFiles, SyncedFiles
    <2> QED BY <1>0, <2>2, SameFilesType, Zenon DEF SameFiles
<1>4. op' = NoOp \/ (persistence_enabled_ /\ OpIs(op.name, f, "apply"))
    <2>1. op' = NoOp \/ (persistence_enabled_ /\ EnterApply(f, op.name))
        BY DEF Allocated, Return
    <2> QED BY <2>1, EnterOp, Zenon
<1>5. op'.pc \in {"idle", "apply"}
    BY <1>4 DEF OpIs, NoOp
<1>6. AllocInv' /\ zones_' = NZones /\ LeakInv' /\ LoadInv' /\ Idle'
    BY <1>0, <1>1, <1>3, <1>5, SameAlloc, SameLeak, Zenon DEF allocVars, LoadInv, Idle
<1>7. MapInv' /\ DOMAIN s2tmap_' \subseteq Ids
    <2>1. segments' = segments
        BY <1>1, Zenon DEF allocVars
    <2>2. CASE call.status # "OK"
        <3>1. s2tmap_' = s2tmap_ /\ segments[f] = <<>>
            BY <1>0, <1>1, <2>2 DEF Allocated, MapInv
        <3> QED BY <1>0, <1>1, <1>3, <1>5, <2>1, <3>1, Zenon DEF MapInv, Allocating, MemType
    <2>3. CASE call.status = "OK"
        <3>1. s2tmap_' = Put(s2tmap_, f, segments[f])
            BY <2>3 DEF Allocated
        <3>2. /\ DOMAIN s2tmap_' = DOMAIN s2tmap_ \cup {f} /\ s2tmap_'[f] = segments[f]
              /\ \A g \in DOMAIN s2tmap_ : g # f => s2tmap_'[g] = s2tmap_[g]
            BY <3>1, Zenon DEF Put
        <3>3. \A g \in DOMAIN s2tmap_ : g # f => g \in DOMAIN files_ /\ s2tmap_[g] = segments[g]
            BY <1>0, Zenon DEF MapInv, Allocating
        <3>4. \A g \in DOMAIN files_ : segments[g] # <<>> => g \in DOMAIN s2tmap_ \/ g = f
            BY <1>0, Zenon DEF MapInv, Allocating
        <3> QED BY <1>0, <1>2, <1>3, <1>5, <2>1, <3>2, <3>3, <3>4, Zenon DEF MapInv, Allocating, MemType
    <2> QED BY <2>2, <2>3
<1>8. OpInv'
    <2>1. Ready' /\ init_status' # "loading" /\ (MemoryOnly => init_status' = "none")
        BY <1>1, <1>2, Zenon DEF Ready, envVars
    <2>2. CASE op' = NoOp
        BY <1>6, <2>1, <2>2, IdleOp
    <2>3. CASE op' # NoOp
        <3>1. persistence_enabled_' /\ OpIs(op.name, f, "apply") /\ call'.op # "allocate"
            BY <1>1, <1>4, <1>6, <2>3, Zenon DEF Idle
        <3> QED BY <1>2, <1>3, <2>1, <3>1, StepOp, Zenon DEF Calls
    <2> QED BY <2>2, <2>3
<1>9. MemType' /\ EnvType'
    BY <1>0, <1>1, <1>7, Zenon DEF MemType, EnvType, envVars, diskVars
<1>10. MetaInv(meta)' /\ MetaInv(metaStable)'
    BY <1>1, SameMeta DEF diskVars
<1> QED BY <1>3, <1>6, <1>7, <1>8, <1>9, <1>10, Zenon DEF SpaceInv

(* The device sync of both methods, and the end of kvunlink after it.      *)
LEMMA DeviceSyncSpace ==
    ASSUME SpaceInv, AllocInv', DeviceSync
    PROVE  SpaceInv'
<1> DEFINE f == op.file
<1>0. OpInv /\ FilesType /\ MemType /\ EnvType
    BY DEF SpaceInv
<1>1. op.pc = "devsync" /\ stable' = disk
      /\ UNCHANGED <<persistence_enabled_, rmw_mode_, rmw_balance, disk, meta, metaStable, envVars>>
    BY DEF DeviceSync
<1>2. /\ op.pc \in Calls \ {"alloc"} /\ OnFile /\ f \in Ids /\ f \in DOMAIN files_ /\ Ready
      /\ init_status # "loading" /\ op.name \in {"sync", "unlink"}
    BY <1>0, <1>1, InMethod, Zenon DEF Calls, OnFile
<1>3. CASE op.name = "sync"
    <2>1. files_' = [files_ EXCEPT ![f].synced = TRUE] /\ Goto("snapshot") /\ UNCHANGED <<allocVars, s2tmap_>>
        BY <1>3 DEF DeviceSync
    <2>2. SameFiles
        BY <1>0, <1>2, <2>1, SyncedFiles, Zenon
    <2>3. FilesType' /\ DOMAIN files_' = DOMAIN files_
        BY <1>0, <2>2, SameFilesType, Zenon DEF SameFiles
    <2>4. OpIs(op.name, op.file, "snapshot") /\ "snapshot" \in Calls \ {"alloc"}
        BY <1>0, <2>1, GotoOp DEF Calls
    <2>5. MetaInv(meta)' /\ MetaInv(metaStable)'
        BY <1>1, SameMeta
    <2> QED BY <1>0, <1>1, <1>2, <2>1, <2>3, <2>4, <2>5, MethodSpace DEF EnvType, MemType, envVars
<1>4. CASE op.name # "sync"
    <2>1. UnlinkRelease(f)
        BY <1>4 DEF DeviceSync
    <2> QED BY <1>0, <1>1, <1>2, <2>1, UnlinkReleaseSpace, Zenon DEF EnvType, envVars, Calls
<1> QED BY <1>3, <1>4
-----------------------------------------------------------------------------
(* Initialization, crashes and loading.                                    *)

(* After a Reset no track is owned and no file known.                      *)
LEMMA ResetSpace ==
    ASSUME Reset(NZones), files_' = <<>>, s2tmap_' = <<>>, op'.pc # "alloc"
    PROVE  zones_' = NZones /\ FilesType' /\ LeakInv' /\ MapInv' /\ Idle'
<1>0. \A type \in TrackType : \A i \in Indices' : owner'[type][i] = 0
    BY Zenon DEF Reset, NoOwners, Indices
<1>1. /\ zones_' = NZones /\ Idle' /\ DOMAIN files_' = {} /\ DOMAIN s2tmap_' = {}
      /\ \A f \in Ids \cup {0} : segments'[f] = <<>>
    BY DEF Reset, NoCall, Idle
<1>3. LeakInv'
    BY <1>0, <1>1, Zenon DEF LeakInv
<1>4. MapInv' /\ FilesType'
    BY <1>1, Zenon DEF MapInv, Allocating, FilesType
<1> QED BY <1>1, <1>3, <1>4, Zenon

(* InitializePersistence keeps the space.                                  *)
LEMMA InitializeSpace ==
    ASSUME SpaceInv, AllocInv', NEW mode \in Modes, InitializePersistence(mode)
    PROVE  SpaceInv'
<1>0. AllocTypeOK /\ OpInv /\ MemType /\ EnvType
    BY DEF SpaceInv, AllocInv
<1>1. /\ ~MemoryOnly /\ op = NoOp /\ Reset(NZones) /\ files_' = <<>> /\ s2tmap_' = <<>> /\ rmw_mode_' = mode
      /\ UNCHANGED <<rmw_balance, diskVars, open, acked, begins, crashes>>
    BY DEF InitializePersistence
<1>2. \/ /\ op' = [NoOp EXCEPT !.name = "init", !.pc = "load", !.todo = DOMAIN meta]
         /\ init_status' = "loading" /\ persistence_enabled_' = TRUE /\ faults' = faults
      \/ op' = NoOp /\ init_status' = "fault" /\ persistence_enabled_' = persistence_enabled_ /\ Fault
    BY DEF InitializePersistence
<1>3. \/ /\ op'.pc = "load" /\ op'.todo = DOMAIN meta /\ DOMAIN op' = OpFields /\ op'.u \in Nat /\ op'.k \in Nat
         /\ op' # NoOp /\ init_status' = "loading"
      \/ op' = NoOp /\ op'.pc = "idle" /\ init_status' = "fault"
    <2>1. CASE op' = [NoOp EXCEPT !.name = "init", !.pc = "load", !.todo = DOMAIN meta] /\ init_status' = "loading"
        BY <2>1, Zenon DEF NoOp, OpFields
    <2>2. CASE op' = NoOp /\ init_status' = "fault"
        BY <2>2, Zenon DEF NoOp
    <2> QED BY <1>2, <2>1, <2>2, Zenon
<1>4. AllocInv' /\ zones_' = NZones /\ FilesType' /\ LeakInv' /\ MapInv' /\ Idle'
    BY <1>0, <1>1, <1>3, ResetSpace, Zenon
<1>5. OpInv'
    BY <1>1, <1>3, <1>4 DEF OpInv, OnFile, Calls, Idle, NoOp, OpFields
<1>6. MemType'
    <2>1. persistence_enabled_' \in BOOLEAN
        BY <1>0, <1>2, Zenon DEF MemType
    <2> QED BY <1>0, <1>1, <2>1, KVIMRAssumption DEF MemType
<1>7. EnvType'
    <2>1. faults' \in 0 .. MaxFaults
        BY <1>0, <1>2, FaultType DEF EnvType
    <2> QED BY <1>0, <1>1, <1>3, <2>1, Zenon DEF EnvType, diskVars
<1>8. LoadInv'
    BY <1>1, <1>3 DEF LoadInv, diskVars
<1>9. MetaInv(meta)' /\ MetaInv(metaStable)'
    BY <1>1, SameMeta, Zenon DEF diskVars
<1> QED BY <1>4, <1>5, <1>6, <1>7, <1>8, <1>9, Zenon DEF SpaceInv

(* A crash keeps the space: the metadata file is one of its two versions.  *)
LEMMA CrashSpace ==
    ASSUME SpaceInv, AllocInv', Crash
    PROVE  SpaceInv'
<1>0. AllocTypeOK /\ OpInv /\ MemType /\ EnvType /\ MetaInv(meta) /\ MetaInv(metaStable)
    BY Zenon DEF SpaceInv, AllocInv
<1>1. AllocInv' /\ zones_' = NZones /\ FilesType' /\ LeakInv' /\ MapInv' /\ Idle'
    BY <1>0, ResetSpace, Zenon DEF Crash, NoOp
<1>2. op' = NoOp /\ init_status' = "none"
    BY Zenon DEF Crash
<1>3. OpInv' /\ LoadInv'
    BY <1>1, <1>2, IdleOp, Zenon DEF LoadInv, NoOp
<1>4. MemType'
    <2>1. /\ s2tmap_' = <<>> /\ persistence_enabled_' = FALSE /\ rmw_mode_' = "NAIVE" /\ rmw_balance' = 0
          /\ DOMAIN <<>> \subseteq Ids
        BY DEF Crash
    <2>2. persistence_enabled_' \in BOOLEAN
        BY <2>1, Zenon
    <2>3. rmw_balance' \in Int
        BY <2>1
    <2> QED BY <2>1, <2>2, <2>3, Zenon DEF MemType
<1>5. DOMAIN disk' = Device /\ DOMAIN stable' = Device
    <2>1. PICK kept : disk' = [b \in Device |-> IF SectorOf(b) \in kept THEN disk[b] ELSE stable[b]]
        BY Zenon DEF Crash
    <2> QED BY <2>1, Zenon DEF Crash
<1>6. EnvType'
    <2>1. crashes' \in 0 .. MaxCrashes /\ open' = {} /\ UNCHANGED <<acked, faults, begins>>
        BY <1>0, KVIMRAssumption DEF Crash, EnvType
    <2> QED BY <1>0, <1>2, <1>5, <2>1, Zenon DEF EnvType
<1>7. MetaInv(meta)' /\ MetaInv(metaStable)'
    <2>1. MetaInv(meta') /\ MetaInv(metaStable')
        <3>1. meta' \in {meta, metaStable} /\ metaStable' = meta'
            BY Zenon DEF Crash
        <3> QED BY <1>0, <3>1, Zenon
    <2> QED BY <2>1, Zenon DEF MetaInv, Track, TrackType, TrackCount
<1> QED BY <1>1, <1>3, <1>4, <1>6, <1>7, Zenon DEF SpaceInv

(* The tracks of an entry still to be loaded are free: Restore succeeds.   *)
LEMMA RestoreSucceeds ==
    ASSUME SpaceInv, op.pc = "load", NEW f \in op.todo, meta[f].tracks # <<>>, Restore(f, meta[f].tracks)
    PROVE  /\ zones_' = NZones /\ Idle' /\ call'.status = "OK"
           /\ owner' = Taken(meta[f].tracks, Len(meta[f].tracks), f)
           /\ segments' = [segments EXCEPT ![f] = meta[f].tracks]
<1> DEFINE s == meta[f].tracks
<1>0. AllocInv /\ zones_ = NZones /\ MetaInv(meta) /\ LeakInv /\ LoadInv
    BY Zenon DEF SpaceInv
<1>1. AllocTypeOK /\ SegmentsOwned
    BY <1>0, Zenon DEF AllocInv
<1>2. f \in DOMAIN meta /\ f \in Ids /\ f # 0 /\ s \in Seq(Track) /\ f \notin DOMAIN files_
    BY <1>0, IdsAssumption, Zenon DEF LoadInv, MetaInv
<1>3. \A k \in 1 .. Len(s) : s[k] \in Track /\ s[k].index \in Indices
    BY <1>0, <1>2 DEF MetaInv, Indices
<1>4. ASSUME NEW k \in 1 .. Len(s) PROVE owner[s[k].type][s[k].index] = 0
    <2> DEFINE g == owner[s[k].type][s[k].index]
    <2>1. s[k].type \in TrackType /\ s[k].index \in Indices /\ s[k] = [type |-> s[k].type, index |-> s[k].index]
        BY <1>3, Zenon DEF Track
    <2>2. SUFFICES ASSUME g # 0 PROVE FALSE
        BY Zenon
    <2>3. g \in DOMAIN files_ /\ Lists(segments[g], s[k].type, s[k].index)
        BY <1>0, <2>1, <2>2, LeakInvIs, Zenon
    <2>4. g \in DOMAIN meta /\ segments[g] = meta[g].tracks /\ g # f
        BY <1>0, <1>2, <2>3, Zenon DEF LoadInv
    <2>5. PICK j \in 1 .. Len(meta[g].tracks) : meta[g].tracks[j] = s[k]
        BY <2>1, <2>3, <2>4, Zenon DEF Lists
    <2> QED BY <1>0, <1>2, <2>4, <2>5, Zenon DEF MetaInv
<1>5. \A j, k \in 1 .. Len(s) : s[j] = s[k] => j = k
    BY <1>0, <1>2, Zenon DEF MetaInv
<1>6. Len(s) \in Nat /\ Len(s) > 0
    BY <1>2
<1> HIDE DEF s
<1>7. Indices # {} /\ s # <<>>
    BY <1>3, <1>6
<1>8. Stops(s) = {}
    BY <1>3, <1>4, <1>5, <1>6 DEF Stops, BadGeometry, AlreadyOwned
<1>9. Restore(f, s)
    BY Zenon DEF s
<1>10. owner' = Taken(s, Len(s), f) /\ segments' = [segments EXCEPT ![f] = s] /\ call' = Returned("OK") /\ zones_' = zones_
    BY <1>2, <1>7, <1>8, <1>9, Zenon DEF Restore
<1>11. Idle' /\ call'.status = "OK"
    BY <1>10 DEF Idle, Returned, NoCall
<1> QED BY <1>0, <1>10, <1>11, Zenon DEF s

(* What an entry adds to the tracks, whether it has any or none.           *)
LEMMA EntrySpace ==
    ASSUME SpaceInv, op.pc = "load", NEW f \in op.todo,
           IF meta[f].tracks # <<>> THEN Restore(f, meta[f].tracks) ELSE UNCHANGED allocVars,
           DOMAIN files_' = DOMAIN files_ \cup {f}
    PROVE  /\ zones_' = NZones /\ Idle' /\ LeakInv'
           /\ meta[f].tracks # <<>> => call'.status = "OK"
           /\ segments'[f] = meta[f].tracks
           /\ \A g \in Ids \cup {0} : g # f => segments'[g] = segments[g]
<1> DEFINE s == meta[f].tracks
<1>0. AllocInv /\ OpInv /\ zones_ = NZones /\ MetaInv(meta) /\ LeakInv /\ LoadInv /\ AllocTypeOK
    BY Zenon DEF SpaceInv, AllocInv
<1>1. f \in Ids /\ f # 0 /\ f \notin DOMAIN files_ /\ s \in Seq(Track) /\ segments[f] = <<>>
    BY <1>0, IdsAssumption, Zenon DEF LoadInv, MetaInv, LeakInv
<1>2. CASE s = <<>>
    <2>1. UNCHANGED allocVars
        BY <1>2, Zenon
    <2>2. zones_' = NZones /\ Idle' /\ UNCHANGED <<owner, segments>> /\ Indices' = Indices
        BY <1>0, <2>1, CallIdle, Zenon DEF allocVars, Idle, Indices
    <2>3. LeakInv'
        BY <1>0, <2>2, LeakInvIs, LeakInvNext, Zenon
    <2> QED BY <1>1, <1>2, <2>2, <2>3, Zenon
<1>3. CASE s # <<>>
    <2>1. /\ zones_' = NZones /\ Idle' /\ call'.status = "OK"
          /\ owner' = Taken(s, Len(s), f) /\ segments' = [segments EXCEPT ![f] = s]
        BY <1>3, RestoreSucceeds, Zenon
    <2> HIDE DEF s
    <2>2. segments'[f] = s /\ \A g \in Ids \cup {0} : g # f => segments'[g] = segments[g]
        BY <1>0, <1>1, <2>1, Zenon DEF AllocTypeOK
    <2>3. Indices' = Indices
        BY <1>0, <2>1, Zenon DEF Indices
    <2>4. ASSUME NEW type \in TrackType, NEW i \in Indices, owner'[type][i] # 0
          PROVE  owner'[type][i] \in DOMAIN files_' /\ Lists(segments'[owner'[type][i]], type, i)
        <3>1. owner'[type][i] = IF Lists(s, type, i) THEN f ELSE owner[type][i]
            BY <2>1, Zenon DEF Taken, Lists
        <3>2. CASE Lists(s, type, i)
            BY <2>2, <3>1, <3>2, Zenon
        <3>3. CASE ~Lists(s, type, i)
            <4>0. owner[type][i] \in Ids \cup {0}
                BY <1>0 DEF AllocTypeOK
            <4>1. owner'[type][i] = owner[type][i] /\ owner[type][i] \in Ids \cup {0}
                BY <3>1, <3>3, <4>0, Zenon
            <4>2. owner[type][i] \in DOMAIN files_ /\ Lists(segments[owner[type][i]], type, i)
                BY <1>0, <2>4, <4>1, LeakInvIs, Zenon
            <4>3. segments'[owner[type][i]] = segments[owner[type][i]]
                BY <1>1, <2>2, <4>1, <4>2, Zenon
            <4> QED BY <4>1, <4>2, <4>3, Zenon
        <3> QED BY <3>2, <3>3, Zenon
    <2>5. \A g \in Ids \cup {0} : g \notin DOMAIN files_' => segments'[g] = <<>>
        BY <1>0, <2>2, LeakInvIs, Zenon
    <2>6. LeakInv'
        BY <2>3, <2>4, <2>5, LeakInvNext, Zenon
    <2> QED BY <2>1, <2>2, <2>6, Zenon DEF s
<1> QED BY <1>2, <1>3, Zenon

\* The entry of f is loaded, with these bytes as its data.
Loads(f, data) ==
    /\ files_' = Put(files_, f, LoadedState(meta[f], data))
    /\ s2tmap_' = Put(s2tmap_, f, meta[f].tracks)
    /\ IF meta[f].tracks # <<>> THEN Restore(f, meta[f].tracks) ELSE UNCHANGED allocVars

Short(f) == meta[f].size > TracksBytes(meta[f].tracks, Len(meta[f].tracks))

\* The bytes the tracks of the entry hold.
OnTracks(f) == [i \in 1 .. meta[f].size |-> disk[DeviceByte(meta[f].tracks, i - 1)]]

\* How the load of f goes on: with the next entry, or not at all.
LoadGoesOn(f, data) ==
    \/ /\ op' = [op EXCEPT !.todo = @ \ {f}] /\ UNCHANGED <<init_status, faults>>
       /\ ~Short(f) /\ data = OnTracks(f)
    \/ op' = NoOp /\ init_status' = "error" /\ UNCHANGED faults /\ Short(f)
    \/ op' = NoOp /\ init_status' = "fault" /\ Fault

(* LoadEntry loads the entry it takes: Restore does not refuse it.         *)
LEMMA LoadEntryFacts ==
    ASSUME SpaceInv, LeastInSets, LoadEntry
    PROVE  \E f \in op.todo : \E data : IsSeq(data) /\ Loads(f, data) /\ LoadGoesOn(f, data)
<1> DEFINE f == Min(op.todo)
           blank == [i \in 1 .. meta[f].size |-> 0]
<1>0. MetaInv(meta) /\ LoadInv
    BY DEF SpaceInv
<1>1. op.pc = "load" /\ op.todo # {}
    BY DEF LoadEntry
<1>2. op.todo \subseteq DOMAIN meta /\ DOMAIN meta \subseteq Ids /\ op.todo \in SUBSET Nat
    BY <1>0, <1>1, IdsAssumption, Zenon DEF LoadInv, MetaInv
<1>3. f \in op.todo
    BY <1>1, <1>2, Zenon DEF LeastInSets
<1>4. meta[f].size \in Nat
    BY <1>0, <1>2, <1>3, Zenon DEF MetaInv
<1>5. IsSeq(blank) /\ IsSeq(OnTracks(f))
    <2> HIDE DEF f
    <2> DEFINE S == {disk[DeviceByte(meta[f].tracks, i - 1)] : i \in 1 .. meta[f].size}
    <2>1. OnTracks(f) \in [1 .. meta[f].size -> S]
        BY Zenon DEF OnTracks
    <2>2. blank \in [1 .. meta[f].size -> {0}]
        OBVIOUS
    <2> HIDE DEF S, blank
    <2>3. \A V : \A q \in [1 .. meta[f].size -> V] : q \in Seq(V)
        BY <1>4
    <2> QED BY <2>1, <2>2, <2>3, Zenon DEF IsSeq
<1>6. IF meta[f].tracks # <<>> THEN Restore(f, meta[f].tracks) ELSE UNCHANGED allocVars
    BY DEF LoadEntry
<1>7. meta[f].tracks # <<>> => call'.status = "OK"
    <2> HIDE DEF f
    <2> QED BY <1>1, <1>3, <1>6, RestoreSucceeds, Zenon
<1>8. /\ s2tmap_' = Put(s2tmap_, f, meta[f].tracks)
      /\ \/ /\ files_' = Put(files_, f, LoadedState(meta[f], OnTracks(f)))
            /\ ~Short(f) /\ op' = [op EXCEPT !.todo = @ \ {f}] /\ UNCHANGED <<init_status, faults>>
         \/ /\ files_' = Put(files_, f, LoadedState(meta[f], blank))
            /\ Short(f) /\ op' = NoOp /\ init_status' = "error" /\ UNCHANGED faults
         \/ /\ files_' = Put(files_, f, LoadedState(meta[f], blank))
            /\ op' = NoOp /\ init_status' = "fault" /\ Fault
    BY <1>7, Zenon DEF LoadEntry, Short, OnTracks, Return
<1> HIDE DEF f, blank
<1>9. CASE files_' = Put(files_, f, LoadedState(meta[f], OnTracks(f)))
           /\ ~Short(f) /\ op' = [op EXCEPT !.todo = @ \ {f}] /\ UNCHANGED <<init_status, faults>>
    <2>1. Loads(f, OnTracks(f))
        BY <1>6, <1>8, <1>9, Zenon DEF Loads
    <2>2. LoadGoesOn(f, OnTracks(f))
        BY <1>9, Zenon DEF LoadGoesOn
    <2> QED BY <1>3, <1>5, <2>1, <2>2, Zenon
<1>10. CASE /\ files_' = Put(files_, f, LoadedState(meta[f], blank)) /\ op' = NoOp
            /\ \/ init_status' = "error" /\ UNCHANGED faults /\ Short(f)
               \/ init_status' = "fault" /\ Fault
    <2>1. Loads(f, blank)
        BY <1>6, <1>8, <1>10, Zenon DEF Loads
    <2>2. LoadGoesOn(f, blank)
        BY <1>10, Zenon DEF LoadGoesOn
    <2> QED BY <1>3, <1>5, <2>1, <2>2, Zenon
<1> QED BY <1>8, <1>9, <1>10, Zenon

(* LoadEntry keeps the space.                                              *)
LEMMA LoadEntrySpace ==
    ASSUME SpaceInv, AllocInv', LeastInSets, LoadEntry
    PROVE  SpaceInv'
<1>0. AllocInv /\ OpInv /\ FilesType /\ MemType /\ EnvType /\ MapInv /\ LoadInv /\ MetaInv(meta)
    BY DEF SpaceInv
<1>1. PICK f \in op.todo : \E data : IsSeq(data) /\ Loads(f, data) /\ LoadGoesOn(f, data)
    BY LoadEntryFacts, Zenon
<1>2. PICK data : IsSeq(data) /\ Loads(f, data) /\ LoadGoesOn(f, data)
    BY <1>1, Zenon
<1>3. op.pc = "load" /\ UNCHANGED <<persistence_enabled_, rmw_mode_, rmw_balance, diskVars, open, acked, begins, crashes>>
    BY Zenon DEF LoadEntry
<1>4. f \in Ids /\ f \in DOMAIN meta /\ f \notin DOMAIN files_
    BY <1>0, <1>3, Zenon DEF LoadInv, MetaInv
<1>5. Assigned(f, data, <<>>, <<>>)
    <2>1. files_' = Put(files_, f, LoadedState(meta[f], data))
        BY <1>2, Zenon DEF Loads
    <2> DEFINE new == LoadedState(meta[f], data)
    <2>2. DOMAIN new = StateFields /\ new.data = data /\ new.pending = <<>> /\ new.buffers = <<>>
        BY Zenon DEF LoadedState, StateFields
    <2> HIDE DEF new
    <2>3. files_' = Put(files_, f, new)
        BY <2>1, Zenon DEF new
    <2> QED BY <2>2, <2>3, Zenon DEF Put, Assigned
<1>6. DOMAIN files_' = DOMAIN files_ \cup {f}
    BY <1>5, Zenon DEF Assigned
<1>7. FilesType'
    BY <1>0, <1>2, <1>4, <1>5, EmptyTypes, AssignedType, Zenon
<1>8. /\ zones_' = NZones /\ Idle' /\ LeakInv'
      /\ segments'[f] = meta[f].tracks
      /\ \A g \in Ids \cup {0} : g # f => segments'[g] = segments[g]
    BY <1>2, <1>3, <1>6, EntrySpace, Zenon DEF Loads
<1>9. /\ DOMAIN s2tmap_' = DOMAIN s2tmap_ \cup {f} /\ s2tmap_'[f] = meta[f].tracks
      /\ \A g \in DOMAIN s2tmap_ : g # f => s2tmap_'[g] = s2tmap_[g]
    BY <1>2, Zenon DEF Loads, Put
<1>10. \/ op' = [op EXCEPT !.todo = @ \ {f}] /\ UNCHANGED init_status
       \/ op' = NoOp /\ init_status' \in {"error", "fault"}
    BY <1>2 DEF LoadGoesOn
<1>11. op'.pc \in {"idle", "load"} /\ DOMAIN op' = OpFields /\ op'.u \in Nat /\ op'.k \in Nat
       /\ (op' = NoOp <=> op'.pc = "idle") /\ (op'.pc = "load" => op'.todo = op.todo \ {f})
    <2>1. DOMAIN op = OpFields /\ op.u \in Nat /\ op.k \in Nat
        BY <1>0, Zenon DEF OpInv
    <2> QED BY <1>3, <1>10, <2>1 DEF NoOp, OpFields
<1>12. OpInv'
    <2>1. ~MemoryOnly /\ init_status = "loading"
        BY <1>0, <1>3, Zenon DEF OpInv
    <2>2. op'.pc = "load" <=> init_status' = "loading"
        BY <1>3, <1>10, <1>11, <2>1, Zenon DEF NoOp
    <2> QED BY <1>8, <1>11, <2>1, <2>2, Zenon DEF OpInv, OnFile, Calls, Idle
<1>13. MapInv'
    <2>1. \A g \in DOMAIN s2tmap_ : g \in DOMAIN files_ /\ s2tmap_[g] = segments[g]
        BY <1>0, <1>3, Zenon DEF MapInv, Allocating
    <2>2. \A g \in DOMAIN files_ : segments[g] # <<>> => g \in DOMAIN s2tmap_
        BY <1>0, <1>3, Zenon DEF MapInv, Allocating
    <2>3. DOMAIN s2tmap_ \subseteq Ids /\ DOMAIN files_ \subseteq Ids
        BY <1>0, Zenon DEF MemType, FilesType
    <2> QED BY <1>6, <1>8, <1>9, <1>11, <2>1, <2>2, <2>3, Zenon DEF MapInv, Allocating
<1>14. LoadInv'
    <2>1. meta' = meta /\ DOMAIN files_ \subseteq Ids
        BY <1>0, <1>3, Zenon DEF diskVars, FilesType
    <2> QED BY <1>0, <1>3, <1>4, <1>6, <1>8, <1>11, <2>1, Zenon DEF LoadInv
<1>15. MemType' /\ EnvType'
    <2>1. faults' \in 0 .. MaxFaults
        BY <1>0, <1>2, FaultType DEF LoadGoesOn, EnvType
    <2>2. init_status' \in {"none", "loading", "ok", "fault", "error"}
        BY <1>0, <1>10 DEF EnvType
    <2> QED BY <1>0, <1>3, <1>4, <1>9, <2>1, <2>2, Zenon DEF MemType, EnvType, diskVars
<1>16. MetaInv(meta)' /\ MetaInv(metaStable)'
    BY <1>3, SameMeta, Zenon DEF diskVars
<1> QED BY <1>7, <1>8, <1>12, <1>13, <1>14, <1>15, <1>16, Zenon DEF SpaceInv

(* The end of the load, and ResetRMWCounters.                              *)
LEMMA LoadDoneSpace ==
    ASSUME SpaceInv, LoadDone \/ ResetRMWCounters
    PROVE  SpaceInv'
<1>0. OpInv /\ FilesType /\ MemType /\ EnvType
    BY DEF SpaceInv
<1>1. /\ op' = NoOp /\ op.pc \in {"load", "idle"} /\ (op.pc = "idle" => init_status' = init_status)
      /\ (op.pc = "load" => init_status' = "ok")
      /\ UNCHANGED <<allocVars, files_, s2tmap_, persistence_enabled_, rmw_mode_, diskVars,
                     open, acked, faults, begins, crashes>>
    <2>1. CASE LoadDone
        BY <2>1, Zenon DEF LoadDone, memVars, Return
    <2>2. CASE ResetRMWCounters
        BY <2>2, Zenon DEF ResetRMWCounters, NoOp, envVars
    <2> QED BY <2>1, <2>2, Zenon
<1>2. SpaceFrame
    BY <1>1, Zenon DEF SpaceFrame, SameOutside, NoOp
<1>3. Idle' /\ AllocInv' /\ zones_' = NZones /\ LeakInv' /\ MapInv' /\ LoadInv'
    BY <1>2, FrameSpace, Zenon
<1>4. OpInv'
    <2>1. init_status' # "loading" /\ (MemoryOnly => init_status' = "none")
        BY <1>0, <1>1, Zenon DEF OpInv
    <2> QED BY <1>1, <1>3, <2>1, IdleOp, Zenon
<1>5. FilesType'
    BY <1>0, <1>1, UnchangedFiles, SameFilesType, Zenon
<1>6. MemType' /\ EnvType'
    <2>1. rmw_balance' \in Int
        BY <1>0 DEF LoadDone, ResetRMWCounters, memVars, MemType
    <2>2. init_status' \in {"none", "loading", "ok", "fault", "error"}
        BY <1>0, <1>1, Zenon DEF EnvType
    <2> QED BY <1>0, <1>1, <2>1, <2>2, Zenon DEF MemType, EnvType, diskVars
<1>7. MetaInv(meta)' /\ MetaInv(metaStable)'
    BY <1>1, SameMeta, Zenon DEF diskVars
<1> QED BY <1>3, <1>4, <1>5, <1>6, <1>7, Zenon DEF SpaceInv
-----------------------------------------------------------------------------
(* The invariant of the space, and what follows from it.                   *)

(* It holds at first.                                                      *)
LEMMA InitSpace ==
    ASSUME Init, AllocInv
    PROVE  SpaceInv
<1>1. zones_ = NZones /\ Idle
    BY Zenon DEF Init, AllocInit, Idle, NoCall
<1>2. files_ = <<>> /\ s2tmap_ = <<>> /\ meta = <<>> /\ metaStable = <<>> /\ acked = <<>>
      /\ op = NoOp /\ init_status = "none"
    BY Zenon DEF Init
<1>3. OpInv /\ LoadInv
    BY <1>1, <1>2, Zenon DEF OpInv, LoadInv, OnFile, Calls, NoOp, OpFields, Idle
<1>4. DOMAIN <<>> = {}
    OBVIOUS
<1>5. FilesType /\ MetaInv(meta) /\ MetaInv(metaStable)
    BY <1>2, <1>4, Zenon DEF FilesType, MetaInv
<1>6. MemType
    <2>1. persistence_enabled_ = FALSE /\ rmw_mode_ = "NAIVE" /\ rmw_balance \in Int
        BY DEF Init
    <2>2. persistence_enabled_ \in BOOLEAN
        BY <2>1, Zenon
    <2> QED BY <1>2, <1>4, <2>1, <2>2, Zenon DEF MemType
<1>7. EnvType
    BY <1>2, <1>4, KVIMRAssumption DEF Init, EnvType
<1>8. LeakInv
    BY <1>4, Zenon DEF LeakInv, Init, AllocInit, NoOwners, Indices
<1>9. MapInv
    BY <1>2, <1>4, Zenon DEF MapInv, NoOp
<1> QED BY <1>1, <1>3, <1>5, <1>6, <1>7, <1>8, <1>9, Zenon DEF SpaceInv

(* A step that changes nothing.                                            *)
LEMMA StutterSpace ==
    ASSUME SpaceInv, UNCHANGED vars
    PROVE  SpaceInv'
<1>0. /\ UNCHANGED <<zones_, owner, cursor, segments, call>> /\ UNCHANGED allocVars
      /\ UNCHANGED <<files_, s2tmap_, persistence_enabled_, rmw_mode_, rmw_balance, op>>
      /\ UNCHANGED <<disk, stable, meta, metaStable, init_status, open, acked, faults, begins, crashes>>
    BY Zenon DEF vars, allocVars, memVars, diskVars, envVars
<1>1. AllocInv' /\ LeakInv' /\ FilesType'
    BY <1>0, SameAlloc, SameLeak, UnchangedFiles, SameFilesType, Zenon DEF SpaceInv
<1>2. OpInv' /\ MapInv' /\ LoadInv'
    BY <1>0, Zenon DEF SpaceInv, OpInv, OnFile, Ready, MapInv, Allocating, Idle, LoadInv
<1>3. MemType' /\ EnvType'
    BY <1>0, Zenon DEF SpaceInv, MemType, EnvType
<1>4. MetaInv(meta)' /\ MetaInv(metaStable)'
    BY <1>0, SameMeta, Zenon
<1> QED BY <1>0, <1>1, <1>2, <1>3, <1>4, Zenon DEF SpaceInv

(* Every step keeps it.                                                    *)
LEMMA NextSpace ==
    ASSUME SpaceInv, AllocInv', TakesFree, LeastInSets, [Next]_vars
    PROVE  SpaceInv'
<1>1. ASSUME NEW t \in Tables, RegisterSSTable(t.id, t.level, LargestLevel) PROVE SpaceInv'
    <2>1. t.id \in Ids
        BY KVIMRAssumption, Zenon
    <2> QED BY <1>1, <2>1, RegisterSpace, Zenon
<1>2. ASSUME NEW f \in Ids, BeginWrite(f) \/ kvunlink(f) PROVE SpaceInv'
    BY <1>2, BeginSpace, UnlinkSpace
<1>3. ASSUME NEW f \in Ids, NEW n \in 1 .. MaxAppend, kvwrite(f, n) PROVE SpaceInv'
    <2>1. n \in Nat
        BY KVIMRAssumption
    <2> QED BY <1>3, <2>1, WriteSpace
<1>4. ASSUME NEW f \in Ids, NEW closing \in BOOLEAN, kvsync(f, closing) PROVE SpaceInv'
    BY <1>4, SyncSpace, Zenon
<1>5. ASSUME NEW mode \in Modes, InitializePersistence(mode) PROVE SpaceInv'
    BY <1>5, InitializeSpace, Zenon
<1>6. CASE MethodStep
    BY <1>6, AllocatorSpace, AllocatedSpace, ApplySpace, FlushSpace, DeviceSyncSpace, SnapshotSpace,
       LoadEntrySpace, LoadDoneSpace, Zenon DEF MethodStep
<1>7. CASE ResetRMWCounters \/ Crash \/ UNCHANGED vars
    BY <1>7, LoadDoneSpace, CrashSpace, StutterSpace, Zenon
<1> QED BY <1>1, <1>2, <1>3, <1>4, <1>5, <1>6, <1>7, Zenon DEF Next, MethodCall

=============================================================================
