--------------------------- MODULE TrackAllocator ---------------------------
(***************************************************************************)
(* The KVIMR track allocator (db/kvimr_track_allocator.{h,cc}).            *)
(*                                                                         *)
(* An IMR device is a row of zones; a zone is a row of track groups; a     *)
(* group is one TOP track followed by one BOTTOM track.  The allocator     *)
(* hands whole tracks to SSTables: owner[t][i] is the SSTable that owns    *)
(* track i of tier t (0 when it is free) and cursor[t] is where the next   *)
(* circular search for a free track of the tier starts.                    *)
(*                                                                         *)
(* Allocate is a loop over one reservation at a time; it is modelled as    *)
(* such (the loop's state is `call'), because whether its rollback can     *)
(* ever be needed depends on every iteration.  The caller's vector of      *)
(* segments of SSTable s is segments[s].  All calls are made under the     *)
(* KVIMR mutex, so only one is in progress at a time.                      *)
(***************************************************************************)
EXTENDS Integers, FiniteSets, Sequences, FiniteSetsExt

CONSTANTS
    Ids,             \* nonzero SSTable file numbers
    ZoneCounts,      \* the zone counts Reset is called with
    Levels,          \* LSM levels
    MaxBytes,        \* bound: the largest allocation requested
    RestoreInputs,   \* segment lists Restore is called with
    kGroupsPerZone, kZoneSectors, kGroupSectors, kTopSectors, kBottomSectors,
    kSectorSize      \* bytes per sector

\* The geometry constants of the header satisfy these equations:
\* 8192 = 3648 + 4544 and 524288 = 64 * 8192.
ASSUME GeometryAssumption ==
    /\ kGroupsPerZone \in Nat \ {0}
    /\ kTopSectors \in Nat \ {0}
    /\ kBottomSectors \in Nat \ {0}
    /\ kSectorSize \in Nat \ {0}
    /\ kGroupSectors = kTopSectors + kBottomSectors
    /\ kZoneSectors = kGroupsPerZone * kGroupSectors

\* File number 0 is never a registered SSTable: 0 in `owner' means free.
ASSUME IdsAssumption == Ids \subseteq Nat \ {0}

ASSUME ZoneCountsAssumption == ZoneCounts # {} /\ ZoneCounts \subseteq Nat

ASSUME MaxBytesAssumption == MaxBytes \in Nat

ASSUME RestoreInputsAssumption ==
    RestoreInputs \subseteq Seq([type : {"TOP", "BOTTOM"}, index : Nat])

VARIABLES
    zones_,      \* zones the allocator was last Reset to
    owner,       \* owner[type][index]: SSTable id, or 0
    cursor,      \* cursor[type]: index the next search starts from
    segments,    \* segments[id]: the caller's list of tracks of SSTable id
    call         \* the Allocate call in progress, and the last status

allocVars == <<zones_, owner, cursor, segments, call>>

TrackType == {"TOP", "BOTTOM"}

TrackCount(zone_count) == zone_count * kGroupsPerZone

Indices == 0 .. TrackCount(zones_) - 1

\* A segment is named by its tier and its index in it; zone and group are
\* the index's quotient and remainder, the sector range follows from them.
Track == [type : TrackType, index : Nat]

TypeSectors(type) == IF type = "TOP" THEN kTopSectors ELSE kBottomSectors

\* Mutant: the BOTTOM track placed as if it came after a BOTTOM-sized TOP track.
SegmentStartSwapped(s) ==
    LET zone  == s.index \div kGroupsPerZone
        group == s.index % kGroupsPerZone
    IN  zone * kZoneSectors + group * kGroupSectors
          + (IF s.type = "TOP" THEN 0 ELSE kBottomSectors)

SegmentStart(s) ==
    LET zone  == s.index \div kGroupsPerZone
        group == s.index % kGroupsPerZone
    IN  zone * kZoneSectors + group * kGroupSectors
          + (IF s.type = "TOP" THEN 0 ELSE kTopSectors)

SegmentSectors(s) ==
    SegmentStart(s) .. SegmentStart(s) + TypeSectors(s.type) - 1

SegmentBytes(type) == TypeSectors(type) * kSectorSize

\* Bytes the first n tracks of a list hold.
TracksBytes(tracks, n) ==
    LET held(type) == Cardinality({k \in 1 .. n : tracks[k].type = type})
    IN  held("TOP") * SegmentBytes("TOP") + held("BOTTOM") * SegmentBytes("BOTTOM")

Free(type) == {i \in Indices : owner[type][i] = 0}

TierFreeBytes(type) == Cardinality(Free(type)) * SegmentBytes(type)

\* How many steps of the circular search reach index i from the cursor.
Steps(type, i) ==
    IF i >= cursor[type] THEN i - cursor[type]
                         ELSE i + TrackCount(zones_) - cursor[type]

\* The index ReserveNext finds: the first free one in circular order.
NextFree(type) ==
    CHOOSE i \in Free(type) :
        \A j \in Free(type) : Steps(type, i) <= Steps(type, j)

\* Mutant: the cursor runs past the last track instead of wrapping around.
CursorPastNoWrap(i) == i + 1

\* Where the search goes on after track i was taken.
CursorPast(i) == (i + 1) % TrackCount(zones_)

-----------------------------------------------------------------------------
NoCall == [op |-> "idle", id |-> 0, bytes |-> 0, remaining |-> 0,
           tier |-> "TOP", bottom_first |-> FALSE, status |-> "OK"]

Idle == call.op = "idle"

Returned(status) == [NoCall EXCEPT !.status = status]

\* The owners a freshly Reset allocator of n zones has.
NoOwners(n) == [type \in TrackType |-> [i \in 0 .. TrackCount(n) - 1 |-> 0]]

Reset(n) ==
    /\ zones_' = n
    /\ owner' = NoOwners(n)
    /\ cursor' = [type \in TrackType |-> 0]
    /\ segments' = [id \in Ids \cup {0} |-> <<>>]
    /\ call' = NoCall

\* The bytes an Allocate call may use: BOTTOM tracks only for an SSTable of
\* the effective largest level.
Available(bottom_first) ==
    TierFreeBytes("TOP") + (IF bottom_first THEN TierFreeBytes("BOTTOM") ELSE 0)

\* Mutant: the capacity check is left out.
AllocateUnchecked(id, bytes, level, effective_largest_level) ==
    LET bottom_first == level = effective_largest_level
    IN  /\ Idle
        /\ segments' = [segments EXCEPT ![id] = <<>>]
        /\ call' = IF id = 0 \/ bytes = 0 THEN Returned("InvalidArgument")
                   ELSE [op |-> "allocate", id |-> id, bytes |-> bytes,
                         remaining |-> bytes,
                         tier |-> IF bottom_first THEN "BOTTOM" ELSE "TOP",
                         bottom_first |-> bottom_first, status |-> "OK"]
        /\ UNCHANGED <<zones_, owner, cursor>>

\* Entry of Allocate: the argument and the capacity checks.
Allocate(id, bytes, level, effective_largest_level) ==
    LET bottom_first == level = effective_largest_level
    IN  /\ Idle
        /\ segments' = [segments EXCEPT ![id] = <<>>]
        /\ call' = IF id = 0 \/ bytes = 0 THEN Returned("InvalidArgument")
                   ELSE IF bytes > Available(bottom_first) THEN Returned("IOError")
                   ELSE [op |-> "allocate", id |-> id, bytes |-> bytes,
                         remaining |-> bytes,
                         tier |-> IF bottom_first THEN "BOTTOM" ELSE "TOP",
                         bottom_first |-> bottom_first, status |-> "OK"]
        /\ UNCHANGED <<zones_, owner, cursor>>

\* Mutant: every track counted as a TOP track.
RemainingAfterTop(type) ==
    IF call.remaining > SegmentBytes("TOP") THEN call.remaining - SegmentBytes("TOP")
                                            ELSE 0

\* What Allocate still has to find once it has a track of the tier.
RemainingAfter(type) ==
    IF call.remaining > SegmentBytes(type) THEN call.remaining - SegmentBytes(type)
                                           ELSE 0

\* One successful iteration of Allocate's inner loop.
ReserveNext ==
    LET type == call.tier
        i    == NextFree(type)
    IN  /\ call.op = "allocate"
        /\ call.remaining > 0
        /\ Free(type) # {}
        /\ owner' = [owner EXCEPT ![type][i] = call.id]
        /\ cursor' = [cursor EXCEPT ![type] = CursorPast(i)]
        /\ segments' = [segments EXCEPT ![call.id] =
                            Append(@, [type |-> type, index |-> i])]
        /\ call' = [call EXCEPT !.remaining = RemainingAfter(type)]
        /\ UNCHANGED zones_

\* Mutant: TOP tracks are taken while BOTTOM tracks are left.
NextTierEarly ==
    /\ call.op = "allocate"
    /\ call.remaining > 0
    /\ call.tier = "BOTTOM"
    /\ call' = [call EXCEPT !.tier = "TOP"]
    /\ UNCHANGED <<zones_, owner, cursor, segments>>

\* Mutant: the outer loop does not advance.
NextTierStuck ==
    /\ call.op = "allocate"
    /\ call.remaining > 0
    /\ call.tier = "BOTTOM"
    /\ Free("BOTTOM") = {}
    /\ UNCHANGED allocVars

\* The BOTTOM tier is used up: the outer loop goes on to the TOP tier.  (The
\* explicit break on TierFreeBytes(type) == 0 leaves the inner loop exactly
\* when the next ReserveNext would have failed.)
NextTier ==
    /\ call.op = "allocate"
    /\ call.remaining > 0
    /\ call.tier = "BOTTOM"
    /\ Free("BOTTOM") = {}
    /\ call' = [call EXCEPT !.tier = "TOP"]
    /\ UNCHANGED <<zones_, owner, cursor, segments>>

\* owner after Undo of the reservations in s made for id.
Undone(s, id) ==
    [type \in TrackType |-> [i \in Indices |->
        IF /\ owner[type][i] = id
           /\ \E k \in 1 .. Len(s) : s[k] = [type |-> type, index |-> i]
        THEN 0 ELSE owner[type][i]]]

\* Allocate leaves its loops: with everything reserved, or with the TOP tier
\* used up, in which case the reservations are rolled back.
AllocateReturn ==
    LET ok == call.remaining = 0
    IN  /\ call.op = "allocate"
        /\ ok \/ (call.tier = "TOP" /\ Free("TOP") = {})
        /\ owner' = IF ok THEN owner ELSE Undone(segments[call.id], call.id)
        /\ segments' = IF ok THEN segments
                             ELSE [segments EXCEPT ![call.id] = <<>>]
        /\ call' = IF ok THEN Returned("OK") ELSE Returned("IOError")
        /\ UNCHANGED <<zones_, cursor>>

AllocateStep == ReserveNext \/ NextTier \/ AllocateReturn

\* Mutant: every owned track is freed, whoever owns it.
ReleaseEveryone(id) ==
    /\ Idle
    /\ owner' = [type \in TrackType |-> [i \in Indices |->
                    IF id # 0 THEN 0 ELSE owner[type][i]]]
    /\ segments' = [segments EXCEPT ![id] = <<>>]
    /\ call' = Returned("OK")
    /\ UNCHANGED <<zones_, cursor>>

\* Release, and the caller forgetting the segments it released.
Release(id) ==
    /\ Idle
    /\ owner' = [type \in TrackType |-> [i \in Indices |->
                    IF id # 0 /\ owner[type][i] = id THEN 0 ELSE owner[type][i]]]
    /\ segments' = [segments EXCEPT ![id] = <<>>]
    /\ call' = Returned(
          IF id = 0 THEN "InvalidArgument"
          ELSE IF \E type \in TrackType : \E i \in Indices : owner[type][i] = id
          THEN "OK" ELSE "NotFound")
    /\ UNCHANGED <<zones_, cursor>>

-----------------------------------------------------------------------------
\* Restore walks the segments of a metadata entry.  Position k stops the walk
\* when its geometry is not the device's or when its track is owned already
\* (by another SSTable, or by this one because the list names it twice).
BadGeometry(s, k) == s[k].index \notin Indices

\* Mutant: only duplicates within the list are noticed.
RepeatedInList(s, k) == \E j \in 1 .. k - 1 : s[j] = s[k]

AlreadyOwned(s, k) ==
    \/ owner[s[k].type][s[k].index] # 0
    \/ \E j \in 1 .. k - 1 : s[j] = s[k]

Stops(s) ==
    {k \in 1 .. Len(s) : BadGeometry(s, k) \/ AlreadyOwned(s, k)}

\* owner after the first n segments of s were given to id.
Taken(s, n, id) ==
    [type \in TrackType |-> [i \in Indices |->
        IF \E k \in 1 .. n : s[k] = [type |-> type, index |-> i]
        THEN id ELSE owner[type][i]]]

\* The position of the last track of a tier in s; 0 if there is none.
LastOf(type, s) ==
    Max({0} \cup {k \in 1 .. Len(s) : s[k].type = type})

Restore(id, s) ==
    /\ Idle
    /\ IF id = 0 \/ s = <<>> \/ Indices = {}
       THEN /\ call' = Returned("InvalidArgument")
            /\ UNCHANGED <<owner, cursor, segments>>
       ELSE IF Stops(s) = {}
       THEN /\ owner' = Taken(s, Len(s), id)
            /\ cursor' = [type \in TrackType |->
                   IF LastOf(type, s) = 0 THEN cursor[type]
                   ELSE CursorPast(s[LastOf(type, s)].index)]
            /\ segments' = [segments EXCEPT ![id] = s]
            /\ call' = Returned("OK")
       ELSE LET k == Min(Stops(s))
            IN \* the geometry checks return without Undo
               /\ IF BadGeometry(s, k)
                  THEN /\ owner' = Taken(s, k - 1, id)
                       /\ call' = Returned("InvalidArgument")
                  ELSE /\ call' = Returned("IOError")
                       /\ UNCHANGED owner
               /\ UNCHANGED <<cursor, segments>>
    /\ UNCHANGED zones_

-----------------------------------------------------------------------------
AllocInit ==
    /\ zones_ \in ZoneCounts
    /\ owner = NoOwners(zones_)
    /\ cursor = [type \in TrackType |-> 0]
    /\ segments = [id \in Ids \cup {0} |-> <<>>]
    /\ call = NoCall

\* The allocator by itself: any caller that, like KVIMR, allocates and
\* restores only for an SSTable that holds no segments.
AllocNext ==
    \/ \E n \in ZoneCounts : Idle /\ Reset(n)
    \/ \E id \in Ids \cup {0}, bytes \in 0 .. MaxBytes, level, largest \in Levels :
          segments[id] = <<>> /\ Allocate(id, bytes, level, largest)
    \/ AllocateStep
    \/ \E id \in Ids \cup {0} : Release(id)
    \/ \E id \in Ids \cup {0}, s \in RestoreInputs :
          segments[id] = <<>> /\ Restore(id, s)

\* A thread inside Allocate holds the mutex and keeps running.
AllocSpec == AllocInit /\ [][AllocNext]_allocVars /\ WF_allocVars(AllocateStep)

-----------------------------------------------------------------------------
Statuses == {"OK", "InvalidArgument", "IOError", "NotFound"}

CallType ==
    [op : {"idle", "allocate"}, id : Ids \cup {0}, bytes : Nat, remaining : Nat,
     tier : TrackType, bottom_first : BOOLEAN, status : Statuses]

\* The owners of the tracks of the device's zones are SSTables, the cursors are
\* indices the search can start from, and the call in progress is well formed.
AllocTypeOK ==
    /\ zones_ \in ZoneCounts
    /\ owner \in [TrackType -> [Indices -> Ids \cup {0}]]
    /\ cursor \in [TrackType -> Nat]
    /\ \A type \in TrackType : cursor[type] = 0 \/ cursor[type] \in Indices
    /\ segments \in [Ids \cup {0} -> Seq(Track)]
    /\ call \in CallType

\* Every segment an SSTable holds is a track of the device that the allocator
\* has recorded as that SSTable's, and no list names a track twice: Allocate,
\* Undo, Release and Restore never hand one track to two SSTables, in
\* whatever order they are called and whichever of them fail.
SegmentsOwned ==
    \A id \in Ids \cup {0} :
        /\ \A k \in 1 .. Len(segments[id]) :
              /\ segments[id][k].index \in Indices
              /\ owner[segments[id][k].type][segments[id][k].index] = id
              /\ id # 0
        /\ \A j, k \in 1 .. Len(segments[id]) :
              segments[id][j] = segments[id][k] => j = k

\* What holds of the Allocate call in progress, and the inductive invariant.
CallOK ==
    call.op = "allocate" =>
        /\ call.id \in Ids
        /\ call.tier = "BOTTOM" => call.bottom_first
        /\ call.tier = "TOP" /\ call.bottom_first => Free("BOTTOM") = {}

AllocInv == AllocTypeOK /\ SegmentsOwned /\ CallOK

\* The sector ranges of any two segments handed out are disjoint and inside
\* the device: writing one SSTable's track never touches another's
\* (SegmentAt's arithmetic over zones, groups and tiers).
SectorsDisjoint ==
    \A a, b \in Ids :
        \A j \in 1 .. Len(segments[a]), k \in 1 .. Len(segments[b]) :
            /\ SegmentSectors(segments[a][j]) \subseteq 0 .. zones_ * kZoneSectors - 1
            /\ <<a, j>> # <<b, k>> =>
                 SegmentSectors(segments[a][j]) \cap SegmentSectors(segments[b][k]) = {}

\* Once Allocate's capacity check has passed, the tiers still to be searched
\* always have room for what remains: the rollback of kvimr_track_allocator.cc
\* lines 117-121 is never taken and Allocate never fails halfway.
RollbackUnreachable ==
    call.op = "allocate" =>
        call.remaining <= Available(call.tier = "BOTTOM")

HeldBytes(id) == TracksBytes(segments[id], Len(segments[id]))

\* What a successful Allocate returns is exactly enough: its segments hold the
\* requested bytes, and without the last one they would not.
AllocationExact ==
    call.op = "allocate" =>
        LET s == segments[call.id]
        IN  IF call.remaining > 0
            THEN HeldBytes(call.id) + call.remaining = call.bytes
            ELSE /\ HeldBytes(call.id) >= call.bytes
                 /\ HeldBytes(call.id) - SegmentBytes(s[Len(s)].type) < call.bytes

\* An SSTable of the effective largest level gets TOP tracks only when no
\* BOTTOM track is left, and any other SSTable gets no BOTTOM track at all.
PlacementRule ==
    call.op = "allocate" =>
        \A k \in 1 .. Len(segments[call.id]) :
            IF segments[call.id][k].type = "TOP"
            THEN call.bottom_first => Free("BOTTOM") = {}
            ELSE call.bottom_first

\* Every Allocate call returns: neither of its loops can run for ever.
AllocateReturns == (call.op = "allocate") ~> Idle
=============================================================================
