------------------------ MODULE TrackAllocatorProofs ------------------------
(***************************************************************************)
(* Theorems about the KVIMR track allocator, for every device geometry,    *)
(* every set of SSTables and every request size.                           *)
(***************************************************************************)
EXTENDS TrackAllocator, FiniteSetTheorems, WellFoundedInduction, TLAPS

(* A nonempty set of naturals has a least element.                         *)
LEMMA LeastExists ==
    ASSUME NEW T \in SUBSET Nat, T # {}
    PROVE  \E x \in T : \A y \in T : x <= y
<1>1. PICK x \in T : \A y \in T : ~(<<y, x>> \in OpToRel(<, Nat))
    BY NatLessThanWellFounded, WFMin, Zenon
<1>2. \A y \in T : ~(y < x)
    BY <1>1, ZenonT(30) DEF OpToRel
<1> QED
    BY <1>2

(* A nonempty set of naturals bounded by n has a greatest element.         *)
LEMMA GreatestExists ==
    ASSUME NEW n \in Nat, NEW T \in SUBSET (0 .. n), T # {}
    PROVE  \E x \in T : \A y \in T : x >= y
<1> DEFINE D == {n - t : t \in T}
<1>1. \A t \in T : t \in Nat /\ t <= n /\ n - t \in Nat
    OBVIOUS
<1>2. D \in SUBSET Nat /\ D # {}
    BY <1>1, Zenon
<1>3. PICK d \in D : \A e \in D : d <= e
    BY <1>2, LeastExists, ZenonT(30)
<1>4. PICK x \in T : d = n - x
    BY <1>3
<1>5. \A y \in T : n - x <= n - y
    BY <1>3, <1>4, ZenonT(30)
<1> QED
    BY <1>1, <1>5

(* The position of the last track of a tier is one where that tier occurs. *)
LEMMA LastOfPosition ==
    ASSUME NEW type \in TrackType, NEW s \in Seq(Track)
    PROVE  /\ LastOf(type, s) \in 0 .. Len(s)
           /\ LastOf(type, s) # 0 => s[LastOf(type, s)].type = type
<1> DEFINE P == {0} \cup {k \in 1 .. Len(s) : s[k].type = type}
<1>1. P \in SUBSET (0 .. Len(s)) /\ P # {} /\ Len(s) \in Nat
    OBVIOUS
<1>2. \E x \in P : \A y \in P : x >= y
    BY <1>1, GreatestExists, ZenonT(30)
<1>3. LastOf(type, s) \in P
    BY <1>2 DEF LastOf, Max
<1> QED
    BY <1>1, <1>3

(* The circular search finds a free track of the tier when there is one.   *)
LEMMA NextFreeIsFree ==
    ASSUME AllocTypeOK, NEW type \in TrackType, Free(type) # {}
    PROVE  NextFree(type) \in Free(type)
<1>1. TrackCount(zones_) \in Nat
    BY GeometryAssumption, ZoneCountsAssumption DEF AllocTypeOK, TrackCount
<1>2. cursor[type] \in Nat /\ cursor[type] <= TrackCount(zones_)
    BY <1>1 DEF AllocTypeOK, Indices
<1> DEFINE T == {Steps(type, i) : i \in Free(type)}
<1>3. T \in SUBSET Nat /\ T # {}
    BY <1>1, <1>2 DEF Steps, Free, Indices
<1>4. PICK x \in T : \A y \in T : x <= y
    BY <1>3, LeastExists, ZenonT(30)
<1>5. PICK i \in Free(type) : x = Steps(type, i)
    BY <1>4
<1>6. \A j \in Free(type) : Steps(type, i) <= Steps(type, j)
    BY <1>4, <1>5
<1> QED
    BY <1>5, <1>6 DEF NextFree
-----------------------------------------------------------------------------
(* TrackCount of a zone count is a number.                                  *)
LEMMA CountType ==
    ASSUME NEW n \in ZoneCounts
    PROVE  TrackCount(n) \in Nat
BY GeometryAssumption, ZoneCountsAssumption DEF TrackCount

(* A call that returns leaves a well-formed idle `call' behind.             *)
LEMMA StatusType ==
    ASSUME NEW status \in Statuses
    PROVE  Returned(status) \in CallType
           /\ Returned(status).op = "idle"
BY ZenonT(30) DEF Returned, NoCall, TrackType, CallType

(* A track of either tier holds at least one byte.                          *)
LEMMA SegmentBytesType ==
    ASSUME NEW type
    PROVE  SegmentBytes(type) \in Nat \ {0}
BY GeometryAssumption DEF SegmentBytes, TypeSectors

(* The initial state is well typed.                                         *)
LEMMA InitTypeOK == AllocInit => AllocTypeOK
<1> SUFFICES ASSUME AllocInit PROVE AllocTypeOK
    OBVIOUS
<1>1. zones_ \in ZoneCounts /\ TrackCount(zones_) \in Nat
    BY CountType DEF AllocInit
<1>2. owner \in [TrackType -> [Indices -> Ids \cup {0}]]
    BY DEF AllocInit, NoOwners, Indices
<1>3. segments \in [Ids \cup {0} -> Seq(Track)]
    BY DEF AllocInit
<1>4. call \in CallType
    BY DEF AllocInit, NoCall, TrackType, CallType, Statuses
<1> QED
    BY <1>1, <1>2, <1>3, <1>4 DEF AllocInit, AllocTypeOK

(* Reset leaves the state well typed: owners are re-sized to the new zones. *)
LEMMA ResetTypeOK ==
    ASSUME AllocTypeOK, NEW n \in ZoneCounts, Reset(n)
    PROVE  AllocTypeOK'
<1>1. zones_' \in ZoneCounts
    BY DEF Reset
<1>2. owner' \in [TrackType -> [Indices' -> Ids \cup {0}]]
    BY DEF Reset, NoOwners, Indices
<1>3. segments' \in [Ids \cup {0} -> Seq(Track)]
    BY DEF Reset
<1>4. call' \in CallType
    BY DEF Reset, NoCall, TrackType, CallType, Statuses
<1> QED
    BY <1>1, <1>2, <1>3, <1>4 DEF Reset, AllocTypeOK

(* The entry of Allocate, with each of its early returns, keeps the types.  *)
LEMMA AllocateTypeOK ==
    ASSUME AllocTypeOK, NEW id \in Ids \cup {0}, NEW bytes \in Nat, NEW level, NEW largest,
           Allocate(id, bytes, level, largest)
    PROVE  AllocTypeOK'
<1>1. segments' \in [Ids \cup {0} -> Seq(Track)]
    BY DEF Allocate, AllocTypeOK
<1>2. call' \in CallType
    BY StatusType DEF Allocate, TrackType, CallType, Statuses
<1>3. UNCHANGED <<zones_, owner, cursor, Indices>>
    BY DEF Allocate, Indices
<1> QED
    BY <1>1, <1>2, <1>3 DEF AllocTypeOK

(* ReserveNext keeps the types; its cursor wraps to an index of the device. *)
LEMMA ReserveNextTypeOK ==
    ASSUME AllocTypeOK, ReserveNext
    PROVE  AllocTypeOK'
<1> DEFINE type == call.tier
           i == NextFree(type)
<1>1. type \in TrackType /\ call.id \in Ids \cup {0}
    BY DEF AllocTypeOK, CallType
<1>2. i \in Free(type)
    BY <1>1, NextFreeIsFree DEF ReserveNext
<1>3. i \in Indices /\ i \in Nat /\ TrackCount(zones_) \in Nat /\ i < TrackCount(zones_)
    BY <1>2, CountType DEF Free, Indices, AllocTypeOK
<1>4. UNCHANGED <<zones_, Indices>>
    BY DEF ReserveNext, Indices
<1>5. owner' \in [TrackType -> [Indices -> Ids \cup {0}]]
    BY <1>1, <1>3 DEF ReserveNext, AllocTypeOK
<1>6. CursorPast(i) \in Indices
    BY <1>3 DEF Indices, CursorPast
<1>7. cursor' \in [TrackType -> Nat] /\ \A t \in TrackType : cursor'[t] = 0 \/ cursor'[t] \in Indices
    BY <1>1, <1>6 DEF ReserveNext, AllocTypeOK, Indices
<1>8. segments' \in [Ids \cup {0} -> Seq(Track)]
    BY <1>1, <1>3 DEF ReserveNext, AllocTypeOK, Track
<1>9. call' \in CallType
    <2>1. SegmentBytes(type) \in Nat /\ call.remaining \in Nat
        BY SegmentBytesType DEF AllocTypeOK, CallType
    <2>2. RemainingAfter(type) \in Nat
        BY <2>1 DEF RemainingAfter
    <2>3. call' = [call EXCEPT !.remaining = RemainingAfter(type)]
        BY DEF ReserveNext
    <2> QED
        BY <2>2, <2>3, ZenonT(30) DEF AllocTypeOK, CallType
<1> QED
    BY <1>4, <1>5, <1>7, <1>8, <1>9 DEF AllocTypeOK

(* Going on to the TOP tier keeps the types.                                *)
LEMMA NextTierTypeOK ==
    ASSUME AllocTypeOK, NextTier
    PROVE  AllocTypeOK'
<1>1. call' \in CallType
    BY DEF NextTier, AllocTypeOK, CallType, TrackType
<1>2. UNCHANGED <<zones_, owner, cursor, segments, Indices>>
    BY DEF NextTier, Indices
<1> QED
    BY <1>1, <1>2 DEF AllocTypeOK

(* Leaving Allocate, with or without Undo, keeps the types.                 *)
LEMMA AllocateReturnTypeOK ==
    ASSUME AllocTypeOK, AllocateReturn
    PROVE  AllocTypeOK'
<1>1. UNCHANGED <<zones_, cursor, Indices>>
    BY DEF AllocateReturn, Indices
<1>2. owner' \in [TrackType -> [Indices -> Ids \cup {0}]]
    BY DEF AllocateReturn, AllocTypeOK, Undone
<1>3. segments' \in [Ids \cup {0} -> Seq(Track)]
    <2>1. <<>> \in Seq(Track)
        OBVIOUS
    <2> QED
        BY <2>1, ZenonT(30) DEF AllocateReturn, AllocTypeOK
<1>4. call' \in CallType
    <2>1. call' = Returned("OK") \/ call' = Returned("IOError")
        BY DEF AllocateReturn
    <2> QED
        BY <2>1, StatusType DEF Statuses
<1> QED
    BY <1>1, <1>2, <1>3, <1>4 DEF AllocTypeOK

(* Release keeps the types.                                                 *)
LEMMA ReleaseTypeOK ==
    ASSUME AllocTypeOK, NEW id \in Ids \cup {0}, Release(id)
    PROVE  AllocTypeOK'
<1>1. UNCHANGED <<zones_, cursor, Indices>>
    BY DEF Release, Indices
<1>2. owner' \in [TrackType -> [Indices -> Ids \cup {0}]]
    BY DEF Release, AllocTypeOK
<1>3. segments' \in [Ids \cup {0} -> Seq(Track)]
    BY DEF Release, AllocTypeOK
<1>4. call' \in CallType
    BY StatusType DEF Release, Statuses
<1> QED
    BY <1>1, <1>2, <1>3, <1>4 DEF AllocTypeOK

(* The owners after a prefix of a restored list are well typed.             *)
LEMMA TakenType ==
    ASSUME AllocTypeOK, NEW id \in Ids \cup {0}, NEW s, NEW n
    PROVE  Taken(s, n, id) \in [TrackType -> [Indices -> Ids \cup {0}]]
BY DEF AllocTypeOK, Taken

(* Restore, on success and at every point where it stops, keeps the types.  *)
LEMMA RestoreTypeOK ==
    ASSUME AllocTypeOK, NEW id \in Ids \cup {0}, NEW s \in Seq(Track), Restore(id, s)
    PROVE  AllocTypeOK'
<1>1. UNCHANGED <<zones_, Indices>>
    BY DEF Restore, Indices
<1>2. CASE id = 0 \/ s = <<>> \/ Indices = {}
    <2>1. UNCHANGED <<owner, cursor, segments>> /\ call' = Returned("InvalidArgument")
        BY <1>2 DEF Restore
    <2>2. call' \in CallType
        BY <2>1, StatusType DEF Statuses
    <2> QED
        BY <1>1, <2>1, <2>2 DEF AllocTypeOK
<1>3. CASE ~(id = 0 \/ s = <<>> \/ Indices = {}) /\ Stops(s) = {}
    <2>1. /\ owner' = Taken(s, Len(s), id)
          /\ cursor' = [type \in TrackType |->
                 IF LastOf(type, s) = 0 THEN cursor[type]
                 ELSE CursorPast(s[LastOf(type, s)].index)]
          /\ segments' = [segments EXCEPT ![id] = s]
          /\ call' = Returned("OK")
        BY <1>3 DEF Restore
    <2>2. TrackCount(zones_) \in Nat /\ TrackCount(zones_) > 0
        BY <1>3, CountType DEF AllocTypeOK, Indices
    <2>3. ASSUME NEW type \in TrackType, LastOf(type, s) # 0
          PROVE  CursorPast(s[LastOf(type, s)].index) \in Indices
        <3>1. LastOf(type, s) \in 1 .. Len(s)
            BY <2>3, LastOfPosition
        <3>2. s[LastOf(type, s)] \in Track
            BY <3>1
        <3>3. s[LastOf(type, s)].index \in Nat
            BY <3>2 DEF Track
        <3>4. \A x, n \in Nat : n > 0 => (x + 1) % n \in 0 .. n - 1
            OBVIOUS
        <3> QED
            BY <2>2, <3>3, <3>4, Zenon DEF Indices, CursorPast
    <2>4. \A type \in TrackType :
              cursor'[type] \in Nat /\ (cursor'[type] = 0 \/ cursor'[type] \in Indices)
        BY <2>1, <2>3 DEF AllocTypeOK, Indices
    <2>5. call' \in CallType
        BY <2>1, StatusType DEF Statuses
    <2>6. cursor' \in [TrackType -> Nat]
        BY <2>1, <2>4
    <2>7. segments' \in [Ids \cup {0} -> Seq(Track)]
        BY <2>1 DEF AllocTypeOK
    <2>8. owner' \in [TrackType -> [Indices -> Ids \cup {0}]]
        BY <2>1, TakenType, Zenon
    <2> QED
        BY <1>1, <2>4, <2>5, <2>6, <2>7, <2>8 DEF AllocTypeOK
<1>4. CASE ~(id = 0 \/ s = <<>> \/ Indices = {}) /\ Stops(s) # {}
    <2>1. \/ owner' = Taken(s, Min(Stops(s)) - 1, id)
          \/ owner' = owner
        BY <1>4 DEF Restore
    <2>2. UNCHANGED <<cursor, segments>>
        BY <1>4 DEF Restore
    <2>3. call' \in CallType
        <3>1. call' = Returned("InvalidArgument") \/ call' = Returned("IOError")
            BY <1>4 DEF Restore
        <3> QED
            BY <3>1, StatusType DEF Statuses
    <2>4. owner' \in [TrackType -> [Indices -> Ids \cup {0}]]
        <3>1. owner \in [TrackType -> [Indices -> Ids \cup {0}]]
            BY DEF AllocTypeOK
        <3>2. \A n : Taken(s, n, id) \in [TrackType -> [Indices -> Ids \cup {0}]]
            BY TakenType, ZenonT(30)
        <3> QED
            BY <2>1, <3>1, <3>2, Zenon
    <2> QED
        BY <1>1, <2>2, <2>3, <2>4 DEF AllocTypeOK
<1> QED
    BY <1>2, <1>3, <1>4
-----------------------------------------------------------------------------
(* SegmentsOwned for one SSTable.                                          *)
OwnsAll(id) ==
    /\ \A k \in 1 .. Len(segments[id]) :
          /\ segments[id][k].index \in Indices
          /\ owner[segments[id][k].type][segments[id][k].index] = id
          /\ id # 0
    /\ \A j, k \in 1 .. Len(segments[id]) :
          segments[id][j] = segments[id][k] => j = k

(* A segment an SSTable holds is a track, given by its tier and index.      *)
LEMMA SegmentType ==
    ASSUME AllocTypeOK, NEW id \in Ids \cup {0}, NEW k \in 1 .. Len(segments[id])
    PROVE  /\ segments[id][k] \in Track
           /\ segments[id][k].type \in TrackType
           /\ segments[id][k].index \in Nat
           /\ segments[id][k] = [type |-> segments[id][k].type,
                                 index |-> segments[id][k].index]
<1>1. segments[id] \in Seq(Track)
    BY DEF AllocTypeOK
<1>2. segments[id][k] \in Track
    BY <1>1
<1> QED
    BY <1>2 DEF Track

(* A step that changes only the owners of tracks of another SSTable leaves   *)
(* an SSTable's tracks to it.                                                *)
LEMMA OthersKeepTracks ==
    ASSUME AllocTypeOK, NEW a \in Ids \cup {0}, NEW id, a # id, OwnsAll(a),
           \A t \in TrackType, x \in Indices :
              owner[t][x] # id => owner'[t][x] = owner[t][x]
    PROVE  \A k \in 1 .. Len(segments[a]) :
              owner'[segments[a][k].type][segments[a][k].index] = a
<1> TAKE k \in 1 .. Len(segments[a])
<1>1. /\ segments[a][k].index \in Indices
      /\ owner[segments[a][k].type][segments[a][k].index] = a
    BY DEF OwnsAll
<1>2. segments[a][k].type \in TrackType
    BY SegmentType, ZenonT(30)
<1> QED
    BY <1>1, <1>2, Zenon

(* The track ReserveNext takes was free, so nobody's list names it yet.     *)
LEMMA ReserveNextOwned ==
    ASSUME AllocTypeOK, SegmentsOwned, CallOK, ReserveNext
    PROVE  SegmentsOwned'
<1> DEFINE type == call.tier
           i == NextFree(type)
           seg == [type |-> type, index |-> i]
<1>1. type \in TrackType /\ call.id \in Ids \cup {0} /\ call.id # 0
    BY IdsAssumption DEF AllocTypeOK, CallType, CallOK, ReserveNext
<1>2. i \in Free(type)
    BY <1>1, NextFreeIsFree DEF ReserveNext
<1>3. i \in Indices /\ owner[type][i] = 0
    BY <1>2 DEF Free
<1>4. Indices' = Indices
    BY DEF ReserveNext, Indices
<1>5. /\ owner' = [owner EXCEPT ![type][i] = call.id]
      /\ segments' = [segments EXCEPT ![call.id] = Append(@, seg)]
    BY DEF ReserveNext
<1>6. /\ owner'[type][i] = call.id
      /\ \A t \in TrackType, x \in Indices :
            t # type \/ x # i => owner'[t][x] = owner[t][x]
    BY <1>1, <1>3, <1>5 DEF AllocTypeOK
<1> HIDE DEF i
<1>7. ASSUME NEW id \in Ids \cup {0}, NEW k \in 1 .. Len(segments[id])
      PROVE  /\ segments[id][k] # seg
             /\ owner'[segments[id][k].type][segments[id][k].index] = id
             /\ segments[id][k].index \in Indices
             /\ id # 0
    <2>1. /\ segments[id][k].index \in Indices
          /\ owner[segments[id][k].type][segments[id][k].index] = id
          /\ id # 0
        BY DEF SegmentsOwned
    <2>2. /\ segments[id][k].type \in TrackType
          /\ segments[id][k] = [type |-> segments[id][k].type,
                                index |-> segments[id][k].index]
        BY SegmentType
    <2>3. segments[id][k].type # type \/ segments[id][k].index # i
        BY <1>3, <2>1
    <2> QED
        BY <1>6, <2>1, <2>2, <2>3
<1>8. ASSUME NEW id \in Ids \cup {0}
      PROVE  OwnsAll(id)'
    <2>1. CASE id # call.id
        <3>1. segments'[id] = segments[id]
            BY <1>5, <2>1 DEF AllocTypeOK
        <3>2. OwnsAll(id)
            BY Zenon DEF SegmentsOwned, OwnsAll
        <3> QED
            BY <1>4, <1>7, <3>1, <3>2 DEF OwnsAll
    <2>2. CASE id = call.id
        <3> DEFINE s == segments[id]
                   n == Len(s)
        <3>1. s \in Seq(Track) /\ n \in Nat /\ seg \in Track
            <4>1. s \in Seq(Track)
                BY DEF AllocTypeOK
            <4>2. i \in Nat
                BY <1>3, CountType DEF AllocTypeOK, Indices
            <4> QED
                BY <1>1, <4>1, <4>2 DEF Track
        <3>2. segments'[id] = Append(s, seg)
            BY <1>5, <2>2 DEF AllocTypeOK
        <3>3. /\ Len(segments'[id]) = n + 1
              /\ segments'[id][n + 1] = seg
              /\ \A k \in 1 .. n : segments'[id][k] = s[k]
            BY <3>1, <3>2
        <3>4. \A k \in 1 .. n + 1 : k \in 1 .. n \/ k = n + 1
            BY <3>1
        <3>5. \A k \in 1 .. n + 1 :
                 /\ segments'[id][k].index \in Indices
                 /\ owner'[segments'[id][k].type][segments'[id][k].index] = id
                 /\ id # 0
            <4>1. /\ seg.index \in Indices
                  /\ owner'[seg.type][seg.index] = id
                  /\ id # 0
                BY <1>1, <1>3, <1>6, <2>2
            <4>2. \A k \in 1 .. n :
                     /\ s[k].index \in Indices
                     /\ owner'[s[k].type][s[k].index] = id
                BY <1>7, Zenon
            <4> DEFINE Owns(t) == t.index \in Indices /\ owner'[t.type][t.index] = id
            <4>3. Owns(seg) /\ \A k \in 1 .. n : Owns(s[k])
                BY <4>1, <4>2, Zenon
            <4> HIDE DEF Owns, s, n, seg
            <4>4. \A k \in 1 .. n + 1 : Owns(segments'[id][k])
                BY <3>3, <3>4, <4>3
            <4> QED
                BY <4>1, <4>4 DEF Owns
        <3>6. \A j, k \in 1 .. n : s[j] = s[k] => j = k
            BY DEF SegmentsOwned
        <3>7. \A k \in 1 .. n : s[k] # seg
            BY <1>7
        <3>8. \A j, k \in 1 .. n + 1 : segments'[id][j] = segments'[id][k] => j = k
            BY <3>3, <3>4, <3>6, <3>7, Zenon
        <3> QED
            BY <1>4, <3>3, <3>5, <3>8, Zenon DEF OwnsAll
    <2> QED
        BY <2>1, <2>2
<1> QED
    BY <1>8, Zenon DEF SegmentsOwned, OwnsAll

(* Clearing the caller's list on entry of Allocate keeps the others' tracks.*)
LEMMA AllocateOwned ==
    ASSUME AllocTypeOK, SegmentsOwned, NEW id \in Ids \cup {0}, NEW bytes, NEW level,
           NEW largest, Allocate(id, bytes, level, largest)
    PROVE  SegmentsOwned'
<1>1. Indices' = Indices /\ owner' = owner
    BY DEF Allocate, Indices
<1>2. ASSUME NEW a \in Ids \cup {0}
      PROVE  OwnsAll(a)'
    <2>1. CASE a = id
        <3>1. segments'[a] = <<>>
            BY <2>1 DEF Allocate, AllocTypeOK
        <3> QED
            BY <3>1 DEF OwnsAll
    <2>2. CASE a # id
        <3>1. segments'[a] = segments[a]
            BY <2>2 DEF Allocate, AllocTypeOK
        <3> QED
            BY <1>1, <3>1, Zenon DEF OwnsAll, SegmentsOwned
    <2> QED
        BY <2>1, <2>2
<1> QED
    BY <1>2, Zenon DEF SegmentsOwned, OwnsAll

(* Undo frees only the tracks of the call's own SSTable.                    *)
LEMMA AllocateReturnOwned ==
    ASSUME AllocTypeOK, SegmentsOwned, AllocateReturn
    PROVE  SegmentsOwned'
<1>1. Indices' = Indices
    BY DEF AllocateReturn, Indices
<1>2. CASE call.remaining = 0
    BY <1>1, <1>2 DEF AllocateReturn, SegmentsOwned
<1>3. CASE call.remaining # 0
    <2>1. /\ owner' = Undone(segments[call.id], call.id)
          /\ segments' = [segments EXCEPT ![call.id] = <<>>]
        BY <1>3 DEF AllocateReturn
    <2> DEFINE id == call.id
    <2>2. \A t \in TrackType, x \in Indices :
             owner[t][x] # id => owner'[t][x] = owner[t][x]
        BY <2>1 DEF Undone
    <2>3. ASSUME NEW a \in Ids \cup {0}
          PROVE  OwnsAll(a)'
        <3>1. CASE a = call.id
            <4>1. segments'[a] = <<>>
                BY <2>1, <3>1 DEF AllocTypeOK
            <4> QED
                BY <4>1 DEF OwnsAll
        <3>2. CASE a # call.id
            <4>1. segments'[a] = segments[a]
                BY <2>1, <3>2 DEF AllocTypeOK
            <4>2. OwnsAll(a)
                BY Zenon DEF OwnsAll, SegmentsOwned
            <4>3. \A k \in 1 .. Len(segments[a]) :
                     owner'[segments[a][k].type][segments[a][k].index] = a
                <5> HIDE DEF id
                <5>1. a # id
                    BY <3>2 DEF id
                <5> QED
                    BY <2>2, <5>1, <4>2, OthersKeepTracks
            <4> QED
                BY <1>1, <4>1, <4>2, <4>3, Zenon DEF OwnsAll
        <3> QED
            BY <3>1, <3>2
    <2> QED
        BY <2>3, Zenon DEF SegmentsOwned, OwnsAll
<1> QED
    BY <1>2, <1>3

(* Release frees only the tracks of the SSTable it is called for.           *)
LEMMA ReleaseOwned ==
    ASSUME AllocTypeOK, SegmentsOwned, NEW id \in Ids \cup {0}, Release(id)
    PROVE  SegmentsOwned'
<1>1. Indices' = Indices
    BY DEF Release, Indices
<1>2. \A t \in TrackType, x \in Indices :
         owner[t][x] # id => owner'[t][x] = owner[t][x]
    BY DEF Release
<1>3. ASSUME NEW a \in Ids \cup {0}
      PROVE  OwnsAll(a)'
    <2>1. CASE a = id
        <3>1. segments'[a] = <<>>
            BY <2>1 DEF Release, AllocTypeOK
        <3> QED
            BY <3>1 DEF OwnsAll
    <2>2. CASE a # id
        <3>1. segments'[a] = segments[a]
            BY <2>2 DEF Release, AllocTypeOK
        <3>2. OwnsAll(a)
            BY Zenon DEF OwnsAll, SegmentsOwned
        <3>3. \A k \in 1 .. Len(segments[a]) :
                 owner'[segments[a][k].type][segments[a][k].index] = a
            BY <1>2, <2>2, <3>2, OthersKeepTracks, ZenonT(30)
        <3> QED
            BY <1>1, <3>1, <3>2, <3>3, Zenon DEF OwnsAll
    <2> QED
        BY <2>1, <2>2
<1> QED
    BY <1>3, Zenon DEF SegmentsOwned, OwnsAll

(* Restore hands out tracks that were free, and a list without repetition.  *)
LEMMA RestoreOwned ==
    ASSUME AllocTypeOK, SegmentsOwned, NEW id \in Ids \cup {0}, NEW s \in Seq(Track),
           Restore(id, s)
    PROVE  SegmentsOwned'
<1>1. Indices' = Indices
    BY DEF Restore, Indices
<1>2. CASE id = 0 \/ s = <<>> \/ Indices = {}
    <2>1. UNCHANGED <<owner, segments>>
        BY <1>2 DEF Restore
    <2> QED
        BY <1>1, <2>1 DEF SegmentsOwned
(* The tracks of a list that does not stop the walk were free. *)
<1>3. ASSUME NEW n \in 0 .. Len(s), \A k \in 1 .. n : k \notin Stops(s)
      PROVE  /\ \A k \in 1 .. n : /\ s[k].type \in TrackType
                                   /\ s[k].index \in Indices
                                   /\ s[k] = [type |-> s[k].type, index |-> s[k].index]
                                   /\ owner[s[k].type][s[k].index] = 0
             /\ \A j, k \in 1 .. n : s[j] = s[k] => j = k
    <2>1. n \in Nat /\ Len(s) \in Nat /\ n <= Len(s)
        OBVIOUS
    <2>2. ASSUME NEW k \in 1 .. n
          PROVE  /\ k \in 1 .. Len(s)
                 /\ s[k] \in Track
                 /\ ~BadGeometry(s, k)
                 /\ ~AlreadyOwned(s, k)
        <3>1. k \in 1 .. Len(s)
            BY <2>1
        <3> QED
            BY <1>3, <3>1 DEF Stops
    <2>3. \A k \in 1 .. n : /\ s[k].type \in TrackType
                             /\ s[k].index \in Indices
                             /\ s[k] = [type |-> s[k].type, index |-> s[k].index]
                             /\ owner[s[k].type][s[k].index] = 0
        BY <2>2, Zenon DEF Track, BadGeometry, AlreadyOwned
    <2>4. \A k \in 1 .. n : \A j \in 1 .. k - 1 : s[j] # s[k]
        BY <2>2 DEF AlreadyOwned
    <2>5. \A j, k \in 1 .. n : j = k \/ j \in 1 .. k - 1 \/ k \in 1 .. j - 1
        BY <2>1
    <2> QED
        BY <2>3, <2>4, <2>5, Zenon
(* So giving them to id takes nothing from an SSTable that holds segments. *)
<1>4. ASSUME NEW n \in 0 .. Len(s), \A k \in 1 .. n : k \notin Stops(s),
             owner' = Taken(s, n, id), NEW a \in Ids \cup {0}
      PROVE  \A k \in 1 .. Len(segments[a]) :
                owner'[segments[a][k].type][segments[a][k].index] = a
    <2> TAKE k \in 1 .. Len(segments[a])
    <2> DEFINE t == segments[a][k].type
               x == segments[a][k].index
    <2>1. t \in TrackType /\ x \in Indices /\ owner[t][x] = a /\ a # 0
        BY SegmentType, ZenonT(30) DEF SegmentsOwned
    <2>2. ~ \E j \in 1 .. n : s[j] = [type |-> t, index |-> x]
        BY <1>3, <1>4, <2>1
    <2> QED
        BY <1>4, <2>1, <2>2, Zenon DEF Taken
<1>5. CASE ~(id = 0 \/ s = <<>> \/ Indices = {}) /\ Stops(s) = {}
    <2>1. owner' = Taken(s, Len(s), id) /\ segments' = [segments EXCEPT ![id] = s]
        BY <1>5 DEF Restore
    <2>2. Len(s) \in 0 .. Len(s) /\ \A k \in 1 .. Len(s) : k \notin Stops(s)
        BY <1>5
    <2>3. ASSUME NEW a \in Ids \cup {0}
          PROVE  OwnsAll(a)'
        <3>1. CASE a # id
            <4>1. segments'[a] = segments[a]
                BY <2>1, <3>1 DEF AllocTypeOK
            <4>2. \A k \in 1 .. Len(segments[a]) :
                     owner'[segments[a][k].type][segments[a][k].index] = a
                BY <1>4, <2>1, <2>2, Zenon
            <4> QED
                BY <1>1, <4>1, <4>2, Zenon DEF OwnsAll, SegmentsOwned
        <3>2. CASE a = id
            <4>1. segments'[a] = s
                BY <2>1, <3>2 DEF AllocTypeOK
            <4>2. \A k \in 1 .. Len(s) : /\ s[k].index \in Indices
                                          /\ owner'[s[k].type][s[k].index] = id
                BY <1>3, <2>1, <2>2, Zenon DEF Taken
            <4>3. \A j, k \in 1 .. Len(s) : s[j] = s[k] => j = k
                BY <1>3, <2>2
            <4> QED
                BY <1>1, <1>5, <3>2, <4>1, <4>2, <4>3 DEF OwnsAll
        <3> QED
            BY <3>1, <3>2
    <2> QED
        BY <2>3, Zenon DEF SegmentsOwned, OwnsAll
<1>6. CASE ~(id = 0 \/ s = <<>> \/ Indices = {}) /\ Stops(s) # {}
    <2> DEFINE m == Min(Stops(s))
    <2>1. /\ owner' = Taken(s, m - 1, id) \/ owner' = owner
          /\ segments' = segments
        BY <1>6 DEF Restore
    <2>2. m \in Stops(s) /\ \A k \in Stops(s) : m <= k
        <3>1. Stops(s) \in SUBSET Nat
            BY DEF Stops
        <3>2. \E k \in Stops(s) : \A j \in Stops(s) : k <= j
            BY <1>6, <3>1, LeastExists, Zenon
        <3> QED
            BY <3>2 DEF Min
    <2>3. m \in 1 .. Len(s)
        BY <2>2 DEF Stops
    <2> HIDE DEF m
    <2>4. m - 1 \in 0 .. Len(s) /\ \A k \in 1 .. m - 1 : k \notin Stops(s)
        BY <2>2, <2>3
    <2>5. ASSUME NEW a \in Ids \cup {0}
          PROVE  OwnsAll(a)'
        <3>1. \A k \in 1 .. Len(segments[a]) :
                 owner'[segments[a][k].type][segments[a][k].index] = a
            <4>1. CASE owner' = Taken(s, m - 1, id)
                BY <1>4, <2>4, <4>1, Zenon
            <4>2. CASE owner' = owner
                BY <4>2, Zenon DEF SegmentsOwned
            <4> QED
                BY <2>1, <4>1, <4>2, Zenon
        <3> QED
            BY <1>1, <2>1, <3>1 DEF OwnsAll, SegmentsOwned
    <2> QED
        BY <2>5 DEF SegmentsOwned, OwnsAll
<1> QED
    BY <1>2, <1>5, <1>6
-----------------------------------------------------------------------------
(* Allocate starts its loops with a nonzero id, at the tier its level asks for.*)
LEMMA AllocateCallOK ==
    ASSUME NEW id \in Ids \cup {0}, NEW bytes, NEW level, NEW largest,
           Allocate(id, bytes, level, largest)
    PROVE  CallOK'
BY StatusType, ZenonT(30) DEF Allocate, CallOK, Statuses

(* A step of Allocate that reserves a track makes no track free. *)
LEMMA ReserveNextFree ==
    ASSUME AllocTypeOK, CallOK, ReserveNext
    PROVE  /\ NextFree(call.tier) \in Free(call.tier)
           /\ Free(call.tier)' = Free(call.tier) \ {NextFree(call.tier)}
           /\ \A t \in TrackType \ {call.tier} : Free(t)' = Free(t)
<1> DEFINE type == call.tier
           i == NextFree(type)
<1>1. type \in TrackType /\ call.id # 0
    BY IdsAssumption DEF AllocTypeOK, CallType, CallOK, ReserveNext
<1>2. i \in Free(type)
    BY <1>1, NextFreeIsFree DEF ReserveNext
<1>3. i \in Indices /\ Indices' = Indices
    BY <1>2 DEF Free, ReserveNext, Indices
<1>4. owner' = [owner EXCEPT ![type][i] = call.id] /\ call'.tier = call.tier
    BY DEF ReserveNext, AllocTypeOK, CallType
<1> HIDE DEF i
<1>5. /\ owner'[type][i] # 0
      /\ \A t \in TrackType, x \in Indices :
            t # type \/ x # i => owner'[t][x] = owner[t][x]
    BY <1>1, <1>3, <1>4 DEF AllocTypeOK
<1> QED
    BY <1>1, <1>2, <1>3, <1>4, <1>5 DEF Free, i

(* ReserveNext keeps the call's tier consistent with its placement.         *)
LEMMA ReserveNextCallOK ==
    ASSUME AllocTypeOK, CallOK, ReserveNext
    PROVE  CallOK'
<1>1. /\ call'.op = call.op /\ call'.id = call.id
      /\ call'.tier = call.tier /\ call'.bottom_first = call.bottom_first
    BY DEF ReserveNext, AllocTypeOK, CallType
<1>2. Free("BOTTOM") = {} => Free("BOTTOM")' = {}
    BY ReserveNextFree DEF TrackType
<1> QED
    BY <1>1, <1>2 DEF CallOK

(* NextTier leaves BOTTOM only when no BOTTOM track is free.                *)
LEMMA NextTierCallOK ==
    ASSUME AllocTypeOK, CallOK, NextTier
    PROVE  CallOK'
<1>1. Free("BOTTOM")' = Free("BOTTOM")
    BY DEF NextTier, Free, Indices
<1>2. call' = [call EXCEPT !.tier = "TOP"] /\ Free("BOTTOM") = {}
    BY DEF NextTier
<1> QED
    BY <1>1, <1>2 DEF CallOK, AllocTypeOK, CallType

(* Every step preserves the inductive invariant. *)
LEMMA AllocInvStep ==
    ASSUME AllocInv, [AllocNext]_allocVars
    PROVE  AllocInv'
<1> USE DEF AllocInv
<1>1. ASSUME NEW n \in ZoneCounts, Reset(n)
      PROVE  AllocInv'
    <2>1. SegmentsOwned'
        BY <1>1 DEF Reset, SegmentsOwned
    <2>2. CallOK'
        BY <1>1 DEF Reset, NoCall, CallOK
    <2> QED
        BY <1>1, <2>1, <2>2, ResetTypeOK
<1>2. ASSUME NEW id \in Ids \cup {0}, NEW bytes \in 0 .. MaxBytes, NEW level, NEW largest,
             Allocate(id, bytes, level, largest)
      PROVE  AllocInv'
    <2>1. bytes \in Nat
        BY MaxBytesAssumption
    <2> QED
        BY <1>2, <2>1, AllocateTypeOK, AllocateOwned, AllocateCallOK
<1>3. CASE ReserveNext
    BY <1>3, ReserveNextTypeOK, ReserveNextOwned, ReserveNextCallOK
<1>4. CASE NextTier
    <2>1. SegmentsOwned'
        BY <1>4 DEF NextTier, SegmentsOwned, Indices
    <2> QED
        BY <1>4, <2>1, NextTierTypeOK, NextTierCallOK
<1>5. CASE AllocateReturn
    <2>1. call'.op = "idle"
        BY <1>5 DEF AllocateReturn, Returned, NoCall
    <2> QED
        BY <1>5, <2>1, AllocateReturnTypeOK, AllocateReturnOwned DEF CallOK
<1>6. ASSUME NEW id \in Ids \cup {0}, Release(id)
      PROVE  AllocInv'
    <2>1. call'.op = "idle"
        BY <1>6 DEF Release, Returned, NoCall
    <2> QED
        BY <1>6, <2>1, ReleaseTypeOK, ReleaseOwned DEF CallOK
<1>7. ASSUME NEW id \in Ids \cup {0}, NEW s \in RestoreInputs, Restore(id, s)
      PROVE  AllocInv'
    <2>1. s \in Seq(Track)
        BY RestoreInputsAssumption DEF Track, TrackType
    <2>2. call'.op = "idle"
        BY <1>7 DEF Restore, Returned, NoCall
    <2> QED
        BY <1>7, <2>1, <2>2, RestoreTypeOK, RestoreOwned DEF CallOK
<1>8. CASE UNCHANGED allocVars
    BY <1>8 DEF allocVars, AllocTypeOK, SegmentsOwned, CallOK, Free, Indices
<1> QED
    BY <1>1, <1>2, <1>3, <1>4, <1>5, <1>6, <1>7, <1>8 DEF AllocNext, AllocateStep

(* The initial state satisfies the inductive invariant.                     *)
LEMMA AllocInvInit == AllocInit => AllocInv
<1>1. AllocInit => SegmentsOwned
    BY DEF AllocInit, SegmentsOwned
<1>2. AllocInit => CallOK
    BY DEF AllocInit, CallOK, NoCall
<1> QED
    BY <1>1, <1>2, InitTypeOK DEF AllocInv

(* The inductive invariant holds of every behaviour of the allocator: types, *)
(* exclusive tracks, and a call in progress that left BOTTOM only when used  *)
(* up.                                                                       *)
THEOREM AllocInvariant == AllocSpec => []AllocInv
<1>1. AllocInv /\ [AllocNext]_allocVars => AllocInv'
    BY AllocInvStep
<1> QED
    BY <1>1, AllocInvInit, PTL DEF AllocSpec

(* Type correctness: owners, cursors and segments always name tracks of the  *)
(* device the allocator was last Reset to.                                   *)
THEOREM AllocTypeCorrect == AllocSpec => []AllocTypeOK
BY AllocInvariant, PTL DEF AllocInv

(* Allocate, Undo, Release and Restore never hand a track to two SSTables,   *)
(* on a device of any size.                                                  *)
THEOREM TracksExclusive == AllocSpec => []SegmentsOwned
BY AllocInvariant, PTL DEF AllocInv
-----------------------------------------------------------------------------
(* Quotient and remainder, the zone and the group SegmentAt splits an index into.*)
LEMMA DivMod ==
    ASSUME NEW a \in Nat, NEW b \in Nat, b > 0
    PROVE  a \div b \in Nat /\ a % b \in Nat /\ a = b * (a \div b) + (a % b)
<1>1. a \div b \in Int /\ a % b \in 0 .. b - 1
    OBVIOUS
<1>2. a = b * (a \div b) + (a % b)
    OBVIOUS
<1>3. a \div b >= 0
    OBVIOUS
<1> QED
    BY <1>1, <1>2, <1>3

(* The arithmetic of SegmentAt: the group a segment lies in starts at the    *)
(* index times the sectors of a group.                                       *)
LEMMA SegmentStartIs ==
    ASSUME NEW s \in Track
    PROVE  SegmentStart(s) = s.index * kGroupSectors
                               + (IF s.type = "TOP" THEN 0 ELSE kTopSectors)
<1> DEFINE G == kGroupsPerZone
           S == kGroupSectors
           z == s.index \div G
           g == s.index % G
<1>1. G \in Nat /\ G > 0 /\ S \in Nat /\ kZoneSectors = G * S
    BY GeometryAssumption
<1>2. s.index \in Nat
    BY DEF Track
<1>3. z \in Nat /\ g \in Nat /\ s.index = G * z + g
    BY <1>1, <1>2, DivMod, ZenonT(30)
<1>4. SegmentStart(s) = z * kZoneSectors + g * S
                          + (IF s.type = "TOP" THEN 0 ELSE kTopSectors)
    BY DEF SegmentStart
<1>5. \A a, b, c, d \in Nat : a * (b * c) + d * c = (b * a + d) * c
    OBVIOUS
<1>6. z * (G * S) + g * S = (G * z + g) * S
    BY <1>1, <1>3, <1>5
<1> HIDE DEF z, g
<1> QED
    BY <1>1, <1>3, <1>4, <1>6

(* The sectors of a track lie inside its group, TOP before BOTTOM. *)
LEMMA SectorsInGroup ==
    ASSUME NEW s \in Track, NEW x \in SegmentSectors(s)
    PROVE  /\ x \in Nat
           /\ s.index * kGroupSectors <= x
           /\ x < (s.index + 1) * kGroupSectors
           /\ s.type = "TOP" => x < s.index * kGroupSectors + kTopSectors
           /\ s.type = "BOTTOM" => x >= s.index * kGroupSectors + kTopSectors
<1>1. s.index \in Nat /\ s.type \in {"TOP", "BOTTOM"}
    BY DEF Track, TrackType
<1>2. /\ kTopSectors \in Nat /\ kBottomSectors \in Nat
      /\ kGroupSectors = kTopSectors + kBottomSectors /\ kGroupSectors \in Nat
    BY GeometryAssumption
<1> DEFINE base == s.index * kGroupSectors
<1>3. base \in Nat /\ (s.index + 1) * kGroupSectors = base + kGroupSectors
    BY <1>1, <1>2
<1>4. x \in SegmentStart(s) .. SegmentStart(s) + TypeSectors(s.type) - 1
    BY DEF SegmentSectors
<1>5. SegmentStart(s) = base + (IF s.type = "TOP" THEN 0 ELSE kTopSectors)
    BY SegmentStartIs
<1> HIDE DEF base
<1>6. /\ x \in Nat /\ base <= x /\ x < base + kGroupSectors
      /\ s.type = "TOP" => x < base + kTopSectors
      /\ s.type = "BOTTOM" => x >= base + kTopSectors
    BY <1>1, <1>2, <1>3, <1>4, <1>5 DEF TypeSectors
<1> QED
    BY <1>3, <1>6 DEF base

(* The groups of two indices lie one after the other on the device.         *)
LEMMA GroupsApart ==
    ASSUME NEW i \in Nat, NEW j \in Nat, i < j
    PROVE  (i + 1) * kGroupSectors <= j * kGroupSectors
<1>1. kGroupSectors \in Nat
    BY GeometryAssumption
<1>2. PICK d \in Nat : j = i + 1 + d
    <2>1. j - i - 1 \in Nat /\ j = i + 1 + (j - i - 1)
        OBVIOUS
    <2> QED
        BY <2>1
<1>3. \A a, b, c \in Nat : a * c <= (a + b) * c
    OBVIOUS
<1> QED
    BY <1>1, <1>2, <1>3

(* Different tracks of the device share no sector. *)
LEMMA TracksApart ==
    ASSUME NEW s \in Track, NEW t \in Track, s # t
    PROVE  SegmentSectors(s) \cap SegmentSectors(t) = {}
<1> SUFFICES ASSUME NEW x \in SegmentSectors(s), x \in SegmentSectors(t)
             PROVE  FALSE
    OBVIOUS
<1>1. s.index \in Nat /\ t.index \in Nat /\ (s.index # t.index \/ s.type # t.type)
    BY DEF Track
<1>2. s.type \in {"TOP", "BOTTOM"} /\ t.type \in {"TOP", "BOTTOM"}
    BY DEF Track, TrackType
<1>3. CASE s.index = t.index
    BY <1>1, <1>2, <1>3, SectorsInGroup, GeometryAssumption
<1>4. CASE s.index < t.index
    <2>1. (s.index + 1) * kGroupSectors <= t.index * kGroupSectors
        BY <1>1, <1>4, GroupsApart
    <2>2. x \in Nat /\ x < (s.index + 1) * kGroupSectors /\ t.index * kGroupSectors <= x
        BY SectorsInGroup
    <2>3. (s.index + 1) * kGroupSectors \in Nat /\ t.index * kGroupSectors \in Nat
        BY <1>1, GeometryAssumption
    <2> QED
        BY <2>1, <2>2, <2>3
<1>5. CASE t.index < s.index
    <2>1. (t.index + 1) * kGroupSectors <= s.index * kGroupSectors
        BY <1>1, <1>5, GroupsApart
    <2>2. x \in Nat /\ x < (t.index + 1) * kGroupSectors /\ s.index * kGroupSectors <= x
        BY SectorsInGroup
    <2>3. (t.index + 1) * kGroupSectors \in Nat /\ s.index * kGroupSectors \in Nat
        BY <1>1, GeometryAssumption
    <2> QED
        BY <2>1, <2>2, <2>3
<1> QED
    BY <1>1, <1>3, <1>4, <1>5

(* A track whose index is below the track count ends before the device does.*)
LEMMA TrackOnDevice ==
    ASSUME AllocTypeOK, NEW s \in Track, s.index \in Indices
    PROVE  SegmentSectors(s) \subseteq 0 .. zones_ * kZoneSectors - 1
<1> SUFFICES ASSUME NEW x \in SegmentSectors(s)
             PROVE  x \in 0 .. zones_ * kZoneSectors - 1
    OBVIOUS
<1> DEFINE n == TrackCount(zones_)
<1>1. /\ n \in Nat /\ s.index \in Nat /\ s.index < n /\ zones_ \in Nat
      /\ kGroupSectors \in Nat /\ kGroupsPerZone \in Nat
    BY CountType, GeometryAssumption, ZoneCountsAssumption DEF AllocTypeOK, Indices
<1>2. zones_ * kZoneSectors = n * kGroupSectors
    <2>1. \A a, b, c \in Nat : a * (b * c) = (a * b) * c
        OBVIOUS
    <2> QED
        BY <1>1, <2>1, GeometryAssumption DEF TrackCount
<1>3. x \in Nat /\ x < (s.index + 1) * kGroupSectors
    BY SectorsInGroup
<1>4. (s.index + 1) * kGroupSectors <= n * kGroupSectors
    <2>1. CASE s.index + 1 = n
        BY <1>1, <2>1
    <2>2. CASE s.index + 1 < n
        <3>1. PICK d \in Nat : n = s.index + 1 + d
            <4>1. n - s.index - 1 \in Nat /\ n = s.index + 1 + (n - s.index - 1)
                BY <1>1
            <4> QED
                BY <4>1
        <3>2. \A a, b, c \in Nat : a * c <= (a + b) * c
            OBVIOUS
        <3> QED
            BY <1>1, <3>1, <3>2
    <2> QED
        BY <1>1, <2>1, <2>2
<1>5. (s.index + 1) * kGroupSectors \in Nat /\ n * kGroupSectors \in Nat
    BY <1>1
<1> QED
    BY <1>2, <1>3, <1>4, <1>5

(* SegmentAt's sector ranges: writing the track of one SSTable never touches *)
(* a sector of another's, and stays on the device.                           *)
THEOREM SectorsNeverShared == AllocSpec => []SectorsDisjoint
<1>1. AllocInv => SectorsDisjoint
    <2> SUFFICES ASSUME AllocInv, NEW a \in Ids, NEW b \in Ids,
                        NEW j \in 1 .. Len(segments[a]), NEW k \in 1 .. Len(segments[b])
                 PROVE  /\ SegmentSectors(segments[a][j]) \subseteq
                              0 .. zones_ * kZoneSectors - 1
                        /\ <<a, j>> # <<b, k>> =>
                             SegmentSectors(segments[a][j])
                               \cap SegmentSectors(segments[b][k]) = {}
        BY ZenonT(30) DEF SectorsDisjoint
    <2> USE DEF AllocInv
    <2>1. segments[a][j] \in Track /\ segments[b][k] \in Track
        BY SegmentType, ZenonT(30)
    <2>2. /\ segments[a][j].index \in Indices
          /\ owner[segments[a][j].type][segments[a][j].index] = a
          /\ owner[segments[b][k].type][segments[b][k].index] = b
          /\ a = b /\ segments[a][j] = segments[b][k] => j = k
        BY DEF SegmentsOwned
    <2>3. <<a, j>> # <<b, k>> => segments[a][j] # segments[b][k]
        BY <2>2, Zenon
    <2>4. SegmentSectors(segments[a][j]) \subseteq 0 .. zones_ * kZoneSectors - 1
        BY <2>1, <2>2, TrackOnDevice, Zenon
    <2> QED
        BY <2>1, <2>3, <2>4, TracksApart, Zenon
<1> QED
    BY <1>1, AllocInvariant, PTL
-----------------------------------------------------------------------------
(* Where an SSTable is placed: a step of Allocate preserves the rule. *)
LEMMA ReserveNextPlacement ==
    ASSUME AllocInv, PlacementRule, ReserveNext
    PROVE  PlacementRule'
<1> USE DEF AllocInv
<1> DEFINE s == segments[call.id]
           seg == [type |-> call.tier, index |-> NextFree(call.tier)]
<1>1. /\ call'.op = "allocate" /\ call.op = "allocate" /\ call'.id = call.id
      /\ call'.tier = call.tier /\ call'.bottom_first = call.bottom_first
    BY DEF ReserveNext, AllocTypeOK, CallType
<1>2. call.id \in Ids \cup {0} /\ call.tier \in TrackType
    BY DEF AllocTypeOK, CallType
<1>3. s \in Seq(Track) /\ Len(s) \in Nat
    BY <1>2 DEF AllocTypeOK
<1>4. segments'[call.id] = Append(s, seg)
    BY <1>2 DEF ReserveNext, AllocTypeOK
<1>5. Free("BOTTOM") = {} => Free("BOTTOM")' = {}
    BY ReserveNextFree DEF TrackType
<1>6. call.tier \in {"TOP", "BOTTOM"}
    BY <1>2 DEF TrackType
<1> HIDE DEF seg
<1>7. /\ Len(segments'[call.id]) = Len(s) + 1
      /\ segments'[call.id][Len(s) + 1] = seg
      /\ \A k \in 1 .. Len(s) : segments'[call.id][k] = s[k]
    BY <1>3, <1>4
<1>8. \A k \in 1 .. Len(s) + 1 : k \in 1 .. Len(s) \/ k = Len(s) + 1
    BY <1>3
<1>9. /\ seg.type = call.tier
      /\ call.tier = "BOTTOM" => call.bottom_first
      /\ call.tier = "TOP" /\ call.bottom_first => Free("BOTTOM") = {}
    BY <1>1 DEF seg, CallOK
<1>10. \A k \in 1 .. Len(s) : IF s[k].type = "TOP"
                               THEN call.bottom_first => Free("BOTTOM")' = {}
                               ELSE call.bottom_first
    BY <1>1, <1>5, Zenon DEF PlacementRule
<1>11. IF seg.type = "TOP" THEN call.bottom_first => Free("BOTTOM")' = {}
                          ELSE call.bottom_first
    BY <1>5, <1>6, <1>9
<1> QED
    BY <1>1, <1>7, <1>8, <1>10, <1>11, ZenonT(30) DEF PlacementRule

(* Allocate's placement policy, for any mix of levels and sizes: TOP tracks  *)
(* for the largest level only when BOTTOM is used up, BOTTOM for no other.   *)
THEOREM PlacementHolds == AllocSpec => []PlacementRule
<1>1. AllocInit => PlacementRule
    BY DEF AllocInit, PlacementRule, NoCall
<1>2. ASSUME AllocInv, PlacementRule, [AllocNext]_allocVars
      PROVE  PlacementRule'
    <2>1. ASSUME NEW n \in ZoneCounts, Reset(n) PROVE PlacementRule'
        BY <2>1 DEF Reset, NoCall, PlacementRule
    <2>2. ASSUME NEW id \in Ids \cup {0}, NEW bytes, NEW level, NEW largest,
                 Allocate(id, bytes, level, largest)
          PROVE  PlacementRule'
        <3>1. call'.op = "allocate" => call'.id = id
            BY <2>2 DEF Allocate, Returned, NoCall
        <3>2. segments'[id] = <<>>
            BY <1>2, <2>2 DEF Allocate, AllocInv, AllocTypeOK
        <3> QED
            BY <3>1, <3>2 DEF PlacementRule
    <2>3. CASE ReserveNext
        BY <1>2, <2>3, ReserveNextPlacement
    <2>4. CASE NextTier
        <3>1. /\ call'.id = call.id /\ call'.bottom_first = call.bottom_first
              /\ call.op = "allocate" /\ segments' = segments
            BY <1>2, <2>4 DEF NextTier, AllocInv, AllocTypeOK, CallType
        <3>2. Free("BOTTOM")' = Free("BOTTOM")
            BY <2>4 DEF NextTier, Free, Indices
        <3> QED
            BY <1>2, <3>1, <3>2 DEF PlacementRule
    <2>5. CASE AllocateReturn \/ (\E id \in Ids \cup {0} : Release(id))
               \/ (\E id \in Ids \cup {0}, s \in RestoreInputs : Restore(id, s))
        BY <2>5 DEF AllocateReturn, Release, Restore, Returned, NoCall, PlacementRule
    <2>6. CASE UNCHANGED allocVars
        BY <1>2, <2>6 DEF allocVars, PlacementRule, Free, Indices
    <2> QED
        BY <1>2, <2>1, <2>2, <2>3, <2>4, <2>5, <2>6, Zenon DEF AllocNext, AllocateStep
<1> QED
    BY <1>1, <1>2, AllocInvariant, PTL DEF AllocSpec
-----------------------------------------------------------------------------
(* The free tracks of a tier can be counted: TierFreeBytes is a number.     *)
LEMMA FreeFinite ==
    ASSUME AllocTypeOK, NEW type
    PROVE  /\ IsFiniteSet(Free(type))
           /\ Cardinality(Free(type)) \in Nat
           /\ TierFreeBytes(type) \in Nat
<1>1. IsFiniteSet(Indices)
    BY CountType, FS_Interval DEF AllocTypeOK, Indices
<1>2. IsFiniteSet(Free(type))
    BY <1>1, FS_Subset DEF Free
<1>3. Cardinality(Free(type)) \in Nat
    BY <1>2, FS_CardinalityType
<1> QED
    BY <1>2, <1>3, SegmentBytesType DEF TierFreeBytes

(* Reserving a track takes exactly its bytes from its tier. *)
LEMMA ReserveNextBytes ==
    ASSUME AllocTypeOK, CallOK, ReserveNext, NEW type, type = call.tier
    PROVE  /\ TierFreeBytes(type)' = TierFreeBytes(type) - SegmentBytes(type)
           /\ TierFreeBytes(type) >= SegmentBytes(type)
           /\ \A t \in TrackType \ {type} : TierFreeBytes(t)' = TierFreeBytes(t)
<1> DEFINE c == Cardinality(Free(type))
           b == SegmentBytes(type)
<1>1. call'.tier = call.tier
    BY DEF ReserveNext, AllocTypeOK, CallType
<1>2. /\ NextFree(type) \in Free(type)
      /\ Free(type)' = Free(type) \ {NextFree(type)}
      /\ \A t \in TrackType \ {type} : Free(t)' = Free(t)
    BY <1>1, ReserveNextFree
<1>3. c \in Nat /\ b \in Nat /\ IsFiniteSet(Free(type))
    BY FreeFinite, SegmentBytesType
<1>4. Cardinality(Free(type)') = c - 1 /\ c - 1 \in Nat
    <2> DEFINE F == Free(type)
               i == NextFree(type)
    <2> HIDE DEF F, i
    <2>1. i \in F /\ IsFiniteSet(F)
        BY <1>2, <1>3 DEF F, i
    <2>2. Cardinality(F \ {i}) = Cardinality(F) - 1 /\ IsFiniteSet(F \ {i})
        BY <2>1, FS_RemoveElement
    <2>3. Cardinality(F \ {i}) \in Nat
        BY <2>2, FS_CardinalityType
    <2> QED
        BY <1>2, <2>2, <2>3 DEF F, i
<1>5. (c - 1) * b = c * b - b /\ (c - 1) * b \in Nat
    <2>1. \A x, y \in Nat : (x - 1) * y = x * y - y
        OBVIOUS
    <2> QED
        BY <1>3, <1>4, <2>1
<1>6. TierFreeBytes(type)' = (c - 1) * b
    BY <1>4 DEF TierFreeBytes
<1>7. \A t \in TrackType \ {type} : TierFreeBytes(t)' = TierFreeBytes(t)
    BY <1>2 DEF TierFreeBytes
<1>8. TierFreeBytes(type) = c * b /\ c * b \in Nat
    BY <1>3 DEF TierFreeBytes
<1> HIDE DEF c
<1> QED
    BY <1>3, <1>5, <1>6, <1>7, <1>8

(* Allocate's capacity check guarantees that every reservation of its loop   *)
(* succeeds: the rollback path is dead code.                                 *)
THEOREM AllocateNeverRollsBack == AllocSpec => []RollbackUnreachable
<1>1. AllocInit => RollbackUnreachable
    BY DEF AllocInit, RollbackUnreachable, NoCall
<1>2. ASSUME AllocInv, RollbackUnreachable, [AllocNext]_allocVars
      PROVE  RollbackUnreachable'
    <2> DEFINE top == TierFreeBytes("TOP")
               bot == TierFreeBytes("BOTTOM")
    <2>0. top \in Nat /\ bot \in Nat /\ call.remaining \in Nat /\ call.tier \in TrackType
        BY <1>2, FreeFinite DEF AllocInv, AllocTypeOK, CallType
    <2>1. ASSUME NEW n \in ZoneCounts, Reset(n) PROVE RollbackUnreachable'
        BY <2>1 DEF Reset, NoCall, RollbackUnreachable
    <2>2. ASSUME NEW id \in Ids \cup {0}, NEW bytes \in 0 .. MaxBytes, NEW level,
                 NEW largest, Allocate(id, bytes, level, largest)
          PROVE  RollbackUnreachable'
        <3>1. top' = top /\ bot' = bot
            BY <2>2 DEF Allocate, TierFreeBytes, Free, Indices
        <3>2. call'.op = "allocate" =>
                 /\ ~(bytes > Available(level = largest)) /\ call'.remaining = bytes
                 /\ call'.tier = IF level = largest THEN "BOTTOM" ELSE "TOP"
            BY <2>2 DEF Allocate, Returned, NoCall
        <3>3. bytes \in Nat
            BY MaxBytesAssumption
        <3>4. CASE level = largest
            BY <2>0, <3>1, <3>2, <3>3, <3>4 DEF RollbackUnreachable, Available
        <3>5. CASE level # largest
            BY <2>0, <3>1, <3>2, <3>3, <3>5 DEF RollbackUnreachable, Available
        <3> QED
            BY <3>4, <3>5
    <2>3. CASE ReserveNext
        <3> DEFINE b == SegmentBytes(call.tier)
        <3>1. /\ call'.op = "allocate" /\ call.op = "allocate" /\ call'.tier = call.tier
              /\ call'.remaining = IF call.remaining > b THEN call.remaining - b ELSE 0
            BY <1>2, <2>3 DEF ReserveNext, RemainingAfter, AllocInv, AllocTypeOK, CallType
        <3>2. b \in Nat
            BY SegmentBytesType
        <3>3. CASE call.tier = "TOP"
            <4>1. top' = top - b /\ top >= b
                BY <1>2, <2>3, <3>3, ReserveNextBytes DEF AllocInv
            <4> QED
                BY <1>2, <2>0, <3>1, <3>2, <3>3, <4>1 DEF RollbackUnreachable, Available
        <3>4. CASE call.tier = "BOTTOM"
            <4>1. bot' = bot - b /\ bot >= b /\ top' = top
                BY <1>2, <2>3, <3>4, ReserveNextBytes DEF AllocInv, TrackType
            <4> QED
                BY <1>2, <2>0, <3>1, <3>2, <3>4, <4>1 DEF RollbackUnreachable, Available
        <3> QED
            BY <2>0, <3>3, <3>4 DEF TrackType
    <2>4. CASE NextTier
        <3>1. top' = top
            BY <2>4 DEF NextTier, TierFreeBytes, Free, Indices
        <3>2. bot = 0
            BY <2>4, FS_EmptySet, SegmentBytesType DEF NextTier, TierFreeBytes
        <3>3. /\ call'.remaining = call.remaining /\ call'.tier = "TOP"
              /\ call.tier = "BOTTOM" /\ call.op = "allocate"
            BY <1>2, <2>4 DEF NextTier, AllocInv, AllocTypeOK, CallType
        <3> QED
            BY <1>2, <2>0, <3>1, <3>2, <3>3 DEF RollbackUnreachable, Available
    <2>5. CASE AllocateReturn \/ (\E id \in Ids \cup {0} : Release(id))
               \/ (\E id \in Ids \cup {0}, s \in RestoreInputs : Restore(id, s))
        BY <2>5 DEF AllocateReturn, Release, Restore, Returned, NoCall, RollbackUnreachable
    <2>6. CASE UNCHANGED allocVars
        BY <1>2, <2>6
        DEF allocVars, RollbackUnreachable, Available, TierFreeBytes, Free, Indices
    <2> QED
        BY <1>2, <2>1, <2>2, <2>3, <2>4, <2>5, <2>6, Zenon DEF AllocNext, AllocateStep
<1> QED
    BY <1>1, <1>2, AllocInvariant, PTL DEF AllocSpec
-----------------------------------------------------------------------------
(* The bytes a list of tracks holds.                                        *)

\* The tracks of a tier among the first n of a list.
HeldTracks(tracks, n, type) == {k \in 1 .. n : tracks[k].type = type}

(* They can be counted, and one more track is one more of its tier.         *)
LEMMA HeldCount ==
    ASSUME NEW tracks, NEW n \in Nat, NEW type
    PROVE  /\ IsFiniteSet(HeldTracks(tracks, n, type)) /\ Cardinality(HeldTracks(tracks, n, type)) \in Nat
           /\ n > 0 => Cardinality(HeldTracks(tracks, n, type)) =
                          Cardinality(HeldTracks(tracks, n - 1, type)) + (IF tracks[n].type = type THEN 1 ELSE 0)
<1> DEFINE H(m) == HeldTracks(tracks, m, type)
<1>1. ASSUME NEW m \in Nat PROVE IsFiniteSet(H(m)) /\ Cardinality(H(m)) \in Nat
    <2>1. IsFiniteSet(1 .. m) /\ H(m) \subseteq 1 .. m
        BY FS_Interval DEF HeldTracks
    <2> HIDE DEF H
    <2>2. IsFiniteSet(H(m))
        BY <2>1, FS_Subset
    <2> QED BY <2>2, FS_CardinalityType
<1>2. ASSUME n > 0
      PROVE  Cardinality(H(n)) = Cardinality(H(n - 1)) + (IF tracks[n].type = type THEN 1 ELSE 0)
    <2>1. n - 1 \in Nat /\ n \notin H(n - 1)
        BY <1>2 DEF HeldTracks
    <2>2. tracks[n].type = type => H(n) = H(n - 1) \cup {n}
        BY <1>2 DEF HeldTracks
    <2>3. tracks[n].type # type => H(n) = H(n - 1)
        BY <1>2 DEF HeldTracks
    <2>4. IsFiniteSet(H(n - 1)) /\ Cardinality(H(n - 1)) \in Nat
        BY <1>1, <2>1
    <2> HIDE DEF H
    <2>5. Cardinality(H(n - 1) \cup {n}) = Cardinality(H(n - 1)) + 1
        BY <2>1, <2>4, FS_AddElement
    <2>6. CASE tracks[n].type = type
        <3>1. Cardinality(H(n)) = Cardinality(H(n - 1)) + 1
            BY <2>2, <2>5, <2>6, Zenon
        <3> QED BY <2>6, <3>1
    <2>7. CASE tracks[n].type # type
        <3>1. Cardinality(H(n)) = Cardinality(H(n - 1))
            BY <2>3, <2>7
        <3> QED BY <2>4, <2>7, <3>1
    <2> QED BY <2>6, <2>7
<1> QED BY <1>1, <1>2

(* No track holds no byte, and each track adds its own.                     *)
LEMMA TracksBytesStep ==
    ASSUME NEW tracks \in Seq(Track)
    PROVE  /\ TracksBytes(tracks, 0) = 0
           /\ \A n \in 0 .. Len(tracks) : TracksBytes(tracks, n) \in Nat
           /\ \A n \in 1 .. Len(tracks) :
                 TracksBytes(tracks, n) = TracksBytes(tracks, n - 1) + SegmentBytes(tracks[n].type)
<1> DEFINE c(n, type) == Cardinality(HeldTracks(tracks, n, type))
           T == SegmentBytes("TOP")
           B == SegmentBytes("BOTTOM")
<1>0. T \in Nat /\ B \in Nat /\ Len(tracks) \in Nat
    BY SegmentBytesType
<1>1. \A n : TracksBytes(tracks, n) = c(n, "TOP") * T + c(n, "BOTTOM") * B
    BY DEF TracksBytes, HeldTracks
<1>2. \A n \in Nat : c(n, "TOP") \in Nat /\ c(n, "BOTTOM") \in Nat
    BY HeldCount
<1>3. c(0, "TOP") = 0 /\ c(0, "BOTTOM") = 0
    <2>1. HeldTracks(tracks, 0, "TOP") = {} /\ HeldTracks(tracks, 0, "BOTTOM") = {}
        BY DEF HeldTracks
    <2> QED BY <2>1, FS_EmptySet, Zenon
<1>4. ASSUME NEW n \in 1 .. Len(tracks)
      PROVE  TracksBytes(tracks, n) = TracksBytes(tracks, n - 1) + SegmentBytes(tracks[n].type)
    <2>1. n \in Nat /\ n > 0 /\ n - 1 \in Nat /\ tracks[n] \in Track
        BY <1>0
    <2>2. tracks[n].type \in {"TOP", "BOTTOM"}
        BY <2>1 DEF Track, TrackType
    <2>3. /\ c(n, "TOP") = c(n - 1, "TOP") + (IF tracks[n].type = "TOP" THEN 1 ELSE 0)
          /\ c(n, "BOTTOM") = c(n - 1, "BOTTOM") + (IF tracks[n].type = "BOTTOM" THEN 1 ELSE 0)
        BY <2>1, HeldCount
    <2>4. c(n - 1, "TOP") \in Nat /\ c(n - 1, "BOTTOM") \in Nat
        BY <1>2, <2>1, Zenon
    <2>5. \A x, y \in Nat : (x + 1) * y = x * y + y /\ x * y \in Nat
        OBVIOUS
    <2> HIDE DEF c, T, B
    <2>6. CASE tracks[n].type = "TOP"
        <3>1. TracksBytes(tracks, n) = (c(n - 1, "TOP") + 1) * T + c(n - 1, "BOTTOM") * B
            BY <1>1, <2>3, <2>4, <2>6
        <3>2. (c(n - 1, "TOP") + 1) * T = c(n - 1, "TOP") * T + T
              /\ c(n - 1, "TOP") * T \in Nat /\ c(n - 1, "BOTTOM") * B \in Nat
            BY <1>0, <2>4, <2>5, Zenon
        <3>3. TracksBytes(tracks, n - 1) = c(n - 1, "TOP") * T + c(n - 1, "BOTTOM") * B
            BY <1>1
        <3>4. SegmentBytes(tracks[n].type) = T
            BY <2>6 DEF T
        <3> QED BY <1>0, <3>1, <3>2, <3>3, <3>4
    <2>7. CASE tracks[n].type = "BOTTOM"
        <3>1. TracksBytes(tracks, n) = c(n - 1, "TOP") * T + (c(n - 1, "BOTTOM") + 1) * B
            BY <1>1, <2>3, <2>4, <2>7
        <3>2. (c(n - 1, "BOTTOM") + 1) * B = c(n - 1, "BOTTOM") * B + B
              /\ c(n - 1, "TOP") * T \in Nat /\ c(n - 1, "BOTTOM") * B \in Nat
            BY <1>0, <2>4, <2>5, Zenon
        <3>3. TracksBytes(tracks, n - 1) = c(n - 1, "TOP") * T + c(n - 1, "BOTTOM") * B
            BY <1>1
        <3>4. SegmentBytes(tracks[n].type) = B
            BY <2>7 DEF B
        <3> QED BY <1>0, <3>1, <3>2, <3>3, <3>4
    <2> QED BY <2>2, <2>6, <2>7
<1>5. TracksBytes(tracks, 0) = 0
    <2> HIDE DEF c, T, B
    <2> QED BY <1>0, <1>1, <1>3
<1>6. ASSUME NEW n \in 0 .. Len(tracks) PROVE TracksBytes(tracks, n) \in Nat
    <2>1. c(n, "TOP") \in Nat /\ c(n, "BOTTOM") \in Nat
        BY <1>0, <1>2
    <2> HIDE DEF c, T, B
    <2> QED BY <1>0, <1>1, <2>1
<1> QED BY <1>4, <1>5, <1>6

(* The bytes of the first n tracks do not depend on the others.             *)
LEMMA TracksBytesSame ==
    ASSUME NEW q, NEW r, NEW n, \A k \in 1 .. n : q[k].type = r[k].type
    PROVE  TracksBytes(q, n) = TracksBytes(r, n)
<1>1. \A type : {k \in 1 .. n : q[k].type = type} = {k \in 1 .. n : r[k].type = type}
    OBVIOUS
<1> QED BY <1>1, Zenon DEF TracksBytes

(* What Allocate hands out is exactly enough for what it was asked: every    *)
(* reservation counts, and the last one was needed.                          *)
THEOREM AllocationsExact == AllocSpec => []AllocationExact
<1>1. AllocInit => AllocationExact
    BY DEF AllocInit, AllocationExact, NoCall
<1>2. ASSUME AllocInv, AllocationExact, [AllocNext]_allocVars
      PROVE  AllocationExact'
    <2>0. AllocTypeOK /\ CallOK
        BY <1>2 DEF AllocInv
    <2>1. ASSUME NEW n \in ZoneCounts, Reset(n) PROVE AllocationExact'
        BY <2>1, Zenon DEF Reset, NoCall, AllocationExact
    <2>2. ASSUME NEW id \in Ids \cup {0}, NEW bytes \in 0 .. MaxBytes, NEW level,
                 NEW largest, Allocate(id, bytes, level, largest)
          PROVE  AllocationExact'
        <3>1. call'.op = "allocate" => call'.id = id /\ call'.bytes = bytes /\ call'.remaining = bytes /\ bytes # 0
            BY <2>2 DEF Allocate, Returned, NoCall
        <3>2. segments'[id] = <<>>
            BY <2>0, <2>2 DEF Allocate, AllocTypeOK
        <3>3. bytes \in Nat /\ <<>> \in Seq(Track) /\ Len(<<>>) = 0
            BY MaxBytesAssumption
        <3>4. TracksBytes(<<>>, 0) = 0
            BY <3>3, TracksBytesStep, Zenon
        <3>5. HeldBytes(id)' = 0
            BY <3>2, <3>3, <3>4 DEF HeldBytes
        <3> QED BY <3>1, <3>3, <3>5 DEF AllocationExact, HeldBytes
    <2>3. CASE ReserveNext
        <3> DEFINE q == segments[call.id]
                   seg == [type |-> call.tier, index |-> NextFree(call.tier)]
                   r == Append(q, seg)
                   b == SegmentBytes(call.tier)
        <3>1. /\ call'.op = "allocate" /\ call.op = "allocate" /\ call'.id = call.id /\ call'.bytes = call.bytes
              /\ call.remaining > 0
              /\ call'.remaining = IF call.remaining > b THEN call.remaining - b ELSE 0
            BY <2>0, <2>3 DEF ReserveNext, RemainingAfter, AllocTypeOK, CallType
        <3>2. /\ call.remaining \in Nat /\ call.bytes \in Nat /\ b \in Nat /\ call.id \in Ids \cup {0}
              /\ q \in Seq(Track) /\ segments'[call.id] = r
            BY <2>0, <2>3, SegmentBytesType DEF ReserveNext, AllocTypeOK, CallType
        <3>3. seg \in Track
            <4>1. call.tier \in TrackType /\ NextFree(call.tier) \in Indices
                BY <2>0, <2>3, ReserveNextFree, Zenon DEF AllocTypeOK, CallType, Free
            <4> QED BY <2>0, <4>1, CountType DEF Track, Indices, AllocTypeOK
        <3>4. /\ r \in Seq(Track) /\ Len(r) = Len(q) + 1 /\ r[Len(r)] = seg /\ Len(q) \in Nat
              /\ \A k \in 1 .. Len(q) : r[k] = q[k]
            <4> HIDE DEF q, seg
            <4> QED BY <3>2, <3>3
        <3>5. seg.type = call.tier
            OBVIOUS
        <3> HIDE DEF q, r, seg, b
        <3>6. TracksBytes(r, Len(q)) = TracksBytes(q, Len(q))
            BY <3>4, TracksBytesSame
        <3>7. TracksBytes(r, Len(r)) = TracksBytes(q, Len(q)) + b /\ TracksBytes(q, Len(q)) \in Nat
            <4>1. Len(r) \in 1 .. Len(r) /\ Len(r) - 1 = Len(q) /\ Len(q) \in 0 .. Len(q)
                BY <3>4
            <4>2. TracksBytes(r, Len(r)) = TracksBytes(r, Len(q)) + SegmentBytes(r[Len(r)].type)
                BY <3>4, <4>1, TracksBytesStep, Zenon
            <4>3. TracksBytes(q, Len(q)) \in Nat
                BY <3>2, <4>1, TracksBytesStep
            <4> QED BY <3>4, <3>5, <3>6, <4>2, <4>3, Zenon DEF b
        <3>8. HeldBytes(call.id) = TracksBytes(q, Len(q)) /\ TracksBytes(q, Len(q)) + call.remaining = call.bytes
            BY <1>2, <3>1, Zenon DEF AllocationExact, HeldBytes, q
        <3>9. IF call'.remaining > 0 THEN TracksBytes(r, Len(r)) + call'.remaining = call'.bytes
              ELSE /\ TracksBytes(r, Len(r)) >= call'.bytes
                   /\ TracksBytes(r, Len(r)) - SegmentBytes(r[Len(r)].type) < call'.bytes
            <4>1. SegmentBytes(r[Len(r)].type) = b
                BY <3>4, <3>5 DEF b
            <4> QED BY <3>1, <3>2, <3>7, <3>8, <4>1
        <3>10. segments'[call'.id] = r
            BY <3>1, <3>2
        <3> QED BY <3>9, <3>10 DEF AllocationExact, HeldBytes
    <2>4. CASE NextTier
        <3>1. /\ call'.id = call.id /\ call'.bytes = call.bytes /\ call'.remaining = call.remaining
              /\ call.op = "allocate" /\ segments' = segments
            BY <2>0, <2>4 DEF NextTier, AllocTypeOK, CallType
        <3> QED BY <1>2, <3>1, Zenon DEF AllocationExact, HeldBytes
    <2>5. CASE AllocateReturn \/ (\E id \in Ids \cup {0} : Release(id))
               \/ (\E id \in Ids \cup {0}, s \in RestoreInputs : Restore(id, s))
        BY <2>5 DEF AllocateReturn, Release, Restore, Returned, NoCall, AllocationExact
    <2>6. CASE UNCHANGED allocVars
        BY <1>2, <2>6, Zenon DEF allocVars, AllocationExact, HeldBytes
    <2> QED
        BY <1>2, <2>1, <2>2, <2>3, <2>4, <2>5, <2>6 DEF AllocNext, AllocateStep
<1> QED
    BY <1>1, <1>2, AllocInvariant, PTL DEF AllocSpec
-----------------------------------------------------------------------------
(* Where the bytes of a list of tracks are on the device.                   *)

(* Multiplication keeps the order.                                          *)
LEMMA TimesMono ==
    ASSUME NEW a \in Nat, NEW b \in Nat, NEW c \in Nat, a <= b
    PROVE  a * c <= b * c /\ a * c \in Nat /\ b * c \in Nat
<1>1. PICK d \in Nat : b = a + d
    <2>1. b - a \in Nat /\ b = a + (b - a)
        OBVIOUS
    <2> QED BY <2>1
<1>2. \A x, y, z \in Nat : x * z <= (x + y) * z /\ x * z \in Nat
    OBVIOUS
<1> QED BY <1>1, <1>2

(* A byte is in one sector only.                                            *)
LEMMA SectorUnique ==
    ASSUME NEW a \in Nat, NEW b \in Nat, NEW S \in Nat, NEW r \in 0 .. S - 1, NEW t \in 0 .. S - 1,
           a * S + r = b * S + t
    PROVE  a = b /\ r = t
<1>0. a * S \in Nat /\ b * S \in Nat
    OBVIOUS
<1>1. \A x, y \in Nat : (x + 1) * y = x * y + y
    OBVIOUS
<1>2. ~(a < b)
    <2> SUFFICES ASSUME a < b PROVE FALSE
        OBVIOUS
    <2>1. (a + 1) * S <= b * S
        BY TimesMono
    <2> QED BY <1>0, <1>1, <2>1
<1>3. ~(b < a)
    <2> SUFFICES ASSUME b < a PROVE FALSE
        OBVIOUS
    <2>1. (b + 1) * S <= a * S
        BY TimesMono
    <2> QED BY <1>0, <1>1, <2>1
<1> QED BY <1>0, <1>2, <1>3

(* Rounding down and up to whole sectors stays within whole sectors.        *)
LEMMA RoundsWithin ==
    ASSUME NEW S \in Nat, S > 0, NEW lo \in Nat, NEW hi \in Nat, NEW m \in Nat, NEW n \in Nat,
           m * S <= lo, hi <= n * S
    PROVE  LET down == (lo \div S) * S
               up == ((hi + S - 1) \div S) * S
           IN  down \in Nat /\ up \in Nat /\ m * S <= down /\ down <= lo /\ hi <= up /\ up <= n * S
<1> DEFINE q == lo \div S
           p == (hi + S - 1) \div S
<1>1. q \in Nat /\ lo % S \in 0 .. S - 1 /\ lo = S * q + (lo % S)
    BY DivMod
<1>2. hi + S - 1 \in Nat /\ p \in Nat /\ (hi + S - 1) % S \in 0 .. S - 1
      /\ hi + S - 1 = S * p + ((hi + S - 1) % S)
    BY DivMod
<1>3. \A x, y \in Nat : x * y = y * x /\ (x + 1) * y = x * y + y /\ x * y \in Nat
    OBVIOUS
<1> HIDE DEF q, p
<1>4. q * S \in Nat /\ q * S <= lo /\ lo < q * S + S
    BY <1>1, <1>3
<1>5. p * S \in Nat /\ hi <= p * S /\ p * S <= hi + S - 1
    BY <1>2, <1>3
<1>6. m * S <= q * S
    <2>1. m <= q
        <3> SUFFICES ASSUME q < m PROVE FALSE
            BY <1>1
        <3>1. (q + 1) * S <= m * S /\ m * S \in Nat /\ (q + 1) * S = q * S + S
            BY <1>1, <1>3, TimesMono
        <3> QED BY <1>4, <3>1
    <2> QED BY <1>1, <2>1, TimesMono
<1>7. p * S <= n * S
    <2>1. p <= n
        <3> SUFFICES ASSUME n < p PROVE FALSE
            BY <1>2
        <3>1. (n + 1) * S <= p * S /\ n * S \in Nat /\ (n + 1) * S = n * S + S
            BY <1>2, <1>3, TimesMono
        <3> QED BY <1>5, <3>1
    <2> QED BY <1>2, <2>1, TimesMono
<1> QED BY <1>4, <1>5, <1>6, <1>7 DEF q, p

(* The device byte at offset i of a track.                                  *)
ByteAt(t, i) == SegmentStart(t) * kSectorSize + i

(* A track starts at a sector.                                              *)
LEMMA StartNat ==
    ASSUME NEW t \in Track
    PROVE  SegmentStart(t) \in Nat
<1>1. t.index \in Nat /\ kGroupSectors \in Nat /\ kTopSectors \in Nat
    BY GeometryAssumption DEF Track
<1>2. \A x, y \in Nat : x * y \in Nat
    OBVIOUS
<1> QED BY <1>1, <1>2, SegmentStartIs

(* It is in a sector of the track.                                          *)
LEMMA ByteInTrack ==
    ASSUME NEW t \in Track, NEW i \in 0 .. SegmentBytes(t.type) - 1
    PROVE  /\ ByteAt(t, i) \in Nat
           /\ ByteAt(t, i) \div kSectorSize \in SegmentSectors(t)
<1> DEFINE S == kSectorSize
           n == TypeSectors(t.type)
           a == SegmentStart(t)
           q == i \div S
           r == i % S
           b == ByteAt(t, i)
<1>0. S \in Nat /\ S > 0 /\ n \in Nat /\ n > 0 /\ SegmentBytes(t.type) = n * S
    BY GeometryAssumption DEF SegmentBytes, TypeSectors
<1>1. a \in Nat
    BY StartNat
<1>2. i \in Nat /\ i < n * S
    BY <1>0, SegmentBytesType
<1> HIDE DEF S, n, a
<1>3. q \in Nat /\ r \in 0 .. S - 1 /\ i = S * q + r
    BY <1>0, <1>2, DivMod
<1>4. \A x, y \in Nat : x * y = y * x /\ x * y \in Nat
    OBVIOUS
<1>5. b = a * S + i
    BY DEF ByteAt, a, S
<1> HIDE DEF q, r, b
<1>6. q * S \in Nat /\ i = q * S + r
    BY <1>0, <1>3, <1>4
<1>7. q < n
    <2> SUFFICES ASSUME n <= q PROVE FALSE
        BY <1>0, <1>3
    <2>1. n * S <= q * S /\ n * S \in Nat
        BY <1>0, <1>3, TimesMono
    <2> QED BY <1>2, <1>3, <1>6, <2>1
<1>8. b = (a + q) * S + r /\ b \in Nat
    <2>1. \A x, y, z \in Nat : (x + y) * z = x * z + y * z
        OBVIOUS
    <2>2. (a + q) * S = a * S + q * S /\ a * S \in Nat
        BY <1>0, <1>1, <1>3, <1>4, <2>1
    <2> QED BY <1>3, <1>5, <1>6, <2>2
<1>9. b \div S = a + q
    <2>1. b \div S \in Nat /\ b % S \in 0 .. S - 1 /\ b = S * (b \div S) + (b % S)
        BY <1>0, <1>8, DivMod
    <2>2. b = (b \div S) * S + (b % S)
        BY <1>0, <1>4, <2>1
    <2>3. a + q \in Nat
        BY <1>1, <1>3
    <2> DEFINE c == b \div S
               u == b % S
    <2>4. c \in Nat /\ u \in 0 .. S - 1 /\ c * S + u = (a + q) * S + r
        BY <1>8, <2>1, <2>2
    <2> HIDE DEF c, u
    <2>5. c = a + q
        BY <1>0, <1>3, <2>3, <2>4, SectorUnique
    <2> QED BY <2>5 DEF c
<1>10. a + q \in a .. a + n - 1
    BY <1>0, <1>1, <1>3, <1>7
<1> QED BY <1>8, <1>9, <1>10 DEF SegmentSectors, a, b, n, S

(* Different tracks, and different offsets, are different bytes.            *)
LEMMA BytesApart ==
    ASSUME NEW s \in Track, NEW t \in Track, NEW i \in 0 .. SegmentBytes(s.type) - 1,
           NEW j \in 0 .. SegmentBytes(t.type) - 1, ByteAt(s, i) = ByteAt(t, j)
    PROVE  s = t /\ i = j
<1>1. ByteAt(s, i) \div kSectorSize \in SegmentSectors(s) \cap SegmentSectors(t)
    BY ByteInTrack
<1>2. s = t
    BY <1>1, TracksApart
<1>3. i \in Int /\ j \in Int
    BY SegmentBytesType
<1>4. SegmentStart(s) * kSectorSize \in Int
    <2>1. \A x, y \in Nat : x * y \in Int
        OBVIOUS
    <2> QED BY <2>1, StartNat, GeometryAssumption
<1> QED BY <1>2, <1>3, <1>4 DEF ByteAt

(* Longer prefixes of a list hold more bytes.                               *)
LEMMA TracksBytesMono ==
    ASSUME NEW q \in Seq(Track), NEW j \in 0 .. Len(q), NEW k \in 0 .. Len(q), j <= k
    PROVE  TracksBytes(q, j) <= TracksBytes(q, k)
<1> DEFINE c(n, type) == Cardinality(HeldTracks(q, n, type))
           T == SegmentBytes("TOP")
           B == SegmentBytes("BOTTOM")
<1>1. j \in Nat /\ k \in Nat /\ T \in Nat /\ B \in Nat
    BY SegmentBytesType
<1>2. ASSUME NEW type PROVE c(j, type) <= c(k, type) /\ c(j, type) \in Nat /\ c(k, type) \in Nat
    <2>1. HeldTracks(q, j, type) \subseteq HeldTracks(q, k, type)
        BY <1>1 DEF HeldTracks
    <2>2. IsFiniteSet(HeldTracks(q, k, type)) /\ c(j, type) \in Nat /\ c(k, type) \in Nat
        BY <1>1, HeldCount
    <2> QED BY <2>1, <2>2, FS_Subset
<1>3. \A n : TracksBytes(q, n) = c(n, "TOP") * T + c(n, "BOTTOM") * B
    BY Zenon DEF TracksBytes, HeldTracks
<1> HIDE DEF c, T, B
<1>4. /\ c(j, "TOP") * T <= c(k, "TOP") * T /\ c(j, "TOP") * T \in Nat /\ c(k, "TOP") * T \in Nat
      /\ c(j, "BOTTOM") * B <= c(k, "BOTTOM") * B /\ c(j, "BOTTOM") * B \in Nat /\ c(k, "BOTTOM") * B \in Nat
    BY <1>1, <1>2, TimesMono, Zenon
<1> QED BY <1>3, <1>4

(* They hold whole sectors.                                                 *)
LEMMA TracksBytesSectors ==
    ASSUME NEW q \in Seq(Track), NEW n \in 0 .. Len(q)
    PROVE  \E m \in Nat : TracksBytes(q, n) = m * kSectorSize
<1> DEFINE a == Cardinality(HeldTracks(q, n, "TOP"))
           b == Cardinality(HeldTracks(q, n, "BOTTOM"))
           S == kSectorSize
           t == TypeSectors("TOP")
           u == TypeSectors("BOTTOM")
<1>1. a \in Nat /\ b \in Nat
    BY HeldCount
<1>2. S \in Nat /\ t \in Nat /\ u \in Nat
    BY GeometryAssumption DEF TypeSectors
<1>3. TracksBytes(q, n) = a * (t * S) + b * (u * S)
    BY DEF TracksBytes, HeldTracks, SegmentBytes
<1> HIDE DEF a, b, S, t, u
<1>4. \A x, y, z \in Nat : x * (y * z) = (x * y) * z /\ x * y \in Nat
    OBVIOUS
<1>5. \A x, y, z \in Nat : x * z + y * z = (x + y) * z
    OBVIOUS
<1>6. a * (t * S) = (a * t) * S /\ b * (u * S) = (b * u) * S /\ a * t \in Nat /\ b * u \in Nat
    BY <1>1, <1>2, <1>4
<1> DEFINE x == a * t
           y == b * u
<1>7. TracksBytes(q, n) = x * S + y * S /\ x \in Nat /\ y \in Nat
    BY <1>3, <1>6
<1> HIDE DEF x, y
<1>8. TracksBytes(q, n) = (x + y) * S /\ x + y \in Nat
    BY <1>2, <1>5, <1>7
<1> QED BY <1>8 DEF S

\* The byte of a file at offset i of its k-th track.
At(tracks, k, i) == TracksBytes(tracks, k - 1) + i

Bytes(tracks, k) == 0 .. SegmentBytes(tracks[k].type) - 1

(* Track k of a list has the bytes from its start to its end.               *)
LEMMA AtRange ==
    ASSUME NEW q \in Seq(Track), NEW k \in 1 .. Len(q), NEW i \in Bytes(q, k)
    PROVE  /\ q[k] \in Track /\ i \in 0 .. SegmentBytes(q[k].type) - 1 /\ i \in Nat
           /\ At(q, k, i) \in Nat
           /\ TracksBytes(q, k - 1) <= At(q, k, i) /\ At(q, k, i) < TracksBytes(q, k)
           /\ TracksBytes(q, k) <= TracksBytes(q, Len(q))
           /\ TracksBytes(q, k - 1) \in Nat /\ TracksBytes(q, k) \in Nat
<1>1. Len(q) \in Nat /\ q[k] \in Track /\ k - 1 \in 0 .. Len(q) /\ k \in 0 .. Len(q) /\ Len(q) \in 0 .. Len(q) /\ k <= Len(q)
    OBVIOUS
<1>2. i \in 0 .. SegmentBytes(q[k].type) - 1 /\ SegmentBytes(q[k].type) \in Nat /\ i \in Nat
    BY SegmentBytesType DEF Bytes
<1>3. /\ TracksBytes(q, k - 1) \in Nat /\ TracksBytes(q, k) \in Nat
      /\ TracksBytes(q, k) = TracksBytes(q, k - 1) + SegmentBytes(q[k].type)
    BY <1>1, TracksBytesStep
<1>4. TracksBytes(q, k) <= TracksBytes(q, Len(q))
    BY <1>1, TracksBytesMono
<1> QED BY <1>1, <1>2, <1>3, <1>4 DEF At

(* A byte of a file is in one track of it only.                             *)
LEMMA TrackOfByte ==
    ASSUME NEW q \in Seq(Track), NEW j \in 1 .. Len(q), NEW k \in 1 .. Len(q), NEW x \in Nat,
           TracksBytes(q, j - 1) <= x, x < TracksBytes(q, j),
           TracksBytes(q, k - 1) <= x, x < TracksBytes(q, k)
    PROVE  j = k
<1>1. /\ Len(q) \in Nat /\ j - 1 \in 0 .. Len(q) /\ k - 1 \in 0 .. Len(q)
      /\ j \in 0 .. Len(q) /\ k \in 0 .. Len(q)
    OBVIOUS
<1>2. /\ TracksBytes(q, j) \in Nat /\ TracksBytes(q, j - 1) \in Nat
      /\ TracksBytes(q, k) \in Nat /\ TracksBytes(q, k - 1) \in Nat
    BY <1>1, TracksBytesStep, Zenon
<1>3. ~(j <= k - 1)
    BY <1>1, <1>2, TracksBytesMono
<1>4. ~(k <= j - 1)
    BY <1>1, <1>2, TracksBytesMono
<1> QED BY <1>3, <1>4
=============================================================================
