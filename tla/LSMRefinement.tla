--------------------------- MODULE LSMRefinement ---------------------------
(***************************************************************************)
(* Proof that LSM implements BlockMap, for every number of keys and        *)
(* levels: whatever is compacted, collected or dropped, a lookup returns   *)
(* the last write of its key.  RInv of LSMProofs says for every key that   *)
(* its newest record is what the forward map holds, and that a lookup      *)
(* searches a list or segment with that record unless all its records are  *)
(* tombstones; what a collection or a level compaction still plans to link *)
(* is described by GcPlanInv and LevelPlanInv.                             *)
(***************************************************************************)
EXTENDS LSMSteps

-----------------------------------------------------------------------------
(* Publication of a level compaction.                                      *)

(* The metadata a level compaction publishes, field by field.              *)
LEMMA PublishedIs ==
    ASSUME IInv, RInv, plan.kind = "level", plan.table # NoTable, meta' = Published(plan)
    PROVE  PublishedData(meta')
<1> DEFINE sorted == meta'.sorted
<1>1. /\ IsMeta(meta') /\ meta'.clock = meta.clock /\ meta'.index = meta.index
      /\ meta'.exact = meta.exact /\ meta'.had = meta.had \cup {plan.dst}
      /\ SameSegs((meta.segs \ OldSegs) \cup {NewSegment(plan.dst, plan.table)}, meta'.segs)
    BY PublishedMeta
<1>2. \A k \in Keys : UnsortedRecords(meta', k) = UnsortedRecords(meta, k) \ Window(plan, meta, k)
    BY PublishedMeta, WithoutRecords
<1>3. /\ DOMAIN sorted = 1 .. MaxLevel
      /\ DOMAIN sorted[plan.dst] = DOMAIN meta.sorted[plan.dst] \cup DOMAIN plan.table
      /\ \A k \in DOMAIN sorted[plan.dst] :
           \/ k \in DOMAIN meta.sorted[plan.dst] /\ sorted[plan.dst][k] = meta.sorted[plan.dst][k]
           \/ k \in DOMAIN plan.table /\ sorted[plan.dst][k] = plan.table[k]
      /\ \A k \in DOMAIN meta.sorted[plan.dst] :
           sorted[plan.dst][k].ts >= meta.sorted[plan.dst][k].ts
      /\ \A k \in DOMAIN plan.table : sorted[plan.dst][k].ts >= plan.table[k].ts
      /\ plan.retire /\ plan.src > 0 => DOMAIN sorted[plan.src] = {}
      /\ \A l \in 1 .. MaxLevel :
           l = plan.dst \/ (l = plan.src /\ plan.retire) \/ sorted[l] = meta.sorted[l]
      /\ \A k \in DOMAIN plan.table : plan.table[k] \in Records(meta, k) /\ plan.table[k] \in Rec
    BY PublishedMeta, PublishedSorted, Zenon
<1> QED BY <1>1, <1>2, <1>3, Zenon DEF PublishedData

(* After publication no record is new, and the newest of a key is kept:    *)
(* where the inputs are retired it is in the table built from them.        *)
LEMMA PublishedKey ==
    ASSUME RInv, plan.kind = "level", plan.table # NoTable, NEW n, PublishedData(n), NEW k \in Keys
    PROVE  KeyInv(n, fmap, k)
<1> DEFINE T == plan.table
           d == plan.dst
           new == NewSegment(d, T)
           R == Records(meta, k)
           m3 == [segs |-> (meta.segs \ OldSegs) \cup {new}]
<1>1. /\ n.clock = meta.clock /\ n.index = meta.index /\ n.exact = meta.exact
      /\ UnsortedRecords(n, k) = UnsortedRecords(meta, k) \ Window(plan, meta, k)
      /\ SameSegs(m3.segs, n.segs)
    BY Zenon DEF PublishedData
<1>2. /\ DOMAIN n.sorted[d] = DOMAIN meta.sorted[d] \cup DOMAIN T
      /\ k \in DOMAIN n.sorted[d] => \/ k \in DOMAIN meta.sorted[d] /\ n.sorted[d][k] = meta.sorted[d][k]
                                     \/ k \in DOMAIN T /\ n.sorted[d][k] = T[k]
      /\ k \in DOMAIN meta.sorted[d] => n.sorted[d][k].ts >= meta.sorted[d][k].ts
    BY Zenon DEF PublishedData
<1>3. /\ plan.retire /\ plan.src > 0 => DOMAIN n.sorted[plan.src] = {}
      /\ \A l \in 1 .. MaxLevel : l = d \/ (l = plan.src /\ plan.retire) \/ n.sorted[l] = meta.sorted[l]
    BY Zenon DEF PublishedData
<1>4. \A j \in DOMAIN T : T[j] \in Records(meta, j) /\ T[j] \in Rec
    BY Zenon DEF PublishedData
<1>5. /\ plan.src \in 0 .. MaxLevel /\ d \in 1 .. MaxLevel
      /\ plan.retire \in BOOLEAN /\ (plan.retire => plan.src < d) /\ DOMAIN T \subseteq Keys
    BY DEF RInv, LevelPlanInv
<1>6. KeyInv(meta, fmap, k) /\ Covered(meta.segs, meta.sorted) /\ SegShape(meta.segs)
    BY DEF RInv, MetaShape
<1>7. DOMAIN new.table = DOMAIN T /\ \A j \in DOMAIN T : Bare(new.table[j]) = T[j]
    <2>1. \A j \in DOMAIN T : T[j].ts \in Nat /\ T[j].val \in Nat /\ Bare(T[j]) = T[j]
        BY <1>4, BareRec, Zenon DEF Rec
    <2> HIDE DEF T, d
    <2> QED BY <1>5, <2>1, NewSegmentData
<1> HIDE DEF new
<1>8. \A x : x \in SegmentRecords(n, k) <=>
        \/ \E s \in meta.segs \ OldSegs : k \in DOMAIN s.table /\ x = Bare(s.table[k])
        \/ k \in DOMAIN T /\ x = T[k]
    <2>1. SegmentRecords(n, k) = SegmentRecords(m3, k)
        BY <1>1, SameSegsSameRecords, Zenon
    <2>2. m3.segs = (meta.segs \ OldSegs) \cup {new}
        BY Zenon
    <2> HIDE DEF m3, T
    <2>3. \A x : x \in SegmentRecords(m3, k) <=>
                \E s \in (meta.segs \ OldSegs) \cup {new} : k \in DOMAIN s.table /\ x = Bare(s.table[k])
        BY <2>2, Zenon DEF SegmentRecords
    <2> QED BY <1>7, <2>1, <2>3
<1> HIDE DEF m3
<1>9. \A x : x \in SegmentRecords(meta, k) <=> \E s \in meta.segs : k \in DOMAIN s.table /\ x = Bare(s.table[k])
    BY Zenon DEF SegmentRecords
<1>10. \A x : x \in SortedRecords(meta, k, 1 .. MaxLevel) <=>
            \E l \in 1 .. MaxLevel : k \in DOMAIN meta.sorted[l] /\ x = meta.sorted[l][k]
    BY Zenon DEF SortedRecords
<1>11. \A x : x \in SortedRecords(n, k, 1 .. MaxLevel) <=>
            \E l \in 1 .. MaxLevel : k \in DOMAIN n.sorted[l] /\ x = n.sorted[l][k]
    BY Zenon DEF SortedRecords
<1> HIDE DEF T, d
<1>12. Records(n, k) \subseteq R
    <2>1. SegmentRecords(n, k) \subseteq R
        <3> SUFFICES ASSUME NEW x \in SegmentRecords(n, k) PROVE x \in R
            BY Zenon
        <3>1. CASE k \in DOMAIN T /\ x = T[k]
            BY <1>4, <3>1, Zenon
        <3>2. CASE \E s \in meta.segs \ OldSegs : k \in DOMAIN s.table /\ x = Bare(s.table[k])
            <4>1. x \in SegmentRecords(meta, k)
                BY <1>9, <3>2, Zenon
            <4> QED BY <4>1, Zenon DEF Records
        <3> QED BY <1>8, <3>1, <3>2, Zenon
    <2>2. SortedRecords(n, k, 1 .. MaxLevel) \subseteq R
        <3> SUFFICES ASSUME NEW x \in SortedRecords(n, k, 1 .. MaxLevel) PROVE x \in R
            BY Zenon
        <3>0. PICK l \in 1 .. MaxLevel : k \in DOMAIN n.sorted[l] /\ x = n.sorted[l][k]
            BY <1>11, Zenon
        <3>1. CASE l = d
            <4>1. \A y : y \in SortedRecords(meta, k, 1 .. MaxLevel) => y \in R
                BY DEF Records
            <4> QED BY <1>2, <1>4, <1>5, <1>10, <3>0, <3>1, <4>1, Zenon
        <3>2. CASE l # d
            <4>1. n.sorted[l] = meta.sorted[l]
                <5>1. ~(l = plan.src /\ plan.retire)
                    BY <1>3, <3>0
                <5> QED BY <1>3, <3>2, <5>1, Zenon
            <4>2. x \in SortedRecords(meta, k, 1 .. MaxLevel)
                BY <1>10, <3>0, <4>1, Zenon
            <4> QED BY <4>2, Zenon DEF Records
        <3> QED BY <3>1, <3>2, Zenon
    <2> QED BY <1>1, <2>1, <2>2 DEF Records
<1>13. ASSUME NEW r, IsNewest(r, R)
       PROVE  r \in Records(n, k) /\ (r \in Searched(meta, k) => r \in Searched(n, k))
    <2>1. \A x \in R : x.ts >= r.ts => x = r
        BY <1>6, <1>13, NewestUnique, Zenon
    <2>2. r \in Inputs(plan, meta, k) => r \in SegmentRecords(n, k)
        BY <1>8, <1>13, NewestBuilt, Zenon DEF T
    <2>3. r \in UnsortedRecords(meta, k) => r \in Searched(n, k)
        BY <1>1, <2>2, Zenon DEF Searched, Inputs
    <2>4. \A l \in 1 .. MaxLevel :
            plan.retire /\ l = plan.src /\ k \in DOMAIN meta.sorted[l] /\ r = meta.sorted[l][k]
                => r \in SegmentRecords(n, k)
        BY <2>2, Zenon DEF Inputs
    <2>5. r \in SegmentRecords(meta, k) => r \in Searched(n, k)
        <3> SUFFICES ASSUME NEW s \in meta.segs, k \in DOMAIN s.table, r = Bare(s.table[k])
                     PROVE  r \in SegmentRecords(n, k)
            BY <1>9, Zenon DEF Searched
        <3>1. CASE s \notin OldSegs
            BY <1>8, <3>1, Zenon
        <3>2. CASE s \in OldSegs
            <4>1. plan.retire /\ s.level = plan.src
                BY <3>2, Zenon DEF OldSegs
            <4>2. s.level \in 1 .. MaxLevel /\ s.level < MaxLevel
                <5>1. s.level \in 1 .. MaxLevel
                    BY <1>6, Zenon DEF SegShape, IsSegment
                <5>2. plan.src < d
                    BY <1>5, <4>1, Zenon
                <5>3. MaxLevel \in Nat
                    BY LSMAssumption DEF MaxLevel
                <5> QED BY <1>5, <4>1, <5>1, <5>2, <5>3
            <4>3. k \in DOMAIN meta.sorted[s.level] /\ meta.sorted[s.level][k].ts >= s.table[k].ts
                BY <1>6, <4>2, Zenon DEF Covered
            <4>4. r.ts = s.table[k].ts
                BY Zenon DEF Bare
            <4>5. meta.sorted[s.level][k] \in R
                BY <1>10, <4>2, <4>3, Zenon DEF Records
            <4>6. meta.sorted[s.level][k] = r
                BY <2>1, <4>3, <4>4, <4>5, Zenon
            <4> QED BY <2>4, <4>1, <4>2, <4>3, <4>6, Zenon
        <3> QED BY <3>1, <3>2, Zenon
    <2>6. r \in SortedRecords(meta, k, 1 .. MaxLevel) => r \in Records(n, k)
        <3> SUFFICES ASSUME NEW l \in 1 .. MaxLevel, k \in DOMAIN meta.sorted[l], r = meta.sorted[l][k]
                     PROVE  r \in Records(n, k)
            BY <1>10, Zenon
        <3>1. CASE l = d
            <4>1. k \in DOMAIN n.sorted[d] /\ n.sorted[d][k].ts >= r.ts
                BY <1>2, <3>1, Zenon
            <4>2. n.sorted[d][k] \in SortedRecords(n, k, 1 .. MaxLevel)
                BY <1>5, <1>11, <4>1, Zenon
            <4>3. n.sorted[d][k] \in Records(n, k)
                BY <4>2, Zenon DEF Records
            <4>4. n.sorted[d][k] = r
                BY <1>12, <2>1, <4>1, <4>3, Zenon
            <4> QED BY <4>3, <4>4, Zenon
        <3>2. CASE l = plan.src /\ plan.retire
            BY <2>4, <3>2, Zenon DEF Records
        <3>3. CASE n.sorted[l] = meta.sorted[l]
            <4>1. r \in SortedRecords(n, k, 1 .. MaxLevel)
                BY <1>11, <3>3, Zenon
            <4> QED BY <4>1, Zenon DEF Records
        <3> QED BY <1>3, <3>1, <3>2, <3>3, Zenon
    <2>7. Searched(n, k) \subseteq Records(n, k)
        BY DEF Searched, Records
    <2>8. r \in R
        BY <1>13 DEF IsNewest
    <2> QED BY <2>3, <2>5, <2>6, <2>7, <2>8, Zenon DEF Records, Searched
<1> QED BY <1>1, <1>6, <1>12, <1>13, KeyKept

(* Every record a segment holds stays covered by the list of its level.    *)
LEMMA PublishedCovers ==
    ASSUME RInv, plan.kind = "level", plan.table # NoTable, NEW n, PublishedData(n)
    PROVE  Covered(n.segs, n.sorted)
<1> DEFINE T == plan.table
           d == plan.dst
           new == NewSegment(d, T)
           S == (meta.segs \ OldSegs) \cup {new}
<1>1. /\ plan.src \in 0 .. MaxLevel /\ d \in 1 .. MaxLevel
      /\ plan.retire \in BOOLEAN /\ DOMAIN T \subseteq Keys
    BY DEF RInv, LevelPlanInv
<1>2. /\ DOMAIN n.sorted[d] = DOMAIN meta.sorted[d] \cup DOMAIN T
      /\ \A k \in DOMAIN meta.sorted[d] : n.sorted[d][k].ts >= meta.sorted[d][k].ts
      /\ \A k \in DOMAIN T : n.sorted[d][k].ts >= T[k].ts /\ T[k] \in Rec
      /\ \A l \in 1 .. MaxLevel : l = d \/ (l = plan.src /\ plan.retire) \/ n.sorted[l] = meta.sorted[l]
      /\ \A k \in DOMAIN n.sorted[d] : \/ k \in DOMAIN meta.sorted[d] /\ n.sorted[d][k] = meta.sorted[d][k]
                                       \/ k \in DOMAIN T /\ n.sorted[d][k] = T[k]
      /\ SameSegs(S, n.segs)
    BY Zenon DEF PublishedData
<1>3. /\ SortedShape(meta) /\ Covered(meta.segs, meta.sorted) /\ SegShape(meta.segs)
    BY Zenon DEF RInv, MetaShape
<1>4. \A k \in DOMAIN T : T[k].ts \in Nat /\ T[k].val \in Nat
    BY <1>2, Zenon DEF Rec
<1> HIDE DEF T, d
<1>5. /\ IsSegment(new) /\ new.level = d /\ DOMAIN new.table = DOMAIN T
      /\ \A k \in DOMAIN T : new.table[k].ts = T[k].ts
    BY <1>1, <1>4, NewSegmentData
<1> HIDE DEF new
<1>6. ASSUME NEW s \in meta.segs \ OldSegs, NEW k \in DOMAIN s.table,
             s.level < MaxLevel \/ s.table[k].val = Tombstone
      PROVE  k \in DOMAIN n.sorted[s.level] /\ n.sorted[s.level][k].ts >= s.table[k].ts
    <2>1. k \in DOMAIN meta.sorted[s.level] /\ meta.sorted[s.level][k].ts >= s.table[k].ts
        BY <1>3, <1>6, Zenon DEF Covered
    <2>2. s.level \in 1 .. MaxLevel /\ s.table[k].ts \in Nat
        BY <1>3 DEF SegShape, IsSegment, Entry
    <2>3. ~(s.level = plan.src /\ plan.retire)
        BY Zenon DEF OldSegs
    <2>4. CASE s.level = d
        <3>1. k \in DOMAIN n.sorted[d] /\ n.sorted[d][k].ts >= meta.sorted[d][k].ts
              /\ meta.sorted[d][k].ts >= s.table[k].ts
            BY <1>2, <2>1, <2>4, Zenon
        <3>2. meta.sorted[d][k].ts \in Nat /\ n.sorted[d][k].ts \in Nat
            <4>1. meta.sorted[d][k].ts \in Nat
                BY <1>1, <1>3, <2>1, <2>4 DEF SortedShape, Rec
            <4> QED BY <1>2, <1>4, <3>1, <4>1, Zenon
        <3> QED BY <2>2, <2>4, <3>1, <3>2
    <2>5. CASE n.sorted[s.level] = meta.sorted[s.level]
        BY <2>1, <2>5, Zenon
    <2> QED BY <1>2, <2>2, <2>3, <2>4, <2>5, Zenon
<1>7. \A k \in DOMAIN new.table : k \in DOMAIN n.sorted[d] /\ n.sorted[d][k].ts >= new.table[k].ts
    BY <1>2, <1>5, Zenon
<1>8. Covered(S, n.sorted)
    BY <1>5, <1>6, <1>7, Zenon DEF Covered
<1>9. SegShape(S)
    BY <1>3, <1>5, Zenon DEF SegShape
<1> QED BY <1>2, <1>8, <1>9, CoveredKept, Zenon

(* Publishing a level compaction keeps the invariant.                      *)
LEMMA PublishKeeps ==
    ASSUME IInv, RInv, Publish
    PROVE  RInv'
<1>1. plan.kind = "level" /\ plan.table # NoTable /\ fmap' = fmap /\ plan' = NoPlan
    BY DEF Publish, Return
<1>2. CASE ~PlanValid(plan)
    <2>1. meta' = meta
        BY <1>2, Zenon DEF Publish
    <2> QED BY <1>1, <2>1, FrameKeeps
<1>3. CASE PlanValid(plan)
    <2>1. meta' = Published(plan)
        BY <1>3, Zenon DEF Publish
    <2>2. PublishedData(meta')
        BY <1>1, <2>1, PublishedIs
    <2>3. /\ IsMeta(meta') /\ meta'.clock = meta.clock /\ meta'.index = meta.index
          /\ meta'.exact = meta.exact /\ meta'.had = meta.had \cup {plan.dst}
          /\ DOMAIN meta'.sorted = 1 .. MaxLevel
          /\ SameSegs((meta.segs \ OldSegs) \cup {NewSegment(plan.dst, plan.table)}, meta'.segs)
        BY <2>2, Zenon DEF PublishedData
    <2>4. /\ meta.clock \in Nat /\ meta.index \in [Keys -> Nat] /\ meta.exact \in BOOLEAN
          /\ SortedShape(meta) /\ fmap \in [Keys -> Nat]
        BY Zenon DEF RInv, MetaShape
    <2>5. plan.dst \in 1 .. MaxLevel /\ plan.src \in 0 .. MaxLevel /\ DOMAIN plan.table \subseteq Keys
        BY <1>1, Zenon DEF RInv, LevelPlanInv
    <2>6. SortedShape(meta')
        <3> SUFFICES ASSUME NEW l \in 1 .. MaxLevel
                     PROVE  /\ DOMAIN meta'.sorted[l] \subseteq Keys
                            /\ \A k \in DOMAIN meta'.sorted[l] : meta'.sorted[l][k] \in Rec
                            /\ DOMAIN meta'.sorted[l] # {} => l \in meta'.had
            BY <2>3, Zenon DEF SortedShape
        <3>1. /\ DOMAIN meta.sorted[l] \subseteq Keys
              /\ \A k \in DOMAIN meta.sorted[l] : meta.sorted[l][k] \in Rec
              /\ DOMAIN meta.sorted[l] # {} => l \in meta.had
            BY <2>4, Zenon DEF SortedShape
        <3>2. CASE l = plan.dst
            <4>1. /\ DOMAIN meta'.sorted[l] = DOMAIN meta.sorted[l] \cup DOMAIN plan.table
                  /\ \A k \in DOMAIN meta'.sorted[l] :
                        \/ k \in DOMAIN meta.sorted[l] /\ meta'.sorted[l][k] = meta.sorted[l][k]
                        \/ k \in DOMAIN plan.table /\ meta'.sorted[l][k] = plan.table[k]
                  /\ \A k \in DOMAIN plan.table : plan.table[k] \in Rec
                BY <2>2, <3>2, Zenon DEF PublishedData
            <4> QED BY <2>3, <2>5, <3>1, <3>2, <4>1, Zenon
        <3>3. CASE l = plan.src /\ plan.retire
            <4>1. plan.src > 0
                BY <3>3
            <4>2. DOMAIN meta'.sorted[l] = {}
                BY <2>2, <3>3, <4>1, Zenon DEF PublishedData
            <4> QED BY <4>2, Zenon
        <3>4. CASE meta'.sorted[l] = meta.sorted[l]
            BY <2>3, <3>1, <3>4, Zenon
        <3> QED BY <2>2, <3>2, <3>3, <3>4, Zenon DEF PublishedData
    <2>7. SegShape(meta'.segs)
        BY <2>3, SameSegsFacts, Zenon
    <2>8. MetaShape(meta')
        BY <2>3, <2>4, <2>6, <2>7, Zenon DEF MetaShape
    <2>9. Covered(meta'.segs, meta'.sorted)
        BY <1>1, <2>2, PublishedCovers
    <2>10. \A k \in Keys : KeyInv(meta', fmap, k)
        BY <1>1, <2>2, PublishedKey, Zenon
    <2>11. plan'.kind = "none"
        BY <1>1, Zenon DEF NoPlan
    <2>12. GcPlanInv' /\ LevelPlanInv'
        BY <2>11, Zenon DEF GcPlanInv, LevelPlanInv
    <2> QED BY <1>1, <2>4, <2>8, <2>9, <2>10, <2>12, Zenon DEF RInv
<1> QED BY <1>2, <1>3
-----------------------------------------------------------------------------
(* Compaction of a segment.                                                *)

\* The entries of s, and the segment they make, that compact_segment keeps.
Kept(m, s) == {k \in DOMAIN s.table : ~Unneeded(m, fmap, k, s.table[k])}
Rewritten(m, s) == NewSegment(s.level, [k \in Kept(m, s) |-> s.table[k]])

\* n is m with the rewritten segment linked, if there is anything left of it.
RewriteLinked(m, s, n) ==
    /\ SameLists(m, n) /\ m.had \subseteq n.had /\ n.index = m.index /\ n.exact = m.exact
    /\ SameSegs(m.segs \cup (IF Kept(m, s) = {} THEN {} ELSE {Rewritten(m, s)}), n.segs)

\* Recounting changes flags only.
Recounted(m) ==
    /\ SameLists(meta, m) /\ SameSegs(meta.segs, m.segs)
    /\ m.had = meta.had /\ m.index = meta.index /\ m.exact = meta.exact

(* A recount changes flags only, so it keeps what the invariant says.      *)
LEMMA RecountedShape ==
    ASSUME RInv, NEW m, Recounted(m)
    PROVE  /\ MetaShape(m) /\ Covered(m.segs, m.sorted) /\ \A k \in Keys : KeyInv(m, fmap, k)
           /\ \A k : Records(m, k) = Records(meta, k)
           /\ m.clock = meta.clock
<1>1. /\ SameLists(meta, m) /\ SameSegs(meta.segs, m.segs)
      /\ m.had = meta.had /\ m.index = meta.index /\ m.exact = meta.exact
    BY Zenon DEF Recounted
<1>2. IsMeta(m) /\ m.clock = meta.clock /\ m.sorted = meta.sorted
    BY <1>1, Zenon DEF SameLists
<1>3. /\ meta.clock \in Nat /\ meta.index \in [Keys -> Nat] /\ meta.exact \in BOOLEAN
      /\ SegShape(meta.segs) /\ SortedShape(meta) /\ Covered(meta.segs, meta.sorted)
      /\ \A k \in Keys : KeyInv(meta, fmap, k)
    BY Zenon DEF RInv, MetaShape
<1>4. SortedShape(m)
    BY <1>1, <1>2, <1>3, Zenon DEF SortedShape
<1>5. SegShape(m.segs)
    BY <1>1, SameSegsFacts, Zenon
<1>6. MetaShape(m)
    BY <1>1, <1>2, <1>3, <1>4, <1>5, Zenon DEF MetaShape
<1>7. Covered(m.segs, m.sorted)
    BY <1>1, <1>2, <1>3, CoveredKept, Zenon
<1>8. \A k : Records(m, k) = Records(meta, k) /\ Searched(m, k) = Searched(meta, k)
    BY <1>1, SameRecords
<1>9. ASSUME NEW k \in Keys PROVE KeyInv(m, fmap, k)
    <2>1. /\ Records(m, k) = Records(meta, k) /\ Searched(m, k) = Searched(meta, k)
          /\ m.clock = meta.clock /\ m.exact = meta.exact /\ m.index[k] = meta.index[k]
          /\ KeyInv(meta, fmap, k)
        BY <1>1, <1>2, <1>3, <1>8, Zenon
    <2> QED BY <2>1, ZenonT(30) DEF KeyInv
<1> QED BY <1>2, <1>6, <1>7, <1>8, <1>9, Zenon

(* What a table holds is a record of its key.                              *)
LEMMA EntryIsRecord ==
    ASSUME NEW m, SegShape(m.segs), NEW s \in m.segs, NEW k \in DOMAIN s.table
    PROVE  /\ k \in Keys /\ s.level \in 1 .. MaxLevel
           /\ s.table[k].ts \in Nat /\ s.table[k].val \in Nat
           /\ Bare(s.table[k]) \in SegmentRecords(m, k) /\ Bare(s.table[k]) \in Records(m, k)
           /\ Bare(s.table[k]).ts = s.table[k].ts /\ Bare(s.table[k]).val = s.table[k].val
<1>1. k \in Keys /\ s.level \in 1 .. MaxLevel /\ s.table[k] \in Entry
    BY Zenon DEF SegShape, IsSegment
<1>2. s.table[k].ts \in Nat /\ s.table[k].val \in Nat
    BY <1>1, Zenon DEF Entry
<1>3. Bare(s.table[k]).ts = s.table[k].ts /\ Bare(s.table[k]).val = s.table[k].val
    BY Zenon DEF Bare
<1>4. Bare(s.table[k]) \in SegmentRecords(m, k)
    BY Zenon DEF SegmentRecords
<1>5. Bare(s.table[k]) \in Records(m, k)
    BY <1>4, Zenon DEF Records
<1> QED BY <1>1, <1>2, <1>3, <1>4, <1>5, Zenon

(* The rewrite of a segment links a copy of the entries still needed, if   *)
(* there are any.                                                          *)
LEMMA RewriteIs ==
    ASSUME RInv, NEW m, Recounted(m), NEW s \in m.segs, NEW n,
           n = IF Kept(m, s) = {} THEN m
               ELSE Account(Linked(m, Rewritten(m, s)), fmap, Rewritten(m, s))
    PROVE  RewriteLinked(m, s, n)
<1>1. /\ MetaShape(m) /\ \A k \in Keys : KeyInv(m, fmap, k)
    BY RecountedShape, Zenon
<1>2. IsMeta(m) /\ m.index \in [Keys -> Nat] /\ m.exact \in BOOLEAN /\ SegShape(m.segs)
    BY <1>1, Zenon DEF MetaShape
<1>3. CASE Kept(m, s) = {}
    <2>1. n = m /\ SameSegs(m.segs, m.segs)
        BY <1>2, <1>3, SameSegsFacts, Zenon
    <2>2. m.segs \cup (IF Kept(m, s) = {} THEN {} ELSE {Rewritten(m, s)}) = m.segs
        BY <1>3, Zenon
    <2>3. SameLists(m, m)
        BY <1>2, Zenon DEF SameLists
    <2> QED BY <2>1, <2>2, <2>3, Zenon DEF RewriteLinked
<1>4. CASE Kept(m, s) # {}
    <2> DEFINE T == [k \in Kept(m, s) |-> s.table[k]]
    <2>1. DOMAIN T \subseteq DOMAIN s.table /\ \A k \in DOMAIN T : T[k] = s.table[k]
        BY Zenon DEF Kept
    <2>2. Rewritten(m, s) = NewSegment(s.level, T)
        BY Zenon DEF Rewritten
    <2> HIDE DEF T
    <2>3. s.level \in 1 .. MaxLevel
        BY <1>2, Zenon DEF SegShape, IsSegment
    <2>4. DOMAIN T \subseteq Keys /\ \A k \in DOMAIN T : T[k].ts \in Nat /\ T[k].val \in Nat
        BY <1>2, <2>1, EntryIsRecord
    <2>5. ASSUME NEW k \in DOMAIN T, m.exact
          PROVE  T[k].ts <= m.index[k]
        <3>1. k \in Keys /\ Bare(s.table[k]) \in Records(m, k) /\ Bare(s.table[k]).ts = T[k].ts
            BY <1>2, <2>1, EntryIsRecord, Zenon
        <3>2. \E x \in Records(m, k) : IsNewest(x, Records(m, k)) /\ x.ts = m.index[k]
            BY <1>1, <2>5, <3>1, Zenon DEF KeyInv
        <3> QED BY <3>1, <3>2, Zenon DEF IsNewest
    <2>6. LinkedIn(m, s.level, T, n)
        <3>1. n = Account(Linked(m, NewSegment(s.level, T)), fmap, NewSegment(s.level, T))
            BY <1>4, <2>2, Zenon
        <3> QED BY <1>2, <2>3, <2>4, <2>5, <3>1, LinkAccount, Zenon
    <2>7. /\ SameLists(m, n) /\ SameSegs(m.segs \cup {NewSegment(s.level, T)}, n.segs)
          /\ n.had = m.had \cup {s.level} /\ n.index = m.index /\ n.exact = m.exact
        BY <2>6, Zenon DEF LinkedIn
    <2>8. m.segs \cup (IF Kept(m, s) = {} THEN {} ELSE {Rewritten(m, s)})
            = m.segs \cup {NewSegment(s.level, T)}
        BY <1>4, <2>2, Zenon
    <2>9. m.had \subseteq n.had
        BY <2>7, Zenon
    <2> QED BY <2>7, <2>8, <2>9, Zenon DEF RewriteLinked
<1> QED BY <1>3, <1>4, Zenon

(* Whether an entry is needed depends on its record and the records alone. *)
LEMMA SameNeed ==
    ASSUME NEW m, NEW n, NEW k, NEW e, NEW g, n.exact = m.exact, n.index = m.index,
           Records(n, k) = Records(m, k), g.ts = e.ts, g.val = e.val
    PROVE  Unneeded(n, fmap, k, g) <=> Unneeded(m, fmap, k, e)
BY ZenonT(30) DEF Unneeded, FindNewer, FoundByScan, TombstoneKept

(* A candidate has an entry that is not kept.                              *)
LEMMA CandidateLoses ==
    ASSUME RInv, NEW m, m = Recalculate(meta, fmap), NEW s \in m.segs, Candidate(s)
    PROVE  Recounted(m) /\ \E k \in DOMAIN s.table : k \notin Kept(m, s)
<1>1. IsMeta(meta) /\ meta.index \in [Keys -> Nat] /\ meta.exact \in BOOLEAN /\ SegShape(meta.segs)
    BY Zenon DEF RInv, MetaShape
<1>2. Recounted(m)
    BY <1>1, RecalculateData, Zenon DEF Recounted
<1>3. m.segs = {WithFlags(meta, fmap, t) : t \in meta.segs}
    BY <1>1, Zenon DEF Recalculate, IsMeta, MetaFields
<1>4. PICK t \in meta.segs : s = WithFlags(meta, fmap, t)
    BY <1>3, Zenon
<1>5. PICK k \in DOMAIN s.table : s.table[k].inv
    <2> DEFINE I == {j \in DOMAIN s.table : s.table[j].inv}
    <2>1. Cardinality(I) >= 1
        BY DEF Candidate
    <2> HIDE DEF I
    <2>2. I # {}
        BY <2>1, FS_EmptySet
    <2> QED BY <2>2, Zenon DEF I
<1>6. IsSegment(t) /\ SameData(t, s)
    BY <1>1, <1>4, WithFlagsData, Zenon DEF SegShape
<1> DEFINE e == t.table[k]
           a == FindNewer(meta, k, e.ts)
           b == Unneeded(meta, fmap, k, e)
<1>7. k \in DOMAIN t.table /\ k \in Keys /\ e \in Entry
    BY <1>6, Zenon DEF SameData, IsSegment
<1>8. a \in BOOLEAN /\ b \in BOOLEAN
    BY <1>1, <1>7, FlagTypes, Zenon
<1>9. s.table[k] = SetFlags(e, a, b)
    <2> DEFINE W == [j \in DOMAIN t.table |->
                        [t.table[j] EXCEPT !.obs = FindNewer(meta, j, t.table[j].ts),
                                           !.inv = Unneeded(meta, fmap, j, t.table[j])]]
    <2>1. W[k] = SetFlags(e, a, b)
        BY <1>7, Zenon DEF SetFlags
    <2>2. s = [t EXCEPT !.table = W]
        BY <1>4, Zenon DEF WithFlags
    <2> HIDE DEF W
    <2>3. s.table = W
        BY <1>6, <2>2 DEF IsSegment
    <2> QED BY <2>1, <2>3, Zenon
<1> HIDE DEF e, a, b
<1>10. s.table[k].inv = b /\ s.table[k].ts = e.ts /\ s.table[k].val = e.val
    BY <1>7, <1>8, <1>9, EntryFlags
<1>11. Unneeded(meta, fmap, k, e)
    BY <1>5, <1>10, Zenon DEF b
<1>12. /\ Records(m, k) = Records(meta, k)
       /\ m.exact = meta.exact /\ m.index = meta.index
    BY <1>2, RecountedShape, Zenon DEF Recounted
<1>13. Unneeded(m, fmap, k, s.table[k])
    BY <1>10, <1>11, <1>12, SameNeed, Zenon
<1> QED BY <1>2, <1>13, Zenon DEF Kept

(* An entry that is dropped is not the newest record, unless there are     *)
(* only tombstones and the sorted list of the level has it too.            *)
LEMMA DroppedEntry ==
    ASSUME NEW m, MetaShape(m), Covered(m.segs, m.sorted), NEW s \in m.segs, NEW k \in DOMAIN s.table,
           KeyInv(m, fmap, k), k \notin Kept(m, s), IsNewest(Bare(s.table[k]), Records(m, k))
    PROVE  /\ \A x \in Records(m, k) : x.val = Tombstone
           /\ Bare(s.table[k]) \in SortedRecords(m, k, 1 .. MaxLevel)
<1> DEFINE e == s.table[k]
           r == Bare(e)
           R == Records(m, k)
<1>1. SegShape(m.segs) /\ m.index \in [Keys -> Nat]
    BY Zenon DEF MetaShape
<1>2. /\ k \in Keys /\ s.level \in 1 .. MaxLevel /\ e.ts \in Nat
      /\ r \in R /\ r.ts = e.ts /\ r.val = e.val
    BY <1>1, EntryIsRecord, Zenon
<1>3. Unneeded(m, fmap, k, e)
    BY Zenon DEF Kept
<1>4. \A x \in R : x \in Rec /\ x.ts \in Nat /\ x.ts <= r.ts
    BY Zenon DEF KeyInv, Rec, IsNewest
<1> HIDE DEF e, r
<1>5. ~FoundByScan(m, k, e.ts)
    BY <1>2, <1>4 DEF FoundByScan
<1>6. ~FindNewer(m, k, e.ts)
    <2>1. m.exact => ~(m.index[k] > e.ts)
        <3> SUFFICES ASSUME m.exact PROVE ~(m.index[k] > e.ts)
            BY Zenon
        <3>1. \E x \in R : x.ts = m.index[k]
            BY <1>2, Zenon DEF KeyInv
        <3> QED BY <1>2, <1>4, <3>1
    <2> QED BY <1>5, <2>1, Zenon DEF FindNewer
<1>7. e.val = Tombstone /\ ~TombstoneKept(m, fmap, k, e.ts)
    BY <1>3, <1>6, Zenon DEF Unneeded
<1>8. \A x \in R : x.val # Tombstone => ~(x.ts < e.ts)
    BY <1>7, Zenon DEF TombstoneKept
<1>9. ASSUME NEW x \in R PROVE x.val = Tombstone
    <2>1. CASE x.ts < e.ts
        BY <1>8, <2>1, Zenon
    <2>2. CASE ~(x.ts < e.ts)
        <3>1. x.ts >= r.ts
            BY <1>2, <1>4, <2>2
        <3>2. x = r
            BY <3>1, NewestUnique, Zenon DEF r, e
        <3> QED BY <1>2, <1>7, <3>2, Zenon
    <2> QED BY <2>1, <2>2, Zenon
<1>10. r \in SortedRecords(m, k, 1 .. MaxLevel)
    <2> DEFINE y == m.sorted[s.level][k]
    <2>1. k \in DOMAIN m.sorted[s.level] /\ y.ts >= e.ts
        BY <1>7, Zenon DEF Covered, e
    <2>2. y \in SortedRecords(m, k, 1 .. MaxLevel)
        BY <1>2, <2>1, Zenon DEF SortedRecords
    <2>3. y \in R
        BY <2>2, Zenon DEF Records
    <2> HIDE DEF y
    <2>4. y = r
        BY <1>2, <2>1, <2>3, NewestUnique, Zenon DEF r, e
    <2> QED BY <2>2, <2>4, Zenon
<1> QED BY <1>9, <1>10, Zenon DEF r, e

(* After a segment was rewritten and retired the newest record of a key is *)
(* kept, or hides nothing.                                                 *)
LEMMA RewrittenKey ==
    ASSUME NEW m, MetaShape(m), Covered(m.segs, m.sorted), NEW s \in m.segs,
           \E j \in DOMAIN s.table : j \notin Kept(m, s),
           NEW n, RewriteLinked(m, s, n), NEW w, SameLists(n, w), w.index = n.index, w.exact = n.exact,
           SameSegs(n.segs \ {s}, w.segs), NEW k \in Keys, KeyInv(m, fmap, k)
    PROVE  KeyInv(w, fmap, k)
<1> DEFINE K == Kept(m, s)
           T == [j \in K |-> s.table[j]]
           new == Rewritten(m, s)
           N == IF K = {} THEN {} ELSE {new}
           R == Records(m, k)
           m3 == [segs |-> n.segs \ {s}]
<1>1. SegShape(m.segs)
    BY Zenon DEF MetaShape
<1>2. /\ SameLists(m, n) /\ n.index = m.index /\ n.exact = m.exact /\ SameSegs(m.segs \cup N, n.segs)
    BY Zenon DEF RewriteLinked
<1>3. K \subseteq DOMAIN s.table /\ K # DOMAIN s.table
    BY Zenon DEF Kept
<1>4. DOMAIN new.table = K /\ \A j \in K : Bare(new.table[j]) = Bare(s.table[j])
    <2>1. s.level \in 1 .. MaxLevel
        BY <1>1, Zenon DEF SegShape, IsSegment
    <2>2. DOMAIN T = K /\ \A j \in K : T[j] = s.table[j]
        BY Zenon
    <2>3. new = NewSegment(s.level, T)
        BY Zenon DEF Rewritten
    <2> HIDE DEF T, K, new
    <2>4. DOMAIN T \subseteq Keys /\ \A j \in DOMAIN T : T[j].ts \in Nat /\ T[j].val \in Nat
        BY <1>1, <1>3, <2>2, EntryIsRecord
    <2>5. DOMAIN new.table = DOMAIN T /\ \A j \in DOMAIN T : Bare(new.table[j]) = Bare(T[j])
        BY <2>1, <2>3, <2>4, NewSegmentData, SMTT(30)
    <2> QED BY <2>2, <2>5, Zenon
<1> HIDE DEF K, T, new
<1>5. SameLists(m, w) /\ w.clock = m.clock /\ w.index = m.index /\ w.exact = m.exact
    BY <1>2, Zenon DEF SameLists
<1>6. /\ UnsortedRecords(w, k) = UnsortedRecords(m, k)
      /\ SortedRecords(w, k, 1 .. MaxLevel) = SortedRecords(m, k, 1 .. MaxLevel)
    BY <1>5, Zenon DEF UnsortedRecords, SortedRecords, SameLists
<1>7. \A x : x \in SegmentRecords(w, k) <=>
                \E t \in n.segs \ {s} : k \in DOMAIN t.table /\ x = Bare(t.table[k])
    <2>1. m3.segs = n.segs \ {s}
        BY Zenon
    <2> HIDE DEF m3
    <2>2. SegmentRecords(w, k) = SegmentRecords(m3, k)
        BY <2>1, SameSegsSameRecords, Zenon
    <2> QED BY <2>1, <2>2, Zenon DEF SegmentRecords
<1>8. \A x : x \in SegmentRecords(m, k) <=>
                \E t \in m.segs : k \in DOMAIN t.table /\ x = Bare(t.table[k])
    BY Zenon DEF SegmentRecords
<1>9. Records(w, k) \subseteq R
    <2>1. SegmentRecords(w, k) \subseteq R
        <3> SUFFICES ASSUME NEW t \in n.segs, k \in DOMAIN t.table PROVE Bare(t.table[k]) \in SegmentRecords(m, k)
            BY <1>7 DEF Records
        <3>1. PICK t0 \in m.segs \cup N : SameData(t0, t)
            BY <1>2, Zenon DEF SameSegs
        <3>2. k \in DOMAIN t0.table /\ Bare(t.table[k]) = Bare(t0.table[k])
            BY <3>1, Zenon DEF SameData
        <3>3. CASE t0 \in m.segs
            BY <1>8, <3>2, <3>3, Zenon
        <3>4. CASE t0 \in N
            <4>1. t0 = new
                BY <3>4, Zenon
            <4>2. k \in K /\ Bare(t.table[k]) = Bare(s.table[k])
                BY <1>4, <3>2, <4>1, Zenon
            <4> QED BY <1>3, <1>8, <4>2, Zenon
        <3> QED BY <3>1, <3>3, <3>4, Zenon
    <2> QED BY <1>6, <2>1, Zenon DEF Records
<1>10. ASSUME NEW r, IsNewest(r, R)
       PROVE  /\ r \in Records(w, k)
              /\ r \in Searched(m, k) => r \in Searched(w, k) \/ \A x \in R : x.val = Tombstone
    <2>1. r \in UnsortedRecords(m, k) => r \in Searched(w, k)
        BY <1>6, Zenon DEF Searched
    <2>2. r \in SortedRecords(m, k, 1 .. MaxLevel) => r \in Records(w, k)
        BY <1>6, Zenon DEF Records
    <2>3. r \in SegmentRecords(m, k) => \/ r \in Searched(w, k)
                                        \/ r \in Records(w, k) /\ \A x \in R : x.val = Tombstone
        <3> SUFFICES ASSUME NEW t \in m.segs, k \in DOMAIN t.table, r = Bare(t.table[k])
                     PROVE  \/ r \in SegmentRecords(w, k)
                            \/ r \in Records(w, k) /\ \A x \in R : x.val = Tombstone
            BY <1>8, Zenon DEF Searched
        <3>1. PICK t1 \in n.segs : SameData(t, t1)
            BY <1>2, Zenon DEF SameSegs
        <3>2. k \in DOMAIN t1.table /\ r = Bare(t1.table[k])
            BY <3>1, Zenon DEF SameData
        <3>3. CASE t1 # s
            BY <1>7, <3>2, <3>3, Zenon
        <3>4. CASE t1 = s /\ k \in K
            <4>1. new \in N
                BY <3>4, Zenon
            <4>2. PICK t2 \in n.segs : SameData(new, t2)
                BY <1>2, <4>1, Zenon DEF SameSegs
            <4>3. DOMAIN t2.table = K /\ Bare(t2.table[k]) = Bare(new.table[k])
                BY <1>4, <3>4, <4>2, Zenon DEF SameData
            <4>4. t2 # s
                BY <1>3, <4>3, Zenon
            <4>5. k \in DOMAIN t2.table /\ r = Bare(t2.table[k])
                BY <1>4, <3>2, <3>4, <4>3, Zenon
            <4> QED BY <1>7, <4>4, <4>5, Zenon
        <3>5. CASE t1 = s /\ k \notin K
            <4>1. /\ \A x \in R : x.val = Tombstone
                  /\ r \in SortedRecords(m, k, 1 .. MaxLevel)
                BY <1>10, <3>2, <3>5, DroppedEntry, Zenon DEF K
            <4> QED BY <2>2, <4>1, Zenon
        <3> QED BY <3>3, <3>4, <3>5, Zenon
    <2>4. Searched(w, k) \subseteq Records(w, k)
        BY Zenon DEF Searched, Records
    <2>5. r \in R
        BY <1>10, Zenon DEF IsNewest
    <2> QED BY <2>1, <2>2, <2>3, <2>4, <2>5, Zenon DEF Records, Searched
<1> QED BY <1>5, <1>9, <1>10, KeyKept, Zenon

(* The compaction of a segment keeps the invariant: what it drops is never *)
(* the record a lookup needs.                                              *)
LEMMA CompactSegmentKeeps ==
    ASSUME RInv, CompactSegment
    PROVE  RInv'
<1> DEFINE m == Recalculate(meta, fmap)
           Linked1(s) == IF Kept(m, s) = {} THEN m
                         ELSE Account(Linked(m, Rewritten(m, s)), fmap, Rewritten(m, s))
<1>1. fmap' = fmap /\ plan' = plan /\ plan = NoPlan
    BY Zenon DEF CompactSegment, CompactionLockFree
<1>2. PICK s \in m.segs : Candidate(s) /\ meta' = Retire(Linked1(s), fmap, {s}, {})
    BY Zenon DEF CompactSegment, Kept, Rewritten
<1> DEFINE n == Linked1(s)
<1>3. Recounted(m) /\ \E j \in DOMAIN s.table : j \notin Kept(m, s)
    BY <1>2, CandidateLoses, Zenon
<1> HIDE DEF m
<1>4. /\ MetaShape(m) /\ Covered(m.segs, m.sorted) /\ \A k \in Keys : KeyInv(m, fmap, k)
    BY <1>3, RecountedShape, Zenon
<1>5. RewriteLinked(m, s, n)
    BY <1>3, RewriteIs, Zenon
<1> HIDE DEF n, Linked1
<1>6. /\ SameLists(m, n) /\ m.had \subseteq n.had /\ n.index = m.index /\ n.exact = m.exact
      /\ SameSegs(m.segs \cup (IF Kept(m, s) = {} THEN {} ELSE {Rewritten(m, s)}), n.segs)
    BY <1>5, Zenon DEF RewriteLinked
<1>7. IsMeta(n) /\ SegShape(n.segs) /\ SegShape({})
    <2>1. SegShape(n.segs)
        BY <1>6, SameSegsFacts, Zenon
    <2>2. SegShape({})
        BY Zenon DEF SegShape
    <2> QED BY <1>6, <2>1, <2>2, Zenon DEF SameLists
<1>8. Retired(n, {s}, {}, meta')
    BY <1>2, <1>7, RetireData, Zenon DEF n
<1>9. /\ SameLists(n, meta') /\ meta'.had = n.had /\ meta'.index = n.index /\ meta'.exact = n.exact
      /\ SameSegs(n.segs \ {s}, meta'.segs)
    <2>1. ((n.segs \ {s}) \ {}) \cup {} = n.segs \ {s}
        BY Zenon
    <2> QED BY <1>8, <2>1, Zenon DEF Retired
<1>10. /\ meta'.clock = m.clock /\ meta'.sorted = m.sorted /\ IsMeta(meta') /\ m.had \subseteq meta'.had
       /\ meta'.index = m.index /\ meta'.exact = m.exact
    BY <1>6, <1>9, Zenon DEF SameLists
<1>11. \A k \in Keys : KeyInv(meta', fmap, k)
    BY <1>3, <1>4, <1>5, <1>9, RewrittenKey, Zenon
<1>12. MetaShape(meta')
    <2>1. /\ m.clock \in Nat /\ m.index \in [Keys -> Nat] /\ m.exact \in BOOLEAN /\ SortedShape(m)
        BY <1>4, Zenon DEF MetaShape
    <2>2. SortedShape(meta')
        BY <1>10, <2>1, Zenon DEF SortedShape
    <2>3. SegShape(meta'.segs)
        BY <1>9, SameSegsFacts, Zenon
    <2> QED BY <1>10, <2>1, <2>2, <2>3, Zenon DEF MetaShape
<1>13. Covered(meta'.segs, meta'.sorted)
    <2> DEFINE T == [k \in Kept(m, s) |-> s.table[k]]
               N == IF Kept(m, s) = {} THEN {} ELSE {Rewritten(m, s)}
    <2>1. SegShape(m.segs)
        BY <1>4, Zenon DEF MetaShape
    <2>2. DOMAIN T \subseteq DOMAIN s.table /\ \A k \in DOMAIN T : T[k] = s.table[k]
        BY Zenon DEF Kept
    <2>3. s.level \in 1 .. MaxLevel
        BY <2>1, Zenon DEF SegShape, IsSegment
    <2> DEFINE new == NewSegment(s.level, T)
    <2>4. N \subseteq {new}
        BY Zenon DEF Rewritten
    <2> HIDE DEF T
    <2>5. DOMAIN T \subseteq Keys /\ \A k \in DOMAIN T : T[k].ts \in Nat /\ T[k].val \in Nat
        BY <2>1, <2>2, EntryIsRecord, Zenon
    <2>6. /\ IsSegment(new) /\ new.level = s.level /\ DOMAIN new.table = DOMAIN T
          /\ \A k \in DOMAIN T : new.table[k].ts = T[k].ts /\ new.table[k].val = T[k].val
        BY <2>3, <2>5, NewSegmentData
    <2> HIDE DEF new, N
    <2>7. \A k \in DOMAIN new.table : /\ k \in DOMAIN s.table /\ new.table[k].ts = s.table[k].ts
                                      /\ new.table[k].val = s.table[k].val
        BY <2>2, <2>6, Zenon
    <2>8. Covered({new}, m.sorted)
        BY <1>4, <2>6, <2>7 DEF Covered
    <2>9. Covered(m.segs \cup N, m.sorted) /\ SegShape(m.segs \cup N)
        BY <1>4, <2>1, <2>4, <2>6, <2>8, Zenon DEF Covered, SegShape
    <2>10. Covered(n.segs, m.sorted)
        BY <1>6, <2>9, CoveredKept, Zenon DEF N
    <2>11. Covered(n.segs \ {s}, m.sorted) /\ SegShape(n.segs \ {s})
        BY <1>7, <2>10, Zenon DEF Covered, SegShape
    <2> QED BY <1>9, <1>10, <2>11, CoveredKept, Zenon
<1>14. plan'.kind = "none"
    BY <1>1, Zenon DEF NoPlan
<1>15. GcPlanInv' /\ LevelPlanInv'
    BY <1>14, Zenon DEF GcPlanInv, LevelPlanInv
<1>16. fmap \in [Keys -> Nat]
    BY Zenon DEF RInv
<1> QED BY <1>1, <1>11, <1>12, <1>13, <1>15, <1>16, Zenon DEF RInv
-----------------------------------------------------------------------------
(* The invariant holds.                                                    *)

(* Preparing a level compaction keeps the invariant, for the worker and    *)
(* for debugfs.                                                            *)
LEMMA PrepareKeeps ==
    ASSUME RInv, WorkerPrepare \/ \E l \in 0 .. MaxLevel : ManualCompaction(l)
    PROVE  RInv'
<1>1. UNCHANGED <<meta, fmap>>
    BY Zenon DEF WorkerPrepare, ManualCompaction
<1>2. CASE \E l \in 0 .. MaxLevel : ManualCompaction(l)
    <2>1. PICK l \in 0 .. MaxLevel : plan' = LevelPlan(l, MaxOps, "manual")
        BY <1>2, Zenon DEF ManualCompaction
    <2>2. GcPlanInv' /\ LevelPlanInv'
        BY <2>1, PreparedLevel, Zenon
    <2> QED BY <1>1, <2>2, Zenon DEF RInv
<1>3. CASE WorkerPrepare
    <2> DEFINE l == PickLevel(Sizes(meta), base)
               p == LevelPlan(l, IF l = 0 THEN Threshold ELSE MaxOps, "worker")
    <2>1. plan' = IF l < Levels /\ HasInput(p) THEN p ELSE NoPlan
        BY <1>3, Zenon DEF WorkerPrepare
    <2>2. l \in 0 .. MaxLevel - 1 \/ l = Levels
        BY Zenon DEF PickLevel
    <2>3. Levels \in Nat /\ MaxLevel \in Nat
        BY LSMAssumption DEF MaxLevel
    <2> HIDE DEF l, p
    <2>4. CASE l < Levels /\ HasInput(p)
        <3>1. l \in 0 .. MaxLevel
            BY <2>2, <2>3, <2>4
        <3>2. plan' = p
            BY <2>1, <2>4, Zenon
        <3>3. GcPlanInv' /\ LevelPlanInv'
            BY <3>1, <3>2, PreparedLevel, Zenon DEF p
        <3> QED BY <1>1, <3>3, Zenon DEF RInv
    <2>5. CASE ~(l < Levels /\ HasInput(p))
        <3>1. plan' = NoPlan
            BY <2>1, <2>5, Zenon
        <3> QED BY <1>1, <3>1, FrameKeeps, Zenon
    <2> QED BY <2>4, <2>5, Zenon
<1> QED BY <1>2, <1>3, Zenon

(* Every step keeps the invariant.                                         *)
LEMMA NextKeepsR ==
    ASSUME IInv, RInv, [Next]_vars
    PROVE  RInv'
<1>1. ASSUME NEW k \in Keys, NEW ok \in BOOLEAN, Put(k, ok) \/ Discard(k, ok) \/ DeleteKey(k, ok)
      PROVE  RInv'
    <2>1. \E v \in Nat : AppendRecord(k, v, ok)
        BY <1>1 DEF Put, Discard, DeleteKey, IInv, Tombstone
    <2> QED BY <2>1, AppendKeeps, Zenon
<1>2. CASE Worker
    <2>1. CASE WorkerPrepare
        BY <2>1, PrepareKeeps, Zenon
    <2>2. CASE WorkerStart \/ WorkerLock \/ WorkerGivesUp \/ WorkerEnd \/ WorkerRequeue
        <3>1. UNCHANGED <<meta, fmap, plan>>
            BY <2>2, Zenon DEF WorkerStart, WorkerLock, WorkerGivesUp, WorkerEnd, WorkerRequeue
        <3> QED BY <3>1, FrameKeeps, Zenon
    <2> QED BY <1>2, <2>1, <2>2, Zenon DEF Worker
<1>3. CASE Kick \/ BuildFails \/ GcFails
    <2>1. UNCHANGED <<meta, fmap>> /\ (plan' = plan \/ plan' = NoPlan)
        BY <1>3, Zenon DEF Kick, BuildFails, GcFails, Return
    <2> QED BY <2>1, FrameKeeps, Zenon
<1>4. CASE \E b \in {BaseBytes} \cup OtherBases : SetBase(b)
    <2>1. UNCHANGED <<meta, fmap, plan>>
        BY <1>4, Zenon DEF SetBase
    <2> QED BY <2>1, FrameKeeps
<1>5. CASE UNCHANGED vars
    <2>1. UNCHANGED <<meta, fmap, plan>>
        BY <1>5, Zenon DEF vars
    <2> QED BY <2>1, FrameKeeps
<1>6. CASE Build
    BY <1>6, BuildKeeps, Zenon
<1>7. CASE Publish
    BY <1>7, PublishKeeps
<1>8. CASE \E l \in 0 .. MaxLevel : ManualCompaction(l)
    BY <1>8, PrepareKeeps, Zenon
<1>9. ASSUME NEW K \in SUBSET Keys, GcPrepare(K) PROVE RInv'
    BY <1>9, GcPrepareKeeps, Zenon
<1>10. ASSUME NEW ok \in BOOLEAN, GcPublish(ok) PROVE RInv'
    BY <1>10, GcPublishKeeps, Zenon
<1>11. CASE CompactSegment
    BY <1>11, CompactSegmentKeeps, Zenon
<1>12. CASE Reload \/ ResetZones
    BY <1>12, ForgetKeeps, Zenon
<1> QED BY <1>1, <1>2, <1>3, <1>4, <1>5, <1>6, <1>7, <1>8, <1>9, <1>10, <1>11, <1>12, Zenon DEF Next

(* The invariants hold in every reachable state.                           *)
THEOREM RefinementInvariantHolds == Spec => [](IInv /\ RInv)
<1>1. Init => IInv /\ RInv
    BY InitInv, InitR, Zenon
<1>2. IInv /\ RInv /\ [Next]_vars => IInv' /\ RInv'
    BY NextInv, NextKeepsR, Zenon
<1> QED BY <1>1, <1>2, PTL DEF Spec

(* A lookup finds what the forward map holds.                              *)
LEMMA LookupIsMap ==
    ASSUME RInv, NEW k \in Keys
    PROVE  Lookup(k) = fmap[k]
<1> DEFINE R == Records(meta, k)
           found == Searched(meta, k)
<1>1. SortedRecords(meta, k, 1 .. MaxLevel \ meta.had) = {}
    <2>1. \A l \in 1 .. MaxLevel \ meta.had : DOMAIN meta.sorted[l] = {}
        BY Zenon DEF RInv, MetaShape, SortedShape
    <2> QED BY <2>1, Zenon DEF SortedRecords
<1>2. Lookup(k) = IF found = {} THEN fmap[k] ELSE Newest(found).val
    BY <1>1, Zenon DEF Lookup, Searched
<1>3. found \subseteq R
    BY Zenon DEF Searched, Records
<1>4. KeyInv(meta, fmap, k) /\ meta.clock \in Nat
    BY Zenon DEF RInv, MetaShape
<1>5. \A r \in R : r \in Rec /\ r.ts <= meta.clock
    BY <1>4, Zenon DEF KeyInv
<1> SUFFICES ASSUME found # {} PROVE Newest(found).val = fmap[k]
    BY <1>2, Zenon
<1>6. PICK r \in R : /\ IsNewest(r, R) /\ r.val = fmap[k]
                     /\ r \in found \/ \A x \in R : x.val = Tombstone
    BY <1>3, <1>4, Zenon DEF KeyInv
<1> HIDE DEF R, found
<1>7. \A x \in found : x.ts \in Nat /\ x.ts <= meta.clock
    BY <1>3, <1>5, Zenon DEF Rec
<1>8. IsNewest(Newest(found), found)
    BY <1>4, <1>7, NewestExists, Zenon
<1>9. Newest(found) \in found /\ \A x \in found : x.ts <= Newest(found).ts
    BY <1>8, Zenon DEF IsNewest
<1>10. CASE r \in found
    <2>1. Newest(found) \in R /\ Newest(found).ts >= r.ts
        BY <1>3, <1>7, <1>9, <1>10, Zenon
    <2>2. Newest(found) = r
        BY <1>4, <1>6, <2>1, NewestUnique, Zenon DEF R
    <2> QED BY <1>6, <2>2, Zenon
<1>11. CASE \A x \in R : x.val = Tombstone
    BY <1>3, <1>6, <1>9, <1>11, Zenon
<1> QED BY <1>6, <1>10, <1>11, Zenon

(* The index of newest records is exact.                                   *)
LEMMA IndexFollows == RInv => IndexExact
<1> SUFFICES ASSUME RInv, meta.exact, NEW k \in Keys
             PROVE  meta.index[k] = Max({0} \cup {r.ts : r \in Records(meta, k)})
    BY Zenon DEF IndexExact
<1> DEFINE R == Records(meta, k)
           S == {0} \cup {r.ts : r \in R}
           x == meta.index[k]
<1>1. KeyInv(meta, fmap, k)
    BY Zenon DEF RInv
<1>2. \A r \in R : r \in Rec
    BY <1>1, Zenon DEF KeyInv
<1>3. \/ R = {} /\ x = 0
      \/ \E r \in R : IsNewest(r, R) /\ r.ts = x
    BY <1>1, Zenon DEF KeyInv
<1> HIDE DEF R, x
<1>4. S \subseteq Nat
    BY <1>2 DEF Rec
<1>5. x \in S /\ \A y \in S : x >= y
    <2>1. CASE R = {} /\ x = 0
        BY <2>1
    <2>2. CASE \E r \in R : IsNewest(r, R) /\ r.ts = x
        BY <1>2, <2>2 DEF IsNewest, Rec
    <2> QED BY <1>3, <2>1, <2>2, Zenon
<1> HIDE DEF S
<1>6. \A y \in S : (\A z \in S : y >= z) => y = x
    BY <1>4, <1>5
<1>7. Max(S) = CHOOSE y \in S : \A z \in S : y >= z
    BY Zenon DEF Max
<1>8. Max(S) \in S /\ \A z \in S : Max(S) >= z
    BY <1>5, <1>7, Zenon
<1> QED BY <1>6, <1>8, Zenon DEF S, R, x

(* While the index of newest records is in use, imr_lsm_find_newer may     *)
(* trust it: it names the timestamp the scan would find.                   *)
THEOREM IndexAlwaysExact == Spec => []IndexExact
BY RefinementInvariantHolds, IndexFollows, PTL
-----------------------------------------------------------------------------
(* The refinement of BlockMap.                                             *)

View == [k \in Keys |-> Lookup(k)]
ViewIsMap == View = fmap

(* What the lookups show is the forward map.                               *)
LEMMA ViewFollows == RInv => ViewIsMap
<1> SUFFICES ASSUME RInv PROVE View = fmap
    BY Zenon DEF ViewIsMap
<1>1. fmap \in [Keys -> Nat]
    BY Zenon DEF RInv
<1>2. \A k \in Keys : Lookup(k) = fmap[k]
    BY LookupIsMap, Zenon
<1> QED BY <1>1, <1>2, Zenon DEF View

(* Initial states show what an earlier target wrote.                       *)
LEMMA InitRefines == Init /\ ViewIsMap => B!Init
<1> SUFFICES ASSUME Init, View = fmap PROVE B!Init
    BY Zenon DEF ViewIsMap
<1>1. writes \in Nat
    BY LSMAssumption DEF Init
<1>2. fmap \in [Keys -> 0 .. writes]
    BY <1>1, LSMAssumption DEF Init, Keys
<1> QED BY <1>1, <1>2, Zenon DEF B!Init, View

(* To a reader of blocks a step is a write, a discard, a reset or nothing. *)
LEMMA StepRefines ==
    ViewIsMap /\ ViewIsMap' /\ [Next]_vars => [B!Next]_<<[k \in Keys |-> Lookup(k)], writes>>
<1> SUFFICES ASSUME View = fmap, View' = fmap', [Next]_vars,
                    ~UNCHANGED <<View, writes>>
             PROVE  B!Next
    BY Zenon DEF ViewIsMap, View
<1>1. ASSUME NEW k \in Keys, NEW ok \in BOOLEAN, Put(k, ok)
      PROVE  B!Next
    <2>1. B!Put(k)
        BY <1>1, Zenon DEF Put, AppendRecord, B!Put, View
    <2> QED BY <2>1, Zenon DEF B!Next
<1>2. ASSUME NEW k \in Keys, NEW ok \in BOOLEAN, Discard(k, ok) \/ DeleteKey(k, ok)
      PROVE  B!Next
    <2>1. B!Delete(k)
        BY <1>2, Zenon DEF Discard, DeleteKey, AppendRecord, Tombstone, B!Delete, B!Unwritten, View
    <2> QED BY <2>1, Zenon DEF B!Next
<1>3. CASE ResetZones
    <2>1. B!Clear
        BY <1>3, Zenon DEF ResetZones, B!Clear, B!Unwritten, View
    <2> QED BY <2>1, Zenon DEF B!Next
<1>4. ~UNCHANGED <<fmap, writes>>
    BY Zenon
<1>5. CASE Worker
    BY <1>4, <1>5, Zenon DEF Worker, WorkerStart, WorkerLock, WorkerGivesUp, WorkerPrepare, WorkerEnd, WorkerRequeue
<1>6. CASE Kick \/ Build \/ BuildFails \/ Publish \/ GcFails
    BY <1>4, <1>6, Zenon DEF Kick, Build, BuildFails, Publish, GcFails
<1>7. CASE \/ \E l \in 0 .. MaxLevel : ManualCompaction(l)
           \/ \E K \in SUBSET Keys : GcPrepare(K)
           \/ \E ok \in BOOLEAN : GcPublish(ok)
    BY <1>4, <1>7, Zenon DEF ManualCompaction, GcPrepare, GcPublish
<1>8. CASE CompactSegment \/ Reload \/ \E b \in {BaseBytes} \cup OtherBases : SetBase(b)
    BY <1>4, <1>8, Zenon DEF CompactSegment, Reload, SetBase
<1>9. CASE UNCHANGED vars
    BY <1>4, <1>9, Zenon DEF vars
<1> QED BY <1>1, <1>2, <1>3, <1>5, <1>6, <1>7, <1>8, <1>9, Zenon DEF Next

(* Every lookup returns the last write of its key, or nothing after a      *)
(* discard, for any number of blocks, levels and records: compactions,     *)
(* collections, dropped tombstones and reloads change no answer of         *)
(* imr_lsm_read.                                                           *)
THEOREM LookupsRefineBlockMap == Spec => LookupsAreLastWrites
BY RefinementInvariantHolds, ViewFollows, InitRefines, StepRefines, PTL
    DEF Spec, LookupsAreLastWrites, B!Spec
=============================================================================
