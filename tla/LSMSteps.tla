------------------------------ MODULE LSMSteps ------------------------------
(***************************************************************************)
(* Appends, the preparation of level compactions, collections, reloads and *)
(* resets keep the invariant RInv of the records; and what a level         *)
(* compaction publishes, for the proof in LSMRefinement that it keeps it.  *)
(***************************************************************************)
EXTENDS LSMProofs

-----------------------------------------------------------------------------
(* Appends.                                                                *)

(* A node in front of the unsorted list adds its record.                   *)
LEMMA PrependRecord ==
    ASSUME NEW m, NEW n, m.unsorted \in Seq(Node), NEW x \in Node, n.unsorted = <<x>> \o m.unsorted
    PROVE  \A k : UnsortedRecords(n, k) =
                    UnsortedRecords(m, k) \cup (IF x.key = k THEN {Bare(x)} ELSE {})
<1> DEFINE q == m.unsorted
           r == n.unsorted
<1>1. /\ DOMAIN q = 1 .. Len(q) /\ DOMAIN r = 1 .. Len(q) + 1 /\ Len(q) \in Nat
      /\ r[1] = x /\ \A i \in 1 .. Len(q) : r[i + 1] = q[i]
    OBVIOUS
<1> HIDE DEF q, r
<1>2. \A i \in DOMAIN r : i = 1 \/ (i - 1 \in DOMAIN q /\ r[i] = q[i - 1])
    <2> SUFFICES ASSUME NEW i \in DOMAIN r, i # 1 PROVE i - 1 \in DOMAIN q /\ r[i] = q[i - 1]
        OBVIOUS
    <2>1. i - 1 \in 1 .. Len(q) /\ (i - 1) + 1 = i
        BY <1>1
    <2> QED BY <1>1, <2>1
<1>3. 1 \in DOMAIN r /\ \A i \in DOMAIN q : i + 1 \in DOMAIN r /\ r[i + 1] = q[i]
    BY <1>1
<1> SUFFICES ASSUME NEW k
             PROVE  UnsortedRecords(n, k) =
                        UnsortedRecords(m, k) \cup (IF x.key = k THEN {Bare(x)} ELSE {})
    OBVIOUS
<1>4. \A y : y \in UnsortedRecords(n, k) <=> \E i \in DOMAIN r : r[i].key = k /\ y = Bare(r[i])
    BY Zenon DEF UnsortedRecords, r
<1>5. \A y : y \in UnsortedRecords(m, k) <=> \E i \in DOMAIN q : q[i].key = k /\ y = Bare(q[i])
    BY Zenon DEF UnsortedRecords, q
<1>6. ASSUME NEW y \in UnsortedRecords(n, k)
      PROVE  y \in UnsortedRecords(m, k) \/ (x.key = k /\ y = Bare(x))
    <2>1. PICK i \in DOMAIN r : r[i].key = k /\ y = Bare(r[i])
        BY <1>4, <1>6
    <2>2. CASE i = 1
        BY <1>1, <2>1, <2>2
    <2>3. CASE i # 1
        BY <1>2, <1>5, <2>1, <2>3
    <2> QED BY <2>2, <2>3
<1>7. ASSUME NEW y \in UnsortedRecords(m, k)
      PROVE  y \in UnsortedRecords(n, k)
    <2>1. PICK i \in DOMAIN q : q[i].key = k /\ y = Bare(q[i])
        BY <1>5, <1>7
    <2>2. i + 1 \in DOMAIN r /\ r[i + 1].key = k /\ y = Bare(r[i + 1])
        BY <1>3, <2>1, Zenon
    <2> QED BY <1>4, <2>2, Zenon
<1>8. x.key = k => Bare(x) \in UnsortedRecords(n, k)
    BY <1>1, <1>3, <1>4, Zenon
<1> QED BY <1>6, <1>7, <1>8

(* The metadata after an append: one node more, the clock one further.     *)
LEMMA AppendMeta ==
    ASSUME IInv, RInv, NEW k \in Keys, NEW v \in Nat, NEW ok \in BOOLEAN, AppendRecord(k, v, ok)
    PROVE  /\ IsMeta(meta') /\ meta'.clock = meta.clock + 1 /\ meta'.sorted = meta.sorted
           /\ meta'.had = meta.had /\ SameSegs(meta.segs, meta'.segs)
           /\ meta'.index \in [Keys -> Nat] /\ meta'.exact \in BOOLEAN
           /\ meta'.exact => /\ meta.exact /\ meta'.index[k] = meta.clock + 1
                             /\ \A j \in Keys \ {k} : meta'.index[j] = meta.index[j]
           /\ \A j : UnsortedRecords(meta', j) =
                UnsortedRecords(meta, j)
                    \cup (IF j = k THEN {[ts |-> meta.clock + 1, val |-> v]} ELSE {})
<1> DEFINE node == [key |-> k, ts |-> meta.clock + 1, val |-> v]
           q == meta.unsorted
           r == <<node>> \o q
           m0 == [meta EXCEPT !.clock = meta.clock + 1, !.unsorted = r]
           T == [j \in {k} |-> Bare(node)]
           m == IndexUpdate(m0, T, ok)
<1>1. meta' = m
    BY DEF AppendRecord
<1>2. /\ IsMeta(meta) /\ meta.clock \in Nat /\ meta.index \in [Keys -> Nat]
      /\ meta.exact \in BOOLEAN /\ SegShape(meta.segs) /\ q \in Seq(Node)
      /\ KeyInv(meta, fmap, k)
    BY DEF IInv, ListInv, RInv, MetaShape
<1>3. node \in Node /\ node.key = k /\ Bare(node) = [ts |-> meta.clock + 1, val |-> v]
    BY <1>2 DEF Node, Bare
<1> HIDE DEF node
<1>4. /\ IsMeta(m0) /\ m0.unsorted = r /\ m0.sorted = meta.sorted /\ m0.clock = meta.clock + 1
      /\ m0.segs = meta.segs /\ m0.had = meta.had /\ m0.index = meta.index /\ m0.exact = meta.exact
    BY <1>2, ZenonT(30) DEF IsMeta, MetaFields
<1> HIDE DEF m0
<1>5. DOMAIN T = {k} /\ T[k].ts = meta.clock + 1 /\ DOMAIN T \subseteq Keys
      /\ \A j \in DOMAIN T : T[j].ts \in Nat
    BY <1>2, <1>3
<1> HIDE DEF T
<1>6. IndexLearned(m0, T, ok, m)
    <2>1. m0.index \in [Keys -> Nat] /\ m0.exact \in BOOLEAN /\ SegShape(m0.segs)
        BY <1>2, <1>4, Zenon
    <2> QED BY <1>4, <1>5, <2>1, IndexUpdateData, Zenon
<1> HIDE DEF m, r
<1>7. /\ SameLists(m0, m) /\ SameSegs(m0.segs, m.segs) /\ m.had = m0.had
      /\ m.index \in [Keys -> Nat] /\ m.exact \in BOOLEAN
    BY <1>6, Zenon DEF IndexLearned
<1>8. /\ m.exact => m0.exact /\ (ok \/ \A j \in DOMAIN T : m0.index[j] # 0)
      /\ \A j \in Keys : m.index[j] =
            IF j \in DOMAIN T /\ IF m0.index[j] = 0 THEN ok ELSE T[j].ts > m0.index[j]
            THEN T[j].ts ELSE m0.index[j]
    BY <1>6, Zenon DEF IndexLearned
<1>9. \A j \in Keys \ {k} : m.index[j] = meta.index[j]
    BY <1>4, <1>5, <1>8, Zenon
<1>10. ASSUME m.exact
       PROVE  m.index[k] = meta.clock + 1
    <2>1. meta.exact /\ (ok \/ meta.index[k] # 0)
        BY <1>4, <1>5, <1>8, <1>10, Zenon
    <2>2. meta.clock + 1 > meta.index[k]
        <3>1. \/ meta.index[k] = 0
              \/ \E y \in Records(meta, k) : y.ts = meta.index[k] /\ y.ts <= meta.clock
            BY <1>2, <2>1, Zenon DEF KeyInv
        <3> QED BY <1>2, <3>1
    <2>3. m.index[k] = IF meta.index[k] = 0
                       THEN IF ok THEN meta.clock + 1 ELSE meta.index[k]
                       ELSE IF meta.clock + 1 > meta.index[k] THEN meta.clock + 1 ELSE meta.index[k]
        BY <1>4, <1>5, <1>8, Zenon
    <2> QED BY <2>1, <2>2, <2>3, Zenon
<1>11. m.unsorted = <<node>> \o meta.unsorted /\ m.sorted = meta.sorted /\ m.clock = meta.clock + 1
       /\ IsMeta(m)
    BY <1>4, <1>7, Zenon DEF SameLists, r
<1>12. \A j : UnsortedRecords(m, j) =
            UnsortedRecords(meta, j) \cup (IF j = k THEN {[ts |-> meta.clock + 1, val |-> v]} ELSE {})
    <2>1. \A j : UnsortedRecords(m, j) =
            UnsortedRecords(meta, j) \cup (IF node.key = j THEN {Bare(node)} ELSE {})
        <3>1. meta.unsorted \in Seq(Node) /\ node \in Node /\ m.unsorted = <<node>> \o meta.unsorted
            BY <1>2, <1>3, <1>11, Zenon
        <3> QED BY <3>1, PrependRecord, ZenonT(30)
    <2> QED BY <1>3, <2>1, Zenon
<1> QED BY <1>1, <1>4, <1>7, <1>8, <1>9, <1>10, <1>11, <1>12, Zenon

(* A change of flags keeps every segment covered by the sorted list of its *)
(* level.                                                                  *)
LEMMA CoveredKept ==
    ASSUME NEW S, NEW T, NEW sorted, SegShape(S), SameSegs(S, T), Covered(S, sorted)
    PROVE  Covered(T, sorted)
<1> SUFFICES ASSUME NEW t \in T, NEW k \in DOMAIN t.table,
                    t.level < MaxLevel \/ t.table[k].val = Tombstone
             PROVE  k \in DOMAIN sorted[t.level] /\ sorted[t.level][k].ts >= t.table[k].ts
    BY Zenon DEF Covered
<1>1. PICK s \in S : SameData(s, t)
    BY Zenon DEF SameSegs
<1>2. /\ t.level = s.level /\ k \in DOMAIN s.table
      /\ Bare(t.table[k]) = Bare(s.table[k])
    BY <1>1, Zenon DEF SameData
<1>3. t.table[k].ts = s.table[k].ts /\ t.table[k].val = s.table[k].val
    BY <1>2, Zenon DEF Bare
<1> QED BY <1>2, <1>3, Zenon DEF Covered

(* The timestamps a level compaction borrows are not the clock's next.     *)
LEMMA WindowBelow ==
    ASSUME IInv, plan.kind = "level", plan.n > 0
    PROVE  plan.head \in Nat /\ plan.head <= meta.clock
<1>1. PICK i \in 1 .. Len(meta.unsorted) : BorrowedAt(plan, meta.unsorted, i)
    BY Zenon DEF IInv, PlanInv
<1>2. meta.unsorted \in Seq(Node) /\ meta.unsorted[i].ts <= meta.clock
    BY Zenon DEF IInv, ListInv
<1>3. meta.unsorted[i].ts \in Nat
    BY <1>2, NodesHaveTs
<1> QED BY <1>1, <1>2, <1>3 DEF BorrowedAt

(* An append (a write, a discard or a deletion) keeps the invariant: its   *)
(* record is newer than every other and is searched first.                 *)
LEMMA AppendKeeps ==
    ASSUME IInv, RInv, NEW k \in Keys, NEW v \in Nat, NEW ok \in BOOLEAN, AppendRecord(k, v, ok)
    PROVE  RInv'
<1> DEFINE x == [ts |-> meta.clock + 1, val |-> v]
<1>1. /\ IsMeta(meta') /\ meta'.clock = meta.clock + 1 /\ meta'.sorted = meta.sorted
      /\ meta'.had = meta.had /\ SameSegs(meta.segs, meta'.segs)
      /\ meta'.index \in [Keys -> Nat] /\ meta'.exact \in BOOLEAN
      /\ meta'.exact => /\ meta.exact /\ meta'.index[k] = meta.clock + 1
                        /\ \A j \in Keys \ {k} : meta'.index[j] = meta.index[j]
      /\ \A j : UnsortedRecords(meta', j) = UnsortedRecords(meta, j) \cup (IF j = k THEN {x} ELSE {})
    BY AppendMeta
<1>2. fmap' = [fmap EXCEPT ![k] = v] /\ plan' = plan
    BY Zenon DEF AppendRecord
<1>3. /\ meta.clock \in Nat /\ SegShape(meta.segs) /\ SortedShape(meta)
      /\ Covered(meta.segs, meta.sorted) /\ fmap \in [Keys -> Nat]
      /\ \A j \in Keys : KeyInv(meta, fmap, j)
      /\ GcPlanInv /\ LevelPlanInv
    BY Zenon DEF RInv, MetaShape
<1>4. x \in Rec /\ x.ts = meta.clock + 1 /\ x.val = v
    BY <1>3 DEF Rec
<1> HIDE DEF x
<1>5. \A j : SegmentRecords(meta', j) = SegmentRecords(meta, j)
    BY <1>1, SameSegsSameRecords, Zenon
<1>6. \A j : SortedRecords(meta', j, 1 .. MaxLevel) = SortedRecords(meta, j, 1 .. MaxLevel)
    BY <1>1, Zenon DEF SortedRecords
<1>7. /\ \A j : j # k => /\ Records(meta', j) = Records(meta, j) /\ Searched(meta', j) = Searched(meta, j)
                         /\ UnsortedRecords(meta', j) = UnsortedRecords(meta, j)
      /\ Records(meta', k) = Records(meta, k) \cup {x}
      /\ x \in UnsortedRecords(meta', k) /\ x \in Searched(meta', k)
    <2>1. /\ \A j : j # k => UnsortedRecords(meta', j) = UnsortedRecords(meta, j)
          /\ UnsortedRecords(meta', k) = UnsortedRecords(meta, k) \cup {x}
        BY <1>1, Zenon
    <2>2. \A j : j # k => Records(meta', j) = Records(meta, j) /\ Searched(meta', j) = Searched(meta, j)
        BY <1>5, <1>6, <2>1, Zenon DEF Records, Searched
    <2>3. Records(meta', k) = Records(meta, k) \cup {x}
        BY <1>5, <1>6, <2>1 DEF Records
    <2>4. x \in UnsortedRecords(meta', k) /\ x \in Searched(meta', k)
        BY <2>1 DEF Searched
    <2> QED BY <2>1, <2>2, <2>3, <2>4, Zenon
<1>8. fmap'[k] = v /\ \A j \in Keys \ {k} : fmap'[j] = fmap[j]
    BY <1>2, <1>3
<1>9. fmap' \in [Keys -> Nat]
    BY <1>2, <1>3
<1>10. MetaShape(meta')
    <2>1. SortedShape(meta')
        BY <1>1, <1>3, Zenon DEF SortedShape
    <2>2. SegShape(meta'.segs)
        BY <1>1, SameSegsFacts
    <2>3. meta'.clock \in Nat
        BY <1>1, <1>3
    <2> QED BY <1>1, <2>1, <2>2, <2>3, Zenon DEF MetaShape
<1>11. Covered(meta'.segs, meta'.sorted)
    BY <1>1, <1>3, CoveredKept, Zenon
<1>12. \A r \in Records(meta, k) : r \in Rec /\ r.ts < x.ts
    <2>1. \A r \in Records(meta, k) : r \in Rec /\ r.ts <= meta.clock
        BY <1>3, Zenon DEF KeyInv
    <2> QED BY <1>3, <1>4, <2>1 DEF Rec
<1>13. ASSUME NEW j \in Keys PROVE KeyInv(meta', fmap', j)
    <2>1. CASE j = k
        <3>1. KeyInv(meta, fmap, k) /\ meta'.clock \in Nat /\ 0 < x.ts /\ x.ts <= meta'.clock
              /\ meta.clock <= meta'.clock /\ x.val = fmap'[k]
            BY <1>1, <1>3, <1>4, <1>8
        <3>2. meta'.exact => meta'.index[k] = x.ts
            BY <1>1, <1>4, Zenon
        <3>3. \A r \in Records(meta, k) : r.ts < x.ts
            BY <1>12
        <3> QED BY <1>3, <1>4, <1>7, <2>1, <3>1, <3>2, <3>3, KeyAdded, Zenon
    <2>2. CASE j # k
        <3>1. KeyInv(meta, fmap, j) /\ fmap'[j] = fmap[j]
            BY <1>3, <1>8, <2>2
        <3>2. meta'.exact => meta.exact /\ meta'.index[j] = meta.index[j]
            BY <1>1, <2>2
        <3>3. \A r \in Records(meta, j) : r \in Rec /\ 0 < r.ts /\ r.ts <= meta'.clock
            BY <1>1, <1>3, <3>1 DEF KeyInv, Rec
        <3> QED BY <1>7, <2>2, <3>1, <3>2, <3>3, Zenon DEF KeyInv
    <2> QED BY <2>1, <2>2, Zenon
<1>14. GcPlanInv'
    <2> SUFFICES ASSUME plan.kind = "gc"
                 PROVE  /\ DOMAIN plan.table \subseteq Keys
                        /\ \A j \in DOMAIN plan.table : GcEntry(meta', fmap', j, plan.table[j])
        BY <1>2, Zenon DEF GcPlanInv
    <2>1. /\ DOMAIN plan.table \subseteq Keys
          /\ \A j \in DOMAIN plan.table : GcEntry(meta, fmap, j, plan.table[j])
        BY <1>3 DEF GcPlanInv
    <2>2. ASSUME NEW j \in DOMAIN plan.table PROVE GcEntry(meta', fmap', j, plan.table[j])
        <3> DEFINE t == plan.table[j]
        <3>1. GcEntry(meta, fmap, j, t) /\ j \in Keys
            BY <2>1
        <3>2. /\ t \in Rec /\ t.val # Tombstone /\ 0 < t.ts /\ t.ts <= meta.clock
              /\ \A y \in Records(meta, j) : y.ts # t.ts
            BY <3>1, Zenon DEF GcEntry
        <3>3. t.ts <= meta'.clock /\ t.ts \in Nat
            BY <1>1, <1>3, <3>2 DEF Rec
        <3> HIDE DEF t
        <3>4. CASE j = k
            <4>1. t.ts < x.ts /\ \A y \in Records(meta', j) : y.ts # t.ts
                BY <1>3, <1>4, <1>7, <3>2, <3>3, <3>4
            <4>2. IsNewest(x, Records(meta', j))
                BY <1>4, <1>7, <1>12, <3>4 DEF IsNewest, Rec
            <4>3. x \in UnsortedRecords(meta', j)
                BY <1>7, <3>4, Zenon
            <4>4. GcEntry(meta', fmap', j, t)
                BY <3>2, <3>3, <4>1, <4>2, <4>3, Zenon DEF GcEntry
            <4> QED BY <4>4 DEF t
        <3>5. CASE j # k
            <4>1. fmap'[j] = fmap[j] /\ Records(meta', j) = Records(meta, j)
                  /\ UnsortedRecords(meta', j) = UnsortedRecords(meta, j)
                BY <1>7, <1>8, <3>1, <3>5, Zenon
            <4>2. GcEntry(meta', fmap', j, t)
                BY <3>1, <3>3, <4>1, Zenon DEF GcEntry
            <4> QED BY <4>2 DEF t
        <3> QED BY <3>4, <3>5
    <2> QED BY <2>1, <2>2
<1>15. LevelPlanInv'
    <2> SUFFICES ASSUME plan.kind = "level" PROVE LevelPlanInv'
        BY <1>2, Zenon DEF LevelPlanInv
    <2>1. ASSUME NEW j PROVE Inputs(plan, meta', j) = Inputs(plan, meta, j)
        <3>1. Window(plan, meta', j) = Window(plan, meta, j)
            <4>1. plan.n > 0 => ~(x.ts <= plan.head)
                BY <1>3, <1>4, WindowBelow
            <4> QED BY <1>1, <4>1 DEF Window
        <3> QED BY <1>1, <3>1, Zenon DEF Inputs
    <2> QED BY <1>2, <1>3, <2>1, Zenon DEF LevelPlanInv
<1> QED BY <1>9, <1>10, <1>11, <1>13, <1>14, <1>15, Zenon DEF RInv
-----------------------------------------------------------------------------
(* Level compactions.                                                      *)

(* A set of numbers that is not empty has a least element.                 *)
LEMMA Least ==
    ASSUME NEW T, T \subseteq Nat, T # {}
    PROVE  \E x \in T : \A y \in T : x <= y
<1>1. PICK x \in T : \A y \in T : ~(<<y, x>> \in OpToRel(<, Nat))
    BY WFMin, NatLessThanWellFounded, Zenon
<1>2. \A y \in T : ~(y < x)
    BY <1>1, Zenon DEF OpToRel
<1> QED BY <1>2

(* Records with timestamps up to c have a newest one.                      *)
LEMMA NewestExists ==
    ASSUME NEW R, R # {}, NEW c \in Nat, \A r \in R : r.ts \in Nat /\ r.ts <= c
    PROVE  IsNewest(Newest(R), R)
<1> DEFINE T == {c - r.ts : r \in R}
<1>1. T \subseteq Nat /\ T # {}
    OBVIOUS
<1>2. PICK x \in T : \A y \in T : x <= y
    BY <1>1, Least, Zenon
<1>3. PICK r \in R : x = c - r.ts
    OBVIOUS
<1>4. \A s \in R : s.ts <= r.ts
    BY <1>2, <1>3
<1> QED BY <1>4, Zenon DEF Newest, IsNewest

(* A level compaction is prepared for a level below the source.            *)
LEMMA PreparedLevel ==
    ASSUME NEW l \in 0 .. MaxLevel, NEW limit, NEW by, plan' = LevelPlan(l, limit, by)
    PROVE  GcPlanInv' /\ LevelPlanInv'
<1> DEFINE D == {MaxLevel} \cup {d \in l + 1 .. MaxLevel : DynamicLevels(Sizes(meta), base).target[d] # 0}
           dst == DstLevel(Sizes(meta), base, l)
<1>1. MaxLevel \in Nat /\ MaxLevel >= 2
    BY LSMAssumption DEF MaxLevel
<1>2. dst = Min(D)
    BY DEF DstLevel
<1>3. D \subseteq 1 .. MaxLevel /\ D # {}
    BY <1>1
<1> HIDE DEF D, dst
<1>4. \E x \in D : \A y \in D : x <= y
    <2>1. D \subseteq Nat
        BY <1>1, <1>3
    <2> QED BY <1>3, <2>1, Least, Zenon
<1>5. dst \in D
    BY <1>2, <1>4, Zenon DEF Min
<1>6. /\ plan'.kind = "level" /\ plan'.src = l /\ plan'.dst = dst /\ plan'.table = NoTable
      /\ plan'.retire = (dst # l /\ Min({IF l = 0 THEN Len(meta.unsorted) ELSE 0, limit}) =
                                        IF l = 0 THEN Len(meta.unsorted) ELSE 0)
    BY Zenon DEF LevelPlan, dst
<1>7. plan'.retire \in BOOLEAN /\ (plan'.retire => dst # l)
    BY <1>6, Zenon
<1>8. dst # l => l < dst
    BY <1>1, <1>5 DEF D
<1> QED BY <1>3, <1>5, <1>6, <1>7, <1>8, Zenon DEF GcPlanInv, LevelPlanInv

(* The borrowed nodes are those whose timestamps lie in the plan's window. *)
LEMMA WindowIs ==
    ASSUME NEW q \in Seq(Node), Ordered(q), NEW p, p.n \in Nat,
           \A j \in 1 .. Len(q) : 0 < q[j].ts,
           NEW i \in 1 .. Len(q), BorrowedAt(p, q, i)
    PROVE  \A j \in 1 .. Len(q) :
                (p.after < q[j].ts /\ q[j].ts <= p.head) <=> (i <= j /\ j < i + p.n)
<1> SUFFICES ASSUME NEW j \in 1 .. Len(q)
             PROVE  (p.after < q[j].ts /\ q[j].ts <= p.head) <=> (i <= j /\ j < i + p.n)
    BY Zenon
<1>1. \A x \in 1 .. Len(q) : q[x].ts \in Nat
    BY NodesHaveTs, Zenon
<1>2. q[i].ts = p.head /\ i + p.n - 1 <= Len(q) /\ TsAt(q, i + p.n) = p.after
    BY Zenon DEF BorrowedAt
<1>3. \A x, y \in 1 .. Len(q) : x < y => q[y].ts < q[x].ts
    BY Zenon DEF Ordered
<1>4. DOMAIN q = 1 .. Len(q) /\ Len(q) \in Nat
    OBVIOUS
<1>5. q[j].ts <= p.head <=> i <= j
    BY <1>1, <1>2, <1>3, <1>4
<1>6. CASE i + p.n \in DOMAIN q
    <2>1. p.after = q[i + p.n].ts
        BY <1>2, <1>6, Zenon DEF TsAt
    <2>2. p.after < q[j].ts <=> j < i + p.n
        BY <1>1, <1>3, <1>4, <1>6, <2>1
    <2> QED BY <1>5, <2>2, Zenon
<1>7. CASE i + p.n \notin DOMAIN q
    <2>1. p.after = 0
        BY <1>2, <1>7, Zenon DEF TsAt
    <2>2. j < i + p.n
        BY <1>4, <1>7
    <2> QED BY <1>5, <2>1, <2>2, Zenon
<1> QED BY <1>6, <1>7, Zenon

(* The records of the unsorted list are in order of a clock that starts    *)
(* at one.                                                                 *)
LEMMA NodesAreRecords ==
    ASSUME IInv, RInv
    PROVE  \A j \in 1 .. Len(meta.unsorted) :
                /\ meta.unsorted[j].key \in Keys /\ 0 < meta.unsorted[j].ts
                /\ Bare(meta.unsorted[j]) \in UnsortedRecords(meta, meta.unsorted[j].key)
                /\ Bare(meta.unsorted[j]).ts = meta.unsorted[j].ts
<1> SUFFICES ASSUME NEW j \in 1 .. Len(meta.unsorted)
             PROVE  /\ meta.unsorted[j].key \in Keys /\ 0 < meta.unsorted[j].ts
                    /\ Bare(meta.unsorted[j]) \in UnsortedRecords(meta, meta.unsorted[j].key)
                    /\ Bare(meta.unsorted[j]).ts = meta.unsorted[j].ts
    BY Zenon
<1> DEFINE q == meta.unsorted
           x == q[j]
<1>1. q \in Seq(Node) /\ DOMAIN q = 1 .. Len(q)
    BY DEF IInv, ListInv
<1>2. x \in Node
    BY <1>1, ElementOfSeq, Zenon
<1>3. x.key \in Keys /\ Bare(x).ts = x.ts
    BY <1>2, Zenon DEF Node, Bare
<1>4. Bare(x) \in UnsortedRecords(meta, x.key)
    BY <1>1, <1>3, Zenon DEF UnsortedRecords
<1>5. Bare(x) \in Records(meta, x.key) /\ KeyInv(meta, fmap, x.key)
    BY <1>3, <1>4, Zenon DEF Records, RInv
<1>6. 0 < Bare(x).ts
    BY <1>5, Zenon DEF KeyInv
<1> QED BY <1>3, <1>4, <1>6, Zenon

(* The nodes that are built from are those of the window.                  *)
LEMMA BorrowedIs ==
    ASSUME IInv, RInv, plan.kind = "level", NEW k \in Keys
    PROVE  {Bare(Borrowed(plan)[i]) : i \in {j \in DOMAIN Borrowed(plan) : Borrowed(plan)[j].key = k}} =
                Window(plan, meta, k)
<1> DEFINE u == meta.unsorted
           b == Borrowed(plan)
           n == plan.n
<1>1. u \in Seq(Node) /\ Ordered(u) /\ DOMAIN u = 1 .. Len(u) /\ Len(u) \in Nat /\ n \in Nat
    BY DEF IInv, ListInv, PlanInv
<1>2. CASE n = 0
    BY <1>2 DEF Borrowed, Window
<1>3. CASE n # 0
    <2>1. n > 0
        BY <1>1, <1>3
    <2>2. PICK i \in 1 .. Len(u) : BorrowedAt(plan, u, i)
        BY <2>1, Zenon DEF IInv, PlanInv
    <2>3. Position(u, plan.head) = i /\ i + n - 1 <= Len(u)
        BY <1>1, <2>2, OnePosition, Zenon DEF BorrowedAt
    <2>4. b = SubSeq(u, i, i + n - 1)
        BY <1>3, <2>3, Zenon DEF Borrowed
    <2> HIDE DEF b
    <2>5. DOMAIN b = 1 .. n /\ \A j \in 1 .. n : b[j] = u[i + j - 1]
        <3>1. Len(b) = n /\ b \in Seq(Node)
            BY <1>1, <2>1, <2>3, <2>4
        <3>2. \A j \in 1 .. n : b[j] = u[i + j - 1]
            BY <1>1, <2>1, <2>3, <2>4
        <3> QED BY <3>1, <3>2
    <2>6. \A j \in 1 .. Len(u) :
              (plan.after < u[j].ts /\ u[j].ts <= plan.head) <=> (i <= j /\ j < i + n)
        <3>1. \A j \in 1 .. Len(u) : 0 < u[j].ts
            BY NodesAreRecords, Zenon
        <3> QED BY <1>1, <2>2, <3>1, WindowIs, Zenon
    <2>7. \A j \in 1 .. Len(u) : Bare(u[j]).ts = u[j].ts
        BY NodesAreRecords, Zenon
    <2>8. \A r : r \in UnsortedRecords(meta, k) <=> \E j \in 1 .. Len(u) : u[j].key = k /\ r = Bare(u[j])
        BY <1>1, Zenon DEF UnsortedRecords
    <2> HIDE DEF u, n
    <2>9. \A r : r \in Window(plan, meta, k) <=>
                    \E j \in 1 .. Len(u) : i <= j /\ j < i + n /\ u[j].key = k /\ r = Bare(u[j])
        BY <2>1, <2>6, <2>7, <2>8, Zenon DEF Window, n
    <2>10. \A j \in DOMAIN b : /\ i + j - 1 \in 1 .. Len(u) /\ i <= i + j - 1 /\ i + j - 1 < i + n
                               /\ b[j] = u[i + j - 1]
        BY <1>1, <2>3, <2>5
    <2>11. \A j \in 1 .. Len(u) : i <= j /\ j < i + n => j - i + 1 \in DOMAIN b /\ b[j - i + 1] = u[j]
        <3> SUFFICES ASSUME NEW j \in 1 .. Len(u), i <= j, j < i + n
                     PROVE  j - i + 1 \in DOMAIN b /\ b[j - i + 1] = u[j]
            BY Zenon
        <3>1. j - i + 1 \in 1 .. n /\ i + (j - i + 1) - 1 = j
            BY <1>1
        <3> QED BY <2>5, <3>1, Zenon
    <2>12. \A r : (\E j \in DOMAIN b : b[j].key = k /\ r = Bare(b[j])) <=> r \in Window(plan, meta, k)
        BY <2>9, <2>10, <2>11
    <2> QED BY <2>12, Zenon DEF b
<1> QED BY <1>2, <1>3, Zenon

(* What a compaction takes are records.                                    *)
LEMMA InputsAreRecords ==
    ASSUME NEW p, NEW m, NEW k
    PROVE  Inputs(p, m, k) \subseteq Records(m, k)
<1>1. Window(p, m, k) \subseteq UnsortedRecords(m, k)
    BY DEF Window
<1>2. {m.sorted[l][k] : l \in {j \in 1 .. MaxLevel : p.retire /\ j = p.src /\ k \in DOMAIN m.sorted[j]}}
            \subseteq SortedRecords(m, k, 1 .. MaxLevel)
    BY Zenon DEF SortedRecords
<1> QED BY <1>1, <1>2, Zenon DEF Inputs, Records

(* The table that is built holds the newest input of every key.            *)
LEMMA BuiltIs ==
    ASSUME IInv, RInv, plan.kind = "level"
    PROVE  /\ DOMAIN Built(plan) \subseteq Keys
           /\ \A k \in Keys : IF k \in DOMAIN Built(plan)
                              THEN IsNewest(Built(plan)[k], Inputs(plan, meta, k))
                              ELSE Inputs(plan, meta, k) = {}
<1> DEFINE q == Borrowed(plan)
           t == SourceSorted(plan)
           Of(k) == {Bare(q[i]) : i \in {j \in DOMAIN q : q[j].key = k}}
                        \cup (IF k \in DOMAIN t THEN {t[k]} ELSE {})
           T == [k \in {j \in Keys : Of(j) # {}} |-> Newest(Of(k))]
<1>1. Built(plan) = T
    BY Zenon DEF Built
<1>2. ASSUME NEW k \in Keys
      PROVE  Of(k) = Inputs(plan, meta, k)
    <2> DEFINE S == {meta.sorted[l][k] : l \in {j \in 1 .. MaxLevel :
                        plan.retire /\ j = plan.src /\ k \in DOMAIN meta.sorted[j]}}
    <2>1. (IF k \in DOMAIN t THEN {t[k]} ELSE {}) = S
        <3>1. plan.src \in 0 .. MaxLevel
            BY Zenon DEF RInv, LevelPlanInv
        <3>2. CASE plan.retire /\ plan.src > 0
            <4>1. t = meta.sorted[plan.src] /\ plan.src \in 1 .. MaxLevel
                BY <3>1, <3>2 DEF SourceSorted
            <4> QED BY <3>2, <4>1, Zenon
        <3>3. CASE ~(plan.retire /\ plan.src > 0)
            <4>1. DOMAIN t = {}
                BY <3>3 DEF SourceSorted, NoTable
            <4>2. \A j \in 1 .. MaxLevel : ~(plan.retire /\ j = plan.src)
                BY <3>3
            <4> QED BY <4>1, <4>2, Zenon
        <3> QED BY <3>2, <3>3, Zenon
    <2>2. {Bare(q[i]) : i \in {j \in DOMAIN q : q[j].key = k}} = Window(plan, meta, k)
        BY BorrowedIs, Zenon
    <2> HIDE DEF q, t
    <2> QED BY <2>1, <2>2, Zenon DEF Inputs
<1> HIDE DEF Of
<1>3. DOMAIN T = {j \in Keys : Of(j) # {}} /\ \A k \in DOMAIN T : T[k] = Newest(Of(k))
    BY Zenon
<1> HIDE DEF T
<1>4. ASSUME NEW k \in Keys, Inputs(plan, meta, k) # {}
      PROVE  IsNewest(Newest(Inputs(plan, meta, k)), Inputs(plan, meta, k))
    <2>1. KeyInv(meta, fmap, k) /\ meta.clock \in Nat
        BY Zenon DEF RInv, MetaShape
    <2>2. \A r \in Records(meta, k) : r \in Rec /\ r.ts <= meta.clock
        BY <2>1, Zenon DEF KeyInv
    <2>3. \A r \in Inputs(plan, meta, k) : r.ts \in Nat /\ r.ts <= meta.clock
        BY <2>2, InputsAreRecords DEF Rec
    <2> QED BY <1>4, <2>1, <2>3, NewestExists, Zenon
<1>5. \A k \in Keys : IF k \in DOMAIN T THEN IsNewest(T[k], Inputs(plan, meta, k))
                      ELSE Inputs(plan, meta, k) = {}
    BY <1>2, <1>3, <1>4, Zenon
<1> QED BY <1>1, <1>3, <1>5, Zenon

(* Building keeps the invariant.                                           *)
LEMMA BuildKeeps ==
    ASSUME IInv, RInv, Build
    PROVE  RInv'
<1>1. /\ plan.kind = "level" /\ plan' = [plan EXCEPT !.table = Built(plan)]
      /\ UNCHANGED <<meta, fmap>>
    BY DEF Build
<1>2. IsPlan(plan)
    BY <1>1 DEF IInv, PlanInv
<1> DEFINE T == Built(plan)
<1>3. /\ DOMAIN T \subseteq Keys
      /\ \A k \in Keys : IF k \in DOMAIN T THEN IsNewest(T[k], Inputs(plan, meta, k))
                         ELSE Inputs(plan, meta, k) = {}
    BY <1>1, BuiltIs
<1> HIDE DEF T
<1>4. /\ plan'.kind = "level" /\ plan'.src = plan.src /\ plan'.dst = plan.dst /\ plan'.n = plan.n
      /\ plan'.head = plan.head /\ plan'.after = plan.after /\ plan'.retire = plan.retire
      /\ plan'.table = T
    BY <1>1, <1>2, ZenonT(30) DEF IsPlan, PlanFields, T
<1>5. \A k : Inputs(plan', meta', k) = Inputs(plan, meta, k)
    BY <1>1, <1>4 DEF Inputs, Window
<1>6. LevelPlanInv'
    <2>1. /\ plan.src \in 0 .. MaxLevel /\ plan.dst \in 1 .. MaxLevel
          /\ plan.retire \in BOOLEAN /\ (plan.retire => plan.src < plan.dst)
        BY <1>1 DEF RInv, LevelPlanInv
    <2> QED BY <1>3, <1>4, <1>5, <2>1, Zenon DEF LevelPlanInv
<1>7. GcPlanInv'
    BY <1>4 DEF GcPlanInv
<1> QED BY <1>1, <1>6, <1>7, Zenon DEF RInv
-----------------------------------------------------------------------------
(* Steps that leave the metadata alone, and those that forget it.          *)

(* A step that touches neither metadata nor forward map keeps the          *)
(* invariant, also when it drops the plan.                                 *)
LEMMA FrameKeeps ==
    ASSUME RInv, UNCHANGED <<meta, fmap>>, plan' = plan \/ plan' = NoPlan
    PROVE  RInv'
<1>1. CASE plan' = plan
    BY <1>1, Zenon DEF RInv, GcPlanInv, LevelPlanInv
<1>2. CASE plan' = NoPlan
    <2>1. plan'.kind = "none"
        BY <1>2, Zenon DEF NoPlan
    <2>2. GcPlanInv' /\ LevelPlanInv'
        BY <2>1, Zenon DEF GcPlanInv, LevelPlanInv
    <2> QED BY <2>2, Zenon DEF RInv
<1> QED BY <1>1, <1>2, Zenon

(* Empty metadata have no records.                                         *)
LEMMA EmptyKeys ==
    ASSUME NEW f
    PROVE  /\ MetaShape(EmptyMeta) /\ Covered(EmptyMeta.segs, EmptyMeta.sorted)
           /\ \A k \in Keys : KeyInv(EmptyMeta, f, k)
<1> DEFINE m == EmptyMeta
<1>1. /\ m.clock = 0 /\ m.unsorted = <<>> /\ m.sorted = [l \in 1 .. MaxLevel |-> <<>>]
      /\ m.segs = {} /\ m.had = {} /\ m.index = [k \in Keys |-> 0] /\ m.exact = TRUE /\ IsMeta(m)
    <2>1. /\ m.clock = 0 /\ m.unsorted = <<>> /\ m.sorted = [l \in 1 .. MaxLevel |-> <<>>]
          /\ m.segs = {} /\ m.had = {} /\ m.index = [k \in Keys |-> 0] /\ m.exact = TRUE
        BY Zenon DEF EmptyMeta
    <2> QED BY <2>1, EmptyNeedsNothing, Zenon
<1> HIDE DEF m
<1>2. DOMAIN m.sorted = 1 .. MaxLevel /\ \A l \in 1 .. MaxLevel : DOMAIN m.sorted[l] = {}
    BY <1>1
<1>3. SortedShape(m)
    BY <1>2, Zenon DEF SortedShape
<1>4. m.index \in [Keys -> Nat] /\ m.exact \in BOOLEAN /\ m.clock \in Nat
    <2>1. m.exact \in BOOLEAN
        BY <1>1, Zenon
    <2>2. m.index \in [Keys -> Nat] /\ m.clock \in Nat
        BY <1>1
    <2> QED BY <2>1, <2>2, Zenon
<1>5. SegShape(m.segs) /\ Covered(m.segs, m.sorted)
    BY <1>1, Zenon DEF SegShape, Covered
<1>6. MetaShape(m)
    BY <1>1, <1>3, <1>4, <1>5, Zenon DEF MetaShape
<1>7. ASSUME NEW k \in Keys PROVE KeyInv(m, f, k)
    <2>1. DOMAIN m.unsorted = {}
        BY <1>1
    <2>2. UnsortedRecords(m, k) = {}
        BY <2>1, Zenon DEF UnsortedRecords
    <2>3. SortedRecords(m, k, 1 .. MaxLevel) = {}
        BY <1>2, Zenon DEF SortedRecords
    <2>4. SegmentRecords(m, k) = {}
        BY <1>1, Zenon DEF SegmentRecords
    <2>5. Records(m, k) = {} /\ m.index[k] = 0
        BY <1>1, <2>2, <2>3, <2>4, Zenon DEF Records
    <2> QED BY <2>5, Zenon DEF KeyInv
<1> QED BY <1>5, <1>6, <1>7, Zenon DEF m

(* The invariant holds when the target is created: there are no records,   *)
(* so every lookup falls back to the forward map.                          *)
LEMMA InitR ==
    ASSUME Init
    PROVE  RInv
<1>1. meta = EmptyMeta /\ plan = NoPlan
    BY Zenon DEF Init
<1>2. fmap \in [Keys -> Nat]
    BY DEF Init, Keys
<1>3. plan.kind = "none"
    BY <1>1, Zenon DEF NoPlan
<1>4. GcPlanInv /\ LevelPlanInv
    BY <1>3, Zenon DEF GcPlanInv, LevelPlanInv
<1> QED BY <1>1, <1>2, <1>4, EmptyKeys, Zenon DEF RInv

(* A reload and a reset of the zones forget every record, and keep the     *)
(* invariant.                                                              *)
LEMMA ForgetKeeps ==
    ASSUME RInv, Reload \/ ResetZones
    PROVE  RInv'
<1>1. meta' = EmptyMeta /\ plan' = plan /\ plan = NoPlan
    BY Zenon DEF Reload, ResetZones, CompactionLockFree
<1>2. fmap' \in [Keys -> Nat]
    <2>1. fmap' = fmap \/ fmap' = [k \in Keys |-> 0]
        BY Zenon DEF Reload, ResetZones
    <2> QED BY <2>1 DEF RInv
<1>3. plan'.kind = "none"
    BY <1>1, Zenon DEF NoPlan
<1>4. GcPlanInv' /\ LevelPlanInv'
    BY <1>3, Zenon DEF GcPlanInv, LevelPlanInv
<1> QED BY <1>1, <1>2, <1>4, EmptyKeys, Zenon DEF RInv
-----------------------------------------------------------------------------
(* Collections.                                                            *)

(* The plan of a collection copies blocks under fresh timestamps, which    *)
(* are the newest until a writer intervenes.                               *)
LEMMA GcPrepareKeeps ==
    ASSUME RInv, NEW K \in SUBSET Keys, GcPrepare(K)
    PROVE  RInv'
<1> DEFINE Rank(k) == Cardinality({j \in K : j <= k})
           T == [k \in K |-> [ts |-> meta.clock + Rank(k), val |-> fmap[k]]]
<1>1. /\ \A k \in K : fmap[k] # 0
      /\ plan' = [kind |-> "gc", table |-> T]
      /\ meta' = [meta EXCEPT !.clock = meta.clock + Cardinality(K)]
      /\ fmap' = fmap
    BY Zenon DEF GcPrepare
<1>2. /\ IsMeta(meta) /\ meta.clock \in Nat /\ fmap \in [Keys -> Nat] /\ MetaShape(meta)
      /\ Covered(meta.segs, meta.sorted) /\ \A k \in Keys : KeyInv(meta, fmap, k)
    BY Zenon DEF RInv, MetaShape
<1>3. IsFiniteSet(K)
    <2>1. IsFiniteSet(Keys)
        BY LSMAssumption, FS_Interval DEF Keys
    <2> QED BY <2>1, FS_Subset, Zenon
<1>4. Cardinality(K) \in Nat /\ \A k \in K : Rank(k) \in Nat /\ 0 < Rank(k) /\ Rank(k) <= Cardinality(K)
    <2>1. Cardinality(K) \in Nat
        BY <1>3, FS_CardinalityType, Zenon
    <2>2. ASSUME NEW k \in K PROVE Rank(k) \in Nat /\ 0 < Rank(k) /\ Rank(k) <= Cardinality(K)
        <3> DEFINE J == {j \in K : j <= k}
        <3>1. J \subseteq K /\ k \in J
            BY DEF Keys
        <3> HIDE DEF J
        <3>2. IsFiniteSet(J) /\ Cardinality(J) <= Cardinality(K)
            BY <1>3, <3>1, FS_Subset, Zenon
        <3>3. Cardinality(J) \in Nat /\ Cardinality(J) # 0
            BY <3>1, <3>2, FS_CardinalityType, FS_EmptySet, Zenon
        <3> QED BY <3>2, <3>3 DEF J
    <2> QED BY <2>1, <2>2, Zenon
<1> HIDE DEF Rank
<1>5. /\ IsMeta(meta') /\ meta'.clock = meta.clock + Cardinality(K) /\ meta'.unsorted = meta.unsorted
      /\ meta'.sorted = meta.sorted /\ meta'.segs = meta.segs /\ meta'.had = meta.had
      /\ meta'.index = meta.index /\ meta'.exact = meta.exact
    BY <1>1, <1>2, ZenonT(30) DEF IsMeta, MetaFields
<1>6. meta'.clock \in Nat /\ meta.clock <= meta'.clock
    BY <1>2, <1>4, <1>5
<1>7. \A k : Records(meta', k) = Records(meta, k) /\ Searched(meta', k) = Searched(meta, k)
    BY <1>5, Zenon DEF Records, Searched, UnsortedRecords, SortedRecords, SegmentRecords
<1>8. MetaShape(meta')
    BY <1>2, <1>5, <1>6, Zenon DEF MetaShape, SortedShape
<1>9. Covered(meta'.segs, meta'.sorted)
    BY <1>2, <1>5, Zenon
<1>10. ASSUME NEW k \in Keys PROVE KeyInv(meta', fmap', k)
    <2>1. \A r \in Records(meta, k) : r \in Rec /\ 0 < r.ts /\ r.ts <= meta.clock
        BY <1>2, Zenon DEF KeyInv
    <2>2. \A r \in Records(meta, k) : r \in Rec /\ 0 < r.ts /\ r.ts <= meta'.clock
        BY <1>2, <1>6, <2>1 DEF Rec
    <2>3. /\ Records(meta', k) = Records(meta, k) /\ Searched(meta', k) = Searched(meta, k)
          /\ meta'.exact = meta.exact /\ meta'.index[k] = meta.index[k] /\ fmap'[k] = fmap[k]
        BY <1>1, <1>5, <1>7
    <2>4. KeyInv(meta, fmap, k)
        BY <1>2
    <2> QED BY <2>2, <2>3, <2>4, ZenonT(30) DEF KeyInv
<1>11. plan'.kind = "gc" /\ plan'.table = T
    BY <1>1
<1>12. ASSUME NEW k \in K PROVE GcEntry(meta', fmap', k, T[k])
    <2> DEFINE t == T[k]
    <2>1. t = [ts |-> meta.clock + Rank(k), val |-> fmap[k]]
        OBVIOUS
    <2> HIDE DEF T, t
    <2>2. fmap[k] \in Nat /\ fmap[k] # Tombstone
        BY <1>1, <1>2 DEF Tombstone
    <2>3. t.ts \in Nat /\ meta.clock < t.ts /\ t.ts <= meta'.clock /\ t.val = fmap[k] /\ t \in Rec
        BY <1>2, <1>4, <1>5, <2>1, <2>2 DEF Rec
    <2>4. \A r \in Records(meta', k) : r.ts < t.ts /\ r.ts # t.ts
        <3>1. \A r \in Records(meta, k) : r \in Rec /\ r.ts <= meta.clock
            BY <1>2, Zenon DEF KeyInv
        <3> QED BY <1>2, <1>7, <2>3, <3>1 DEF Rec
    <2>5. 0 < t.ts
        BY <1>2, <2>3
    <2> QED BY <1>1, <2>2, <2>3, <2>4, <2>5, Zenon DEF GcEntry, t
<1>13. DOMAIN T = K
    OBVIOUS
<1> HIDE DEF T
<1>14. GcPlanInv' /\ LevelPlanInv'
    BY <1>11, <1>12, <1>13, Zenon DEF GcPlanInv, LevelPlanInv
<1> QED BY <1>1, <1>2, <1>8, <1>9, <1>10, <1>14, Zenon DEF RInv

(* A record is its timestamp and its address.                              *)
LEMMA BareRec ==
    \A r \in Rec : Bare(r) = r
BY DEF Rec, Bare

(* A linked segment adds the records of its table.                         *)
LEMMA LinkedRecords ==
    ASSUME NEW m, NEW n, NEW s, n.segs = m.segs \cup {s}
    PROVE  \A k : SegmentRecords(n, k) =
                SegmentRecords(m, k) \cup (IF k \in DOMAIN s.table THEN {Bare(s.table[k])} ELSE {})
<1> SUFFICES ASSUME NEW k
             PROVE  SegmentRecords(n, k) =
                SegmentRecords(m, k) \cup (IF k \in DOMAIN s.table THEN {Bare(s.table[k])} ELSE {})
    BY Zenon
<1>1. \A r : r \in SegmentRecords(n, k) <=>
                \E t \in m.segs \cup {s} : k \in DOMAIN t.table /\ r = Bare(t.table[k])
    BY Zenon DEF SegmentRecords
<1>2. \A r : r \in SegmentRecords(m, k) <=>
                \E t \in m.segs : k \in DOMAIN t.table /\ r = Bare(t.table[k])
    BY Zenon DEF SegmentRecords
<1> QED BY <1>1, <1>2

\* n is m after a segment of level l with the records T was linked and accounted for.
LinkedIn(m, l, T, n) ==
    /\ SameLists(m, n) /\ SameSegs(m.segs \cup {NewSegment(l, T)}, n.segs)
    /\ n.had = m.had \cup {l} /\ n.index = m.index /\ n.exact = m.exact
    /\ \A k : SegmentRecords(n, k) =
                SegmentRecords(m, k) \cup (IF k \in DOMAIN T THEN {Bare(T[k])} ELSE {})

(* If the index knows the records, linking a segment leaves it alone.      *)
LEMMA LinkAccount ==
    ASSUME NEW m, IsMeta(m), m.index \in [Keys -> Nat], m.exact \in BOOLEAN, SegShape(m.segs),
           NEW f, NEW l \in 1 .. MaxLevel, NEW T, DOMAIN T \subseteq Keys,
           \A k \in DOMAIN T : T[k].ts \in Nat /\ T[k].val \in Nat,
           \A k \in DOMAIN T : m.exact => T[k].ts <= m.index[k]
    PROVE  LinkedIn(m, l, T, Account(Linked(m, NewSegment(l, T)), f, NewSegment(l, T)))
<1> DEFINE new == NewSegment(l, T)
           m1 == Linked(m, new)
           n == Account(m1, f, new)
<1>1. /\ IsSegment(new) /\ new.level = l /\ DOMAIN new.table = DOMAIN T
      /\ \A k \in DOMAIN T : new.table[k].ts = T[k].ts /\ Bare(new.table[k]) = Bare(T[k])
    BY NewSegmentData
<1> HIDE DEF new
<1>2. /\ SameLists(m, m1) /\ m1.index = m.index /\ m1.exact = m.exact
      /\ m1.segs = m.segs \cup {new} /\ m1.had = m.had \cup {new.level}
    BY LinkedData
<1> HIDE DEF m1
<1>3. IsMeta(m1) /\ SegShape(m1.segs) /\ new \in m1.segs /\ m1.index \in [Keys -> Nat]
    BY <1>1, <1>2, Zenon DEF SameLists, SegShape
<1>4. m1.exact \in BOOLEAN
    BY <1>2, Zenon
<1>5. Accounted(m1, new, n)
    BY <1>3, <1>4, AccountData, Zenon
<1> HIDE DEF n
<1>6. SameLists(m1, n) /\ SameSegs(m1.segs, n.segs) /\ n.had = m1.had /\ n.exact = m1.exact
    BY <1>5, Zenon DEF Accounted
<1>7. n.index = m1.index
    <2>1. \A k \in DOMAIN new.table : m1.exact => new.table[k].ts <= m1.index[k]
        BY <1>1, <1>2, Zenon
    <2> QED BY <1>5, <2>1, Zenon DEF Accounted
<1>8. SameLists(m, n)
    BY <1>2, <1>6, Zenon DEF SameLists
<1>9. \A k : SegmentRecords(n, k) = SegmentRecords(m1, k)
    BY <1>6, SameSegsSameRecords, Zenon
<1>10. \A k : SegmentRecords(m1, k) =
            SegmentRecords(m, k) \cup (IF k \in DOMAIN new.table THEN {Bare(new.table[k])} ELSE {})
    <2>1. m1.segs = m.segs \cup {new}
        BY <1>2, Zenon
    <2> QED BY ONLY <2>1, LinkedRecords, Zenon
<1>11. \A k : SegmentRecords(n, k) =
            SegmentRecords(m, k) \cup (IF k \in DOMAIN T THEN {Bare(T[k])} ELSE {})
    BY <1>1, <1>9, <1>10, Zenon
<1>12. n.had = m.had \cup {l} /\ n.index = m.index /\ n.exact = m.exact
       /\ SameSegs(m.segs \cup {new}, n.segs)
    BY <1>1, <1>2, <1>6, <1>7, Zenon
<1> QED BY <1>8, <1>11, <1>12, Zenon DEF LinkedIn, n, m1, new

(* The records after a segment was linked.                                 *)
LEMMA LinkedInRecords ==
    ASSUME NEW m, NEW l, NEW T, NEW n, LinkedIn(m, l, T, n), \A k \in DOMAIN T : T[k] \in Rec
    PROVE  /\ \A k : k \notin DOMAIN T => /\ Records(n, k) = Records(m, k)
                                          /\ Searched(n, k) = Searched(m, k)
           /\ \A k \in DOMAIN T : /\ Records(n, k) = Records(m, k) \cup {T[k]}
                                  /\ Searched(n, k) = Searched(m, k) \cup {T[k]}
           /\ \A k : UnsortedRecords(n, k) = UnsortedRecords(m, k)
<1>1. \A k : UnsortedRecords(n, k) = UnsortedRecords(m, k)
    BY Zenon DEF UnsortedRecords, SameLists, LinkedIn
<1>2. \A k : SortedRecords(n, k, 1 .. MaxLevel) = SortedRecords(m, k, 1 .. MaxLevel)
    BY Zenon DEF SortedRecords, SameLists, LinkedIn
<1>3. /\ \A k : k \notin DOMAIN T => SegmentRecords(n, k) = SegmentRecords(m, k)
      /\ \A k \in DOMAIN T : SegmentRecords(n, k) = SegmentRecords(m, k) \cup {T[k]}
    BY BareRec, Zenon DEF LinkedIn
<1>4. \A k : k \notin DOMAIN T => Records(n, k) = Records(m, k) /\ Searched(n, k) = Searched(m, k)
    BY <1>1, <1>2, <1>3, Zenon DEF Records, Searched
<1>5. \A k \in DOMAIN T : /\ Records(n, k) = Records(m, k) \cup {T[k]}
                          /\ Searched(n, k) = Searched(m, k) \cup {T[k]}
    BY <1>1, <1>2, <1>3 DEF Records, Searched
<1> QED BY <1>1, <1>4, <1>5, Zenon

(* What the index learned of the records T, if it is still exact.          *)
LEMMA LearnedIndex ==
    ASSUME NEW m, NEW T, NEW ok, NEW n, IndexLearned(m, T, ok, n), m.index \in [Keys -> Nat],
           n.exact, NEW k \in DOMAIN T, k \in Keys, T[k].ts \in Nat
    PROVE  n.index[k] = IF T[k].ts > m.index[k] THEN T[k].ts ELSE m.index[k]
<1>1. m.exact /\ (ok \/ m.index[k] # 0)
    BY Zenon DEF IndexLearned
<1>2. n.index[k] = IF m.index[k] = 0 THEN (IF ok THEN T[k].ts ELSE m.index[k])
                   ELSE IF T[k].ts > m.index[k] THEN T[k].ts ELSE m.index[k]
    BY Zenon DEF IndexLearned
<1>3. m.index[k] \in Nat
    BY Zenon
<1>4. CASE m.index[k] = 0
    <2>1. n.index[k] = T[k].ts
        BY <1>1, <1>2, <1>4, Zenon
    <2> QED BY <1>4, <2>1
<1>5. CASE m.index[k] # 0
    BY <1>2, <1>5, Zenon
<1> QED BY <1>4, <1>5, Zenon

(* Publishing a collection keeps the invariant: a copy that was overtaken  *)
(* by a write is linked behind that write.                                 *)
LEMMA GcPublishKeeps ==
    ASSUME RInv, NEW ok \in BOOLEAN, GcPublish(ok)
    PROVE  RInv'
<1> DEFINE T == plan.table
           m == IndexUpdate(meta, T, ok)
<1>1. /\ plan.kind = "gc" /\ fmap' = fmap /\ plan' = NoPlan
      /\ meta' = Account(Linked(m, NewSegment(MaxLevel, T)), fmap, NewSegment(MaxLevel, T))
    BY Zenon DEF GcPublish
<1>2. /\ IsMeta(meta) /\ meta.clock \in Nat /\ meta.index \in [Keys -> Nat] /\ meta.exact \in BOOLEAN
      /\ SegShape(meta.segs) /\ SortedShape(meta)
      /\ Covered(meta.segs, meta.sorted) /\ \A k \in Keys : KeyInv(meta, fmap, k)
      /\ fmap \in [Keys -> Nat]
    BY Zenon DEF RInv, MetaShape
<1>3. DOMAIN T \subseteq Keys /\ \A k \in DOMAIN T : GcEntry(meta, fmap, k, T[k])
    BY <1>1, Zenon DEF RInv, GcPlanInv
<1> HIDE DEF T
<1>4. \A k \in DOMAIN T : T[k] \in Rec /\ T[k].val # Tombstone /\ 0 < T[k].ts /\ T[k].ts <= meta.clock
    BY <1>3, Zenon DEF GcEntry
<1>5. \A k \in DOMAIN T : T[k].ts \in Nat /\ T[k].val \in Nat
    BY <1>4, Zenon DEF Rec
<1>6. IndexLearned(meta, T, ok, m)
    BY <1>2, <1>3, <1>5, IndexUpdateData, Zenon
<1> HIDE DEF m
<1>7. /\ SameLists(meta, m) /\ SameSegs(meta.segs, m.segs) /\ m.had = meta.had
      /\ m.index \in [Keys -> Nat] /\ m.exact \in BOOLEAN /\ (m.exact => meta.exact)
      /\ \A k \in Keys : k \notin DOMAIN T => m.index[k] = meta.index[k]
    BY <1>6, Zenon DEF IndexLearned
<1>8. ASSUME NEW k \in DOMAIN T, m.exact
      PROVE  m.index[k] = IF T[k].ts > meta.index[k] THEN T[k].ts ELSE meta.index[k]
    BY <1>2, <1>3, <1>5, <1>6, <1>8, LearnedIndex
<1>9. \A k \in DOMAIN T : m.exact => T[k].ts <= m.index[k]
    <2>1. \A k \in DOMAIN T : meta.index[k] \in Nat
        BY <1>2, <1>3, Zenon
    <2> QED BY <1>5, <1>8, <2>1
<1>10. IsMeta(m) /\ SegShape(m.segs)
    BY <1>7, SameSegsFacts, Zenon DEF SameLists
<1>11. MaxLevel \in 1 .. MaxLevel
    BY LSMAssumption DEF MaxLevel
<1>12. LinkedIn(m, MaxLevel, T, meta')
    BY <1>1, <1>3, <1>5, <1>7, <1>9, <1>10, <1>11, LinkAccount, Zenon
<1>13. /\ SameLists(m, meta') /\ SameSegs(m.segs \cup {NewSegment(MaxLevel, T)}, meta'.segs)
       /\ meta'.had = m.had \cup {MaxLevel} /\ meta'.index = m.index /\ meta'.exact = m.exact
    BY <1>12, Zenon DEF LinkedIn
<1>14. SameLists(meta, meta') /\ IsMeta(meta') /\ meta'.clock = meta.clock /\ meta'.sorted = meta.sorted
    BY <1>7, <1>13, Zenon DEF SameLists
<1>15. MetaShape(meta')
    <2>1. SegShape(meta'.segs)
        <3>1. SameSegs(m.segs \cup {NewSegment(MaxLevel, T)}, meta'.segs)
            BY <1>13, Zenon
        <3> QED BY <3>1, SameSegsShape, Zenon
    <2>2. SortedShape(meta')
        BY <1>2, <1>7, <1>13, <1>14, Zenon DEF SortedShape
    <2>3. meta'.index \in [Keys -> Nat] /\ meta'.exact \in BOOLEAN /\ meta'.clock \in Nat
        BY <1>2, <1>7, <1>13, <1>14, Zenon
    <2> QED BY <1>14, <2>1, <2>2, <2>3, Zenon DEF MetaShape
<1>16. Covered(meta'.segs, meta'.sorted)
    <2> DEFINE new == NewSegment(MaxLevel, T)
    <2>1. Covered(m.segs, meta.sorted)
        BY <1>2, <1>7, CoveredKept, Zenon
    <2>2. /\ IsSegment(new) /\ new.level = MaxLevel
          /\ \A k \in DOMAIN new.table : new.table[k].val # Tombstone
        BY <1>3, <1>4, <1>5, <1>11, NewSegmentData
    <2> HIDE DEF new
    <2>3. ~(new.level < MaxLevel)
        BY <1>11, <2>2
    <2>4. Covered(m.segs \cup {new}, meta.sorted)
        BY <2>1, <2>2, <2>3, Zenon DEF Covered
    <2>5. SegShape(m.segs \cup {new})
        BY <1>10, <2>2, Zenon DEF SegShape
    <2> QED BY <1>13, <1>14, <2>4, <2>5, CoveredKept, Zenon DEF new
<1>17. /\ \A k : k \notin DOMAIN T => /\ Records(meta', k) = Records(meta, k)
                                      /\ Searched(meta', k) = Searched(meta, k)
       /\ \A k \in DOMAIN T : /\ Records(meta', k) = Records(meta, k) \cup {T[k]}
                              /\ Searched(meta', k) = Searched(meta, k) \cup {T[k]}
    <2>1. \A k : Records(m, k) = Records(meta, k) /\ Searched(m, k) = Searched(meta, k)
        BY <1>7, SameRecords, Zenon
    <2>2. /\ \A k : k \notin DOMAIN T => /\ Records(meta', k) = Records(m, k)
                                         /\ Searched(meta', k) = Searched(m, k)
          /\ \A k \in DOMAIN T : /\ Records(meta', k) = Records(m, k) \cup {T[k]}
                                 /\ Searched(meta', k) = Searched(m, k) \cup {T[k]}
        BY <1>4, <1>12, LinkedInRecords
    <2> QED BY <2>1, <2>2, Zenon
<1>18. ASSUME NEW k \in Keys PROVE KeyInv(meta', fmap, k)
    <2>1. KeyInv(meta, fmap, k)
        BY <1>2, Zenon
    <2>2. CASE k \notin DOMAIN T
        <3>1. Records(meta', k) = Records(meta, k) /\ Searched(meta', k) = Searched(meta, k)
            BY <1>17, <2>2, Zenon
        <3>2. meta'.exact => meta.exact /\ meta'.index[k] = meta.index[k]
            BY <1>7, <1>13, <2>2, Zenon
        <3> QED BY <1>14, <2>1, <3>1, <3>2, ZenonT(30) DEF KeyInv
    <2>3. CASE k \in DOMAIN T
        <3> DEFINE t == T[k]
                   R == Records(meta, k)
        <3>1. GcEntry(meta, fmap, k, t)
            BY <1>3, <2>3, Zenon
        <3>2. t \in Rec /\ 0 < t.ts /\ t.ts <= meta'.clock /\ t.ts \in Nat
            BY <1>4, <1>5, <1>14, <2>3, Zenon
        <3>3. Records(meta', k) = R \cup {t} /\ t \in Searched(meta', k)
              /\ Searched(meta, k) \subseteq Searched(meta', k)
            BY <1>17, <2>3, Zenon
        <3>4. meta'.exact => /\ meta.exact
                             /\ meta'.index[k] = IF t.ts > meta.index[k] THEN t.ts ELSE meta.index[k]
            BY <1>7, <1>8, <1>13, <2>3, Zenon
        <3>5. meta.exact => \/ R = {} /\ meta.index[k] = 0
                            \/ \E r \in R : IsNewest(r, R) /\ r.ts = meta.index[k]
            BY <2>1, Zenon DEF KeyInv
        <3>6. \A r \in R : r \in Rec /\ r.ts \in Nat
            BY <2>1, Zenon DEF KeyInv, Rec
        <3> HIDE DEF t
        <3>7. CASE t.val = fmap[k] /\ \A x \in R : x.ts < t.ts
            <4>1. meta'.exact => meta'.index[k] = t.ts
                <5>1. meta.exact => t.ts > meta.index[k]
                    BY <3>2, <3>5, <3>7, Zenon
                <5> QED BY <3>4, <5>1, Zenon
            <4>2. meta'.clock \in Nat /\ meta.clock <= meta'.clock
                BY <1>2, <1>14
            <4> QED BY <1>2, <2>1, <3>2, <3>3, <3>7, <4>1, <4>2, KeyAdded, Zenon
        <3>8. CASE \E y \in UnsortedRecords(meta, k) : IsNewest(y, R) /\ t.ts < y.ts
            <4>1. PICK y \in UnsortedRecords(meta, k) : IsNewest(y, R) /\ t.ts < y.ts
                BY <3>8, Zenon
            <4>2. y \in Searched(meta', k)
                BY <3>3, Zenon DEF Searched
            <4>3. meta'.exact => meta.exact /\ meta'.index[k] = meta.index[k]
                <5>1. meta.exact => ~(t.ts > meta.index[k])
                    BY <3>2, <3>5, <3>6, <4>1 DEF IsNewest
                <5> QED BY <3>4, <5>1, Zenon
            <4>4. \A r \in R : r.ts # t.ts
                BY <3>1, Zenon DEF GcEntry
            <4> QED BY <1>14, <2>1, <3>2, <3>3, <4>1, <4>2, <4>3, <4>4, KeyAddedOlder, Zenon
        <3> QED BY <3>1, <3>7, <3>8, Zenon DEF GcEntry
    <2> QED BY <2>2, <2>3, Zenon
<1>19. plan'.kind = "none"
    BY <1>1, Zenon DEF NoPlan
<1>20. GcPlanInv' /\ LevelPlanInv'
    BY <1>19, Zenon DEF GcPlanInv, LevelPlanInv
<1> QED BY <1>1, <1>2, <1>15, <1>16, <1>18, <1>20, Zenon DEF RInv
-----------------------------------------------------------------------------
(* The lists and segments a level compaction publishes.                    *)

(* Publication takes the borrowed nodes, and no others, off the list.      *)
LEMMA WithoutRecords ==
    ASSUME IInv, RInv, plan.kind = "level", NEW m,
           m.unsorted = IF plan.n = 0 THEN meta.unsorted
                        ELSE Without(meta.unsorted, Position(meta.unsorted, plan.head), plan.n)
    PROVE  \A k \in Keys : UnsortedRecords(m, k) = UnsortedRecords(meta, k) \ Window(plan, meta, k)
<1> DEFINE u == meta.unsorted
           n == plan.n
           r == m.unsorted
<1>1. u \in Seq(Node) /\ Ordered(u) /\ DOMAIN u = 1 .. Len(u) /\ Len(u) \in Nat /\ n \in Nat
    BY DEF IInv, ListInv, PlanInv
<1> SUFFICES ASSUME NEW k \in Keys
             PROVE  UnsortedRecords(m, k) = UnsortedRecords(meta, k) \ Window(plan, meta, k)
    BY Zenon
<1>2. CASE n = 0
    <2>1. Window(plan, meta, k) = {}
        BY <1>2 DEF Window
    <2>2. UnsortedRecords(m, k) = UnsortedRecords(meta, k)
        BY <1>2, Zenon DEF UnsortedRecords
    <2> QED BY <2>1, <2>2, Zenon
<1>3. CASE n # 0
    <2>1. n > 0
        BY <1>1, <1>3
    <2>2. PICK i \in 1 .. Len(u) : BorrowedAt(plan, u, i)
        BY <2>1, Zenon DEF IInv, PlanInv
    <2>3. Position(u, plan.head) = i /\ i + n - 1 <= Len(u)
        BY <1>1, <2>2, OnePosition, Zenon DEF BorrowedAt
    <2>4. r = Without(u, i, n)
        BY <1>3, <2>3, Zenon
    <2>5. /\ r \in Seq(Node) /\ Len(r) = Len(u) - n
          /\ \A j \in 1 .. Len(r) : \/ j < i /\ j \in 1 .. Len(u) /\ r[j] = u[j]
                                    \/ j >= i /\ j + n \in 1 .. Len(u) /\ r[j] = u[j + n]
        <3> HIDE DEF u, n, r
        <3> QED BY <1>1, <2>3, <2>4, WithoutIs, ZenonT(30)
    <2>6. DOMAIN r = 1 .. Len(r) /\ Len(r) \in Nat
        BY <2>5
    <2>7. \A j \in 1 .. Len(u) :
              (plan.after < u[j].ts /\ u[j].ts <= plan.head) <=> (i <= j /\ j < i + n)
        <3>1. \A j \in 1 .. Len(u) : 0 < u[j].ts
            BY NodesAreRecords, Zenon
        <3> QED BY <1>1, <2>2, <3>1, WindowIs, Zenon
    <2>8. \A j \in 1 .. Len(u) : Bare(u[j]).ts = u[j].ts
        BY NodesAreRecords, Zenon
    <2>9. \A y : y \in UnsortedRecords(meta, k) <=> \E j \in 1 .. Len(u) : u[j].key = k /\ y = Bare(u[j])
        BY <1>1, Zenon DEF UnsortedRecords
    <2>10. \A y : y \in UnsortedRecords(m, k) <=> \E j \in 1 .. Len(r) : r[j].key = k /\ y = Bare(r[j])
        BY <2>6, Zenon DEF UnsortedRecords
    <2> HIDE DEF u, n, r
    <2>11. \A y : y \in UnsortedRecords(meta, k) \ Window(plan, meta, k) <=>
                \E j \in 1 .. Len(u) : ~(i <= j /\ j < i + n) /\ u[j].key = k /\ y = Bare(u[j])
        BY <2>1, <2>7, <2>8, <2>9 DEF Window, n
    <2>12. \A j \in 1 .. Len(r) : \E x \in 1 .. Len(u) : ~(i <= x /\ x < i + n) /\ r[j] = u[x]
        <3> SUFFICES ASSUME NEW j \in 1 .. Len(r)
                     PROVE  \E x \in 1 .. Len(u) : ~(i <= x /\ x < i + n) /\ r[j] = u[x]
            BY Zenon
        <3>1. CASE j < i /\ j \in 1 .. Len(u) /\ r[j] = u[j]
            BY <1>1, <3>1
        <3>2. CASE j >= i /\ j + n \in 1 .. Len(u) /\ r[j] = u[j + n]
            <4>1. ~(j + n < i + n)
                BY <1>1, <2>6, <3>2
            <4> QED BY <3>2, <4>1, Zenon
        <3> QED BY <2>5, <3>1, <3>2, Zenon
    <2>13. \A x \in 1 .. Len(u) : ~(i <= x /\ x < i + n) => \E j \in 1 .. Len(r) : r[j] = u[x]
        <3> SUFFICES ASSUME NEW x \in 1 .. Len(u), ~(i <= x /\ x < i + n)
                     PROVE  \E j \in 1 .. Len(r) : r[j] = u[x]
            BY Zenon
        <3>1. CASE x < i
            <4>1. x \in 1 .. Len(r)
                BY <1>1, <2>1, <2>3, <2>5, <3>1
            <4> QED BY <1>1, <2>5, <3>1, <4>1
        <3>2. CASE x >= i + n
            <4>1. x - n \in 1 .. Len(r) /\ x - n >= i /\ (x - n) + n = x
                BY <1>1, <2>1, <2>3, <2>5, <3>2
            <4>2. r[x - n] = u[(x - n) + n]
                BY <1>1, <2>5, <4>1
            <4> QED BY <4>1, <4>2, Zenon
        <3>3. x < i \/ x >= i + n
            <4>1. x \in Int /\ i \in Int /\ n \in Int
                BY <1>1
            <4> QED BY <4>1
        <3> QED BY <3>1, <3>2, <3>3, Zenon
    <2>14. \A y : y \in UnsortedRecords(m, k) <=> y \in UnsortedRecords(meta, k) \ Window(plan, meta, k)
        <3> DEFINE Out(x) == ~(i <= x /\ x < i + n)
        <3>1. /\ \A y : y \in UnsortedRecords(meta, k) \ Window(plan, meta, k) <=>
                    \E j \in 1 .. Len(u) : Out(j) /\ u[j].key = k /\ y = Bare(u[j])
              /\ \A j \in 1 .. Len(r) : \E x \in 1 .. Len(u) : Out(x) /\ r[j] = u[x]
              /\ \A x \in 1 .. Len(u) : Out(x) => \E j \in 1 .. Len(r) : r[j] = u[x]
            BY <2>11, <2>12, <2>13, Zenon
        <3> HIDE DEF Out
        <3>2. ASSUME NEW y \in UnsortedRecords(m, k)
              PROVE  y \in UnsortedRecords(meta, k) \ Window(plan, meta, k)
            <4>1. PICK j \in 1 .. Len(r) : r[j].key = k /\ y = Bare(r[j])
                BY <2>10, <3>2, Zenon
            <4>2. PICK x \in 1 .. Len(u) : Out(x) /\ r[j] = u[x]
                BY <3>1, Zenon
            <4> QED BY <3>1, <4>1, <4>2, Zenon
        <3>3. ASSUME NEW y \in UnsortedRecords(meta, k) \ Window(plan, meta, k)
              PROVE  y \in UnsortedRecords(m, k)
            <4>1. PICK x \in 1 .. Len(u) : Out(x) /\ u[x].key = k /\ y = Bare(u[x])
                BY <3>1, <3>3, Zenon
            <4>2. PICK j \in 1 .. Len(r) : r[j] = u[x]
                BY <3>1, <4>1, Zenon
            <4> QED BY <2>10, <4>1, <4>2, Zenon
        <3> QED BY <3>2, <3>3, Zenon
    <2> QED BY <2>14, Zenon
<1> QED BY <1>2, <1>3, Zenon

(* A merged list holds, under every key, the newer of the two records.     *)
LEMMA MergeIs ==
    ASSUME NEW f, NEW t, \A k \in DOMAIN f : f[k].ts \in Nat, \A k \in DOMAIN t : t[k].ts \in Nat
    PROVE  LET n == Merge(f, t)
           IN  /\ DOMAIN n = DOMAIN f \cup DOMAIN t
               /\ \A k \in DOMAIN n : \/ k \in DOMAIN f /\ n[k] = f[k]
                                      \/ k \in DOMAIN t /\ n[k] = t[k]
               /\ \A k \in DOMAIN f : n[k].ts >= f[k].ts
               /\ \A k \in DOMAIN t : n[k].ts >= t[k].ts
<1> DEFINE n == Merge(f, t)
           C(k) == (IF k \in DOMAIN f THEN {f[k]} ELSE {}) \cup (IF k \in DOMAIN t THEN {t[k]} ELSE {})
<1>1. DOMAIN n = DOMAIN f \cup DOMAIN t /\ \A k \in DOMAIN n : n[k] = Newest(C(k))
    BY Zenon DEF Merge
<1> HIDE DEF n
<1>2. ASSUME NEW k \in DOMAIN n PROVE n[k] \in C(k) /\ \A x \in C(k) : n[k].ts >= x.ts
    <2>1. \A x \in C(k) : x.ts \in Nat
        BY Zenon
    <2>2. \E x \in C(k) : \A y \in C(k) : y.ts <= x.ts
        BY <1>1
    <2>3. Newest(C(k)) \in C(k) /\ \A y \in C(k) : y.ts <= Newest(C(k)).ts
        <3> HIDE DEF C
        <3> QED BY <2>2, Zenon DEF Newest
    <2>4. n[k] = Newest(C(k))
        BY <1>1, Zenon
    <2> HIDE DEF C
    <2>5. n[k] \in C(k) /\ \A y \in C(k) : y.ts <= n[k].ts
        BY <2>3, <2>4, Zenon
    <2> QED BY <2>1, <2>5, Zenon
<1>3. \A k \in DOMAIN n : (k \in DOMAIN f /\ n[k] = f[k]) \/ (k \in DOMAIN t /\ n[k] = t[k])
    BY <1>2, Zenon
<1>4. \A k \in DOMAIN f : n[k].ts >= f[k].ts
    BY <1>1, <1>2, Zenon
<1>5. \A k \in DOMAIN t : n[k].ts >= t[k].ts
    BY <1>1, <1>2, Zenon
<1> QED BY <1>1, <1>3, <1>4, <1>5, Zenon DEF n

\* The segments a published plan retires.
OldSegs == IF plan.retire THEN {s \in meta.segs : s.level = plan.src} ELSE {}

(* What publication makes of the metadata.                                 *)
LEMMA PublishedMeta ==
    ASSUME IInv, RInv, plan.kind = "level", plan.table # NoTable, meta' = Published(plan)
    PROVE  /\ IsMeta(meta') /\ meta'.clock = meta.clock /\ meta'.index = meta.index
           /\ meta'.exact = meta.exact /\ meta'.had = meta.had \cup {plan.dst}
           /\ meta'.unsorted = IF plan.n = 0 THEN meta.unsorted
                        ELSE Without(meta.unsorted, Position(meta.unsorted, plan.head), plan.n)
           /\ meta'.sorted = [l \in 1 .. MaxLevel |->
                        CASE l = plan.dst -> Merge(meta.sorted[l], plan.table)
                          [] l = plan.src /\ plan.retire -> NoTable
                          [] OTHER -> meta.sorted[l]]
           /\ SameSegs((meta.segs \ OldSegs) \cup {NewSegment(plan.dst, plan.table)}, meta'.segs)
<1> DEFINE T == plan.table
           r == IF plan.n = 0 THEN meta.unsorted
                ELSE Without(meta.unsorted, Position(meta.unsorted, plan.head), plan.n)
           sorted == [l \in 1 .. MaxLevel |->
                        CASE l = plan.dst -> Merge(meta.sorted[l], T)
                          [] l = plan.src /\ plan.retire -> NoTable
                          [] OTHER -> meta.sorted[l]]
           m0 == [meta EXCEPT !.unsorted = r, !.sorted = sorted]
           new == NewSegment(plan.dst, T)
           m1 == Linked(m0, new)
           m2 == Retire(m1, fmap, OldSegs, {new})
           n == Account(m2, fmap, new)
<1>1. meta' = n
    BY Zenon DEF Published, OldSegs
<1>2. /\ IsMeta(meta) /\ meta.clock \in Nat /\ meta.index \in [Keys -> Nat] /\ meta.exact \in BOOLEAN
      /\ SegShape(meta.segs) /\ \A k \in Keys : KeyInv(meta, fmap, k)
    BY Zenon DEF RInv, MetaShape
<1>3. /\ plan.src \in 0 .. MaxLevel /\ plan.dst \in 1 .. MaxLevel
      /\ plan.retire \in BOOLEAN /\ (plan.retire => plan.src < plan.dst)
      /\ DOMAIN T \subseteq Keys
      /\ \A k \in Keys : IF k \in DOMAIN T THEN IsNewest(T[k], Inputs(plan, meta, k))
                         ELSE Inputs(plan, meta, k) = {}
    BY Zenon DEF RInv, LevelPlanInv
<1> HIDE DEF T
<1>4. \A k \in DOMAIN T : T[k] \in Records(meta, k) /\ T[k] \in Rec
    <2> SUFFICES ASSUME NEW k \in DOMAIN T PROVE T[k] \in Records(meta, k) /\ T[k] \in Rec
        BY Zenon
    <2>1. k \in Keys /\ T[k] \in Inputs(plan, meta, k)
        BY <1>3, Zenon DEF IsNewest
    <2>2. T[k] \in Records(meta, k)
        BY <2>1, InputsAreRecords, Zenon
    <2>3. KeyInv(meta, fmap, k)
        BY <1>2, <2>1, Zenon
    <2> QED BY <2>2, <2>3, Zenon DEF KeyInv
<1>5. \A k \in DOMAIN T : T[k].ts \in Nat /\ T[k].val \in Nat
    BY <1>4, Zenon DEF Rec
<1>6. /\ IsSegment(new) /\ new.level = plan.dst /\ DOMAIN new.table = DOMAIN T
      /\ \A k \in DOMAIN T : new.table[k].ts = T[k].ts
    <2> DEFINE dst == plan.dst
    <2>1. dst \in 1 .. MaxLevel /\ DOMAIN T \subseteq Keys
        BY <1>3, Zenon
    <2> HIDE DEF dst
    <2>2. LET s == NewSegment(dst, T)
          IN  /\ IsSegment(s) /\ s.level = dst /\ DOMAIN s.table = DOMAIN T
              /\ \A k \in DOMAIN T : s.table[k].ts = T[k].ts
        BY <1>5, <2>1, NewSegmentData, SMTT(30)
    <2> QED BY <2>2, Zenon DEF dst
<1> HIDE DEF new, r, sorted
<1>7. /\ IsMeta(m0) /\ m0.unsorted = r /\ m0.sorted = sorted /\ m0.clock = meta.clock
      /\ m0.segs = meta.segs /\ m0.had = meta.had /\ m0.index = meta.index /\ m0.exact = meta.exact
    BY <1>2, ZenonT(30) DEF IsMeta, MetaFields
<1> HIDE DEF m0
<1>8. /\ SameLists(m0, m1) /\ m1.index = m0.index /\ m1.exact = m0.exact
      /\ m1.segs = m0.segs \cup {new} /\ m1.had = m0.had \cup {new.level}
    BY <1>7, LinkedData
<1> HIDE DEF m1
<1>9. IsMeta(m1) /\ SegShape(m1.segs) /\ SegShape({new})
    BY <1>2, <1>6, <1>7, <1>8, Zenon DEF SegShape, SameLists
<1>10. Retired(m1, OldSegs, {new}, m2)
    BY <1>9, RetireData, Zenon
<1> HIDE DEF m2
<1>11. /\ SameLists(m1, m2) /\ m2.had = m1.had /\ m2.index = m1.index /\ m2.exact = m1.exact
       /\ SameSegs(((m1.segs \ OldSegs) \ {new}) \cup {new}, m2.segs) /\ new \in m2.segs
    BY <1>10, Zenon DEF Retired
<1>12. IsMeta(m2) /\ SegShape(m2.segs) /\ m2.index \in [Keys -> Nat] /\ m2.exact \in BOOLEAN
    <2>1. IsMeta(m2) /\ m2.index = meta.index /\ m2.exact = meta.exact
        BY <1>7, <1>8, <1>11, Zenon DEF SameLists
    <2>2. SegShape(m2.segs)
        BY <1>11, SameSegsFacts, Zenon
    <2> QED BY <1>2, <2>1, <2>2, Zenon
<1>13. Accounted(m2, new, n)
    BY <1>11, <1>12, AccountData, Zenon
<1> HIDE DEF n
<1>14. SameLists(m2, n) /\ SameSegs(m2.segs, n.segs) /\ n.had = m2.had /\ n.exact = m2.exact
    BY <1>13, Zenon DEF Accounted
<1>15. n.index = m2.index
    <2>1. ASSUME NEW k \in DOMAIN new.table, m2.exact
          PROVE  new.table[k].ts <= m2.index[k]
        <3>1. k \in DOMAIN T /\ k \in Keys /\ T[k] \in Records(meta, k) /\ new.table[k].ts = T[k].ts
            BY <1>3, <1>4, <1>6, Zenon
        <3>2. meta.exact /\ m2.index = meta.index
            BY <1>7, <1>8, <1>11, <2>1, Zenon
        <3>3. \E x \in Records(meta, k) : IsNewest(x, Records(meta, k)) /\ x.ts = meta.index[k]
            BY <1>2, <3>1, <3>2, Zenon DEF KeyInv
        <3> QED BY <3>1, <3>2, <3>3, Zenon DEF IsNewest
    <2> QED BY <1>13, <2>1, Zenon DEF Accounted
<1>16. /\ IsMeta(n) /\ n.clock = meta.clock /\ n.index = meta.index /\ n.exact = meta.exact
       /\ n.had = meta.had \cup {plan.dst} /\ n.unsorted = r /\ n.sorted = sorted
    BY <1>6, <1>7, <1>8, <1>11, <1>14, <1>15, Zenon DEF SameLists
<1>17. SameSegs((meta.segs \ OldSegs) \cup {new}, n.segs)
    <2>1. new \notin OldSegs
        BY <1>3, <1>6 DEF OldSegs
    <2>2. ((m1.segs \ OldSegs) \ {new}) \cup {new} = (meta.segs \ OldSegs) \cup {new}
        BY <1>7, <1>8, <2>1, Zenon
    <2> QED BY <1>11, <1>14, <2>2, SameSegsFacts, Zenon
<1> QED BY <1>1, <1>16, <1>17, Zenon DEF r, sorted, new, T

(* The newest record of a key is the only one as new as it.                *)
LEMMA NewestUnique ==
    ASSUME NEW m, NEW f, NEW k, KeyInv(m, f, k), NEW r, IsNewest(r, Records(m, k)),
           NEW x \in Records(m, k), x.ts >= r.ts
    PROVE  x = r
<1>1. /\ \A y \in Records(m, k) : y \in Rec
      /\ \A y, z \in Records(m, k) : y.ts = z.ts => y = z
    BY Zenon DEF KeyInv
<1>2. r \in Records(m, k) /\ x.ts <= r.ts
    BY Zenon DEF IsNewest
<1>3. x.ts \in Nat /\ r.ts \in Nat
    BY <1>1, <1>2, Zenon DEF Rec
<1>4. x.ts = r.ts
    BY <1>2, <1>3
<1> QED BY <1>1, <1>2, <1>4, Zenon

(* The newest record of a key, if a compaction takes it, is what it built. *)
LEMMA NewestBuilt ==
    ASSUME RInv, plan.kind = "level", plan.table # NoTable, NEW k \in Keys,
           NEW r, IsNewest(r, Records(meta, k)), r \in Inputs(plan, meta, k)
    PROVE  k \in DOMAIN plan.table /\ plan.table[k] = r
<1>1. KeyInv(meta, fmap, k)
    BY Zenon DEF RInv
<1>2. k \in DOMAIN plan.table /\ IsNewest(plan.table[k], Inputs(plan, meta, k))
    BY Zenon DEF RInv, LevelPlanInv
<1>3. plan.table[k] \in Records(meta, k) /\ r \in Records(meta, k) /\ r.ts <= plan.table[k].ts
    BY <1>2, InputsAreRecords, Zenon DEF IsNewest
<1>4. r.ts \in Nat /\ plan.table[k].ts \in Nat
    BY <1>1, <1>3, Zenon DEF KeyInv, Rec
<1>5. plan.table[k].ts >= r.ts
    BY <1>3, <1>4, Zenon
<1> QED BY <1>1, <1>2, <1>3, <1>5, NewestUnique

(* An empty table has no keys.                                             *)
LEMMA NoTableEmpty ==
    DOMAIN NoTable = {}
BY DEF NoTable

(* What the sorted lists hold after publication.                           *)
LEMMA PublishedSorted ==
    ASSUME RInv, plan.kind = "level", plan.table # NoTable, NEW sorted,
           sorted = [l \in 1 .. MaxLevel |->
                        CASE l = plan.dst -> Merge(meta.sorted[l], plan.table)
                          [] l = plan.src /\ plan.retire -> NoTable
                          [] OTHER -> meta.sorted[l]]
    PROVE  /\ DOMAIN sorted = 1 .. MaxLevel
           /\ DOMAIN sorted[plan.dst] = DOMAIN meta.sorted[plan.dst] \cup DOMAIN plan.table
           /\ \A k \in DOMAIN sorted[plan.dst] :
                \/ k \in DOMAIN meta.sorted[plan.dst] /\ sorted[plan.dst][k] = meta.sorted[plan.dst][k]
                \/ k \in DOMAIN plan.table /\ sorted[plan.dst][k] = plan.table[k]
           /\ \A k \in DOMAIN meta.sorted[plan.dst] :
                sorted[plan.dst][k].ts >= meta.sorted[plan.dst][k].ts
           /\ \A k \in DOMAIN plan.table : sorted[plan.dst][k].ts >= plan.table[k].ts
           /\ plan.retire /\ plan.src > 0 => DOMAIN sorted[plan.src] = {}
           /\ \A l \in 1 .. MaxLevel :
                l = plan.dst \/ (l = plan.src /\ plan.retire) \/ sorted[l] = meta.sorted[l]
           /\ \A k \in DOMAIN plan.table : plan.table[k] \in Records(meta, k) /\ plan.table[k] \in Rec
<1> DEFINE T == plan.table
           d == plan.dst
<1>1. /\ plan.src \in 0 .. MaxLevel /\ d \in 1 .. MaxLevel
      /\ plan.retire \in BOOLEAN /\ (plan.retire => plan.src < d)
      /\ DOMAIN T \subseteq Keys
      /\ \A k \in DOMAIN T : IsNewest(T[k], Inputs(plan, meta, k))
    BY Zenon DEF RInv, LevelPlanInv
<1>2. /\ SortedShape(meta) /\ \A k \in Keys : KeyInv(meta, fmap, k)
    BY Zenon DEF RInv, MetaShape
<1>3. \A k \in DOMAIN T : T[k] \in Records(meta, k)
    BY <1>1, InputsAreRecords, Zenon DEF IsNewest
<1>4. \A k \in DOMAIN T : T[k] \in Rec
    BY <1>1, <1>2, <1>3, Zenon DEF KeyInv
<1>5. \A k \in DOMAIN T : T[k].ts \in Nat
    BY <1>4, Zenon DEF Rec
<1>6. \A k \in DOMAIN meta.sorted[d] : meta.sorted[d][k].ts \in Nat
    BY <1>1, <1>2, Zenon DEF SortedShape, Rec
<1>7. sorted[d] = Merge(meta.sorted[d], T) /\ DOMAIN sorted = 1 .. MaxLevel
    BY <1>1
<1>8. plan.retire /\ plan.src > 0 => DOMAIN sorted[plan.src] = {}
    <2> SUFFICES ASSUME plan.retire, plan.src > 0 PROVE DOMAIN sorted[plan.src] = {}
        BY Zenon
    <2>1. plan.src \in 1 .. MaxLevel /\ plan.src # d
        BY <1>1
    <2>2. sorted[plan.src] = NoTable
        BY <2>1, Zenon
    <2> QED BY <2>2, NoTableEmpty, Zenon
<1>9. \A l \in 1 .. MaxLevel : l = d \/ (l = plan.src /\ plan.retire) \/ sorted[l] = meta.sorted[l]
    BY Zenon
<1> HIDE DEF T, d
<1>10. /\ DOMAIN sorted[d] = DOMAIN meta.sorted[d] \cup DOMAIN T
       /\ \A k \in DOMAIN sorted[d] : \/ k \in DOMAIN meta.sorted[d] /\ sorted[d][k] = meta.sorted[d][k]
                                      \/ k \in DOMAIN T /\ sorted[d][k] = T[k]
       /\ \A k \in DOMAIN meta.sorted[d] : sorted[d][k].ts >= meta.sorted[d][k].ts
       /\ \A k \in DOMAIN T : sorted[d][k].ts >= T[k].ts
    <2> DEFINE n == Merge(meta.sorted[d], T)
    <2>1. /\ DOMAIN n = DOMAIN meta.sorted[d] \cup DOMAIN T
          /\ \A k \in DOMAIN n : \/ k \in DOMAIN meta.sorted[d] /\ n[k] = meta.sorted[d][k]
                                 \/ k \in DOMAIN T /\ n[k] = T[k]
          /\ \A k \in DOMAIN meta.sorted[d] : n[k].ts >= meta.sorted[d][k].ts
          /\ \A k \in DOMAIN T : n[k].ts >= T[k].ts
        BY <1>5, <1>6, MergeIs, Zenon
    <2>2. sorted[d] = n
        BY <1>7, Zenon
    <2> HIDE DEF n
    <2> QED BY <2>1, <2>2, Zenon
<1> QED BY <1>3, <1>4, <1>7, <1>8, <1>9, <1>10, Zenon DEF T, d

\* What PublishedMeta, PublishedSorted and WithoutRecords say of the new metadata n.
PublishedData(n) ==
    /\ IsMeta(n) /\ n.clock = meta.clock /\ n.index = meta.index
    /\ n.exact = meta.exact /\ n.had = meta.had \cup {plan.dst}
    /\ \A k \in Keys : UnsortedRecords(n, k) = UnsortedRecords(meta, k) \ Window(plan, meta, k)
    /\ DOMAIN n.sorted = 1 .. MaxLevel
    /\ DOMAIN n.sorted[plan.dst] = DOMAIN meta.sorted[plan.dst] \cup DOMAIN plan.table
    /\ \A k \in DOMAIN n.sorted[plan.dst] :
         \/ k \in DOMAIN meta.sorted[plan.dst] /\ n.sorted[plan.dst][k] = meta.sorted[plan.dst][k]
         \/ k \in DOMAIN plan.table /\ n.sorted[plan.dst][k] = plan.table[k]
    /\ \A k \in DOMAIN meta.sorted[plan.dst] :
         n.sorted[plan.dst][k].ts >= meta.sorted[plan.dst][k].ts
    /\ \A k \in DOMAIN plan.table : n.sorted[plan.dst][k].ts >= plan.table[k].ts
    /\ plan.retire /\ plan.src > 0 => DOMAIN n.sorted[plan.src] = {}
    /\ \A l \in 1 .. MaxLevel :
         l = plan.dst \/ (l = plan.src /\ plan.retire) \/ n.sorted[l] = meta.sorted[l]
    /\ \A k \in DOMAIN plan.table : plan.table[k] \in Records(meta, k) /\ plan.table[k] \in Rec
    /\ SameSegs((meta.segs \ OldSegs) \cup {NewSegment(plan.dst, plan.table)}, n.segs)
=============================================================================
