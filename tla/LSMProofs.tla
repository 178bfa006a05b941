------------------------------ MODULE LSMProofs ------------------------------
(***************************************************************************)
(* Proofs about LSM for every number of keys and levels, every threshold   *)
(* and base size, and any number of callers: the compaction work is never  *)
(* forgotten, and a plan built without the locks is still valid when it is *)
(* published.                                                              *)
(*                                                                         *)
(* Both rest on who holds what.  FlagInv ties level_compaction_running and *)
(* level_compaction_pending to where the worker stands; LockInv says that  *)
(* a plan has one holder; ListInv that the unsorted list is in strictly    *)
(* descending order of timestamps the clock has issued, so that a borrowed *)
(* node has one position; PlanInv where the borrowed nodes lie.            *)
(*                                                                         *)
(* The last sections prepare LSMRefinement: accounting changes flags only, *)
(* and the invariant RInv of the records of every key.                     *)
(***************************************************************************)
EXTENDS LSM, FiniteSetTheorems, SequenceTheorems, TLAPS

MetaFields == {"clock", "unsorted", "sorted", "segs", "had", "index", "exact"}

\* m is a record with the fields of imr_lsm_meta.
IsMeta(m) == m = [f \in MetaFields |-> m[f]]

\* n has the record lists of m, and its clock.
SameLists(m, n) ==
    /\ IsMeta(n)
    /\ n.unsorted = m.unsorted /\ n.sorted = m.sorted /\ n.clock = m.clock

PlanFields ==
    {"kind", "by", "src", "dst", "n", "head", "after", "retire", "srcId", "dstId", "table"}

IsPlan(p) == p = [f \in PlanFields |-> p[f]]

FlagInv ==
    /\ kicks \in Nat
    /\ {queued, pending, running, unmarked} \subseteq BOOLEAN
    /\ running => worker \notin {"idle", "requeue"}
    /\ worker = "requeue" => pending
    /\ worker = "idle" /\ Needed(meta, base) /\ ~unmarked => queued \/ (pending /\ kicks > 0)

LockInv ==
    plan # NoPlan =>
        \/ worker \in {"idle", "started"} /\ plan.kind = "gc"
        \/ worker \in {"idle", "started"} /\ plan.kind = "level" /\ plan.by = "manual"
        \/ worker = "compacting" /\ plan.kind = "level" /\ plan.by = "worker"

Ordered(q) == \A i, j \in 1 .. Len(q) : i < j => q[j].ts < q[i].ts

Node == [key : Keys, ts : Nat, val : Nat]

ListInv ==
    /\ IsMeta(meta)
    /\ meta.clock \in Nat
    /\ meta.unsorted \in Seq(Node)
    /\ Ordered(meta.unsorted)
    /\ \A i \in 1 .. Len(meta.unsorted) : meta.unsorted[i].ts <= meta.clock

\* The borrowed nodes of p start at position i of q.
BorrowedAt(p, q, i) ==
    q[i].ts = p.head /\ i + p.n - 1 <= Len(q) /\ TsAt(q, i + p.n) = p.after

PlanInv ==
    plan.kind = "level" =>
        /\ IsPlan(plan)
        /\ plan.n \in Nat
        /\ SortedId(meta, plan.dst) = plan.dstId
        /\ plan.retire => SortedId(meta, plan.src) = plan.srcId
        /\ plan.n > 0 => \E i \in 1 .. Len(meta.unsorted) : BorrowedAt(plan, meta.unsorted, i)

IInv == FlagInv /\ LockInv /\ ListInv /\ PlanInv /\ writes \in Nat
-----------------------------------------------------------------------------
(* What leaves the record lists alone.                                     *)

(* An update of the index of newest records touches no list.               *)
LEMMA IndexKeepsLists ==
    ASSUME NEW m, NEW T, NEW ok, IsMeta(m)
    PROVE  SameLists(m, IndexUpdate(m, T, ok))
BY ZenonT(30) DEF IsMeta, SameLists, MetaFields, IndexUpdate

(* Linking a segment touches no list.                                      *)
LEMMA LinkedKeepsLists ==
    ASSUME NEW m, NEW s, IsMeta(m)
    PROVE  SameLists(m, Linked(m, s))
BY ZenonT(30) DEF IsMeta, SameLists, MetaFields, Linked

(* A recount touches no list.                                              *)
LEMMA RecalculateKeepsLists ==
    ASSUME NEW m, NEW f, IsMeta(m)
    PROVE  SameLists(m, Recalculate(m, f))
BY Zenon DEF IsMeta, SameLists, MetaFields, Recalculate

(* Other segments leave the lists alone.                                   *)
LEMMA SegsKeepLists ==
    ASSUME NEW m, NEW S, IsMeta(m)
    PROVE  SameLists(m, [m EXCEPT !.segs = S])
BY DEF IsMeta, SameLists, MetaFields

(* Retiring segments touches no list.                                      *)
LEMMA RetireKeepsLists ==
    ASSUME NEW m, NEW f, NEW S, NEW fresh, IsMeta(m)
    PROVE  SameLists(m, Retire(m, f, S, fresh))
BY ZenonT(30) DEF IsMeta, SameLists, MetaFields, Retire

(* Accounting for a new segment touches no list.                           *)
LEMMA AccountKeepsLists ==
    ASSUME NEW m, NEW f, NEW s, IsMeta(m)
    PROVE  SameLists(m, Account(m, f, s))
<1> DEFINE stale == {k \in DOMAIN s.table : m.index[k] < s.table[k].ts}
           m0 == [m EXCEPT !.segs = m.segs \ {s}]
           n == IndexUpdate(m0, [k \in stale |-> s.table[k]], TRUE)
           new == WithFlags([n EXCEPT !.segs = n.segs \cup {s}], f, s)
<1>1. SameLists(m, m0)
    BY SegsKeepLists
<1>2. SameLists(m0, n)
    BY <1>1, IndexKeepsLists, ZenonT(30) DEF SameLists
<1>3. SameLists(n, [n EXCEPT !.segs = n.segs \cup {new}])
    BY <1>2, SegsKeepLists, ZenonT(30) DEF SameLists
<1>4. SameLists(m, Recalculate(m, f))
    BY RecalculateKeepsLists
<1>5. Account(m, f, s) = IF m.exact THEN [n EXCEPT !.segs = n.segs \cup {new}]
                         ELSE Recalculate(m, f)
    BY DEF Account
<1> HIDE DEF m0, n, new
<1> QED
    BY <1>1, <1>2, <1>3, <1>4, <1>5 DEF SameLists

(* Whether a compaction is needed depends on the lists alone.              *)
LEMMA SameListsSameNeed ==
    ASSUME NEW m, NEW n, NEW b, SameLists(m, n)
    PROVE  /\ Needed(n, b) = Needed(m, b)
           /\ \A l : SortedId(n, l) = SortedId(m, l)
<1>1. Sizes(n) = Sizes(m)
    BY DEF SameLists, Sizes
<1> QED
    BY <1>1 DEF SameLists, Needed, SortedId
-----------------------------------------------------------------------------
(* Empty metadata needs no compaction.                                     *)

(* Empty lists need no compaction: every limit is at least one record.     *)
LEMMA EmptyNeedsNothing ==
    ASSUME NEW b
    PROVE  IsMeta(EmptyMeta) /\ ~Needed(EmptyMeta, b)
<1> DEFINE sz == Sizes(EmptyMeta)
           dyn == DynamicLevels(sz, b)
           down[l \in 0 .. MaxLevel] ==
                IF l = 0 THEN 0 ELSE down[l - 1] + Excess(sz, dyn, l - 1)
           score == [l \in 0 .. MaxLevel - 1 |-> Score(sz, dyn, l, down[l])]
           first == {l \in 0 .. MaxLevel - 1 :
                        /\ score[l] >= Scale
                        /\ \A j \in 0 .. MaxLevel - 1 :
                                score[j] < score[l] \/ (score[j] = score[l] /\ l <= j)}
<1>1. IsMeta(EmptyMeta)
    BY ZenonT(30) DEF IsMeta, EmptyMeta, MetaFields
<1>2. MaxLevel \in Nat /\ MaxLevel >= 2 /\ Threshold \in Nat /\ Threshold > 0
    BY LSMAssumption DEF MaxLevel
<1>3. Len(<<>>) = 0 /\ Cardinality(DOMAIN <<>>) = 0
    BY FS_EmptySet
<1>4. \A l \in 0 .. MaxLevel : sz[l] = 0
  <2>1. EmptyMeta.unsorted = <<>> /\ EmptyMeta.sorted = [l \in 1 .. MaxLevel |-> <<>>]
      BY DEF EmptyMeta
  <2>2. \A l \in 0 .. MaxLevel : l # 0 => EmptyMeta.sorted[l] = <<>>
      BY <1>2, <2>1
  <2> QED
      BY <1>3, <2>1, <2>2 DEF Sizes
<1> HIDE DEF sz, dyn, down
<1>5. \A l \in 0 .. MaxLevel - 1 : score[l] = 0
  <2>1. \A d : Score(sz, dyn, 0, d) = 0
    <3>1. sz[0] = 0 /\ (0 * Scale) \div Threshold = 0
        BY <1>2, <1>4 DEF Scale
    <3> QED
        BY <3>1 DEF Score
  <2>2. \A d : \A l \in 1 .. MaxLevel - 1 : Score(sz, dyn, l, d) = 0
    <3> SUFFICES ASSUME NEW d, NEW l \in 1 .. MaxLevel - 1
                 PROVE  Score(sz, dyn, l, d) = 0
        OBVIOUS
    <3>1. l # 0 /\ sz[l] = 0
        BY <1>2, <1>4
    <3> QED
        BY <3>1 DEF Score
  <2> HIDE DEF dyn, down
  <2> QED
      BY <1>2, <2>1, <2>2
<1>6. first = {}
    BY <1>5 DEF Scale
<1>7. PickLevel(sz, b) = IF first = {} THEN Levels ELSE CHOOSE l \in first : TRUE
    BY DEF PickLevel, dyn, down
<1>8. PickLevel(sz, b) = Levels
    BY <1>6, <1>7, Zenon
<1> QED
    BY <1>1, <1>2, <1>4, <1>8, LSMAssumption DEF Needed, Overfull, sz
-----------------------------------------------------------------------------
(* The unsorted list and the nodes borrowed from it.                       *)

(* The records of a list have timestamps.                                  *)
LEMMA NodesHaveTs ==
    ASSUME NEW q \in Seq(Node), NEW i \in 1 .. Len(q)
    PROVE  q[i].ts \in Nat
<1>1. q[i] \in Node
    BY ElementOfSeq
<1> QED
    BY <1>1 DEF Node

(* In an ordered list a timestamp has one position.                        *)
LEMMA OnePosition ==
    ASSUME NEW q \in Seq(Node), Ordered(q), NEW i \in 1 .. Len(q)
    PROVE  Position(q, q[i].ts) = i
<1> DEFINE at == {j \in DOMAIN q : q[j].ts = q[i].ts}
<1>1. \A j \in DOMAIN q : q[j].ts \in Nat /\ j \in Int
    BY NodesHaveTs
<1>2. at = {i}
    BY <1>1 DEF Ordered
<1>3. Min({i}) = i
    BY DEF Min
<1>4. Position(q, q[i].ts) = IF at = {} THEN 0 ELSE Min(at)
    BY DEF Position
<1> HIDE DEF at
<1> QED
    BY <1>2, <1>3, <1>4

(* A record newer than the clock may be put in front.                      *)
LEMMA PrependOrdered ==
    ASSUME NEW q \in Seq(Node), Ordered(q), NEW c \in Nat, NEW x \in Node,
           \A i \in 1 .. Len(q) : q[i].ts <= c,
           x.ts = c + 1
    PROVE  LET r == <<x>> \o q
           IN  /\ r \in Seq(Node) /\ Len(r) = Len(q) + 1
               /\ r[1] = x /\ \A i \in 1 .. Len(q) : r[i + 1] = q[i]
               /\ Ordered(r)
               /\ \A i \in 1 .. Len(r) : r[i].ts <= c + 1
<1> DEFINE r == <<x>> \o q
<1>1. r \in Seq(Node) /\ Len(r) = Len(q) + 1
    OBVIOUS
<1>2. r[1] = x /\ \A i \in 1 .. Len(q) : r[i + 1] = q[i]
    OBVIOUS
<1>3. \A i \in 1 .. Len(r) : i = 1 \/ (i - 1 \in 1 .. Len(q) /\ r[i] = q[i - 1])
    BY <1>1, <1>2
<1>4. \A i \in 1 .. Len(q) : q[i].ts \in Nat
    BY NodesHaveTs
<1> HIDE DEF r
<1>5. Ordered(r)
  <2> SUFFICES ASSUME NEW i \in 1 .. Len(r), NEW j \in 1 .. Len(r), i < j
               PROVE  r[j].ts < r[i].ts
      BY DEF Ordered
  <2>1. j - 1 \in 1 .. Len(q) /\ r[j] = q[j - 1]
      BY <1>3
  <2>2. CASE i = 1
      BY <1>2, <1>4, <2>1, <2>2
  <2>3. CASE i # 1
    <3>1. i - 1 \in 1 .. Len(q) /\ r[i] = q[i - 1] /\ i - 1 < j - 1
        BY <1>3, <2>1, <2>3
    <3> QED
        BY <2>1, <3>1, Zenon DEF Ordered
  <2> QED
      BY <2>2, <2>3
<1>6. ASSUME NEW i \in 1 .. Len(r)
      PROVE  r[i].ts <= c + 1
  <2>1. CASE i = 1
      BY <1>2, <2>1
  <2>2. CASE i # 1
    <3>1. i - 1 \in 1 .. Len(q) /\ r[i] = q[i - 1]
        BY <1>3, <2>2
    <3> QED
        BY <1>4, <3>1
  <2> QED
      BY <2>1, <2>2
<1> QED
    BY <1>1, <1>2, <1>5, <1>6 DEF r

(* A record in front moves the borrowed nodes by one position.             *)
LEMMA PrependBorrowed ==
    ASSUME NEW q \in Seq(Node), NEW x \in Node, NEW p, p.n \in Nat,
           NEW i \in 1 .. Len(q), BorrowedAt(p, q, i)
    PROVE  BorrowedAt(p, <<x>> \o q, i + 1)
<1> DEFINE r == <<x>> \o q
<1>1. r \in Seq(Node) /\ Len(r) = Len(q) + 1 /\ \A j \in 1 .. Len(q) : r[j + 1] = q[j]
    OBVIOUS
<1>2. DOMAIN r = 1 .. Len(q) + 1 /\ DOMAIN q = 1 .. Len(q) /\ Len(q) \in Nat
    BY <1>1
<1> HIDE DEF r
<1>3. TsAt(r, (i + 1) + p.n) = TsAt(q, i + p.n)
  <2>1. CASE i + p.n \in DOMAIN q
    <3>1. (i + 1) + p.n \in DOMAIN r /\ (i + 1) + p.n = (i + p.n) + 1
        BY <1>2, <2>1
    <3>2. r[(i + p.n) + 1] = q[i + p.n]
        BY <1>1, <1>2, <2>1, Zenon
    <3> QED
        BY <2>1, <3>1, <3>2, Zenon DEF TsAt
  <2>2. CASE i + p.n \notin DOMAIN q
    <3>1. (i + 1) + p.n \notin DOMAIN r
        BY <1>2, <2>2
    <3> QED
        BY <2>2, <3>1 DEF TsAt
  <2> QED
      BY <2>1, <2>2
<1> QED
    BY <1>1, <1>2, <1>3 DEF BorrowedAt, r

(* What remains without n nodes: those before them and those after them.   *)
LEMMA WithoutIs ==
    ASSUME NEW q \in Seq(Node), NEW i \in 1 .. Len(q), NEW n \in Nat, i + n - 1 <= Len(q)
    PROVE  LET r == Without(q, i, n)
           IN  /\ r \in Seq(Node) /\ Len(r) = Len(q) - n
               /\ \A j \in 1 .. Len(r) :
                    \/ j < i /\ j \in 1 .. Len(q) /\ r[j] = q[j]
                    \/ j >= i /\ j + n \in 1 .. Len(q) /\ r[j] = q[j + n]
<1> DEFINE a == SubSeq(q, 1, i - 1)
           b == SubSeq(q, i + n, Len(q))
           r == a \o b
<1>0. Len(q) \in Nat
    OBVIOUS
<1>1. a \in Seq(Node) /\ Len(a) = i - 1 /\ \A j \in 1 .. i - 1 : a[j] = q[j]
    OBVIOUS
<1>2. b \in Seq(Node) /\ Len(b) = Len(q) - (i + n) + 1
      /\ \A j \in 1 .. Len(b) : b[j] = q[j + i + n - 1]
    OBVIOUS
<1> HIDE DEF a, b
<1>3. r \in Seq(Node) /\ Len(r) = Len(a) + Len(b)
    BY <1>1, <1>2, ConcatProperties, ZenonT(30)
<1>4. \A j \in 1 .. Len(r) : r[j] = IF j <= Len(a) THEN a[j] ELSE b[j - Len(a)]
    BY <1>1, <1>2, ConcatProperties
<1> HIDE DEF r
<1>5. \A j \in 1 .. Len(r) :
        \/ j < i /\ j \in 1 .. Len(q) /\ r[j] = q[j]
        \/ j >= i /\ j + n \in 1 .. Len(q) /\ r[j] = q[j + n]
  <2> SUFFICES ASSUME NEW j \in 1 .. Len(r)
               PROVE  \/ j < i /\ j \in 1 .. Len(q) /\ r[j] = q[j]
                      \/ j >= i /\ j + n \in 1 .. Len(q) /\ r[j] = q[j + n]
      OBVIOUS
  <2>1. CASE j < i
      BY <1>0, <1>1, <1>4, <2>1
  <2>2. CASE j >= i
    <3>1. r[j] = b[j - (i - 1)] /\ j - (i - 1) \in 1 .. Len(b)
        BY <1>1, <1>2, <1>3, <1>4, <2>2, SMTT(30)
    <3>2. b[j - (i - 1)] = q[(j - (i - 1)) + i + n - 1]
        BY <1>2, <3>1
    <3>3. (j - (i - 1)) + i + n - 1 = j + n /\ j + n \in 1 .. Len(q)
        BY <1>0, <1>2, <3>1, SMTT(30)
    <3> QED
        BY <2>2, <3>1, <3>2, <3>3
  <2> QED
      BY <2>1, <2>2
<1>6. Len(r) = Len(q) - n
    BY <1>0, <1>1, <1>2, <1>3
<1> QED
    BY <1>3, <1>5, <1>6, ZenonT(30) DEF Without, r, a, b

(* What remains without n nodes is in order.                               *)
LEMMA WithoutOrdered ==
    ASSUME NEW q \in Seq(Node), Ordered(q), NEW c \in Nat,
           \A j \in 1 .. Len(q) : q[j].ts <= c,
           NEW i \in 1 .. Len(q), NEW n \in Nat, i + n - 1 <= Len(q)
    PROVE  /\ Without(q, i, n) \in Seq(Node)
           /\ Ordered(Without(q, i, n))
           /\ \A j \in 1 .. Len(Without(q, i, n)) : Without(q, i, n)[j].ts <= c
<1> DEFINE r == Without(q, i, n)
<1>1. /\ r \in Seq(Node)
      /\ \A j \in 1 .. Len(r) :
            \/ j < i /\ j \in 1 .. Len(q) /\ r[j] = q[j]
            \/ j >= i /\ j + n \in 1 .. Len(q) /\ r[j] = q[j + n]
    BY WithoutIs, ZenonT(30)
<1> HIDE DEF r
<1>2. \A j \in 1 .. Len(q) : q[j].ts \in Nat
    BY NodesHaveTs
<1>3. Ordered(r)
  <2> SUFFICES ASSUME NEW j \in 1 .. Len(r), NEW k \in 1 .. Len(r), j < k
               PROVE  r[k].ts < r[j].ts
      BY DEF Ordered
  <2>1. PICK x \in 1 .. Len(q) : r[j] = q[x] /\ x = (IF j < i THEN j ELSE j + n)
      BY <1>1
  <2>2. PICK y \in 1 .. Len(q) : r[k] = q[y] /\ y = (IF k < i THEN k ELSE k + n)
      BY <1>1
  <2>3. x < y
      BY <2>1, <2>2
  <2> QED
      BY <2>1, <2>2, <2>3, Zenon DEF Ordered
<1>4. \A j \in 1 .. Len(r) : r[j].ts <= c
    BY <1>1, Zenon
<1> QED
    BY <1>1, <1>3, <1>4, ZenonT(30) DEF r
-----------------------------------------------------------------------------
(* Steps that keep parts of the invariant.                                 *)

(* What does not touch the lists or the plan keeps what is said of them.   *)
LEMMA ListsKept ==
    ASSUME ListInv, PlanInv, UNCHANGED <<meta, plan>>
    PROVE  ListInv' /\ PlanInv'
BY DEF ListInv, PlanInv, BorrowedAt

(* The smaller of two numbers is above neither.                            *)
LEMMA MinOfTwo ==
    ASSUME NEW a \in Nat, NEW b \in Nat
    PROVE  Min({a, b}) \in Nat /\ Min({a, b}) <= a /\ Min({a, b}) <= b
<1>1. \E x \in {a, b} : \A y \in {a, b} : x =< y
    OBVIOUS
<1>2. Min({a, b}) \in {a, b} /\ \A y \in {a, b} : Min({a, b}) =< y
    BY <1>1 DEF Min
<1> QED
    BY <1>2

(* A plan that has just been prepared borrows from the head of the list.   *)
LEMMA PreparedPlan ==
    ASSUME ListInv, NEW l, NEW limit \in Nat, NEW by,
           plan' = LevelPlan(l, limit, by), UNCHANGED meta
    PROVE  PlanInv' /\ plan'.kind = "level" /\ plan'.by = by
<1> DEFINE q == meta.unsorted
           available == IF l = 0 THEN Len(q) ELSE 0
           n == Min({available, limit})
<1>1. q \in Seq(Node) /\ available \in Nat /\ available <= Len(q)
    BY DEF ListInv
<1>2. n \in Nat /\ n <= available
    BY <1>1, MinOfTwo
<1>3. IsPlan(plan') /\ plan'.kind = "level" /\ plan'.by = by
    BY Zenon DEF LevelPlan, IsPlan, PlanFields
<1>4. /\ plan'.n = n /\ plan'.head = TsAt(q, 1) /\ plan'.after = TsAt(q, n + 1)
      /\ plan'.dstId = SortedId(meta, plan'.dst) /\ plan'.srcId = SortedId(meta, plan'.src)
    BY Zenon DEF LevelPlan
<1>5. ASSUME n > 0
      PROVE  1 \in 1 .. Len(q) /\ BorrowedAt(plan', q, 1)
  <2>1. 1 \in DOMAIN q /\ DOMAIN q = 1 .. Len(q) /\ Len(q) \in Nat
      BY <1>1, <1>2, <1>5
  <2>2. TsAt(q, 1) = q[1].ts
      BY <2>1 DEF TsAt
  <2>3. 1 + n - 1 <= Len(q) /\ 1 + n = n + 1
      BY <1>1, <1>2, <2>1
  <2> QED
      BY <1>4, <2>1, <2>2, <2>3 DEF BorrowedAt
<1> HIDE DEF n
<1>6. /\ plan'.n \in Nat
      /\ SortedId(meta', plan'.dst) = plan'.dstId
      /\ SortedId(meta', plan'.src) = plan'.srcId
      /\ plan'.n > 0 => \E i \in 1 .. Len(meta'.unsorted) : BorrowedAt(plan', meta'.unsorted, i)
    BY <1>2, <1>4, <1>5
<1> QED
    BY <1>3, <1>6 DEF PlanInv

(* An append keeps the list in order, moves the borrowed nodes of a plan   *)
(* and marks the compaction it makes necessary.                            *)
LEMMA AppendStep ==
    ASSUME IInv, NEW k \in Keys, NEW v \in Nat, NEW ok \in BOOLEAN, AppendRecord(k, v, ok)
    PROVE  /\ ListInv' /\ PlanInv' /\ LockInv'
           /\ UNCHANGED <<worker, running>>
           /\ pending' \in BOOLEAN /\ unmarked' = FALSE
           /\ Needed(meta', base') => pending'
           /\ worker = "requeue" => pending'
<1> DEFINE node == [key |-> k, ts |-> meta.clock + 1, val |-> v]
           q == meta.unsorted
           r == <<node>> \o q
           m0 == [meta EXCEPT !.clock = meta.clock + 1, !.unsorted = r]
           m == IndexUpdate(m0, [j \in {k} |-> Bare(node)], ok)
<1>1. /\ meta' = m /\ pending' = (pending \/ Needed(m, base)) /\ unmarked' = FALSE
      /\ UNCHANGED <<plan, worker, running, base>>
    BY DEF AppendRecord
<1>2. IsMeta(m0) /\ m0.unsorted = r /\ m0.sorted = meta.sorted /\ m0.clock = meta.clock + 1
    BY ZenonT(30) DEF IInv, ListInv, IsMeta, MetaFields
<1>3. SameLists(m0, m)
    BY <1>2, IndexKeepsLists
<1> HIDE DEF m0, m
<1>4. meta'.unsorted = r /\ meta'.sorted = meta.sorted /\ meta'.clock = meta.clock + 1
      /\ IsMeta(meta')
    BY <1>1, <1>2, <1>3 DEF SameLists
<1>5. q \in Seq(Node) /\ node \in Node /\ meta.clock \in Nat /\ node.ts = meta.clock + 1
    BY DEF IInv, ListInv, Node
<1>6. /\ r \in Seq(Node) /\ Len(r) = Len(q) + 1 /\ Ordered(r)
      /\ \A i \in 1 .. Len(r) : r[i].ts <= meta.clock + 1
  <2>1. Ordered(q) /\ \A i \in 1 .. Len(q) : q[i].ts <= meta.clock
      BY DEF IInv, ListInv
  <2> HIDE DEF q, node
  <2> QED
      BY <1>5, <2>1, PrependOrdered, Zenon
<1>7. ListInv'
    BY <1>4, <1>5, <1>6 DEF ListInv
<1>8. PlanInv'
  <2> SUFFICES ASSUME plan.kind = "level"
               PROVE  /\ plan.n > 0 => \E i \in 1 .. Len(r) : BorrowedAt(plan, r, i)
                      /\ SortedId(meta', plan.dst) = plan.dstId
                      /\ plan.retire => SortedId(meta', plan.src) = plan.srcId
      BY <1>1, <1>4, Zenon DEF IInv, PlanInv
  <2>1. plan.n \in Nat
      BY DEF IInv, PlanInv
  <2>2. ASSUME plan.n > 0
        PROVE  \E i \in 1 .. Len(r) : BorrowedAt(plan, r, i)
    <3>1. PICK i \in 1 .. Len(q) : BorrowedAt(plan, q, i)
        BY <2>2 DEF IInv, PlanInv
    <3>2. BorrowedAt(plan, r, i + 1)
        BY <1>5, <2>1, <3>1, PrependBorrowed, Zenon
    <3>3. i + 1 \in 1 .. Len(r)
        BY <1>5, <1>6
    <3> QED
        BY <3>2, <3>3
  <2>3. \A l : SortedId(meta', l) = SortedId(meta, l)
      BY <1>4 DEF SortedId
  <2> QED
      BY <2>2, <2>3, Zenon DEF IInv, PlanInv
<1>9. LockInv'
    BY <1>1 DEF IInv, LockInv
<1>10. Needed(meta', base') => pending'
    BY <1>1, ZenonT(30)
<1> QED
    BY <1>1, <1>7, <1>8, <1>9, <1>10 DEF IInv, FlagInv

(* A published plan takes its nodes out of the list.                       *)
LEMMA PublishedLists ==
    ASSUME IInv, plan.kind = "level", meta' = Published(plan)
    PROVE  ListInv'
<1> DEFINE q == meta.unsorted
           r == IF plan.n = 0 THEN q ELSE Without(q, Position(q, plan.head), plan.n)
           sorted == [l \in 1 .. MaxLevel |->
                        CASE l = plan.dst -> Merge(meta.sorted[l], plan.table)
                          [] l = plan.src /\ plan.retire -> NoTable
                          [] OTHER -> meta.sorted[l]]
           m0 == [meta EXCEPT !.unsorted = r, !.sorted = sorted]
           new == NewSegment(plan.dst, plan.table)
           m1 == Linked(m0, new)
           old == IF plan.retire THEN {s \in meta.segs : s.level = plan.src} ELSE {}
           m2 == Retire(m1, fmap, old, {new})
<1>1. meta' = Account(m2, fmap, new)
    BY DEF Published
<1>2. IsMeta(m0) /\ m0.unsorted = r /\ m0.clock = meta.clock
    BY ZenonT(30) DEF IInv, ListInv, IsMeta, MetaFields
<1> HIDE DEF m0
<1>3. SameLists(m0, m1)
    BY <1>2, LinkedKeepsLists
<1> HIDE DEF m1
<1>4. SameLists(m1, m2)
    BY <1>3, RetireKeepsLists DEF SameLists
<1> HIDE DEF m2
<1>5. SameLists(m2, meta')
    BY <1>1, <1>4, AccountKeepsLists DEF SameLists
<1>6. IsMeta(meta') /\ meta'.unsorted = r /\ meta'.clock = meta.clock
    BY <1>2, <1>3, <1>4, <1>5 DEF SameLists
<1>7. /\ q \in Seq(Node) /\ Ordered(q) /\ meta.clock \in Nat
      /\ \A i \in 1 .. Len(q) : q[i].ts <= meta.clock
    BY DEF IInv, ListInv
<1>8. r \in Seq(Node) /\ Ordered(r) /\ \A i \in 1 .. Len(r) : r[i].ts <= meta.clock
  <2>1. CASE plan.n = 0
      BY <1>7, <2>1
  <2>2. CASE plan.n # 0
    <3>1. plan.n \in Nat /\ plan.n > 0
        BY <2>2 DEF IInv, PlanInv
    <3>2. PICK i \in 1 .. Len(q) : BorrowedAt(plan, q, i)
        BY <3>1 DEF IInv, PlanInv
    <3>3. Position(q, plan.head) = i /\ i + plan.n - 1 <= Len(q)
        BY <1>7, <3>2, OnePosition DEF BorrowedAt
    <3>4. r = Without(q, i, plan.n)
        BY <2>2, <3>3
    <3> HIDE DEF q, r
    <3> QED
        BY <1>7, <3>1, <3>3, <3>4, WithoutOrdered, Zenon
  <2> QED
      BY <2>1, <2>2, Zenon
<1> HIDE DEF q, r
<1> QED
    BY <1>6, <1>7, <1>8 DEF ListInv
-----------------------------------------------------------------------------
(* The invariant.                                                          *)

(* The invariant holds when the target is created.                         *)
LEMMA InitInv ==
    Init => IInv
<1> SUFFICES ASSUME Init PROVE IInv
    OBVIOUS
<1>1. FlagInv
    BY EmptyNeedsNothing, ZenonT(30) DEF Init, FlagInv
<1>2. LockInv /\ PlanInv
    BY DEF Init, LockInv, PlanInv, NoPlan
<1>3. ListInv
  <2>1. EmptyMeta.clock = 0 /\ EmptyMeta.unsorted = <<>>
      BY DEF EmptyMeta
  <2> QED
      BY <2>1, EmptyNeedsNothing DEF Init, ListInv, Ordered
<1>4. writes \in Nat
    BY LSMAssumption DEF Init
<1> QED
    BY <1>1, <1>2, <1>3, <1>4 DEF IInv

(* Appends: the caller queues the work it marked, or is about to.          *)
LEMMA AppendKeepsInv ==
    ASSUME IInv, NEW k \in Keys, NEW ok \in BOOLEAN,
           Put(k, ok) \/ Discard(k, ok) \/ DeleteKey(k, ok)
    PROVE  IInv'
<1>1. CASE Put(k, ok)
  <2>1. AppendRecord(k, writes + 1, ok) /\ writes + 1 \in Nat /\ writes' = writes + 1
        /\ kicks' = kicks /\ queued' = (queued \/ (pending' /\ ~running))
      BY <1>1 DEF Put, QueueIf, IInv
  <2>2. ListInv' /\ PlanInv' /\ LockInv' /\ UNCHANGED <<worker, running>>
        /\ pending' \in BOOLEAN /\ unmarked' = FALSE /\ (Needed(meta', base') => pending')
        /\ (worker = "requeue" => pending')
      BY <2>1, AppendStep, ZenonT(30)
  <2>3. FlagInv'
      BY <2>1, <2>2, ZenonT(30) DEF IInv, FlagInv
  <2> QED
      BY <2>1, <2>2, <2>3 DEF IInv
<1>2. CASE Discard(k, ok)
  <2>1. AppendRecord(k, 0, ok) /\ writes' = writes
        /\ kicks' = kicks /\ queued' = (queued \/ (pending' /\ ~running))
      BY <1>2 DEF Discard, QueueIf, Tombstone
  <2>2. ListInv' /\ PlanInv' /\ LockInv' /\ UNCHANGED <<worker, running>>
        /\ pending' \in BOOLEAN /\ unmarked' = FALSE /\ (Needed(meta', base') => pending')
        /\ (worker = "requeue" => pending')
      BY <2>1, AppendStep, ZenonT(30)
  <2>3. FlagInv'
      BY <2>1, <2>2, ZenonT(30) DEF IInv, FlagInv
  <2> QED
      BY <2>1, <2>2, <2>3 DEF IInv
<1>3. CASE DeleteKey(k, ok)
  <2>1. AppendRecord(k, 0, ok) /\ writes' = writes /\ queued' = queued
        /\ kicks' = kicks + (IF pending' THEN 1 ELSE 0)
      BY <1>3 DEF DeleteKey, Tombstone
  <2>2. ListInv' /\ PlanInv' /\ LockInv' /\ UNCHANGED <<worker, running>>
        /\ pending' \in BOOLEAN /\ unmarked' = FALSE /\ (Needed(meta', base') => pending')
        /\ (worker = "requeue" => pending')
      BY <2>1, AppendStep, ZenonT(30)
  <2>3. kicks' \in Nat /\ (pending' => kicks' > 0)
      BY <2>1 DEF IInv, FlagInv
  <2>4. FlagInv'
      BY <2>1, <2>2, <2>3, ZenonT(30) DEF IInv, FlagInv
  <2> QED
      BY <2>1, <2>2, <2>4 DEF IInv
<1> QED
    BY <1>1, <1>2, <1>3

(* The steps of the worker and of a caller that queues it late touch no    *)
(* list.                                                                   *)
LEMMA WorkerKeepsInv ==
    ASSUME IInv, Kick \/ Worker
    PROVE  IInv'
<1>1. CASE Kick
  <2>1. UNCHANGED <<meta, plan, worker, pending, running, base, unmarked, writes>>
        /\ kicks > 0 /\ kicks' = kicks - 1 /\ queued' = (queued \/ (pending /\ ~running))
      BY <1>1 DEF Kick, QueueIf
  <2>2. ListInv' /\ PlanInv' /\ LockInv'
      BY <2>1, ListsKept DEF IInv, LockInv
  <2>3. kicks' \in Nat
      BY <2>1 DEF IInv, FlagInv
  <2>4. FlagInv'
      BY <2>1, <2>3 DEF IInv, FlagInv
  <2> QED
      BY <2>1, <2>2, <2>4 DEF IInv
<1>2. CASE WorkerStart
  <2>1. UNCHANGED <<meta, plan, pending, kicks, base, unmarked, writes>>
        /\ worker = "idle" /\ worker' = "started" /\ queued' = FALSE /\ running' = TRUE
      BY <1>2 DEF WorkerStart
  <2> QED
      BY <2>1, ListsKept, ZenonT(30) DEF IInv, FlagInv, LockInv
<1>3. CASE WorkerLock
  <2>1. UNCHANGED <<meta, plan, queued, kicks, base, unmarked, writes>>
        /\ plan = NoPlan /\ worker' = "round" /\ pending' = FALSE /\ running' = TRUE
      BY <1>3 DEF WorkerLock, CompactionLockFree
  <2> QED
      BY <2>1, ListsKept, ZenonT(30) DEF IInv, FlagInv, LockInv
<1>4. CASE WorkerPrepare
  <2> DEFINE l == PickLevel(Sizes(meta), base)
             p == LevelPlan(l, IF l = 0 THEN Threshold ELSE MaxOps, "worker")
             work == l < Levels /\ HasInput(p)
  <2>1. UNCHANGED <<meta, queued, pending, running, kicks, base, unmarked, writes>>
        /\ worker = "round" /\ plan' = (IF work THEN p ELSE NoPlan)
        /\ worker' = (IF work THEN "compacting" ELSE "end")
      BY <1>4, Zenon DEF WorkerPrepare
  <2>2. (IF l = 0 THEN Threshold ELSE MaxOps) \in Nat
      BY LSMAssumption
  <2>3. ListInv'
      BY <2>1, Zenon DEF IInv, ListInv
  <2> HIDE DEF l, work
  <2>4. PlanInv' /\ LockInv'
    <3>1. CASE work
        BY <2>1, <2>2, <3>1, PreparedPlan DEF IInv, LockInv
    <3>2. CASE ~work
        BY <2>1, <3>2 DEF PlanInv, LockInv, NoPlan
    <3> QED
        BY <3>1, <3>2
  <2>5. FlagInv'
      BY <2>1 DEF IInv, FlagInv
  <2> QED
      BY <2>1, <2>3, <2>4, <2>5 DEF IInv
<1>5. CASE WorkerEnd
  <2> DEFINE again == worker = "end" /\ Needed(meta, base)
  <2>1. UNCHANGED <<meta, plan, queued, kicks, base, writes>>
        /\ worker \in {"end", "failed"} /\ running' = FALSE /\ pending' = again
        /\ worker' = (IF again THEN "requeue" ELSE "idle")
        /\ unmarked' = (unmarked \/ worker = "failed")
      BY <1>5 DEF WorkerEnd
  <2>2. plan = NoPlan
      BY <2>1 DEF IInv, LockInv
  <2>3. ListInv' /\ PlanInv' /\ LockInv'
      BY <2>1, <2>2, ListsKept DEF IInv, LockInv
  <2>4. FlagInv'
    <3>1. CASE again
        BY <2>1, <3>1, ZenonT(30) DEF IInv, FlagInv
    <3>2. CASE ~again
        BY <2>1, <3>2, ZenonT(30) DEF IInv, FlagInv
    <3> QED
        BY <3>1, <3>2
  <2> QED
      BY <2>1, <2>3, <2>4 DEF IInv
<1>6. CASE WorkerRequeue
  <2>1. UNCHANGED <<meta, plan, pending, running, kicks, base, unmarked, writes>>
        /\ worker = "requeue" /\ worker' = "idle"
        /\ queued' = (queued \/ (pending /\ ~running))
      BY <1>6 DEF WorkerRequeue, QueueIf
  <2>2. plan = NoPlan
      BY <2>1 DEF IInv, LockInv
  <2>3. ListInv' /\ PlanInv' /\ LockInv'
      BY <2>1, <2>2, ListsKept DEF IInv, LockInv
  <2>4. FlagInv'
      BY <2>1, ZenonT(30) DEF IInv, FlagInv
  <2> QED
      BY <2>1, <2>3, <2>4 DEF IInv
<1>7. CASE WorkerGivesUp
  <2>1. UNCHANGED <<meta, plan, queued, kicks, base, unmarked, writes>>
        /\ plan = NoPlan /\ meta = EmptyMeta
        /\ worker' = "idle" /\ pending' = FALSE /\ running' = FALSE
      BY <1>7 DEF WorkerGivesUp, CompactionLockFree
  <2>2. ~Needed(meta', base')
      BY <2>1, EmptyNeedsNothing
  <2>3. FlagInv'
      BY <2>1, <2>2, ZenonT(30) DEF IInv, FlagInv
  <2> QED
      BY <2>1, <2>3, ListsKept DEF IInv, LockInv
<1> QED
    BY <1>1, <1>2, <1>3, <1>4, <1>5, <1>6, <1>7 DEF Worker

(* A level compaction, by the worker or by hand.                           *)
LEMMA CompactionKeepsInv ==
    ASSUME IInv, Build \/ BuildFails \/ Publish \/ \E l \in 0 .. MaxLevel : ManualCompaction(l)
    PROVE  IInv'
<1>1. CASE Build
  <2>1. UNCHANGED <<meta, sched, base, unmarked, writes>> /\ plan.kind = "level"
        /\ plan' = [plan EXCEPT !.table = Built(plan)]
      BY <1>1 DEF Build
  <2>2. IsPlan(plan') /\ \A f \in PlanFields : f # "table" => plan'[f] = plan[f]
      BY <2>1 DEF IInv, PlanInv, IsPlan, PlanFields
  <2>3. /\ plan'.kind = plan.kind /\ plan'.by = plan.by /\ plan'.n = plan.n
        /\ plan'.head = plan.head /\ plan'.after = plan.after
        /\ plan'.dst = plan.dst /\ plan'.dstId = plan.dstId
        /\ plan'.src = plan.src /\ plan'.srcId = plan.srcId /\ plan'.retire = plan.retire
      BY <2>2 DEF PlanFields
  <2>4. PlanInv'
      BY <2>1, <2>2, <2>3 DEF IInv, PlanInv, BorrowedAt
  <2>5. LockInv'
      BY <2>1, <2>3 DEF IInv, LockInv, sched, NoPlan
  <2>6. ListInv' /\ FlagInv'
      BY <2>1 DEF IInv, ListInv, FlagInv, sched
  <2> QED
      BY <2>1, <2>4, <2>5, <2>6 DEF IInv
<1>2. CASE BuildFails
  <2>1. UNCHANGED <<meta, queued, pending, running, kicks, base, unmarked, writes>>
        /\ plan.kind = "level" /\ plan' = NoPlan
        /\ worker' = (IF plan.by = "worker" THEN "failed" ELSE worker)
      BY <1>2 DEF BuildFails, Return
  <2>2. ListInv' /\ PlanInv' /\ LockInv'
      BY <2>1, Zenon DEF IInv, ListInv, PlanInv, LockInv, NoPlan
  <2>3. FlagInv'
    <3>1. CASE plan.by = "worker"
        BY <2>1, <3>1 DEF IInv, FlagInv
    <3>2. CASE plan.by # "worker"
        BY <2>1, <3>2 DEF IInv, FlagInv
    <3> QED
        BY <3>1, <3>2
  <2> QED
      BY <2>1, <2>2, <2>3 DEF IInv
<1>3. CASE Publish
  <2>1. UNCHANGED <<queued, pending, running, kicks, base, writes>>
        /\ plan.kind = "level" /\ plan' = NoPlan
        /\ unmarked' = (unmarked \/ plan.by = "manual")
        /\ (meta' = Published(plan) \/ meta' = meta)
        /\ \E o \in {"end", "failed"} : worker' = (IF plan.by = "worker" THEN o ELSE worker)
      BY <1>3 DEF Publish, Return
  <2>2. ListInv'
      BY <2>1, PublishedLists, Zenon DEF IInv, ListInv
  <2>3. PlanInv' /\ LockInv'
      BY <2>1, Zenon DEF PlanInv, LockInv, NoPlan
  <2>4. FlagInv'
    <3>1. CASE plan.by = "worker"
      <4>1. worker' \in {"end", "failed"}
          BY <2>1, <3>1
      <4> QED
          BY <2>1, <3>1, <4>1, Zenon DEF IInv, FlagInv
    <3>2. CASE plan.by # "worker"
      <4>1. plan.by = "manual" /\ worker' = worker
          BY <2>1, <3>2 DEF IInv, LockInv, NoPlan
      <4> QED
          BY <2>1, <4>1, ZenonT(30) DEF IInv, FlagInv
    <3> QED
        BY <3>1, <3>2
  <2> QED
      BY <2>1, <2>2, <2>3, <2>4 DEF IInv
<1>4. ASSUME NEW l \in 0 .. MaxLevel, ManualCompaction(l)
      PROVE  IInv'
  <2>1. UNCHANGED <<meta, sched, base, unmarked, writes>> /\ worker \in {"idle", "started"}
        /\ plan' = LevelPlan(l, MaxOps, "manual")
      BY <1>4 DEF ManualCompaction, CompactionLockFree
  <2>2. PlanInv' /\ plan'.kind = "level" /\ plan'.by = "manual"
      BY <2>1, PreparedPlan, LSMAssumption DEF IInv
  <2>3. LockInv'
      BY <2>1, <2>2 DEF LockInv, sched
  <2>4. ListInv' /\ FlagInv'
      BY <2>1, Zenon DEF IInv, ListInv, FlagInv, sched
  <2> QED
      BY <2>1, <2>2, <2>3, <2>4 DEF IInv
<1> QED
    BY <1>1, <1>2, <1>3, <1>4

(* Collections, segment compactions, a new base, removal and reset.        *)
LEMMA OtherKeepsInv ==
    ASSUME IInv,
           \/ \E K \in SUBSET Keys : GcPrepare(K)
           \/ GcFails
           \/ \E ok \in BOOLEAN : GcPublish(ok)
           \/ CompactSegment
           \/ \E b \in {BaseBytes} \cup OtherBases : SetBase(b)
           \/ Reload \/ ResetZones
    PROVE  IInv'
<1>1. ASSUME NEW K \in SUBSET Keys, GcPrepare(K)
      PROVE  IInv'
  <2>1. UNCHANGED <<sched, base, unmarked, writes>> /\ plan'.kind = "gc"
        /\ meta' = [meta EXCEPT !.clock = meta.clock + Cardinality(K)]
        /\ worker \in {"idle", "started"}
      BY <1>1 DEF GcPrepare, CompactionLockFree
  <2>2. Cardinality(K) \in Nat
    <3>1. IsFiniteSet(Keys)
        BY FS_Interval, LSMAssumption DEF Keys
    <3>2. IsFiniteSet(K)
        BY <3>1, FS_Subset
    <3> QED
        BY <3>2, FS_CardinalityType
  <2>3. IsMeta(meta') /\ meta'.unsorted = meta.unsorted /\ meta'.sorted = meta.sorted
        /\ meta'.clock = meta.clock + Cardinality(K)
      BY <2>1, ZenonT(30) DEF IInv, ListInv, IsMeta, MetaFields
  <2>4. ListInv'
    <3>1. \A i \in 1 .. Len(meta.unsorted) : meta.unsorted[i].ts \in Nat
        BY NodesHaveTs, Zenon DEF IInv, ListInv
    <3>2. \A i \in 1 .. Len(meta'.unsorted) : meta'.unsorted[i].ts <= meta'.clock
        BY <2>2, <2>3, <3>1 DEF IInv, ListInv
    <3>3. meta'.clock \in Nat
        BY <2>2, <2>3 DEF IInv, ListInv
    <3> QED
        BY <2>3, <3>2, <3>3, Zenon DEF IInv, ListInv
  <2>5. Sizes(meta') = Sizes(meta)
      BY <2>3 DEF Sizes
  <2>6. Needed(meta', base') = Needed(meta, base)
      BY <2>1, <2>5 DEF Needed
  <2>7. FlagInv'
      BY <2>1, <2>6 DEF IInv, FlagInv, sched
  <2> QED
      BY <2>1, <2>4, <2>7 DEF IInv, PlanInv, LockInv, sched
<1>2. CASE GcFails
  <2>1. UNCHANGED <<meta, sched, base, unmarked, writes>> /\ plan' = NoPlan
      BY <1>2 DEF GcFails
  <2> QED
      BY <2>1, Zenon DEF IInv, ListInv, PlanInv, LockInv, FlagInv, sched, NoPlan
<1>3. ASSUME NEW ok \in BOOLEAN, GcPublish(ok)
      PROVE  IInv'
  <2> DEFINE new == NewSegment(MaxLevel, plan.table)
             m == IndexUpdate(meta, plan.table, ok)
             n == Linked(m, new)
  <2>1. UNCHANGED <<sched, base, unmarked, writes>> /\ plan' = NoPlan
        /\ meta' = Account(n, fmap, new)
      BY <1>3, Zenon DEF GcPublish
  <2>2. SameLists(meta, m)
      BY IndexKeepsLists, Zenon DEF IInv, ListInv
  <2> HIDE DEF m
  <2>3. SameLists(m, n)
      BY <2>2, LinkedKeepsLists, Zenon DEF SameLists
  <2> HIDE DEF n
  <2>4. SameLists(n, meta')
      BY <2>1, <2>3, AccountKeepsLists DEF SameLists
  <2>5. SameLists(meta, meta')
      BY <2>2, <2>3, <2>4, Zenon DEF SameLists
  <2>6. ListInv' /\ Needed(meta', base') = Needed(meta, base)
      BY <2>1, <2>5, SameListsSameNeed, Zenon DEF IInv, ListInv, SameLists
  <2>7. FlagInv'
      BY <2>1, <2>6, Zenon DEF IInv, FlagInv, sched
  <2> QED
      BY <2>1, <2>6, <2>7, Zenon DEF IInv, PlanInv, LockInv, NoPlan
<1>4. CASE CompactSegment
  <2> DEFINE m == Recalculate(meta, fmap)
  <2>1. UNCHANGED <<plan, sched, base, unmarked, writes>> /\ plan = NoPlan
      BY <1>4, ZenonT(30) DEF CompactSegment, CompactionLockFree
  <2>2. SameLists(meta, m)
      BY RecalculateKeepsLists, ZenonT(30) DEF IInv, ListInv
  <2>3. PICK s \in m.segs :
          LET keep == {k \in DOMAIN s.table : ~Unneeded(m, fmap, k, s.table[k])}
              new == NewSegment(s.level, [k \in keep |-> s.table[k]])
              n == IF keep = {} THEN m ELSE Account(Linked(m, new), fmap, new)
          IN  meta' = Retire(n, fmap, {s}, {})
      BY <1>4, ZenonT(30) DEF CompactSegment
  <2> DEFINE keep == {k \in DOMAIN s.table : ~Unneeded(m, fmap, k, s.table[k])}
             new == NewSegment(s.level, [k \in keep |-> s.table[k]])
             a == Account(Linked(m, new), fmap, new)
             n == IF keep = {} THEN m ELSE a
  <2>4. meta' = Retire(n, fmap, {s}, {})
      BY <2>3, ZenonT(30)
  <2> HIDE DEF m
  <2>5. SameLists(m, Linked(m, new))
      BY <2>2, LinkedKeepsLists, Zenon DEF SameLists
  <2>6. SameLists(Linked(m, new), a)
      BY <2>5, AccountKeepsLists, ZenonT(30) DEF SameLists
  <2> HIDE DEF a, keep, new
  <2>7. SameLists(meta, n)
      BY <2>2, <2>5, <2>6, Zenon DEF SameLists
  <2> HIDE DEF n
  <2>8. SameLists(n, meta')
      BY <2>4, <2>7, RetireKeepsLists DEF SameLists
  <2>9. SameLists(meta, meta')
      BY <2>7, <2>8 DEF SameLists
  <2>10. ListInv' /\ Needed(meta', base') = Needed(meta, base)
      BY <2>1, <2>9, SameListsSameNeed, Zenon DEF IInv, ListInv, SameLists
  <2>11. FlagInv'
      BY <2>1, <2>10, Zenon DEF IInv, FlagInv, sched
  <2> QED
      BY <2>1, <2>10, <2>11, Zenon DEF IInv, PlanInv, LockInv, NoPlan
<1>5. ASSUME NEW b \in {BaseBytes} \cup OtherBases, SetBase(b)
      PROVE  IInv'
  <2>1. UNCHANGED <<meta, plan, sched, writes>> /\ unmarked' = TRUE
      BY <1>5 DEF SetBase
  <2>2. FlagInv'
      BY <2>1, Zenon DEF IInv, FlagInv, sched
  <2> QED
      BY <2>1, <2>2, ListsKept, Zenon DEF IInv, LockInv, sched
<1>6. CASE Reload \/ ResetZones
  <2>1. /\ meta' = EmptyMeta /\ plan = NoPlan /\ plan' = NoPlan
        /\ worker \in {"idle", "started"} /\ worker' = worker
        /\ kicks' = kicks /\ writes' = writes
        /\ pending' = FALSE /\ running' = FALSE
        /\ queued' \in {FALSE, queued} /\ unmarked' \in {FALSE, unmarked}
      BY <1>6, ZenonT(30) DEF Reload, ResetZones, CompactionLockFree
  <2>2. ~Needed(meta', base') /\ IsMeta(meta')
      BY <2>1, EmptyNeedsNothing
  <2>3. FlagInv'
      BY <2>1, <2>2, ZenonT(30) DEF IInv, FlagInv
  <2>4. ListInv'
    <3>1. meta'.clock = 0 /\ meta'.unsorted = <<>>
        BY <2>1, Zenon DEF EmptyMeta
    <3> QED
        BY <2>2, <3>1 DEF ListInv, Ordered
  <2> QED
      BY <2>1, <2>3, <2>4, Zenon DEF IInv, PlanInv, LockInv, NoPlan
<1> QED
    BY <1>1, <1>2, <1>3, <1>4, <1>5, <1>6

(* Every step keeps the invariant.                                         *)
LEMMA NextInv ==
    IInv /\ [Next]_vars => IInv'
<1> SUFFICES ASSUME IInv, [Next]_vars PROVE IInv'
    OBVIOUS
<1>1. CASE UNCHANGED vars
  <2>1. UNCHANGED <<meta, plan, worker, queued, pending, running, kicks, base, unmarked, writes>>
      BY <1>1 DEF vars, sched
  <2>2. FlagInv' /\ LockInv'
      BY <2>1, Zenon DEF IInv, FlagInv, LockInv
  <2> QED
      BY <2>1, <2>2, ListsKept DEF IInv
<1>2. CASE Next
    BY <1>2, AppendKeepsInv, WorkerKeepsInv, CompactionKeepsInv, OtherKeepsInv, Zenon DEF Next
<1> QED
    BY <1>1, <1>2

(* The invariant holds in every reachable state.                           *)
LEMMA Invariance ==
    Spec => []IInv
BY InitInv, NextInv, PTL DEF Spec
-----------------------------------------------------------------------------
(* A plan that was prepared can be published: while the worker, or a       *)
(* debugfs compaction, reads the borrowed records without imr_lsm_lock, no *)
(* writer, collector or reset changes them, whatever the sizes.            *)
THEOREM BorrowedStaysValid ==
    Spec => []PlanStaysValid
<1>1. IInv => PlanStaysValid
  <2> SUFFICES ASSUME IInv, plan.kind = "level"
               PROVE  PlanValid(plan)
      BY DEF PlanStaysValid
  <2> DEFINE q == meta.unsorted
  <2>1. q \in Seq(Node) /\ Ordered(q)
      BY DEF IInv, ListInv
  <2>2. ASSUME plan.n > 0
        PROVE  /\ Position(q, plan.head) > 0
               /\ Position(q, plan.head) + plan.n - 1 <= Len(q)
               /\ TsAt(q, Position(q, plan.head) + plan.n) = plan.after
    <3>1. PICK i \in 1 .. Len(q) : BorrowedAt(plan, q, i)
        BY <2>2, Zenon DEF IInv, PlanInv
    <3>2. Position(q, plan.head) = i
        BY <2>1, <3>1, OnePosition, Zenon DEF BorrowedAt
    <3> QED
        BY <3>1, <3>2 DEF BorrowedAt
  <2> QED
      BY <2>2, Zenon DEF IInv, PlanInv, PlanValid
<1> QED
    BY <1>1, Invariance, PTL

(* No lost wakeup: whatever the threshold, the level sizes and the number  *)
(* of callers between their append and imr_lsm_queue_level_compaction_work,*)
(* needed compaction work is queued, running or about to be queued.        *)
THEOREM NoLostWakeup ==
    Spec => []NeededIsScheduled
<1>1. IInv => NeededIsScheduled
    BY DEF IInv, FlagInv, NeededIsScheduled
<1> QED
    BY <1>1, Invariance, PTL
-----------------------------------------------------------------------------
Rec == [ts : Nat, val : Nat]
Entry == [ts : Nat, val : Nat, inv : BOOLEAN, obs : BOOLEAN]

\* A segment of some level with a block table for some keys.
IsSegment(s) ==
    /\ DOMAIN s.table \subseteq Keys
    /\ s \in [level : 1 .. MaxLevel, table : [DOMAIN s.table -> Entry]]

\* t is s with other accounting flags.
SameData(s, t) ==
    /\ t.level = s.level /\ DOMAIN t.table = DOMAIN s.table
    /\ \A k \in DOMAIN s.table : Bare(t.table[k]) = Bare(s.table[k])

\* The segments T are the segments S with other accounting flags.
SameSegs(S, T) ==
    /\ \A t \in T : IsSegment(t) /\ \E s \in S : SameData(s, t)
    /\ \A s \in S : \E t \in T : SameData(s, t)

SegShape(S) == \A s \in S : IsSegment(s)
-----------------------------------------------------------------------------
(* Accounting changes flags only.                                          *)

(* A step that rebuilds the tables of the segments entry by entry, keeping *)
(* timestamps and addresses, is one of flags.                              *)
LEMMA Reflagged ==
    ASSUME NEW s, IsSegment(s), NEW T, DOMAIN T = DOMAIN s.table,
           T \in [DOMAIN s.table -> Entry],
           \A k \in DOMAIN s.table : T[k].ts = s.table[k].ts /\ T[k].val = s.table[k].val
    PROVE  IsSegment([s EXCEPT !.table = T]) /\ SameData(s, [s EXCEPT !.table = T])
<1> DEFINE t == [s EXCEPT !.table = T]
<1>1. t.level = s.level /\ t.table = T /\ t \in [level : 1 .. MaxLevel, table : [DOMAIN s.table -> Entry]]
    BY DEF IsSegment
<1> HIDE DEF t
<1>2. IsSegment(t)
    BY <1>1 DEF IsSegment
<1>3. SameData(s, t)
    BY <1>1, Zenon DEF SameData, Bare
<1> QED BY <1>2, <1>3 DEF t

SetFlags(e, o, i) == [e EXCEPT !.obs = o, !.inv = i]
SetInvalid(e, i, o) == [e EXCEPT !.inv = i, !.obs = o]
SetDead(e, i) == [e EXCEPT !.inv = i]

(* The three ways an entry gets its flags keep its timestamp and address.  *)
LEMMA EntryFlags ==
    ASSUME NEW e \in Entry, NEW o \in BOOLEAN, NEW i \in BOOLEAN
    PROVE  /\ LET x == SetFlags(e, o, i)
              IN  x \in Entry /\ x.ts = e.ts /\ x.val = e.val /\ x.inv = i
           /\ LET x == SetInvalid(e, i, o)
              IN  x \in Entry /\ x.ts = e.ts /\ x.val = e.val /\ x.inv = i
           /\ LET x == SetDead(e, i)
              IN  x \in Entry /\ x.ts = e.ts /\ x.val = e.val /\ x.inv = i
<1>1. LET x == SetFlags(e, o, i)
      IN  x \in Entry /\ x.ts = e.ts /\ x.val = e.val /\ x.inv = i
    BY Zenon DEF Entry, SetFlags
<1>2. LET x == SetInvalid(e, i, o)
      IN  x \in Entry /\ x.ts = e.ts /\ x.val = e.val /\ x.inv = i
    BY Zenon DEF Entry, SetInvalid
<1>3. LET x == SetDead(e, i)
      IN  x \in Entry /\ x.ts = e.ts /\ x.val = e.val /\ x.inv = i
    BY DEF Entry, SetDead
<1> QED BY <1>1, <1>2, <1>3, Zenon

(* To differ in flags only is an equivalence.                              *)
LEMMA SameDataFacts ==
    /\ \A s : SameData(s, s)
    /\ \A s, t : SameData(s, t) => SameData(t, s)
    /\ \A s, t, u : SameData(s, t) /\ SameData(t, u) => SameData(s, u)
BY Zenon DEF SameData

(* For sets of segments it is reflexive and transitive, keeps their shape  *)
(* and passes to unions.                                                   *)
LEMMA SameSegsFacts ==
    /\ \A S : SegShape(S) => SameSegs(S, S)
    /\ \A S, T, U : SameSegs(S, T) /\ SameSegs(T, U) => SameSegs(S, U)
    /\ \A S, T : SameSegs(S, T) => SegShape(T)
    /\ \A S, T, U, V : SameSegs(S, T) /\ SameSegs(U, V) => SameSegs(S \cup U, T \cup V)
<1>1. \A S : SegShape(S) => SameSegs(S, S)
    BY SameDataFacts, Zenon DEF SegShape, SameSegs
<1>2. \A S, T, U : SameSegs(S, T) /\ SameSegs(T, U) => SameSegs(S, U)
    BY SameDataFacts, ZenonT(30) DEF SameSegs
<1>3. \A S, T : SameSegs(S, T) => SegShape(T)
    BY Zenon DEF SegShape, SameSegs
<1>4. \A S, T, U, V : SameSegs(S, T) /\ SameSegs(U, V) => SameSegs(S \cup U, T \cup V)
    BY ZenonT(30) DEF SameSegs
<1> QED BY <1>1, <1>2, <1>3, <1>4, Zenon

(* A set with the data of another is a set of segments.                    *)
LEMMA SameSegsShape ==
    ASSUME NEW S, NEW T, SameSegs(S, T)
    PROVE  SegShape(T)
BY SameSegsFacts, Zenon

(* Flags do not change what the segments hold.                             *)
LEMMA SameSegsSameRecords ==
    ASSUME NEW m, NEW n, SameSegs(m.segs, n.segs)
    PROVE  \A k : SegmentRecords(n, k) = SegmentRecords(m, k)
<1>1. \A k, r : r \in SegmentRecords(m, k) => r \in SegmentRecords(n, k)
    BY DEF SegmentRecords, SameSegs, SameData
<1>2. \A k, r : r \in SegmentRecords(n, k) => r \in SegmentRecords(m, k)
    BY DEF SegmentRecords, SameSegs, SameData
<1> QED BY <1>1, <1>2

(* The tests behind the flags are Boolean.                                 *)
LEMMA FlagTypes ==
    ASSUME NEW m, m.index \in [Keys -> Nat], NEW f, NEW k \in Keys, NEW e \in Entry
    PROVE  FindNewer(m, k, e.ts) \in BOOLEAN /\ Unneeded(m, f, k, e) \in BOOLEAN
<1>1. m.index[k] \in Nat /\ e.ts \in Nat
    BY Zenon DEF Entry
<1>2. (m.index[k] > e.ts) \in BOOLEAN
    BY <1>1
<1> QED BY <1>2, Zenon DEF FindNewer, FoundByScan, Unneeded

(* Recomputing the flags of a segment changes flags only.                  *)
LEMMA WithFlagsData ==
    ASSUME NEW m, m.index \in [Keys -> Nat], NEW f, NEW s, IsSegment(s)
    PROVE  IsSegment(WithFlags(m, f, s)) /\ SameData(s, WithFlags(m, f, s))
<1> DEFINE T == [k \in DOMAIN s.table |->
                    [s.table[k] EXCEPT !.obs = FindNewer(m, k, s.table[k].ts),
                                       !.inv = Unneeded(m, f, k, s.table[k])]]
<1>1. ASSUME NEW k \in DOMAIN s.table
      PROVE  T[k] \in Entry /\ T[k].ts = s.table[k].ts /\ T[k].val = s.table[k].val
    <2> DEFINE e == s.table[k]
               a == FindNewer(m, k, e.ts)
               b == Unneeded(m, f, k, e)
    <2>1. k \in Keys /\ e \in Entry
        BY DEF IsSegment
    <2>2. a \in BOOLEAN /\ b \in BOOLEAN
        BY <2>1, FlagTypes, Zenon
    <2>3. T[k] = SetFlags(e, a, b)
        BY Zenon DEF SetFlags
    <2> HIDE DEF T, e, a, b
    <2>4. T[k] \in Entry /\ T[k].ts = e.ts /\ T[k].val = e.val
        BY <2>1, <2>2, <2>3, EntryFlags
    <2> QED BY <2>4, Zenon DEF e
<1>2. WithFlags(m, f, s) = [s EXCEPT !.table = T]
    BY DEF WithFlags
<1>3. DOMAIN T = DOMAIN s.table /\ T = [k \in DOMAIN s.table |-> T[k]]
    BY Zenon
<1> HIDE DEF T
<1>4. T \in [DOMAIN s.table -> Entry]
    BY <1>1, <1>3
<1> QED BY <1>1, <1>2, <1>3, <1>4, Reflagged

(* The segments after a step that rebuilds each of them.                   *)
LEMMA RecalculateData ==
    ASSUME NEW m, IsMeta(m), m.index \in [Keys -> Nat], NEW f, SegShape(m.segs)
    PROVE  LET n == Recalculate(m, f)
           IN  /\ SameLists(m, n) /\ SameSegs(m.segs, n.segs)
               /\ n.had = m.had /\ n.index = m.index /\ n.exact = m.exact
<1> DEFINE n == Recalculate(m, f)
<1>1. /\ n.segs = {WithFlags(m, f, s) : s \in m.segs}
      /\ n.had = m.had /\ n.index = m.index /\ n.exact = m.exact
    BY DEF Recalculate, IsMeta, MetaFields
<1>2. SameLists(m, n)
    BY RecalculateKeepsLists, Zenon
<1> HIDE DEF n
<1>3. SameSegs(m.segs, n.segs)
    <2>1. \A s \in m.segs : /\ WithFlags(m, f, s) \in n.segs
                            /\ IsSegment(WithFlags(m, f, s)) /\ SameData(s, WithFlags(m, f, s))
        BY <1>1, WithFlagsData, Zenon DEF SegShape
    <2>2. \A t \in n.segs : \E s \in m.segs : t = WithFlags(m, f, s)
        BY <1>1, Zenon
    <2> QED BY <2>1, <2>2, Zenon DEF SameSegs
<1> QED BY <1>1, <1>2, <1>3, Zenon DEF n

\* n is m after the index learned the records T.
IndexLearned(m, T, ok, n) ==
    /\ SameLists(m, n) /\ SameSegs(m.segs, n.segs) /\ n.had = m.had
    /\ n.index \in [Keys -> Nat] /\ n.exact \in BOOLEAN
    /\ n.exact <=> m.exact /\ (ok \/ \A k \in DOMAIN T : m.index[k] # 0)
    /\ \A k \in Keys : n.index[k] =
            IF k \in DOMAIN T /\ IF m.index[k] = 0 THEN ok ELSE T[k].ts > m.index[k]
            THEN T[k].ts ELSE m.index[k]

(* An update of the index changes, besides the index, flags only.          *)
LEMMA IndexUpdateData ==
    ASSUME NEW m, IsMeta(m), m.index \in [Keys -> Nat], m.exact \in BOOLEAN, SegShape(m.segs),
           NEW T, DOMAIN T \subseteq Keys, \A k \in DOMAIN T : T[k].ts \in Nat, NEW ok \in BOOLEAN
    PROVE  IndexLearned(m, T, ok, IndexUpdate(m, T, ok))
<1> DEFINE n == IndexUpdate(m, T, ok)
           missing == {k \in DOMAIN T : m.index[k] = 0}
           newer   == {k \in DOMAIN T \ missing : T[k].ts > m.index[k]}
           Tab(s)  == [k \in DOMAIN s.table |->
                        IF k \in newer /\ ~s.table[k].inv
                        THEN [s.table[k] EXCEPT !.inv = TRUE, !.obs = TRUE]
                        ELSE s.table[k]]
           Sup(s)  == [s EXCEPT !.table = Tab(s)]
           ind     == [k \in Keys |->
                        IF k \in newer \/ (k \in missing /\ ok) THEN T[k].ts ELSE m.index[k]]
<1>1. SameLists(m, n)
    BY IndexKeepsLists, Zenon
<1>2. /\ n.had = m.had /\ n.index = ind /\ n.exact = (m.exact /\ (ok \/ missing = {}))
      /\ n.segs = IF m.exact THEN {Sup(s) : s \in m.segs} ELSE m.segs
    BY ZenonT(30) DEF IndexUpdate, IsMeta, MetaFields
<1> HIDE DEF n
<1>3. ASSUME NEW s, IsSegment(s)
      PROVE  IsSegment(Sup(s)) /\ SameData(s, Sup(s))
    <2>1. ASSUME NEW k \in DOMAIN s.table
          PROVE  Tab(s)[k] \in Entry /\ Tab(s)[k].ts = s.table[k].ts /\ Tab(s)[k].val = s.table[k].val
        <3>1. s.table[k] \in Entry
            BY <1>3 DEF IsSegment
        <3>2. Tab(s)[k] = IF k \in newer /\ ~s.table[k].inv THEN SetInvalid(s.table[k], TRUE, TRUE)
                          ELSE s.table[k]
            BY Zenon DEF SetInvalid
        <3> HIDE DEF Tab
        <3>3. LET x == SetInvalid(s.table[k], TRUE, TRUE)
              IN  x \in Entry /\ x.ts = s.table[k].ts /\ x.val = s.table[k].val
            BY <3>1, EntryFlags, Zenon
        <3> QED BY <3>1, <3>2, <3>3, Zenon
    <2>2. DOMAIN Tab(s) = DOMAIN s.table
        OBVIOUS
    <2>3. Tab(s) \in [DOMAIN s.table -> Entry]
        BY <2>1, ZenonT(30)
    <2> HIDE DEF Tab
    <2> QED BY <1>3, <2>1, <2>2, <2>3, Reflagged
<1> HIDE DEF Sup
<1>4. SameSegs(m.segs, n.segs)
    <2>1. CASE m.exact
        <3>1. n.segs = {Sup(s) : s \in m.segs}
            BY <1>2, <2>1, Zenon
        <3> QED BY <1>3, <3>1, ZenonT(30) DEF SameSegs, SegShape
    <2>2. CASE ~m.exact
        <3>1. n.segs = m.segs
            BY <1>2, <2>2, Zenon
        <3> QED BY <3>1, SameSegsFacts, Zenon
    <2> QED BY <2>1, <2>2, Zenon
<1>5. \A k \in Keys : ind[k] =
            IF k \in DOMAIN T /\ IF m.index[k] = 0 THEN ok ELSE T[k].ts > m.index[k]
            THEN T[k].ts ELSE m.index[k]
    BY Zenon
<1>6. ind \in [Keys -> Nat]
    <2>1. \A k \in Keys : ind[k] \in Nat
        BY <1>5, Zenon
    <2> QED BY <2>1, Zenon
<1>7. n.exact <=> m.exact /\ (ok \/ \A k \in DOMAIN T : m.index[k] # 0)
    BY <1>2, Zenon
<1>8. n.exact \in BOOLEAN
    BY <1>2, Zenon
<1> HIDE DEF ind
<1>9. n.had = m.had /\ n.index = ind
    BY <1>2, Zenon
<1>10. IndexLearned(m, T, ok, n)
    BY <1>1, <1>4, <1>5, <1>6, <1>7, <1>8, <1>9, Zenon DEF IndexLearned
<1> QED BY <1>10, Zenon DEF n

(* A segment built from a table holds the records of the table, all live.  *)
LEMMA NewSegmentData ==
    ASSUME NEW l \in 1 .. MaxLevel, NEW T, DOMAIN T \subseteq Keys,
           \A k \in DOMAIN T : T[k].ts \in Nat /\ T[k].val \in Nat
    PROVE  LET s == NewSegment(l, T)
           IN  /\ IsSegment(s) /\ s.level = l /\ DOMAIN s.table = DOMAIN T
               /\ \A k \in DOMAIN T : s.table[k].ts = T[k].ts /\ s.table[k].val = T[k].val
                                      /\ Bare(s.table[k]) = Bare(T[k]) /\ ~s.table[k].inv
<1> DEFINE s == NewSegment(l, T)
           W == [k \in DOMAIN T |-> [ts |-> T[k].ts, val |-> T[k].val, inv |-> FALSE, obs |-> FALSE]]
<1>1. s = [level |-> l, table |-> W]
    BY Zenon DEF NewSegment
<1>2. DOMAIN W = DOMAIN T
    BY Zenon
<1>3. ASSUME NEW k \in DOMAIN T
      PROVE  W[k] \in Entry /\ W[k].ts = T[k].ts /\ W[k].val = T[k].val /\ ~W[k].inv
    <2>1. W[k] = [ts |-> T[k].ts, val |-> T[k].val, inv |-> FALSE, obs |-> FALSE]
        BY <1>3, Zenon
    <2> HIDE DEF W
    <2> QED BY <2>1 DEF Entry
<1>4. W \in [DOMAIN T -> Entry]
    BY <1>3, Zenon
<1> HIDE DEF W
<1>5. s.level = l /\ s.table = W /\ s \in [level : 1 .. MaxLevel, table : [DOMAIN W -> Entry]]
    BY <1>1, <1>2, <1>4
<1> HIDE DEF s
<1> QED BY <1>2, <1>3, <1>5, Zenon DEF s, IsSegment, Bare

\* n is m after segment s was accounted for.
Accounted(m, s, n) ==
    /\ SameLists(m, n) /\ SameSegs(m.segs, n.segs) /\ n.had = m.had
    /\ n.index \in [Keys -> Nat] /\ n.exact = m.exact
    /\ (\A k \in DOMAIN s.table : m.exact => s.table[k].ts <= m.index[k]) => n.index = m.index

(* Accounting for a linked segment raises the index to its records and     *)
(* changes flags only.                                                     *)
LEMMA AccountData ==
    ASSUME NEW m, IsMeta(m), m.index \in [Keys -> Nat], m.exact \in BOOLEAN, SegShape(m.segs),
           NEW f, NEW s \in m.segs
    PROVE  Accounted(m, s, Account(m, f, s))
<1> DEFINE stale == {k \in DOMAIN s.table : m.index[k] < s.table[k].ts}
           T == [k \in stale |-> s.table[k]]
           m0 == [m EXCEPT !.segs = m.segs \ {s}]
           n0 == IndexUpdate(m0, T, TRUE)
           new == WithFlags([n0 EXCEPT !.segs = n0.segs \cup {s}], f, s)
           n1 == [n0 EXCEPT !.segs = n0.segs \cup {new}]
           n == Account(m, f, s)
<1>1. n = IF m.exact THEN n1 ELSE Recalculate(m, f)
    BY DEF Account
<1>2. CASE ~m.exact
    <2> DEFINE r == Recalculate(m, f)
    <2>1. /\ SameLists(m, r) /\ SameSegs(m.segs, r.segs)
          /\ r.had = m.had /\ r.index = m.index /\ r.exact = m.exact
        BY RecalculateData, Zenon
    <2>2. n = r
        BY <1>1, <1>2
    <2> HIDE DEF n, r
    <2>3. Accounted(m, s, n)
        BY <2>1, <2>2, Zenon DEF Accounted
    <2> QED BY <2>3, Zenon DEF n
<1>3. CASE m.exact
    <2>1. IsSegment(s) /\ \A k \in DOMAIN s.table : k \in Keys /\ s.table[k].ts \in Nat
        BY DEF SegShape, IsSegment, Entry
    <2>2. /\ IsMeta(m0) /\ m0.index = m.index /\ m0.exact = m.exact /\ m0.had = m.had
          /\ m0.segs = m.segs \ {s} /\ SameLists(m, m0) /\ SegShape(m0.segs)
        BY SegsKeepLists, Zenon DEF IsMeta, MetaFields, SegShape
    <2>3. DOMAIN T \subseteq Keys /\ \A k \in DOMAIN T : T[k].ts \in Nat
        BY <2>1, Zenon
    <2> HIDE DEF m0, T
    <2>4. /\ SameLists(m0, n0) /\ SameSegs(m0.segs, n0.segs) /\ n0.had = m0.had
          /\ n0.index \in [Keys -> Nat] /\ n0.exact \in BOOLEAN
          /\ n0.exact <=> m0.exact
          /\ \A k \in Keys : n0.index[k] =
                IF k \in DOMAIN T /\ IF m0.index[k] = 0 THEN TRUE ELSE T[k].ts > m0.index[k]
                THEN T[k].ts ELSE m0.index[k]
        <3>1. IndexLearned(m0, T, TRUE, n0)
            <4>1. TRUE \in BOOLEAN /\ m0.index \in [Keys -> Nat] /\ m0.exact \in BOOLEAN
                BY <2>2, Zenon
            <4> QED BY <2>2, <2>3, <4>1, IndexUpdateData, Zenon
        <3> HIDE DEF n0
        <3> QED BY <3>1, Zenon DEF IndexLearned
    <2> HIDE DEF n0
    <2>5. IsMeta(n0)
        BY <2>4, Zenon DEF SameLists
    <2>6. [n0 EXCEPT !.segs = n0.segs \cup {s}].index = n0.index
        BY <2>5 DEF IsMeta, MetaFields
    <2>7. IsSegment(new) /\ SameData(s, new)
        BY <2>1, <2>4, <2>6, WithFlagsData, Zenon
    <2> HIDE DEF new
    <2>8. /\ SameLists(n0, n1) /\ n1.segs = n0.segs \cup {new} /\ n1.had = n0.had
          /\ n1.index = n0.index /\ n1.exact = n0.exact
        BY <2>5, SegsKeepLists DEF IsMeta, MetaFields
    <2> HIDE DEF n1
    <2>9. SameLists(m, n1)
        BY <2>2, <2>4, <2>8, Zenon DEF SameLists
    <2>10. SameSegs(m.segs, n1.segs)
        <3>1. SameSegs({s}, {new})
            BY <2>7, Zenon DEF SameSegs
        <3>2. SameSegs(m0.segs \cup {s}, n0.segs \cup {new})
            BY <2>4, <3>1, SameSegsFacts
        <3>3. m0.segs \cup {s} = m.segs
            BY <2>2, Zenon
        <3> QED BY <2>8, <3>2, <3>3, Zenon
    <2>11. ASSUME \A k \in DOMAIN s.table : m.exact => s.table[k].ts <= m.index[k]
           PROVE  n1.index = m.index
        <3>1. \A k \in DOMAIN s.table : ~(m.index[k] < s.table[k].ts)
            BY <1>3, <2>1, <2>11
        <3>2. DOMAIN T = {}
            BY <3>1, Zenon DEF T
        <3>3. \A k \in Keys : n0.index[k] = m.index[k]
            BY <2>2, <2>4, <3>2, Zenon
        <3>4. n0.index = m.index
            <4>1. n0.index \in [Keys -> Nat]
                BY <2>4, Zenon
            <4> QED BY <3>3, <4>1
        <3> QED BY <2>8, <3>4, Zenon
    <2>12. n1.exact = m.exact
        BY <2>2, <2>4, <2>8, Zenon
    <2>13. n = n1
        BY <1>1, <1>3, Zenon
    <2> HIDE DEF n
    <2>14. n1.had = m.had /\ n1.index \in [Keys -> Nat]
        BY <2>2, <2>4, <2>8, Zenon
    <2>15. Accounted(m, s, n1)
        BY <2>9, <2>10, <2>11, <2>12, <2>14, Zenon DEF Accounted
    <2>16. Accounted(m, s, n)
        BY <2>13, <2>15, Zenon
    <2> QED BY <2>16 DEF n
<1> QED BY <1>2, <1>3, Zenon

\* n is m without the segments S; the segments fresh are there in any case.
Retired(m, S, fresh, n) ==
    /\ SameLists(m, n) /\ n.had = m.had /\ n.index = m.index /\ n.exact = m.exact
    /\ SameSegs(((m.segs \ S) \ fresh) \cup fresh, n.segs) /\ fresh \subseteq n.segs

(* Retiring segments removes them and changes flags of the others only.    *)
LEMMA RetireData ==
    ASSUME NEW m, IsMeta(m), SegShape(m.segs), NEW f, NEW S, NEW fresh, SegShape(fresh)
    PROVE  Retired(m, S, fresh, Retire(m, f, S, fresh))
<1> DEFINE n0 == [m EXCEPT !.segs = m.segs \ S]
           K == UNION {DOMAIN s.table : s \in S}
           Dead(k, e) == k \in K /\ e.val = Tombstone /\ ~TombstoneKept(n0, f, k, e.ts)
           Tab(s) == [k \in DOMAIN s.table |->
                        [s.table[k] EXCEPT !.inv = s.table[k].inv \/ Dead(k, s.table[k])]]
           Re(s) == [s EXCEPT !.table = Tab(s)]
           kept == (m.segs \ S) \ fresh
           n == Retire(m, f, S, fresh)
<1>1. IsMeta(n0) /\ n0.segs = m.segs \ S
    BY DEF IsMeta, MetaFields
<1>2. n = [n0 EXCEPT !.segs = {Re(s) : s \in n0.segs \ fresh} \cup fresh]
    BY DEF Retire
<1>3. SameLists(m, n)
    BY RetireKeepsLists, Zenon
<1>4. n0.had = m.had /\ n0.index = m.index /\ n0.exact = m.exact
    BY DEF IsMeta, MetaFields
<1>5. ASSUME NEW s, IsSegment(s)
      PROVE  IsSegment(Re(s)) /\ SameData(s, Re(s))
    <2>1. ASSUME NEW k \in DOMAIN s.table
          PROVE  Tab(s)[k] \in Entry /\ Tab(s)[k].ts = s.table[k].ts /\ Tab(s)[k].val = s.table[k].val
        <3> DEFINE e == s.table[k]
                   i == e.inv \/ Dead(k, e)
        <3>1. e \in Entry /\ i \in BOOLEAN
            BY <1>5 DEF IsSegment
        <3>2. Tab(s)[k] = SetDead(e, i)
            BY Zenon DEF SetDead
        <3> HIDE DEF Tab, e, i
        <3>3. Tab(s)[k] \in Entry /\ Tab(s)[k].ts = e.ts /\ Tab(s)[k].val = e.val
            BY <3>1, <3>2, EntryFlags
        <3> QED BY <3>3, Zenon DEF e
    <2>2. DOMAIN Tab(s) = DOMAIN s.table
        OBVIOUS
    <2>3. Tab(s) \in [DOMAIN s.table -> Entry]
        BY <2>1, ZenonT(30)
    <2> HIDE DEF Tab
    <2> QED BY <1>5, <2>1, <2>2, <2>3, Reflagged
<1> HIDE DEF Re, n0
<1>6. /\ n.segs = {Re(s) : s \in kept} \cup fresh
      /\ n.had = n0.had /\ n.index = n0.index /\ n.exact = n0.exact
    BY <1>1, <1>2, Zenon DEF IsMeta, MetaFields
<1>7. SameSegs(kept, {Re(s) : s \in kept})
    <2>1. \A s \in kept : IsSegment(Re(s)) /\ SameData(s, Re(s))
        BY <1>5, Zenon DEF SegShape
    <2> HIDE DEF kept
    <2> QED BY <2>1, ZenonT(30) DEF SameSegs
<1>8. SameSegs(kept \cup fresh, n.segs)
    <2>1. SameSegs(fresh, fresh)
        BY SameSegsFacts, Zenon
    <2> HIDE DEF kept, n
    <2> QED BY <1>6, <1>7, <2>1, SameSegsFacts, Zenon
<1>9. fresh \subseteq n.segs
    BY <1>6, Zenon
<1>10. n.had = m.had /\ n.index = m.index /\ n.exact = m.exact
    BY <1>4, <1>6, Zenon
<1> HIDE DEF n
<1>11. Retired(m, S, fresh, n)
    BY <1>3, <1>8, <1>9, <1>10, Zenon DEF Retired
<1> QED BY <1>11, Zenon DEF n

(* Linking adds the segment and marks its level as one that had segments.  *)
LEMMA LinkedData ==
    ASSUME NEW m, IsMeta(m), NEW s
    PROVE  LET n == Linked(m, s)
           IN  /\ SameLists(m, n) /\ n.index = m.index /\ n.exact = m.exact
               /\ n.segs = m.segs \cup {s} /\ n.had = m.had \cup {s.level}
<1>1. SameLists(m, Linked(m, s))
    BY LinkedKeepsLists
<1> QED BY <1>1 DEF Linked, IsMeta, MetaFields
-----------------------------------------------------------------------------
(* What the records of a key say.                                          *)

Searched(m, k) == UnsortedRecords(m, k) \cup SegmentRecords(m, k)

IsNewest(r, R) == r \in R /\ \A x \in R : x.ts <= r.ts

(* The records of a key have timestamps the clock has issued, no two the   *)
(* same; the newest has the value of the forward map, and the lookup finds *)
(* it unless there are only tombstones; an exact index names it.           *)
KeyInv(m, f, k) ==
    LET R == Records(m, k)
    IN  /\ \A r \in R : r \in Rec /\ 0 < r.ts /\ r.ts <= m.clock
        /\ \A r, x \in R : r.ts = x.ts => r = x
        /\ R # {} => \E r \in R : /\ IsNewest(r, R) /\ r.val = f[k]
                                  /\ r \in Searched(m, k) \/ \A x \in R : x.val = Tombstone
        /\ m.exact => \/ R = {} /\ m.index[k] = 0
                      \/ \E r \in R : IsNewest(r, R) /\ r.ts = m.index[k]

(* Without a change but to flags, a key has the same records and the same  *)
(* ones are searched.                                                      *)
LEMMA SameRecords ==
    ASSUME NEW m, NEW n, SameLists(m, n), SameSegs(m.segs, n.segs)
    PROVE  \A k : /\ Records(n, k) = Records(m, k) /\ Searched(n, k) = Searched(m, k)
                  /\ UnsortedRecords(n, k) = UnsortedRecords(m, k)
<1>1. \A k : SegmentRecords(n, k) = SegmentRecords(m, k)
    BY SameSegsSameRecords, Zenon
<1>2. \A k : UnsortedRecords(n, k) = UnsortedRecords(m, k)
    BY Zenon DEF UnsortedRecords, SameLists
<1>3. \A k : SortedRecords(n, k, 1 .. MaxLevel) = SortedRecords(m, k, 1 .. MaxLevel)
    BY Zenon DEF SortedRecords, SameLists
<1> QED BY <1>1, <1>2, <1>3, Zenon DEF Records, Searched

(* A step that keeps the newest record of a key, and finds it if it did.   *)
LEMMA KeyKept ==
    ASSUME NEW m, NEW n, NEW f, NEW k, KeyInv(m, f, k),
           Records(n, k) \subseteq Records(m, k),
           \A r : IsNewest(r, Records(m, k)) =>
               /\ r \in Records(n, k)
               /\ r \in Searched(m, k) =>
                     r \in Searched(n, k) \/ \A x \in Records(m, k) : x.val = Tombstone,
           n.clock = m.clock,
           n.exact => m.exact /\ n.index[k] = m.index[k]
    PROVE  KeyInv(n, f, k)
<1> DEFINE R == Records(m, k)
           Q == Records(n, k)
<1>1. /\ \A r \in R : r \in Rec /\ 0 < r.ts /\ r.ts <= m.clock
      /\ \A r, x \in R : r.ts = x.ts => r = x
      /\ R # {} => \E r \in R : /\ IsNewest(r, R) /\ r.val = f[k]
                                /\ r \in Searched(m, k) \/ \A x \in R : x.val = Tombstone
      /\ m.exact => \/ R = {} /\ m.index[k] = 0
                    \/ \E r \in R : IsNewest(r, R) /\ r.ts = m.index[k]
    BY Zenon DEF KeyInv
<1> HIDE DEF R, Q
<1>2. Q \subseteq R /\ \A r : IsNewest(r, R) => r \in Q /\ IsNewest(r, Q)
    BY Zenon DEF R, Q, IsNewest
<1>3. ASSUME Q # {}
      PROVE  \E r \in Q : /\ IsNewest(r, Q) /\ r.val = f[k]
                          /\ r \in Searched(n, k) \/ \A x \in Q : x.val = Tombstone
    <2>1. PICK r \in R : /\ IsNewest(r, R) /\ r.val = f[k]
                         /\ r \in Searched(m, k) \/ \A x \in R : x.val = Tombstone
        BY <1>1, <1>2, <1>3, Zenon
    <2>2. r \in Searched(n, k) \/ \A x \in R : x.val = Tombstone
        BY <2>1, Zenon DEF R
    <2> QED BY <1>2, <2>1, <2>2, Zenon
<1>4. ASSUME n.exact
      PROVE  (Q = {} /\ n.index[k] = 0) \/ \E r \in Q : IsNewest(r, Q) /\ r.ts = n.index[k]
    <2>1. CASE R = {} /\ m.index[k] = 0
        BY <1>2, <1>4, <2>1, Zenon
    <2>2. CASE \E r \in R : IsNewest(r, R) /\ r.ts = m.index[k]
        BY <1>2, <1>4, <2>2, Zenon
    <2> QED BY <1>1, <1>4, <2>1, <2>2, Zenon
<1>5. \A r \in Q : r \in Rec /\ 0 < r.ts /\ r.ts <= n.clock
    BY <1>1, <1>2, Zenon
<1>6. \A r, x \in Q : r.ts = x.ts => r = x
    BY <1>1, <1>2, Zenon
<1> QED BY <1>3, <1>4, <1>5, <1>6, Zenon DEF KeyInv, Q

(* A record newer than all others is added and carries the new value.      *)
LEMMA KeyAdded ==
    ASSUME NEW m, NEW n, NEW f, NEW g, NEW k, KeyInv(m, f, k), m.clock \in Nat, n.clock \in Nat,
           NEW x \in Rec, 0 < x.ts, x.ts <= n.clock, m.clock <= n.clock,
           \A r \in Records(m, k) : r.ts < x.ts,
           Records(n, k) = Records(m, k) \cup {x}, x \in Searched(n, k), x.val = g[k],
           n.exact => n.index[k] = x.ts
    PROVE  KeyInv(n, g, k)
<1> DEFINE R == Records(m, k)
           Q == Records(n, k)
<1>1. /\ \A r \in R : r \in Rec /\ 0 < r.ts /\ r.ts <= m.clock
      /\ \A r, y \in R : r.ts = y.ts => r = y
    BY Zenon DEF KeyInv
<1>2. x.ts \in Nat /\ \A r \in R : r.ts \in Nat
    BY <1>1, Zenon DEF Rec
<1>3. Q = R \cup {x} /\ \A r \in R : r.ts < x.ts
    BY Zenon
<1> HIDE DEF R, Q
<1>4. IsNewest(x, Q)
    BY <1>2, <1>3 DEF IsNewest
<1>5. \A r \in Q : r \in Rec /\ 0 < r.ts /\ r.ts <= n.clock
    BY <1>1, <1>2, <1>3
<1>6. \A r, y \in Q : r.ts = y.ts => r = y
    BY <1>1, <1>2, <1>3
<1> QED BY <1>4, <1>5, <1>6, Zenon DEF KeyInv, Q

(* A record is added that is older than the newest, which the lookup finds.*)
LEMMA KeyAddedOlder ==
    ASSUME NEW m, NEW n, NEW f, NEW k, KeyInv(m, f, k), n.clock = m.clock,
           NEW x \in Rec, 0 < x.ts, x.ts <= n.clock,
           \A r \in Records(m, k) : r.ts # x.ts,
           Records(n, k) = Records(m, k) \cup {x},
           NEW y, IsNewest(y, Records(m, k)), y \in Searched(n, k), x.ts < y.ts,
           n.exact => m.exact /\ n.index[k] = m.index[k]
    PROVE  KeyInv(n, f, k)
<1> DEFINE R == Records(m, k)
           Q == Records(n, k)
<1>1. /\ \A r \in R : r \in Rec /\ 0 < r.ts /\ r.ts <= m.clock
      /\ \A r, z \in R : r.ts = z.ts => r = z
      /\ R # {} => \E r \in R : IsNewest(r, R) /\ r.val = f[k]
      /\ m.exact => \/ R = {} /\ m.index[k] = 0
                    \/ \E r \in R : IsNewest(r, R) /\ r.ts = m.index[k]
    BY Zenon DEF KeyInv
<1>2. x.ts \in Nat /\ \A r \in R : r.ts \in Nat
    BY <1>1, Zenon DEF Rec
<1>3. Q = R \cup {x} /\ \A r \in R : r.ts # x.ts
    BY Zenon
<1>4. IsNewest(y, R) /\ y \in R
    BY Zenon DEF IsNewest
<1> HIDE DEF R, Q
<1>5. IsNewest(y, Q)
    BY <1>2, <1>3, <1>4 DEF IsNewest
<1>6. \A r : IsNewest(r, R) => r = y
    <2> SUFFICES ASSUME NEW r, IsNewest(r, R) PROVE r = y
        BY Zenon
    <2>1. r \in R /\ r.ts <= y.ts /\ y.ts <= r.ts /\ r.ts \in Nat /\ y.ts \in Nat
        BY <1>2, <1>4, Zenon DEF IsNewest
    <2>2. r.ts = y.ts
        BY <2>1
    <2> QED BY <1>1, <1>4, <2>1, <2>2, Zenon
<1>7. \A r \in Q : r \in Rec /\ 0 < r.ts /\ r.ts <= n.clock
    BY <1>1, <1>3, Zenon
<1>8. \A r, z \in Q : r.ts = z.ts => r = z
    BY <1>1, <1>3, Zenon
<1>9. y.val = f[k]
    BY <1>1, <1>4, <1>6, Zenon
<1>10. n.exact => y.ts = n.index[k]
    BY <1>1, <1>4, <1>6, Zenon
<1> QED BY <1>5, <1>7, <1>8, <1>9, <1>10, Zenon DEF KeyInv, Q, IsNewest
-----------------------------------------------------------------------------
(* The invariant.                                                          *)

\* Sorted lists hold records of keys, of levels that had a segment.
SortedShape(m) ==
    /\ DOMAIN m.sorted = 1 .. MaxLevel
    /\ \A l \in 1 .. MaxLevel :
            /\ DOMAIN m.sorted[l] \subseteq Keys
            /\ \A k \in DOMAIN m.sorted[l] : m.sorted[l][k] \in Rec
            /\ DOMAIN m.sorted[l] # {} => l \in m.had

MetaShape(m) ==
    /\ IsMeta(m) /\ m.clock \in Nat /\ m.index \in [Keys -> Nat] /\ m.exact \in BOOLEAN
    /\ SegShape(m.segs) /\ SortedShape(m)

\* What a segment holds, but for the copies a collection made, the sorted list
\* of its level holds too, or something newer.
Covered(S, sorted) ==
    \A s \in S : \A k \in DOMAIN s.table :
        s.level < MaxLevel \/ s.table[k].val = Tombstone =>
            k \in DOMAIN sorted[s.level] /\ sorted[s.level][k].ts >= s.table[k].ts

\* The copy t of key k, planned by a collection: it is still the newest record,
\* or the key has been written or discarded since.
GcEntry(m, f, k, t) ==
    /\ t \in Rec /\ t.val # Tombstone /\ 0 < t.ts /\ t.ts <= m.clock
    /\ \A x \in Records(m, k) : x.ts # t.ts
    /\ \/ t.val = f[k] /\ \A x \in Records(m, k) : x.ts < t.ts
       \/ \E y \in UnsortedRecords(m, k) : IsNewest(y, Records(m, k)) /\ t.ts < y.ts

GcPlanInv ==
    plan.kind = "gc" =>
        /\ DOMAIN plan.table \subseteq Keys
        /\ \A k \in DOMAIN plan.table : GcEntry(meta, fmap, k, plan.table[k])

\* The records of k a level compaction takes: those of the borrowed nodes, told
\* by their timestamps, and that of the sorted list it retires.
Window(p, m, k) == {r \in UnsortedRecords(m, k) : p.n > 0 /\ p.after < r.ts /\ r.ts <= p.head}

Inputs(p, m, k) ==
    Window(p, m, k) \cup
        {m.sorted[l][k] : l \in {j \in 1 .. MaxLevel : p.retire /\ j = p.src /\ k \in DOMAIN m.sorted[j]}}

LevelPlanInv ==
    plan.kind = "level" =>
        /\ plan.src \in 0 .. MaxLevel /\ plan.dst \in 1 .. MaxLevel
        /\ plan.retire \in BOOLEAN
        /\ plan.retire => plan.src < plan.dst
        /\ plan.table # NoTable =>
            /\ DOMAIN plan.table \subseteq Keys
            /\ \A k \in Keys : IF k \in DOMAIN plan.table
                               THEN IsNewest(plan.table[k], Inputs(plan, meta, k))
                               ELSE Inputs(plan, meta, k) = {}

RInv ==
    /\ MetaShape(meta) /\ Covered(meta.segs, meta.sorted)
    /\ fmap \in [Keys -> Nat]
    /\ \A k \in Keys : KeyInv(meta, fmap, k)
    /\ GcPlanInv /\ LevelPlanInv
=============================================================================
