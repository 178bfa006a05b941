---------------------------- MODULE PstoreProofs ----------------------------
(***************************************************************************)
(* Proofs about Pstore for every layout, number of zones and queue depth.  *)
(*                                                                         *)
(* The invariant IInv joins the checked invariants with what makes them    *)
(* inductive: what a running save may still write it would mark again if   *)
(* it failed (ThreadInv), no state in use is the blank one (BlankInv), and *)
(* a full save has put every page it has passed on the device (SaveInv).   *)
(*                                                                         *)
(* Every handler has one shape, Handled(E): it replaces the state and adds *)
(* marks, and only items of E change on a page that is not marked.         *)
(***************************************************************************)
EXTENDS Pstore, FiniteSetTheorems, TLAPS

-----------------------------------------------------------------------------
(* The layout.                                                             *)

(* The page of a later byte is not an earlier page.                        *)
LEMMA DivMonotone ==
    ASSUME NEW a \in Nat, NEW b \in Nat, a <= b
    PROVE  /\ a \div PageSize \in Nat
           /\ a \div PageSize <= b \div PageSize
BY LayoutAssumption

(* An array entry ends before the end of its array.                        *)
LEMMA ProductMonotone ==
    ASSUME NEW s \in Nat, NEW z \in Zones
    PROVE  s * z \in Nat /\ s * NumZones \in Nat /\ s * z + s <= s * NumZones
<1>1. NumZones \in Nat /\ z \in Nat /\ z + 1 <= NumZones
    BY LayoutAssumption DEF Zones
<1>2. \A a, b, c \in Nat : b + 1 <= c => a * b \in Nat /\ a * c \in Nat /\ a * b + a <= a * c
    OBVIOUS
<1> QED
    BY <1>1, <1>2

(* The parts of the state follow each other in memory.                     *)
LEMMA Offsets ==
    /\ StatsEnd \in Nat /\ StatusOff \in Nat /\ MagicOff \in Nat /\ Length \in Nat
    /\ PgOff <= StatsEnd /\ StatsEnd <= StatusOff /\ StatusOff <= MagicOff /\ MagicOff < Length
    /\ MagicOff = StatusOff + StatusBytes * NumZones
    /\ StatusBytes * NumZones \in Nat /\ StatBytes * NumZones \in Nat
<1>1. StatBytes * NumZones \in Nat /\ StatusBytes * NumZones \in Nat
    BY LayoutAssumption
<1>2. StatsEnd \in Nat /\ PgOff <= StatsEnd
    BY <1>1, LayoutAssumption DEF StatsEnd
<1>3. StatusOff \in Nat /\ StatsEnd <= StatusOff
    BY <1>2, LayoutAssumption DEF StatusOff
<1>4. MagicOff \in Nat /\ StatusOff <= MagicOff
    BY <1>1, <1>3 DEF MagicOff
<1> QED
    BY <1>1, <1>2, <1>3, <1>4, LayoutAssumption DEF Length, MagicOff

(* Bytes that lie within the first e lie on their pages.                   *)
LEMMA PageRange ==
    ASSUME NEW a \in Nat, NEW n \in Nat \ {0}, NEW e \in Nat \ {0}, a + n <= e
    PROVE  Span(a, n) \subseteq 0 .. ((e - 1) \div PageSize)
<1>1. a + n - 1 \in Nat /\ e - 1 \in Nat /\ a <= a + n - 1 /\ a + n - 1 <= e - 1
    OBVIOUS
<1>2. a \div PageSize \in Nat /\ (a + n - 1) \div PageSize \in Nat
      /\ (a + n - 1) \div PageSize <= (e - 1) \div PageSize /\ (e - 1) \div PageSize \in Nat
    BY <1>1, DivMonotone
<1> QED
    BY <1>2 DEF Span

(* The last page of counters is a page of the state, and so is page 0.     *)
LEMMA LastPages ==
    /\ StatsLast \in Nat /\ LastPage \in Nat /\ StatsLast <= LastPage
    /\ 0 \in Pages
<1>1. StatsEnd - 1 \in Nat /\ Length - 1 \in Nat /\ StatsEnd - 1 <= Length - 1
    BY Offsets, LayoutAssumption
<1>2. StatsLast = (StatsEnd - 1) \div PageSize
    BY Offsets, LayoutAssumption DEF StatsLast, StatsEnd
<1>3. StatsLast \in Nat /\ LastPage \in Nat /\ StatsLast <= LastPage
    BY <1>1, <1>2, DivMonotone DEF LastPage
<1> QED
    BY <1>3 DEF Pages

(* The head lies on page 0.                                                *)
LEMMA HeadSpan ==
    Span(0, PgOff) = {0}
<1>1. (0 + PgOff - 1) \div PageSize = 0 /\ 0 \div PageSize = 0
    BY LayoutAssumption
<1> QED
    BY <1>1 DEF Span

(* The counters of a zone lie on the pages the STATS flag has saved.       *)
LEMMA StatSpans ==
    ASSUME NEW z \in Zones
    PROVE  StatSpan(z) \subseteq 0 .. StatsLast
<1>1. StatBytes * z \in Nat /\ StatBytes * z + StatBytes <= StatBytes * NumZones /\ StatBytes * NumZones \in Nat
    BY ProductMonotone, LayoutAssumption
<1>2. PgOff + StatBytes * z \in Nat /\ (PgOff + StatBytes * z) + StatBytes <= StatsEnd
    BY <1>1, LayoutAssumption DEF StatsEnd
<1>3. StatsEnd \in Nat \ {0}
    BY Offsets, LayoutAssumption
<1>4. Span(PgOff + StatBytes * z, StatBytes) \subseteq 0 .. ((StatsEnd - 1) \div PageSize)
    BY <1>2, <1>3, PageRange, LayoutAssumption
<1>5. StatsLast = (StatsEnd - 1) \div PageSize
    BY Offsets, LayoutAssumption DEF StatsLast, StatsEnd
<1> QED
    BY <1>4, <1>5 DEF StatSpan

(* The status of a zone lies on pages of the state.                        *)
LEMMA StatusSpans ==
    ASSUME NEW z \in Zones
    PROVE  StatusSpan(z) \subseteq Pages
<1>1. StatusBytes * z \in Nat /\ StatusBytes * z + StatusBytes <= StatusBytes * NumZones
    BY ProductMonotone, LayoutAssumption
<1>2. StatusOff + StatusBytes * z \in Nat /\ (StatusOff + StatusBytes * z) + StatusBytes <= Length
    BY <1>1, Offsets, LayoutAssumption
<1>3. Length \in Nat \ {0}
    BY Offsets
<1>4. Span(StatusOff + StatusBytes * z, StatusBytes) \subseteq 0 .. ((Length - 1) \div PageSize)
    BY <1>2, <1>3, PageRange, LayoutAssumption
<1> QED
    BY <1>4 DEF StatusSpan, Pages, LastPage

(* The magic number lies on pages of the state.                            *)
LEMMA MagicSpan ==
    Span(MagicOff, MagicBytes) \subseteq Pages
<1>1. MagicOff + MagicBytes <= Length /\ Length \in Nat \ {0} /\ MagicOff \in Nat
    BY Offsets, LayoutAssumption DEF Length
<1> QED
    BY <1>1, PageRange, LayoutAssumption DEF Pages, LastPage

(* The pages of each kind of item.                                         *)
LEMMA PagesOfItems ==
    /\ Head \in Items /\ Magic \in Items
    /\ ItemPages[Head] = {0}
    /\ ItemPages[Magic] \subseteq Pages
    /\ \A z \in Zones : /\ Stat(z) \in Items /\ Status(z) \in Items
                        /\ ItemPages[Stat(z)] \subseteq 0 .. StatsLast
                        /\ ItemPages[Stat(z)] \subseteq Pages
                        /\ ItemPages[Status(z)] = StatusSpan(z)
                        /\ ItemPages[Status(z)] \subseteq Pages
<1>1. Head \in Items /\ Magic \in Items /\ \A z \in Zones : Stat(z) \in Items /\ Status(z) \in Items
    BY DEF Items
<1>2. ItemPages[Head] = Span(0, PgOff)
    BY <1>1 DEF ItemPages, Head
<1>3. ItemPages[Magic] = Span(MagicOff, MagicBytes)
    BY <1>1 DEF ItemPages, Magic
<1>4. ASSUME NEW z \in Zones
      PROVE  ItemPages[Stat(z)] = StatSpan(z) /\ ItemPages[Status(z)] = StatusSpan(z)
    BY <1>1 DEF ItemPages, Stat, Status
<1>5. 0 .. StatsLast \subseteq Pages
    BY LastPages DEF Pages
<1> QED
    BY <1>1, <1>2, <1>3, <1>4, <1>5, HeadSpan, MagicSpan, StatSpans, StatusSpans

(* Every item lies on pages of the state.                                  *)
LEMMA ItemsInPages ==
    ASSUME NEW i \in Items
    PROVE  ItemPages[i] \subseteq Pages
<1>1. {0} \subseteq Pages
    BY LastPages
<1> QED
    BY <1>1, PagesOfItems DEF Items
-----------------------------------------------------------------------------
(* The marks.                                                              *)

(* A full save marks every page.                                           *)
LEMMA FullMarked ==
    ASSUME NEW t \in Marks, t.flag # {}, FullSave(t)
    PROVE  Marked(t) = Pages
BY LastPages DEF Marked, DataPages

(* What an incremental save marks.                                         *)
LEMMA PartMarked ==
    ASSUME NEW t \in Marks, ~FullSave(t)
    PROVE  /\ "STATS" \in t.flag => 0 .. StatsLast \subseteq Marked(t)
           /\ "STATUS" \in t.flag => \A z \in t.zones : ItemPages[Status(z)] \subseteq Marked(t)
<1>1. t.flag # {} => Marked(t) = {0} \cup DataPages(t)
    BY DEF Marked
<1>2. ASSUME "STATS" \in t.flag PROVE 0 .. StatsLast \subseteq Marked(t)
  <2>1. 1 .. StatsLast \subseteq DataPages(t)
      BY <1>2 DEF DataPages
  <2>2. 0 .. StatsLast \subseteq {0} \cup 1 .. StatsLast
      BY LastPages
  <2> QED
      BY <1>1, <1>2, <2>1, <2>2
<1>3. ASSUME "STATUS" \in t.flag, NEW z \in t.zones PROVE ItemPages[Status(z)] \subseteq Marked(t)
  <2>1. ItemPages[Status(z)] \subseteq DataPages(t)
      BY <1>3 DEF DataPages
  <2> QED
      BY <1>1, <1>3, <2>1
<1> QED
    BY <1>2, <1>3

(* Only pages of the state are marked.                                     *)
LEMMA MarkedInPages ==
    ASSUME NEW t \in Marks
    PROVE  Marked(t) \subseteq Pages
<1>1. 1 .. StatsLast \subseteq Pages
    BY LastPages DEF Pages
<1>2. \A z \in t.zones : ItemPages[Status(z)] \subseteq Pages
    BY PagesOfItems DEF Marks
<1>3. UNION {ItemPages[Status(z)] : z \in t.zones} \subseteq Pages
    BY <1>2
<1>4. DataPages(t) \subseteq Pages
    BY <1>1, <1>3 DEF DataPages
<1> QED
    BY <1>4, LastPages DEF Marked

(* What has more flags, more zones and no smaller gap marks more.          *)
LEMMA MarkedMonotone ==
    ASSUME NEW t \in Marks, NEW r \in Marks, t.flag \subseteq r.flag,
           t.zones \subseteq r.zones \/ r.gap = PgGap,
           t.gap <= r.gap
    PROVE  Marked(t) \subseteq Marked(r)
<1>1. CASE t.flag = {}
    BY <1>1 DEF Marked
<1>2. CASE t.flag # {} /\ FullSave(r)
  <2>1. r.flag # {}
      BY <1>2
  <2> QED
      BY <1>2, <2>1, FullMarked, MarkedInPages
<1>3. CASE t.flag # {} /\ ~FullSave(r)
  <2>1. r.gap # PgGap /\ ~FullSave(t)
      BY <1>3 DEF FullSave, Marks, PgGap
  <2>2. t.zones \subseteq r.zones
      BY <2>1
  <2>3. UNION {ItemPages[Status(z)] : z \in t.zones} \subseteq UNION {ItemPages[Status(z)] : z \in r.zones}
      BY <2>2, Zenon
  <2>4. DataPages(t) \subseteq DataPages(r)
      BY <1>3, <2>1, <2>3 DEF DataPages
  <2>5. r.flag # {}
      BY <1>3
  <2> QED
      BY <1>3, <2>4, <2>5 DEF Marked
<1> QED
    BY <1>1, <1>2, <1>3

(* Marking the counters unmarks nothing and marks all their pages.         *)
LEMMA MarkStatsMarks ==
    ASSUME NEW t \in Marks
    PROVE  /\ MarkStats(t) \in Marks
           /\ Marked(t) \subseteq Marked(MarkStats(t))
           /\ 0 .. StatsLast \subseteq Marked(MarkStats(t))
           /\ "STATS" \in MarkStats(t).flag
           /\ MarkStats(t).zones = t.zones
           /\ "STATUS" \in t.flag => "STATUS" \in MarkStats(t).flag
<1> DEFINE r == MarkStats(t)
<1>1. r \in Marks /\ r.flag = t.flag \cup {"STATS"} /\ r.zones = t.zones /\ r.gap = t.gap
    BY DEF MarkStats, Marks
<1> HIDE DEF r
<1>2. Marked(t) \subseteq Marked(r)
    BY <1>1, MarkedMonotone DEF Marks, PgGap
<1>3. 0 .. StatsLast \subseteq Marked(r)
  <2>1. CASE FullSave(r)
      BY <1>1, <2>1, FullMarked, LastPages DEF Pages
  <2>2. CASE ~FullSave(r)
      BY <1>1, <2>2, PartMarked
  <2> QED
      BY <2>1, <2>2
<1> QED
    BY <1>1, <1>2, <1>3 DEF r

(* Queueing a zone unmarks nothing and marks its pages, whether or not     *)
(* the queue has room for it.                                              *)
LEMMA QueueZoneMarks ==
    ASSUME NEW t \in Marks, NEW z \in Zones
    PROVE  /\ QueueZone(t, z) \in Marks
           /\ Marked(t) \subseteq Marked(QueueZone(t, z))
           /\ ItemPages[Status(z)] \subseteq Marked(QueueZone(t, z))
           /\ t.flag \subseteq QueueZone(t, z).flag
           /\ "STATUS" \in QueueZone(t, z).flag
<1> DEFINE r == QueueZone(t, z)
<1>1. /\ r \in Marks /\ r.flag = t.flag \cup {"STATUS"}
      /\ t.zones \subseteq r.zones
      /\ t.gap <= r.gap
      /\ z \in r.zones \/ r.gap = PgGap
  <2>1. CASE Cardinality(t.zones) = QDepth
    <3>1. r = [t EXCEPT !.flag = @ \cup {"STATUS"}, !.gap = PgGap]
        BY <2>1 DEF QueueZone
    <3>2. r.flag = t.flag \cup {"STATUS"} /\ r.zones = t.zones /\ r.gap = PgGap
        BY <3>1 DEF Marks
    <3>3. r \in Marks
        BY <3>1, ZenonT(30) DEF Marks
    <3> QED
        BY <3>2, <3>3 DEF Marks, PgGap
  <2>2. CASE Cardinality(t.zones) # QDepth
    <3>1. r = [t EXCEPT !.flag = @ \cup {"STATUS"}, !.zones = @ \cup {z}]
        BY <2>2 DEF QueueZone
    <3>2. r.flag = t.flag \cup {"STATUS"} /\ r.zones = t.zones \cup {z} /\ r.gap = t.gap
        BY <3>1 DEF Marks
    <3>3. r \in Marks
        BY <3>1, ZenonT(30) DEF Marks
    <3> QED
        BY <3>2, <3>3 DEF Marks, PgGap
  <2> QED
      BY <2>1, <2>2
<1> HIDE DEF r
<1>2. Marked(t) \subseteq Marked(r)
    BY <1>1, MarkedMonotone
<1>3. ItemPages[Status(z)] \subseteq Marked(r)
  <2>1. CASE FullSave(r)
      BY <1>1, <2>1, FullMarked, PagesOfItems
  <2>2. CASE ~FullSave(r)
    <3>1. z \in r.zones
        BY <1>1, <2>2 DEF FullSave, PgGap
    <3> QED
        BY <1>1, <2>2, <3>1, PartMarked
  <2> QED
      BY <2>1, <2>2
<1> QED
    BY <1>1, <1>2, <1>3 DEF r

(* A change of the configuration marks every page.                         *)
LEMMA MarkConfigMarks ==
    MarkConfig \in Marks /\ Marked(MarkConfig) = Pages
<1>1. MarkConfig \in Marks /\ MarkConfig.flag # {} /\ FullSave(MarkConfig)
    BY DEF MarkConfig, Marks, FullSave
<1> QED
    BY <1>1, FullMarked

(* Marks that are put back after a failed save are all there again,        *)
(* beside those made meanwhile.                                            *)
LEMMA RestoredMarks ==
    ASSUME NEW t \in Marks, NEW s \in Marks, NEW r \in Marks, Restored(t, s, r)
    PROVE  Marked(t) \subseteq Marked(r) /\ Marked(s) \subseteq Marked(r)
<1>1. Marked(t) \subseteq Marked(r)
  <2>1. t.gap <= r.gap
      BY DEF Restored, Marks, PgGap
  <2> QED
      BY <2>1, MarkedMonotone DEF Restored
<1>2. Marked(s) \subseteq Marked(r)
  <2>1. s.gap <= r.gap
      BY DEF Restored, Marks, PgGap, FullSave
  <2>2. s.zones \subseteq r.zones \/ r.gap = PgGap
      BY DEF Restored
  <2> QED
      BY <2>1, <2>2, MarkedMonotone DEF Restored
<1> QED
    BY <1>1, <1>2

-----------------------------------------------------------------------------
(* Well-formed marks, and what the marking operators keep.                 *)

(* Marks as TypeOK wants those of imrsim_ptask.                            *)
MarksOK(t) ==
    /\ t \in Marks
    /\ Cardinality(t.zones) <= QDepth
    /\ t.zones # {} => "STATUS" \in t.flag

(* A set of zones has a size.                                              *)
LEMMA FiniteZones ==
    ASSUME NEW S \in SUBSET Zones
    PROVE  IsFiniteSet(S) /\ Cardinality(S) \in Nat
<1>1. IsFiniteSet(Zones)
    BY FS_Interval, LayoutAssumption DEF Zones
<1> QED
    BY <1>1, FS_Subset, FS_CardinalityType

(* The marks after a capture are well formed and mark nothing.             *)
LEMMA NoMarksOK ==
    MarksOK(NoMarks) /\ Marked(NoMarks) = {}
BY FS_EmptySet, PstoreBoundsAssumption DEF MarksOK, NoMarks, Marks, Marked

(* The marks of a configuration change are well formed.                    *)
LEMMA MarkConfigOK ==
    MarksOK(MarkConfig)
BY FS_EmptySet, PstoreBoundsAssumption DEF MarksOK, MarkConfig, Marks

(* Marking the counters keeps the marks well formed.                       *)
LEMMA MarkStatsOK ==
    ASSUME NEW t, MarksOK(t)
    PROVE  MarksOK(MarkStats(t))
BY MarkStatsMarks DEF MarksOK

(* Queueing a zone keeps the marks well formed: never more than QDepth     *)
(* zones.                                                                  *)
LEMMA QueueZoneOK ==
    ASSUME NEW t, MarksOK(t), NEW z \in Zones
    PROVE  MarksOK(QueueZone(t, z))
<1> DEFINE r == QueueZone(t, z)
<1>1. t \in Marks /\ t.zones \in SUBSET Zones
    BY DEF MarksOK, Marks
<1>2. r \in Marks /\ "STATUS" \in r.flag
    BY <1>1, QueueZoneMarks
<1>3. Cardinality(r.zones) <= QDepth
  <2>1. CASE Cardinality(t.zones) = QDepth
    <3>1. r.zones = t.zones
        BY <1>1, <2>1 DEF QueueZone, Marks
    <3> QED
        BY <3>1 DEF MarksOK
  <2>2. CASE Cardinality(t.zones) # QDepth
    <3>1. r.zones = t.zones \cup {z}
        BY <1>1, <2>2 DEF QueueZone, Marks
    <3>2. Cardinality(t.zones) \in Nat /\ Cardinality(t.zones) < QDepth
        BY <1>1, <2>2, FiniteZones, PstoreBoundsAssumption DEF MarksOK
    <3>3. Cardinality(t.zones \cup {z}) <= Cardinality(t.zones) + 1
        BY <1>1, <3>2, FiniteZones, FS_AddElement
    <3>4. Cardinality(t.zones \cup {z}) \in Nat
        BY <1>1, FiniteZones
    <3> QED
        BY <3>1, <3>2, <3>3, <3>4, PstoreBoundsAssumption
  <2> QED
      BY <2>1, <2>2
<1> QED
    BY <1>2, <1>3 DEF MarksOK

-----------------------------------------------------------------------------
(* The states the handlers build.                                          *)

(* The items of the state are distinct.                                    *)
LEMMA DistinctItems ==
    /\ \A z \in Zones : Head # Stat(z) /\ Head # Status(z)
    /\ \A y, z \in Zones : Stat(y) # Status(z)
    /\ \A y, z \in Zones : (Status(y) = Status(z) <=> y = z) /\ (Stat(y) = Stat(z) <=> y = z)
BY DEF Head, Stat, Status

(* A bump changes one item.                                                *)
LEMMA BumpState ==
    ASSUME NEW m \in States, NEW i \in Items
    PROVE  /\ Bump(m, i) \in States
           /\ Bump(m, i)[i].version # 0
           /\ \A j \in Items \ {i} : Bump(m, i)[j] = m[j]
<1>1. m[i] \in Content
    BY DEF States
<1>2. [m[i] EXCEPT !.version = @ + 1] \in Content
      /\ [m[i] EXCEPT !.version = @ + 1].version # 0
    BY <1>1 DEF Content
<1>3. Bump(m, i) = [m EXCEPT ![i] = [m[i] EXCEPT !.version = @ + 1]]
    BY DEF Bump
<1> QED
    BY <1>2, <1>3 DEF States

(* A change of maps leaves the other items, the sizes and the conditions   *)
(* alone.                                                                  *)
LEMMA TouchState ==
    ASSUME NEW m \in States, NEW Z \in SUBSET Zones
    PROVE  /\ Touch(m, Z) \in States
           /\ \A j \in Items : j \notin {Status(z) : z \in Z} => Touch(m, Z)[j] = m[j]
           /\ \A j \in Items : Touch(m, Z)[j].size = m[j].size /\ Touch(m, Z)[j].conds = m[j].conds
<1>1. ASSUME NEW j \in Items
      PROVE  /\ m[j] \in Content
             /\ [m[j] EXCEPT !.version = @ + 1] \in Content
             /\ [m[j] EXCEPT !.version = @ + 1].size = m[j].size
             /\ [m[j] EXCEPT !.version = @ + 1].conds = m[j].conds
  <2>1. m[j] \in Content
      BY DEF States
  <2> QED
      BY <2>1 DEF Content
<1>2. \A j \in Items : Touch(m, Z)[j] = IF j \in {Status(z) : z \in Z}
                                        THEN [m[j] EXCEPT !.version = @ + 1] ELSE m[j]
    BY DEF Touch
<1>3. Touch(m, Z) \in States
    BY <1>1 DEF Touch, States
<1> QED
    BY <1>1, <1>2, <1>3, ZenonT(30)

(* A state with another size and condition in one item.                    *)
(* The item i gets the size n and the condition c.                         *)
Resized(m, i, n, c) == [m EXCEPT ![i].size = n, ![i].conds = c]

(* A new size and condition change one item.                               *)
LEMMA ResizedState ==
    ASSUME NEW m \in States, NEW i \in Items, NEW n \in 0 .. TotalItems, NEW c \in Conds
    PROVE  /\ Resized(m, i, n, c) \in States
           /\ \A j \in Items \ {i} : Resized(m, i, n, c)[j] = m[j]
<1>1. m[i] \in Content
    BY DEF States
<1>2. [[m[i] EXCEPT !.size = n] EXCEPT !.conds = c] \in Content
    BY <1>1, ZenonT(30) DEF Content
<1>3. Resized(m, i, n, c) = [m EXCEPT ![i] = [[m[i] EXCEPT !.size = n] EXCEPT !.conds = c]]
    BY <1>1, ZenonT(30) DEF States, Resized
<1> QED
    BY <1>2, <1>3 DEF States

-----------------------------------------------------------------------------
(* Appends.                                                                *)

(* Both marking operators at once: well-formed marks stay so, nothing is   *)
(* unmarked, and what is asked for is marked.                              *)
LEMMA QueueKeeps ==
    ASSUME NEW t, MarksOK(t), NEW z \in Zones
    PROVE  /\ MarksOK(QueueZone(t, z))
           /\ Marked(t) \subseteq Marked(QueueZone(t, z))
           /\ ItemPages[Status(z)] \subseteq Marked(QueueZone(t, z))
           /\ QueueZone(t, z).flag # {}
BY QueueZoneOK, QueueZoneMarks DEF MarksOK

(* Marking the counters, for well-formed marks.                            *)
LEMMA StatsKeeps ==
    ASSUME NEW t, MarksOK(t)
    PROVE  /\ MarksOK(MarkStats(t))
           /\ Marked(t) \subseteq Marked(MarkStats(t))
           /\ ItemPages[Head] \subseteq Marked(MarkStats(t))
           /\ \A z \in Zones : ItemPages[Stat(z)] \subseteq Marked(MarkStats(t))
<1>1. t \in Marks
    BY DEF MarksOK
<1>2. 0 .. StatsLast \subseteq Marked(MarkStats(t)) /\ Marked(t) \subseteq Marked(MarkStats(t))
    BY <1>1, MarkStatsMarks
<1>3. {0} \subseteq 0 .. StatsLast
    BY LastPages
<1> QED
    BY <1>2, <1>3, PagesOfItems, MarkStatsOK

(* The marks of an append cover the three zones it changes.                *)
LEMMA AppendMarksKeeps ==
    ASSUME NEW t, MarksOK(t), NEW lz \in Zones, NEW oz \in Zones, NEW pz \in Zones
    PROVE  /\ MarksOK(AppendMarks(t, lz, oz, pz))
           /\ Marked(t) \subseteq Marked(AppendMarks(t, lz, oz, pz))
           /\ \A z \in {lz, oz, pz} : ItemPages[Status(z)] \subseteq Marked(AppendMarks(t, lz, oz, pz))
           /\ AppendMarks(t, lz, oz, pz).flag # {}
<1> DEFINE a == IF mem[Status(pz)].conds = "OPEN" THEN t ELSE QueueZone(t, pz)
           b == QueueZone(a, lz)
           c == QueueZone(b, oz)
           d == QueueZone(c, pz)
           e == QueueZone(d, lz)
<1>1. MarksOK(a) /\ Marked(t) \subseteq Marked(a)
  <2>1. CASE mem[Status(pz)].conds = "OPEN"
      BY <2>1
  <2>2. CASE mem[Status(pz)].conds # "OPEN"
      BY <2>2, QueueKeeps
  <2> QED
      BY <2>1, <2>2
<1>2. AppendMarks(t, lz, oz, pz) = e
    BY DEF AppendMarks
<1> HIDE DEF a
<1>3. MarksOK(b) /\ Marked(a) \subseteq Marked(b) /\ ItemPages[Status(lz)] \subseteq Marked(b)
    BY <1>1, QueueKeeps, Zenon
<1> HIDE DEF b
<1>4. MarksOK(c) /\ Marked(b) \subseteq Marked(c) /\ ItemPages[Status(oz)] \subseteq Marked(c)
    BY <1>3, QueueKeeps, Zenon
<1> HIDE DEF c
<1>5. MarksOK(d) /\ Marked(c) \subseteq Marked(d) /\ ItemPages[Status(pz)] \subseteq Marked(d)
    BY <1>4, QueueKeeps, Zenon
<1> HIDE DEF d
<1>6. MarksOK(e) /\ Marked(d) \subseteq Marked(e) /\ e.flag # {}
    BY <1>5, QueueKeeps, Zenon
<1> HIDE DEF e
<1> QED
    BY <1>1, <1>2, <1>3, <1>4, <1>5, <1>6

(* An append changes three zones at most.                                  *)
LEMMA AppendStateIs ==
    ASSUME NEW m \in States, NEW lz \in Zones, NEW oz \in Zones, NEW pz \in Zones,
           m[Status(pz)].size < TotalItems
    PROVE  /\ AppendState(m, lz, oz, pz) \in States
           /\ \A j \in Items \ {Status(lz), Status(oz), Status(pz)} : AppendState(m, lz, oz, pz)[j] = m[j]
<1> DEFINE k == Touch(m, {lz, oz, pz})
           i == Status(pz)
           n == m[i].size + 1
           c == IF m[i].size + 1 = TotalItems THEN "FULL" ELSE "OPEN"
<1>1. i \in Items /\ {lz, oz, pz} \in SUBSET Zones
    BY PagesOfItems
<1>2. k \in States /\ k[i].size = m[i].size
    BY <1>1, TouchState
<1>3. \A j \in Items \ {Status(lz), Status(oz), Status(pz)} : k[j] = m[j]
    BY <1>1, TouchState
<1>4. n \in 0 .. TotalItems /\ c \in Conds
    BY <1>1, PstoreBoundsAssumption DEF States, Content, Conds
<1>5. AppendState(m, lz, oz, pz) = [k EXCEPT ![i].size = @ + 1, ![i].conds = c]
    BY DEF AppendState
<1> HIDE DEF k, i, c
<1>6. [k EXCEPT ![i].size = @ + 1, ![i].conds = c] = [k EXCEPT ![i].size = k[i].size + 1, ![i].conds = c]
    BY <1>1, <1>2 DEF States, Content
<1>7. k[i].size + 1 = n
    BY <1>2
<1> HIDE DEF n
<1>8. AppendState(m, lz, oz, pz) = Resized(k, i, n, c)
    BY <1>5, <1>6, <1>7, ZenonT(30) DEF Resized
<1>9. /\ Resized(k, i, n, c) \in States
      /\ \A j \in Items \ {i} : Resized(k, i, n, c)[j] = k[j]
    BY <1>1, <1>2, <1>4, ResizedState
<1> QED
    BY <1>3, <1>8, <1>9 DEF i

(* Counting a write changes the head and the counters of the zone.         *)
LEMMA CountedIs ==
    ASSUME NEW m \in States, NEW z \in Zones
    PROVE  /\ Counted(m, z) \in States
           /\ Counted(m, z)[Head].version # 0
           /\ \A j \in Items \ {Head, Stat(z)} : Counted(m, z)[j] = m[j]
<1> DEFINE k == Bump(m, Stat(z))
<1>1. Stat(z) \in Items /\ Head \in Items
    BY PagesOfItems
<1>2. k \in States /\ \A j \in Items \ {Stat(z)} : k[j] = m[j]
    BY <1>1, BumpState
<1>3. Counted(m, z) = Bump(k, Head)
    BY DEF Counted
<1> HIDE DEF k
<1>4. /\ Bump(k, Head) \in States /\ Bump(k, Head)[Head].version # 0
      /\ \A j \in Items \ {Head} : Bump(k, Head)[j] = k[j]
    BY <1>1, <1>2, BumpState
<1> QED
    BY <1>2, <1>3, <1>4

-----------------------------------------------------------------------------
(* What every handler does: it replaces the state and adds marks; only     *)
(* items of E may have changed on a page that is not marked.               *)

Frame ==
    /\ target = "active"
    /\ partials' \subseteq Zones
    /\ {changes', modifies', errors', crashes'} \subseteq Nat
    /\ UNCHANGED <<target, disk, crc, thread, left, torn, removed>>

Replaces(m, t, E) ==
    /\ m \in States /\ MarksOK(t)
    /\ Marked(ptask) \subseteq Marked(t)
    /\ mem[Head].version # 0 => m[Head].version # 0
    /\ \A i \in Items \ E : m[i] # mem[i] => ItemPages[i] \subseteq Marked(t)
    /\ Commit(m, t)

Handled(E) == (\E m, t : Replaces(m, t, E)) /\ Frame

(* The counters of the zones.                                              *)
Counters == {Stat(z) : z \in Zones}

(* What the handlers need of the type invariant.                           *)
LEMMA TypedMarks ==
    ASSUME TypeOK
    PROVE  MarksOK(ptask) /\ mem \in States /\ partials \subseteq Zones
           /\ {changes, modifies, errors, crashes} \subseteq Nat
BY DEF TypeOK, MarksOK

(* The frame of the handlers that count as a change.                       *)
LEMMA HandlerFrame ==
    ASSUME TypeOK, Handler, Rest, partials' \subseteq Zones, modifies' \in {modifies, modifies + 1}
    PROVE  Frame
BY TypedMarks DEF Handler, Rest, Frame

(* A full-block write marks all it changes.                                *)
LEMMA WriteHandled ==
    ASSUME TypeOK, NEW lz \in Zones, NEW oz \in Zones, NEW pz \in Zones, Write(lz, oz, pz)
    PROVE  Handled({})
<1> DEFINE k == AppendState(mem, lz, oz, pz)
           m == Counted(k, pz)
           s == MarkStats(ptask)
           t == AppendMarks(s, lz, oz, pz)
<1>1. Frame
    BY HandlerFrame, TypedMarks DEF Write
<1>2. mem \in States /\ MarksOK(ptask) /\ mem[Status(pz)].size < TotalItems
    BY TypedMarks, Zenon DEF Write, AppendZones
<1>3. Commit(m, t)
    BY DEF Write
<1>4. k \in States /\ \A j \in Items \ {Status(lz), Status(oz), Status(pz)} : k[j] = mem[j]
    BY <1>2, AppendStateIs
<1>5. MarksOK(s) /\ Marked(ptask) \subseteq Marked(s)
      /\ ItemPages[Head] \subseteq Marked(s) /\ ItemPages[Stat(pz)] \subseteq Marked(s)
    BY <1>2, StatsKeeps
<1> HIDE DEF k, s
<1>6. m \in States /\ m[Head].version # 0 /\ \A j \in Items \ {Head, Stat(pz)} : m[j] = k[j]
    BY <1>4, CountedIs
<1>7. MarksOK(t) /\ Marked(s) \subseteq Marked(t)
      /\ \A z \in {lz, oz, pz} : ItemPages[Status(z)] \subseteq Marked(t)
    BY <1>5, AppendMarksKeeps, ZenonT(30)
<1> HIDE DEF m, t
<1>8. \A i \in Items : m[i] # mem[i] => ItemPages[i] \subseteq Marked(t)
    BY <1>4, <1>5, <1>6, <1>7, Zenon
<1>9. Replaces(m, t, {})
    BY <1>3, <1>5, <1>6, <1>7, <1>8, Zenon DEF Replaces
<1> QED
    BY <1>1, <1>9 DEF Handled

(* The worker of a partial write marks all it changes but the counters.    *)
LEMMA PartialWorkHandled ==
    ASSUME TypeOK, NEW lz \in Zones, NEW oz \in Zones, NEW pz \in Zones, PartialWork(lz, oz, pz)
    PROVE  Handled(Counters)
<1> DEFINE k == AppendState(mem, lz, oz, pz)
           m == Counted(k, pz)
           t == AppendMarks(ptask, lz, oz, pz)
<1>1. Frame
    BY TypedMarks DEF PartialWork, Frame, bounds
<1>2. mem \in States /\ MarksOK(ptask) /\ mem[Status(pz)].size < TotalItems
    BY TypedMarks, Zenon DEF PartialWork, AppendZones
<1>3. Commit(m, t)
    BY DEF PartialWork
<1>4. k \in States /\ \A j \in Items \ {Status(lz), Status(oz), Status(pz)} : k[j] = mem[j]
    BY <1>2, AppendStateIs
<1> HIDE DEF k
<1>5. m \in States /\ m[Head].version # 0 /\ \A j \in Items \ {Head, Stat(pz)} : m[j] = k[j]
    BY <1>4, CountedIs
<1>6. MarksOK(t) /\ Marked(ptask) \subseteq Marked(t)
      /\ \A z \in {lz, oz, pz} : ItemPages[Status(z)] \subseteq Marked(t)
    BY <1>2, AppendMarksKeeps, ZenonT(30)
<1>7. ItemPages[Head] \subseteq Marked(t)
  <2>1. t.flag # {}
      BY <1>2, AppendMarksKeeps, ZenonT(30)
  <2> HIDE DEF t
  <2> QED
      BY <2>1, PagesOfItems, Zenon DEF Marked
<1> HIDE DEF m, t
<1>8. \A i \in Items \ Counters : m[i] # mem[i] => ItemPages[i] \subseteq Marked(t)
    BY <1>4, <1>5, <1>6, <1>7, Zenon DEF Counters
<1>9. Replaces(m, t, Counters)
    BY <1>3, <1>5, <1>6, <1>8, Zenon DEF Replaces
<1> QED
    BY <1>1, <1>9 DEF Handled

(* An append that fails after activating a zone marks the zone.            *)
LEMMA WriteNoMemHandled ==
    ASSUME TypeOK, NEW pz \in Zones, WriteNoMem(pz)
    PROVE  Handled({})
<1> DEFINE b == Bump(mem, Head)
           k == Touch(b, {pz})
           i == Status(pz)
           m == [k EXCEPT ![i].conds = "OPEN"]
           s == MarkStats(ptask)
           t == QueueZone(s, pz)
<1>1. Frame
    BY HandlerFrame, TypedMarks DEF WriteNoMem
<1>2. mem \in States /\ MarksOK(ptask) /\ Head \in Items /\ i \in Items /\ i # Head
    BY TypedMarks, PagesOfItems, DistinctItems, Zenon
<1>3. Commit(m, t)
    BY DEF WriteNoMem
<1>4. MarksOK(s) /\ Marked(ptask) \subseteq Marked(s) /\ ItemPages[Head] \subseteq Marked(s)
    BY <1>2, StatsKeeps
<1>5. b \in States /\ b[Head].version # 0 /\ \A j \in Items \ {Head} : b[j] = mem[j]
    BY <1>2, BumpState
<1> HIDE DEF b, s
<1>6. k \in States /\ \A j \in Items \ {i} : k[j] = b[j]
    BY <1>5, TouchState
<1>7. MarksOK(t) /\ Marked(s) \subseteq Marked(t) /\ ItemPages[i] \subseteq Marked(t)
    BY <1>4, QueueKeeps, Zenon
<1> HIDE DEF k, t, i
<1>8. m \in States /\ \A j \in Items \ {i} : m[j] = k[j]
    BY <1>2, <1>6 DEF States, Content, Conds
<1> HIDE DEF m
<1>9. \A j \in Items : m[j] # mem[j] => ItemPages[j] \subseteq Marked(t)
    BY <1>4, <1>5, <1>6, <1>7, <1>8
<1>10. Replaces(m, t, {})
    BY <1>2, <1>3, <1>4, <1>5, <1>6, <1>7, <1>8, <1>9, Zenon DEF Replaces
<1> QED
    BY <1>1, <1>10 DEF Handled

(* A counter of a zone and the head are bumped and the counters marked.    *)
LEMMA BumpsHandled ==
    ASSUME TypeOK, NEW z \in Zones, Frame,
           Commit(Bump(Bump(mem, Head), Stat(z)), MarkStats(ptask))
    PROVE  Handled({})
<1> DEFINE b == Bump(mem, Head)
           m == Bump(b, Stat(z))
           t == MarkStats(ptask)
<1>1. mem \in States /\ MarksOK(ptask) /\ Head \in Items /\ Stat(z) \in Items /\ Stat(z) # Head
    BY TypedMarks, PagesOfItems, DistinctItems, Zenon
<1>2. MarksOK(t) /\ Marked(ptask) \subseteq Marked(t)
      /\ ItemPages[Head] \subseteq Marked(t) /\ ItemPages[Stat(z)] \subseteq Marked(t)
    BY <1>1, StatsKeeps, Zenon
<1>3. b \in States /\ b[Head].version # 0 /\ \A j \in Items \ {Head} : b[j] = mem[j]
    BY <1>1, BumpState
<1>4. Commit(m, t)
    OBVIOUS
<1> HIDE DEF b, t
<1>5. m \in States /\ \A j \in Items \ {Stat(z)} : m[j] = b[j]
    BY <1>1, <1>3, BumpState, Zenon
<1> HIDE DEF m
<1>6. Replaces(m, t, {})
    BY <1>1, <1>2, <1>3, <1>4, <1>5, Zenon DEF Replaces
<1> QED
    BY <1>6 DEF Handled

(* Queueing a partial write marks what it counts.                          *)
LEMMA PartialQueueHandled ==
    ASSUME TypeOK, NEW z \in Zones, PartialQueue(z)
    PROVE  Handled({})
<1>1. Frame
    BY HandlerFrame, TypedMarks DEF PartialQueue
<1> QED
    BY <1>1, BumpsHandled DEF PartialQueue

(* A read marks what it counts.                                            *)
LEMMA ReadHandled ==
    ASSUME TypeOK, NEW z \in Zones, Read(z)
    PROVE  Handled({})
<1>1. Frame
    BY HandlerFrame, TypedMarks DEF Read
<1> QED
    BY <1>1, BumpsHandled DEF Read

(* A partial write that fails changes nothing.                             *)
LEMMA PartialFailsHandled ==
    ASSUME TypeOK, NEW z \in Zones, PartialFails(z)
    PROVE  Handled({})
<1>1. Frame
    BY TypedMarks DEF PartialFails, Frame, bounds
<1>2. Commit(mem, ptask)
    BY DEF PartialFails, Commit
<1>3. Replaces(mem, ptask, {})
    BY <1>2, TypedMarks DEF Replaces
<1> QED
    BY <1>1, <1>3 DEF Handled

(* A discard marks the two zones it changes.                               *)
LEMMA DiscardHandled ==
    ASSUME TypeOK, NEW lz \in Zones, NEW oz \in Zones, Discard(lz, oz)
    PROVE  Handled({})
<1> DEFINE b == Bump(mem, Head)
           m == Touch(b, {lz, oz})
           s == MarkStats(ptask)
           r == QueueZone(s, lz)
           t == QueueZone(r, oz)
<1>1. Frame
    BY HandlerFrame, TypedMarks DEF Discard
<1>2. mem \in States /\ MarksOK(ptask) /\ Head \in Items /\ Status(lz) # Head /\ Status(oz) # Head
    BY TypedMarks, PagesOfItems, DistinctItems, Zenon
<1>3. Commit(m, t)
    BY DEF Discard
<1>4. MarksOK(s) /\ Marked(ptask) \subseteq Marked(s) /\ ItemPages[Head] \subseteq Marked(s)
    BY <1>2, StatsKeeps, Zenon
<1>5. b \in States /\ b[Head].version # 0 /\ \A j \in Items \ {Head} : b[j] = mem[j]
    BY <1>2, BumpState, Zenon
<1> HIDE DEF b, s
<1>6. m \in States /\ \A j \in Items \ {Status(lz), Status(oz)} : m[j] = b[j]
    BY <1>5, TouchState
<1>7. MarksOK(r) /\ Marked(s) \subseteq Marked(r) /\ ItemPages[Status(lz)] \subseteq Marked(r)
    BY <1>4, QueueKeeps, Zenon
<1> HIDE DEF r, m
<1>8. MarksOK(t) /\ Marked(r) \subseteq Marked(t) /\ ItemPages[Status(oz)] \subseteq Marked(t)
    BY <1>7, QueueKeeps, Zenon
<1> HIDE DEF t
<1>9. \A j \in Items : m[j] # mem[j] => ItemPages[j] \subseteq Marked(t)
    BY <1>4, <1>5, <1>6, <1>7, <1>8, Zenon
<1>10. Replaces(m, t, {})
    BY <1>2, <1>3, <1>4, <1>5, <1>6, <1>7, <1>8, <1>9, Zenon DEF Replaces
<1> QED
    BY <1>1, <1>10 DEF Handled

(* Publishing a zone compaction marks the victim, the destination and the  *)
(* logical zone of the keys that moved.                                    *)
LEMMA GcPublishHandled ==
    ASSUME TypeOK, NEW src \in Zones, NEW dst \in Zones, NEW lz \in Zones,
           NEW n \in 0 .. TotalItems - 1, GcPublish(src, dst, lz, n)
    PROVE  Handled({})
<1> DEFINE Z == IF n = 0 THEN {src, dst} ELSE {src, dst, lz}
           k == Touch(mem, Z)
           i == Status(src)
           j == Status(dst)
           both == QueueZone(QueueZone(ptask, src), dst)
           r == IF n = 0 THEN both ELSE QueueZone(both, lz)
           t == QueueZone(r, src)
<1>1. Frame
    BY HandlerFrame, TypedMarks, Zenon DEF GcPublish
<1>2. /\ mem \in States /\ MarksOK(ptask) /\ Z \in SUBSET Zones
      /\ i \in Items /\ j \in Items /\ Head \in Items /\ i # Head /\ j # Head
    BY TypedMarks, PagesOfItems, DistinctItems
<1>3. n \in 0 .. TotalItems /\ 0 \in 0 .. TotalItems
    BY PstoreBoundsAssumption
<1>4. PICK c \in {"EMPTY", "OPEN", "CLOSED"} :
          Commit([k EXCEPT ![j].size = n, ![j].conds = c, ![i].size = 0, ![i].conds = "EMPTY"], t)
    BY ZenonT(30) DEF GcPublish
<1>5. k \in States /\ \A x \in Items : x \notin {Status(z) : z \in Z} => k[x] = mem[x]
    BY <1>2, TouchState, Zenon
<1>6. MarksOK(QueueZone(ptask, src)) /\ Marked(ptask) \subseteq Marked(QueueZone(ptask, src))
      /\ ItemPages[i] \subseteq Marked(QueueZone(ptask, src))
    BY <1>2, QueueKeeps, Zenon
<1>7. MarksOK(both) /\ Marked(QueueZone(ptask, src)) \subseteq Marked(both) /\ ItemPages[j] \subseteq Marked(both)
    BY <1>6, QueueKeeps, Zenon
<1> HIDE DEF both
<1>8. MarksOK(r) /\ Marked(both) \subseteq Marked(r) /\ (n # 0 => ItemPages[Status(lz)] \subseteq Marked(r))
  <2>1. CASE n = 0
      BY <1>7, <2>1, Zenon
  <2>2. CASE n # 0
      BY <1>7, <2>2, QueueKeeps, Zenon
  <2> QED
      BY <2>1, <2>2, Zenon
<1> HIDE DEF r, k
<1>9. MarksOK(t) /\ Marked(r) \subseteq Marked(t)
    BY <1>8, QueueKeeps, Zenon
<1> DEFINE l == Resized(k, j, n, c)
           m == Resized(l, i, 0, "EMPTY")
<1>10. l \in States /\ \A x \in Items \ {j} : l[x] = k[x]
  <2>1. c \in Conds
      BY <1>4 DEF Conds
  <2> QED
      BY <1>2, <1>3, <1>5, <2>1, ResizedState
<1>11. [k EXCEPT ![j].size = n, ![j].conds = c, ![i].size = 0, ![i].conds = "EMPTY"] = m
    BY DEF Resized
<1> HIDE DEF l
<1>12. m \in States /\ \A x \in Items \ {i} : m[x] = l[x]
    BY <1>2, <1>3, <1>10, ResizedState, Zenon DEF Conds
<1> HIDE DEF t, m
<1>13. \A x \in Items : m[x] # mem[x] => ItemPages[x] \subseteq Marked(t)
  <2> SUFFICES ASSUME NEW x \in Items, m[x] # mem[x]
               PROVE  ItemPages[x] \subseteq Marked(t)
      OBVIOUS
  <2>1. CASE x \in {i, j}
      BY <1>6, <1>7, <1>8, <1>9, <2>1, Zenon
  <2>2. CASE x \notin {i, j}
    <3>1. x \in {Status(z) : z \in Z}
        BY <1>5, <1>10, <1>12, <2>2, Zenon
    <3>2. x = Status(lz) /\ n # 0
        BY <2>2, <3>1
    <3> QED
        BY <1>8, <1>9, <3>2, Zenon
  <2> QED
      BY <2>1, <2>2
<1>14. m[Head] = mem[Head]
    BY <1>2, <1>5, <1>10, <1>12, DistinctItems
<1>15. Replaces(m, t, {})
    BY <1>4, <1>6, <1>7, <1>8, <1>9, <1>11, <1>12, <1>13, <1>14, ZenonT(30) DEF Replaces
<1> QED
    BY <1>1, <1>15 DEF Handled

(* The default state is one, and has a header.                             *)
LEMMA DefaultIsState ==
    DefaultState \in States /\ DefaultState[Head].version # 0
<1>1. \A n \in Nat : Version(n) \in Content
    BY PstoreBoundsAssumption DEF Version, Content, Conds
<1>2. DefaultState \in States
    BY <1>1 DEF DefaultState, States
<1>3. DefaultState[Head] = Version(1)
    BY PagesOfItems, Zenon DEF DefaultState, Head
<1> QED
    BY <1>2, <1>3, SMTT(30) DEF Version

(* A change of the configuration marks everything.                         *)
LEMMA SetConfigHandled ==
    ASSUME TypeOK, NEW m \in {Bump(mem, Head), DefaultState}, SetConfig(m)
    PROVE  Handled({})
<1>1. Frame
    BY HandlerFrame, TypedMarks DEF SetConfig
<1>2. m \in States /\ m[Head].version # 0
    BY TypedMarks, BumpState, PagesOfItems, DefaultIsState
<1>3. Marked(ptask) \subseteq Pages
    BY TypedMarks, MarkedInPages, Zenon DEF MarksOK
<1>4. Replaces(m, MarkConfig, {})
    BY <1>2, <1>3, MarkConfigOK, MarkConfigMarks, ItemsInPages, Zenon DEF Replaces, SetConfig
<1> QED
    BY <1>1, <1>4 DEF Handled

(* Resetting counters marks them.                                          *)
LEMMA ResetStatsHandled ==
    ASSUME TypeOK, NEW Z \in SUBSET Zones, ResetStats(Z)
    PROVE  Handled({})
<1> DEFINE m == [i \in Items |-> IF i \in {Stat(z) : z \in Z} THEN Version(0) ELSE Totals(Z)[i]]
           t == MarkStats(ptask)
<1>1. Frame
    BY HandlerFrame, TypedMarks DEF ResetStats
<1>2. mem \in States /\ MarksOK(ptask) /\ Head \in Items /\ \A z \in Zones : Head # Stat(z)
    BY TypedMarks, PagesOfItems, DistinctItems, Zenon
<1>3. Version(0) \in Content
    BY PstoreBoundsAssumption DEF Version, Content, Conds
<1>4. /\ Totals(Z) \in States
      /\ Totals(Z)[Head] = mem[Head] \/ Totals(Z)[Head].version # 0
      /\ \A i \in Items \ {Head} : Totals(Z)[i] = mem[i]
    BY <1>2, BumpState, Zenon DEF Totals
<1>5. m \in States
    BY <1>3, <1>4, Zenon DEF States
<1>6. m[Head] = Totals(Z)[Head]
    BY <1>2
<1>7. \A i \in Items : m[i] # mem[i] => i = Head \/ \E z \in Zones : i = Stat(z)
    BY <1>4, Zenon
<1>8. Commit(m, t)
    BY DEF ResetStats
<1>9. /\ MarksOK(t) /\ Marked(ptask) \subseteq Marked(t)
      /\ ItemPages[Head] \subseteq Marked(t) /\ \A z \in Zones : ItemPages[Stat(z)] \subseteq Marked(t)
    BY <1>2, StatsKeeps, Zenon
<1> HIDE DEF m, t
<1>10. mem[Head].version # 0 => m[Head].version # 0
    BY <1>4, <1>6, Zenon
<1>11. Replaces(m, t, {})
    BY <1>5, <1>7, <1>8, <1>9, <1>10, Zenon DEF Replaces
<1> QED
    BY <1>1, <1>11 DEF Handled

(* Modifying a zone marks it.                                              *)
LEMMA ModifyZoneHandled ==
    ASSUME TypeOK, NEW z \in Zones, NEW c \in Conds, ModifyZone(z, c)
    PROVE  Handled({})
<1> DEFINE i == Status(z)
           m == [mem EXCEPT ![i].conds = c]
           t == QueueZone(ptask, z)
<1>1. Frame
    BY HandlerFrame, TypedMarks DEF ModifyZone
<1>2. mem \in States /\ MarksOK(ptask) /\ i \in Items /\ Head \in Items /\ i # Head
    BY TypedMarks, PagesOfItems, DistinctItems, Zenon
<1>3. Commit(m, t)
    BY DEF ModifyZone
<1>4. MarksOK(t) /\ Marked(ptask) \subseteq Marked(t) /\ ItemPages[i] \subseteq Marked(t)
    BY <1>2, QueueKeeps, Zenon
<1> HIDE DEF i, t
<1>5. m \in States /\ \A j \in Items \ {i} : m[j] = mem[j]
    BY <1>2 DEF States, Content, Conds
<1> HIDE DEF m
<1>6. Replaces(m, t, {})
    BY <1>2, <1>3, <1>4, <1>5, Zenon DEF Replaces
<1> QED
    BY <1>1, <1>6 DEF Handled

(* Every handler, the partial worker apart, marks all it changes.          *)
LEMMA HandlersHandled ==
    ASSUME TypeOK, Handlers
    PROVE  Handled({}) \/ (Handled(Counters) /\ partials' # partials)
<1>1. ASSUME NEW lz \in Zones, NEW oz \in Zones, NEW pz \in Zones, PartialWork(lz, oz, pz)
      PROVE  Handled(Counters) /\ partials' # partials
    BY <1>1, PartialWorkHandled, Zenon DEF PartialWork
<1>2. \A Z \in {{z} : z \in Zones} \cup {Zones} : Z \in SUBSET Zones
    BY Zenon
<1> QED
    BY <1>1, <1>2, WriteHandled, WriteNoMemHandled, PartialQueueHandled, PartialFailsHandled,
       DiscardHandled, ReadHandled, GcPublishHandled, SetConfigHandled, ResetStatsHandled,
       ModifyZoneHandled, Zenon DEF Handlers
-----------------------------------------------------------------------------
(* The inductive invariant.                                                *)

(* A running save belongs to a running target, and writes no page that it  *)
(* would not mark again if it failed.                                      *)
ThreadInv ==
    thread.busy =>
        /\ target \in {"active", "stopping"}
        /\ MarksOK(thread.marks) /\ thread.marks.flag # {}
        /\ thread.todo \subseteq Marked(thread.marks)
        /\ thread.snap[Head].version # 0

(* No state that is in use is the blank one.                               *)
BlankInv ==
    /\ target # "none" => mem[Head].version # 0
    /\ crc # NoHeader => crc[Head].version # 0

(* A full save has put every page it has passed on the device.             *)
SaveInv ==
    /\ target \in {"formatting", "saving"} =>
        /\ left # {}
        /\ \A p \in Pages \ left : disk[p] = Page(mem, p)
        /\ 0 \notin left => crc = mem
    /\ removed => target = "none"

IInv ==
    /\ TypeOK /\ DirtyIsMarked /\ RefusedOnlyIfTorn /\ RemovalSavesAll
    /\ ThreadInv /\ BlankInv /\ SaveInv

(* A page of a state holds the items of that page.                         *)
LEMMA PageOf ==
    ASSUME NEW m \in States, NEW p \in Pages
    PROVE  /\ Page(m, p) \in [On[p] -> Content]
           /\ \A i \in On[p] : Page(m, p)[i] = m[i]
<1>1. On[p] \subseteq Items
    BY Zenon DEF On
<1> QED
    BY <1>1, Zenon DEF Page, States

(* The items on a page.                                                    *)
LEMMA OnPage ==
    ASSUME NEW p \in Pages, NEW i
    PROVE  i \in On[p] <=> i \in Items /\ p \in ItemPages[i]
BY DEF On

(* The blank state is one, without a header.                               *)
LEMMA BlankIsState ==
    BlankState \in States /\ BlankState[Head].version = 0
<1>1. Version(0) \in Content
    BY PstoreBoundsAssumption DEF Version, Content, Conds
<1>2. BlankState \in States
    BY <1>1 DEF BlankState, States
<1>3. BlankState[Head] = Version(0)
    BY PagesOfItems, Zenon DEF BlankState
<1> QED
    BY <1>2, <1>3, SMTT(30) DEF Version

(* The idle thread is well typed.                                          *)
LEMMA IdleType ==
    /\ Idle \in [busy : BOOLEAN, marks : Marks, snap : States, todo : SUBSET Pages]
    /\ Idle.busy = FALSE
BY BlankIsState, NoMarksOK, Zenon DEF Idle, MarksOK

(* A handler keeps the invariant, whichever items went past the marks:     *)
(* those are strays.                                                       *)
LEMMA HandledKeeps ==
    ASSUME IInv, NEW E, Handled(E)
    PROVE  IInv'
<1>1. PICK m, t : Replaces(m, t, E)
    BY DEF Handled
<1>2. Frame
    BY DEF Handled
<1>3. m \in States /\ MarksOK(t) /\ Marked(ptask) \subseteq Marked(t) /\ mem' = m /\ ptask' = t
    BY <1>1, Zenon DEF Replaces, Commit
<1>4. stray \subseteq stray' /\ stray' \subseteq Items
    BY <1>1, Zenon DEF Replaces, Commit, IInv, TypeOK
<1>5. ASSUME NEW p \in Pages \ Marked(t), NEW i \in On[p] \ stray'
      PROVE  mem'[i] = mem[i] /\ i \notin stray
  <2>1. i \in Items /\ ~(ItemPages[i] \subseteq Marked(t))
      BY <1>5, OnPage, Zenon
  <2> QED
      BY <1>1, <1>4, <2>1, Zenon DEF Replaces, Commit
<1>6. TypeOK'
  <2>1. ptask' \in Marks /\ Cardinality(ptask'.zones) <= QDepth /\ (ptask'.zones # {} => "STATUS" \in ptask'.flag)
      BY <1>3, Zenon DEF MarksOK
  <2> QED
      BY <1>2, <1>3, <1>4, <2>1, Zenon DEF TypeOK, IInv, Frame
<1>7. DirtyIsMarked'
  <2>1. UNCHANGED <<target, disk, thread>>
      BY <1>2, Zenon DEF Frame
  <2>2. target \in {"active", "stopping"} /\ \A p \in Pages \ Marked(t) : p \notin Marked(ptask)
      BY <1>2, <1>3, Zenon DEF Frame
  <2>3. CASE thread.busy
    <3>1. \A p \in Pages \ Marked(ptask) : \A i \in On[p] \ stray : mem[i] = thread.snap[i]
        BY <2>2, <2>3, Zenon DEF IInv, DirtyIsMarked
    <3>2. \A p \in Pages \ (thread.todo \cup {0}) : \A i \in On[p] \ stray : disk[p][i] = thread.snap[i]
        BY <2>2, <2>3, Zenon DEF IInv, DirtyIsMarked, Follows
    <3>3. \A p \in Pages \ Marked(t) : \A i \in On[p] \ stray' : mem'[i] = thread.snap[i]
        BY <1>5, <2>2, <3>1, Zenon
    <3>4. \A p \in Pages \ (thread.todo \cup {0}) : \A i \in On[p] \ stray' : disk[p][i] = thread.snap[i]
        BY <1>4, <3>2, Zenon
    <3> QED
        BY <1>3, <2>1, <2>3, <3>3, <3>4, Zenon DEF DirtyIsMarked, Follows
  <2>4. CASE ~thread.busy
    <3>1. \A p \in Pages \ Marked(ptask) : \A i \in On[p] \ stray : disk[p][i] = mem[i]
        BY <2>2, <2>4, Zenon DEF IInv, DirtyIsMarked, Follows
    <3>2. \A p \in Pages \ Marked(t) : \A i \in On[p] \ stray' : disk[p][i] = mem'[i]
        BY <1>5, <2>2, <3>1, Zenon
    <3> QED
        BY <1>3, <2>1, <2>4, <3>2, Zenon DEF DirtyIsMarked, Follows
  <2> QED
      BY <2>3, <2>4
<1>8. RefusedOnlyIfTorn'
    BY <1>2, <1>4, Zenon DEF IInv, RefusedOnlyIfTorn, Loads, Frame
<1>9. RemovalSavesAll' /\ SaveInv'
    BY <1>2, Zenon DEF IInv, SaveInv, RemovalSavesAll, Frame
<1>10. ThreadInv'
    BY <1>2, Zenon DEF IInv, ThreadInv, Frame
<1>11. BlankInv'
    BY <1>1, <1>2, <1>3, Zenon DEF IInv, BlankInv, Replaces, Frame
<1> QED
    BY <1>6, <1>7, <1>8, <1>9, <1>10, <1>11 DEF IInv

-----------------------------------------------------------------------------
(* The persistence thread keeps the invariant.                             *)

(* The pages of a save are the data pages and the header.                  *)
LEMMA DataInMarked ==
    ASSUME NEW t \in Marks, t.flag # {}
    PROVE  DataPages(t) \subseteq Marked(t) /\ Marked(t) = DataPages(t) \cup {0}
BY DEF Marked

(* A page write replaces one page of the device.                           *)
LEMMA PutPageType ==
    ASSUME TypeOK, NEW m \in States, NEW p \in Pages, PutPage(m, p)
    PROVE  /\ crc' \in States
           /\ DOMAIN disk' = Pages /\ \A q \in Pages : disk'[q] \in [On[q] -> Content]
           /\ disk'[p] = Page(m, p)
           /\ \A q \in Pages \ {p} : disk'[q] = disk[q]
<1>1. disk' = [disk EXCEPT ![p] = Page(m, p)] /\ DOMAIN disk = Pages /\ crc \in States
      /\ \A q \in Pages : disk[q] \in [On[q] -> Content]
    BY Zenon DEF PutPage, TypeOK
<1>2. Page(m, p) \in [On[p] -> Content]
    BY PageOf, Zenon
<1>3. disk'[p] = Page(m, p) /\ DOMAIN disk' = Pages /\ \A q \in Pages \ {p} : disk'[q] = disk[q]
    BY <1>1, Zenon
<1>4. \A q \in Pages : disk'[q] \in [On[q] -> Content]
    BY <1>1, <1>2, <1>3, Zenon
<1>5. crc' \in States
    BY <1>1, Zenon DEF PutPage
<1> QED
    BY <1>3, <1>4, <1>5, Zenon

(* Capturing a snapshot keeps the invariant: what was marked is now to be  *)
(* written.                                                                *)
LEMMA CaptureKeeps ==
    ASSUME IInv, Capture
    PROVE  IInv'
<1>1. /\ target \in {"active", "stopping"} /\ ~thread.busy /\ ptask.flag # {}
      /\ thread' = [busy |-> TRUE, marks |-> ptask, snap |-> mem, todo |-> DataPages(ptask)]
      /\ ptask' = NoMarks
      /\ UNCHANGED <<target, mem, disk, crc, left, partials, stray, torn, removed, bounds>>
    BY Zenon DEF Capture
<1>2. MarksOK(ptask) /\ ptask \in Marks /\ mem \in States /\ TypeOK
    BY TypedMarks, Zenon DEF IInv, MarksOK
<1>3. DataPages(ptask) \subseteq Marked(ptask) /\ Marked(ptask) = DataPages(ptask) \cup {0}
      /\ DataPages(ptask) \subseteq Pages
    BY <1>1, <1>2, DataInMarked, MarkedInPages, Zenon
<1>4. TypeOK'
  <2>1. thread' \in [busy : BOOLEAN, marks : Marks, snap : States, todo : SUBSET Pages]
      BY <1>1, <1>2, <1>3, Zenon
  <2>2. ptask' \in Marks /\ Cardinality(ptask'.zones) <= QDepth /\ (ptask'.zones # {} => "STATUS" \in ptask'.flag)
      BY <1>1, NoMarksOK, Zenon DEF MarksOK
  <2> QED
      BY <1>1, <1>2, <2>1, <2>2, Zenon DEF TypeOK, bounds
<1>5. DirtyIsMarked'
  <2>1. thread'.busy /\ thread'.snap = mem /\ thread'.todo = DataPages(ptask)
      BY <1>1, Zenon
  <2>2. \A p \in Pages \ Marked(ptask) : \A i \in On[p] \ stray : disk[p][i] = mem[i]
      BY <1>1, Zenon DEF IInv, DirtyIsMarked, Follows
  <2>3. \A p \in Pages \ (thread'.todo \cup {0}) : \A i \in On[p] \ stray : disk[p][i] = mem[i]
      BY <1>3, <2>1, <2>2, Zenon
  <2> QED
      BY <1>1, <2>1, <2>3 DEF DirtyIsMarked, Follows
<1>6. RefusedOnlyIfTorn' /\ RemovalSavesAll'
    BY <1>1, Zenon DEF IInv, RefusedOnlyIfTorn, RemovalSavesAll, Loads
<1>7. SaveInv' /\ BlankInv'
    BY <1>1, Zenon DEF IInv, SaveInv, BlankInv
<1>8. ThreadInv'
    BY <1>1, <1>2, <1>3, Zenon DEF IInv, ThreadInv, BlankInv
<1> QED
    BY <1>4, <1>5, <1>6, <1>7, <1>8 DEF IInv

(* Writing a data page keeps the invariant.                                *)
LEMMA WriteDataKeeps ==
    ASSUME IInv, NEW p \in Pages, WriteData(p)
    PROVE  IInv'
<1>1. /\ thread.busy /\ p \in thread.todo /\ PutPage(thread.snap, p)
      /\ thread' = [thread EXCEPT !.todo = @ \ {p}]
      /\ torn' = TRUE
      /\ UNCHANGED <<target, mem, ptask, left, partials, stray, removed, bounds>>
    BY DEF WriteData
<1>2. TypeOK /\ thread \in [busy : BOOLEAN, marks : Marks, snap : States, todo : SUBSET Pages]
    BY Zenon DEF IInv, TypeOK
<1>3. /\ thread'.busy /\ thread'.marks = thread.marks /\ thread'.snap = thread.snap
      /\ thread'.todo = thread.todo \ {p}
      /\ thread' \in [busy : BOOLEAN, marks : Marks, snap : States, todo : SUBSET Pages]
    BY <1>1, <1>2
<1>4. /\ crc' \in States /\ disk'[p] = Page(thread.snap, p)
      /\ DOMAIN disk' = Pages /\ \A q \in Pages : disk'[q] \in [On[q] -> Content]
      /\ \A q \in Pages \ {p} : disk'[q] = disk[q]
    BY <1>1, <1>2, PutPageType
<1>5. target \in {"active", "stopping"} /\ thread.snap[Head].version # 0
    BY <1>1 DEF IInv, ThreadInv
<1>6. TypeOK'
    BY <1>1, <1>2, <1>3, <1>4 DEF TypeOK, bounds
<1>7. DirtyIsMarked'
  <2>1. \A q \in Pages \ Marked(ptask) : \A i \in On[q] \ stray : mem[i] = thread.snap[i]
      BY <1>1, <1>5 DEF IInv, DirtyIsMarked
  <2>2. \A q \in Pages \ (thread.todo \cup {0}) : \A i \in On[q] \ stray : disk[q][i] = thread.snap[i]
      BY <1>1, <1>5 DEF IInv, DirtyIsMarked, Follows
  <2>3. \A i \in On[p] : disk'[p][i] = thread.snap[i]
      BY <1>2, <1>4, PageOf
  <2>4. \A q \in Pages \ (thread'.todo \cup {0}) : \A i \in On[q] \ stray : disk'[q][i] = thread.snap[i]
      BY <1>3, <1>4, <2>2, <2>3
  <2> QED
      BY <1>1, <1>3, <2>1, <2>4 DEF DirtyIsMarked, Follows
<1>8. RefusedOnlyIfTorn'
    BY <1>1 DEF RefusedOnlyIfTorn
<1>9. ~removed
    BY <1>5, Zenon DEF IInv, SaveInv
<1>10. RemovalSavesAll' /\ SaveInv'
    BY <1>1, <1>5, <1>9 DEF RemovalSavesAll, SaveInv
<1>11. ThreadInv'
    BY <1>1, <1>3 DEF IInv, ThreadInv
<1>12. BlankInv'
    BY <1>1, <1>5 DEF IInv, BlankInv, PutPage
<1> QED
    BY <1>6, <1>7, <1>8, <1>10, <1>11, <1>12 DEF IInv

(* Writing the header keeps the invariant: every page is now the one of    *)
(* the snapshot.                                                           *)
LEMMA WriteHeaderKeeps ==
    ASSUME IInv, WriteHeader
    PROVE  IInv'
<1>1. /\ thread.busy /\ thread.todo = {} /\ PutPage(thread.snap, 0)
      /\ thread' = Idle /\ torn' = FALSE
      /\ UNCHANGED <<target, mem, ptask, left, partials, stray, removed, bounds>>
    BY Zenon DEF WriteHeader
<1>2. TypeOK /\ thread.snap \in States /\ 0 \in Pages
    BY LastPages, Zenon DEF IInv, TypeOK
<1>3. /\ crc' = thread.snap /\ crc' \in States /\ disk'[0] = Page(thread.snap, 0)
      /\ DOMAIN disk' = Pages /\ \A q \in Pages : disk'[q] \in [On[q] -> Content]
      /\ \A q \in Pages \ {0} : disk'[q] = disk[q]
    BY <1>1, <1>2, PutPageType, ZenonT(30) DEF PutPage
<1>4. target \in {"active", "stopping"} /\ thread.snap[Head].version # 0
    BY <1>1, Zenon DEF IInv, ThreadInv
<1>5. TypeOK'
    BY <1>1, <1>2, <1>3, IdleType, ZenonT(30) DEF TypeOK, bounds
<1>6. \A q \in Pages : \A i \in On[q] \ stray : disk'[q][i] = thread.snap[i]
  <2>1. \A q \in Pages \ {0} : \A i \in On[q] \ stray : disk[q][i] = thread.snap[i]
      BY <1>1, <1>4, Zenon DEF IInv, DirtyIsMarked, Follows
  <2> QED
      BY <1>2, <1>3, <2>1, PageOf, SMTT(30)
<1>7. DirtyIsMarked'
  <2>1. \A q \in Pages \ Marked(ptask) : \A i \in On[q] \ stray : mem[i] = thread.snap[i]
      BY <1>1, <1>4, Zenon DEF IInv, DirtyIsMarked
  <2>2. \A q \in Pages \ Marked(ptask) : \A i \in On[q] \ stray : disk'[q][i] = mem[i]
      BY <1>6, <2>1
  <2> QED
      BY <1>1, <2>2, IdleType DEF DirtyIsMarked, Follows
<1>8. RefusedOnlyIfTorn'
  <2> SUFFICES ASSUME stray = {}
               PROVE  crc' # NoHeader /\ \A q \in Pages : disk'[q] = Page(crc', q)
      BY <1>1, Zenon DEF RefusedOnlyIfTorn, Loads
  <2>1. crc' # NoHeader
      BY <1>3, <1>4, BlankIsState, Zenon DEF NoHeader
  <2>2. ASSUME NEW q \in Pages PROVE disk'[q] = Page(crc', q)
    <3>1. disk'[q] \in [On[q] -> Content] /\ Page(crc', q) \in [On[q] -> Content]
        BY <1>3, PageOf, Zenon
    <3>2. \A i \in On[q] : disk'[q][i] = Page(crc', q)[i]
        BY <1>3, <1>6, PageOf
    <3> QED
        BY <3>1, <3>2
  <2> QED
      BY <2>1, <2>2
<1>9. ~removed
    BY <1>4, Zenon DEF IInv, SaveInv
<1>10. RemovalSavesAll' /\ SaveInv'
    BY <1>1, <1>4, <1>9, Zenon DEF RemovalSavesAll, SaveInv
<1>11. ThreadInv'
    BY <1>1, IdleType, Zenon DEF ThreadInv
<1>12. BlankInv'
    BY <1>1, <1>3, <1>4, Zenon DEF IInv, BlankInv
<1> QED
    BY <1>5, <1>7, <1>8, <1>10, <1>11, <1>12 DEF IInv

(* A failed page write keeps the invariant: all that was to be written is  *)
(* marked again.                                                           *)
LEMMA WriteFailsKeeps ==
    ASSUME IInv, NEW p \in Pages, NEW r \in Marks, WriteFails(p, r)
    PROVE  IInv'
<1>1. /\ thread.busy /\ p \in thread.todo \cup {0}
      /\ Restored(ptask, thread.marks, r) /\ ptask' = r
      /\ thread' = Idle /\ torn' = TRUE
      /\ errors' = errors + 1
      /\ UNCHANGED <<target, mem, left, partials, stray, removed, changes, modifies, crashes>>
    BY Zenon DEF WriteFails
<1> DEFINE Put == PutPage(thread.snap, p) \/ UNCHANGED <<disk, crc>>
<1>2. Put
    BY Zenon DEF WriteFails
<1>3. TypeOK /\ thread.snap \in States /\ thread.marks \in Marks /\ ptask \in Marks
    BY Zenon DEF IInv, TypeOK
<1>4. target \in {"active", "stopping"} /\ thread.snap[Head].version # 0
      /\ MarksOK(thread.marks) /\ thread.marks.flag # {} /\ thread.todo \subseteq Marked(thread.marks)
    BY <1>1, Zenon DEF IInv, ThreadInv
<1>5. /\ crc' \in States
      /\ DOMAIN disk' = Pages /\ \A q \in Pages : disk'[q] \in [On[q] -> Content]
      /\ \A q \in Pages \ {p} : disk'[q] = disk[q]
  <2>1. CASE PutPage(thread.snap, p)
      BY <1>3, <2>1, PutPageType, Zenon
  <2>2. CASE UNCHANGED <<disk, crc>>
      BY <1>3, <2>2, Zenon DEF TypeOK
  <2> QED
      BY <1>2, <2>1, <2>2, Zenon
<1>6. crc' \in {crc, thread.snap}
    BY <1>2 DEF PutPage
<1> HIDE DEF Put
<1>7. Marked(ptask) \subseteq Marked(r) /\ Marked(thread.marks) \subseteq Marked(r)
    BY <1>1, <1>3, RestoredMarks, Zenon
<1>8. thread.todo \cup {0} \subseteq Marked(r)
    BY <1>3, <1>4, <1>7, DataInMarked, Zenon
<1>9. TypeOK'
  <2>1. Cardinality(r.zones) <= QDepth
      BY <1>1, Zenon DEF Restored
  <2>2. r.zones # {} => "STATUS" \in r.flag
    <3>1. r.flag = ptask.flag \cup thread.marks.flag /\ r.zones \subseteq ptask.zones \cup thread.marks.zones
        BY <1>1, Zenon DEF Restored
    <3> QED
        BY <1>3, <1>4, <3>1, Zenon DEF TypeOK, MarksOK
  <2>3. thread' \in [busy : BOOLEAN, marks : Marks, snap : States, todo : SUBSET Pages] /\ torn' \in BOOLEAN
      BY <1>1, IdleType, Zenon
  <2>4. {changes', modifies', errors', crashes'} \subseteq Nat
      BY <1>1, <1>3 DEF TypeOK
  <2>5. UNCHANGED <<target, mem, left, partials, stray, removed>> /\ ptask' = r
      BY <1>1, Zenon
  <2> QED
      BY <1>3, <1>5, <2>1, <2>2, <2>3, <2>4, <2>5, Zenon DEF TypeOK
<1>10. DirtyIsMarked'
  <2>1. \A q \in Pages \ Marked(ptask) : \A i \in On[q] \ stray : mem[i] = thread.snap[i]
      BY <1>1, <1>4, Zenon DEF IInv, DirtyIsMarked
  <2>2. \A q \in Pages \ (thread.todo \cup {0}) : \A i \in On[q] \ stray : disk[q][i] = thread.snap[i]
      BY <1>1, <1>4, Zenon DEF IInv, DirtyIsMarked, Follows
  <2>3. \A q \in Pages \ Marked(r) : \A i \in On[q] \ stray : disk'[q][i] = mem[i]
    <3> SUFFICES ASSUME NEW q \in Pages \ Marked(r), NEW i \in On[q] \ stray
                 PROVE  disk'[q][i] = mem[i]
        BY Zenon
    <3>1. q \notin Marked(ptask) /\ q \notin thread.todo \cup {0}
        BY <1>7, <1>8, Zenon
    <3>2. disk'[q] = disk[q]
        BY <1>1, <1>5, <3>1, Zenon
    <3> QED
        BY <2>1, <2>2, <3>1, <3>2, Zenon
  <2> QED
      BY <1>1, <2>3, IdleType, Zenon DEF DirtyIsMarked, Follows
<1>11. RefusedOnlyIfTorn'
    BY <1>1, Zenon DEF RefusedOnlyIfTorn
<1>12. ~removed
    BY <1>4, Zenon DEF IInv, SaveInv
<1>13. RemovalSavesAll' /\ SaveInv'
    BY <1>1, <1>4, <1>12, Zenon DEF RemovalSavesAll, SaveInv
<1>14. ThreadInv'
    BY <1>1, IdleType, Zenon DEF ThreadInv
<1>15. BlankInv'
    BY <1>1, <1>4, <1>6, Zenon DEF IInv, BlankInv
<1> QED
    BY <1>9, <1>10, <1>11, <1>13, <1>14, <1>15 DEF IInv

-----------------------------------------------------------------------------
(* Creation, removal and crashes keep the invariant.                       *)

(* Recovery yields a state and leaves the head alone.                      *)
LEMMA RecoveredState ==
    ASSUME NEW m \in States, NEW newest
    PROVE  Recovered(m, newest) \in States /\ Recovered(m, newest)[Head] = m[Head]
<1>1. ASSUME NEW s \in Content, NEW b \in BOOLEAN
      PROVE  RecoverZone(s, b) \in Content
    BY DEF RecoverZone, Content, Conds
<1>2. \A i \in Items : m[i] \in Content
    BY DEF States
<1>3. Recovered(m, newest) \in States
    BY <1>1, <1>2, ZenonT(30) DEF Recovered, States
<1>4. Recovered(m, newest)[Head] = m[Head]
    BY PagesOfItems, Zenon DEF Recovered, Head
<1> QED
    BY <1>3, <1>4

(* Creating a target from the device keeps the invariant.                  *)
LEMMA LoadKeeps ==
    ASSUME IInv, NEW newest, NEW t \in Marks, Load(newest, t)
    PROVE  IInv'
<1>1. /\ target = "none" /\ Loads
      /\ mem' = Recovered(crc, newest) /\ RecoverMarks(crc, newest, t) /\ ptask' = t
      /\ stray' = {i \in Items : mem'[i] # crc[i] /\ ~(ItemPages[i] \subseteq Marked(t))}
      /\ target' = "active" /\ torn' = FALSE /\ removed' = FALSE
      /\ UNCHANGED <<disk, crc, thread, left, partials, bounds>>
    BY Zenon DEF Load
<1>2. TypeOK /\ crc \in States /\ ~thread.busy
    BY <1>1, Zenon DEF IInv, TypeOK, ThreadInv
<1>3. mem' \in States /\ mem'[Head] = crc[Head]
    BY <1>1, <1>2, RecoveredState, Zenon
<1>4. TypeOK'
  <2>1. Cardinality(t.zones) <= QDepth /\ (t.zones # {} => "STATUS" \in t.flag)
      BY <1>1, Zenon DEF RecoverMarks
  <2>2. stray' \subseteq Items /\ {torn', removed'} \subseteq BOOLEAN
      BY <1>1, ZenonT(30)
  <2>3. UNCHANGED <<disk, crc, thread, left, partials, changes, modifies, errors, crashes>>
      BY <1>1, Zenon DEF bounds
  <2>4. target' = "active" /\ ptask' = t
      BY <1>1, Zenon
  <2> QED
      BY <1>2, <1>3, <2>1, <2>2, <2>3, <2>4, Zenon DEF TypeOK
<1>5. DirtyIsMarked'
  <2>1. \A p \in Pages : \A i \in On[p] : disk[p][i] = crc[i]
      BY <1>1, <1>2, PageOf, SMTT(30) DEF Loads
  <2>2. ASSUME NEW p \in Pages \ Marked(t), NEW i \in On[p] \ stray'
        PROVE  disk[p][i] = mem'[i]
    <3>1. i \in Items /\ ~(ItemPages[i] \subseteq Marked(t))
        BY <2>2, OnPage, Zenon
    <3>2. mem'[i] = crc[i]
        BY <1>1, <2>2, <3>1, Zenon
    <3> QED
        BY <2>1, <2>2, <3>2, Zenon
  <2> QED
      BY <1>1, <1>2, <2>2, Zenon DEF DirtyIsMarked, Follows
<1>6. RefusedOnlyIfTorn' /\ RemovalSavesAll'
    BY <1>1, Zenon DEF RefusedOnlyIfTorn, RemovalSavesAll, Loads
<1>7. ThreadInv' /\ SaveInv'
    BY <1>1, <1>2, Zenon DEF ThreadInv, SaveInv
<1>8. BlankInv'
    BY <1>1, <1>3, Zenon DEF IInv, BlankInv, Loads
<1> QED
    BY <1>4, <1>5, <1>6, <1>7, <1>8, Zenon DEF IInv

(* Creating a target on a blank device keeps the invariant.                *)
LEMMA FormatKeeps ==
    ASSUME IInv, Format
    PROVE  IInv'
<1>1. /\ target = "none" /\ crc = NoHeader /\ mem' = DefaultState /\ ptask' = NoMarks
      /\ left' = Pages /\ target' = "formatting"
      /\ UNCHANGED <<disk, crc, thread, partials, stray, torn, removed, bounds>>
    BY Zenon DEF Format
<1>2. ~thread.busy /\ ~removed
    BY <1>1, Zenon DEF IInv, ThreadInv, RemovalSavesAll, Loads
<1>3. TypeOK'
    BY <1>1, DefaultIsState, NoMarksOK, Zenon DEF IInv, TypeOK, MarksOK, bounds
<1>4. DirtyIsMarked' /\ RefusedOnlyIfTorn' /\ RemovalSavesAll'
    BY <1>1, <1>2, Zenon DEF DirtyIsMarked, RefusedOnlyIfTorn, RemovalSavesAll
<1>5. ThreadInv' /\ SaveInv' /\ BlankInv'
    BY <1>1, <1>2, LastPages, DefaultIsState, Zenon DEF ThreadInv, SaveInv, BlankInv
<1> QED
    BY <1>3, <1>4, <1>5 DEF IInv

(* A page of a full save keeps the invariant.                              *)
LEMMA SavePageKeeps ==
    ASSUME IInv, NEW p \in Pages, SavePage(p)
    PROVE  IInv'
<1>1. /\ target \in {"formatting", "saving"} /\ p \in left
      /\ PutPage(mem, p)
      /\ left' = left \ {p}
      /\ torn' = (left' # {})
      /\ stray' = IF left' = {} THEN {} ELSE stray
      /\ target' = IF left' # {} THEN target ELSE IF target = "saving" THEN "none" ELSE "active"
      /\ removed' = (left' = {} /\ target = "saving")
      /\ UNCHANGED <<mem, ptask, thread, partials, bounds>>
    BY Zenon DEF SavePage
<1>2. TypeOK /\ mem \in States /\ mem[Head].version # 0 /\ ~thread.busy
    BY <1>1, Zenon DEF IInv, TypeOK, BlankInv, ThreadInv
<1>3. /\ crc' \in States
      /\ DOMAIN disk' = Pages /\ \A q \in Pages : disk'[q] \in [On[q] -> Content]
      /\ disk'[p] = Page(mem, p) /\ \A q \in Pages \ {p} : disk'[q] = disk[q]
    BY <1>1, <1>2, PutPageType, Zenon
<1>4. /\ \A q \in Pages \ left' : disk'[q] = Page(mem, q)
      /\ 0 \notin left' => crc' = mem
    BY <1>1, <1>3, Zenon DEF IInv, SaveInv, PutPage
<1>5. TypeOK'
    BY <1>1, <1>2, <1>3, Zenon DEF TypeOK, bounds
<1>6. BlankInv' /\ ThreadInv'
    BY <1>1, <1>2, Zenon DEF IInv, BlankInv, PutPage, ThreadInv
<1>7. CASE left' # {}
  <2>1. target' = target /\ torn' = TRUE /\ removed' = FALSE
      BY <1>1, <1>7, ZenonT(30)
  <2>2. DirtyIsMarked' /\ RefusedOnlyIfTorn' /\ RemovalSavesAll'
      BY <1>1, <2>1, Zenon DEF DirtyIsMarked, RefusedOnlyIfTorn, RemovalSavesAll
  <2>3. SaveInv'
      BY <1>1, <1>4, <1>7, <2>1, Zenon DEF SaveInv
  <2> QED
      BY <1>5, <1>6, <2>2, <2>3, Zenon DEF IInv
<1>8. CASE left' = {}
  <2>1. target' \in {"none", "active"} /\ (removed' => target' = "none") /\ mem' = mem
      BY <1>1, <1>8, ZenonT(30)
  <2>2. crc' = mem /\ \A q \in Pages : disk'[q] = Page(mem, q)
      BY <1>4, <1>8
  <2>3. crc' # NoHeader
      BY <1>2, <2>2, BlankIsState, Zenon DEF NoHeader
  <2>4. Loads'
      BY <2>2, <2>3 DEF Loads
  <2>5. RefusedOnlyIfTorn' /\ RemovalSavesAll'
      BY <2>1, <2>2, <2>4 DEF RefusedOnlyIfTorn, RemovalSavesAll
  <2>6. \A q \in Pages : \A i \in On[q] : disk'[q][i] = mem[i]
      BY <1>2, <2>2, PageOf, SMTT(30)
  <2>7. DirtyIsMarked'
      BY <1>1, <1>2, <2>6, Zenon DEF DirtyIsMarked, Follows
  <2>8. SaveInv'
      BY <2>1 DEF SaveInv
  <2> QED
      BY <1>5, <1>6, <2>5, <2>7, <2>8, Zenon DEF IInv
<1> QED
    BY <1>7, <1>8

(* A full save that fails keeps the invariant.                             *)
LEMMA SaveFailsKeeps ==
    ASSUME IInv, NEW p \in Pages, SaveFails(p)
    PROVE  IInv'
<1>1. /\ target \in {"formatting", "saving"}
      /\ left' = {} /\ torn' = TRUE /\ target' = "none" /\ mem' = BlankState
      /\ errors' = errors + 1
      /\ UNCHANGED <<ptask, thread, partials, stray, removed, changes, modifies, crashes>>
    BY Zenon DEF SaveFails
<1> DEFINE Put == PutPage(mem, p) \/ UNCHANGED <<disk, crc>>
<1>2. Put
    BY Zenon DEF SaveFails
<1>3. TypeOK /\ mem \in States /\ mem[Head].version # 0 /\ ~thread.busy /\ ~removed
    BY <1>1, Zenon DEF IInv, TypeOK, BlankInv, ThreadInv, SaveInv
<1>4. crc' \in States /\ DOMAIN disk' = Pages /\ \A q \in Pages : disk'[q] \in [On[q] -> Content]
  <2>1. CASE PutPage(mem, p)
      BY <1>3, <2>1, PutPageType, Zenon
  <2>2. CASE UNCHANGED <<disk, crc>>
      BY <1>3, <2>2, Zenon DEF TypeOK
  <2> QED
      BY <1>2, <2>1, <2>2, Zenon
<1>5. crc' \in {crc, mem}
    BY <1>2 DEF PutPage
<1> HIDE DEF Put
<1>6. TypeOK'
  <2>0. {changes, modifies, errors, crashes} \subseteq Nat
      BY <1>3, TypedMarks
  <2>a. errors' = errors + 1 /\ UNCHANGED <<changes, modifies, crashes>>
      BY <1>1
  <2>1. {changes', modifies', errors', crashes'} \subseteq Nat
      BY <2>0, <2>a
  <2>2. /\ UNCHANGED <<ptask, thread, partials, stray, removed>> /\ torn' \in BOOLEAN
        /\ left' \subseteq Pages /\ mem' \in States /\ target' = "none"
      BY <1>1, BlankIsState, Zenon
  <2> QED
      BY <1>3, <1>4, <2>1, <2>2, Zenon DEF TypeOK
<1>7. DirtyIsMarked' /\ RefusedOnlyIfTorn' /\ RemovalSavesAll'
    BY <1>1, <1>3, Zenon DEF DirtyIsMarked, RefusedOnlyIfTorn, RemovalSavesAll
<1>8. ThreadInv' /\ SaveInv'
    BY <1>1, <1>3, Zenon DEF ThreadInv, SaveInv
<1>9. BlankInv'
    BY <1>1, <1>3, <1>5, Zenon DEF IInv, BlankInv
<1> QED
    BY <1>6, <1>7, <1>8, <1>9, Zenon DEF IInv

(* Closing the gate keeps the invariant.                                   *)
LEMMA StopKeeps ==
    ASSUME IInv, Stop
    PROVE  IInv'
<1>1. /\ target = "active" /\ target' = "stopping" /\ crashes' = crashes + 1
      /\ UNCHANGED <<mem, disk, crc, ptask, thread, left, partials, stray, torn, removed,
                     changes, modifies, errors>>
    BY Zenon DEF Stop
<1>2. TypeOK'
    BY <1>1 DEF IInv, TypeOK
<1>3. DirtyIsMarked'
    BY <1>1, Zenon DEF IInv, DirtyIsMarked, Follows
<1>4. RefusedOnlyIfTorn' /\ RemovalSavesAll' /\ SaveInv'
    BY <1>1, Zenon DEF IInv, RefusedOnlyIfTorn, RemovalSavesAll, SaveInv, Loads
<1>5. ThreadInv' /\ BlankInv'
    BY <1>1, Zenon DEF IInv, ThreadInv, BlankInv
<1> QED
    BY <1>2, <1>3, <1>4, <1>5 DEF IInv

(* Starting the last save keeps the invariant.                             *)
LEMMA BeginLastSaveKeeps ==
    ASSUME IInv, BeginLastSave
    PROVE  IInv'
<1>1. /\ target = "stopping" /\ ~thread.busy /\ target' = "saving" /\ left' = Pages
      /\ UNCHANGED <<mem, disk, crc, ptask, thread, partials, stray, torn, removed, bounds>>
    BY Zenon DEF BeginLastSave
<1>2. TypeOK'
    BY <1>1, Zenon DEF IInv, TypeOK, bounds
<1>3. DirtyIsMarked'
    BY <1>1, Zenon DEF DirtyIsMarked
<1>4. RefusedOnlyIfTorn' /\ RemovalSavesAll'
    BY <1>1, Zenon DEF IInv, RefusedOnlyIfTorn, RemovalSavesAll, Loads
<1>5. SaveInv' /\ ThreadInv' /\ BlankInv'
    BY <1>1, LastPages, Zenon DEF IInv, SaveInv, ThreadInv, BlankInv
<1> QED
    BY <1>2, <1>3, <1>4, <1>5, Zenon DEF IInv

(* A crash keeps the invariant.                                            *)
LEMMA CrashKeeps ==
    ASSUME IInv, Crash
    PROVE  IInv'
<1>1. /\ target # "none" /\ target' = "none" /\ mem' = BlankState /\ ptask' = NoMarks /\ thread' = Idle
      /\ left' = {} /\ partials' = {} /\ crashes' = crashes + 1
      /\ UNCHANGED <<disk, crc, stray, torn, removed, changes, modifies, errors>>
    BY Zenon DEF Crash
<1>2. TypeOK'
  <2>1. TypeOK
      BY DEF IInv
  <2>2. {changes', modifies', errors', crashes'} \subseteq Nat
    <3>1. {changes, modifies, errors, crashes} \subseteq Nat
        BY <2>1, TypedMarks, Zenon
    <3>2. crashes' = crashes + 1 /\ UNCHANGED <<changes, modifies, errors>>
        BY <1>1, Zenon
    <3> QED
        BY <3>1, <3>2
  <2>3. /\ target' = "none" /\ mem' \in States /\ left' \subseteq Pages /\ partials' \subseteq Zones
        /\ UNCHANGED <<disk, crc, stray, torn, removed>>
      BY <1>1, BlankIsState, Zenon
  <2>4. MarksOK(ptask') /\ thread' \in [busy : BOOLEAN, marks : Marks, snap : States, todo : SUBSET Pages]
      BY <1>1, NoMarksOK, IdleType, Zenon
  <2> QED
      BY <2>1, <2>2, <2>3, <2>4, Zenon DEF TypeOK, MarksOK
<1>3. DirtyIsMarked'
    BY <1>1, Zenon DEF DirtyIsMarked
<1>a. RefusedOnlyIfTorn'
    BY <1>1, Zenon DEF IInv, RefusedOnlyIfTorn, Loads
<1>4. RemovalSavesAll' /\ SaveInv'
    BY <1>1, Zenon DEF IInv, RemovalSavesAll, SaveInv
<1>5. ThreadInv' /\ BlankInv'
    BY <1>1, IdleType, Zenon DEF IInv, ThreadInv, BlankInv
<1> QED
    BY <1>2, <1>3, <1>a, <1>4, <1>5, Zenon DEF IInv

(* A step that changes nothing keeps the invariant.                        *)
LEMMA StutterKeeps ==
    ASSUME IInv, UNCHANGED vars
    PROVE  IInv'
<1>1. UNCHANGED <<target, mem, disk, crc, ptask, thread, left, partials, stray, torn, removed>>
      /\ UNCHANGED <<changes, modifies, errors, crashes>>
    BY Zenon DEF vars, bounds
<1>2. TypeOK'
    BY <1>1, Zenon DEF IInv, TypeOK
<1>3. DirtyIsMarked' /\ RefusedOnlyIfTorn' /\ RemovalSavesAll'
    BY <1>1, Zenon DEF IInv, DirtyIsMarked, Follows, RefusedOnlyIfTorn, RemovalSavesAll, Loads
<1>4. ThreadInv' /\ BlankInv' /\ SaveInv'
    BY <1>1, ZenonT(30) DEF IInv, ThreadInv, BlankInv, SaveInv
<1> QED
    BY <1>2, <1>3, <1>4, Zenon DEF IInv

(* The initial states satisfy the invariant.                               *)
LEMMA InitIInv ==
    ASSUME Init
    PROVE  IInv
<1>1. UsedState \in States /\ UsedState[Head].version # 0
  <2>1. [conds |-> "FULL", size |-> TotalItems, version |-> 1] \in Content
      BY PstoreBoundsAssumption DEF Content, Conds
  <2>2. UsedState \in States
      BY <2>1, DefaultIsState, Zenon DEF UsedState, States
  <2>3. UsedZones \subseteq Zones
      BY PstoreBoundsAssumption DEF Zones
  <2>4. UsedState[Head] = DefaultState[Head]
      BY <2>3, PagesOfItems, DistinctItems DEF UsedState
  <2> QED
      BY <2>2, <2>4, DefaultIsState
<1>2. crc \in States /\ (crc # NoHeader => crc[Head].version # 0)
    BY <1>1, BlankIsState, Zenon DEF Init, NoHeader
<1>3. DOMAIN disk = Pages /\ \A p \in Pages : disk[p] = Page(crc, p)
    BY Zenon DEF Init
<1>4. \A p \in Pages : disk[p] \in [On[p] -> Content]
    BY <1>2, <1>3, PageOf
<1>5. TypeOK
  <2>1. ptask \in Marks /\ Cardinality(ptask.zones) <= QDepth /\ (ptask.zones # {} => "STATUS" \in ptask.flag)
      BY NoMarksOK, Zenon DEF Init, MarksOK
  <2>2. mem \in States /\ thread \in [busy : BOOLEAN, marks : Marks, snap : States, todo : SUBSET Pages]
      BY BlankIsState, IdleType, Zenon DEF Init
  <2>3. /\ target = "none" /\ left \subseteq Pages /\ partials \subseteq Zones /\ stray \subseteq Items
        /\ {changes, modifies, errors, crashes} \subseteq Nat
      BY SMT DEF Init
  <2>4. {torn, removed} \subseteq BOOLEAN
      BY Zenon DEF Init
  <2> QED
      BY <1>2, <1>3, <1>4, <2>1, <2>2, <2>3, <2>4, Zenon DEF TypeOK
<1>6. DirtyIsMarked /\ RefusedOnlyIfTorn /\ RemovalSavesAll
    BY <1>3, Zenon DEF Init, DirtyIsMarked, RefusedOnlyIfTorn, RemovalSavesAll, Loads
<1>7. ThreadInv /\ BlankInv /\ SaveInv
    BY <1>2, IdleType, Zenon DEF Init, ThreadInv, BlankInv, SaveInv
<1> QED
    BY <1>5, <1>6, <1>7 DEF IInv

(* Every step keeps the invariant.                                         *)
LEMMA StepIInv ==
    ASSUME IInv, [Next]_vars
    PROVE  IInv'
<1>1. CASE Handlers
    BY <1>1, HandlersHandled, HandledKeeps, Zenon DEF IInv
<1>2. CASE ThreadSteps
    BY <1>2, CaptureKeeps, WriteDataKeeps, WriteHeaderKeeps DEF ThreadSteps
<1>3. CASE \E p \in Pages, r \in Marks : WriteFails(p, r)
    BY <1>3, WriteFailsKeeps
<1>4. CASE \E z \in 0 .. NumZones, t \in Marks : Load(z, t)
    BY <1>4, LoadKeeps
<1>5. CASE Format
    BY <1>5, FormatKeeps
<1>6. CASE Refuse \/ UNCHANGED vars
    BY <1>6, StutterKeeps DEF Refuse
<1>7. CASE \E p \in Pages : SavePage(p) \/ SaveFails(p)
    BY <1>7, SavePageKeeps, SaveFailsKeeps
<1>8. CASE Stop \/ BeginLastSave
    BY <1>8, StopKeeps, BeginLastSaveKeeps
<1>9. CASE Crash
    BY <1>9, CrashKeeps
<1> QED
    BY <1>1, <1>2, <1>3, <1>4, <1>5, <1>6, <1>7, <1>8, <1>9, Zenon DEF Next

(* The inductive invariant holds throughout.                               *)
LEMMA Invariance ==
    Spec => []IInv
<1>1. Init => IInv
    BY InitIInv
<1>2. IInv /\ [Next]_vars => IInv'
    BY StepIInv
<1> QED
    BY <1>1, <1>2, PTL DEF Spec

-----------------------------------------------------------------------------
(* The queue of imrsim_ptask_queue_zone_status_locked never holds more     *)
(* than IMR_PSTORE_QDEPTH zones, and the types are kept, for every layout. *)
THEOREM Types == Spec => []TypeOK
<1>1. IInv => TypeOK
    BY DEF IInv
<1> QED
    BY <1>1, Invariance, PTL

(* For every number of zones, every page size and layout and every depth   *)
(* of the queue: no change is forgotten between the handlers, the capture, *)
(* the incremental save and the restoration after a failed write.          *)
THEOREM NothingForgotten == Spec => []DirtyIsMarked
<1>1. IInv => DirtyIsMarked
    BY DEF IInv
<1> QED
    BY <1>1, Invariance, PTL

(* For every layout: imrsim_load_persistence accepts what is on the device *)
(* unless a save was cut short or a change went past the marks.            *)
THEOREM WholeSavesLoad == Spec => []RefusedOnlyIfTorn
<1>1. IInv => RefusedOnlyIfTorn
    BY DEF IInv
<1> QED
    BY <1>1, Invariance, PTL

(* For every layout: after the last save of imrsim_dtr the device holds    *)
(* the metadata of the removed target, and loads.                          *)
THEOREM RemovalIsOrderly == Spec => []RemovalSavesAll
<1>1. IInv => RemovalSavesAll
    BY DEF IInv
<1> QED
    BY <1>1, Invariance, PTL

(* For every layout and queue depth: a handler marks the pages of all it   *)
(* changes, except for the counters the partial-write worker bumps and     *)
(* what recovery changes.                                                  *)
THEOREM EveryHandlerMarks == Spec => HandlersMark
<1> DEFINE Step == \/ stray' \subseteq stray
                   \/ target = "none"
                   \/ partials' # partials /\ stray' \ stray \subseteq {Stat(z) : z \in Zones}
<1>1. ASSUME IInv, Handlers PROVE Step
  <2>1. ASSUME NEW E, Handled(E) PROVE stray' \ stray \subseteq E
      BY <2>1, Zenon DEF Handled, Replaces, Commit
  <2>2. CASE Handled({})
      BY <2>1, <2>2
  <2>3. CASE Handled(Counters) /\ partials' # partials
      BY <2>1, <2>3 DEF Counters
  <2> QED
      BY <1>1, <2>2, <2>3, HandlersHandled, Zenon DEF IInv
<1>2. ASSUME [Next]_vars, ~Handlers PROVE Step
    BY <1>2, Zenon DEF Next, ThreadSteps, Capture, WriteData, WriteHeader, WriteFails, Load, Format, Refuse,
                SavePage, SaveFails, Stop, BeginLastSave, Crash, vars
<1>3. IInv /\ [Next]_vars => [Step]_vars
    BY <1>1, <1>2, Zenon
<1> QED
    BY <1>3, Invariance, PTL DEF Spec, HandlersMark
=============================================================================
