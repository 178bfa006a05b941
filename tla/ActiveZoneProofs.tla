-------------------------- MODULE ActiveZoneProofs --------------------------
(***************************************************************************)
(* The maps, the counters and the reserve of the active-zone allocator and *)
(* of its collector hold for every geometry, every set of keys and every   *)
(* bound on the workload.                                                  *)
(*                                                                         *)
(* The facts about the operators come first: slots and blocks of a zone    *)
(* correspond one to one, the searches for a free zone and for a victim    *)
(* find one when there is one, and the plan of a collection covers the     *)
(* live blocks of its source without collisions.                           *)
(*                                                                         *)
(* The inductive invariant IInv adds to the properties of ActiveZone what  *)
(* they rest on: an open zone has room, an append in flight is below the   *)
(* append pointer of its zone, and the plan of a copy in progress covers   *)
(* the source and fits the empty destination, neither of which is the zone *)
(* being appended to.  The foreground keeps it, then the collector and the *)
(* administration do, and the properties follow.                           *)
(***************************************************************************)
EXTENDS ActiveZone, FiniteSetTheorems, TLAPS

-----------------------------------------------------------------------------
(* Division.                                                               *)

(* Quotient and remainder.                                                 *)
LEMMA DivMod ==
    ASSUME NEW a \in Nat, NEW b \in Nat \ {0}
    PROVE  /\ a \div b \in Nat
           /\ a % b \in 0 .. b - 1
           /\ a = (a \div b) * b + (a % b)
OBVIOUS

(* A smaller quotient leaves room for a whole divisor.                     *)
LEMMA MultipleBelow ==
    ASSUME NEW p \in Int, NEW q \in Int, NEW b \in Nat, p < q
    PROVE  p * b + b <= q * b
<1>1. (q - p - 1) * b >= 0
    OBVIOUS
<1>2. (q - p - 1) * b = q * b - p * b - b
    OBVIOUS
<1> QED BY <1>1, <1>2

(* Products of naturals are naturals and grow with each factor.            *)
LEMMA Products ==
    ASSUME NEW p \in Nat, NEW b \in Nat
    PROVE  p * b \in Nat
OBVIOUS

(* Quotient and remainder are the only ones.                               *)
LEMMA DivUnique ==
    ASSUME NEW q \in Nat, NEW b \in Nat \ {0}, NEW r \in 0 .. b - 1
    PROVE  (q * b + r) \div b = q /\ (q * b + r) % b = r
<1> DEFINE a == q * b + r
           d == a \div b
           m == a % b
<1>1. a \in Nat
    OBVIOUS
<1>2. d \in Nat /\ m \in 0 .. b - 1 /\ a = d * b + m
    BY <1>1, DivMod, Zenon
<1>3. a = q * b + r
    OBVIOUS
<1> HIDE DEF a, d, m
<1>4. ~(d < q)
    BY <1>2, <1>3, MultipleBelow
<1>5. ~(q < d)
    BY <1>2, <1>3, MultipleBelow
<1>6. d = q
    BY <1>2, <1>4, <1>5
<1>7. m = r
    BY <1>2, <1>3, <1>6
<1> QED BY <1>6, <1>7 DEF a, d, m

(* A natural below b * n has a quotient by b below n.                      *)
LEMMA DivBelow ==
    ASSUME NEW a \in Nat, NEW b \in Nat \ {0}, NEW n \in Nat, a < n * b
    PROVE  a \div b < n
<1>1. a \div b \in Nat /\ a % b \in 0 .. b - 1 /\ a = (a \div b) * b + (a % b)
    BY DivMod, Zenon
<1>2. CASE n < a \div b
    BY <1>1, <1>2, MultipleBelow
<1>3. CASE n = a \div b
    BY <1>1, <1>3
<1> QED BY <1>1, <1>2, <1>3

-----------------------------------------------------------------------------
(* Slots and blocks.                                                       *)

(* The sizes of a zone and of its parts.                                   *)
LEMMA Sizes ==
    /\ NumZones \in Nat /\ NumZones >= 2 /\ TrackGroups \in Nat \ {0}
    /\ TopSize \in Nat \ {0} /\ BottomSize \in Nat \ {0}
    /\ GroupBlocks \in Nat \ {0} /\ GroupBlocks = TopSize + BottomSize
    /\ TotalItems \in Nat \ {0} /\ TotalItems = TrackGroups * GroupBlocks
    /\ BottomBlocks \in Nat /\ BottomBlocks = TrackGroups * BottomSize
    /\ TotalItems = BottomBlocks + TrackGroups * TopSize
    /\ TrackGroups * TopSize \in Nat
BY ZoneGeometryAssumption DEF GroupBlocks, TotalItems, BottomBlocks

(* A block of a zone is a position within one of its track groups.         *)
LEMMA BlockInZone ==
    ASSUME NEW g \in 0 .. TrackGroups - 1, NEW w \in 0 .. GroupBlocks - 1
    PROVE  g * GroupBlocks + w \in Slots
<1>1. g * GroupBlocks + GroupBlocks <= TrackGroups * GroupBlocks
    BY MultipleBelow, Sizes
<1>2. g * GroupBlocks \in Nat
    BY Products, Sizes
<1> QED BY <1>1, <1>2, Sizes DEF Slots

(* The physical block of a slot: a group g and a position w in it, from    *)
(* which AppendSlot can recover the slot.                                  *)
LEMMA BlockOfSlot ==
    ASSUME NEW z \in Zones, NEW s \in Slots
    PROVE  \E g \in 0 .. TrackGroups - 1, w \in 0 .. GroupBlocks - 1 :
              /\ AppendPba(z, s) = z * TotalItems + (g * GroupBlocks + w)
              /\ s = IF w < TopSize THEN BottomBlocks + g * TopSize + w
                     ELSE g * BottomSize + w - TopSize
<1>1. s \in Nat /\ s < TotalItems
    BY Sizes DEF Slots
<1>2. CASE s < BottomBlocks
    <2> DEFINE g == s \div BottomSize
               w == TopSize + (s % BottomSize)
    <2>1. g \in Nat /\ s % BottomSize \in 0 .. BottomSize - 1
          /\ s = g * BottomSize + (s % BottomSize)
        BY <1>1, DivMod, Sizes, Zenon
    <2>2. g < TrackGroups
        BY <1>1, <1>2, DivBelow, Sizes
    <2>3. w \in 0 .. GroupBlocks - 1 /\ ~(w < TopSize)
        BY <2>1, Sizes
    <2>4. AppendPba(z, s) = z * TotalItems + (g * GroupBlocks + w)
        <3>1. AppendPba(z, s) = z * TotalItems + (g * GroupBlocks + TopSize + (s % BottomSize))
            BY <1>2 DEF AppendPba
        <3> QED BY <3>1, <2>1, Products, Sizes
    <2>5. s = g * BottomSize + w - TopSize
        BY <2>1, Products, Sizes
    <2> HIDE DEF g, w
    <2>6. g \in 0 .. TrackGroups - 1
        BY <2>1, <2>2, Sizes
    <2>7. s = IF w < TopSize THEN BottomBlocks + g * TopSize + w
              ELSE g * BottomSize + w - TopSize
        BY <2>3, <2>5
    <2> QED BY <2>3, <2>4, <2>6, <2>7, Zenon
<1>3. CASE ~(s < BottomBlocks)
    <2> DEFINE t == s - BottomBlocks
               g == t \div TopSize
               w == t % TopSize
    <2>1. t \in Nat /\ t < TrackGroups * TopSize
        BY <1>1, <1>3, Sizes
    <2>2. g \in Nat /\ w \in 0 .. TopSize - 1 /\ t = g * TopSize + w
        BY <2>1, DivMod, Sizes, Zenon
    <2>3. g < TrackGroups
        BY <2>1, DivBelow, Sizes
    <2>4. AppendPba(z, s) = z * TotalItems + (g * GroupBlocks + w)
        BY <1>3 DEF AppendPba
    <2>5. s = BottomBlocks + g * TopSize + w
        BY <1>1, <2>2, Products, Sizes
    <2> HIDE DEF g, w, t
    <2>6. w \in 0 .. GroupBlocks - 1 /\ w < TopSize
        BY <2>2, Sizes
    <2>7. g \in 0 .. TrackGroups - 1
        BY <2>2, <2>3, Sizes
    <2>8. s = IF w < TopSize THEN BottomBlocks + g * TopSize + w
              ELSE g * BottomSize + w - TopSize
        BY <2>5, <2>6
    <2> QED BY <2>4, <2>6, <2>7, <2>8, Zenon
<1> QED BY <1>2, <1>3

(* A block of zone z is in zone z and is found again.                      *)
LEMMA ZoneBlock ==
    ASSUME NEW z \in Zones, NEW b \in Slots
    PROVE  /\ z * TotalItems + b \in Pbas
           /\ ZoneOf(z * TotalItems + b) = z
           /\ (z * TotalItems + b) - z * TotalItems = b
<1>1. z \in Nat /\ z < NumZones
    BY Sizes DEF Zones
<1>2. z * TotalItems + TotalItems <= NumZones * TotalItems /\ z * TotalItems \in Nat
    BY <1>1, MultipleBelow, Products, Sizes
<1>3. b \in 0 .. TotalItems - 1
    BY DEF Slots
<1>4. ZoneOf(z * TotalItems + b) = z
    BY <1>1, <1>3, DivUnique, Sizes DEF ZoneOf
<1> QED BY <1>2, <1>3, <1>4, Sizes DEF Pbas

(* The slot of the physical block of a slot is that slot.                  *)
LEMMA SlotOfBlock ==
    ASSUME NEW z \in Zones, NEW s \in Slots
    PROVE  /\ AppendPba(z, s) \in Pbas
           /\ ZoneOf(AppendPba(z, s)) = z
           /\ AppendSlot(z, AppendPba(z, s)) = s
<1>1. PICK g \in 0 .. TrackGroups - 1, w \in 0 .. GroupBlocks - 1 :
              /\ AppendPba(z, s) = z * TotalItems + (g * GroupBlocks + w)
              /\ s = IF w < TopSize THEN BottomBlocks + g * TopSize + w
                     ELSE g * BottomSize + w - TopSize
    BY BlockOfSlot
<1> DEFINE b == g * GroupBlocks + w
<1>2. b \in Slots
    BY BlockInZone
<1>3. b \div GroupBlocks = g /\ b % GroupBlocks = w
    BY DivUnique, Sizes
<1>4. AppendPba(z, s) = z * TotalItems + b
    BY <1>1
<1> HIDE DEF b
<1>5. /\ z * TotalItems + b \in Pbas
      /\ ZoneOf(z * TotalItems + b) = z
      /\ (z * TotalItems + b) - z * TotalItems = b
    BY <1>2, ZoneBlock
<1>6. AppendSlot(z, z * TotalItems + b) = s
    BY <1>1, <1>3, <1>5 DEF AppendSlot
<1> QED BY <1>4, <1>5, <1>6

(* The physical block of the slot of a block is that block.                *)
LEMMA BlockHasSlot ==
    ASSUME NEW p \in Pbas
    PROVE  /\ ZoneOf(p) \in Zones
           /\ AppendSlot(ZoneOf(p), p) \in Slots
           /\ AppendPba(ZoneOf(p), AppendSlot(ZoneOf(p), p)) = p
<1> DEFINE z == p \div TotalItems
           b == p % TotalItems
           g == b \div GroupBlocks
           w == b % GroupBlocks
<1>1. p \in Nat /\ p < NumZones * TotalItems
    BY Sizes DEF Pbas
<1>2. z \in Nat /\ b \in 0 .. TotalItems - 1 /\ p = z * TotalItems + b /\ z < NumZones
    BY <1>1, DivMod, DivBelow, Sizes, Zenon
<1>3. g \in Nat /\ w \in 0 .. GroupBlocks - 1 /\ b = g * GroupBlocks + w /\ g < TrackGroups
    <2> HIDE DEF b
    <2>1. b \in Nat /\ b < TrackGroups * GroupBlocks
        BY <1>2, Sizes
    <2> QED BY <2>1, DivMod, DivBelow, Sizes, Zenon
<1>4. ZoneOf(p) = z
    BY DEF ZoneOf
<1> HIDE DEF z, b
<1>5. p - z * TotalItems = b
    BY <1>2, Products, Sizes
<1>6. AppendSlot(z, p) = IF w < TopSize THEN BottomBlocks + g * TopSize + w
                         ELSE g * BottomSize + w - TopSize
    BY <1>5 DEF AppendSlot
<1> HIDE DEF g, w
<1>7. AppendSlot(z, p) \in Slots /\ AppendPba(z, AppendSlot(z, p)) = p
    <2>1. CASE w < TopSize
        <3>1. g * TopSize + TopSize <= TrackGroups * TopSize /\ g * TopSize \in Nat
            BY <1>3, MultipleBelow, Products, Sizes
        <3> DEFINE s == AppendSlot(z, p)
        <3>2. s = BottomBlocks + g * TopSize + w
            BY <1>6, <2>1
        <3>3. s \in Slots /\ ~(s < BottomBlocks) /\ s - BottomBlocks = g * TopSize + w
            BY <1>3, <2>1, <3>1, <3>2, Sizes DEF Slots
        <3> HIDE DEF s
        <3>4. (s - BottomBlocks) \div TopSize = g /\ (s - BottomBlocks) % TopSize = w
            <4>1. w \in 0 .. TopSize - 1
                BY <1>3, <2>1, Sizes
            <4>2. (g * TopSize + w) \div TopSize = g /\ (g * TopSize + w) % TopSize = w
                BY <1>3, <4>1, DivUnique, Sizes
            <4> QED BY <3>3, <4>2
        <3>5. AppendPba(z, s) = z * TotalItems + (g * GroupBlocks + w)
            BY <3>3, <3>4, Zenon DEF AppendPba
        <3> QED BY <1>2, <1>3, <3>3, <3>5 DEF s
    <2>2. CASE ~(w < TopSize)
        <3>1. g * BottomSize + BottomSize <= TrackGroups * BottomSize /\ g * BottomSize \in Nat
            BY <1>3, MultipleBelow, Products, Sizes
        <3> DEFINE s == AppendSlot(z, p)
                   r == w - TopSize
        <3>2. r \in 0 .. BottomSize - 1
            BY <1>3, <2>2, Sizes
        <3>3. s = g * BottomSize + r
            BY <1>3, <1>6, <2>2, <3>1, Sizes
        <3> HIDE DEF s, r
        <3>4. s \in Slots /\ s < BottomBlocks
            BY <3>1, <3>2, <3>3, Sizes DEF Slots
        <3>5. s \div BottomSize = g /\ s % BottomSize = r
            BY <1>3, <3>2, <3>3, DivUnique, Sizes
        <3>6. AppendPba(z, s) = z * TotalItems + (g * GroupBlocks + TopSize + r)
            BY <3>4, <3>5 DEF AppendPba
        <3>7. g * GroupBlocks + TopSize + r = g * GroupBlocks + w
            BY <1>3, Products, Sizes DEF r
        <3> QED BY <1>2, <1>3, <3>4, <3>6, <3>7, Zenon DEF s
    <2> QED BY <2>1, <2>2
<1> QED BY <1>2, <1>4, <1>7, Sizes DEF Zones

(* Two blocks of a zone with the same slot are the same block.             *)
LEMMA SlotDistinct ==
    ASSUME NEW p \in Pbas, NEW q \in Pbas, ZoneOf(p) = ZoneOf(q),
           AppendSlot(ZoneOf(p), p) = AppendSlot(ZoneOf(q), q)
    PROVE  p = q
BY BlockHasSlot

-----------------------------------------------------------------------------
(* Searches over zones.                                                    *)

(* A set of naturals that is not empty has a least element.                *)
LEMMA NatLeast ==
    ASSUME NEW T, T \subseteq Nat, T # {}
    PROVE  \E x \in T : \A y \in T : x <= y
<1>1. PICK x \in T : \A y \in T : ~(<<y, x>> \in OpToRel(<, Nat))
    BY WFMin, NatLessThanWellFounded, Zenon
<1>2. \A y \in T : ~(y < x)
    BY <1>1, Zenon DEF OpToRel
<1> QED BY <1>2

(* A measure of the elements of a set of zones has a greatest value.       *)
LEMMA Greatest ==
    ASSUME NEW S \in SUBSET Zones, S # {}, NEW f, \A s \in S : f[s] \in Int
    PROVE  \E x \in S : \A y \in S : f[y] <= f[x]
<1> DEFINE Top(R) == \E x \in R : \A y \in R : f[y] <= f[x]
           Flat(R, m) == R # {} /\ R \subseteq 0 .. m - 1 /\ ~Top(R)
           Bad == {m \in Nat : \E R \in SUBSET S : Flat(R, m)}
<1>1. SUFFICES ASSUME ~Top(S) PROVE FALSE
    OBVIOUS
<1>2. NumZones \in Bad
    BY <1>1, Sizes DEF Zones
<1>3. PICK m \in Bad : \A k \in Bad : m <= k
    <2>1. Bad \subseteq Nat
        OBVIOUS
    <2> HIDE DEF Bad
    <2> QED BY <1>2, <2>1, NatLeast, Zenon
<1>4. PICK R \in SUBSET S : Flat(R, m)
    <2> HIDE DEF Flat
    <2> QED BY Zenon
<1>5. m \in Nat /\ m > 0
    <2>1. R # {} /\ R \subseteq 0 .. m - 1
        BY <1>4
    <2>2. m \in Nat
        <3> HIDE DEF Flat
        <3> QED BY Zenon
    <2>3. \E r \in R : r \in 0 .. m - 1
        BY <2>1, Zenon
    <2> HIDE DEF Bad, Flat
    <2> QED BY <2>2, <2>3
<1> DEFINE Q == R \ {m - 1}
<1>6. \A P \in SUBSET S : ~Flat(P, m - 1)
    <2>1. m - 1 \in Nat /\ m - 1 \notin Bad
        <3> HIDE DEF Bad
        <3> QED BY <1>3, <1>5
    <2> HIDE DEF Flat
    <2> QED BY <2>1, Zenon
<1> HIDE DEF Bad
<1>7. Q \subseteq 0 .. (m - 1) - 1 /\ Q \in SUBSET S
    BY <1>4, <1>5
<1>8. CASE Q = {}
    <2>1. R = {m - 1}
        BY <1>4, <1>8
    <2>2. f[m - 1] \in Int
        BY <2>1, Zenon
    <2> QED BY <1>4, <2>1, <2>2
<1>9. CASE Q # {}
    <2>1. Top(Q)
        BY <1>6, <1>7, <1>9, Zenon
    <2>2. PICK x \in Q : \A y \in Q : f[y] <= f[x]
        BY <2>1
    <2>3. x \in R /\ f[x] \in Int
        BY <2>2
    <2>4. CASE m - 1 \in R /\ f[x] <= f[m - 1]
        <3>1. f[m - 1] \in Int /\ \A y \in R : f[y] \in Int
            BY <2>4
        <3>2. \A y \in R : f[y] <= f[m - 1]
            BY <2>2, <2>3, <2>4, <3>1
        <3> QED BY <1>4, <2>4, <3>2, Zenon
    <2>5. CASE ~(m - 1 \in R /\ f[x] <= f[m - 1])
        <3>1. \A y \in R : f[y] \in Int
            OBVIOUS
        <3>2. \A y \in R : f[y] <= f[x]
            BY <2>2, <2>3, <2>5, <3>1
        <3> QED BY <1>4, <2>3, <3>2
    <2> QED BY <2>4, <2>5
<1> QED BY <1>8, <1>9

(* The search for a zone from the cursor on finds one of the set.          *)
LEMMA FirstFromFinds ==
    ASSUME NEW S \in SUBSET Zones, NEW cur \in Zones
    PROVE  IF S = {} THEN FirstFrom(S, cur) = None ELSE FirstFrom(S, cur) \in S
<1>1. CASE S = {}
    BY <1>1 DEF FirstFrom
<1>2. CASE S # {}
    <2> DEFINE far(z) == (z - cur + NumZones) % NumZones
               f == [z \in S |-> 0 - far(z)]
    <2>1. \A z \in S : far(z) \in Int /\ f[z] = 0 - far(z)
        BY Sizes DEF Zones
    <2> HIDE DEF f, far
    <2>2. PICK x \in S : \A y \in S : f[y] <= f[x]
        BY <1>2, <2>1, Greatest
    <2>3. \A y \in S : far(x) <= far(y)
        BY <2>1, <2>2
    <2>4. \E z \in S : \A y \in S : far(z) <= far(y)
        BY <2>3
    <2>5. FirstFrom(S, cur) = CHOOSE z \in S : \A y \in S : far(z) <= far(y)
        BY <1>2 DEF FirstFrom, far
    <2> QED BY <1>2, <2>4, <2>5
<1> QED BY <1>1, <1>2

(* The cursor moves on to a zone.                                          *)
LEMMA CursorAfterZone ==
    ASSUME NEW z \in Zones \cup {None}, NEW cur \in Zones
    PROVE  CursorAfter(z, cur) \in Zones
BY Sizes DEF CursorAfter, Zones, None

(* The greatest elements of a measure, as a set.                           *)
LEMMA GreatestSet ==
    ASSUME NEW S \in SUBSET Zones, S # {}, NEW f, \A s \in S : f[s] \in Int
    PROVE  {x \in S : \A y \in S : f[y] <= f[x]} # {}
<1>1. PICK x \in S : \A y \in S : f[y] <= f[x]
    BY Greatest
<1> QED BY <1>1

(* The counters of a zone table are numbers.                               *)
Counted(zs) ==
    \A z \in Zones : zs[z].z_map_size \in Nat /\ zs[z].z_live_count \in Nat
                                              /\ zs[z].z_generation \in Nat

(* What a victim frees, and which share of it, are numbers.                *)
LEMMA RatioNumber ==
    ASSUME NEW s, s.z_map_size \in Nat, s.z_live_count \in Nat, s.z_live_count < s.z_map_size
    PROVE  Reclaimable(s) \in Nat /\ Ratio(s) \in Nat
<1> DEFINE a == Reclaimable(s) * 1000
           b == s.z_map_size
<1>1. Reclaimable(s) \in Nat /\ a \in Nat /\ b \in Nat \ {0}
    BY DEF Reclaimable
<1>2. Ratio(s) = a \div b
    BY DEF Ratio
<1> HIDE DEF a, b
<1>3. a \div b \in Nat
    BY <1>1, DivMod, Zenon
<1> QED BY <1>1, <1>2, <1>3

(* The search for a victim finds the best one.                             *)
LEMMA VictimFound ==
    ASSUME NEW zs, Counted(zs), NEW V \in SUBSET Zones,
           \A z \in V : zs[z].z_live_count < zs[z].z_map_size
    PROVE  IF V = {} THEN Victim(zs, V) = None ELSE Victim(zs, V) \in V
<1>1. CASE V = {}
    BY <1>1 DEF Victim
<1>2. CASE V # {}
    <2> DEFINE R(z) == Ratio(zs[z])
               C(z) == Reclaimable(zs[z])
               G(z) == zs[z].z_generation
               rf == [z \in V |-> R(z)]
               cf == [z \in V |-> C(z)]
               gf == [z \in V |-> 0 - G(z)]
               zf == [z \in V |-> 0 - z]
               V1 == {x \in V : \A y \in V : rf[y] <= rf[x]}
               V2 == {x \in V1 : \A y \in V1 : cf[y] <= cf[x]}
               V3 == {x \in V2 : \A y \in V2 : gf[y] <= gf[x]}
               V4 == {x \in V3 : \A y \in V3 : zf[y] <= zf[x]}
    <2>1. \A z \in V : z \in Nat /\ R(z) \in Int /\ C(z) \in Int /\ G(z) \in Int
        <3> SUFFICES ASSUME NEW z \in V
                     PROVE  z \in Nat /\ R(z) \in Int /\ C(z) \in Int /\ G(z) \in Int
            OBVIOUS
        <3>1. z \in Nat /\ zs[z].z_map_size \in Nat /\ zs[z].z_live_count \in Nat
              /\ zs[z].z_generation \in Nat /\ zs[z].z_live_count < zs[z].z_map_size
            BY Sizes DEF Counted, Zones
        <3>2. C(z) \in Nat /\ R(z) \in Nat
            BY <3>1, RatioNumber
        <3> QED BY <3>1, <3>2
    <2>2. \A z \in V : rf[z] = R(z) /\ cf[z] = C(z) /\ gf[z] = 0 - G(z) /\ zf[z] = 0 - z
        OBVIOUS
    <2> HIDE DEF R, C, G, rf, cf, gf, zf
    <2>3. \A z \in V : rf[z] \in Int /\ cf[z] \in Int /\ gf[z] \in Int /\ zf[z] \in Int
        BY <2>1, <2>2
    <2>4. V1 # {} /\ V1 \subseteq V
        BY <1>2, <2>3, GreatestSet, Zenon
    <2>5. V2 # {} /\ V2 \subseteq V1
        <3> HIDE DEF V1
        <3> QED BY <2>3, <2>4, GreatestSet, Zenon
    <2>6. V3 # {} /\ V3 \subseteq V2
        <3> HIDE DEF V1, V2
        <3> QED BY <2>3, <2>4, <2>5, GreatestSet, Zenon
    <2>7. V4 # {} /\ V4 \subseteq V3
        <3> HIDE DEF V1, V2, V3
        <3> QED BY <2>3, <2>4, <2>5, <2>6, GreatestSet, Zenon
    <2>8. PICK x \in V4 : x \in V3 /\ x \in V2 /\ x \in V1 /\ x \in V
        BY <2>4, <2>5, <2>6, <2>7, Zenon
    <2>9. ASSUME NEW y \in V \ {x}
          PROVE  Better(zs[x], zs[y]) \/ (~Better(zs[y], zs[x]) /\ x < y)
        <3>1. R(x) \in Int /\ C(x) \in Int /\ G(x) \in Int /\ R(y) \in Int /\ C(y) \in Int
              /\ G(y) \in Int /\ x \in Nat /\ y \in Nat
            BY <2>1, <2>8, Zenon
        <3>2. R(y) <= R(x)
            BY <2>2, <2>8, Zenon
        <3>3. R(y) = R(x) => y \in V1
            BY <2>2, <2>8, Zenon
        <3>4. y \in V1 => C(y) <= C(x)
            BY <2>2, <2>8, Zenon
        <3>5. y \in V1 /\ C(y) = C(x) => y \in V2
            BY <2>2, <2>8, Zenon
        <3>6. y \in V2 => G(x) <= G(y)
            <4>1. y \in V2 => gf[y] <= gf[x]
                BY <2>8, Zenon
            <4> QED BY <4>1, <2>2, <2>8, <3>1
        <3>7. y \in V2 /\ G(y) = G(x) => y \in V3
            BY <2>2, <2>8, Zenon
        <3>8. y \in V3 => x < y
            <4>1. y \in V3 => zf[y] <= zf[x]
                BY <2>8, Zenon
            <4> QED BY <4>1, <2>2, <2>8, <3>1
        <3> HIDE DEF V1, V2, V3
        <3>9. /\ Better(zs[x], zs[y]) <=> \/ R(x) > R(y)
                                          \/ R(x) = R(y) /\ C(x) > C(y)
                                          \/ R(x) = R(y) /\ C(x) = C(y) /\ G(x) < G(y)
              /\ Better(zs[y], zs[x]) <=> \/ R(y) > R(x)
                                          \/ R(y) = R(x) /\ C(y) > C(x)
                                          \/ R(y) = R(x) /\ C(y) = C(x) /\ G(y) < G(x)
            BY Zenon DEF Better, R, C, G
        <3> QED BY <3>1, <3>2, <3>3, <3>4, <3>5, <3>6, <3>7, <3>8, <3>9
    <2> DEFINE best(z) == \A y \in V \ {z} : Better(zs[z], zs[y]) \/ (~Better(zs[y], zs[z]) /\ z < y)
    <2>10. x \in V /\ best(x)
        BY <2>8, <2>9, Zenon
    <2>11. Victim(zs, V) = CHOOSE z \in V : best(z)
        BY <1>2, Zenon DEF Victim
    <2> HIDE DEF best
    <2> QED BY <1>2, <2>10, <2>11, Zenon
<1> QED BY <1>1, <1>2

(* The advertised victim and destination are zones or none, and the cursor *)
(* stays on a zone.                                                        *)
LEMMA CandidateZones ==
    ASSUME NEW zs, Counted(zs), NEW act, NEW cur \in Zones, NEW cp, NEW old
    PROVE  /\ Candidate(zs, act, cur, cp, old) \in
                  [zone : Zones \cup {None}, dest : Zones \cup {None}]
           /\ CandidateCursor(Candidate(zs, act, cur, cp, old), old, cur) \in Zones
<1> DEFINE free == Free(zs, act, cp)
           V    == Victims(zs, act, free)
           src  == Victim(zs, V)
           keep == src = old.zone /\ old.dest # src /\ old.dest \in free
           c    == Candidate(zs, act, cur, cp, old)
           d    == IF src = None THEN None
                   ELSE IF keep THEN old.dest ELSE FirstFrom(free \ {src}, cur)
<1>1. free \in SUBSET Zones
    BY DEF Free
<1>2. V \in SUBSET Zones /\ \A z \in V : zs[z].z_live_count < zs[z].z_map_size
    BY Zenon DEF Victims
<1>3. src \in Zones \cup {None}
    <2> HIDE DEF V
    <2>1. IF V = {} THEN src = None ELSE src \in V
        BY <1>2, VictimFound
    <2> QED BY <1>2, <2>1
<1>4. FirstFrom(free \ {src}, cur) \in Zones \cup {None}
    <2>1. free \ {src} \in SUBSET Zones
        BY <1>1
    <2> HIDE DEF free, src
    <2> QED BY <2>1, FirstFromFinds
<1>5. c = [zone |-> src, dest |-> d]
    BY Zenon DEF Candidate
<1> HIDE DEF free, V, src, c
<1>6. d \in Zones \cup {None}
    BY <1>1, <1>4, Zenon
<1> HIDE DEF d
<1>7. c \in [zone : Zones \cup {None}, dest : Zones \cup {None}]
    BY <1>3, <1>5, <1>6
<1>8. CandidateCursor(c, old, cur) \in Zones
    BY <1>7, CursorAfterZone DEF CandidateCursor
<1> QED BY <1>7, <1>8 DEF c

-----------------------------------------------------------------------------
(* Counting.                                                               *)

(* An interval from 0 has as many elements as its bound says.              *)
LEMMA IntervalCount ==
    ASSUME NEW n \in Nat
    PROVE  IsFiniteSet(0 .. n - 1) /\ Cardinality(0 .. n - 1) = n
BY FS_Interval

(* A subset of 0 .. n-1 is finite and has at most n elements.              *)
LEMMA SubsetCount ==
    ASSUME NEW n \in Nat, NEW S \in SUBSET (0 .. n - 1)
    PROVE  IsFiniteSet(S) /\ Cardinality(S) \in 0 .. n
<1>1. IsFiniteSet(0 .. n - 1) /\ Cardinality(0 .. n - 1) = n
    BY IntervalCount
<1>2. IsFiniteSet(S) /\ Cardinality(S) <= n
    BY <1>1, FS_Subset, Zenon
<1> QED BY <1>2, FS_CardinalityType

(* The number of smaller elements tells the elements of a finite set of    *)
(* integers apart, and is below the size of the set.                       *)
LEMMA RankDistinct ==
    ASSUME NEW L, IsFiniteSet(L), NEW f, \A s \in L : f[s] \in Int,
           \A s, t \in L : f[s] = f[t] => s = t
    PROVE  /\ \A s \in L : Cardinality({t \in L : f[t] < f[s]}) \in 0 .. Cardinality(L) - 1
           /\ \A s, t \in L : Cardinality({u \in L : f[u] < f[s]}) = Cardinality({u \in L : f[u] < f[t]})
                                 => s = t
<1> DEFINE Below(s) == {t \in L : f[t] < f[s]}
<1>1. ASSUME NEW s \in L
      PROVE  /\ IsFiniteSet(Below(s)) /\ Cardinality(Below(s)) \in 0 .. Cardinality(L) - 1
    <2>1. Below(s) \subseteq L \ {s} /\ L \ {s} \subseteq L
        OBVIOUS
    <2>2. IsFiniteSet(L \ {s}) /\ Cardinality(L \ {s}) = Cardinality(L) - 1
        BY FS_RemoveElement, Zenon
    <2> HIDE DEF Below
    <2>3. IsFiniteSet(Below(s)) /\ Cardinality(Below(s)) <= Cardinality(L \ {s})
        BY <2>1, <2>2, FS_Subset
    <2>4. Cardinality(Below(s)) \in Nat /\ Cardinality(L) \in Nat
        BY <2>3, FS_CardinalityType
    <2> QED BY <2>2, <2>3, <2>4
<1>2. ASSUME NEW s \in L, NEW t \in L, f[s] < f[t]
      PROVE  Cardinality(Below(s)) < Cardinality(Below(t))
    <2>1. Below(s) \subseteq Below(t) /\ s \in Below(t) /\ s \notin Below(s)
        BY <1>2
    <2>2. Below(s) \cup {s} \subseteq Below(t)
        BY <2>1
    <2> HIDE DEF Below
    <2>3. Cardinality(Below(s) \cup {s}) = Cardinality(Below(s)) + 1
        BY <1>1, <2>1, FS_AddElement, Zenon
    <2>4. Cardinality(Below(s) \cup {s}) <= Cardinality(Below(t))
        BY <1>1, <2>2, FS_Subset
    <2> QED BY <1>1, <2>3, <2>4
<1>3. ASSUME NEW s \in L, NEW t \in L, Cardinality(Below(s)) = Cardinality(Below(t))
      PROVE  s = t
    <2> HIDE DEF Below
    <2>1. Cardinality(Below(s)) \in Int /\ Cardinality(Below(t)) \in Int
        BY <1>1
    <2>2. ~(f[s] < f[t]) /\ ~(f[t] < f[s])
        BY <1>2, <1>3, <2>1
    <2> QED BY <2>2
<1> QED BY <1>1, <1>3, Zenon

(* Sets in one-to-one correspondence have the same size.                   *)
LEMMA SameCount ==
    ASSUME NEW S, NEW T, IsFiniteSet(S), NEW f \in [S -> T],
           \A x, y \in S : f[x] = f[y] => x = y, \A t \in T : \E x \in S : f[x] = t
    PROVE  IsFiniteSet(T) /\ Cardinality(T) = Cardinality(S)
<1>1. f \in Bijection(S, T)
    BY Zenon DEF Bijection, Injection, Surjection, IsInjective
<1> QED BY <1>1, FS_Bijection DEF ExistsBijection

(* An enumeration of a finite set by distinct places reaches every place.  *)
LEMMA PlacesFilled ==
    ASSUME NEW L, IsFiniteSet(L), NEW f \in [L -> 1 .. Cardinality(L)],
           \A s, t \in L : f[s] = f[t] => s = t
    PROVE  \A i \in 1 .. Cardinality(L) : \E s \in L : f[s] = i
<1> DEFINE T == 1 .. Cardinality(L)
<1>1. Cardinality(L) \in Nat
    BY FS_CardinalityType
<1>2. IsFiniteSet(T) /\ Cardinality(T) = Cardinality(L)
    BY <1>1, FS_Interval
<1>3. f \in Injection(L, T)
    BY DEF Injection, IsInjective
<1> HIDE DEF T
<1>4. f \in Surjection(L, T)
    BY <1>2, <1>3, FS_Injection
<1> QED BY <1>4 DEF Surjection, T

-----------------------------------------------------------------------------
(* The plan of a collection.                                               *)

(* What the plan is made from: the maps are maps of their types.           *)
MapTypes(z) ==
    /\ z_pba_map \in [Keys -> Pbas \cup {Unmapped}]
    /\ zone_status[z].z_map_size \in 0 .. TotalItems
    /\ zone_status[z].z_key_map \in [Slots -> Keys \cup {NoKey}]

(* A live slot is a slot below the append pointer whose key is mapped to   *)
(* it, so no key has two.                                                  *)
LEMMA LiveSlotsAre ==
    ASSUME NEW z \in Zones, MapTypes(z)
    PROVE  /\ IsFiniteSet(LiveSlots(z))
           /\ Cardinality(LiveSlots(z)) \in 0 .. TotalItems
           /\ \A s \in LiveSlots(z) :
                 /\ s \in Slots /\ s \in Nat /\ zone_status[z].z_key_map[s] \in Keys
                 /\ z_pba_map[zone_status[z].z_key_map[s]] = AppendPba(z, s)
           /\ \A s, t \in LiveSlots(z) :
                 zone_status[z].z_key_map[s] = zone_status[z].z_key_map[t] => s = t
<1> DEFINE n == zone_status[z].z_map_size
           L == LiveSlots(z)
<1>1. n \in Nat /\ n <= TotalItems /\ L \in SUBSET (0 .. n - 1)
    BY Sizes DEF LiveSlots, MapTypes
<1>2. IsFiniteSet(L) /\ Cardinality(L) \in 0 .. n
    BY <1>1, SubsetCount, Zenon
<1>3. \A s \in L : s \in Slots /\ s \in Nat
    <2> HIDE DEF L, n
    <2> QED BY <1>1, Sizes DEF Slots
<1>4. ASSUME NEW s \in L
      PROVE  /\ zone_status[z].z_key_map[s] \in Keys
             /\ z_pba_map[zone_status[z].z_key_map[s]] = AppendPba(z, s)
    BY <1>3, Zenon DEF LiveSlots, MapTypes
<1>5. ASSUME NEW s \in L, NEW t \in L, zone_status[z].z_key_map[s] = zone_status[z].z_key_map[t]
      PROVE  s = t
    <2>1. AppendPba(z, s) = AppendPba(z, t)
        BY <1>4, <1>5, Zenon
    <2> QED BY <1>3, <2>1, SlotOfBlock
<1> QED BY <1>1, <1>2, <1>3, <1>4, <1>5, Sizes

(* The entry of a live slot.                                               *)
Rank(z, s) == Cardinality({t \in LiveSlots(z) : t < s})
Entry(z, dest, s) ==
    [key    |-> zone_status[z].z_key_map[s],
     source |-> AppendPba(z, s),
     pba    |-> AppendPba(dest, Rank(z, s)),
     ts     |-> timestamp + Rank(z, s) + 1]

(* The plan lists the entries of the live slots, each exactly once.        *)
LEMMA PlanLists ==
    ASSUME NEW z \in Zones, NEW dest, MapTypes(z)
    PROVE  LET p == Plan(z, dest)
               n == Cardinality(LiveSlots(z))
           IN  /\ Len(p) = n /\ DOMAIN p = 1 .. n
               /\ {p[i] : i \in DOMAIN p} = {Entry(z, dest, s) : s \in LiveSlots(z)}
<1> DEFINE L == LiveSlots(z)
           p == Plan(z, dest)
           n == Cardinality(L)
           key(s) == zone_status[z].z_key_map[s]
           kf == [s \in L |-> key(s)]
           lower(s) == Cardinality({t \in L : key(t) < key(s)})
           place(s) == lower(s) + 1
           pf == [s \in L |-> place(s)]
           slot(i) == CHOOSE s \in L : place(s) = i
<1>1. IsFiniteSet(L) /\ n \in Nat
    BY LiveSlotsAre, Sizes
<1>2. \A s \in L : kf[s] = key(s) /\ kf[s] \in Int
    <2>1. \A s \in L : key(s) \in Keys
        BY LiveSlotsAre, Zenon
    <2>2. Keys \subseteq Int
        BY KeysAssumption
    <2> HIDE DEF L, key
    <2> QED BY <2>1, <2>2, Zenon
<1>3. \A s, t \in L : kf[s] = kf[t] => s = t
    BY LiveSlotsAre, Zenon
<1>4. /\ \A s \in L : lower(s) \in 0 .. n - 1
      /\ \A s, t \in L : lower(s) = lower(t) => s = t
    <2> HIDE DEF L, kf
    <2>1. /\ \A s \in L : Cardinality({t \in L : kf[t] < kf[s]}) \in 0 .. n - 1
          /\ \A s, t \in L : Cardinality({u \in L : kf[u] < kf[s]}) = Cardinality({u \in L : kf[u] < kf[t]})
                                => s = t
        BY <1>1, <1>2, <1>3, RankDistinct
    <2>2. \A s \in L : {t \in L : kf[t] < kf[s]} = {t \in L : key(t) < key(s)}
        BY <1>2, Zenon
    <2>3. \A s \in L : Cardinality({t \in L : kf[t] < kf[s]}) = lower(s)
        BY <2>2, Zenon
    <2> HIDE DEF lower
    <2> QED BY <2>1, <2>3, Zenon
<1>5. pf \in [L -> 1 .. n] /\ \A s, t \in L : pf[s] = pf[t] => s = t
    <2> HIDE DEF L, lower
    <2> QED BY <1>1, <1>4
<1>6. \A i \in 1 .. n : \E s \in L : place(s) = i
    <2>1. \A s \in L : pf[s] = place(s)
        BY Zenon
    <2> HIDE DEF L, place, pf
    <2>2. \A i \in 1 .. n : \E s \in L : pf[s] = i
        BY <1>1, <1>5, PlacesFilled
    <2> QED BY <2>1, <2>2
<1>7. p = [i \in 1 .. n |-> Entry(z, dest, slot(i))]
    BY Zenon DEF Plan, Entry, Rank
<1>8. \A i \in 1 .. n : slot(i) \in L /\ place(slot(i)) = i
    <2> HIDE DEF L, place
    <2> QED BY <1>6
<1>9. \A s \in L : place(s) \in 1 .. n /\ slot(place(s)) = s
    <2>1. \A s \in L : pf[s] = place(s)
        OBVIOUS
    <2> HIDE DEF L, place, pf, slot
    <2> QED BY <1>5, <1>8, <2>1
<1> HIDE DEF L, p, n, key, kf, lower, place, pf, slot
<1>10. DOMAIN p = 1 .. n /\ \A i \in 1 .. n : p[i] = Entry(z, dest, slot(i))
    BY <1>7
<1>11. Len(p) = n
    <2> DEFINE E == {p[i] : i \in 1 .. n}
    <2>1. p \in [1 .. n -> E]
        BY <1>7
    <2>2. p \in Seq(E)
        BY <1>1, <2>1
    <2> HIDE DEF E
    <2> QED BY <1>1, <1>10, <2>2
<1>12. {p[i] : i \in DOMAIN p} = {Entry(z, dest, s) : s \in L}
    BY <1>8, <1>9, <1>10
<1> QED BY <1>10, <1>11, <1>12, Zenon DEF p, n, L

(* Ranks are slots of the destination, one each.                           *)
LEMMA RanksAre ==
    ASSUME NEW z \in Zones, MapTypes(z)
    PROVE  /\ \A s \in LiveSlots(z) : Rank(z, s) \in 0 .. Cardinality(LiveSlots(z)) - 1
                                      /\ Rank(z, s) \in Slots
           /\ \A s, t \in LiveSlots(z) : Rank(z, s) = Rank(z, t) => s = t
<1> DEFINE L == LiveSlots(z)
           f == [s \in L |-> s]
<1>1. IsFiniteSet(L) /\ Cardinality(L) \in 0 .. TotalItems
    BY LiveSlotsAre, Zenon
<1>2. \A s \in L : f[s] = s /\ f[s] \in Int
    BY LiveSlotsAre
<1>3. \A s \in L : Rank(z, s) = Cardinality({t \in L : f[t] < f[s]})
    <2> SUFFICES ASSUME NEW s \in L
                 PROVE  {t \in L : t < s} = {t \in L : f[t] < f[s]}
        BY Zenon DEF Rank
    <2> HIDE DEF f, L
    <2> QED BY <1>2
<1> HIDE DEF f
<1>4. /\ \A s \in L : Cardinality({t \in L : f[t] < f[s]}) \in 0 .. Cardinality(L) - 1
      /\ \A s, t \in L : Cardinality({u \in L : f[u] < f[s]}) = Cardinality({u \in L : f[u] < f[t]})
                            => s = t
    <2> HIDE DEF L
    <2> QED BY <1>1, <1>2, RankDistinct
<1>5. \A r \in 0 .. Cardinality(L) - 1 : r \in Slots
    <2> HIDE DEF L
    <2> QED BY <1>1, Sizes DEF Slots
<1> QED BY <1>3, <1>4, <1>5, Zenon

(* A plan from src to dest: its entries move blocks of src to distinct     *)
(* slots at the start of dest, for distinct keys.                          *)
PlanSound(p, src, dest) ==
    LET E == {p[i] : i \in DOMAIN p}
    IN  /\ Len(p) \in 0 .. TotalItems
        /\ \A e \in E :
              /\ e.key \in Keys
              /\ e.source \in Pbas /\ ZoneOf(e.source) = src
              /\ e.pba \in Pbas /\ ZoneOf(e.pba) = dest
              /\ AppendSlot(dest, e.pba) < Len(p)
        /\ \A d, e \in E : (d.key = e.key \/ d.pba = e.pba) => d = e

(* The plan has an entry for every key that is mapped into src.            *)
PlanCovers(p, src) ==
    \A k \in Keys : Holds(k) /\ OldZone(k) = src =>
        \E e \in {p[i] : i \in DOMAIN p} : e.key = k /\ e.source = z_pba_map[k]

(* A key mapped into a zone has a live slot there.                         *)
LEMMA MappedIsLive ==
    ASSUME NEW z \in Zones, MapTypes(z), MapsAgree, NEW k \in Keys, Holds(k), OldZone(k) = z
    PROVE  \E s \in LiveSlots(z) : zone_status[z].z_key_map[s] = k /\ AppendPba(z, s) = z_pba_map[k]
<1> DEFINE s == AppendSlot(z, z_pba_map[k])
<1>1. z_pba_map[k] \in Pbas /\ ZoneOf(z_pba_map[k]) = z
    BY Zenon DEF MapTypes, Holds, OldZone
<1>2. s \in Slots /\ AppendPba(z, s) = z_pba_map[k]
    BY <1>1, BlockHasSlot
<1>3. s < zone_status[z].z_map_size /\ zone_status[z].z_key_map[s] = k
    BY Zenon DEF MapsAgree
<1>4. k # NoKey
    BY KeysAssumption DEF NoKey
<1> HIDE DEF s
<1>5. s \in 0 .. zone_status[z].z_map_size - 1
    BY <1>2, <1>3 DEF Slots, MapTypes
<1>6. s \in LiveSlots(z)
    BY <1>2, <1>3, <1>4, <1>5, Zenon DEF LiveSlots
<1> QED BY <1>2, <1>3, <1>6, Zenon

(* The plan of a collection is sound and covers its source.                *)
LEMMA PlanMade ==
    ASSUME NEW z \in Zones, NEW dest \in Zones, MapTypes(z), MapsAgree
    PROVE  PlanSound(Plan(z, dest), z, dest) /\ PlanCovers(Plan(z, dest), z)
<1> DEFINE p == Plan(z, dest)
           L == LiveSlots(z)
           E == {p[i] : i \in DOMAIN p}
<1>1. Len(p) = Cardinality(L) /\ E = {Entry(z, dest, s) : s \in L}
    BY PlanLists, Zenon
<1>2. Cardinality(L) \in 0 .. TotalItems
    BY LiveSlotsAre, Zenon
<1>3. ASSUME NEW s \in L
      PROVE  LET e == Entry(z, dest, s)
             IN  /\ e.key = zone_status[z].z_key_map[s] /\ e.key \in Keys
                 /\ e.source = AppendPba(z, s) /\ e.source \in Pbas /\ ZoneOf(e.source) = z
                 /\ e.pba \in Pbas /\ ZoneOf(e.pba) = dest
                 /\ AppendSlot(dest, e.pba) = Rank(z, s) /\ Rank(z, s) < Cardinality(L)
    <2>1. s \in Slots /\ zone_status[z].z_key_map[s] \in Keys
        BY LiveSlotsAre, Zenon
    <2>2. Rank(z, s) \in Slots /\ Rank(z, s) < Cardinality(L)
        BY <1>2, RanksAre
    <2>3. AppendPba(z, s) \in Pbas /\ ZoneOf(AppendPba(z, s)) = z
        BY <2>1, SlotOfBlock, Zenon
    <2>4. /\ AppendPba(dest, Rank(z, s)) \in Pbas
          /\ ZoneOf(AppendPba(dest, Rank(z, s))) = dest
          /\ AppendSlot(dest, AppendPba(dest, Rank(z, s))) = Rank(z, s)
        BY <2>2, SlotOfBlock, Zenon
    <2> QED BY <2>1, <2>2, <2>3, <2>4, Zenon DEF Entry
<1>4. ASSUME NEW s \in L, NEW t \in L,
             \/ Entry(z, dest, s).key = Entry(z, dest, t).key
             \/ Entry(z, dest, s).pba = Entry(z, dest, t).pba
      PROVE  s = t
    <2>1. CASE Entry(z, dest, s).key = Entry(z, dest, t).key
        BY <1>3, <2>1, LiveSlotsAre
    <2>2. CASE Entry(z, dest, s).pba = Entry(z, dest, t).pba
        BY <1>3, <2>2, RanksAre
    <2> QED BY <1>4, <2>1, <2>2, Zenon
<1> HIDE DEF p, L
<1>5. PlanSound(p, z, dest)
    <2>1. \A e \in E :
              /\ e.key \in Keys
              /\ e.source \in Pbas /\ ZoneOf(e.source) = z
              /\ e.pba \in Pbas /\ ZoneOf(e.pba) = dest
              /\ AppendSlot(dest, e.pba) < Len(p)
        BY <1>1, <1>3, Zenon
    <2>2. \A d, e \in E : (d.key = e.key \/ d.pba = e.pba) => d = e
        BY <1>1, <1>4, Zenon
    <2> QED BY <1>1, <1>2, <2>1, <2>2, Zenon DEF PlanSound
<1>6. PlanCovers(p, z)
    <2> SUFFICES ASSUME NEW k \in Keys, Holds(k), OldZone(k) = z
                 PROVE  \E e \in E : e.key = k /\ e.source = z_pba_map[k]
        BY Zenon DEF PlanCovers
    <2>1. PICK s \in L : zone_status[z].z_key_map[s] = k /\ AppendPba(z, s) = z_pba_map[k]
        BY MappedIsLive, Zenon DEF L
    <2>2. Entry(z, dest, s).key = k /\ Entry(z, dest, s).source = z_pba_map[k]
        BY <1>3, <2>1, Zenon
    <2> QED BY <1>1, <2>2, Zenon
<1> QED BY <1>5, <1>6 DEF p
-----------------------------------------------------------------------------
(* The inductive invariant.                                                *)

Conds == {"EMPTY", "OPEN", "CLOSED", "FULL"}

ZoneRecords ==
    [z_conds : Conds, z_map_size : 0 .. TotalItems, z_live_count : Nat, z_generation : Nat,
     z_key_map : [Slots -> Keys \cup {NoKey}]]

Tables == [Zones -> ZoneRecords]

(* The zone table and the allocator.                                       *)
ZoneTypes ==
    /\ zone_status \in Tables
    /\ z_pba_map \in [Keys -> Pbas \cup {Unmapped}]
    /\ active_zone \in Zones \cup {None}
    /\ next_generation \in Nat

(* The registers of the collector; the work item only runs for a zone.     *)
QueueTypes ==
    /\ free_cursor \in Zones
    /\ candidate \in [zone : Zones \cup {None}, dest : Zones \cup {None}]
    /\ auto \in [run : BOOLEAN, pending : Zones \cup {None}, running : BOOLEAN]
    /\ worker \in [pc : {"idle", "run", "done"}, zone : Zones \cup {None},
                   ret : {"OK", "EBUSY", "EINVAL", "ENOSPC", "EUCLEAN", "EIO"}]
    /\ worker.pc = "run" => worker.zone \in Zones

(* An open zone can take another block.                                    *)
OpenHasRoom == \A z \in Zones : zone_status[z].z_conds = "OPEN" => zone_status[z].z_map_size < TotalItems

(* The copy in progress is the one the collector runs: between two         *)
(* different zones, neither of them being appended to, with an empty       *)
(* destination and a plan that is sound and covers the source.             *)
CopyInv ==
    IF gc.by = "none" THEN copy = NoCopy
    ELSE /\ copy.source \in Zones /\ copy.dest \in Zones /\ copy.source # copy.dest
         /\ active_zone \notin {copy.source, copy.dest}
         /\ zone_status[copy.dest].z_map_size = 0 /\ zone_status[copy.dest].z_live_count = 0
         /\ PlanSound(gc.plan, copy.source, copy.dest)
         /\ PlanCovers(gc.plan, copy.source)

(* The registers of imr_lsm_compact_zone.                                  *)
GCShape == gc = [by |-> gc.by, plan |-> gc.plan, next |-> gc.next]

(* An append in flight has its slot below the append pointer.              *)
BelowPointer(w) ==
    /\ w.pba \in Pbas
    /\ AppendSlot(ZoneOf(w.pba), w.pba) < zone_status[ZoneOf(w.pba)].z_map_size

FlightInv == \A w \in inflight : BelowPointer(w)

IInv ==
    /\ ZoneTypes /\ QueueTypes
    /\ MapsAgree /\ LiveCountExact
    /\ OneOpenZone /\ OpenHasRoom
    /\ GCReserve /\ CopyInv /\ GCShape
    /\ AppendsDisjoint /\ FlightInv

-----------------------------------------------------------------------------
(* Consequences.                                                           *)

(* The keys mapped into a zone.                                            *)
KeysIn(z) == {k \in Keys : Holds(k) /\ OldZone(k) = z}

(* There are finitely many keys.                                           *)
LEMMA KeysFinite == IsFiniteSet(Keys)
<1>1. NumZones * TotalItems \in Nat
    BY Sizes, Products
<1>2. IsFiniteSet(0 .. NumZones * TotalItems - 1)
    BY <1>1, IntervalCount
<1> QED BY <1>2, KeysAssumption, FS_Subset, ZenonT(30)

(* So finitely many of them are in any one zone.                           *)
LEMMA KeysInFinite ==
    ASSUME NEW z
    PROVE  IsFiniteSet(KeysIn(z)) /\ Cardinality(KeysIn(z)) \in Nat
<1>1. KeysIn(z) \in SUBSET Keys
    BY DEF KeysIn
<1> QED BY <1>1, KeysFinite, FS_Subset, FS_CardinalityType

(* None is not the number of a zone.                                       *)
LEMMA NoneIsNoZone == None \notin Zones /\ -1 \notin Keys /\ -1 \notin Pbas
BY Sizes, KeysAssumption DEF None, Zones, Pbas

(* A key that is mapped is mapped to a block of a zone.                    *)
LEMMA MappedWhere ==
    ASSUME ZoneTypes, NEW k \in Keys, Holds(k)
    PROVE  /\ z_pba_map[k] \in Pbas /\ OldZone(k) \in Zones
           /\ AppendSlot(OldZone(k), z_pba_map[k]) \in Slots
<1>1. z_pba_map[k] \in Pbas
    BY DEF ZoneTypes, Holds
<1> QED BY <1>1, BlockHasSlot DEF OldZone

(* A mapped key is counted live in its zone: no write or discard meets a   *)
(* zone with nothing live (-EUCLEAN).                                      *)
LEMMA NeverUnclean ==
    ASSUME ZoneTypes, LiveCountExact, NEW k \in Keys, Holds(k)
    PROVE  zone_status[OldZone(k)].z_live_count >= 1 /\ ~Unclean(k)
<1> DEFINE z == OldZone(k)
<1>1. z \in Zones
    BY MappedWhere
<1>2. k \in KeysIn(z)
    BY DEF KeysIn
<1>3. zone_status[z].z_live_count = Cardinality(KeysIn(z))
    BY <1>1 DEF LiveCountExact, KeysIn
<1> HIDE DEF z
<1>4. Cardinality(KeysIn(z)) # 0
    BY <1>2, KeysInFinite, FS_EmptySet
<1>5. zone_status[z].z_live_count >= 1
    BY <1>3, <1>4, KeysInFinite
<1> QED BY <1>5 DEF z, Unclean

(* The fields of a zone in well-typed zone tables.                         *)
LEMMA TablesAre ==
    ASSUME NEW zs \in Tables, NEW z \in Zones
    PROVE  /\ zs[z].z_map_size \in 0 .. TotalItems /\ zs[z].z_map_size \in Nat
           /\ zs[z].z_live_count \in Nat
           /\ zs[z].z_generation \in Nat /\ zs[z].z_conds \in Conds
           /\ zs[z].z_key_map \in [Slots -> Keys \cup {NoKey}]
BY Sizes DEF Tables, ZoneRecords

(* So their counters can be compared and added to.                         *)
LEMMA TablesCounted ==
    ASSUME NEW zs \in Tables
    PROVE  Counted(zs)
BY TablesAre, Zenon DEF Counted

-----------------------------------------------------------------------------
(* The initial state.                                                      *)

(* The invariant holds when the target is created.                         *)
LEMMA InitIInv == Init => IInv
<1> SUFFICES ASSUME Init PROVE IInv
    BY Zenon
<1>1. /\ zone_status = [z \in Zones |-> EmptyZone] /\ z_pba_map = [k \in Keys |-> Unmapped]
      /\ active_zone = None /\ free_cursor = 0 /\ next_generation = 1 /\ copy = NoCopy
      /\ candidate = NoCandidate /\ auto = [run |-> TRUE, pending |-> None, running |-> FALSE]
      /\ worker = NoWork /\ gc = NoGC /\ inflight = {}
    BY Zenon DEF Init
<1>2. EmptyZone \in ZoneRecords
    BY Sizes DEF EmptyZone, Conds, ZoneRecords
<1>3. ZoneTypes
    BY <1>1, <1>2, Zenon DEF ZoneTypes, Tables
<1>4. QueueTypes
    BY <1>1, Sizes DEF QueueTypes, NoCandidate, NoWork, Zones
<1>5. \A k \in Keys : ~Holds(k)
    BY <1>1, Zenon DEF Holds
<1>6. MapsAgree
    BY <1>5, Zenon DEF MapsAgree
<1>7. \A z \in Zones : zone_status[z].z_conds = "EMPTY" /\ zone_status[z].z_map_size = 0
                       /\ zone_status[z].z_live_count = 0
    BY <1>1, Zenon DEF EmptyZone
<1>8. LiveCountExact
    <2> SUFFICES ASSUME NEW z \in Zones
                 PROVE  zone_status[z].z_live_count = Cardinality({k \in Keys : Holds(k) /\ OldZone(k) = z})
        BY DEF LiveCountExact
    <2>1. {k \in Keys : Holds(k) /\ OldZone(k) = z} = {}
        BY <1>5
    <2> QED BY <1>7, <2>1, FS_EmptySet, Zenon
<1>9. OneOpenZone /\ OpenHasRoom
    BY <1>1, <1>7, NoneIsNoZone, Zenon DEF OneOpenZone, OpenHasRoom
<1>10. GCReserve
    <2>1. 0 \in Free(zone_status, active_zone, copy)
        BY <1>1, <1>7, Sizes DEF Free, NoCopy, None, Zones
    <2> QED BY <2>1 DEF GCReserve
<1>11. CopyInv /\ GCShape
    BY <1>1, Zenon DEF CopyInv, NoGC, GCShape
<1>12. AppendsDisjoint /\ FlightInv
    BY <1>1, Zenon DEF AppendsDisjoint, FlightInv
<1> QED BY <1>3, <1>4, <1>6, <1>8, <1>9, <1>10, <1>11, <1>12 DEF IInv

-----------------------------------------------------------------------------
(* Remapping one key.                                                      *)

(* The keys of a zone after a key is mapped to p: it joins the zone of p   *)
(* and leaves every other.                                                 *)
LEMMA RemapKeys ==
    ASSUME ZoneTypes, NEW key \in Keys, NEW p \in Pbas \cup {Unmapped},
           z_pba_map' = [z_pba_map EXCEPT ![key] = p], NEW y \in Zones
    PROVE  /\ KeysIn(y)' = IF p # Unmapped /\ ZoneOf(p) = y THEN KeysIn(y) \cup {key}
                           ELSE KeysIn(y) \ {key}
           /\ Cardinality(KeysIn(y)') =
                 Cardinality(KeysIn(y)) + (IF p # Unmapped /\ ZoneOf(p) = y THEN 1 ELSE 0)
                                        - (IF Holds(key) /\ OldZone(key) = y THEN 1 ELSE 0)
<1>1. \A k \in Keys : z_pba_map'[k] = IF k = key THEN p ELSE z_pba_map[k]
    BY Zenon DEF ZoneTypes
<1>2. key \in KeysIn(y) <=> Holds(key) /\ OldZone(key) = y
    BY DEF KeysIn
<1>3. \A k \in Keys : k \in KeysIn(y)' <=> IF k = key THEN p # Unmapped /\ ZoneOf(p) = y
                                           ELSE k \in KeysIn(y)
    BY <1>1, Zenon DEF KeysIn, Holds, OldZone
<1>4. KeysIn(y) \subseteq Keys /\ KeysIn(y)' \subseteq Keys
    BY DEF KeysIn
<1>5. KeysIn(y)' = IF p # Unmapped /\ ZoneOf(p) = y THEN KeysIn(y) \cup {key}
                   ELSE KeysIn(y) \ {key}
    BY <1>3, <1>4, Zenon
<1>6. IsFiniteSet(KeysIn(y)) /\ Cardinality(KeysIn(y)) \in Nat
    BY KeysInFinite
<1>7. CASE p # Unmapped /\ ZoneOf(p) = y
    <2>1. Cardinality(KeysIn(y)') = IF key \in KeysIn(y) THEN Cardinality(KeysIn(y))
                                    ELSE Cardinality(KeysIn(y)) + 1
        BY <1>5, <1>6, <1>7, FS_AddElement, Zenon
    <2> QED BY <1>2, <1>5, <1>6, <1>7, <2>1
<1>8. CASE ~(p # Unmapped /\ ZoneOf(p) = y)
    <2>1. Cardinality(KeysIn(y)') = IF key \in KeysIn(y) THEN Cardinality(KeysIn(y)) - 1
                                    ELSE Cardinality(KeysIn(y))
        BY <1>5, <1>6, <1>8, FS_RemoveElement, ZenonT(30)
    <2> QED BY <1>2, <1>5, <1>6, <1>8, <2>1
<1> QED BY <1>7, <1>8, Zenon

-----------------------------------------------------------------------------
(* Activating a zone.                                                      *)

(* Without a usable zone none is open.                                     *)
LEMMA UnusableIsNone ==
    ASSUME ZoneTypes, OneOpenZone, OpenHasRoom, ~Usable
    PROVE  active_zone = None
<1> SUFFICES ASSUME active_zone # None PROVE FALSE
    OBVIOUS
<1>1. active_zone \in Zones
    BY Zenon DEF ZoneTypes
<1>2. zone_status[active_zone].z_conds = "OPEN"
    BY <1>1, Zenon DEF OneOpenZone
<1>3. zone_status[active_zone].z_map_size < TotalItems
    BY <1>1, <1>2, Zenon DEF OpenHasRoom
<1> QED BY <1>2, <1>3, Zenon DEF Usable

(* A zone that can still be collected into.                                *)
Spare(zs, x) == x \in Zones \ {copy.source, copy.dest} /\ zs[x].z_map_size = 0 /\ zs[x].z_live_count = 0

(* The activated zone: it has room, it is not being copied, no other zone  *)
(* is open, and a spare zone is left unless a copy holds the reserve.      *)
LEMMA ActivatedIs ==
    ASSUME IInv, ActivatedZone # None
    PROVE  LET z == ActivatedZone
           IN  /\ z \in Zones /\ z \notin {copy.source, copy.dest}
               /\ zone_status[z].z_map_size < TotalItems
               /\ \A y \in Zones \ {z} : zone_status[y].z_conds # "OPEN"
               /\ copy.dest # None \/ \E x \in Zones \ {z} : Spare(zone_status, x)
               /\ ActivatedCursor \in Zones /\ ActivatedGeneration \in Nat
<1> DEFINE z == ActivatedZone
<1> USE DEF IInv
<1>1. CASE Usable
    <2>1. z = active_zone /\ ActivatedCursor = free_cursor /\ ActivatedGeneration = next_generation
        BY <1>1 DEF ActivatedZone, ActivatedCursor, ActivatedGeneration
    <2>2. z \in Zones /\ zone_status[z].z_map_size < TotalItems
        BY <1>1, <2>1, Zenon DEF Usable, ZoneTypes
    <2>3. z \notin {copy.source, copy.dest}
        BY <2>1, <2>2, NoneIsNoZone DEF CopyInv, NoCopy
    <2>4. \A y \in Zones \ {z} : zone_status[y].z_conds # "OPEN"
        BY <2>1, Zenon DEF OneOpenZone
    <2>5. copy.dest # None \/ \E x \in Zones \ {z} : Spare(zone_status, x)
        BY <2>1, Zenon DEF GCReserve, Free, Spare
    <2> QED BY <2>1, <2>2, <2>3, <2>4, <2>5, Zenon DEF ZoneTypes, QueueTypes
<1>2. CASE ~Usable
    <2> DEFINE free == Free(zone_status, None, copy)
               S    == free \ {candidate.dest}
    <2>1. active_zone = None
        BY <1>2, UnusableIsNone
    <2>2. z = ForegroundFree
        BY <1>2 DEF ActivatedZone
    <2>3. ~(Cardinality(free) < 2) /\ z = FirstFrom(S, free_cursor)
        BY <2>2 DEF ForegroundFree
    <2>4. free \in SUBSET Zones /\ S \in SUBSET Zones
        BY Zenon DEF Free
    <2>5. z \in S
        <3> HIDE DEF S, z
        <3>1. free_cursor \in Zones
            BY Zenon DEF QueueTypes
        <3>2. z # None
            BY DEF z
        <3> QED BY <2>3, <2>4, <3>1, <3>2, FirstFromFinds, Zenon
    <2>6. z \in free /\ z \in Zones
        BY <2>4, <2>5, Zenon
    <2>7. z \notin {copy.source, copy.dest} /\ zone_status[z].z_map_size = 0
        BY <2>6, Zenon DEF Free
    <2>8. \A y \in Zones : zone_status[y].z_conds # "OPEN"
        BY <2>1, NoneIsNoZone, Zenon DEF OneOpenZone
    <2>9. \E x \in free : x # z
        <3> SUFFICES ASSUME free = {z} PROVE FALSE
            <4> HIDE DEF free, z
            <4> QED BY <2>6
        <3>1. Cardinality(free) = 1
            <4> HIDE DEF free, z
            <4> QED BY FS_Singleton, Zenon
        <3> QED BY <2>3, <3>1
    <2>10. PICK x \in free : x # z
        BY <2>9
    <2>11. x \in Zones \ {z} /\ Spare(zone_status, x)
        BY <2>10, Zenon DEF Free, Spare
    <2>12. ActivatedCursor \in Zones /\ ActivatedGeneration \in Nat
        BY <1>2, <2>6, CursorAfterZone
           DEF ActivatedCursor, ActivatedGeneration, ZoneTypes, QueueTypes
    <2> HIDE DEF z
    <2> QED BY <2>6, <2>7, <2>8, <2>11, <2>12, Sizes DEF z
<1> QED BY <1>1, <1>2, Zenon

(* The zone table after the activation: only z changes, to OPEN with a     *)
(* generation.                                                             *)
LEMMA ActivatedTable ==
    ASSUME IInv, ActivatedZone # None
    PROVE  LET z == ActivatedZone
           IN  /\ Activated \in Tables
               /\ Activated[z].z_conds = "OPEN"
               /\ \A y \in Zones : /\ y # z => Activated[y] = zone_status[y]
                                   /\ Activated[y].z_map_size = zone_status[y].z_map_size
                                   /\ Activated[y].z_live_count = zone_status[y].z_live_count
                                   /\ Activated[y].z_key_map = zone_status[y].z_key_map
<1> DEFINE z == ActivatedZone
<1>1. z \in Zones /\ zone_status \in Tables /\ next_generation \in Nat
    BY ActivatedIs, Zenon DEF IInv, ZoneTypes
<1>2. CASE Usable
    <2>1. Activated = zone_status /\ z = active_zone
        BY <1>2 DEF Activated, ActivatedZone
    <2>2. zone_status[active_zone].z_conds = "OPEN"
        BY <1>2, Zenon DEF Usable
    <2> QED BY <1>1, <2>1, <2>2, Zenon
<1>3. CASE ~Usable
    <2>1. Activated = [zone_status EXCEPT ![z].z_conds = "OPEN", ![z].z_generation = next_generation]
        BY <1>3 DEF Activated
    <2> HIDE DEF z
    <2> QED BY <1>1, <2>1, ZenonT(30) DEF Tables, ZoneRecords, Conds, z
<1> QED BY <1>2, <1>3, Zenon

-----------------------------------------------------------------------------
(* The registers of the collector.                                         *)

AutoRecord == [run : BOOLEAN, pending : Zones \cup {None}, running : BOOLEAN]

(* Recording and deferring keep the pending zone a zone or none.           *)
LEMMA DeferredTypes ==
    ASSUME NEW a \in AutoRecord, NEW c \in [zone : Zones \cup {None}, dest : Zones \cup {None}]
    PROVE  Deferred(a, c) \in AutoRecord /\ Recorded(a, c) \in AutoRecord
BY DEF AutoRecord, Deferred, Recorded

(* The end of a handler that changes the zone table.                       *)
LEMMA RecordTypes ==
    ASSUME QueueTypes, NEW zs \in Tables, NEW act, NEW cur \in Zones,
           RecordAndDefer(zs, act, cur), UNCHANGED worker
    PROVE  QueueTypes'
<1>1. /\ candidate' \in [zone : Zones \cup {None}, dest : Zones \cup {None}]
      /\ free_cursor' \in Zones
    BY TablesCounted, CandidateZones, Zenon DEF RecordAndDefer
<1>2. auto \in AutoRecord
    BY DEF QueueTypes, AutoRecord
<1>3. auto' \in AutoRecord
    BY <1>1, <1>2, DeferredTypes, Zenon DEF RecordAndDefer
<1> QED BY <1>1, <1>3, Zenon DEF QueueTypes, AutoRecord

-----------------------------------------------------------------------------
(* Writes and discards.                                                    *)

(* The zone table after an append to z in place of the old block.          *)
LEMMA WriteTable ==
    ASSUME IInv, ActivatedZone # None, NEW key \in Keys
    PROVE  LET z  == ActivatedZone
               n  == zone_status[z].z_map_size
               zs == Dropped(Appended(Activated, z, key), key)
           IN  /\ zs \in Tables
               /\ \A y \in Zones :
                     /\ zs[y].z_map_size = IF y = z THEN n + 1 ELSE zone_status[y].z_map_size
                     /\ zs[y].z_key_map = IF y = z THEN [zone_status[z].z_key_map EXCEPT ![n] = key]
                                          ELSE zone_status[y].z_key_map
                     /\ zs[y].z_live_count = zone_status[y].z_live_count + (IF y = z THEN 1 ELSE 0)
                                             - (IF Holds(key) /\ OldZone(key) = y THEN 1 ELSE 0)
                     /\ zs[y].z_conds = IF y # z THEN zone_status[y].z_conds
                                        ELSE IF n + 1 = TotalItems THEN "FULL" ELSE "OPEN"
<1> DEFINE z  == ActivatedZone
           n  == zone_status[z].z_map_size
           as == Appended(Activated, z, key)
           zs == Dropped(as, key)
<1>1. z \in Zones /\ n < TotalItems
    BY ActivatedIs, Zenon
<1>2. zone_status \in Tables /\ ZoneTypes /\ LiveCountExact
    BY DEF IInv, ZoneTypes
<1>3. /\ Activated \in Tables
      /\ \A y \in Zones : /\ y # z => Activated[y] = zone_status[y]
                          /\ Activated[y].z_map_size = zone_status[y].z_map_size
                          /\ Activated[y].z_live_count = zone_status[y].z_live_count
                          /\ Activated[y].z_key_map = zone_status[y].z_key_map
    BY ActivatedTable, Zenon
<1> HIDE DEF z
<1>4. n \in Nat /\ n \in Slots /\ n + 1 \in 0 .. TotalItems
    BY <1>1, <1>2, TablesAre, Sizes DEF Slots
<1>5. Activated[z].z_map_size = n
    BY <1>1, <1>3, Zenon
<1>6. as = [Activated EXCEPT ![z].z_key_map[n] = key, ![z].z_map_size = n + 1,
                             ![z].z_live_count = @ + 1,
                             ![z].z_conds = IF n + 1 = TotalItems THEN "FULL" ELSE "OPEN"]
    BY <1>5 DEF Appended
<1> HIDE DEF n, as
<1>7. /\ as \in Tables
      /\ \A y \in Zones : y # z => as[y] = Activated[y]
      /\ as[z].z_map_size = n + 1
      /\ as[z].z_key_map = [Activated[z].z_key_map EXCEPT ![n] = key]
      /\ as[z].z_live_count = Activated[z].z_live_count + 1
      /\ as[z].z_conds = IF n + 1 = TotalItems THEN "FULL" ELSE "OPEN"
    <2> DEFINE c == IF n + 1 = TotalItems THEN "FULL" ELSE "OPEN"
               a == Activated[z]
               m == [a.z_key_map EXCEPT ![n] = key]
               r == [a EXCEPT !.z_key_map = m, !.z_map_size = n + 1,
                              !.z_live_count = a.z_live_count + 1, !.z_conds = c]
    <2>1. a \in ZoneRecords
        BY <1>1, <1>3 DEF Tables
    <2>2. /\ r \in ZoneRecords
          /\ r.z_map_size = n + 1 /\ r.z_key_map = m
          /\ r.z_live_count = a.z_live_count + 1 /\ r.z_conds = c
        <3>1. c \in Conds
            BY DEF Conds
        <3>2. m \in [Slots -> Keys \cup {NoKey}]
            BY <1>4, <2>1, Zenon DEF ZoneRecords
        <3>3. a.z_live_count + 1 \in Nat
            BY <2>1 DEF ZoneRecords
        <3> HIDE DEF a, c, m
        <3> QED BY <1>4, <2>1, <3>1, <3>2, <3>3, ZenonT(30) DEF ZoneRecords
    <2>3. as = [Activated EXCEPT ![z] = r]
        BY <1>1, <1>3, <1>6, ZenonT(30) DEF Tables
    <2> HIDE DEF r
    <2>4. as \in Tables /\ as[z] = r /\ \A y \in Zones : y # z => as[y] = Activated[y]
        BY <1>1, <1>3, <2>2, <2>3, ZenonT(30) DEF Tables
    <2> QED BY <2>2, <2>4, ZenonT(30)
<1>8. \A y \in Zones :
         /\ as[y].z_map_size = IF y = z THEN n + 1 ELSE zone_status[y].z_map_size
         /\ as[y].z_key_map = IF y = z THEN [zone_status[z].z_key_map EXCEPT ![n] = key]
                              ELSE zone_status[y].z_key_map
         /\ as[y].z_conds = IF y # z THEN zone_status[y].z_conds
                            ELSE IF n + 1 = TotalItems THEN "FULL" ELSE "OPEN"
    BY <1>1, <1>3, <1>7, ZenonT(30)
<1>8a. \A y \in Zones : /\ as[y].z_live_count \in Nat /\ zone_status[y].z_live_count \in Nat
                         /\ as[y].z_live_count = zone_status[y].z_live_count + (IF y = z THEN 1 ELSE 0)
    <2> SUFFICES ASSUME NEW y \in Zones
                 PROVE  /\ as[y].z_live_count \in Nat /\ zone_status[y].z_live_count \in Nat
                        /\ as[y].z_live_count = zone_status[y].z_live_count + (IF y = z THEN 1 ELSE 0)
        BY ZenonT(30)
    <2>1. as[y].z_live_count \in Nat /\ zone_status[y].z_live_count \in Nat
        BY <1>2, <1>7, TablesAre, ZenonT(30)
    <2>2. as[y].z_live_count = IF y = z THEN zone_status[y].z_live_count + 1
                               ELSE zone_status[y].z_live_count
        BY <1>1, <1>3, <1>7, ZenonT(30)
    <2> QED BY <2>1, <2>2
<1>9. CASE ~Holds(key)
    <2>1. zs = as
        BY <1>9 DEF Dropped
    <2>2. \A y \in Zones : zs[y].z_live_count = zone_status[y].z_live_count + (IF y = z THEN 1 ELSE 0)
                                             - (IF Holds(key) /\ OldZone(key) = y THEN 1 ELSE 0)
        <3> SUFFICES ASSUME NEW y \in Zones
                     PROVE  zs[y].z_live_count = zone_status[y].z_live_count + (IF y = z THEN 1 ELSE 0)
                                             - (IF Holds(key) /\ OldZone(key) = y THEN 1 ELSE 0)
            BY ZenonT(30)
        <3>1. /\ as[y].z_live_count \in Nat /\ zone_status[y].z_live_count \in Nat
              /\ as[y].z_live_count = zone_status[y].z_live_count + (IF y = z THEN 1 ELSE 0)
            BY <1>8a, ZenonT(30)
        <3>2. zs[y].z_live_count = as[y].z_live_count
            BY <2>1, Zenon
        <3>3. CASE y = z
            BY <1>9, <3>1, <3>2, <3>3, SMTT(30)
        <3>4. CASE y # z
            BY <1>9, <3>1, <3>2, <3>4, SMTT(30)
        <3> QED BY <3>3, <3>4, Zenon
    <2> QED BY <1>7, <1>8, <2>1, <2>2, Zenon DEF z, n, as
<1>10. CASE Holds(key)
    <2> DEFINE o == OldZone(key)
    <2>1. o \in Zones /\ zone_status[o].z_live_count >= 1
        BY <1>2, <1>10, MappedWhere, NeverUnclean, Zenon
    <2>2. zs = [as EXCEPT ![o].z_live_count = @ - 1]
        BY <1>10 DEF Dropped
    <2> HIDE DEF o, zs
    <2>3. as[o].z_live_count - 1 \in Nat
        <3>1. /\ as[o].z_live_count \in Nat /\ zone_status[o].z_live_count \in Nat
              /\ as[o].z_live_count = zone_status[o].z_live_count + (IF o = z THEN 1 ELSE 0)
            BY <1>8a, <2>1, ZenonT(30)
        <3> QED BY <2>1, <3>1
    <2>4. /\ zs \in Tables
          /\ \A y \in Zones : /\ zs[y].z_map_size = as[y].z_map_size
                              /\ zs[y].z_key_map = as[y].z_key_map
                              /\ zs[y].z_conds = as[y].z_conds
                              /\ zs[y].z_live_count = IF y = o THEN as[y].z_live_count - 1
                                                      ELSE as[y].z_live_count
        BY <1>7, <2>1, <2>2, <2>3, ZenonT(30) DEF Tables, ZoneRecords
    <2>5. \A y \in Zones : zs[y].z_live_count = zone_status[y].z_live_count + (IF y = z THEN 1 ELSE 0)
                                             - (IF Holds(key) /\ OldZone(key) = y THEN 1 ELSE 0)
        <3> SUFFICES ASSUME NEW y \in Zones
                     PROVE  zs[y].z_live_count = zone_status[y].z_live_count + (IF y = z THEN 1 ELSE 0)
                                             - (IF Holds(key) /\ OldZone(key) = y THEN 1 ELSE 0)
            BY Zenon
        <3>1. (Holds(key) /\ OldZone(key) = y) <=> y = o
            BY <1>10 DEF o
        <3>2. zs[y].z_live_count = IF y = o THEN as[y].z_live_count - 1 ELSE as[y].z_live_count
            BY <2>4, ZenonT(30)
        <3>3. /\ as[y].z_live_count \in Nat /\ zone_status[y].z_live_count \in Nat
              /\ as[y].z_live_count = zone_status[y].z_live_count + (IF y = z THEN 1 ELSE 0)
            BY <1>8a, ZenonT(30)
        <3> QED BY <3>1, <3>2, <3>3
    <2> QED BY <1>8, <2>4, <2>5, Zenon DEF z, n, as, zs
<1> QED BY <1>9, <1>10, Zenon

(* A key that is mapped is not mapped into a spare zone or into the        *)
(* destination of the copy.                                                *)
LEMMA NotInEmpty ==
    ASSUME ZoneTypes, LiveCountExact, NEW y, zone_status[y].z_live_count = 0,
           NEW k \in Keys, Holds(k)
    PROVE  OldZone(k) # y
BY NeverUnclean

(* The reserve and the copy survive a step that changes neither the copy   *)
(* nor the zones it needs.                                                 *)
LEMMA ReserveKept ==
    ASSUME NEW z, copy.dest # None \/ \E x \in Zones \ {z} : Spare(zone_status, x),
           \A x \in Zones \ {z} : Spare(zone_status, x) =>
               zone_status'[x].z_map_size = 0 /\ zone_status'[x].z_live_count = 0,
           active_zone' \in {z, None}, UNCHANGED copy
    PROVE  GCReserve'
<1>1. CASE copy.dest # None
    BY <1>1, Zenon DEF GCReserve
<1>2. CASE \E x \in Zones \ {z} : Spare(zone_status, x)
    <2>1. PICK x \in Zones \ {z} : Spare(zone_status, x)
        BY <1>2, Zenon
    <2>2. x # active_zone'
        BY <2>1, NoneIsNoZone, Zenon
    <2>3. x \in Free(zone_status, active_zone, copy)'
        BY <2>1, <2>2, Zenon DEF Free, Spare
    <2> QED BY <2>3, Zenon DEF GCReserve
<1> QED BY <1>1, <1>2, Zenon

(* A write keeps the invariant: the block leaves its old slot and takes    *)
(* the next free one of the open zone.                                     *)
LEMMA WriteKeeps ==
    ASSUME IInv, NEW key \in Keys, Write(key)
    PROVE  IInv'
<1> DEFINE z   == ActivatedZone
           n   == zone_status[z].z_map_size
           pba == AppendPba(z, n)
           zs  == Dropped(Appended(Activated, z, key), key)
           act == IF zs[z].z_conds = "FULL" THEN None ELSE z
           w   == [key |-> key, pba |-> pba, version |-> writes']
<1>1. /\ z # None /\ zone_status' = zs /\ active_zone' = act /\ next_generation' = ActivatedGeneration
      /\ z_pba_map' = [z_pba_map EXCEPT ![key] = pba]
      /\ RecordAndDefer(zs, act, ActivatedCursor)
      /\ inflight' = inflight \cup {w}
      /\ UNCHANGED <<copy, gc, worker>>
    BY Zenon DEF Write
<1>2. /\ z \in Zones /\ z \notin {copy.source, copy.dest} /\ n < TotalItems
      /\ \A y \in Zones \ {z} : zone_status[y].z_conds # "OPEN"
      /\ copy.dest # None \/ \E x \in Zones \ {z} : Spare(zone_status, x)
      /\ ActivatedCursor \in Zones /\ ActivatedGeneration \in Nat
    BY <1>1, ActivatedIs, Zenon
<1>3. /\ zs \in Tables
      /\ \A y \in Zones :
            /\ zs[y].z_map_size = IF y = z THEN n + 1 ELSE zone_status[y].z_map_size
            /\ zs[y].z_key_map = IF y = z THEN [zone_status[z].z_key_map EXCEPT ![n] = key]
                                 ELSE zone_status[y].z_key_map
            /\ zs[y].z_live_count = zone_status[y].z_live_count + (IF y = z THEN 1 ELSE 0)
                                    - (IF Holds(key) /\ OldZone(key) = y THEN 1 ELSE 0)
            /\ zs[y].z_conds = IF y # z THEN zone_status[y].z_conds
                               ELSE IF n + 1 = TotalItems THEN "FULL" ELSE "OPEN"
    BY <1>1, WriteTable, Zenon
<1>4. ZoneTypes /\ QueueTypes /\ MapsAgree /\ LiveCountExact /\ OneOpenZone /\ OpenHasRoom
      /\ CopyInv /\ AppendsDisjoint /\ FlightInv /\ zone_status \in Tables
    BY DEF IInv, ZoneTypes
<1>5. QueueTypes'
    <2>1. zs \in Tables /\ ActivatedCursor \in Zones /\ QueueTypes /\ UNCHANGED worker
          /\ RecordAndDefer(zs, act, ActivatedCursor)
        BY <1>1, <1>2, <1>3, <1>4, ZenonT(30)
    <2> HIDE DEF zs, act
    <2> QED BY <2>1, RecordTypes
<1> HIDE DEF z, zs, act
<1>6. n \in Nat /\ n \in Slots
    <2>1. n \in Nat
        BY <1>2, <1>4, TablesAre, Zenon
    <2> HIDE DEF n
    <2> QED BY <1>2, <2>1, Sizes DEF Slots
<1> HIDE DEF n
<1>7. pba \in Pbas /\ ZoneOf(pba) = z /\ AppendSlot(z, pba) = n
    BY <1>2, <1>6, SlotOfBlock, Zenon
<1> HIDE DEF pba
<1>8. pba # Unmapped
    BY <1>7, NoneIsNoZone DEF Unmapped
<1>9. \A k \in Keys : z_pba_map'[k] = IF k = key THEN pba ELSE z_pba_map[k]
    BY <1>1, <1>4, Zenon DEF ZoneTypes
<1>10. ZoneTypes'
    <2>1. z_pba_map' \in [Keys -> Pbas \cup {Unmapped}]
        BY <1>1, <1>4, <1>7, Zenon DEF ZoneTypes
    <2>2. act \in Zones \cup {None}
        BY <1>2, Zenon DEF act
    <2> QED BY <1>1, <1>2, <1>3, <2>1, <2>2, Zenon DEF ZoneTypes
<1>11. MapsAgree'
    <2> SUFFICES ASSUME NEW k \in Keys, Holds(k)'
                 PROVE  LET y == OldZone(k)'
                            s == AppendSlot(y, z_pba_map'[k])
                        IN  s < zone_status'[y].z_map_size /\ zone_status'[y].z_key_map[s] = k
        BY Zenon DEF MapsAgree
    <2>1. CASE k = key
        <3>1. OldZone(k)' = z /\ AppendSlot(z, z_pba_map'[k]) = n
            BY <1>7, <1>9, <2>1, Zenon DEF OldZone
        <3>2. zs[z].z_map_size = n + 1 /\ zs[z].z_key_map = [zone_status[z].z_key_map EXCEPT ![n] = key]
            BY <1>2, <1>3, ZenonT(30)
        <3>3. zs[z].z_key_map[n] = key
            BY <1>2, <1>4, <1>6, <3>2, TablesAre, Zenon
        <3>4. n < n + 1
            BY <1>6 DEF Slots
        <3>5. zone_status'[z] = zs[z]
            BY <1>1, Zenon
        <3> QED BY <2>1, <3>1, <3>2, <3>3, <3>4, <3>5, ZenonT(30)
    <2>2. CASE k # key
        <3> DEFINE y == OldZone(k)
                   s == AppendSlot(y, z_pba_map[k])
        <3>1. z_pba_map'[k] = z_pba_map[k] /\ OldZone(k)' = y /\ Holds(k)
            BY <1>9, <2>2, Zenon DEF OldZone, Holds
        <3>2. y \in Zones /\ s \in Slots
            BY <1>4, <3>1, MappedWhere, Zenon
        <3>3. s < zone_status[y].z_map_size /\ zone_status[y].z_key_map[s] = k
            BY <1>4, <3>1, Zenon DEF MapsAgree
        <3> HIDE DEF y, s
        <3>4. zs[y].z_map_size = IF y = z THEN n + 1 ELSE zone_status[y].z_map_size
            BY <1>3, <3>2, Zenon
        <3>5. s < zs[y].z_map_size
            <4>1. s \in Nat
                BY <3>2, Sizes DEF Slots
            <4> QED BY <1>6, <3>3, <3>4, <4>1 DEF n
        <3>6. zs[y].z_key_map[s] = k
            <4>1. CASE y = z
                <5>1. s # n
                    BY <3>3, <4>1, <1>6 DEF n
                <5>2. zs[y].z_key_map = [zone_status[z].z_key_map EXCEPT ![n] = key]
                    BY <1>3, <3>2, <4>1, Zenon
                <5> QED BY <1>2, <1>4, <3>2, <3>3, <4>1, <5>1, <5>2, TablesAre, Zenon
            <4>2. CASE y # z
                BY <1>3, <3>2, <3>3, <4>2, Zenon
            <4> QED BY <4>1, <4>2, Zenon
        <3> QED BY <1>1, <3>1, <3>5, <3>6, Zenon DEF y, s
    <2> QED BY <2>1, <2>2, Zenon
<1>12. LiveCountExact'
    <2> SUFFICES ASSUME NEW y \in Zones
                 PROVE  zone_status'[y].z_live_count = Cardinality(KeysIn(y)')
        BY DEF LiveCountExact, KeysIn
    <2>1. zone_status[y].z_live_count = Cardinality(KeysIn(y))
        BY <1>4, Zenon DEF LiveCountExact, KeysIn
    <2>2. Cardinality(KeysIn(y)') =
             Cardinality(KeysIn(y)) + (IF pba # Unmapped /\ ZoneOf(pba) = y THEN 1 ELSE 0)
                                    - (IF Holds(key) /\ OldZone(key) = y THEN 1 ELSE 0)
        BY <1>1, <1>4, <1>7, RemapKeys, ZenonT(30)
    <2>3. (pba # Unmapped /\ ZoneOf(pba) = y) <=> y = z
        BY <1>7, <1>8
    <2>4. zs[y].z_live_count = zone_status[y].z_live_count + (IF y = z THEN 1 ELSE 0)
                               - (IF Holds(key) /\ OldZone(key) = y THEN 1 ELSE 0)
        BY <1>3, Zenon
    <2> QED BY <1>1, <2>1, <2>2, <2>3, <2>4, Zenon
<1>13. OneOpenZone' /\ OpenHasRoom'
    <2> SUFFICES ASSUME NEW y \in Zones
                 PROVE  /\ zs[y].z_conds = "OPEN" <=> y = act
                        /\ zs[y].z_conds = "OPEN" => zs[y].z_map_size < TotalItems
        BY <1>1, Zenon DEF OneOpenZone, OpenHasRoom
    <2>1. zs[z].z_conds = IF n + 1 = TotalItems THEN "FULL" ELSE "OPEN"
        BY <1>2, <1>3, Zenon
    <2>2. CASE y = z
        <3>1. zs[z].z_map_size = n + 1
            BY <1>2, <1>3, Zenon
        <3> QED BY <1>2, <1>6, <2>1, <2>2, <3>1, NoneIsNoZone, Sizes DEF act, n
    <2>3. CASE y # z
        <3>1. zs[y].z_conds # "OPEN"
            BY <1>2, <1>3, <2>3, Zenon
        <3> QED BY <2>3, <3>1, NoneIsNoZone, Zenon DEF act
    <2> QED BY <2>2, <2>3, Zenon
<1>14. \A x \in Zones \ {z} : zone_status[x].z_map_size = 0 /\ zone_status[x].z_live_count = 0 =>
            zone_status'[x].z_map_size = 0 /\ zone_status'[x].z_live_count = 0
    <2> SUFFICES ASSUME NEW x \in Zones \ {z}, zone_status[x].z_map_size = 0,
                        zone_status[x].z_live_count = 0
                 PROVE  zs[x].z_map_size = 0 /\ zs[x].z_live_count = 0
        BY <1>1, Zenon
    <2>1. ~(Holds(key) /\ OldZone(key) = x)
        BY <1>4, NotInEmpty, Zenon
    <2> QED BY <1>3, <2>1
<1>15. GCReserve'
    <2>1. active_zone' \in {z, None}
        BY <1>1, Zenon DEF act
    <2>2. \A x \in Zones \ {z} : Spare(zone_status, x) =>
               zone_status'[x].z_map_size = 0 /\ zone_status'[x].z_live_count = 0
        BY <1>14, Zenon DEF Spare
    <2> QED BY <1>1, <1>2, <2>1, <2>2, ReserveKept, Zenon
<1>16. CopyInv'
    <2>1. CASE gc.by = "none"
        BY <1>1, <1>4, <2>1, Zenon DEF CopyInv, NoCopy
    <2>2. CASE gc.by # "none"
        <3>1. /\ copy.source \in Zones /\ copy.dest \in Zones /\ copy.source # copy.dest
              /\ zone_status[copy.dest].z_map_size = 0 /\ zone_status[copy.dest].z_live_count = 0
              /\ PlanSound(gc.plan, copy.source, copy.dest) /\ PlanCovers(gc.plan, copy.source)
            BY <1>4, <2>2, Zenon DEF CopyInv
        <3>2. active_zone' \notin {copy.source, copy.dest}
            BY <1>1, <1>2, <3>1, NoneIsNoZone, Zenon DEF act
        <3>3. zone_status'[copy.dest].z_map_size = 0 /\ zone_status'[copy.dest].z_live_count = 0
            BY <1>2, <1>14, <3>1, Zenon
        <3>4. PlanCovers(gc.plan, copy.source)'
            <4> SUFFICES ASSUME NEW k \in Keys, Holds(k)', OldZone(k)' = copy.source
                         PROVE  \E e \in {gc.plan[i] : i \in DOMAIN gc.plan} :
                                    e.key = k /\ e.source = z_pba_map'[k]
                BY <1>1 DEF PlanCovers
            <4>1. k # key
                BY <1>2, <1>7, <1>9, Zenon DEF OldZone
            <4>2. z_pba_map'[k] = z_pba_map[k] /\ Holds(k) /\ OldZone(k) = copy.source
                BY <1>9, <4>1, Zenon DEF Holds, OldZone
            <4> QED BY <3>1, <4>2, Zenon DEF PlanCovers
        <3>5. PlanSound(gc.plan, copy.source, copy.dest)'
            <4>1. gc' = gc /\ copy' = copy
                BY <1>1, Zenon
            <4> QED BY <3>1, <4>1 DEF PlanSound, AppendSlot, ZoneOf
        <3> QED BY <1>1, <2>2, <3>1, <3>2, <3>3, <3>4, <3>5, Zenon DEF CopyInv
    <2> QED BY <2>1, <2>2, Zenon
<1>17. \A v \in inflight : v.pba \in Pbas /\ ZoneOf(v.pba) \in Zones /\ v.pba # pba
    <2> SUFFICES ASSUME NEW v \in inflight
                 PROVE  v.pba \in Pbas /\ ZoneOf(v.pba) \in Zones /\ v.pba # pba
        OBVIOUS
    <2>1. v.pba \in Pbas /\ AppendSlot(ZoneOf(v.pba), v.pba) < zone_status[ZoneOf(v.pba)].z_map_size
        BY <1>4, Zenon DEF FlightInv, BelowPointer
    <2> QED BY <1>6, <1>7, <2>1, BlockHasSlot DEF n
<1>18. FlightInv'
    <2> SUFFICES ASSUME NEW v \in inflight'
                 PROVE  v.pba \in Pbas /\ AppendSlot(ZoneOf(v.pba), v.pba) < zs[ZoneOf(v.pba)].z_map_size
        BY <1>1, ZenonT(30) DEF FlightInv, BelowPointer
    <2>1. CASE v = w
        <3>1. v.pba = pba
            BY <2>1, Zenon
        <3>2. zs[z].z_map_size = n + 1
            BY <1>2, <1>3, Zenon
        <3> QED BY <1>6, <1>7, <3>1, <3>2
    <2>2. CASE v \in inflight
        <3> DEFINE y == ZoneOf(v.pba)
                   s == AppendSlot(y, v.pba)
        <3>1. v.pba \in Pbas /\ y \in Zones /\ s \in Slots
            BY <1>17, <2>2, BlockHasSlot, Zenon
        <3>2. s < zone_status[y].z_map_size
            BY <1>4, <2>2, Zenon DEF FlightInv, BelowPointer
        <3>3. zs[y].z_map_size = IF y = z THEN n + 1 ELSE zone_status[y].z_map_size
            BY <1>3, <3>1, Zenon
        <3> HIDE DEF y, s
        <3>4. s \in Nat
            BY <3>1, Sizes DEF Slots
        <3>5. s < zs[y].z_map_size
            BY <1>6, <3>2, <3>3, <3>4 DEF n
        <3> QED BY <3>1, <3>5, Zenon DEF y, s
    <2> QED BY <1>1, <2>1, <2>2, Zenon
<1>19. AppendsDisjoint'
    <2> SUFFICES ASSUME NEW u \in inflight'
                 PROVE  /\ ZoneOf(u.pba) \notin {copy.source, copy.dest}
                        /\ \A v \in inflight' : v.pba = u.pba => v = u
        BY <1>1, Zenon DEF AppendsDisjoint
    <2>1. w.pba = pba
        BY Zenon
    <2> HIDE DEF w
    <2>2. CASE u = w
        BY <1>1, <1>2, <1>7, <1>17, <2>1, <2>2, Zenon
    <2>3. CASE u \in inflight
        BY <1>1, <1>4, <1>17, <2>1, <2>3, Zenon DEF AppendsDisjoint
    <2> QED BY <1>1, <2>2, <2>3, Zenon
<1>20. GCShape'
    BY <1>1, Zenon DEF IInv, GCShape
<1> QED BY <1>5, <1>10, <1>11, <1>12, <1>13, <1>15, <1>16, <1>18, <1>19, <1>20, Zenon DEF IInv

(* The zone table after the old block of a key is dropped.                 *)
LEMMA DropTable ==
    ASSUME ZoneTypes, LiveCountExact, NEW key \in Keys
    PROVE  LET zs == Dropped(zone_status, key)
           IN  /\ zs \in Tables
               /\ \A y \in Zones :
                     /\ zs[y].z_map_size = zone_status[y].z_map_size
                     /\ zs[y].z_key_map = zone_status[y].z_key_map
                     /\ zs[y].z_conds = zone_status[y].z_conds
                     /\ zs[y].z_live_count = IF Holds(key) /\ OldZone(key) = y
                                             THEN zone_status[y].z_live_count - 1
                                             ELSE zone_status[y].z_live_count
<1> DEFINE zs == Dropped(zone_status, key)
           o  == OldZone(key)
<1>1. zone_status \in Tables
    BY Zenon DEF ZoneTypes
<1>2. CASE ~Holds(key)
    BY <1>1, <1>2 DEF Dropped
<1>3. CASE Holds(key)
    <2>1. o \in Zones /\ zone_status[o].z_live_count >= 1
        BY <1>3, MappedWhere, NeverUnclean, Zenon
    <2>2. zs = [zone_status EXCEPT ![o].z_live_count = @ - 1]
        BY <1>3 DEF Dropped
    <2> HIDE DEF o, zs
    <2>3. zone_status[o].z_live_count - 1 \in Nat
        BY <1>1, <2>1, TablesAre
    <2>4. /\ zs \in Tables
          /\ \A y \in Zones : /\ zs[y].z_map_size = zone_status[y].z_map_size
                              /\ zs[y].z_key_map = zone_status[y].z_key_map
                              /\ zs[y].z_conds = zone_status[y].z_conds
                              /\ zs[y].z_live_count = IF y = o THEN zone_status[y].z_live_count - 1
                                                      ELSE zone_status[y].z_live_count
        BY <1>1, <2>1, <2>2, <2>3 DEF Tables, ZoneRecords
    <2>5. \A y \in Zones : (Holds(key) /\ OldZone(key) = y) <=> y = o
        BY <1>3 DEF o
    <2> HIDE DEF zs
    <2> QED BY <2>4, <2>5, Zenon DEF zs
<1> QED BY <1>2, <1>3, Zenon

(* A step that leaves the slots of every zone alone, and maps no key into  *)
(* a zone it was not in, keeps the agreement of the maps, the appends in   *)
(* flight and the plan.                                                    *)
LEMMA SlotsKept ==
    ASSUME IInv, ZoneTypes', UNCHANGED <<copy, gc>>, inflight' \subseteq inflight,
           \A y \in Zones : /\ zone_status'[y].z_map_size = zone_status[y].z_map_size
                            /\ \A s \in Slots : s < zone_status[y].z_map_size =>
                                  zone_status'[y].z_key_map[s] = zone_status[y].z_key_map[s],
           \A k \in Keys : Holds(k)' => z_pba_map'[k] = z_pba_map[k]
    PROVE  /\ MapsAgree' /\ AppendsDisjoint' /\ FlightInv' /\ GCShape'
           /\ gc.by # "none" => PlanSound(gc.plan, copy.source, copy.dest)'
                                /\ PlanCovers(gc.plan, copy.source)'
<1>1. MapsAgree'
    <2> SUFFICES ASSUME NEW k \in Keys, Holds(k)'
                 PROVE  LET y == OldZone(k)'
                            s == AppendSlot(y, z_pba_map'[k])
                        IN  s < zone_status'[y].z_map_size /\ zone_status'[y].z_key_map[s] = k
        BY Zenon DEF MapsAgree
    <2> DEFINE y == OldZone(k)
               s == AppendSlot(y, z_pba_map[k])
    <2>1. z_pba_map'[k] = z_pba_map[k] /\ OldZone(k)' = y /\ Holds(k)
        BY Zenon DEF OldZone, Holds
    <2>2. y \in Zones /\ s \in Slots
        BY <2>1, MappedWhere, Zenon DEF IInv
    <2>3. s < zone_status[y].z_map_size /\ zone_status[y].z_key_map[s] = k
        BY <2>1, Zenon DEF MapsAgree, IInv
    <2> HIDE DEF y, s
    <2>4. s < zone_status'[y].z_map_size /\ zone_status'[y].z_key_map[s] = k
        BY <2>2, <2>3, Zenon
    <2> QED BY <2>1, <2>4, Zenon DEF y, s
<1>2. AppendsDisjoint'
    BY Zenon DEF AppendsDisjoint, IInv
<1>3. FlightInv'
    <2> SUFFICES ASSUME NEW w \in inflight
                 PROVE  BelowPointer(w)'
        BY Zenon DEF FlightInv
    <2>1. w.pba \in Pbas /\ AppendSlot(ZoneOf(w.pba), w.pba) < zone_status[ZoneOf(w.pba)].z_map_size
        BY Zenon DEF IInv, FlightInv, BelowPointer
    <2>2. ZoneOf(w.pba) \in Zones
        BY <2>1, BlockHasSlot, Zenon
    <2> QED BY <2>1, <2>2, Zenon DEF BelowPointer
<1>4. GCShape'
    BY Zenon DEF IInv, GCShape
<1>5. ASSUME gc.by # "none"
      PROVE  PlanSound(gc.plan, copy.source, copy.dest)' /\ PlanCovers(gc.plan, copy.source)'
    <2>1. PlanSound(gc.plan, copy.source, copy.dest) /\ PlanCovers(gc.plan, copy.source)
        BY <1>5, Zenon DEF IInv, CopyInv
    <2>2. PlanSound(gc.plan, copy.source, copy.dest)'
        BY <2>1 DEF PlanSound
    <2>3. PlanCovers(gc.plan, copy.source)'
        BY <2>1 DEF PlanCovers, Holds, OldZone
    <2> QED BY <2>2, <2>3, Zenon
<1> QED BY <1>1, <1>2, <1>3, <1>4, <1>5, Zenon

(* A discard keeps the invariant: the block leaves its slot and the live   *)
(* count of its zone.                                                      *)
LEMMA DeleteKeeps ==
    ASSUME IInv, NEW key \in Keys, Delete(key)
    PROVE  IInv'
<1> DEFINE zs == Dropped(zone_status, key)
<1>1. /\ zone_status' = zs /\ z_pba_map' = [z_pba_map EXCEPT ![key] = Unmapped]
      /\ IF Holds(key) THEN RecordAndDefer(zs, active_zone, free_cursor)
         ELSE UNCHANGED <<candidate, free_cursor, auto>>
      /\ UNCHANGED <<active_zone, next_generation, copy, worker, gc, inflight>>
    BY Zenon DEF Delete
<1>2. ZoneTypes /\ QueueTypes /\ LiveCountExact /\ OneOpenZone /\ OpenHasRoom /\ GCReserve /\ CopyInv
    BY DEF IInv
<1>3. /\ zs \in Tables
      /\ \A y \in Zones :
            /\ zs[y].z_map_size = zone_status[y].z_map_size
            /\ zs[y].z_key_map = zone_status[y].z_key_map
            /\ zs[y].z_conds = zone_status[y].z_conds
            /\ zs[y].z_live_count = IF Holds(key) /\ OldZone(key) = y
                                    THEN zone_status[y].z_live_count - 1
                                    ELSE zone_status[y].z_live_count
    BY <1>2, DropTable, Zenon
<1> HIDE DEF zs
<1>4. QueueTypes'
    <2>1. CASE Holds(key)
        <3>1. free_cursor \in Zones
            BY <1>2, Zenon DEF QueueTypes
        <3> QED BY <1>1, <1>2, <1>3, <2>1, <3>1, RecordTypes, ZenonT(30)
    <2>2. CASE ~Holds(key)
        BY <1>1, <1>2, <2>2, Zenon DEF QueueTypes
    <2> QED BY <2>1, <2>2
<1>5. ZoneTypes'
    BY <1>1, <1>2, <1>3, Zenon DEF ZoneTypes
<1>6. \A k \in Keys : z_pba_map'[k] = IF k = key THEN Unmapped ELSE z_pba_map[k]
    BY <1>1, <1>2, Zenon DEF ZoneTypes
<1>7. \A k \in Keys : Holds(k)' => z_pba_map'[k] = z_pba_map[k]
    BY <1>6, Zenon DEF Holds
<1>8. /\ MapsAgree' /\ AppendsDisjoint' /\ FlightInv' /\ GCShape'
      /\ gc.by # "none" => PlanSound(gc.plan, copy.source, copy.dest)'
                           /\ PlanCovers(gc.plan, copy.source)'
    BY <1>1, <1>3, <1>5, <1>7, SlotsKept, ZenonT(30)
<1>9. LiveCountExact'
    <2> SUFFICES ASSUME NEW y \in Zones
                 PROVE  zone_status'[y].z_live_count = Cardinality(KeysIn(y)')
        BY DEF LiveCountExact, KeysIn
    <2>1. zone_status[y].z_live_count = Cardinality(KeysIn(y))
        BY <1>2, Zenon DEF LiveCountExact, KeysIn
    <2>2. Cardinality(KeysIn(y)') =
             Cardinality(KeysIn(y)) + (IF Unmapped # Unmapped /\ ZoneOf(Unmapped) = y THEN 1 ELSE 0)
                                    - (IF Holds(key) /\ OldZone(key) = y THEN 1 ELSE 0)
        BY <1>1, <1>2, RemapKeys, ZenonT(30)
    <2>3. Cardinality(KeysIn(y)) \in Nat
        BY KeysInFinite, Zenon
    <2>4. zs[y].z_live_count = IF Holds(key) /\ OldZone(key) = y THEN zone_status[y].z_live_count - 1
                               ELSE zone_status[y].z_live_count
        BY <1>3, Zenon
    <2>5. zone_status'[y].z_live_count = zs[y].z_live_count
        BY <1>1, Zenon
    <2>6. CASE Holds(key) /\ OldZone(key) = y
        BY <2>1, <2>2, <2>3, <2>4, <2>5, <2>6, SMTT(30)
    <2>7. CASE ~(Holds(key) /\ OldZone(key) = y)
        BY <2>1, <2>2, <2>3, <2>4, <2>5, <2>7, SMTT(30)
    <2> QED BY <2>6, <2>7, Zenon
<1>10. OneOpenZone' /\ OpenHasRoom'
    BY <1>1, <1>2, <1>3, ZenonT(30) DEF OneOpenZone, OpenHasRoom
<1>11. \A x \in Zones : zone_status[x].z_live_count = 0 => zone_status'[x].z_live_count = 0
    BY <1>1, <1>2, <1>3, NotInEmpty, ZenonT(30)
<1>12. GCReserve'
    BY <1>1, <1>2, <1>3, <1>11, SMTT(30) DEF GCReserve, Free
<1>13. CopyInv'
    BY <1>1, <1>2, <1>3, <1>8, <1>11, ZenonT(30) DEF CopyInv, NoCopy
<1> QED BY <1>4, <1>5, <1>8, <1>9, <1>10, <1>12, <1>13, Zenon DEF IInv

(* A write that finds no memory leaves its zone activated and the slot     *)
(* after the append pointer cleared.                                       *)
LEMMA WriteNoMemKeeps ==
    ASSUME IInv, NEW key \in Keys, WriteNoMem(key)
    PROVE  IInv'
<1> DEFINE z  == ActivatedZone
           n  == Activated[z].z_map_size
           zs == [Activated EXCEPT ![z].z_key_map[n] = NoKey]
<1>1. /\ z # None /\ zone_status' = zs /\ active_zone' = z /\ next_generation' = ActivatedGeneration
      /\ free_cursor' = ActivatedCursor
      /\ UNCHANGED <<z_pba_map, copy, candidate, auto, worker, gc, inflight>>
    BY DEF WriteNoMem, gcVars, ioVars
<1>2. /\ z \in Zones /\ z \notin {copy.source, copy.dest} /\ zone_status[z].z_map_size < TotalItems
      /\ \A y \in Zones \ {z} : zone_status[y].z_conds # "OPEN"
      /\ copy.dest # None \/ \E x \in Zones \ {z} : Spare(zone_status, x)
      /\ ActivatedCursor \in Zones /\ ActivatedGeneration \in Nat
    BY <1>1, ActivatedIs
<1>3. /\ Activated \in Tables /\ Activated[z].z_conds = "OPEN"
      /\ \A y \in Zones : /\ y # z => Activated[y] = zone_status[y]
                          /\ Activated[y].z_map_size = zone_status[y].z_map_size
                          /\ Activated[y].z_live_count = zone_status[y].z_live_count
                          /\ Activated[y].z_key_map = zone_status[y].z_key_map
    BY <1>1, ActivatedTable
<1>4. ZoneTypes /\ QueueTypes /\ LiveCountExact /\ CopyInv
    BY DEF IInv
<1> HIDE DEF z
<1>5. n \in Nat /\ n \in Slots
    <2>1. n \in Nat /\ n < TotalItems
        BY <1>2, <1>3, TablesAre, ZenonT(30)
    <2> HIDE DEF n
    <2> QED BY <2>1, Sizes DEF Slots
<1>6. n = zone_status[z].z_map_size
    BY <1>2, <1>3, Zenon
<1> HIDE DEF n
<1>7. /\ zs \in Tables
      /\ \A y \in Zones : y # z => zs[y] = Activated[y]
      /\ zs[z].z_map_size = Activated[z].z_map_size /\ zs[z].z_live_count = Activated[z].z_live_count
      /\ zs[z].z_conds = Activated[z].z_conds
      /\ \A s \in Slots : s # n => zs[z].z_key_map[s] = Activated[z].z_key_map[s]
    <2> DEFINE a == Activated[z]
               m == [a.z_key_map EXCEPT ![n] = NoKey]
               r == [a EXCEPT !.z_key_map = m]
    <2>1. a \in ZoneRecords
        BY <1>2, <1>3, Zenon DEF Tables
    <2>2. m \in [Slots -> Keys \cup {NoKey}] /\ \A s \in Slots : s # n => m[s] = a.z_key_map[s]
        BY <1>5, <2>1, Zenon DEF ZoneRecords
    <2>3. zs = [Activated EXCEPT ![z] = r]
        BY <1>2, <1>3 DEF Tables
    <2> HIDE DEF m
    <2>4. r \in ZoneRecords /\ r.z_key_map = m /\ r.z_map_size = a.z_map_size
          /\ r.z_live_count = a.z_live_count /\ r.z_conds = a.z_conds
        BY <2>1, <2>2, Zenon DEF ZoneRecords
    <2> HIDE DEF r
    <2>5. zs \in Tables /\ zs[z] = r /\ \A y \in Zones : y # z => zs[y] = Activated[y]
        BY <1>2, <1>3, <2>3, <2>4, Zenon DEF Tables
    <2> QED BY <2>2, <2>4, <2>5, Zenon
<1> HIDE DEF zs
<1>8. \A y \in Zones : /\ zs[y].z_map_size = zone_status[y].z_map_size
                       /\ zs[y].z_live_count = zone_status[y].z_live_count
                       /\ y # z => zs[y].z_conds = zone_status[y].z_conds
                       /\ \A s \in Slots : s < zone_status[y].z_map_size =>
                              zs[y].z_key_map[s] = zone_status[y].z_key_map[s]
    <2> SUFFICES ASSUME NEW y \in Zones
                 PROVE  /\ zs[y].z_map_size = zone_status[y].z_map_size
                        /\ zs[y].z_live_count = zone_status[y].z_live_count
                        /\ y # z => zs[y].z_conds = zone_status[y].z_conds
                        /\ \A s \in Slots : s < zone_status[y].z_map_size =>
                              zs[y].z_key_map[s] = zone_status[y].z_key_map[s]
        BY Zenon
    <2>1. CASE y = z
        <3>1. \A s \in Slots : s < n => s # n
            BY <1>5, Sizes DEF Slots
        <3> QED BY <1>2, <1>3, <1>6, <1>7, <2>1, <3>1, Zenon
    <2>2. CASE y # z
        BY <1>3, <1>7, <2>2, Zenon
    <2> QED BY <2>1, <2>2, Zenon
<1>9. ZoneTypes'
    BY <1>1, <1>2, <1>4, <1>7, ZenonT(30) DEF ZoneTypes
<1>10. QueueTypes'
    BY <1>1, <1>2, <1>4, ZenonT(30) DEF QueueTypes
<1>11. /\ MapsAgree' /\ AppendsDisjoint' /\ FlightInv' /\ GCShape'
       /\ gc.by # "none" => PlanSound(gc.plan, copy.source, copy.dest)'
                            /\ PlanCovers(gc.plan, copy.source)'
    BY <1>1, <1>8, <1>9, SlotsKept, ZenonT(30)
<1>12. LiveCountExact'
    BY <1>1, <1>4, <1>8, ZenonT(30) DEF LiveCountExact, Holds, OldZone
<1>13. OneOpenZone' /\ OpenHasRoom'
    <2>1. /\ zs[z].z_conds = "OPEN" /\ zs[z].z_map_size < TotalItems
          /\ \A y \in Zones \ {z} : zs[y].z_conds # "OPEN"
        BY <1>2, <1>3, <1>7, <1>8, ZenonT(30)
    <2>2. zone_status' = zs /\ active_zone' = z /\ z \in Zones
        BY <1>1, <1>2, Zenon
    <2> QED BY <2>1, <2>2, Zenon DEF OneOpenZone, OpenHasRoom
<1>14. GCReserve'
    <2>1. \A x \in Zones \ {z} : Spare(zone_status, x) =>
               zone_status'[x].z_map_size = 0 /\ zone_status'[x].z_live_count = 0
        BY <1>1, <1>8, ZenonT(30) DEF Spare
    <2> QED BY <1>1, <1>2, <2>1, ReserveKept, ZenonT(30)
<1>15. CopyInv'
    BY <1>1, <1>2, <1>4, <1>8, <1>11, ZenonT(30) DEF CopyInv, NoCopy
<1> QED BY <1>9, <1>10, <1>11, <1>12, <1>13, <1>14, <1>15, Zenon DEF IInv


-----------------------------------------------------------------------------
(* Steps that leave the zones alone.                                       *)

(* A step that leaves maps, zones and the collection alone keeps the       *)
(* invariant.                                                              *)
LEMMA FrameKeeps ==
    ASSUME IInv, QueueTypes', GCShape',
           UNCHANGED <<zone_status, z_pba_map, active_zone, next_generation, copy>>,
           gc'.by = gc.by, gc'.plan = gc.plan, inflight' \subseteq inflight
    PROVE  IInv'
<1>1. ZoneTypes'
    BY DEF IInv, ZoneTypes
<1>2. MapsAgree'
    BY DEF IInv, MapsAgree, Holds, OldZone
<1>3. LiveCountExact'
    BY DEF IInv, LiveCountExact, Holds, OldZone
<1>4. OneOpenZone' /\ OpenHasRoom' /\ GCReserve'
    BY DEF IInv, OneOpenZone, OpenHasRoom, GCReserve, Free
<1>5. CopyInv'
    <2>0. copy' = copy /\ gc'.plan = gc.plan
        OBVIOUS
    <2>1. PlanSound(gc.plan, copy.source, copy.dest) => PlanSound(gc.plan, copy.source, copy.dest)'
        BY <2>0, Zenon
    <2>2. PlanCovers(gc.plan, copy.source) => PlanCovers(gc.plan, copy.source)'
        BY DEF PlanCovers, Holds, OldZone
    <2> QED BY <2>1, <2>2 DEF IInv, CopyInv, NoCopy
<1>6. AppendsDisjoint'
    BY DEF IInv, AppendsDisjoint
<1>7. FlightInv'
    BY DEF IInv, FlightInv, BelowPointer
<1> QED BY <1>1, <1>2, <1>3, <1>4, <1>5, <1>6, <1>7 DEF IInv

(* A write that finds no space changes no map.                             *)
LEMMA WriteNoSpaceKeeps ==
    ASSUME IInv, NEW key \in Keys, WriteNoSpace(key)
    PROVE  IInv'
<1>1. /\ ActivatedZone = None /\ active_zone' = None
      /\ RecordAndDefer(zone_status, None, free_cursor)
      /\ UNCHANGED <<zone_status, z_pba_map, next_generation, copy, worker, gc, inflight>>
    BY DEF WriteNoSpace, ioVars
<1>2. active_zone = None
    BY <1>1, UnusableIsNone DEF IInv, ActivatedZone, Usable
<1>3. QueueTypes'
    <2>1. QueueTypes /\ zone_status \in Tables /\ free_cursor \in Zones
        BY DEF IInv, ZoneTypes, QueueTypes
    <2> QED BY <1>1, <2>1, RecordTypes
<1>4. GCShape'
    BY <1>1 DEF IInv, GCShape
<1> QED BY <1>1, <1>2, <1>3, <1>4, FrameKeeps

(* Reads, completions, a discard without memory and the copy of a block    *)
(* keep the invariant.                                                     *)
LEMMA IoKeeps ==
    ASSUME IInv, \/ \E k \in Keys : DeleteNoMem(k) \/ Read(k)
                 \/ \E w \in inflight : EndIo(w)
                 \/ \E r \in reads : EndRead(r)
                 \/ CopyBlock
    PROVE  IInv'
<1> DEFINE Quiet == /\ UNCHANGED <<zone_status, z_pba_map, active_zone, next_generation, copy>>
                    /\ UNCHANGED <<free_cursor, candidate, auto, worker>>
                    /\ inflight' \subseteq inflight
<1>1. ASSUME NEW k \in Keys, DeleteNoMem(k)
      PROVE  Quiet /\ UNCHANGED gc
    BY <1>1 DEF DeleteNoMem, zoneVars, ioVars
<1>2. ASSUME NEW k \in Keys, Read(k)
      PROVE  Quiet /\ UNCHANGED gc
    BY <1>2 DEF Read, zoneVars, gcVars
<1>3. ASSUME NEW w \in inflight, EndIo(w)
      PROVE  Quiet /\ UNCHANGED gc
    BY <1>3 DEF EndIo, zoneVars
<1>4. ASSUME NEW r \in reads, EndRead(r)
      PROVE  Quiet /\ UNCHANGED gc
    BY <1>4 DEF EndRead, zoneVars, gcVars
<1>5. ASSUME CopyBlock
      PROVE  Quiet /\ gc' = [gc EXCEPT !.next = @ + 1]
    BY <1>5 DEF CopyBlock, zoneVars
<1>6. Quiet /\ (UNCHANGED gc \/ gc' = [gc EXCEPT !.next = @ + 1])
    BY <1>1, <1>2, <1>3, <1>4, <1>5, Zenon
<1>7. gc'.by = gc.by /\ gc'.plan = gc.plan /\ GCShape'
    BY <1>6 DEF IInv, GCShape
<1>8. QueueTypes'
    BY <1>6 DEF IInv, QueueTypes
<1> QED BY <1>6, <1>7, <1>8, FrameKeeps

(* Starting, refusing and ending a run of the collection worker keeps the  *)
(* invariant.                                                              *)
LEMMA WorkerKeeps ==
    ASSUME IInv, AutoWork \/ AutoRefused \/ AutoDone
    PROVE  IInv'
<1> DEFINE Quiet == UNCHANGED <<zone_status, z_pba_map, active_zone, next_generation, copy, gc,
                                free_cursor, candidate, inflight>>
<1>1. QueueTypes /\ auto \in AutoRecord
      /\ candidate \in [zone : Zones \cup {None}, dest : Zones \cup {None}]
    BY DEF IInv, QueueTypes, AutoRecord
<1>2. CASE AutoWork
    <2>1. Quiet
        BY <1>2 DEF AutoWork, zoneVars, ioVars
    <2>2. auto' \in AutoRecord
        <3>1. CASE inflight # {} \/ ~auto.run \/ auto.pending = None
            BY <1>1, <1>2, <3>1 DEF AutoWork
        <3>2. CASE ~(inflight # {} \/ ~auto.run \/ auto.pending = None)
            <4> DEFINE start == candidate.zone = auto.pending /\ Ready(candidate) /\ ~auto.running
            <4>1. auto' = [auto EXCEPT !.pending = None, !.running = @ \/ start]
                BY <1>2, <3>2 DEF AutoWork
            <4>2. auto.running \/ start \in BOOLEAN
                BY Zenon
            <4> HIDE DEF start
            <4> QED BY <1>1, <4>1, ZenonT(30) DEF AutoRecord
        <3> QED BY <3>1, <3>2
    <2>3. worker' = worker \/ (auto.pending # None /\ worker' = [pc |-> "run", zone |-> auto.pending, ret |-> "OK"])
        BY <1>2 DEF AutoWork
    <2>4. QueueTypes'
        BY <1>1, <2>1, <2>2, <2>3 DEF QueueTypes, AutoRecord
    <2> QED BY <2>1, <2>4, FrameKeeps DEF IInv, GCShape
<1>3. CASE AutoRefused
    <2>1. Quiet /\ UNCHANGED auto
          /\ worker' = [worker EXCEPT !.pc = "done", !.ret = CompactError(worker.zone)]
        BY <1>3 DEF AutoRefused, zoneVars, ioVars
    <2>2. CompactError(worker.zone) \in {"OK", "EBUSY", "EINVAL", "ENOSPC", "EUCLEAN", "EIO"}
        BY DEF CompactError
    <2>3. QueueTypes'
        BY <1>1, <2>1, <2>2, ZenonT(30) DEF QueueTypes
    <2> QED BY <2>1, <2>3, FrameKeeps DEF IInv, GCShape
<1>4. CASE AutoDone
    <2> DEFINE a == [auto EXCEPT !.running = FALSE]
    <2>1. Quiet /\ worker' = NoWork /\ auto' \in {a, Deferred(a, candidate)}
        BY <1>4 DEF AutoDone, zoneVars, ioVars
    <2>2. a \in AutoRecord
        BY <1>1, ZenonT(30) DEF AutoRecord
    <2>3. auto' \in AutoRecord
        BY <1>1, <2>1, <2>2, DeferredTypes, ZenonT(30)
    <2>4. QueueTypes'
        BY <1>1, <2>1, <2>3 DEF QueueTypes, AutoRecord, NoWork
    <2> QED BY <2>1, <2>4, FrameKeeps DEF IInv, GCShape
<1> QED BY <1>2, <1>3, <1>4

(* Turning automatic collection on or off keeps the invariant.             *)
LEMMA SetAutoRunKeeps ==
    ASSUME IInv, NEW on \in BOOLEAN, SetAutoRun(on)
    PROVE  IInv'
<1> DEFINE a == [auto EXCEPT !.run = on]
<1>1. /\ UNCHANGED <<zone_status, z_pba_map, active_zone, next_generation, copy, worker, gc, inflight>>
      /\ IF on
         THEN /\ candidate' = Candidate(zone_status, active_zone, free_cursor, copy, candidate)
              /\ free_cursor' = CandidateCursor(candidate', candidate, free_cursor)
              /\ auto' = Deferred(Recorded(a, candidate'), candidate')
         ELSE auto' = [a EXCEPT !.pending = None] /\ UNCHANGED <<candidate, free_cursor>>
    BY DEF SetAutoRun, ioVars
<1>2. QueueTypes /\ zone_status \in Tables /\ free_cursor \in Zones /\ auto \in AutoRecord
      /\ candidate \in [zone : Zones \cup {None}, dest : Zones \cup {None}]
    BY DEF IInv, ZoneTypes, QueueTypes, AutoRecord
<1>3. a \in AutoRecord /\ [a EXCEPT !.pending = None] \in AutoRecord
    BY <1>2, ZenonT(30) DEF AutoRecord
<1> HIDE DEF a
<1>4. QueueTypes'
    <2>1. CASE on
        <3>1. /\ candidate' \in [zone : Zones \cup {None}, dest : Zones \cup {None}]
              /\ free_cursor' \in Zones
            BY <1>1, <1>2, <2>1, TablesCounted, CandidateZones
        <3>2. auto' \in AutoRecord
            BY <1>1, <1>3, <2>1, <3>1, DeferredTypes
        <3> QED BY <1>1, <1>2, <3>1, <3>2 DEF QueueTypes, AutoRecord
    <2>2. CASE ~on
        BY <1>1, <1>2, <1>3, <2>2 DEF QueueTypes, AutoRecord
    <2> QED BY <2>1, <2>2
<1>5. GCShape'
    BY <1>1 DEF IInv, GCShape
<1> QED BY <1>1, <1>4, <1>5, FrameKeeps

-----------------------------------------------------------------------------
(* The collector.                                                          *)

(* The destination of a collection: an empty zone, not the source and not  *)
(* the zone being appended to.                                             *)
LEMMA PlanDestIs ==
    ASSUME IInv, NEW z \in Zones, zone_status[z].z_map_size # 0, PlanDest(z) # None
    PROVE  /\ PlanDest(z) \in Zones /\ PlanDest(z) # z /\ PlanDest(z) # active_zone
           /\ zone_status[PlanDest(z)].z_map_size = 0 /\ zone_status[PlanDest(z)].z_live_count = 0
           /\ PlanCursor(z) \in Zones
<1> DEFINE free == Free(zone_status, active_zone, copy)
           d == PlanDest(z)
<1>1. free \in SUBSET Zones /\ z \notin free /\ free \ {z} \in SUBSET Zones
    BY DEF Free
<1>2. free_cursor \in Zones
    BY DEF IInv, QueueTypes
<1>3. d \in free
    <2>1. CASE candidate.zone = z /\ candidate.dest \in free
        BY <2>1 DEF PlanDest
    <2>2. CASE ~(candidate.zone = z /\ candidate.dest \in free)
        <3>1. d = FirstFrom(free \ {z}, free_cursor)
            BY <2>2 DEF PlanDest
        <3>2. d # None
            OBVIOUS
        <3> HIDE DEF d, free
        <3> QED BY <1>1, <1>2, <3>1, <3>2, FirstFromFinds
    <2> QED BY <2>1, <2>2
<1>4. d \in Zones /\ d # z
    <2> HIDE DEF free, d
    <2> QED BY <1>1, <1>3
<1>5. d # active_zone /\ zone_status[d].z_map_size = 0 /\ zone_status[d].z_live_count = 0
    BY <1>3 DEF Free
<1>6. PlanCursor(z) \in Zones
    BY <1>2, <1>4, CursorAfterZone DEF PlanCursor
<1> QED BY <1>4, <1>5, <1>6

(* Reserving a victim and its destination keeps the invariant.             *)
LEMMA ReserveKeeps ==
    ASSUME IInv, NEW by \in {"auto", "manual"}, NEW z \in Zones, Reserve(by, z)
    PROVE  IInv'
<1> DEFINE d == PlanDest(z)
<1>1. /\ gc' = [by |-> by, plan |-> Plan(z, d), next |-> 1]
      /\ copy' = [source |-> z, dest |-> d]
      /\ free_cursor' = PlanCursor(z)
      /\ UNCHANGED <<zone_status, z_pba_map, active_zone, next_generation, candidate, auto, worker,
                     inflight>>
    BY DEF Reserve, ioVars
<1>2. CompactError(z) = "OK"
    BY DEF Reserve
<1>3. inflight = {} /\ z # active_zone /\ zone_status[z].z_map_size # 0 /\ d # None
    BY <1>2 DEF CompactError, AppendsInFlight
<1>4. /\ d \in Zones /\ d # z /\ d # active_zone
      /\ zone_status[d].z_map_size = 0 /\ zone_status[d].z_live_count = 0
      /\ PlanCursor(z) \in Zones
    BY <1>3, PlanDestIs
<1>5. MapTypes(z)
    BY TablesAre DEF MapTypes, IInv, ZoneTypes
<1>6. PlanSound(Plan(z, d), z, d) /\ PlanCovers(Plan(z, d), z)
    BY <1>4, <1>5, PlanMade DEF IInv
<1> HIDE DEF d
<1>7. ZoneTypes' /\ QueueTypes' /\ GCShape'
    BY <1>1, <1>4 DEF IInv, ZoneTypes, QueueTypes, GCShape
<1>8. MapsAgree'
    BY <1>1, Zenon DEF IInv, MapsAgree, Holds, OldZone
<1>9. LiveCountExact'
    BY <1>1 DEF IInv, LiveCountExact, Holds, OldZone
<1>10. OneOpenZone' /\ OpenHasRoom'
    BY <1>1 DEF IInv, OneOpenZone, OpenHasRoom
<1>11. GCReserve'
    BY <1>1, <1>3, Zenon DEF GCReserve
<1>12. AppendsDisjoint' /\ FlightInv'
    BY <1>1, <1>3, Zenon DEF AppendsDisjoint, FlightInv
<1>13. CopyInv'
    <2> DEFINE p == Plan(z, d)
    <2>1. gc'.plan = p /\ gc'.by # "none" /\ copy'.source = z /\ copy'.dest = d
        BY <1>1
    <2> HIDE DEF p
    <2>2. PlanSound(gc'.plan, copy'.source, copy'.dest)
        BY <1>6, <2>1 DEF p
    <2>3. PlanSound(gc.plan, copy.source, copy.dest)'
        BY <2>2, Zenon DEF PlanSound
    <2>4. PlanCovers(gc.plan, copy.source)'
        <3>1. PlanCovers(p, z)
            BY <1>6, Zenon DEF p
        <3>2. PlanCovers(gc'.plan, copy'.source)
            BY <2>1, <3>1, Zenon
        <3>3. z_pba_map' = z_pba_map
            BY <1>1, Zenon
        <3> QED BY <3>2, <3>3, Zenon DEF PlanCovers, Holds, OldZone
    <2> QED BY <1>1, <1>3, <1>4, <2>1, <2>3, <2>4, Zenon DEF CopyInv
<1> QED BY <1>7, <1>8, <1>9, <1>10, <1>11, <1>12, <1>13 DEF IInv

(* The work item after imr_lsm_compact_zone returns.                       *)
LEMMA ReturnsTypes ==
    ASSUME QueueTypes, NEW ret \in {"OK", "EIO"}, Returns(ret)
    PROVE  /\ worker' \in [pc : {"idle", "run", "done"}, zone : Zones \cup {None},
                           ret : {"OK", "EBUSY", "EINVAL", "ENOSPC", "EUCLEAN", "EIO"}]
           /\ worker'.pc = "run" => worker'.zone \in Zones
BY ZenonT(30) DEF QueueTypes, Returns

(* Giving a collection up keeps the invariant: the reservation is undone.  *)
LEMMA AbortKeeps ==
    ASSUME IInv, AbortCopy
    PROVE  IInv'
<1>1. /\ gc.by # "none" /\ Returns("EIO") /\ gc' = NoGC /\ copy' = NoCopy
      /\ UNCHANGED <<zone_status, z_pba_map, active_zone, free_cursor, next_generation, candidate,
                     auto, inflight>>
    BY DEF AbortCopy, Returns, zoneVars, ioVars
<1>2. ZoneTypes' /\ GCShape'
    BY <1>1 DEF IInv, ZoneTypes, GCShape, NoGC
<1>3. QueueTypes'
    BY <1>1, ReturnsTypes, Zenon DEF IInv, QueueTypes
<1>4. MapsAgree'
    BY <1>1, Zenon DEF IInv, MapsAgree, Holds, OldZone
<1>5. LiveCountExact'
    BY <1>1 DEF IInv, LiveCountExact, Holds, OldZone
<1>6. OneOpenZone' /\ OpenHasRoom'
    BY <1>1 DEF IInv, OneOpenZone, OpenHasRoom
<1>7. GCReserve'
    <2>1. /\ copy.dest \in Zones /\ active_zone # copy.dest
          /\ zone_status[copy.dest].z_map_size = 0 /\ zone_status[copy.dest].z_live_count = 0
        BY <1>1, Zenon DEF IInv, CopyInv
    <2>2. copy.dest \in Free(zone_status, active_zone, copy)'
        BY <1>1, <2>1, NoneIsNoZone DEF Free, NoCopy
    <2> QED BY <2>2 DEF GCReserve
<1>8. CopyInv'
    BY <1>1 DEF CopyInv, NoGC
<1>9. FlightInv'
    BY <1>1, Zenon DEF IInv, FlightInv, BelowPointer
<1>10. AppendsDisjoint'
    <2>1. \A w \in inflight : ZoneOf(w.pba) \in Zones
        BY BlockHasSlot DEF IInv, FlightInv, BelowPointer
    <2> QED BY <1>1, <2>1, NoneIsNoZone DEF IInv, AppendsDisjoint, NoCopy
<1> QED BY <1>2, <1>3, <1>4, <1>5, <1>6, <1>7, <1>8, <1>9, <1>10 DEF IInv

(* What publishing a plan does to the maps: the keys of the committed      *)
(* entries, which are exactly the keys still mapped into the source, move  *)
(* to their slots of the destination, and every other key stays.           *)
LEMMA PublishMap ==
    ASSUME IInv, gc.by # "none",
           z_pba_map' = [k \in Keys |-> IF \E e \in Committed : e.key = k THEN Moved(k).pba
                                        ELSE z_pba_map[k]]
    PROVE  LET K == {k \in Keys : \E e \in Committed : e.key = k}
           IN  /\ z_pba_map' \in [Keys -> Pbas \cup {Unmapped}]
               /\ \A k \in K : /\ Moved(k) \in Committed /\ Moved(k).key = k
                               /\ Holds(k)' /\ OldZone(k)' = copy.dest
                               /\ z_pba_map'[k] = Moved(k).pba
               /\ \A k \in Keys \ K : /\ z_pba_map'[k] = z_pba_map[k]
                                      /\ Holds(k) => OldZone(k) \notin {copy.source, copy.dest}
               /\ \A k \in K : Holds(k) /\ OldZone(k) = copy.source
               /\ IsFiniteSet(K) /\ Cardinality(Committed) = Cardinality(K)
<1> DEFINE K == {k \in Keys : \E e \in Committed : e.key = k}
           E == PlanEntries
<1>1. /\ copy.source \in Zones /\ copy.dest \in Zones /\ copy.source # copy.dest
      /\ zone_status[copy.dest].z_live_count = 0
      /\ PlanSound(gc.plan, copy.source, copy.dest) /\ PlanCovers(gc.plan, copy.source)
      /\ ZoneTypes /\ LiveCountExact
    BY Zenon DEF IInv, CopyInv
<1>2. /\ \A e \in E : e.key \in Keys /\ e.source \in Pbas /\ ZoneOf(e.source) = copy.source
                      /\ e.pba \in Pbas /\ ZoneOf(e.pba) = copy.dest
      /\ \A d, e \in E : (d.key = e.key \/ d.pba = e.pba) => d = e
    BY <1>1, Zenon DEF PlanSound, PlanEntries
<1>3. \A k \in Keys : Holds(k) /\ OldZone(k) = copy.source =>
          \E e \in E : e.key = k /\ e.source = z_pba_map[k]
    BY <1>1, Zenon DEF PlanCovers, PlanEntries
<1>4. Committed \subseteq E /\ \A e \in Committed : z_pba_map[e.key] = e.source
    BY DEF Committed
<1> HIDE DEF E
<1>5. ASSUME NEW k \in K
      PROVE  /\ Moved(k) \in Committed /\ Moved(k).key = k
             /\ Holds(k) /\ OldZone(k) = copy.source
             /\ z_pba_map'[k] = Moved(k).pba /\ Moved(k).pba \in Pbas
             /\ Holds(k)' /\ OldZone(k)' = copy.dest
    <2>1. Moved(k) \in Committed /\ Moved(k).key = k
        BY DEF Moved
    <2>2. z_pba_map[k] = Moved(k).source
        BY <1>4, <2>1
    <2>3. Moved(k) \in E
        BY <1>4, <2>1
    <2>4. z_pba_map[k] \in Pbas /\ ZoneOf(z_pba_map[k]) = copy.source
        BY <1>2, <2>2, <2>3, Zenon
    <2>5. z_pba_map'[k] = Moved(k).pba
        OBVIOUS
    <2>6. z_pba_map'[k] \in Pbas /\ ZoneOf(z_pba_map'[k]) = copy.dest
        BY <1>2, <2>3, <2>5, Zenon
    <2> QED BY <2>1, <2>4, <2>5, <2>6, NoneIsNoZone, Zenon DEF Holds, OldZone, Unmapped
<1>6. ASSUME NEW k \in Keys \ K
      PROVE  /\ z_pba_map'[k] = z_pba_map[k]
             /\ Holds(k) => OldZone(k) \notin {copy.source, copy.dest}
    <2>1. ~ \E e \in Committed : e.key = k
        BY Zenon
    <2>2. z_pba_map'[k] = z_pba_map[k]
        BY <2>1
    <2>3. ASSUME Holds(k), OldZone(k) = copy.source
          PROVE  FALSE
        <3>1. PICK e \in E : e.key = k /\ e.source = z_pba_map[k]
            BY <1>3, <2>3, Zenon
        <3>2. e \in Committed
            BY <3>1, Zenon DEF Committed, E
        <3> QED BY <2>1, <3>1, <3>2
    <2>4. Holds(k) => OldZone(k) # copy.dest
        BY <1>1, NotInEmpty, Zenon
    <2> QED BY <2>2, <2>3, <2>4, Zenon
<1>7. z_pba_map' \in [Keys -> Pbas \cup {Unmapped}]
    <2>1. \A k \in Keys : z_pba_map'[k] \in Pbas \cup {Unmapped}
        <3> SUFFICES ASSUME NEW k \in Keys PROVE z_pba_map'[k] \in Pbas \cup {Unmapped}
            BY Zenon
        <3>1. CASE k \in K
            BY <1>5, <3>1, Zenon
        <3>2. CASE k \notin K
            BY <1>1, <1>6, <3>2, Zenon DEF ZoneTypes
        <3> QED BY <3>1, <3>2
    <2>2. z_pba_map' = [k \in Keys |-> z_pba_map'[k]]
        OBVIOUS
    <2> QED BY <2>1, <2>2
<1>8. IsFiniteSet(K)
    <2>1. K \in SUBSET Keys
        OBVIOUS
    <2> HIDE DEF K
    <2> QED BY <2>1, KeysFinite, FS_Subset, Zenon
<1>9. Cardinality(Committed) = Cardinality(K)
    <2> DEFINE f == [k \in K |-> Moved(k)]
    <2>1. f \in [K -> Committed]
        BY <1>5, Zenon
    <2>2. \A x, y \in K : f[x] = f[y] => x = y
        <3>1. \A x \in K : f[x].key = x
            BY <1>5, Zenon
        <3> HIDE DEF f, K
        <3> QED BY <3>1
    <2>3. \A e \in Committed : \E x \in K : f[x] = e
        <3> SUFFICES ASSUME NEW e \in Committed PROVE \E x \in K : f[x] = e
            BY Zenon
        <3>1. e \in E /\ e.key \in K
            BY <1>2, <1>4, Zenon
        <3>2. Moved(e.key) \in E /\ Moved(e.key).key = e.key
            BY <1>4, <1>5, <3>1, Zenon
        <3>3. Moved(e.key) = e
            BY <1>2, <3>1, <3>2, Zenon
        <3> QED BY <3>1, <3>3
    <2> HIDE DEF f, K
    <2> QED BY <1>8, <2>1, <2>2, <2>3, SameCount, Zenon
<1> HIDE DEF K
<1> QED BY <1>5, <1>6, <1>7, <1>8, <1>9, Zenon DEF K

(* The record of the destination after the plan is published: the slot of  *)
(* an entry names the key of the entry.                                    *)
LEMMA DestZoneIs ==
    ASSUME IInv, gc.by # "none", Cardinality(Committed) \in Nat
    PROVE  /\ DestZone \in ZoneRecords
           /\ DestZone.z_map_size = Len(gc.plan) /\ DestZone.z_live_count = Cardinality(Committed)
           /\ DestZone.z_conds = "OPEN" => active_zone = None /\ Len(gc.plan) < TotalItems
           /\ \A e \in PlanEntries : /\ AppendSlot(copy.dest, e.pba) < Len(gc.plan)
                                     /\ DestZone.z_key_map[AppendSlot(copy.dest, e.pba)] = e.key
<1> DEFINE E == PlanEntries
           n == Len(gc.plan)
           at(s) == CHOOSE e \in E : AppendSlot(copy.dest, e.pba) = s
           map == [s \in Slots |-> IF \E e \in E : AppendSlot(copy.dest, e.pba) = s THEN at(s).key ELSE NoKey]
           c == IF n = 0 THEN "EMPTY" ELSE IF DestOpens THEN "OPEN"
                ELSE IF n = TotalItems THEN "FULL" ELSE "CLOSED"
           g == IF n = 0 THEN 0 ELSE next_generation
<1>1. copy.dest \in Zones /\ PlanSound(gc.plan, copy.source, copy.dest) /\ next_generation \in Nat
    BY Zenon DEF IInv, CopyInv, ZoneTypes
<1>2. /\ n \in 0 .. TotalItems
      /\ \A e \in E : /\ e.key \in Keys /\ e.pba \in Pbas /\ ZoneOf(e.pba) = copy.dest
                      /\ AppendSlot(copy.dest, e.pba) < n
      /\ \A d, e \in E : (d.key = e.key \/ d.pba = e.pba) => d = e
    BY <1>1, Zenon DEF PlanSound, PlanEntries
<1>3. DestZone = [z_conds |-> c, z_map_size |-> n, z_live_count |-> Cardinality(Committed),
                  z_generation |-> g, z_key_map |-> map]
    BY Zenon DEF DestZone
<1> HIDE DEF E, n
<1>4. \A e \in E : AppendSlot(copy.dest, e.pba) \in Slots
    BY <1>2, BlockHasSlot, Zenon
<1>5. \A d, e \in E : AppendSlot(copy.dest, d.pba) = AppendSlot(copy.dest, e.pba) => d = e
    <2> SUFFICES ASSUME NEW d \in E, NEW e \in E,
                        AppendSlot(copy.dest, d.pba) = AppendSlot(copy.dest, e.pba)
                 PROVE  d = e
        OBVIOUS
    <2>1. d.pba = e.pba
        BY <1>2, SlotDistinct, Zenon
    <2> QED BY <1>2, <2>1
<1>6. ASSUME NEW e \in E
      PROVE  map[AppendSlot(copy.dest, e.pba)] = e.key
    <2> DEFINE s == AppendSlot(copy.dest, e.pba)
    <2>1. at(s) \in E /\ AppendSlot(copy.dest, at(s).pba) = s
        OBVIOUS
    <2>2. at(s) = e
        <3> HIDE DEF at
        <3> QED BY <1>5, <2>1
    <2> HIDE DEF at
    <2> QED BY <1>4, <2>2
<1>7. map \in [Slots -> Keys \cup {NoKey}]
    <2> SUFFICES ASSUME NEW s \in Slots, NEW e \in E, AppendSlot(copy.dest, e.pba) = s
                 PROVE  at(s).key \in Keys
        BY Zenon
    <2>1. at(s) \in E
        OBVIOUS
    <2> HIDE DEF at
    <2> QED BY <1>2, <2>1
<1>8. c \in Conds /\ (c = "OPEN" => active_zone = None /\ n < TotalItems)
    BY DEF Conds, DestOpens, n
<1>9. g \in Nat
    BY <1>1
<1> HIDE DEF map, c, g, at
<1>10. DestZone \in ZoneRecords
    BY <1>2, <1>3, <1>7, <1>8, <1>9, Zenon DEF ZoneRecords
<1>11. /\ DestZone.z_map_size = n /\ DestZone.z_live_count = Cardinality(Committed)
       /\ DestZone.z_conds = c /\ DestZone.z_key_map = map
    BY <1>3
<1> QED BY <1>2, <1>6, <1>8, <1>10, <1>11, Zenon DEF E, n

(* Publishing a collection keeps the invariant: blocks written or          *)
(* discarded since the plan are left where they are now.                   *)
LEMMA PublishKeeps ==
    ASSUME IInv, Publish
    PROVE  IInv'
<1> DEFINE src == copy.source
           dst == copy.dest
           D   == DestZone
           zs  == [zone_status EXCEPT ![dst] = D, ![src] = EmptyZone]
           act == IF D.z_conds = "OPEN" THEN dst ELSE active_zone
           old == IF candidate.zone = src THEN NoCandidate ELSE candidate
           a   == IF candidate.zone = src /\ auto.pending = src
                  THEN [auto EXCEPT !.pending = None] ELSE auto
           K   == {k \in Keys : \E e \in Committed : e.key = k}
<1>1. /\ gc.by # "none" /\ zone_status' = zs /\ active_zone' = act
      /\ next_generation' \in {next_generation, next_generation + 1}
      /\ z_pba_map' = [k \in Keys |-> IF \E e \in Committed : e.key = k THEN Moved(k).pba
                                      ELSE z_pba_map[k]]
      /\ Returns("OK") /\ gc' = NoGC /\ copy' = NoCopy
      /\ candidate' = Candidate(zs, act, free_cursor, NoCopy, old)
      /\ free_cursor' = CandidateCursor(candidate', old, free_cursor)
      /\ auto' = Recorded(a, candidate')
      /\ UNCHANGED inflight
    BY DEF Publish, Returns, ioVars
<1>2. /\ src \in Zones /\ dst \in Zones /\ src # dst /\ active_zone \notin {src, dst}
      /\ ZoneTypes /\ QueueTypes /\ MapsAgree /\ LiveCountExact /\ OneOpenZone /\ OpenHasRoom
      /\ AppendsDisjoint /\ FlightInv /\ zone_status \in Tables
    BY <1>1 DEF IInv, CopyInv, ZoneTypes
<1>3. /\ z_pba_map' \in [Keys -> Pbas \cup {Unmapped}]
      /\ \A k \in K : /\ Moved(k) \in Committed /\ Moved(k).key = k
                      /\ Holds(k)' /\ OldZone(k)' = dst
                      /\ z_pba_map'[k] = Moved(k).pba
      /\ \A k \in Keys \ K : /\ z_pba_map'[k] = z_pba_map[k]
                             /\ Holds(k) => OldZone(k) \notin {src, dst}
      /\ \A k \in K : Holds(k) /\ OldZone(k) = src
      /\ IsFiniteSet(K) /\ Cardinality(Committed) = Cardinality(K)
    BY <1>1, PublishMap
<1>4. Cardinality(Committed) \in Nat
    <2> HIDE DEF K
    <2> QED BY <1>3, FS_CardinalityType, Zenon
<1>5. /\ D \in ZoneRecords
      /\ D.z_map_size = Len(gc.plan) /\ D.z_live_count = Cardinality(Committed)
      /\ D.z_conds = "OPEN" => active_zone = None /\ Len(gc.plan) < TotalItems
      /\ \A e \in PlanEntries : /\ AppendSlot(dst, e.pba) < Len(gc.plan)
                                /\ D.z_key_map[AppendSlot(dst, e.pba)] = e.key
    BY <1>1, <1>4, DestZoneIs
<1>6. /\ EmptyZone \in ZoneRecords /\ EmptyZone.z_conds = "EMPTY"
      /\ EmptyZone.z_map_size = 0 /\ EmptyZone.z_live_count = 0
    BY Sizes DEF EmptyZone, ZoneRecords, Conds
<1>7. K \subseteq Keys
    OBVIOUS
<1>8. \A k \in K : Moved(k) \in PlanEntries
    BY <1>3, Zenon DEF Committed
<1> HIDE DEF D, K
<1>9. /\ zs \in Tables /\ zs[dst] = D /\ zs[src] = EmptyZone
      /\ \A y \in Zones \ {src, dst} : zs[y] = zone_status[y]
    BY <1>2, <1>5, <1>6, Zenon DEF Tables
<1>10. act \in Zones \cup {None} /\ act # src
    BY <1>2, Zenon DEF ZoneTypes
<1>11. QueueTypes'
    <2>1. free_cursor \in Zones /\ auto \in AutoRecord
        BY <1>2 DEF QueueTypes, AutoRecord
    <2>2. a \in AutoRecord
        BY <2>1 DEF AutoRecord
    <2> HIDE DEF zs, act, old, a
    <2>3. /\ candidate' \in [zone : Zones \cup {None}, dest : Zones \cup {None}]
          /\ free_cursor' \in Zones
        BY <1>1, <1>9, <2>1, TablesCounted, CandidateZones, Zenon
    <2>4. auto' \in AutoRecord
        BY <1>1, <2>2, <2>3, DeferredTypes, Zenon
    <2>5. /\ worker' \in [pc : {"idle", "run", "done"}, zone : Zones \cup {None},
                          ret : {"OK", "EBUSY", "EINVAL", "ENOSPC", "EUCLEAN", "EIO"}]
          /\ worker'.pc = "run" => worker'.zone \in Zones
        BY <1>1, <1>2, ReturnsTypes, Zenon
    <2> QED BY <2>3, <2>4, <2>5 DEF QueueTypes, AutoRecord
<1> HIDE DEF zs, old, a
<1>12. ZoneTypes'
    BY <1>1, <1>2, <1>3, <1>9, <1>10 DEF ZoneTypes
<1>13. MapsAgree'
    <2> SUFFICES ASSUME NEW k \in Keys, Holds(k)'
                 PROVE  LET y == OldZone(k)'
                            s == AppendSlot(y, z_pba_map'[k])
                        IN  s < zone_status'[y].z_map_size /\ zone_status'[y].z_key_map[s] = k
        BY Zenon DEF MapsAgree
    <2>1. CASE k \in K
        <3>1. OldZone(k)' = dst /\ z_pba_map'[k] = Moved(k).pba /\ Moved(k).key = k
            BY <1>3, <2>1, Zenon
        <3>2. /\ AppendSlot(dst, Moved(k).pba) < Len(gc.plan)
              /\ D.z_key_map[AppendSlot(dst, Moved(k).pba)] = k
            BY <1>5, <1>8, <2>1, <3>1, Zenon
        <3> QED BY <1>1, <1>5, <1>9, <3>1, <3>2, ZenonT(30)
    <2>2. CASE k \notin K
        <3> DEFINE y == OldZone(k)
        <3>1. z_pba_map'[k] = z_pba_map[k] /\ OldZone(k)' = y /\ Holds(k)
            BY <1>3, <2>2, Zenon DEF OldZone, Holds
        <3>2. y \in Zones /\ y \notin {src, dst}
            BY <1>2, <1>3, <2>2, <3>1, MappedWhere, Zenon
        <3>3. zone_status'[y] = zone_status[y]
            BY <1>1, <1>9, <3>2, Zenon
        <3>4. /\ AppendSlot(y, z_pba_map[k]) < zone_status[y].z_map_size
              /\ zone_status[y].z_key_map[AppendSlot(y, z_pba_map[k])] = k
            BY <1>2, <3>1, Zenon DEF MapsAgree
        <3> HIDE DEF y
        <3> QED BY <3>1, <3>3, <3>4, Zenon
    <2> QED BY <2>1, <2>2, Zenon
<1>14. LiveCountExact'
    <2> SUFFICES ASSUME NEW y \in Zones
                 PROVE  zone_status'[y].z_live_count = Cardinality(KeysIn(y)')
        BY DEF LiveCountExact, KeysIn
    <2>1. \A k \in Keys : k \in KeysIn(y)' <=> Holds(k)' /\ OldZone(k)' = y
        BY DEF KeysIn
    <2>2. \A k \in Keys : k \in KeysIn(y) <=> Holds(k) /\ OldZone(k) = y
        BY DEF KeysIn
    <2>3. KeysIn(y)' \subseteq Keys /\ KeysIn(y) \subseteq Keys
        BY DEF KeysIn
    <2>4. \A k \in Keys \ K : (Holds(k)' <=> Holds(k)) /\ OldZone(k)' = OldZone(k)
        BY <1>3, Zenon DEF Holds, OldZone
    <2>5. CASE y = dst
        <3>1. KeysIn(y)' = K
            BY <1>3, <1>7, <2>1, <2>3, <2>4, <2>5
        <3> QED BY <1>1, <1>3, <1>5, <1>9, <2>5, <3>1, Zenon
    <2>6. CASE y = src
        <3>1. KeysIn(y)' = {}
            BY <1>2, <1>3, <1>7, <2>1, <2>3, <2>4, <2>6
        <3> QED BY <1>1, <1>6, <1>9, <2>6, <3>1, FS_EmptySet, ZenonT(30)
    <2>7. CASE y \notin {src, dst}
        <3>1. KeysIn(y)' = KeysIn(y)
            BY <1>3, <1>7, <2>1, <2>2, <2>3, <2>4, <2>7
        <3>2. zone_status[y].z_live_count = Cardinality(KeysIn(y))
            BY <1>2, ZenonT(30) DEF LiveCountExact, KeysIn
        <3> QED BY <1>1, <1>9, <2>7, <3>1, <3>2, Zenon
    <2> QED BY <2>5, <2>6, <2>7, Zenon
<1>15. OneOpenZone' /\ OpenHasRoom'
    <2> SUFFICES ASSUME NEW y \in Zones
                 PROVE  /\ zs[y].z_conds = "OPEN" <=> y = act
                        /\ zs[y].z_conds = "OPEN" => zs[y].z_map_size < TotalItems
        BY <1>1, Zenon DEF OneOpenZone, OpenHasRoom
    <2>1. CASE y = dst
        BY <1>2, <1>5, <1>9, <2>1, Zenon
    <2>2. CASE y = src
        BY <1>6, <1>9, <1>10, <2>2, Zenon
    <2>3. CASE y \notin {src, dst}
        BY <1>2, <1>5, <1>9, <2>3, NoneIsNoZone, Zenon DEF OneOpenZone, OpenHasRoom
    <2> QED BY <2>1, <2>2, <2>3, Zenon
<1>16. GCReserve'
    <2>1. src \in Free(zone_status, active_zone, copy)'
        BY <1>1, <1>2, <1>6, <1>9, <1>10, NoneIsNoZone, Zenon DEF Free, NoCopy
    <2> QED BY <2>1 DEF GCReserve
<1>17. CopyInv' /\ GCShape'
    BY <1>1, Zenon DEF CopyInv, NoGC, GCShape
<1>18. \A w \in inflight : w.pba \in Pbas /\ ZoneOf(w.pba) \in Zones /\ ZoneOf(w.pba) \notin {src, dst}
    BY <1>2, BlockHasSlot, Zenon DEF FlightInv, BelowPointer, AppendsDisjoint
<1>19. FlightInv'
    <2> SUFFICES ASSUME NEW w \in inflight PROVE BelowPointer(w)'
        BY <1>1, Zenon DEF FlightInv
    <2>1. zone_status'[ZoneOf(w.pba)] = zone_status[ZoneOf(w.pba)]
        BY <1>1, <1>9, <1>18, Zenon
    <2>2. BelowPointer(w)
        BY <1>2, Zenon DEF FlightInv
    <2> QED BY <2>1, <2>2, Zenon DEF BelowPointer
<1>20. AppendsDisjoint'
    BY <1>1, <1>2, <1>18, NoneIsNoZone, Zenon DEF AppendsDisjoint, NoCopy
<1> QED BY <1>11, <1>12, <1>13, <1>14, <1>15, <1>16, <1>17, <1>19, <1>20 DEF IInv

-----------------------------------------------------------------------------
(* Removal and reload of the target.                                       *)

(* Nothing is counted live in a zone without blocks.                       *)
LEMMA NoneLive ==
    ASSUME IInv, NEW y \in Zones, zone_status[y].z_map_size = 0
    PROVE  zone_status[y].z_live_count = 0
<1>1. zone_status[y].z_live_count = Cardinality(KeysIn(y))
    BY Zenon DEF IInv, LiveCountExact, KeysIn
<1>2. \A k \in Keys : ~(Holds(k) /\ OldZone(k) = y)
    <2> SUFFICES ASSUME NEW k \in Keys, Holds(k), OldZone(k) = y PROVE FALSE
        BY Zenon
    <2>1. AppendSlot(y, z_pba_map[k]) \in Slots
        BY MappedWhere, Zenon DEF IInv
    <2>2. AppendSlot(y, z_pba_map[k]) < 0
        BY Zenon DEF IInv, MapsAgree
    <2> QED BY <2>1, <2>2, Sizes DEF Slots
<1>3. KeysIn(y) = {}
    BY <1>2, Zenon DEF KeysIn
<1> QED BY <1>1, <1>3, FS_EmptySet, Zenon

(* The allocator resumes the open zone, if it has been written.            *)
LEMMA ResumedIs ==
    ASSUME IInv
    PROVE  /\ Resumed \in Zones \cup {None}
           /\ Resumed \in Zones =>
                 zone_status[Resumed].z_conds = "OPEN" /\ zone_status[Resumed].z_map_size \in 1 .. TotalItems - 1
<1>1. Partial \subseteq {active_zone} /\ Partial \subseteq Zones
    BY Zenon DEF IInv, OneOpenZone, Partial
<1>2. CASE Partial = {}
    BY <1>2, NoneIsNoZone, Zenon DEF Resumed
<1>3. CASE Partial # {}
    <2>1. Partial = {active_zone} /\ active_zone \in Partial
        BY <1>1, <1>3
    <2> DEFINE newest_open(z) == \A y \in Partial \ {z} :
                  \/ zone_status[z].z_generation > zone_status[y].z_generation
                  \/ zone_status[z].z_generation = zone_status[y].z_generation /\ z < y
    <2>2. newest_open(active_zone)
        BY <2>1, Zenon
    <2>3. Resumed = CHOOSE z \in Partial : newest_open(z)
        BY <1>3, Zenon DEF Resumed
    <2> HIDE DEF newest_open
    <2>4. Resumed \in Partial
        BY <2>1, <2>2, <2>3, Zenon
    <2> QED BY <2>4, Zenon DEF Partial
<1> QED BY <1>2, <1>3, Zenon

(* The recovered zone table.                                               *)
LEMMA RecoveredIs ==
    ASSUME IInv
    PROVE  /\ Recovered \in Tables
           /\ \A y \in Zones : /\ Recovered[y].z_map_size = zone_status[y].z_map_size
                               /\ Recovered[y].z_key_map = zone_status[y].z_key_map
                               /\ Recovered[y].z_live_count = zone_status[y].z_live_count
                               /\ Recovered[y].z_conds = "OPEN" <=> y = Resumed
<1> DEFINE rec(y) == LET s == zone_status[y]
                     IN  IF s.z_map_size = 0
                         THEN [s EXCEPT !.z_live_count = 0, !.z_generation = 0, !.z_conds = "EMPTY"]
                         ELSE IF s.z_map_size = TotalItems THEN [s EXCEPT !.z_conds = "FULL"]
                         ELSE IF s.z_conds = "OPEN" /\ y # Resumed THEN [s EXCEPT !.z_conds = "CLOSED"]
                         ELSE s
<1>1. Recovered = [y \in Zones |-> rec(y)]
    BY DEF Recovered
<1>2. ASSUME NEW y \in Zones
      PROVE  /\ rec(y) \in ZoneRecords
             /\ rec(y).z_map_size = zone_status[y].z_map_size
             /\ rec(y).z_key_map = zone_status[y].z_key_map
             /\ rec(y).z_live_count = zone_status[y].z_live_count
             /\ rec(y).z_conds = "OPEN" <=> y = Resumed
    <2> DEFINE s == zone_status[y]
    <2>1. s \in ZoneRecords /\ s.z_map_size \in 0 .. TotalItems
        BY Zenon DEF IInv, ZoneTypes, Tables, ZoneRecords
    <2>2. s.z_map_size = 0 => s.z_live_count = 0
        BY NoneLive, Zenon
    <2>3. y = Resumed => s.z_conds = "OPEN" /\ s.z_map_size \in 1 .. TotalItems - 1
        BY ResumedIs, Zenon
    <2> HIDE DEF s
    <2>4. CASE s.z_map_size = 0
        <3>1. rec(y) = [s EXCEPT !.z_live_count = 0, !.z_generation = 0, !.z_conds = "EMPTY"]
            BY <2>4 DEF s
        <3>2. y # Resumed
            BY <2>3, <2>4, Sizes
        <3> HIDE DEF rec
        <3> QED BY <2>1, <2>2, <2>4, <3>1, <3>2, ZenonT(30) DEF ZoneRecords, Conds, s
    <2>5. CASE s.z_map_size # 0 /\ s.z_map_size = TotalItems
        <3>1. rec(y) = [s EXCEPT !.z_conds = "FULL"]
            BY <2>5 DEF s
        <3>2. y # Resumed
            BY <2>3, <2>5, Sizes
        <3> HIDE DEF rec
        <3> QED BY <2>1, <3>1, <3>2 DEF ZoneRecords, Conds, s
    <2>6. CASE s.z_map_size # 0 /\ s.z_map_size # TotalItems /\ s.z_conds = "OPEN" /\ y # Resumed
        <3>1. rec(y) = [s EXCEPT !.z_conds = "CLOSED"]
            BY <2>6 DEF s
        <3> HIDE DEF rec
        <3> QED BY <2>1, <2>6, <3>1 DEF ZoneRecords, Conds, s
    <2>7. CASE s.z_map_size # 0 /\ s.z_map_size # TotalItems /\ ~(s.z_conds = "OPEN" /\ y # Resumed)
        <3>1. rec(y) = s
            BY <2>7 DEF s
        <3> HIDE DEF rec
        <3> QED BY <2>1, <2>3, <2>7, <3>1, Zenon DEF s
    <2> QED BY <2>4, <2>5, <2>6, <2>7, Zenon
<1> HIDE DEF rec
<1> QED BY <1>1, <1>2, Zenon DEF Tables

(* The generation that the allocator goes on with.                         *)
LEMMA GenerationIs ==
    ASSUME IInv
    PROVE  (CHOOSE g \in Generations : \A h \in Generations : h <= g) \in Nat
<1> DEFINE f == [z \in Zones |-> zone_status[z].z_generation]
<1>1. \A z \in Zones : f[z] \in Nat
    BY TablesAre, Zenon DEF IInv, ZoneTypes
<1>2. 0 \in Zones
    BY Sizes DEF Zones
<1>3. Generations = {f[z] : z \in Zones}
    BY Zenon DEF Generations
<1> HIDE DEF f
<1>4. PICK x \in Zones : \A y \in Zones : f[y] <= f[x]
    BY <1>1, <1>2, Greatest
<1>5. f[x] \in Generations /\ \A h \in Generations : h <= f[x]
    BY <1>3, <1>4, Zenon
<1>6. (CHOOSE g \in Generations : \A h \in Generations : h <= g) \in Generations
    BY <1>5
<1>7. Generations \subseteq Nat
    BY <1>1, <1>3, Zenon
<1> QED BY <1>6, <1>7, ZenonT(30)

(* A reload keeps the invariant.                                           *)
LEMMA ReloadKeeps ==
    ASSUME IInv, Reload
    PROVE  IInv'
<1> DEFINE cand == Candidate(Recovered, Resumed, 0, NoCopy, NoCandidate)
           a0 == [run |-> TRUE, pending |-> None, running |-> FALSE]
<1>1. /\ gc.by = "none" /\ zone_status' = Recovered /\ active_zone' = Resumed
      /\ next_generation' = (CHOOSE g \in Generations : \A h \in Generations : h <= g) + 1
      /\ candidate' = cand /\ free_cursor' = CandidateCursor(cand, NoCandidate, 0)
      /\ auto' = Deferred(a0, cand)
      /\ UNCHANGED <<z_pba_map, copy, worker, gc, inflight>>
    BY Zenon DEF Reload, ioVars
<1>2. /\ Recovered \in Tables
      /\ \A y \in Zones : /\ Recovered[y].z_map_size = zone_status[y].z_map_size
                          /\ Recovered[y].z_key_map = zone_status[y].z_key_map
                          /\ Recovered[y].z_live_count = zone_status[y].z_live_count
                          /\ Recovered[y].z_conds = "OPEN" <=> y = Resumed
    BY RecoveredIs, Zenon
<1>3. /\ Resumed \in Zones \cup {None}
      /\ Resumed \in Zones =>
            zone_status[Resumed].z_conds = "OPEN" /\ zone_status[Resumed].z_map_size \in 1 .. TotalItems - 1
    BY ResumedIs, Zenon
<1>4. ZoneTypes /\ QueueTypes /\ LiveCountExact /\ GCReserve /\ CopyInv
    BY DEF IInv
<1>5. ZoneTypes'
    <2>1. next_generation' \in Nat
        BY <1>1, GenerationIs
    <2> QED BY <1>1, <1>2, <1>3, <1>4, <2>1, Zenon DEF ZoneTypes
<1>6. QueueTypes'
    <2>1. 0 \in Zones
        BY Sizes DEF Zones
    <2>2. /\ cand \in [zone : Zones \cup {None}, dest : Zones \cup {None}]
          /\ CandidateCursor(cand, NoCandidate, 0) \in Zones
        BY <1>2, <2>1, TablesCounted, CandidateZones, Zenon
    <2>3. a0 \in AutoRecord
        BY Zenon DEF AutoRecord
    <2> HIDE DEF cand, a0
    <2>4. auto' \in AutoRecord
        BY <1>1, <2>2, <2>3, DeferredTypes, Zenon
    <2> QED BY <1>1, <1>4, <2>2, <2>4, Zenon DEF QueueTypes, AutoRecord
<1>7. MapsAgree' /\ AppendsDisjoint' /\ FlightInv' /\ GCShape'
    BY <1>1, <1>2, <1>5, SlotsKept, ZenonT(30)
<1>8. LiveCountExact'
    BY <1>1, <1>2, <1>4, ZenonT(30) DEF LiveCountExact, Holds, OldZone
<1>9. OneOpenZone' /\ OpenHasRoom'
    <2>1. zone_status' = Recovered /\ active_zone' = Resumed
        BY <1>1, Zenon
    <2>2. \A y \in Zones : Recovered[y].z_conds = "OPEN" <=> y = Resumed
        BY <1>2, Zenon
    <2>3. OneOpenZone'
        BY <2>1, <2>2, Zenon DEF OneOpenZone
    <2>4. Resumed \in Zones => zone_status[Resumed].z_map_size < TotalItems
        BY <1>3, Sizes
    <2>5. Resumed \in Zones => Recovered[Resumed].z_map_size < TotalItems
        BY <1>2, <2>4, Zenon
    <2>6. OpenHasRoom'
        BY <2>1, <2>2, <2>5, Zenon DEF OpenHasRoom
    <2> QED BY <2>3, <2>6
<1>10. GCReserve'
    <2> HIDE DEF cand, a0
    <2>1. copy = NoCopy /\ copy' = NoCopy /\ copy.dest = None
        <3>1. gc.by = "none" /\ copy' = copy
            BY <1>1, Zenon
        <3> QED BY <1>4, <3>1 DEF CopyInv, NoCopy
    <2>2. PICK x \in Free(zone_status, active_zone, copy) : TRUE
        BY <1>4, <2>1 DEF GCReserve
    <2>3. x \in Zones /\ x \notin {copy.source, copy.dest}
          /\ zone_status[x].z_map_size = 0 /\ zone_status[x].z_live_count = 0
        BY <2>2, Zenon DEF Free
    <2>4. x # Resumed
        BY <1>3, <2>3, Sizes
    <2>5. x \in Free(zone_status, active_zone, copy)'
        BY <1>1, <1>2, <2>1, <2>3, <2>4, Zenon DEF Free
    <2> QED BY <2>5, Zenon DEF GCReserve
<1>11. CopyInv'
    BY <1>1, <1>4, ZenonT(30) DEF CopyInv, NoCopy
<1> QED BY <1>5, <1>6, <1>7, <1>8, <1>9, <1>10, <1>11, Zenon DEF IInv

-----------------------------------------------------------------------------
(* The theorems.                                                           *)

(* Every step keeps the invariant.                                         *)
LEMMA NextKeeps == IInv /\ [Next]_vars => IInv'
<1> SUFFICES ASSUME IInv, [Next]_vars PROVE IInv'
    OBVIOUS
<1>1. CASE UNCHANGED vars
    <2>1. UNCHANGED <<zone_status, z_pba_map, active_zone, next_generation, copy, gc, inflight,
                      free_cursor, candidate, auto, worker>>
        BY <1>1, Zenon DEF vars, zoneVars, gcVars, ioVars
    <2>2. QueueTypes' /\ GCShape'
        BY <2>1 DEF IInv, QueueTypes, GCShape
    <2> QED BY <2>1, <2>2, FrameKeeps
<1>2. CASE Foreground
    BY <1>2, WriteNoSpaceKeeps, WriteKeeps, WriteNoMemKeeps, DeleteKeeps, IoKeeps, Zenon DEF Foreground
<1>3. CASE Device
    BY <1>3, IoKeeps, Zenon DEF Device
<1>4. CASE Collector
    <2>1. CASE AutoReserve
        <3>1. worker.zone \in Zones /\ Reserve("auto", worker.zone)
            BY <2>1, Zenon DEF AutoReserve, IInv, QueueTypes
        <3> QED BY <3>1, ReserveKeeps
    <2> QED BY <1>4, <2>1, WorkerKeeps, IoKeeps, PublishKeeps, Zenon DEF Collector
<1>5. CASE AbortCopy
    BY <1>5, AbortKeeps
<1>6. CASE Admin
    <2>1. ASSUME NEW z \in Zones, ManualReserve(z) PROVE IInv'
        BY <2>1, ReserveKeeps DEF ManualReserve
    <2> QED BY <1>6, <2>1, SetAutoRunKeeps, ReloadKeeps, Zenon DEF Admin
<1> QED BY <1>1, <1>2, <1>3, <1>4, <1>5, <1>6 DEF Next

(* The inductive invariant holds in every reachable state.                 *)
THEOREM InvariantHolds == Spec => []IInv
<1>1. Init => IInv
    BY InitIInv
<1>2. IInv /\ [Next]_vars => IInv'
    BY NextKeeps
<1> QED BY <1>1, <1>2, PTL DEF Spec

(* The live slots a collection finds are as many as the counter says.      *)
LEMMA LiveSlotsCounted ==
    ASSUME IInv, NEW z \in Zones
    PROVE  Cardinality(LiveSlots(z)) = zone_status[z].z_live_count
<1> DEFINE L == LiveSlots(z)
           f == [s \in L |-> zone_status[z].z_key_map[s]]
<1>1. MapTypes(z)
    BY TablesAre, Zenon DEF MapTypes, IInv, ZoneTypes
<1>2. /\ IsFiniteSet(L)
      /\ \A s \in L : /\ s \in Slots /\ zone_status[z].z_key_map[s] \in Keys
                      /\ z_pba_map[zone_status[z].z_key_map[s]] = AppendPba(z, s)
      /\ \A s, t \in L : zone_status[z].z_key_map[s] = zone_status[z].z_key_map[t] => s = t
    BY <1>1, LiveSlotsAre, Zenon
<1>3. f \in [L -> KeysIn(z)]
    <2> SUFFICES ASSUME NEW s \in L PROVE zone_status[z].z_key_map[s] \in KeysIn(z)
        OBVIOUS
    <2>1. AppendPba(z, s) \in Pbas /\ ZoneOf(AppendPba(z, s)) = z
        BY <1>2, SlotOfBlock, Zenon
    <2> QED BY <1>2, <2>1, NoneIsNoZone DEF KeysIn, Holds, OldZone, Unmapped
<1>4. \A x, y \in L : f[x] = f[y] => x = y
    BY <1>2, Zenon
<1>5. \A k \in KeysIn(z) : \E s \in L : f[s] = k
    <2> SUFFICES ASSUME NEW k \in KeysIn(z) PROVE \E s \in L : zone_status[z].z_key_map[s] = k
        OBVIOUS
    <2>1. k \in Keys /\ Holds(k) /\ OldZone(k) = z /\ MapsAgree
        BY DEF KeysIn, IInv
    <2> QED BY <1>1, <2>1, MappedIsLive
<1> HIDE DEF f, L
<1>6. Cardinality(KeysIn(z)) = Cardinality(L)
    BY <1>2, <1>3, <1>4, <1>5, SameCount, Zenon
<1> QED BY <1>6, Zenon DEF L, IInv, LiveCountExact, KeysIn

(* A collection that may start finds a free zone, and every mapped block   *)
(* has its slot.                                                           *)
LEMMA FitFollows == IInv => CollectionsFit
<1> SUFFICES ASSUME IInv PROVE CollectionsFit
    OBVIOUS
<1>1. ASSUME NEW k \in Keys PROVE ~Unclean(k)
    BY NeverUnclean, Zenon DEF IInv, Unclean
<1>2. ASSUME gc.by = "none", NEW z \in Zones PROVE CompactError(z) \notin {"ENOSPC", "EUCLEAN"}
    <2> DEFINE free == Free(zone_status, active_zone, copy)
    <2>1. free # {} /\ free \in SUBSET Zones /\ free_cursor \in Zones
        BY <1>2 DEF IInv, CopyInv, GCReserve, NoCopy, Free, QueueTypes
    <2>2. ASSUME zone_status[z].z_map_size # 0 PROVE PlanDest(z) # None
        <3>1. z \notin free
            BY <2>2, Zenon DEF Free
        <3>2. free \ {z} = free
            BY <3>1
        <3> HIDE DEF free
        <3>3. FirstFrom(free \ {z}, free_cursor) \in Zones
            BY <2>1, <3>2, FirstFromFinds, Zenon
        <3>4. PlanDest(z) \in Zones
            BY <2>1, <3>3, Zenon DEF PlanDest, free
        <3> QED BY <3>4, NoneIsNoZone
    <2>3. Cardinality(LiveSlots(z)) = zone_status[z].z_live_count
        BY LiveSlotsCounted
    <2> QED BY <2>2, <2>3, Zenon DEF CompactError
<1> QED BY <1>1, <1>2 DEF CollectionsFit

(* The forward map and the reverse maps of the zones agree after every     *)
(* write, discard, collection, abort and reload.                           *)
THEOREM MapsAlwaysAgree == Spec => []MapsAgree
<1>1. IInv => MapsAgree
    BY DEF IInv
<1> QED BY <1>1, InvariantHolds, PTL

(* imr_lsm_append_logical_block_locked, the discard and the publication    *)
(* keep z_live_count exact.                                                *)
THEOREM LiveCountAlwaysExact == Spec => []LiveCountExact
<1>1. IInv => LiveCountExact
    BY DEF IInv
<1> QED BY <1>1, InvariantHolds, PTL

(* imr_lsm_activate_zone_locked always leaves the collector a zone.        *)
THEOREM ReserveAlwaysKept == Spec => []GCReserve
<1>1. IInv => GCReserve
    BY DEF IInv
<1> QED BY <1>1, InvariantHolds, PTL

(* The active zone, and no other, is open.                                 *)
THEOREM OneZoneAlwaysOpen == Spec => []OneOpenZone
<1>1. IInv => OneOpenZone
    BY DEF IInv
<1> QED BY <1>1, InvariantHolds, PTL

(* Appends in flight never share a block, and never go to a zone that is   *)
(* being copied.                                                           *)
THEOREM AppendsAlwaysDisjoint == Spec => []AppendsDisjoint
<1>1. IInv => AppendsDisjoint
    BY DEF IInv
<1> QED BY <1>1, InvariantHolds, PTL

(* imr_lsm_prepare_zone_compaction_locked never fails with -ENOSPC or      *)
(* -EUCLEAN, and no write or discard with -EUCLEAN.                        *)
THEOREM CollectionsAlwaysFit == Spec => []CollectionsFit
<1>1. IInv => CollectionsFit
    BY FitFollows
<1> QED BY <1>1, InvariantHolds, PTL
=============================================================================
