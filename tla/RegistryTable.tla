---------------------------- MODULE RegistryTable -----------------------------
(***************************************************************************)
(* What the operators of the span registry do to a table and to a list of  *)
(* descriptors, for any size, any probe sequence and any contents:         *)
(* index_put of a unit that has no entry, index_del of one that has,       *)
(* index_rehash.                                                           *)
(***************************************************************************)
EXTENDS Registry, Integers, FiniteSetTheorems, SequenceTheorems,
        WellFoundedInduction, TLAPS

CellType  == [unit : Nat, span : Nat \cup {none}]
TableType == UNION {[cap : {n}, slot : [0 .. n - 1 -> CellType]] : n \in Nat \ {0}}

Full(ix, i)  == ix.slot[i].span # none
InUse(ix, i) == ix.slot[i].span \notin {none, MM_UNIT_TOMB}

\* An entry is found from where its unit's probe sequence starts; a unit has one.
Reached(ix, i) ==
  /\ ix.slot[i].unit \in 1 .. Units
  /\ \E k \in 0 .. ix.cap - 1 :
       /\ i = Probe(ix, ix.slot[i].unit, k)
       /\ \A h \in 0 .. k - 1 : Full(ix, Probe(ix, ix.slot[i].unit, h))

Chained(ix) == \A i \in 0 .. ix.cap - 1 : InUse(ix, i) => Reached(ix, i)

Single(ix) ==
  \A i, j \in 0 .. ix.cap - 1 :
    InUse(ix, i) /\ InUse(ix, j) /\ ix.slot[i].unit = ix.slot[j].unit => i = j

Entered(ix, u, d) == \E i \in 0 .. ix.cap - 1 : ix.slot[i] = [unit |-> u, span |-> d]

Cells(ix) == {i \in 0 .. ix.cap - 1 : Full(ix, i)}
Files(ix) == {i \in 0 .. ix.cap - 1 : InUse(ix, i)}

OneToOne(s) == \A i, j \in DOMAIN s : s[i] = s[j] => i = j

-------------------------------------------------------------------------------
(***************************************************************************)
(* Numbers.                                                                *)
(***************************************************************************)
LEMMA NatLeast ==
  ASSUME NEW T \in SUBSET Nat, T # {}
  PROVE  \E x \in T : \A y \in T : x <= y
<1> DEFINE R == OpToRel(<, Nat)
<1>1. IsWellFoundedOn(R, Nat)
  BY NatLessThanWellFounded
<1>2. \A x, y \in Nat : x < y => <<x, y>> \in R
  BY DEF OpToRel
<1> HIDE DEF R
<1>3. PICK x \in T : \A y \in T : ~ (<<y, x>> \in R)
  BY <1>1, WFMin
<1>4. ASSUME NEW y \in T
      PROVE  x <= y
  <2>1. x \in Nat /\ y \in Nat /\ ~(y < x)
    BY <1>2, <1>3
  <2> QED
    BY <2>1
<1> QED
  BY <1>4

LEMMA MinOf ==
  ASSUME NEW T \in SUBSET Nat, T # {}
  PROVE  Min(T) \in T /\ Min(T) \in Nat /\ \A y \in T : Min(T) <= y
<1>1. \E x \in T : \A y \in T : x <= y
  BY NatLeast
<1> QED
  BY <1>1 DEF Min

LEMMA DivMod ==
  ASSUME NEW n \in Int, NEW m \in Nat \ {0}
  PROVE  /\ n % m \in 0 .. m - 1 /\ n \div m \in Int
         /\ n = m * (n \div m) + (n % m)
  OBVIOUS

\* A number is the only remainder of itself, and of itself and one round more.
LEMMA Residue ==
  ASSUME NEW m \in Nat \ {0}, NEW r \in 0 .. m - 1
  PROVE  r % m = r /\ (r + m) % m = r
<1>1. ASSUME NEW q \in Int, NEW n \in Int, n = m * q + r
      PROVE  n % m = r
  <2> DEFINE d == n \div m
             e == n % m
  <2>1. e \in 0 .. m - 1 /\ d \in Int /\ n = m * d + e
    BY DivMod
  <2> HIDE DEF d, e
  <2>2. m * (d - q) = m * d - m * q
    BY <2>1
  <2>3. m * (d - q) = r - e /\ r - e < m /\ e - r < m
    BY <1>1, <2>1, <2>2
  <2>4. CASE d - q >= 1
    <3>1. m * (d - q) >= m
      BY <2>1, <2>4
    <3> QED
      BY <2>1, <2>3, <3>1
  <2>5. CASE d - q <= -1
    <3>1. m * (d - q) <= -m
      BY <2>1, <2>5
    <3> QED
      BY <2>3, <3>1, <2>1
  <2>6. CASE d = q
    BY <2>1, <1>1, <2>6 DEF e
  <2> QED
    BY <2>1, <2>4, <2>5, <2>6
<1>2. r \in Int /\ r = m * 0 + r /\ r + m \in Int /\ r + m = m * 1 + r
  OBVIOUS
<1> QED
  BY <1>1, <1>2

\* One step further along a probe sequence that starts at s.
LEMMA NextProbe ==
  ASSUME NEW m \in Nat \ {0}, NEW s \in 0 .. m - 1, NEW k \in 0 .. m - 1
  PROVE  (((s + k) % m) + 1) % m = (s + (k + 1)) % m
<1> DEFINE j == s + k
<1>1. j \in Nat /\ j < m + m
  OBVIOUS
<1>2. CASE j < m
  <2>1. j \in 0 .. m - 1
    BY <1>1, <1>2
  <2>2. j % m = j
    BY <2>1, Residue
  <2> QED
    BY <2>2
<1>3. CASE j >= m
  <2> DEFINE r == j - m
  <2>1. r \in 0 .. m - 1 /\ j = r + m
    BY <1>1, <1>3
  <2>2. j % m = r
    BY <2>1, Residue
  <2>3. (r + 1) % m = ((r + 1) + m) % m
    <3>1. CASE r + 1 < m
      <4>1. r + 1 \in 0 .. m - 1
        BY <2>1, <3>1
      <4> QED
        BY <4>1, Residue
    <3>2. CASE r + 1 = m
      <4>1. 0 \in 0 .. m - 1
        OBVIOUS
      <4>2. 0 % m = 0 /\ (0 + m) % m = 0
        BY <4>1, Residue
      <4>3. m % m = 0
        BY <4>2
      <4>4. r = m - 1 /\ r = k + s - m
        BY <2>1, <3>2
      <4>5. m + m - 1 = s + k
        BY <4>4
      <4>6. FALSE
        BY <4>5
      <4> QED
        BY <4>6
    <3> QED
      BY <2>1, <3>1, <3>2
  <2>4. s + (k + 1) = (r + 1) + m
    BY <2>1
  <2> QED
    BY <2>2, <2>3, <2>4
<1> QED
  BY <1>1, <1>2, <1>3

\* The probe sequence passes every slot.
LEMMA EverySlot ==
  ASSUME NEW m \in Nat \ {0}, NEW s \in 0 .. m - 1, NEW i \in 0 .. m - 1
  PROVE  \E k \in 0 .. m - 1 : (s + k) % m = i
<1>1. CASE i >= s
  <2>1. i - s \in 0 .. m - 1 /\ s + (i - s) = i
    BY <1>1
  <2>2. i % m = i
    BY Residue
  <2> QED
    BY <2>1, <2>2
<1>2. CASE i < s
  <2>1. i + m - s \in 0 .. m - 1 /\ s + (i + m - s) = i + m
    BY <1>2
  <2>2. (i + m) % m = i
    BY Residue
  <2> QED
    BY <2>1, <2>2
<1> QED
  BY <1>1, <1>2

-------------------------------------------------------------------------------
(***************************************************************************)
(* A table.                                                                *)
(***************************************************************************)
LEMMA TableFields ==
  ASSUME NEW ix \in TableType
  PROVE  /\ ix.cap \in Nat \ {0} /\ ix.slot \in [0 .. ix.cap - 1 -> CellType]
         /\ DOMAIN ix = {"cap", "slot"}
         /\ \A i \in 0 .. ix.cap - 1 : /\ ix.slot[i].unit \in Nat /\ ix.slot[i].span \in Nat \cup {none}
                                       /\ ix.slot[i] = [unit |-> ix.slot[i].unit, span |-> ix.slot[i].span]
<1>1. PICK n \in Nat \ {0} : ix \in [cap : {n}, slot : [0 .. n - 1 -> CellType]]
  BY DEF TableType
<1>2. ix.cap = n /\ ix.slot \in [0 .. ix.cap - 1 -> CellType] /\ DOMAIN ix = {"cap", "slot"}
  BY <1>1
<1>3. ASSUME NEW i \in 0 .. ix.cap - 1
      PROVE  /\ ix.slot[i].unit \in Nat /\ ix.slot[i].span \in Nat \cup {none}
             /\ ix.slot[i] = [unit |-> ix.slot[i].unit, span |-> ix.slot[i].span]
  <2>1. ix.slot[i] \in CellType
    BY <1>2
  <2> QED
    BY <2>1 DEF CellType
<1> QED
  BY <1>2, <1>3

LEMMA TableFrom ==
  ASSUME NEW cap \in Nat \ {0}, NEW slot \in [0 .. cap - 1 -> CellType]
  PROVE  [cap |-> cap, slot |-> slot] \in TableType
  BY DEF TableType

LEMMA MixNat ==
  ASSUME NEW u \in 1 .. Units
  PROVE  Mix[u] \in Nat
  BY RegistryAssumption

LEMMA Constants ==
  /\ Units \in Nat \ {0} /\ MM_INDEX_STATIC \in Nat \ {0} /\ none \notin Nat /\ none \notin Arenas
  /\ MaxTables \in Nat /\ MaxSpans \in Nat
  BY RegistryAssumption

LEMMA ProbeIn ==
  ASSUME NEW ix \in TableType, NEW u \in 1 .. Units
  PROVE  /\ slot_for(u, ix.cap) \in 0 .. ix.cap - 1
         /\ \A k \in Nat : Probe(ix, u, k) \in 0 .. ix.cap - 1
         /\ Probe(ix, u, 0) = slot_for(u, ix.cap)
         /\ \A k \in 0 .. ix.cap - 1 : (Probe(ix, u, k) + 1) % ix.cap = Probe(ix, u, k + 1)
         /\ \A i \in 0 .. ix.cap - 1 : \E k \in 0 .. ix.cap - 1 : Probe(ix, u, k) = i
<1> DEFINE m == ix.cap
           s == slot_for(u, ix.cap)
<1>1. m \in Nat \ {0} /\ Mix[u] \in Nat
  BY TableFields, MixNat
<1>2. s \in 0 .. m - 1
  <2>1. Mix[u] \in Int /\ s = Mix[u] % m
    BY <1>1 DEF slot_for
  <2> HIDE DEF s, m
  <2> QED
    BY <1>1, <2>1, DivMod
<1>3. \A k \in Nat : Probe(ix, u, k) = (s + k) % m
  BY DEF Probe
<1> HIDE DEF s, m
<1>4. \A k \in Nat : (s + k) % m \in 0 .. m - 1
  BY <1>1, <1>2, DivMod
<1>5. s % m = s
  BY <1>1, <1>2, Residue
<1>6. ASSUME NEW k \in 0 .. m - 1
      PROVE  (Probe(ix, u, k) + 1) % m = Probe(ix, u, k + 1)
  <2>1. (((s + k) % m) + 1) % m = (s + (k + 1)) % m
    BY <1>1, <1>2, NextProbe
  <2>2. k \in Nat /\ k + 1 \in Nat
    OBVIOUS
  <2> QED
    BY <1>3, <2>1, <2>2
<1>7. ASSUME NEW i \in 0 .. m - 1
      PROVE  \E k \in 0 .. m - 1 : Probe(ix, u, k) = i
  <2>1. PICK k \in 0 .. m - 1 : (s + k) % m = i
    BY <1>1, <1>2, EverySlot
  <2>2. k \in Nat
    OBVIOUS
  <2> QED
    BY <2>1, <2>2, <1>3
<1>8. \A k \in Nat : Probe(ix, u, k) \in 0 .. m - 1
  BY <1>3, <1>4
<1>9. Probe(ix, u, 0) = s
  <2>1. s + 0 = s
    BY <1>2
  <2> QED
    BY <1>3, <1>5, <2>1
<1> QED
  BY <1>2, <1>6, <1>7, <1>8, <1>9 DEF m, s

-------------------------------------------------------------------------------
(***************************************************************************)
(* index_put of a unit that has no entry.                                  *)
(***************************************************************************)
Unfiled(ix, u) == \A i \in 0 .. ix.cap - 1 : InUse(ix, i) => ix.slot[i].unit # u

\* s is the empty slot at the end of the unit's chain.
ChainEnd(ix, u, s) ==
  /\ s \in 0 .. ix.cap - 1 /\ ~Full(ix, s)
  /\ \E k \in 0 .. ix.cap - 1 : /\ s = Probe(ix, u, k)
                                /\ \A h \in 0 .. k - 1 : Full(ix, Probe(ix, u, h))

\* new is ix with an entry in s.
EntryAt(ix, new, s, u, d) ==
  /\ new \in TableType /\ new.cap = ix.cap
  /\ \A i \in 0 .. ix.cap - 1 :
       new.slot[i] = IF i = s THEN [unit |-> u, span |-> d] ELSE ix.slot[i]

EntryMade(ix, new, s, u, d) ==
  /\ Chained(new) /\ Single(new)
  /\ \A v \in Nat, e \in Nat : Entered(new, v, e) <=> (Entered(ix, v, e) \/ (v = u /\ e = d))
  /\ Cells(new) = Cells(ix) \cup {s} /\ Files(new) = Files(ix) \cup {s} /\ s \notin Cells(ix)

LEMMA SameProbe ==
  ASSUME NEW ix, NEW new, new.cap = ix.cap
  PROVE  \A u, k : Probe(new, u, k) = Probe(ix, u, k)
  BY DEF Probe

LEMMA PutSlotEnd ==
  ASSUME NEW ix \in TableType, NEW u \in 1 .. Units, Unfiled(ix, u),
         NEW e \in 0 .. ix.cap - 1, ~Full(ix, e)
  PROVE  ChainEnd(ix, u, PutSlot(ix, u))
<1> DEFINE T == {k \in 0 .. ix.cap - 1 :
                   LET i == Probe(ix, u, k) IN ix.slot[i].span = none \/ Filed(ix, i, u)}
           m == Min(T)
<1>1. ix.cap \in Nat \ {0}
  BY TableFields
<1>2. PICK x \in 0 .. ix.cap - 1 : Probe(ix, u, x) = e
  BY ProbeIn
<1>3. x \in T
  BY <1>2 DEF Full
<1>4. T \in SUBSET Nat /\ T # {}
  BY <1>1, <1>3
<1>5. m \in T /\ \A y \in T : m <= y
  BY <1>4, MinOf
<1>6. PutSlot(ix, u) = Probe(ix, u, m)
  BY DEF PutSlot
<1>7. \A k \in 0 .. ix.cap - 1 : k \in T <=> ~Full(ix, Probe(ix, u, k))
  <2> SUFFICES ASSUME NEW k \in 0 .. ix.cap - 1
               PROVE  k \in T <=> ~Full(ix, Probe(ix, u, k))
    OBVIOUS
  <2>1. k \in Nat
    BY <1>1
  <2>2. Probe(ix, u, k) \in 0 .. ix.cap - 1
    BY <2>1, ProbeIn
  <2>3. ~Filed(ix, Probe(ix, u, k), u)
    BY <2>2 DEF Unfiled, Filed, InUse
  <2> QED
    BY <2>3 DEF Full
<1>8. m \in 0 .. ix.cap - 1
  BY <1>5
<1> HIDE DEF T, m
<1>9. ASSUME NEW h \in 0 .. m - 1
      PROVE  Full(ix, Probe(ix, u, h))
  <2>1. h \in 0 .. ix.cap - 1 /\ ~(m <= h)
    BY <1>1, <1>8
  <2> QED
    BY <2>1, <1>5, <1>7
<1>10. m \in Nat
  BY <1>1, <1>8
<1>11. Probe(ix, u, m) \in 0 .. ix.cap - 1
  BY <1>10, ProbeIn
<1> QED
  BY <1>5, <1>6, <1>7, <1>8, <1>9, <1>11 DEF ChainEnd

LEMMA PutEntry ==
  ASSUME NEW ix \in TableType, NEW u \in Nat, NEW d \in Nat, NEW s \in 0 .. ix.cap - 1,
         PutSlot(ix, u) = s
  PROVE  EntryAt(ix, index_put(ix, u, d), s, u, d)
<1> DEFINE new == index_put(ix, u, d)
<1>1. /\ ix.cap \in Nat \ {0} /\ ix.slot \in [0 .. ix.cap - 1 -> CellType]
      /\ DOMAIN ix = {"cap", "slot"}
  BY TableFields
<1>2. new = [ix EXCEPT !.slot[s] = [unit |-> u, span |-> d]]
  BY DEF index_put
<1> HIDE DEF new
<1>3. new.slot = [ix.slot EXCEPT ![s] = [unit |-> u, span |-> d]] /\ new.cap = ix.cap
  BY <1>1, <1>2
<1>4. [unit |-> u, span |-> d] \in CellType
  BY DEF CellType
<1>5. new.slot \in [0 .. ix.cap - 1 -> CellType]
  BY <1>1, <1>3, <1>4
<1>6. \A i \in 0 .. ix.cap - 1 :
        new.slot[i] = IF i = s THEN [unit |-> u, span |-> d] ELSE ix.slot[i]
  BY <1>1, <1>3
<1>7. new \in [cap : {ix.cap}, slot : [0 .. ix.cap - 1 -> CellType]]
  <2>1. ix \in [cap : {ix.cap}, slot : [0 .. ix.cap - 1 -> CellType]]
    <3>1. PICK n \in Nat \ {0} : ix \in [cap : {n}, slot : [0 .. n - 1 -> CellType]]
      BY DEF TableType
    <3> QED
      BY <3>1
  <2> QED
    BY <1>2, <1>3, <1>5, <2>1
<1>8. new \in TableType
  BY <1>1, <1>7 DEF TableType
<1> QED
  BY <1>3, <1>6, <1>8 DEF EntryAt, new

\* The entry closes no other chain and is found by its own.
LEMMA EntryKept ==
  ASSUME NEW ix \in TableType, NEW new, NEW s, NEW u \in 1 .. Units, NEW d \in Nat \ {0},
         ChainEnd(ix, u, s), EntryAt(ix, new, s, u, d), Unfiled(ix, u),
         Chained(ix), Single(ix)
  PROVE  EntryMade(ix, new, s, u, d)
<1>1. new \in TableType /\ new.cap = ix.cap /\ ix.cap \in Nat \ {0}
  BY TableFields DEF EntryAt
<1>2. s \in 0 .. ix.cap - 1 /\ ~Full(ix, s)
  BY DEF ChainEnd
<1>3. new.slot[s] = [unit |-> u, span |-> d]
  BY <1>2 DEF EntryAt
<1>4. \A i \in 0 .. ix.cap - 1 : i # s => new.slot[i] = ix.slot[i]
  BY DEF EntryAt
<1>5. d \notin {none, MM_UNIT_TOMB}
  BY Constants DEF MM_UNIT_TOMB
<1>6. new.slot[s].unit = u /\ new.slot[s].span = d
  BY <1>3
<1>7. InUse(new, s) /\ Full(new, s)
  BY <1>5, <1>6 DEF InUse, Full
<1>8. ~InUse(ix, s)
  BY <1>2 DEF Full, InUse
<1>9. \A i \in 0 .. ix.cap - 1 : i # s => (InUse(new, i) <=> InUse(ix, i)) /\ (Full(new, i) <=> Full(ix, i))
  BY <1>4 DEF InUse, Full
<1>10. \A i : Full(ix, i) /\ i \in 0 .. ix.cap - 1 => Full(new, i)
  BY <1>2, <1>9
<1>11. \A v, k : Probe(new, v, k) = Probe(ix, v, k)
  BY <1>1, SameProbe
<1>12. \A v \in 1 .. Units, k \in Nat : Full(ix, Probe(ix, v, k)) => Full(new, Probe(new, v, k))
  <2> SUFFICES ASSUME NEW v \in 1 .. Units, NEW k \in Nat, Full(ix, Probe(ix, v, k))
               PROVE  Full(new, Probe(ix, v, k))
    BY <1>11
  <2>1. Probe(ix, v, k) \in 0 .. ix.cap - 1
    BY ProbeIn
  <2> QED
    BY <2>1, <1>10
<1>13. ASSUME NEW i \in 0 .. new.cap - 1, InUse(new, i)
       PROVE  Reached(new, i)
  <2>1. CASE i = s
    <3>1. PICK k \in 0 .. ix.cap - 1 : /\ s = Probe(ix, u, k)
                                       /\ \A h \in 0 .. k - 1 : Full(ix, Probe(ix, u, h))
      BY DEF ChainEnd
    <3>2. \A h \in 0 .. k - 1 : Full(new, Probe(new, u, h))
      BY <1>1, <1>12, <3>1
    <3> QED
      BY <2>1, <3>1, <3>2, <1>1, <1>6, <1>11 DEF Reached
  <2>2. CASE i # s
    <3> DEFINE v == ix.slot[i].unit
    <3>1. i \in 0 .. ix.cap - 1 /\ new.slot[i] = ix.slot[i] /\ InUse(ix, i)
      BY <1>1, <1>4, <1>9, <1>13, <2>2
    <3>2. Reached(ix, i)
      BY <3>1 DEF Chained
    <3>3. v \in 1 .. Units
      BY <3>2 DEF Reached
    <3>4. PICK k \in 0 .. ix.cap - 1 : /\ i = Probe(ix, v, k)
                                       /\ \A h \in 0 .. k - 1 : Full(ix, Probe(ix, v, h))
      BY <3>2 DEF Reached
    <3> HIDE DEF v
    <3>5. \A h \in 0 .. k - 1 : Full(new, Probe(new, v, h))
      BY <1>1, <1>12, <3>3, <3>4
    <3>6. new.slot[i].unit = v
      BY <3>1 DEF v
    <3> QED
      BY <3>3, <3>4, <3>5, <3>6, <1>1, <1>11 DEF Reached
  <2> QED
    BY <2>1, <2>2
<1>14. Chained(new)
  BY <1>13 DEF Chained
<1>15. Single(new)
  <2> SUFFICES ASSUME NEW i \in 0 .. ix.cap - 1, NEW j \in 0 .. ix.cap - 1,
                      InUse(new, i), InUse(new, j), new.slot[i].unit = new.slot[j].unit
               PROVE  i = j
    BY <1>1 DEF Single
  <2>1. CASE i # s /\ j # s
    BY <2>1, <1>4, <1>9 DEF Single
  <2>2. CASE i = s /\ j # s
    BY <2>2, <1>4, <1>6, <1>9 DEF Unfiled
  <2>3. CASE i # s /\ j = s
    BY <2>3, <1>4, <1>6, <1>9 DEF Unfiled
  <2> QED
    BY <2>1, <2>2, <2>3
<1>16. ASSUME NEW v \in Nat, NEW e \in Nat
       PROVE  Entered(new, v, e) <=> (Entered(ix, v, e) \/ (v = u /\ e = d))
  <2> DEFINE x == [unit |-> v, span |-> e]
  <2>1. ASSUME NEW i \in 0 .. ix.cap - 1, new.slot[i] = x
        PROVE  Entered(ix, v, e) \/ (v = u /\ e = d)
    <3>1. CASE i = s
      BY <3>1, <2>1, <1>6
    <3>2. CASE i # s
      BY <3>2, <2>1, <1>4 DEF Entered
    <3> QED
      BY <3>1, <3>2
  <2>2. ASSUME NEW i \in 0 .. ix.cap - 1, ix.slot[i] = x
        PROVE  Entered(new, v, e)
    <3>1. i # s
      BY <2>2, <1>2, Constants DEF Full
    <3> QED
      BY <3>1, <2>2, <1>1, <1>4 DEF Entered
  <2> QED
    BY <2>1, <2>2, <1>1, <1>2, <1>3 DEF Entered
<1>17. Cells(new) = Cells(ix) \cup {s} /\ s \notin Cells(ix)
  BY <1>1, <1>2, <1>7, <1>9 DEF Cells
<1>18. Files(new) = Files(ix) \cup {s}
  BY <1>1, <1>2, <1>7, <1>9 DEF Files
<1> QED
  BY <1>14, <1>15, <1>16, <1>17, <1>18 DEF EntryMade

-------------------------------------------------------------------------------
(***************************************************************************)
(* index_rehash.                                                           *)
(***************************************************************************)
Doubles(n, f) ==
  f = [j \in 0 .. n |-> IF j = 0 THEN MM_INDEX_STATIC ELSE 2 * f[j - 1]]

LEMMA DoublesExist ==
  ASSUME NEW n \in Nat
  PROVE  \E f : Doubles(n, f)
<1> DEFINE T == {m \in Nat : ~\E f : Doubles(m, f)}
<1> SUFFICES ASSUME T # {} PROVE FALSE
  OBVIOUS
<1>1. T \in SUBSET Nat
  OBVIOUS
<1>2. PICK m \in T : \A y \in T : m <= y
  BY <1>1, NatLeast
<1>3. CASE m = 0
  <2> DEFINE f == [j \in 0 .. 0 |-> MM_INDEX_STATIC]
  <2>1. Doubles(0, f)
    BY DEF Doubles
  <2> QED
    BY <1>2, <1>3, <2>1
<1>4. CASE m # 0
  <2>1. m \in Nat /\ m - 1 \in Nat /\ ~(m <= m - 1)
    BY <1>2, <1>4
  <2>2. m - 1 \notin T
    BY <1>2, <2>1
  <2>3. PICK g : Doubles(m - 1, g)
    BY <2>1, <2>2
  <2> DEFINE f == [j \in 0 .. m |-> IF j = m THEN 2 * g[m - 1] ELSE g[j]]
  <2>4. g = [j \in 0 .. m - 1 |-> IF j = 0 THEN MM_INDEX_STATIC ELSE 2 * g[j - 1]]
    BY <2>3 DEF Doubles
  <2>5. ASSUME NEW j \in 0 .. m
        PROVE  f[j] = IF j = 0 THEN MM_INDEX_STATIC ELSE 2 * f[j - 1]
    <3>1. CASE j = m
      <4>1. j - 1 \in 0 .. m /\ j - 1 # m
        BY <2>1, <3>1
      <4> QED
        BY <3>1, <4>1, <1>4
    <3>2. CASE j # m /\ j # 0
      <4>1. j - 1 \in 0 .. m /\ j - 1 # m /\ j \in 0 .. m - 1
        BY <2>1, <3>2
      <4>2. f[j] = g[j] /\ f[j - 1] = g[j - 1]
        BY <3>2, <4>1
      <4>3. g[j] = 2 * g[j - 1]
        BY <3>2, <4>1, <2>4
      <4> QED
        BY <3>2, <4>2, <4>3
    <3>3. CASE j # m /\ j = 0
      <4>1. 0 \in 0 .. m - 1
        BY <2>1
      <4> QED
        BY <3>3, <4>1, <2>4
    <3> QED
      BY <3>1, <3>2, <3>3
  <2>6. Doubles(m, f)
    BY <2>5 DEF Doubles
  <2> QED
    BY <1>2, <2>6
<1> QED
  BY <1>3, <1>4

LEMMA DoubledIs ==
  ASSUME NEW n \in Nat
  PROVE  Doubles(n, Doubled(n))
<1>1. \E f : Doubles(n, f)
  BY DoublesExist
<1> QED
  BY <1>1 DEF Doubled, Doubles

LEMMA DoubledGrows ==
  ASSUME NEW n \in Nat, NEW j \in 0 .. n
  PROVE  /\ Doubled(n)[j] \in Nat \ {0} /\ (j >= 1 => Doubled(n)[j] >= 2)
         /\ (j >= 2 => Doubled(n)[j] >= 4 * (j - 1))
<1> DEFINE f == Doubled(n)
           P(i) == /\ f[i] \in Nat \ {0} /\ (i >= 1 => f[i] >= 2)
                   /\ (i >= 2 => f[i] >= 4 * (i - 1))
           T == {i \in 0 .. n : ~P(i)}
<1>1. Doubles(n, f)
  BY DoubledIs
<1>2. \A i \in 0 .. n : f[i] = IF i = 0 THEN MM_INDEX_STATIC ELSE 2 * f[i - 1]
  BY <1>1 DEF Doubles
<1> HIDE DEF f
<1> SUFFICES ASSUME T # {} PROVE FALSE
  BY DEF f
<1>3. T \in SUBSET Nat
  OBVIOUS
<1>4. PICK m \in T : \A y \in T : m <= y
  BY <1>3, NatLeast
<1>5. m \in 0 .. n /\ ~P(m)
  BY <1>4
<1>6. CASE m = 0
  <2>1. P(0)
    BY <1>2, Constants
  <2> QED
    BY <1>5, <1>6, <2>1
<1>7. CASE m # 0
  <2>1. m - 1 \in 0 .. n /\ ~(m <= m - 1)
    BY <1>5, <1>7
  <2>2. P(m - 1)
    BY <1>4, <2>1
  <2>3. f[m] = 2 * f[m - 1]
    BY <1>2, <1>5, <1>7
  <2> DEFINE x == f[m - 1]
             y == f[m]
  <2>4. x \in Nat \ {0} /\ (m - 1 >= 1 => x >= 2) /\ (m - 1 >= 2 => x >= 4 * ((m - 1) - 1)) /\ y = 2 * x
    BY <2>2, <2>3
  <2> HIDE DEF x, y
  <2>5. y \in Nat \ {0} /\ (m >= 1 => y >= 2) /\ (m >= 2 => y >= 4 * (m - 1))
    BY <2>4, <1>5, <1>7
  <2> QED
    BY <2>5, <1>5 DEF y
<1> QED
  BY <1>6, <1>7

LEMMA RehashCapFits ==
  ASSUME live \in Nat
  PROVE  RehashCap \in Nat \ {0} /\ RehashCap >= 4 * (live + 1)
<1> DEFINE f == Doubled(live + 2)
           T == {j \in 0 .. live + 2 : f[j] >= (live + 1) * 4}
<1>1. \A j \in 0 .. live + 2 : f[j] \in Nat \ {0} /\ (j >= 2 => f[j] >= 4 * (j - 1))
  BY DoubledGrows
<1>2. live + 2 \in 0 .. live + 2 /\ live + 2 >= 2 /\ 4 * ((live + 2) - 1) = (live + 1) * 4
  OBVIOUS
<1>3. RehashCap = f[Min(T)]
  BY DEF RehashCap
<1> HIDE DEF f
<1>4. f[live + 2] >= (live + 1) * 4
  BY <1>1, <1>2
<1>5. T \in SUBSET Nat /\ T # {}
  BY <1>2, <1>4
<1>6. Min(T) \in T
  BY <1>5, MinOf
<1> DEFINE m == Min(T)
<1>7. m \in 0 .. live + 2 /\ f[m] >= (live + 1) * 4
  BY <1>6
<1> HIDE DEF m, T
<1>8. RehashCap = f[m] /\ f[m] \in Nat \ {0}
  BY <1>1, <1>3, <1>7 DEF m
<1> QED
  BY <1>7, <1>8

RefillsTo(old, cap, n, new) ==
  new = [i \in 0 .. n |->
           IF i = 0 THEN EmptyTable(cap)
           ELSE LET c == old.slot[i - 1]
                IN  IF c.span \in {none, MM_UNIT_TOMB} THEN new[i - 1]
                    ELSE index_put(new[i - 1], c.unit, c.span)]

LEMMA RefillsExist ==
  ASSUME NEW old, NEW cap, NEW n \in Nat
  PROVE  \E f : RefillsTo(old, cap, n, f)
<1> DEFINE T == {m \in Nat : ~\E f : RefillsTo(old, cap, m, f)}
           Step(i, prev) == LET c == old.slot[i - 1]
                            IN  IF c.span \in {none, MM_UNIT_TOMB} THEN prev
                                ELSE index_put(prev, c.unit, c.span)
<1>0. \A m, f : RefillsTo(old, cap, m, f) <=>
        f = [i \in 0 .. m |-> IF i = 0 THEN EmptyTable(cap) ELSE Step(i, f[i - 1])]
  BY DEF RefillsTo
<1> HIDE DEF Step
<1> SUFFICES ASSUME T # {} PROVE FALSE
  OBVIOUS
<1>1. T \in SUBSET Nat
  OBVIOUS
<1>2. PICK m \in T : \A y \in T : m <= y
  BY <1>1, NatLeast
<1>3. CASE m = 0
  <2> DEFINE f == [j \in 0 .. 0 |-> EmptyTable(cap)]
  <2>1. f = [i \in 0 .. 0 |-> IF i = 0 THEN EmptyTable(cap) ELSE Step(i, f[i - 1])]
    OBVIOUS
  <2>2. RefillsTo(old, cap, 0, f)
    BY <1>0, <2>1
  <2> QED
    BY <1>2, <1>3, <2>2
<1>4. CASE m # 0
  <2>1. m \in Nat /\ m - 1 \in Nat /\ ~(m <= m - 1)
    BY <1>2, <1>4
  <2>2. m - 1 \notin T
    BY <1>2, <2>1
  <2>3. PICK g : RefillsTo(old, cap, m - 1, g)
    BY <2>1, <2>2
  <2> DEFINE f == [j \in 0 .. m |-> IF j = m THEN Step(m, g[m - 1]) ELSE g[j]]
  <2>4. g = [i \in 0 .. m - 1 |-> IF i = 0 THEN EmptyTable(cap) ELSE Step(i, g[i - 1])]
    BY <2>3, <1>0
  <2>5. ASSUME NEW j \in 0 .. m
        PROVE  f[j] = IF j = 0 THEN EmptyTable(cap) ELSE Step(j, f[j - 1])
    <3>1. CASE j = m
      <4>1. j - 1 \in 0 .. m /\ j - 1 # m
        BY <2>1, <3>1
      <4> QED
        BY <3>1, <4>1, <1>4
    <3>2. CASE j # m /\ j # 0
      <4>1. j - 1 \in 0 .. m /\ j - 1 # m /\ j \in 0 .. m - 1
        BY <2>1, <3>2
      <4>2. f[j] = g[j] /\ f[j - 1] = g[j - 1]
        BY <3>2, <4>1
      <4>3. g[j] = Step(j, g[j - 1])
        BY <3>2, <4>1, <2>4
      <4> QED
        BY <3>2, <4>2, <4>3
    <3>3. CASE j # m /\ j = 0
      <4>1. 0 \in 0 .. m - 1
        BY <2>1
      <4> QED
        BY <3>3, <4>1, <2>4
    <3> QED
      BY <3>1, <3>2, <3>3
  <2>6. f = [i \in 0 .. m |-> IF i = 0 THEN EmptyTable(cap) ELSE Step(i, f[i - 1])]
    BY <2>5
  <2>7. RefillsTo(old, cap, m, f)
    BY <1>0, <2>6
  <2> QED
    BY <1>2, <2>7
<1> QED
  BY <1>3, <1>4

LEMMA RefilledIs ==
  ASSUME NEW old, NEW cap, old.cap \in Nat
  PROVE  RefillsTo(old, cap, old.cap, Refilled(old, cap))
<1>1. \E f : RefillsTo(old, cap, old.cap, f)
  BY RefillsExist
<1> QED
  BY <1>1 DEF Refilled, RefillsTo

LEMMA CellsFinite ==
  ASSUME NEW ix \in TableType
  PROVE  /\ IsFiniteSet(Cells(ix)) /\ IsFiniteSet(Files(ix))
         /\ Cardinality(Cells(ix)) \in Nat /\ Cardinality(Files(ix)) \in Nat
         /\ Files(ix) \subseteq Cells(ix) /\ Cardinality(Files(ix)) <= Cardinality(Cells(ix))
<1>1. ix.cap \in Nat \ {0}
  BY TableFields
<1>2. IsFiniteSet(0 .. ix.cap - 1)
  BY <1>1, FS_Interval
<1>3. Cells(ix) \in SUBSET (0 .. ix.cap - 1) /\ Files(ix) \in SUBSET Cells(ix)
  BY DEF Cells, Files, Full, InUse
<1>4. IsFiniteSet(Cells(ix))
  BY <1>2, <1>3, FS_Subset
<1>5. IsFiniteSet(Files(ix)) /\ Cardinality(Files(ix)) <= Cardinality(Cells(ix))
  BY <1>3, <1>4, FS_Subset
<1> QED
  BY <1>3, <1>4, <1>5, FS_CardinalityType

\* A table with fewer entries than slots has an empty one.
LEMMA EmptySlot ==
  ASSUME NEW ix \in TableType, Cardinality(Cells(ix)) < ix.cap
  PROVE  \E e \in 0 .. ix.cap - 1 : ~Full(ix, e)
<1>1. ix.cap \in Nat \ {0}
  BY TableFields
<1>2. Cardinality(0 .. ix.cap - 1) = ix.cap
  <2>1. Cardinality(0 .. ix.cap - 1) = IF 0 > ix.cap - 1 THEN 0 ELSE (ix.cap - 1) - 0 + 1
    BY <1>1, FS_Interval
  <2> QED
    BY <1>1, <2>1
<1>3. Cells(ix) # 0 .. ix.cap - 1
  <2>1. Cardinality(Cells(ix)) \in Nat
    BY CellsFinite
  <2> QED
    BY <1>1, <1>2, <2>1
<1> QED
  BY <1>3 DEF Cells

FilesBelow(old, i) == {j \in Files(old) : j < i}

Refilling(old, cap, i, new) ==
  /\ new \in TableType /\ new.cap = cap /\ Chained(new) /\ Single(new)
  /\ Cells(new) = Files(new) /\ Cardinality(Files(new)) = Cardinality(FilesBelow(old, i))
  /\ \A v \in Nat, e \in Nat \ {0} :
       Entered(new, v, e) <=> \E j \in 0 .. i - 1 : old.slot[j] = [unit |-> v, span |-> e]

LEMMA EmptyRefilling ==
  ASSUME NEW old \in TableType, NEW cap \in Nat \ {0}
  PROVE  Refilling(old, cap, 0, EmptyTable(cap))
<1> DEFINE new == EmptyTable(cap)
           c   == [unit |-> 0, span |-> none]
<1>1. c \in CellType
  BY DEF CellType
<1>2. [i \in 0 .. cap - 1 |-> c] \in [0 .. cap - 1 -> CellType]
  BY <1>1
<1>3. new \in TableType /\ new.cap = cap
  BY <1>2, TableFrom DEF EmptyTable
<1>4. \A i \in 0 .. cap - 1 : new.slot[i] = c
  BY DEF EmptyTable
<1> HIDE DEF new
<1>5. \A i \in 0 .. cap - 1 : ~Full(new, i) /\ ~InUse(new, i)
  BY <1>4 DEF Full, InUse
<1>6. Chained(new) /\ Single(new)
  BY <1>3, <1>5 DEF Chained, Single
<1>7. Cells(new) = {} /\ Files(new) = {}
  BY <1>3, <1>5 DEF Cells, Files
<1>8. FilesBelow(old, 0) = {}
  <2>1. \A j \in Files(old) : ~(j < 0)
    <3>1. old.cap \in Nat
      BY TableFields
    <3> QED
      BY <3>1 DEF Files
  <2> QED
    BY <2>1 DEF FilesBelow
<1>9. ASSUME NEW v \in Nat, NEW e \in Nat \ {0}
      PROVE  ~Entered(new, v, e)
  BY <1>3, <1>4, Constants DEF Entered
<1>10. 0 .. 0 - 1 = {}
  OBVIOUS
<1> QED
  BY <1>3, <1>6, <1>7, <1>8, <1>9, <1>10 DEF Refilling, new

LEMMA RefillStep ==
  ASSUME NEW old \in TableType, NEW cap \in Nat \ {0}, NEW i \in 0 .. old.cap - 1, NEW new,
         Chained(old), Single(old), Cardinality(Files(old)) < cap,
         Refilling(old, cap, i, new)
  PROVE  Refilling(old, cap, i + 1,
           LET c == old.slot[i]
           IN  IF c.span \in {none, MM_UNIT_TOMB} THEN new
               ELSE index_put(new, c.unit, c.span))
<1> DEFINE u == old.slot[i].unit
           d == old.slot[i].span
<1>1. /\ new \in TableType /\ new.cap = cap /\ Chained(new) /\ Single(new)
      /\ Cells(new) = Files(new) /\ Cardinality(Files(new)) = Cardinality(FilesBelow(old, i))
  BY DEF Refilling
<1>2. \A v \in Nat, e \in Nat \ {0} :
        Entered(new, v, e) <=> \E j \in 0 .. i - 1 : old.slot[j] = [unit |-> v, span |-> e]
  BY DEF Refilling
<1>3. old.cap \in Nat \ {0} /\ u \in Nat /\ d \in Nat \cup {none} /\ old.slot[i] = [unit |-> u, span |-> d]
  BY TableFields
<1>4. \A j : j \in 0 .. (i + 1) - 1 <=> j \in 0 .. i - 1 \/ j = i
  BY <1>3
<1>5. \A j \in Files(old) : j < i + 1 <=> j < i \/ j = i
  BY <1>3 DEF Files
<1>6. CASE d \in {none, MM_UNIT_TOMB}
  <2>1. i \notin Files(old)
    BY <1>6 DEF Files, InUse
  <2>2. FilesBelow(old, i + 1) = FilesBelow(old, i)
    BY <1>5, <2>1 DEF FilesBelow
  <2>3. \A v \in Nat, e \in Nat \ {0} : old.slot[i] # [unit |-> v, span |-> e]
    BY <1>6, Constants DEF MM_UNIT_TOMB
  <2>4. \A v \in Nat, e \in Nat \ {0} :
          Entered(new, v, e) <=> \E j \in 0 .. (i + 1) - 1 : old.slot[j] = [unit |-> v, span |-> e]
    BY <1>2, <1>4, <2>3
  <2>5. Refilling(old, cap, i + 1, new)
    BY <1>1, <2>2, <2>4 DEF Refilling
  <2> QED
    BY <1>6, <2>5
<1>7. CASE d \notin {none, MM_UNIT_TOMB}
  <2> DEFINE nxt == index_put(new, u, d)
             s   == PutSlot(new, u)
  <2>1. i \in Files(old) /\ InUse(old, i)
    BY <1>7 DEF Files, InUse
  <2>2. u \in 1 .. Units
    BY <2>1 DEF Chained, Reached
  <2>3. d \in Nat \ {0}
    BY <1>3, <1>7 DEF MM_UNIT_TOMB
  <2> HIDE DEF u, d
  <2>4. Unfiled(new, u)
    <3> SUFFICES ASSUME NEW x \in 0 .. new.cap - 1, InUse(new, x), new.slot[x].unit = u
                 PROVE  FALSE
      BY DEF Unfiled
    <3> DEFINE e == new.slot[x].span
    <3>1. e \in Nat \ {0} /\ new.slot[x] = [unit |-> u, span |-> e]
      <4>1. e \in Nat \cup {none} /\ new.slot[x] = [unit |-> u, span |-> e]
        BY <1>1, TableFields
      <4> QED
        BY <4>1 DEF InUse, MM_UNIT_TOMB
    <3> HIDE DEF e
    <3>2. Entered(new, u, e)
      BY <3>1 DEF Entered
    <3>3. PICK j \in 0 .. i - 1 : old.slot[j] = [unit |-> u, span |-> e]
      BY <1>2, <1>3, <3>1, <3>2 DEF u
    <3>4. j \in 0 .. old.cap - 1 /\ j # i
      BY <1>3
    <3>5. old.slot[j].unit = u /\ old.slot[j].span = e
      BY <3>3
    <3>6. InUse(old, j)
      BY <3>1, <3>5, Constants DEF InUse, MM_UNIT_TOMB
    <3> QED
      BY <2>1, <3>4, <3>5, <3>6 DEF Single, u
  <2>5. FilesBelow(old, i + 1) = FilesBelow(old, i) \cup {i} /\ i \notin FilesBelow(old, i)
    BY <1>3, <1>5, <2>1 DEF FilesBelow
  <2>6. IsFiniteSet(Files(old)) /\ Cardinality(Files(old)) \in Nat
    BY CellsFinite
  <2>7. IsFiniteSet(FilesBelow(old, i))
    <3>1. FilesBelow(old, i) \in SUBSET Files(old)
      BY DEF FilesBelow
    <3> QED
      BY <2>6, <3>1, FS_Subset
  <2>8. Cardinality(FilesBelow(old, i + 1)) = Cardinality(FilesBelow(old, i)) + 1
    BY <2>5, <2>7, FS_AddElement
  <2>9. Cardinality(FilesBelow(old, i + 1)) <= Cardinality(Files(old))
    <3>1. FilesBelow(old, i + 1) \in SUBSET Files(old)
      BY DEF FilesBelow
    <3> QED
      BY <2>6, <3>1, FS_Subset
  <2>10. Cardinality(Cells(new)) < new.cap
    <3>1. Cardinality(FilesBelow(old, i)) \in Nat
      BY <2>7, FS_CardinalityType
    <3> QED
      BY <1>1, <2>6, <2>8, <2>9, <3>1
  <2>11. PICK e \in 0 .. new.cap - 1 : ~Full(new, e)
    BY <1>1, <2>10, EmptySlot
  <2>12. ChainEnd(new, u, s)
    BY <1>1, <2>2, <2>4, <2>11, PutSlotEnd
  <2>13. s \in 0 .. new.cap - 1
    BY <2>12 DEF ChainEnd
  <2> HIDE DEF s, nxt
  <2>14. EntryAt(new, nxt, s, u, d)
    BY <1>1, <1>3, <2>3, <2>13, PutEntry DEF s, nxt, u
  <2>15. EntryMade(new, nxt, s, u, d)
    BY <1>1, <2>2, <2>3, <2>4, <2>12, <2>14, EntryKept
  <2>16. nxt \in TableType /\ nxt.cap = cap
    BY <1>1, <2>14 DEF EntryAt
  <2>17. /\ Chained(nxt) /\ Single(nxt)
         /\ Cells(nxt) = Cells(new) \cup {s} /\ Files(nxt) = Files(new) \cup {s} /\ s \notin Cells(new)
    BY <2>15 DEF EntryMade
  <2>18. Cells(nxt) = Files(nxt)
    BY <1>1, <2>17
  <2>19. Cardinality(Files(nxt)) = Cardinality(FilesBelow(old, i + 1))
    <3>1. IsFiniteSet(Files(new)) /\ s \notin Files(new)
      BY <1>1, <2>17, CellsFinite
    <3>2. Cardinality(Files(nxt)) = Cardinality(Files(new)) + 1
      BY <2>17, <3>1, FS_AddElement
    <3> QED
      BY <3>2, <2>8, <1>1
  <2>20. ASSUME NEW v \in Nat, NEW e2 \in Nat \ {0}
         PROVE  Entered(nxt, v, e2) <=> \E j \in 0 .. (i + 1) - 1 : old.slot[j] = [unit |-> v, span |-> e2]
    <3>1. Entered(nxt, v, e2) <=> (Entered(new, v, e2) \/ (v = u /\ e2 = d))
      BY <2>15 DEF EntryMade
    <3>2. (v = u /\ e2 = d) <=> old.slot[i] = [unit |-> v, span |-> e2]
      BY <1>3 DEF u, d
    <3> QED
      BY <3>1, <3>2, <1>2, <1>4
  <2>21. Refilling(old, cap, i + 1, nxt)
    BY <2>16, <2>17, <2>18, <2>19, <2>20 DEF Refilling
  <2> QED
    BY <1>7, <2>21 DEF nxt, u, d
<1> QED
  BY <1>6, <1>7

Rebuilt(old, new) ==
  /\ new \in TableType /\ Chained(new) /\ Single(new) /\ Cells(new) = Files(new)
  /\ Cardinality(Files(new)) = Cardinality(Files(old))
  /\ \A v \in Nat, e \in Nat \ {0} : Entered(new, v, e) <=> Entered(old, v, e)

LEMMA RefilledRight ==
  ASSUME NEW old \in TableType, NEW cap \in Nat \ {0},
         Chained(old), Single(old), Cardinality(Files(old)) < cap
  PROVE  Rebuilt(old, Refilled(old, cap)[old.cap]) /\ Refilled(old, cap)[old.cap].cap = cap
<1> DEFINE f == Refilled(old, cap)
           T == {i \in 0 .. old.cap : ~Refilling(old, cap, i, f[i])}
<1>1. old.cap \in Nat \ {0}
  BY TableFields
<1>2. RefillsTo(old, cap, old.cap, f)
  BY <1>1, RefilledIs
<1> HIDE DEF f
<1>3. f[0] = EmptyTable(cap)
  <2>1. 0 \in 0 .. old.cap
    BY <1>1
  <2> QED
    BY <1>2, <2>1 DEF RefillsTo
<1>4. ASSUME NEW i \in 0 .. old.cap, i # 0
      PROVE  f[i] = LET c == old.slot[i - 1]
                    IN  IF c.span \in {none, MM_UNIT_TOMB} THEN f[i - 1]
                        ELSE index_put(f[i - 1], c.unit, c.span)
  BY <1>2, <1>4 DEF RefillsTo
<1>5. T = {}
  <2> SUFFICES ASSUME T # {} PROVE FALSE
    OBVIOUS
  <2>1. T \in SUBSET Nat
    BY <1>1
  <2>2. PICK m \in T : \A y \in T : m <= y
    BY <2>1, NatLeast
  <2>3. m \in 0 .. old.cap /\ ~Refilling(old, cap, m, f[m])
    BY <2>2
  <2>4. CASE m = 0
    BY <2>3, <2>4, <1>3, EmptyRefilling
  <2>5. CASE m # 0
    <3> DEFINE i == m - 1
    <3>1. i \in 0 .. old.cap - 1 /\ i \in 0 .. old.cap /\ ~(m <= i) /\ m = i + 1
      BY <1>1, <2>3, <2>5
    <3>2. Refilling(old, cap, i, f[i])
      BY <2>2, <3>1
    <3>3. f[m] = LET c == old.slot[i]
                 IN  IF c.span \in {none, MM_UNIT_TOMB} THEN f[i]
                     ELSE index_put(f[i], c.unit, c.span)
      BY <1>4, <2>3, <2>5
    <3> HIDE DEF i
    <3>4. Refilling(old, cap, i + 1, f[m])
      BY <3>1, <3>2, <3>3, RefillStep
    <3> QED
      BY <2>3, <3>1, <3>4
  <2> QED
    BY <2>4, <2>5
<1>6. Refilling(old, cap, old.cap, f[old.cap])
  <2>1. old.cap \in 0 .. old.cap
    BY <1>1
  <2> QED
    BY <1>5, <2>1
<1>7. FilesBelow(old, old.cap) = Files(old)
  BY <1>1 DEF FilesBelow, Files
<1> QED
  BY <1>6, <1>7 DEF Refilling, Rebuilt, Entered, f

-------------------------------------------------------------------------------
(***************************************************************************)
(* index_del of a unit that has an entry.                                  *)
(***************************************************************************)
LEMMA DelFinds ==
  ASSUME g_index \in TableType, Chained(g_index), Single(g_index),
         NEW i \in 0 .. g_index.cap - 1, InUse(g_index, i)
  PROVE  DelSlots(g_index.slot[i].unit) = {i}
<1> DEFINE ix == g_index
           u  == ix.slot[i].unit
           Found(j) == /\ Filed(ix, Probe(ix, u, j), u)
                       /\ \A h \in 0 .. j - 1 : ix.slot[Probe(ix, u, h)].span # none
                                             /\ ~Filed(ix, Probe(ix, u, h), u)
<1>1. DelSlots(u) = {Probe(ix, u, k) : k \in {j \in 0 .. ix.cap - 1 : Found(j)}}
  BY DEF DelSlots
<1>2. ix \in TableType /\ Chained(ix) /\ Single(ix) /\ i \in 0 .. ix.cap - 1 /\ InUse(ix, i)
  OBVIOUS
<1> HIDE DEF ix
<1>3. ix.cap \in Nat \ {0}
  BY <1>2, TableFields
<1>4. Reached(ix, i)
  BY <1>2 DEF Chained
<1>5. u \in 1 .. Units
  BY <1>4 DEF Reached
<1>6. PICK k \in 0 .. ix.cap - 1 : /\ i = Probe(ix, u, k)
                                   /\ \A h \in 0 .. k - 1 : Full(ix, Probe(ix, u, h))
  BY <1>4 DEF Reached
<1> HIDE DEF u
<1>7. \A x \in 0 .. ix.cap - 1 : Filed(ix, x, u) <=> x = i
  <2>1. Filed(ix, i, u)
    BY <1>2 DEF Filed, InUse, u
  <2>2. ASSUME NEW x \in 0 .. ix.cap - 1, Filed(ix, x, u)
        PROVE  x = i
    BY <1>2, <2>2 DEF Single, Filed, InUse, u
  <2> QED
    BY <2>1, <2>2
<1> DEFINE T == {x \in 0 .. ix.cap - 1 : Probe(ix, u, x) = i}
<1>8. T \in SUBSET Nat /\ T # {}
  BY <1>3, <1>6
<1>9. PICK m \in T : \A y \in T : m <= y
  BY <1>8, NatLeast
<1>10. m \in 0 .. ix.cap - 1 /\ Probe(ix, u, m) = i /\ m <= k
  BY <1>6, <1>9
<1>11. Found(m)
  <2>1. ASSUME NEW h \in 0 .. m - 1
        PROVE  ix.slot[Probe(ix, u, h)].span # none /\ ~Filed(ix, Probe(ix, u, h), u)
    <3>1. h \in 0 .. k - 1 /\ h \in Nat /\ h \in 0 .. ix.cap - 1 /\ ~(m <= h)
      BY <1>3, <1>10
    <3>2. Full(ix, Probe(ix, u, h))
      BY <1>6, <3>1
    <3>3. Probe(ix, u, h) # i
      BY <1>9, <3>1
    <3>4. Probe(ix, u, h) \in 0 .. ix.cap - 1
      BY <1>2, <1>5, <3>1, ProbeIn
    <3> QED
      BY <1>7, <3>2, <3>3, <3>4 DEF Full
  <2>2. Filed(ix, Probe(ix, u, m), u)
    BY <1>2, <1>7, <1>10
  <2> QED
    BY <2>1, <2>2
<1>12. ASSUME NEW j \in 0 .. ix.cap - 1, Found(j)
       PROVE  Probe(ix, u, j) = i
  <2>1. j \in Nat
    BY <1>3
  <2>2. Probe(ix, u, j) \in 0 .. ix.cap - 1
    BY <1>2, <1>5, <2>1, ProbeIn
  <2> QED
    BY <1>7, <1>12, <2>2
<1> HIDE DEF Found
<1>13. DelSlots(u) = {i}
  BY <1>1, <1>10, <1>11, <1>12
<1> QED
  BY <1>13 DEF u, ix

Buried(ix, new, i) ==
  /\ new \in TableType /\ new.cap = ix.cap /\ Chained(new) /\ Single(new)
  /\ \A j \in 0 .. ix.cap - 1 : j # i => new.slot[j] = ix.slot[j]
  /\ new.slot[i].unit = ix.slot[i].unit /\ new.slot[i].span = MM_UNIT_TOMB
  /\ \A v \in Nat, e \in Nat \ {0} : Entered(new, v, e) <=> Entered(ix, v, e) /\ v # ix.slot[i].unit
  /\ Cells(new) = Cells(ix) /\ Files(new) = Files(ix) \ {i}

\* A tombstone keeps the chains that run through the slot.
LEMMA TombstoneKept ==
  ASSUME NEW ix \in TableType, Chained(ix), Single(ix),
         NEW i \in 0 .. ix.cap - 1, InUse(ix, i)
  PROVE  Buried(ix, Tombstone(ix, i), i)
<1> DEFINE new == Tombstone(ix, i)
<1>1. /\ ix.cap \in Nat \ {0} /\ ix.slot \in [0 .. ix.cap - 1 -> CellType]
      /\ DOMAIN ix = {"cap", "slot"}
  BY TableFields
<1>2. new = [ix EXCEPT !.slot[i].span = MM_UNIT_TOMB]
  BY DEF Tombstone
<1> HIDE DEF new
<1>3. new.slot = [ix.slot EXCEPT ![i].span = MM_UNIT_TOMB] /\ new.cap = ix.cap
  BY <1>1, <1>2
<1>4. ix.slot[i] \in CellType
  BY <1>1
<1>5. \A j \in 0 .. ix.cap - 1 : j # i => new.slot[j] = ix.slot[j]
  BY <1>1, <1>3
<1>6. new.slot[i] = [ix.slot[i] EXCEPT !.span = MM_UNIT_TOMB]
  BY <1>1, <1>3
<1>7. new.slot[i].unit = ix.slot[i].unit /\ new.slot[i].span = MM_UNIT_TOMB /\ new.slot[i] \in CellType
  BY <1>4, <1>6 DEF CellType, MM_UNIT_TOMB
<1>8. new.slot \in [0 .. ix.cap - 1 -> CellType]
  BY <1>1, <1>3, <1>5, <1>7
<1>9. new \in TableType
  <2>1. ix \in [cap : {ix.cap}, slot : [0 .. ix.cap - 1 -> CellType]]
    <3>1. PICK n \in Nat \ {0} : ix \in [cap : {n}, slot : [0 .. n - 1 -> CellType]]
      BY DEF TableType
    <3> QED
      BY <3>1
  <2>2. new \in [cap : {ix.cap}, slot : [0 .. ix.cap - 1 -> CellType]]
    BY <1>2, <1>3, <1>8, <2>1
  <2> QED
    BY <1>1, <2>2 DEF TableType
<1>10. \A j \in 0 .. ix.cap - 1 : Full(new, j) <=> Full(ix, j)
  <2>1. Full(ix, i) /\ Full(new, i)
    BY <1>7, Constants DEF Full, InUse, MM_UNIT_TOMB
  <2> QED
    BY <1>5, <2>1 DEF Full
<1>11. \A j \in 0 .. ix.cap - 1 : InUse(new, j) <=> InUse(ix, j) /\ j # i
  BY <1>5, <1>7 DEF InUse
<1>12. \A v, k : Probe(new, v, k) = Probe(ix, v, k)
  BY <1>3, SameProbe
<1>13. ASSUME NEW j \in 0 .. new.cap - 1, InUse(new, j)
       PROVE  Reached(new, j)
  <2> DEFINE v == ix.slot[j].unit
  <2>1. j \in 0 .. ix.cap - 1 /\ InUse(ix, j) /\ new.slot[j] = ix.slot[j]
    BY <1>3, <1>5, <1>11, <1>13
  <2>2. Reached(ix, j)
    BY <2>1 DEF Chained
  <2>3. v \in 1 .. Units
    BY <2>2 DEF Reached
  <2>4. PICK k \in 0 .. ix.cap - 1 : /\ j = Probe(ix, v, k)
                                     /\ \A h \in 0 .. k - 1 : Full(ix, Probe(ix, v, h))
    BY <2>2 DEF Reached
  <2> HIDE DEF v
  <2>5. ASSUME NEW h \in 0 .. k - 1
        PROVE  Full(new, Probe(new, v, h))
    <3>1. h \in Nat
      BY <1>1
    <3>2. Probe(ix, v, h) \in 0 .. ix.cap - 1
      BY <2>3, <3>1, ProbeIn
    <3> QED
      BY <1>10, <1>12, <2>4, <3>2
  <2>6. new.slot[j].unit = v
    BY <2>1 DEF v
  <2> QED
    BY <1>3, <1>12, <2>3, <2>4, <2>5, <2>6 DEF Reached
<1>14. Chained(new)
  BY <1>13 DEF Chained
<1>15. Single(new)
  BY <1>3, <1>5, <1>11 DEF Single
<1>16. Cells(new) = Cells(ix) /\ Files(new) = Files(ix) \ {i}
  BY <1>3, <1>10, <1>11 DEF Cells, Files
<1>17. ASSUME NEW v \in Nat, NEW e \in Nat \ {0}
       PROVE  Entered(new, v, e) <=> Entered(ix, v, e) /\ v # ix.slot[i].unit
  <2> DEFINE x == [unit |-> v, span |-> e]
  <2>0. e \notin {none, MM_UNIT_TOMB}
    BY Constants DEF MM_UNIT_TOMB
  <2>1. ASSUME NEW j \in 0 .. ix.cap - 1, new.slot[j] = x
        PROVE  Entered(ix, v, e) /\ v # ix.slot[i].unit
    <3>1. InUse(new, j) /\ new.slot[j].unit = v
      BY <2>0, <2>1 DEF InUse
    <3>2. j # i /\ InUse(ix, j) /\ ix.slot[j] = x
      BY <3>1, <1>5, <1>11, <2>1
    <3>3. ix.slot[j].unit = v
      BY <3>2
    <3> QED
      BY <3>2, <3>3 DEF Entered, Single
  <2>2. ASSUME NEW j \in 0 .. ix.cap - 1, ix.slot[j] = x, v # ix.slot[i].unit
        PROVE  Entered(new, v, e)
    <3>1. j # i
      BY <2>2
    <3> QED
      BY <3>1, <2>2, <1>3, <1>5 DEF Entered
  <2> QED
    BY <2>1, <2>2, <1>3 DEF Entered
<1> QED
  BY <1>3, <1>5, <1>7, <1>9, <1>14, <1>15, <1>16, <1>17 DEF Buried, new

-------------------------------------------------------------------------------
(***************************************************************************)
(* Lists of descriptors.                                                   *)
(***************************************************************************)
LEMMA SeqRange ==
  ASSUME NEW s \in Seq(Nat)
  PROVE  /\ DOMAIN s = 1 .. Len(s) /\ Len(s) \in Nat /\ Range(s) \subseteq Nat
         /\ \A x : x \in Range(s) <=> \E i \in 1 .. Len(s) : x = s[i]
<1>1. s \in [1 .. Len(s) -> Nat] /\ Len(s) \in Nat /\ DOMAIN s = 1 .. Len(s)
  BY LenProperties
<1> QED
  BY <1>1 DEF Range

LEMMA EmptyList == Range(<<>>) = {} /\ OneToOne(<<>>) /\ <<>> \in Seq(Nat)
  BY DEF Range, OneToOne

LEMMA PushList ==
  ASSUME NEW s \in Seq(Nat), NEW x \in Nat
  PROVE  /\ <<x>> \o s \in Seq(Nat) /\ Range(<<x>> \o s) = Range(s) \cup {x}
         /\ (OneToOne(s) /\ x \notin Range(s) => OneToOne(<<x>> \o s))
<1> DEFINE t == <<x>> \o s
<1>1. <<x>> \in Seq(Nat) /\ Len(<<x>>) = 1 /\ <<x>>[1] = x
  OBVIOUS
<1>2. /\ t \in Seq(Nat) /\ Len(t) = 1 + Len(s)
      /\ \A i \in 1 .. 1 + Len(s) : t[i] = IF i <= 1 THEN <<x>>[i] ELSE s[i - 1]
  BY <1>1, ConcatProperties
<1>3. Len(s) \in Nat /\ DOMAIN s = 1 .. Len(s) /\ DOMAIN t = 1 .. Len(t)
  BY <1>2, LenProperties
<1> HIDE DEF t
<1>4. t[1] = x /\ \A i \in 1 .. Len(s) : t[i + 1] = s[i]
  <2>1. 1 \in 1 .. 1 + Len(s)
    BY <1>3
  <2>2. t[1] = x
    BY <1>1, <1>2, <2>1
  <2>3. ASSUME NEW i \in 1 .. Len(s)
        PROVE  t[i + 1] = s[i]
    <3>1. i + 1 \in 1 .. 1 + Len(s) /\ ~(i + 1 <= 1) /\ (i + 1) - 1 = i
      BY <1>3
    <3> QED
      BY <3>1, <1>2
  <2> QED
    BY <2>2, <2>3
<1>5. \A i \in 1 .. Len(t) : i = 1 \/ (i - 1 \in 1 .. Len(s) /\ i = (i - 1) + 1)
  BY <1>2, <1>3
<1>6. \A i \in 1 .. Len(s) : i + 1 \in 1 .. Len(t)
  BY <1>2, <1>3
<1>7. 1 \in 1 .. Len(t)
  BY <1>2, <1>3
<1>8. Range(t) = Range(s) \cup {x}
  <2>1. ASSUME NEW y \in Range(t) PROVE y \in Range(s) \cup {x}
    <3>1. PICK i \in 1 .. Len(t) : y = t[i]
      BY <1>3 DEF Range
    <3>2. CASE i = 1
      BY <3>1, <3>2, <1>4
    <3>3. CASE i # 1
      <4>1. i - 1 \in 1 .. Len(s) /\ i = (i - 1) + 1
        BY <3>3, <1>5
      <4>2. y = s[i - 1]
        BY <3>1, <4>1, <1>4
      <4> QED
        BY <4>1, <4>2, <1>3 DEF Range
    <3> QED
      BY <3>2, <3>3
  <2>2. ASSUME NEW y \in Range(s) PROVE y \in Range(t)
    <3>1. PICK i \in 1 .. Len(s) : y = s[i]
      BY <1>3 DEF Range
    <3> QED
      BY <3>1, <1>3, <1>4, <1>6 DEF Range
  <2>3. x \in Range(t)
    BY <1>3, <1>4, <1>7 DEF Range
  <2> QED
    BY <2>1, <2>2, <2>3
<1>9. ASSUME OneToOne(s), x \notin Range(s), NEW i \in 1 .. Len(t), NEW j \in 1 .. Len(t), t[i] = t[j]
      PROVE  i = j
  <2>1. CASE i = 1 /\ j = 1
    BY <2>1
  <2>2. CASE i = 1 /\ j # 1
    <3>1. j - 1 \in 1 .. Len(s) /\ t[j] = s[j - 1]
      BY <2>2, <1>4, <1>5
    <3> QED
      BY <3>1, <2>2, <1>3, <1>4, <1>9 DEF Range
  <2>3. CASE i # 1 /\ j = 1
    <3>1. i - 1 \in 1 .. Len(s) /\ t[i] = s[i - 1]
      BY <2>3, <1>4, <1>5
    <3> QED
      BY <3>1, <2>3, <1>3, <1>4, <1>9 DEF Range
  <2>4. CASE i # 1 /\ j # 1
    <3>1. i - 1 \in 1 .. Len(s) /\ t[i] = s[i - 1] /\ j - 1 \in 1 .. Len(s) /\ t[j] = s[j - 1]
      BY <2>4, <1>4, <1>5
    <3>2. i - 1 = j - 1
      BY <3>1, <1>3, <1>9 DEF OneToOne
    <3> QED
      BY <3>2
  <2> QED
    BY <2>1, <2>2, <2>3, <2>4
<1> QED
  BY <1>2, <1>3, <1>8, <1>9 DEF OneToOne, t

LEMMA PopList ==
  ASSUME NEW s \in Seq(Nat), s # <<>>
  PROVE  /\ Head(s) \in Range(s) /\ Head(s) \in Nat /\ Tail(s) \in Seq(Nat)
         /\ Range(s) = Range(Tail(s)) \cup {Head(s)}
         /\ (OneToOne(s) => OneToOne(Tail(s)) /\ Head(s) \notin Range(Tail(s)))
<1> DEFINE t == Tail(s)
<1>1. Len(s) \in Nat \ {0} /\ DOMAIN s = 1 .. Len(s) /\ Head(s) = s[1]
  BY EmptySeq, LenProperties
<1>2. /\ Head(s) \in Nat /\ t \in Seq(Nat) /\ Len(t) = Len(s) - 1
      /\ \A i \in 1 .. Len(t) : t[i] = s[i + 1]
  BY HeadTailProperties
<1>3. DOMAIN t = 1 .. Len(t)
  BY <1>2, LenProperties
<1> HIDE DEF t
<1>4. \A i \in 1 .. Len(t) : i + 1 \in 1 .. Len(s) /\ i + 1 # 1
  BY <1>1, <1>2
<1>5. \A i \in 1 .. Len(s) : i = 1 \/ (i - 1 \in 1 .. Len(t) /\ i = (i - 1) + 1)
  BY <1>1, <1>2
<1>6. 1 \in 1 .. Len(s)
  BY <1>1
<1>7. Head(s) \in Range(s)
  BY <1>1, <1>6 DEF Range
<1>8. ASSUME NEW y \in Range(s) PROVE y \in Range(t) \cup {Head(s)}
  <2>1. PICK i \in 1 .. Len(s) : y = s[i]
    BY <1>1 DEF Range
  <2>2. CASE i = 1
    BY <2>1, <2>2, <1>1
  <2>3. CASE i # 1
    <3>1. i - 1 \in 1 .. Len(t) /\ i = (i - 1) + 1
      BY <2>3, <1>5
    <3>2. y = t[i - 1]
      BY <2>1, <3>1, <1>2
    <3> QED
      BY <3>1, <3>2, <1>3 DEF Range
  <2> QED
    BY <2>2, <2>3
<1>9. ASSUME NEW y \in Range(t) PROVE y \in Range(s)
  <2>1. PICK i \in 1 .. Len(t) : y = t[i]
    BY <1>3 DEF Range
  <2> QED
    BY <2>1, <1>1, <1>2, <1>4 DEF Range
<1>10. ASSUME OneToOne(s) PROVE Head(s) \notin Range(t)
  <2> SUFFICES ASSUME NEW i \in 1 .. Len(t), s[1] = t[i] PROVE FALSE
    BY <1>1, <1>3 DEF Range
  <2> QED
    BY <1>10, <1>1, <1>2, <1>4, <1>6 DEF OneToOne
<1>11. ASSUME OneToOne(s), NEW i \in 1 .. Len(t), NEW j \in 1 .. Len(t), t[i] = t[j]
       PROVE  i = j
  <2>1. i + 1 = j + 1
    BY <1>11, <1>1, <1>2, <1>4 DEF OneToOne
  <2> QED
    BY <2>1
<1> QED
  BY <1>2, <1>3, <1>7, <1>8, <1>9, <1>10, <1>11 DEF OneToOne, t

LEMMA CutList ==
  ASSUME NEW s \in Seq(Nat), NEW x \in Range(s), OneToOne(s)
  PROVE  LET t == RemoveAt(s, CHOOSE i \in DOMAIN s : s[i] = x)
         IN  t \in Seq(Nat) /\ Range(t) = Range(s) \ {x} /\ OneToOne(t)
<1> DEFINE c == CHOOSE i \in DOMAIN s : s[i] = x
           a == SubSeq(s, 1, c - 1)
           b == SubSeq(s, c + 1, Len(s))
           t == a \o b
<1>1. Len(s) \in Nat /\ DOMAIN s = 1 .. Len(s) /\ s \in [1 .. Len(s) -> Nat]
  BY LenProperties
<1>2. c \in 1 .. Len(s) /\ s[c] = x
  BY <1>1 DEF Range
<1>3. RemoveAt(s, c) = t
  BY DEF RemoveAt
<1> HIDE DEF c
<1>4. \A i \in 1 .. c - 1 : s[i] \in Nat
  BY <1>1, <1>2
<1>5. \A i \in c + 1 .. Len(s) : s[i] \in Nat
  BY <1>1, <1>2
<1>6. /\ a \in Seq(Nat) /\ Len(a) = c - 1
      /\ \A i \in 1 .. c - 1 : a[i] = s[i]
  <2>1. c - 1 \in Int
    BY <1>2
  <2>2. /\ a \in Seq(Nat) /\ Len(a) = IF 1 <= c - 1 THEN (c - 1) - 1 + 1 ELSE 0
        /\ \A i \in 1 .. (c - 1) - 1 + 1 : a[i] = s[1 + i - 1]
    BY <1>4, <2>1, SubSeqProperties
  <2>3. (c - 1) - 1 + 1 = c - 1 /\ \A i \in 1 .. c - 1 : 1 + i - 1 = i
    BY <1>2
  <2> QED
    BY <1>2, <2>2, <2>3
<1>7. /\ b \in Seq(Nat) /\ Len(b) = Len(s) - c
      /\ \A i \in 1 .. Len(s) - c : b[i] = s[c + i]
  <2>1. c + 1 \in Int /\ Len(s) \in Int
    BY <1>1, <1>2
  <2>2. /\ b \in Seq(Nat) /\ Len(b) = IF c + 1 <= Len(s) THEN Len(s) - (c + 1) + 1 ELSE 0
        /\ \A i \in 1 .. Len(s) - (c + 1) + 1 : b[i] = s[(c + 1) + i - 1]
    BY <1>5, <2>1, SubSeqProperties
  <2>3. Len(s) - (c + 1) + 1 = Len(s) - c /\ \A i \in 1 .. Len(s) - c : (c + 1) + i - 1 = c + i
    BY <1>1, <1>2
  <2>4. Len(b) = Len(s) - c
    <3>1. Len(b) = IF c + 1 <= Len(s) THEN Len(s) - (c + 1) + 1 ELSE 0
      BY <2>2
    <3> DEFINE n == Len(s)
               m == Len(b)
    <3>2. n \in Nat /\ c \in 1 .. n /\ m = IF c + 1 <= n THEN n - (c + 1) + 1 ELSE 0
      BY <3>1, <1>1, <1>2
    <3> HIDE DEF n, m
    <3>3. m = n - c
      BY <3>2
    <3> QED
      BY <3>3 DEF n, m
  <2>5. ASSUME NEW i \in 1 .. Len(s) - c
        PROVE  b[i] = s[c + i]
    <3>1. i \in 1 .. Len(s) - (c + 1) + 1 /\ (c + 1) + i - 1 = c + i
      BY <2>3
    <3>2. b[i] = s[(c + 1) + i - 1]
      BY <2>2, <3>1
    <3> QED
      BY <3>1, <3>2
  <2> QED
    BY <2>2, <2>4, <2>5
<1> HIDE DEF a, b
<1>8. /\ t \in Seq(Nat) /\ Len(t) = (c - 1) + (Len(s) - c)
      /\ \A i \in 1 .. (c - 1) + (Len(s) - c) : t[i] = IF i <= c - 1 THEN a[i] ELSE b[i - (c - 1)]
  <2>1. a \in Seq(Nat) /\ b \in Seq(Nat)
    BY <1>6, <1>7
  <2>2. /\ t \in Seq(Nat) /\ Len(t) = Len(a) + Len(b)
        /\ \A i \in 1 .. Len(a) + Len(b) : t[i] = IF i <= Len(a) THEN a[i] ELSE b[i - Len(a)]
    BY <2>1, ConcatProperties
  <2>3. Len(a) = c - 1 /\ Len(b) = Len(s) - c
    BY <1>6, <1>7
  <2> HIDE DEF t
  <2> QED
    BY <2>2, <2>3
<1>9. Len(t) = Len(s) - 1 /\ DOMAIN t = 1 .. Len(t)
  BY <1>1, <1>2, <1>8, LenProperties
<1> HIDE DEF t
<1> DEFINE w(i) == IF i < c THEN i ELSE i + 1
<1>10. ASSUME NEW i \in 1 .. Len(t)
       PROVE  t[i] = s[w(i)] /\ w(i) \in 1 .. Len(s) /\ w(i) # c
  <2>1. i \in 1 .. (c - 1) + (Len(s) - c)
    BY <1>8
  <2>2. t[i] = IF i <= c - 1 THEN a[i] ELSE b[i - (c - 1)]
    BY <1>8, <2>1
  <2>3. CASE i < c
    <3>1. i \in 1 .. c - 1 /\ i <= c - 1
      BY <1>2, <2>3
    <3> QED
      BY <1>1, <1>2, <2>2, <2>3, <3>1, <1>6
  <2>4. CASE ~(i < c)
    <3>1. i - (c - 1) \in 1 .. Len(s) - c /\ ~(i <= c - 1) /\ c + (i - (c - 1)) = i + 1
      BY <1>1, <1>2, <1>9, <2>4
    <3>2. t[i] = s[i + 1]
      BY <2>2, <3>1, <1>7
    <3> QED
      BY <1>1, <1>2, <1>9, <2>4, <3>2
  <2> QED
    BY <2>3, <2>4
<1>11. ASSUME NEW j \in 1 .. Len(s), j # c
       PROVE  \E i \in 1 .. Len(t) : w(i) = j
  <2>1. CASE j < c
    <3>1. j \in 1 .. Len(t) /\ w(j) = j
      BY <1>1, <1>2, <1>9, <2>1
    <3> QED
      BY <3>1
  <2>2. CASE j > c
    <3>1. j - 1 \in 1 .. Len(t) /\ w(j - 1) = j
      BY <1>1, <1>2, <1>9, <2>2
    <3> QED
      BY <3>1
  <2> QED
    BY <1>11, <1>2, <2>1, <2>2
<1>12. \A i, j \in 1 .. Len(t) : w(i) = w(j) => i = j
  BY <1>2
<1> HIDE DEF w
<1>13. \A i \in 1 .. Len(s) : s[i] = x <=> i = c
  BY <1>1, <1>2 DEF OneToOne
<1>14. Range(t) = Range(s) \ {x}
  <2>1. ASSUME NEW y \in Range(t) PROVE y \in Range(s) /\ y # x
    <3>1. PICK i \in 1 .. Len(t) : y = t[i]
      BY <1>9 DEF Range
    <3> QED
      BY <3>1, <1>1, <1>10, <1>13 DEF Range
  <2>2. ASSUME NEW y \in Range(s), y # x PROVE y \in Range(t)
    <3>1. PICK j \in 1 .. Len(s) : y = s[j]
      BY <1>1 DEF Range
    <3>2. j # c
      BY <1>2, <2>2, <3>1
    <3>3. PICK i \in 1 .. Len(t) : w(i) = j
      BY <1>11, <3>2
    <3> QED
      BY <3>1, <3>3, <1>9, <1>10 DEF Range
  <2> QED
    BY <2>1, <2>2
<1>15. OneToOne(t)
  <2> SUFFICES ASSUME NEW i \in 1 .. Len(t), NEW j \in 1 .. Len(t), t[i] = t[j]
               PROVE  i = j
    BY <1>9 DEF OneToOne
  <2>1. s[w(i)] = s[w(j)] /\ w(i) \in 1 .. Len(s) /\ w(j) \in 1 .. Len(s)
    BY <1>10
  <2>2. w(i) = w(j)
    BY <2>1, <1>1 DEF OneToOne
  <2> QED
    BY <2>2, <1>12
<1> QED
  BY <1>3, <1>8, <1>14, <1>15 DEF c

-------------------------------------------------------------------------------
(***************************************************************************)
(* The first store of index_put.                                           *)
(***************************************************************************)
UnitWritten(ix, s, u) == [ix EXCEPT !.slot[s].unit = u]

Prepared(ix, new, s, u) ==
  /\ new \in TableType /\ new.cap = ix.cap /\ Chained(new) /\ Single(new)
  /\ \A j \in 0 .. ix.cap - 1 : j # s => new.slot[j] = ix.slot[j]
  /\ \A j \in 0 .. ix.cap - 1 : new.slot[j].span = ix.slot[j].span
  /\ \A v \in Nat, e \in Nat \ {0} : Entered(new, v, e) <=> Entered(ix, v, e)
  /\ Cells(new) = Cells(ix) /\ Files(new) = Files(ix)

\* No reader looks at the unit of an empty slot.
LEMMA UnitPrepared ==
  ASSUME NEW ix \in TableType, Chained(ix), Single(ix),
         NEW s \in 0 .. ix.cap - 1, ~Full(ix, s), NEW u \in Nat
  PROVE  Prepared(ix, UnitWritten(ix, s, u), s, u)
<1> DEFINE new == UnitWritten(ix, s, u)
<1>1. /\ ix.cap \in Nat \ {0} /\ ix.slot \in [0 .. ix.cap - 1 -> CellType]
      /\ DOMAIN ix = {"cap", "slot"}
  BY TableFields
<1>2. new = [ix EXCEPT !.slot[s].unit = u]
  BY DEF UnitWritten
<1> HIDE DEF new
<1>3. new.slot = [ix.slot EXCEPT ![s] = [ix.slot[s] EXCEPT !.unit = u]] /\ new.cap = ix.cap
  BY <1>1, <1>2
<1>4. ix.slot[s] \in CellType
  BY <1>1
<1>5. \A j \in 0 .. ix.cap - 1 : j # s => new.slot[j] = ix.slot[j]
  BY <1>1, <1>3
<1>6. new.slot[s] = [ix.slot[s] EXCEPT !.unit = u]
  BY <1>1, <1>3
<1>7. new.slot[s].unit = u /\ new.slot[s].span = ix.slot[s].span /\ new.slot[s] \in CellType
  BY <1>4, <1>6 DEF CellType
<1>8. new.slot \in [0 .. ix.cap - 1 -> CellType]
  BY <1>1, <1>3, <1>5, <1>7
<1>9. new \in TableType
  <2>1. ix \in [cap : {ix.cap}, slot : [0 .. ix.cap - 1 -> CellType]]
    <3>1. PICK n \in Nat \ {0} : ix \in [cap : {n}, slot : [0 .. n - 1 -> CellType]]
      BY DEF TableType
    <3> QED
      BY <3>1
  <2>2. new \in [cap : {ix.cap}, slot : [0 .. ix.cap - 1 -> CellType]]
    BY <1>2, <1>3, <1>8, <2>1
  <2> QED
    BY <1>1, <2>2 DEF TableType
<1>10. \A j \in 0 .. ix.cap - 1 : new.slot[j].span = ix.slot[j].span
  BY <1>5, <1>7
<1>11. \A j \in 0 .. ix.cap - 1 : (Full(new, j) <=> Full(ix, j)) /\ (InUse(new, j) <=> InUse(ix, j))
  BY <1>10 DEF InUse, Full
<1>12. ~InUse(ix, s)
  BY DEF InUse, Full
<1>13. \A v, k : Probe(new, v, k) = Probe(ix, v, k)
  BY <1>3, SameProbe
<1>14. ASSUME NEW j \in 0 .. new.cap - 1, InUse(new, j)
       PROVE  Reached(new, j)
  <2> DEFINE v == ix.slot[j].unit
  <2>1. j \in 0 .. ix.cap - 1 /\ InUse(ix, j) /\ new.slot[j] = ix.slot[j]
    BY <1>3, <1>5, <1>11, <1>12, <1>14
  <2>2. Reached(ix, j)
    BY <2>1 DEF Chained
  <2>3. v \in 1 .. Units
    BY <2>2 DEF Reached
  <2>4. PICK k \in 0 .. ix.cap - 1 : /\ j = Probe(ix, v, k)
                                     /\ \A h \in 0 .. k - 1 : Full(ix, Probe(ix, v, h))
    BY <2>2 DEF Reached
  <2> HIDE DEF v
  <2>5. ASSUME NEW h \in 0 .. k - 1
        PROVE  Full(new, Probe(new, v, h))
    <3>1. h \in Nat
      BY <1>1
    <3>2. Probe(ix, v, h) \in 0 .. ix.cap - 1
      BY <2>3, <3>1, ProbeIn
    <3> QED
      BY <1>11, <1>13, <2>4, <3>2
  <2>6. new.slot[j].unit = v
    BY <2>1 DEF v
  <2> QED
    BY <1>3, <1>13, <2>3, <2>4, <2>5, <2>6 DEF Reached
<1>15. Chained(new)
  BY <1>14 DEF Chained
<1>16. Single(new)
  BY <1>3, <1>5, <1>11, <1>12 DEF Single
<1>17. Cells(new) = Cells(ix) /\ Files(new) = Files(ix)
  BY <1>3, <1>11 DEF Cells, Files
<1>18. ASSUME NEW v \in Nat, NEW e \in Nat \ {0}
       PROVE  Entered(new, v, e) <=> Entered(ix, v, e)
  <2> DEFINE x == [unit |-> v, span |-> e]
  <2>1. x.span # none
    BY Constants
  <2>2. \A j \in 0 .. ix.cap - 1 : new.slot[j] = x <=> ix.slot[j] = x
    <3> SUFFICES ASSUME NEW j \in 0 .. ix.cap - 1 PROVE new.slot[j] = x <=> ix.slot[j] = x
      OBVIOUS
    <3> HIDE DEF x
    <3>1. CASE j = s
      BY <3>1, <1>7, <2>1 DEF Full
    <3>2. CASE j # s
      BY <3>2, <1>5
    <3> QED
      BY <3>1, <3>2
  <2> QED
    BY <1>3, <2>2 DEF Entered
<1> QED
  BY <1>3, <1>5, <1>9, <1>10, <1>15, <1>16, <1>17, <1>18 DEF Prepared, new

-------------------------------------------------------------------------------
(***************************************************************************)
(* The tables there were.                                                  *)
(***************************************************************************)
\* The table in use becomes new; the others stay.
Replaced(new) ==
  /\ table' \in Seq(TableType) /\ table' # <<>> /\ Len(table') = Len(table) /\ g_index' = new
  /\ \A t \in 1 .. Len(table) - 1 : table'[t] = table[t]

LEMMA TableNow ==
  ASSUME table \in Seq(TableType), table # <<>>
  PROVE  /\ Len(table) \in Nat \ {0} /\ DOMAIN table = 1 .. Len(table) /\ Len(table) \in DOMAIN table
         /\ g_index \in TableType /\ \A t \in DOMAIN table : table[t] \in TableType
<1>1. Len(table) \in Nat \ {0} /\ DOMAIN table = 1 .. Len(table)
  BY EmptySeq, LenProperties
<1>2. \A t \in DOMAIN table : table[t] \in TableType
  BY <1>1, ElementOfSeq
<1> QED
  BY <1>1, <1>2 DEF g_index

LEMMA ReplacedBy ==
  ASSUME table \in Seq(TableType), table # <<>>, NEW new \in TableType,
         table' = [table EXCEPT ![Len(table)] = new]
  PROVE  Replaced(new)
<1>1. Len(table) \in 1 .. Len(table) /\ Len(table) \in Nat \ {0}
  BY TableNow
<1>2. /\ table' \in Seq(TableType) /\ Len(table') = Len(table)
      /\ \A j \in 1 .. Len(table) : table'[j] = IF j = Len(table) THEN new ELSE table[j]
  BY <1>1, ExceptSeq
<1>3. table' # <<>>
  BY <1>1, <1>2, EmptySeq
<1>4. g_index' = new
  BY <1>1, <1>2 DEF g_index
<1>5. ASSUME NEW t \in 1 .. Len(table) - 1
      PROVE  table'[t] = table[t]
  <2>1. t \in 1 .. Len(table) /\ t # Len(table)
    BY <1>1
  <2> QED
    BY <1>2, <2>1
<1> QED
  BY <1>2, <1>3, <1>4, <1>5 DEF Replaced

LEMMA PublishedTable ==
  ASSUME table \in Seq(TableType), table # <<>>, NEW new \in TableType,
         table' = Append(table, new)
  PROVE  /\ table' \in Seq(TableType) /\ table' # <<>> /\ Len(table') = Len(table) + 1
         /\ g_index' = new /\ \A t \in 1 .. Len(table) : table'[t] = table[t]
<1>1. /\ table' \in Seq(TableType) /\ table' # <<>> /\ Len(table') = Len(table) + 1
      /\ \A t \in 1 .. Len(table) : table'[t] = table[t]
      /\ table'[Len(table) + 1] = new
  BY AppendProperties
<1> QED
  BY <1>1 DEF g_index

LEMMA UnitReplaced ==
  ASSUME table \in Seq(TableType), table # <<>>, NEW s, NEW u,
         table' = [table EXCEPT ![Len(table)].slot[s].unit = u],
         UnitWritten(g_index, s, u) \in TableType
  PROVE  Replaced(UnitWritten(g_index, s, u))
<1>1. table' = [table EXCEPT ![Len(table)] = UnitWritten(g_index, s, u)]
  BY DEF UnitWritten, g_index
<1> QED
  BY <1>1, ReplacedBy
===============================================================================
