----------------------------- MODULE GrowthProofs -----------------------------
(***************************************************************************)
(* What the operators of Growth do to an arena, for every profile, chunk   *)
(* and page size, and any number of mappings: how carving, splitting,      *)
(* merging, moving and releasing keep the tiling of the spans and what is  *)
(* known of them.                                                          *)
(***************************************************************************)
EXTENDS Growth, Integers, FiniteSetTheorems, WellFoundedInduction, TLAPS

-------------------------------------------------------------------------------
(***************************************************************************)
(* What is known of an arena between two calls.                            *)
(***************************************************************************)
BlockType  == [size : Nat, used : BOOLEAN, give : Nat, crc : {"none", "good", "bad"}]
BlocksType == UNION {[D -> BlockType] : D \in SUBSET Nat}
SpanType   == [kind : {"chunk", "large"}, fresh : BOOLEAN, blocks : BlocksType,
               dirty : SUBSET Int]
SpansType  == UNION {[K -> SpanType] : K \in SUBSET (1 .. MaxSpans)}
HeapType   == [spans : SpansType, fresh : Nat]

\* The blocks follow one another without a gap from MM_BLOCK_OFFSET to hi, and
\* none is too small for its metadata.
Tiled(B, hi) ==
  /\ \A p \in DOMAIN B : B[p].size >= MM_MIN_BLOCK
  /\ \A p, q \in DOMAIN B : p < q => EndOf(B, p) <= q
  /\ \A p \in DOMAIN B : EndOf(B, p) = hi \/ EndOf(B, p) \in DOMAIN B
  /\ \A p \in DOMAIN B : p = MM_BLOCK_OFFSET \/ \E q \in DOMAIN B : EndOf(B, q) = p

\* No free block is followed by another.
Apart(B) ==
  \A p \in DOMAIN B : ~B[p].used /\ EndOf(B, p) \in DOMAIN B => B[EndOf(B, p)].used

\* What the program may use leaves room for the metadata on both sides of it.
Roomy(b) == b.used => MM_HDR_SIZE + b.give + MM_TRAIL <= b.size

\* A payload has a checksum only while checksums are kept, and then its own.
Summed(b, live) == b.crc = "none" \/ (b.crc = "good" /\ live)

\* A span that counts as fresh is one free block, and nothing else was written.
Untouched(s) ==
  s.fresh => /\ DOMAIN s.blocks = {MM_BLOCK_OFFSET} /\ ~s.blocks[MM_BLOCK_OFFSET].used
             /\ s.dirty = Meta(s.blocks)

Sound(s, live) ==
  /\ \E hi \in Nat : Tiled(s.blocks, hi)
  /\ Apart(s.blocks)
  /\ \A p \in DOMAIN s.blocks : Roomy(s.blocks[p]) /\ Summed(s.blocks[p], live)
  /\ Untouched(s)

\* A mapping made for one allocation has a block in use.
Inhabited(s) == s.kind = "large" => \E p \in DOMAIN s.blocks : s.blocks[p].used

HeapSound(h, live) ==
  /\ h \in HeapType
  /\ \A k \in DOMAIN h.spans : Sound(h.spans[k], live)
  /\ h.fresh = Cardinality({k \in DOMAIN h.spans : h.spans[k].fresh})

\* The same but for a block that is about to be released, and but for a span that
\* is about to be replaced.
SoundBut(s, at, live) ==
  /\ \E hi \in Nat : Tiled(s.blocks, hi)
  /\ Apart(s.blocks)
  /\ \A p \in DOMAIN s.blocks : p # at => Roomy(s.blocks[p]) /\ Summed(s.blocks[p], live)
  /\ Untouched(s)

HeapBut(h, k, live) ==
  /\ h \in HeapType
  /\ \A j \in DOMAIN h.spans : j # k => Sound(h.spans[j], live)
  /\ h.fresh = Cardinality({j \in DOMAIN h.spans : h.spans[j].fresh})


-------------------------------------------------------------------------------
(***************************************************************************)
(* Arithmetic.                                                             *)
(***************************************************************************)
LEMMA Max2 ==
  ASSUME NEW a \in Int, NEW b \in Int
  PROVE  Max({a, b}) \in {a, b} /\ Max({a, b}) >= a /\ Max({a, b}) >= b
<1>1. \E x \in {a, b} : \A y \in {a, b} : x >= y
  OBVIOUS
<1> QED
  BY <1>1 DEF Max

\* RoundUp to an even number of words.
LEMMA RoundUp2 ==
  ASSUME NEW n \in Nat
  PROVE  /\ RoundUp(n, 2) \in Nat /\ RoundUp(n, 2) >= n /\ RoundUp(n, 2) <= n + 1
         /\ RoundUp(n, 2) % 2 = 0
  BY DEF RoundUp

\* And to any other.
LEMMA RoundUpCovers ==
  ASSUME NEW n \in Nat, NEW to \in Nat \ {0}
  PROVE  RoundUp(n, to) \in Nat /\ RoundUp(n, to) >= n
<1> DEFINE m == n + to - 1
           q == m \div to
           r == m % to
<1>1. m \in Nat
  OBVIOUS
<1>2. q \in Int /\ r \in Int /\ m = to * q + r /\ 0 <= r /\ r < to
  BY <1>1
<1>3. q >= 0
  BY <1>1, <1>2
<1>4. q * to = to * q
  BY <1>2
<1> HIDE DEF q, r
<1>5. q * to \in Int /\ q * to >= n
  BY <1>2, <1>4
<1> QED
  BY <1>5 DEF RoundUp, q

LEMMA Sizes ==
  /\ MM_HDR_SIZE \in {1, 2} /\ MM_CANARY_SIZE \in {0, 1} /\ MM_MIRROR_SIZE \in {0, 2}
  /\ MM_TRAIL = MM_CANARY_SIZE + MM_MIRROR_SIZE
  /\ MM_MIN_BLOCK \in Nat /\ MM_MIN_BLOCK % 2 = 0
  /\ MM_MIN_BLOCK >= MM_HDR_SIZE + 3 /\ MM_MIN_BLOCK >= MM_HDR_SIZE + 1 + MM_TRAIL
  /\ MM_BLOCK_OFFSET \in {0, 1}
  /\ Profile # "fast" => MM_CANARY_SIZE = 1 /\ MM_HDR_SIZE = 2 /\ MM_BLOCK_OFFSET = 0
<1>1. Profile \in {"fast", "hardened", "paranoid"}
  BY GrowthAssumption
<1>2. /\ MM_HDR_SIZE \in {1, 2} /\ MM_CANARY_SIZE \in {0, 1} /\ MM_MIRROR_SIZE \in {0, 2}
      /\ Profile # "fast" => MM_CANARY_SIZE = 1 /\ MM_HDR_SIZE = 2
  BY <1>1 DEF MM_HDR_SIZE, MM_CANARY_SIZE, MM_MIRROR_SIZE
<1>3. MM_TRAIL = MM_CANARY_SIZE + MM_MIRROR_SIZE
  BY DEF MM_TRAIL
<1> DEFINE m == Max({MM_HDR_SIZE + 3, MM_HDR_SIZE + 1 + MM_TRAIL})
<1>4. m \in Nat /\ m >= MM_HDR_SIZE + 3 /\ m >= MM_HDR_SIZE + 1 + MM_TRAIL
  BY <1>2, <1>3, Max2
<1> HIDE DEF m
<1>5. MM_MIN_BLOCK = RoundUp(m, 2)
  BY DEF MM_MIN_BLOCK, MM_ALIGNMENT, m
<1>6. MM_MIN_BLOCK \in Nat /\ MM_MIN_BLOCK % 2 = 0 /\ MM_MIN_BLOCK >= m
  BY <1>4, <1>5, RoundUp2
<1>7. MM_BLOCK_OFFSET \in {0, 1} /\ (MM_HDR_SIZE = 2 => MM_BLOCK_OFFSET = 0)
  BY <1>2 DEF MM_BLOCK_OFFSET, MM_ALIGNMENT
<1> QED
  BY <1>2, <1>3, <1>4, <1>6, <1>7

\* A block for a request has room for it and for the metadata around it.
LEMMA SizeFor ==
  ASSUME NEW size \in Nat
  PROVE  /\ mm_size_for(size) \in Nat /\ mm_size_for(size) % 2 = 0
         /\ mm_size_for(size) >= MM_MIN_BLOCK
         /\ mm_size_for(size) >= MM_HDR_SIZE + size + MM_TRAIL
<1> DEFINE n == MM_HDR_SIZE + size + MM_TRAIL
           m == RoundUp(n, 2)
<1>1. n \in Nat
  BY Sizes
<1>2. m \in Nat /\ m >= n /\ m % 2 = 0
  BY <1>1, RoundUp2
<1>3. mm_size_for(size) = Max({MM_MIN_BLOCK, m})
  BY DEF mm_size_for, MM_ALIGNMENT
<1> HIDE DEF n, m
<1>4. Max({MM_MIN_BLOCK, m}) \in {MM_MIN_BLOCK, m} /\ Max({MM_MIN_BLOCK, m}) >= MM_MIN_BLOCK /\ Max({MM_MIN_BLOCK, m}) >= m
  BY <1>2, Sizes, Max2
<1>5. mm_size_for(size) \in Nat /\ mm_size_for(size) % 2 = 0 /\ mm_size_for(size) >= MM_MIN_BLOCK
      /\ mm_size_for(size) >= n
  BY <1>1, <1>2, <1>3, <1>4, Sizes
<1> QED
  BY <1>5 DEF n

\* Among the numbers from x on one of the next a is a multiple of a.
LEMMA MultipleNear ==
  ASSUME NEW x \in Nat, NEW a \in Nat \ {0}
  PROVE  \E w \in x .. x + a : w % a = 0
<1> DEFINE q == x \div a
           r == x % a
           w == a * (q + 1)
<1>1. q \in Int /\ r \in Int /\ x = a * q + r /\ 0 <= r /\ r < a
  OBVIOUS
<1>2. w = a * q + a /\ w \in Int
  BY <1>1
<1>3. w \in x .. x + a /\ w >= 0
  BY <1>1, <1>2
<1> DEFINE d == w \div a
           e == w % a
<1>4. d \in Int /\ e \in Int /\ w = a * d + e /\ 0 <= e /\ e < a
  BY <1>2
<1> HIDE DEF q, r, d, e
<1>5. a * (q + 1 - d) = e
  BY <1>1, <1>4
<1>6. q + 1 - d \in Int
  BY <1>1, <1>4
<1> DEFINE z == q + 1 - d
<1>7. z \in Int /\ a * z = e
  BY <1>5, <1>6
<1> HIDE DEF z, w
<1>8. z < 1
  <2>1. z >= 1 => a * z >= a
    BY <1>7
  <2> QED
    BY <1>4, <1>7, <2>1
<1>9. z > -1
  <2>1. z <= -1 => a * z <= -a
    BY <1>7
  <2> QED
    BY <1>4, <1>7, <2>1
<1>10. z = 0
  BY <1>7, <1>8, <1>9
<1>11. e = 0
  BY <1>7, <1>10
<1> QED
  BY <1>3, <1>11 DEF e

-------------------------------------------------------------------------------
(***************************************************************************)
(* Tilings, and what cutting a block and joining two do to them.           *)
(***************************************************************************)
LEMMA BlocksElim ==
  ASSUME NEW B \in BlocksType
  PROVE  /\ DOMAIN B \subseteq Nat
         /\ B = [p \in DOMAIN B |-> B[p]]
         /\ \A p \in DOMAIN B : /\ B[p] \in BlockType /\ B[p].size \in Nat
                                /\ B[p].used \in BOOLEAN /\ B[p].give \in Nat
                                /\ EndOf(B, p) \in Nat
<1>1. PICK D \in SUBSET Nat : B \in [D -> BlockType]
  BY DEF BlocksType
<1>2. DOMAIN B = D /\ B = [p \in D |-> B[p]] /\ \A p \in D : B[p] \in BlockType
  BY <1>1
<1>3. \A b \in BlockType : b.size \in Nat /\ b.used \in BOOLEAN /\ b.give \in Nat
  BY DEF BlockType
<1> QED
  BY <1>2, <1>3 DEF EndOf

LEMMA BlocksIntro ==
  ASSUME NEW B, DOMAIN B \subseteq Nat, B = [p \in DOMAIN B |-> B[p]],
         \A p \in DOMAIN B : B[p] \in BlockType
  PROVE  B \in BlocksType
<1>1. B \in [DOMAIN B -> BlockType]
  OBVIOUS
<1> QED
  BY <1>1 DEF BlocksType

LEMMA NewBlocks ==
  ASSUME NEW size \in Nat, NEW give \in Nat
  PROVE  /\ FreeBlock(size) \in BlockType /\ FreeBlock(size).size = size
         /\ FreeBlock(size).used = FALSE /\ FreeBlock(size).crc = "none"
         /\ UsedBlock(size, give) \in BlockType /\ UsedBlock(size, give).size = size
         /\ UsedBlock(size, give).used = TRUE /\ UsedBlock(size, give).give = give
         /\ UsedBlock(size, give).crc = "none"
  BY DEF FreeBlock, UsedBlock, BlockType

LEMMA BlockExtent ==
  ASSUME NEW B \in BlocksType, NEW hi, Tiled(B, hi), NEW p \in DOMAIN B
  PROVE  /\ p \in Nat /\ B[p].size \in Nat /\ B[p].size >= MM_MIN_BLOCK /\ B[p].size > 3
         /\ EndOf(B, p) \in Nat /\ EndOf(B, p) = p + B[p].size /\ EndOf(B, p) > p
         /\ EndOf(B, p) - p = B[p].size /\ B[p].size = EndOf(B, p) - p
<1>1. p \in Nat /\ B[p].size \in Nat
  BY BlocksElim
<1>2. B[p].size >= MM_MIN_BLOCK
  BY DEF Tiled
<1>3. B[p].size > 3
  BY <1>1, <1>2, Sizes
<1>4. EndOf(B, p) = p + B[p].size
  BY DEF EndOf
<1> QED
  BY <1>1, <1>2, <1>3, <1>4

\* Of a block only one other can be the predecessor.
LEMMA OneBefore ==
  ASSUME NEW B \in BlocksType, NEW hi, Tiled(B, hi),
         NEW p \in DOMAIN B, NEW q \in DOMAIN B, EndOf(B, p) = EndOf(B, q)
  PROVE  p = q
<1>1. p \in Nat /\ q \in Nat /\ B[p].size > 0 /\ B[q].size > 0
      /\ EndOf(B, p) > p /\ EndOf(B, q) > q
  BY BlocksElim, Sizes DEF Tiled, EndOf
<1>2. (p < q => EndOf(B, p) <= q) /\ (q < p => EndOf(B, q) <= p)
  BY DEF Tiled
<1> QED
  BY <1>1, <1>2, BlocksElim

LEMMA TiledSame ==
  ASSUME NEW B \in BlocksType, NEW C \in BlocksType, NEW hi, Tiled(B, hi),
         DOMAIN C = DOMAIN B, \A x \in DOMAIN B : C[x].size = B[x].size
  PROVE  Tiled(C, hi)
<1>1. \A x \in DOMAIN C : EndOf(C, x) = EndOf(B, x)
  BY DEF EndOf
<1> QED
  BY <1>1 DEF Tiled

LEMMA TiledCut ==
  ASSUME NEW B \in BlocksType, NEW C \in BlocksType, NEW hi, Tiled(B, hi),
         NEW p \in DOMAIN B, NEW n \in Nat, n >= MM_MIN_BLOCK, B[p].size - n >= MM_MIN_BLOCK,
         DOMAIN C = DOMAIN B \cup {p + n},
         C[p].size = n, C[p + n].size = B[p].size - n,
         \A x \in DOMAIN B : x # p /\ x # p + n => C[x].size = B[x].size
  PROVE  Tiled(C, hi) /\ p + n \notin DOMAIN B
<1>1. /\ DOMAIN B \subseteq Nat /\ DOMAIN C \subseteq Nat /\ n > 0
      /\ \A x \in DOMAIN B : B[x].size \in Nat /\ B[x].size > 0
  BY BlocksElim, Sizes DEF Tiled
<1>2. p + n \notin DOMAIN B
  BY <1>1, Sizes DEF Tiled, EndOf
<1>3. /\ EndOf(C, p) = p + n /\ EndOf(C, p + n) = EndOf(B, p)
      /\ \A x \in DOMAIN B : x # p => EndOf(C, x) = EndOf(B, x)
  BY <1>1, <1>2 DEF EndOf
<1>4. \A x \in DOMAIN C : C[x].size >= MM_MIN_BLOCK
  BY <1>2 DEF Tiled
<1>5. ASSUME NEW x \in DOMAIN C, NEW y \in DOMAIN C, x < y
      PROVE  EndOf(C, x) <= y
  <2>1. CASE x = p
    BY <2>1, <1>1, <1>3, <1>5, Sizes DEF Tiled, EndOf
  <2>2. CASE x = p + n
    <3>1. y \in DOMAIN B /\ p < y
      BY <1>1, <1>5, <2>2
    <3> QED
      BY <2>2, <3>1, <1>3 DEF Tiled
  <2>3. CASE x \in DOMAIN B /\ x # p /\ y = p + n
    <3>1. x < p => EndOf(B, x) <= p
      BY <2>3 DEF Tiled
    <3>2. p < x => EndOf(B, p) <= x
      BY <2>3 DEF Tiled
    <3>3. EndOf(B, p) > p + n
      BY <1>1, Sizes DEF EndOf
    <3>4. x \in Nat /\ p \in Nat /\ EndOf(B, p) \in Nat /\ EndOf(B, x) \in Nat
      BY <1>1, <2>3 DEF EndOf
    <3> QED
      BY <2>3, <3>1, <3>2, <3>3, <3>4, <1>3, <1>5
  <2>4. CASE x \in DOMAIN B /\ x # p /\ y \in DOMAIN B
    BY <2>4, <1>3, <1>5 DEF Tiled
  <2> QED
    BY <2>1, <2>2, <2>3, <2>4
<1>6. \A x \in DOMAIN C : EndOf(C, x) = hi \/ EndOf(C, x) \in DOMAIN C
  BY <1>3 DEF Tiled
<1>7. ASSUME NEW x \in DOMAIN C
      PROVE  x = MM_BLOCK_OFFSET \/ \E q \in DOMAIN C : EndOf(C, q) = x
  <2>1. CASE x = p + n
    BY <2>1, <1>3
  <2>2. CASE x \in DOMAIN B
    <3>1. x = MM_BLOCK_OFFSET \/ \E q \in DOMAIN B : EndOf(B, q) = x
      BY <2>2 DEF Tiled
    <3> QED
      BY <3>1, <1>3
  <2> QED
    BY <2>1, <2>2
<1>8. \A x, y \in DOMAIN C : x < y => EndOf(C, x) <= y
  BY <1>5
<1>9. \A x \in DOMAIN C : x = MM_BLOCK_OFFSET \/ \E q \in DOMAIN C : EndOf(C, q) = x
  BY <1>7
<1> QED
  BY <1>2, <1>4, <1>6, <1>8, <1>9 DEF Tiled

LEMMA TiledJoin ==
  ASSUME NEW B \in BlocksType, NEW C \in BlocksType, NEW hi, Tiled(B, hi),
         NEW p \in DOMAIN B, NEW q \in DOMAIN B, q = EndOf(B, p),
         DOMAIN C = DOMAIN B \ {q}, C[p].size = B[p].size + B[q].size,
         \A x \in DOMAIN C : x # p => C[x].size = B[x].size
  PROVE  Tiled(C, hi) /\ p \in DOMAIN C /\ EndOf(C, p) = EndOf(B, q)
<1>1. /\ DOMAIN B \subseteq Nat
      /\ \A x \in DOMAIN B : B[x].size \in Nat /\ B[x].size > 0
  BY BlocksElim, Sizes DEF Tiled
<1>2. p \in DOMAIN C /\ q > p
  BY <1>1 DEF EndOf
<1>3. /\ EndOf(C, p) = EndOf(B, q)
      /\ \A x \in DOMAIN C : x # p => EndOf(C, x) = EndOf(B, x)
  BY <1>1, <1>2 DEF EndOf
<1>4. \A x \in DOMAIN C : C[x].size >= MM_MIN_BLOCK
  <2>1. C[p].size >= MM_MIN_BLOCK
    BY <1>1, <1>2, Sizes DEF Tiled
  <2> QED
    BY <2>1 DEF Tiled
<1>5. ASSUME NEW x \in DOMAIN C, NEW y \in DOMAIN C, x < y
      PROVE  EndOf(C, x) <= y
  <2>1. CASE x = p
    <3>1. EndOf(B, p) <= y /\ y # q
      BY <2>1, <1>5 DEF Tiled
    <3>2. q < y
      BY <3>1, <1>1
    <3>3. EndOf(B, q) <= y
      BY <3>2 DEF Tiled
    <3> QED
      BY <2>1, <3>3, <1>3
  <2>2. CASE x # p
    BY <2>2, <1>3, <1>5 DEF Tiled
  <2> QED
    BY <2>1, <2>2
<1>6. ASSUME NEW x \in DOMAIN C
      PROVE  EndOf(C, x) = hi \/ EndOf(C, x) \in DOMAIN C
  <2>1. CASE x = p
    <3>1. EndOf(B, q) = hi \/ EndOf(B, q) \in DOMAIN B
      BY DEF Tiled
    <3>2. EndOf(B, q) # q
      BY <1>1 DEF EndOf
    <3> QED
      BY <2>1, <3>1, <3>2, <1>3
  <2>2. CASE x # p
    <3>1. EndOf(B, x) # q
      BY <2>2, OneBefore
    <3>2. EndOf(B, x) = hi \/ EndOf(B, x) \in DOMAIN B
      BY DEF Tiled
    <3> QED
      BY <2>2, <3>1, <3>2, <1>3
  <2> QED
    BY <2>1, <2>2
<1>7. ASSUME NEW x \in DOMAIN C
      PROVE  x = MM_BLOCK_OFFSET \/ \E z \in DOMAIN C : EndOf(C, z) = x
  <2>1. x = MM_BLOCK_OFFSET \/ \E z \in DOMAIN B : EndOf(B, z) = x
    BY DEF Tiled
  <2>2. CASE x = MM_BLOCK_OFFSET
    BY <2>2
  <2>3. CASE \E z \in DOMAIN B : EndOf(B, z) = x
    <3>1. PICK z \in DOMAIN B : EndOf(B, z) = x
      BY <2>3
    <3>2. CASE z = q
      BY <3>1, <3>2, <1>2, <1>3
    <3>3. CASE z # q
      <4>1. z # p
        BY <3>1
      <4> QED
        BY <3>1, <3>3, <4>1, <1>3
    <3> QED
      BY <3>2, <3>3
  <2> QED
    BY <2>1, <2>2, <2>3
<1>8. \A x, y \in DOMAIN C : x < y => EndOf(C, x) <= y
  BY <1>5
<1>9. /\ \A x \in DOMAIN C : EndOf(C, x) = hi \/ EndOf(C, x) \in DOMAIN C
      /\ \A x \in DOMAIN C : x = MM_BLOCK_OFFSET \/ \E z \in DOMAIN C : EndOf(C, z) = x
  BY <1>6, <1>7
<1> QED
  BY <1>2, <1>3, <1>4, <1>8, <1>9 DEF Tiled

-------------------------------------------------------------------------------
(***************************************************************************)
(* Released: the block freed and its free neighbours become one.           *)
(***************************************************************************)

\* Sum, without the ones around at, of what Apart says.
ApartBut(B, at) ==
  \A p \in DOMAIN B : ~B[p].used /\ EndOf(B, p) \in DOMAIN B /\ EndOf(B, p) # at
                      => B[EndOf(B, p)].used

\* The block freed, merged with the one behind it if that is free.
LEMMA ReleasedForward ==
  ASSUME NEW B \in BlocksType, NEW hi, Tiled(B, hi), Apart(B),
         NEW at \in DOMAIN B, B[at].used
  PROVE  LET next == EndOf(B, at)
             far  == IF IsFree(B, next) THEN EndOf(B, next) ELSE next
             J    == [p \in DOMAIN B \ (IF IsFree(B, next) THEN {next} ELSE {}) |->
                        IF p = at THEN FreeBlock(far - at) ELSE B[p]]
         IN  /\ far \in Nat /\ far >= next /\ next > at /\ far - at \in Nat
             /\ J \in BlocksType /\ Tiled(J, hi) /\ at \in DOMAIN J /\ ApartBut(J, at)
             /\ EndOf(J, at) = far
<1> DEFINE next == EndOf(B, at)
           far  == IF IsFree(B, next) THEN EndOf(B, next) ELSE next
           J    == [p \in DOMAIN B \ (IF IsFree(B, next) THEN {next} ELSE {}) |->
                      IF p = at THEN FreeBlock(far - at) ELSE B[p]]
<1>1. /\ DOMAIN B \subseteq Nat /\ at \in Nat /\ next \in Nat /\ next > at
      /\ B[at].size \in Nat /\ next - at = B[at].size
  BY BlocksElim, BlockExtent
<1>2. far \in Nat /\ far >= next
  BY <1>1, BlocksElim DEF IsFree, EndOf
<1>3. far - at \in Nat
  BY <1>1, <1>2
<1> HIDE DEF far
<1>4. FreeBlock(far - at) \in BlockType /\ FreeBlock(far - at).size = far - at
      /\ FreeBlock(far - at).used = FALSE
  BY <1>3, NewBlocks
<1>5. DOMAIN J = DOMAIN B \ (IF IsFree(B, next) THEN {next} ELSE {})
  OBVIOUS
<1>6. at \in DOMAIN J /\ J[at] = FreeBlock(far - at)
      /\ \A x \in DOMAIN J : x # at => x \in DOMAIN B /\ J[x] = B[x]
  BY <1>1, <1>5
<1>7. J \in BlocksType
  <2>1. DOMAIN J \subseteq Nat /\ J = [p \in DOMAIN J |-> J[p]]
    BY <1>1
  <2>2. \A p \in DOMAIN J : J[p] \in BlockType
    BY <1>4, <1>6, BlocksElim
  <2> QED
    BY <2>1, <2>2, BlocksIntro
<1> HIDE DEF J
<1>8. EndOf(J, at) = far
  BY <1>1, <1>2, <1>3, <1>4, <1>6 DEF EndOf
<1>9. Tiled(J, hi)
  <2>1. CASE IsFree(B, next)
    <3>1. next \in DOMAIN B /\ far = EndOf(B, next) /\ DOMAIN J = DOMAIN B \ {next}
      BY <2>1, <1>5 DEF IsFree, far
    <3>2. B[next].size \in Nat
      BY <3>1, BlocksElim
    <3>3. J[at].size = B[at].size + B[next].size
      BY <3>1, <3>2, <1>1, <1>4, <1>6 DEF EndOf
    <3>4. \A x \in DOMAIN J : x # at => J[x].size = B[x].size
      BY <1>6
    <3> QED
      BY <3>1, <3>3, <3>4, <1>7, TiledJoin
  <2>2. CASE ~IsFree(B, next)
    <3>1. DOMAIN J = DOMAIN B /\ far = next
      BY <2>2, <1>5 DEF far
    <3>2. \A x \in DOMAIN B : J[x].size = B[x].size
      BY <3>1, <1>1, <1>4, <1>6
    <3> QED
      BY <3>1, <3>2, <1>7, TiledSame
  <2> QED
    BY <2>1, <2>2
<1>10. ApartBut(J, at)
  <2> SUFFICES ASSUME NEW p \in DOMAIN J, ~J[p].used, EndOf(J, p) \in DOMAIN J,
                      EndOf(J, p) # at
               PROVE  J[EndOf(J, p)].used
    BY DEF ApartBut
  <2>1. CASE p = at
    <3>1. far \in DOMAIN J /\ far # at
      BY <2>1, <1>8
    <3>2. J[far] = B[far] /\ far \in DOMAIN B
      BY <3>1, <1>6
    <3>3. B[far].used
      <4>1. CASE IsFree(B, next)
        BY <4>1, <3>2 DEF far, IsFree, Apart
      <4>2. CASE ~IsFree(B, next)
        BY <4>2, <3>2 DEF far, IsFree
      <4> QED
        BY <4>1, <4>2
    <3> QED
      BY <2>1, <1>8, <3>2, <3>3
  <2>2. CASE p # at
    <3>1. p \in DOMAIN B /\ J[p] = B[p] /\ EndOf(J, p) = EndOf(B, p)
      BY <2>2, <1>6 DEF EndOf
    <3>2. EndOf(B, p) \in DOMAIN B /\ J[EndOf(B, p)] = B[EndOf(B, p)]
      BY <3>1, <1>6
    <3> QED
      BY <3>1, <3>2 DEF Apart
  <2> QED
    BY <2>1, <2>2
<1> QED
  BY <1>1, <1>2, <1>3, <1>7, <1>8, <1>9, <1>10, <1>6 DEF J, far

LEMMA MinIs ==
  ASSUME NEW S, S \subseteq Int, NEW x \in S, \A y \in S : x <= y
  PROVE  Min(S) = x
<1>1. \E z \in S : \A y \in S : z <= y
  OBVIOUS
<1>2. Min(S) \in S /\ \A y \in S : Min(S) <= y
  BY <1>1 DEF Min
<1>3. Min(S) \in Int /\ x \in Int /\ Min(S) <= x /\ x <= Min(S)
  BY <1>2
<1> QED
  BY <1>3

\* What release_block leaves: the tiling is whole, no two free blocks touch, the
\* block freed lies in a free one and every other block in use is as it was.
LEMMA ReleasedOK ==
  ASSUME NEW B \in BlocksType, NEW hi, Tiled(B, hi), Apart(B),
         NEW at \in DOMAIN B, B[at].used
  PROVE  LET R == Released(B, at)
         IN  /\ R \in BlocksType /\ Tiled(R, hi) /\ Apart(R)
             /\ \E f \in DOMAIN R :
                  /\ R[f] = FreeBlock(R[f].size) /\ f <= at /\ EndOf(B, at) <= EndOf(R, f)
                  /\ \A p \in DOMAIN R : p # f => p \in DOMAIN B /\ p # at /\ R[p] = B[p]
             /\ \A p \in DOMAIN B : p # at /\ B[p].used => p \in DOMAIN R /\ R[p] = B[p]
<1> DEFINE next == EndOf(B, at)
           far  == IF IsFree(B, next) THEN EndOf(B, next) ELSE next
           behind == IF IsFree(B, next) THEN {next} ELSE {}
           J    == [p \in DOMAIN B \ behind |->
                      IF p = at THEN FreeBlock(far - at) ELSE B[p]]
           before == {p \in DOMAIN B : EndOf(B, p) = at /\ ~B[p].used}
           R    == Released(B, at)
<1>1. /\ far \in Nat /\ far >= next /\ next > at /\ far - at \in Nat
      /\ J \in BlocksType /\ Tiled(J, hi) /\ at \in DOMAIN J /\ ApartBut(J, at)
      /\ EndOf(J, at) = far
  BY ReleasedForward
<1>2. /\ DOMAIN B \subseteq Nat /\ at \in Nat /\ next \in Nat
  BY BlocksElim
<1>3. R = LET first == Min(before \cup {at} \cup behind)
          IN  [p \in (DOMAIN B \ (before \cup {at} \cup behind)) \cup {first} |->
                 IF p = first THEN FreeBlock(far - first) ELSE B[p]]
  BY DEF Released
<1>4. /\ DOMAIN J = DOMAIN B \ behind /\ J[at] = FreeBlock(far - at)
      /\ \A x \in DOMAIN J : x # at => x \in DOMAIN B /\ J[x] = B[x]
      /\ J = [p \in DOMAIN J |-> J[p]]
  BY <1>1
<1>5. behind \subseteq {next} /\ \A x \in behind : x \in DOMAIN B /\ ~B[x].used
  BY DEF IsFree
<1>6. /\ FreeBlock(far - at).size = far - at /\ FreeBlock(far - at).used = FALSE
  BY <1>1, NewBlocks
<1> HIDE DEF J, far, R, before, behind
<1>7. CASE before = {}
  <2>1. Min(before \cup {at} \cup behind) = at
    <3>1. \A y \in before \cup {at} \cup behind : at <= y /\ y \in Int
      BY <1>1, <1>2, <1>5, <1>7
    <3> QED
      BY <3>1, MinIs
  <2>2. R = J
    <3>1. (DOMAIN B \ (before \cup {at} \cup behind)) \cup {at} = DOMAIN J
      BY <1>1, <1>4, <1>7
    <3>2. R = [p \in DOMAIN J |-> IF p = at THEN FreeBlock(far - at) ELSE B[p]]
      BY <1>3, <2>1, <3>1
    <3> QED
      BY <3>2, <1>4
  <2>3. Apart(J)
    <3> SUFFICES ASSUME NEW p \in DOMAIN J, ~J[p].used, EndOf(J, p) \in DOMAIN J
                 PROVE  J[EndOf(J, p)].used
      BY DEF Apart
    <3>1. CASE EndOf(J, p) # at
      BY <3>1, <1>1 DEF ApartBut
    <3>2. CASE EndOf(J, p) = at
      <4>1. p # at
        BY <3>2, <1>1, <1>2
      <4>2. p \in DOMAIN B /\ EndOf(B, p) = at /\ ~B[p].used
        BY <3>2, <4>1, <1>4 DEF EndOf
      <4> QED
        BY <4>2, <1>7 DEF before
    <3> QED
      BY <3>1, <3>2
  <2>4. /\ J[at] = FreeBlock(J[at].size) /\ at <= at /\ EndOf(B, at) <= EndOf(J, at)
        /\ \A p \in DOMAIN J : p # at => p \in DOMAIN B /\ p # at /\ J[p] = B[p]
    BY <1>1, <1>2, <1>4, <1>6
  <2>5. \A p \in DOMAIN B : p # at /\ B[p].used => p \in DOMAIN J /\ J[p] = B[p]
    BY <1>4, <1>5
  <2> QED
    BY <1>1, <2>2, <2>3, <2>4, <2>5 DEF R
<1>8. CASE before # {}
  <2>1. PICK b \in before : TRUE
    BY <1>8
  <2>2. b \in DOMAIN B /\ EndOf(B, b) = at /\ ~B[b].used /\ b \in Nat /\ b < at /\ B[b].size \in Nat
        /\ B[b].size = at - b
    <3>1. b \in DOMAIN B /\ EndOf(B, b) = at /\ ~B[b].used
      BY <2>1 DEF before
    <3> QED
      BY <3>1, BlockExtent
  <2>3. before = {b}
    BY <2>1, <2>2, OneBefore DEF before
  <2>4. Min(before \cup {at} \cup behind) = b
    <3>1. \A y \in before \cup {at} \cup behind : b <= y /\ y \in Int
      BY <1>1, <1>2, <1>5, <2>2, <2>3
    <3> QED
      BY <3>1, <2>1, MinIs
  <2>5. R = [p \in DOMAIN J \ {at} |-> IF p = b THEN FreeBlock(far - b) ELSE B[p]]
    <3>1. (DOMAIN B \ (before \cup {at} \cup behind)) \cup {b} = DOMAIN J \ {at}
      <4>1. b \notin behind
        BY <1>1, <1>2, <1>5, <2>2
      <4> QED
        BY <2>2, <2>3, <4>1, <1>4
    <3> QED
      BY <1>3, <2>4, <3>1
  <2>6. far - b \in Nat
    BY <1>1, <1>2, <2>2
  <2>7. FreeBlock(far - b) \in BlockType /\ FreeBlock(far - b).size = far - b
        /\ FreeBlock(far - b).used = FALSE
    BY <2>6, NewBlocks
  <2>8. b \in DOMAIN J /\ b # at /\ J[b] = B[b] /\ EndOf(J, b) = at
    <3>1. b \in DOMAIN J
      BY <1>1, <1>2, <1>4, <1>5, <2>2
    <3> QED
      BY <3>1, <1>4, <2>2 DEF EndOf
  <2>9. DOMAIN R = DOMAIN J \ {at} /\ R[b] = FreeBlock(far - b) /\ b \in DOMAIN R
        /\ \A x \in DOMAIN R : x # b => x \in DOMAIN B /\ x # at /\ R[x] = B[x] /\ J[x] = B[x]
    BY <2>5, <2>8, <1>4
  <2>10. R \in BlocksType
    <3>1. DOMAIN R \subseteq Nat /\ R = [p \in DOMAIN R |-> R[p]]
      BY <2>5, <1>2, <1>4
    <3>2. \A p \in DOMAIN R : R[p] \in BlockType
      BY <2>7, <2>9, BlocksElim
    <3> QED
      BY <3>1, <3>2, BlocksIntro
  <2>11. Tiled(R, hi) /\ EndOf(R, b) = far
    <3>1. R[b].size = J[b].size + J[at].size
      BY <2>7, <2>8, <2>9, <1>4, <1>6, <2>2, <1>1, <1>2
    <3>2. \A x \in DOMAIN R : x # b => R[x].size = J[x].size
      BY <2>9
    <3> QED
      BY <3>1, <3>2, <2>8, <2>9, <2>10, <1>1, TiledJoin
  <2>12. Apart(R)
    <3> SUFFICES ASSUME NEW p \in DOMAIN R, ~R[p].used, EndOf(R, p) \in DOMAIN R
                 PROVE  R[EndOf(R, p)].used
      BY DEF Apart
    <3>1. \A x \in DOMAIN R : x # b => EndOf(R, x) = EndOf(J, x) /\ J[x].used = R[x].used
      BY <2>9 DEF EndOf
    <3>2. J[at].used = FALSE
      BY <1>4, <1>6
    <3>3. far \notin {b, at}
      BY <1>1, <1>2, <2>2
    <3>4. CASE p = b
      <4>1. far \in DOMAIN J /\ J[far].used
        BY <3>4, <2>9, <2>11, <3>2, <3>3, <1>1 DEF ApartBut
      <4> QED
        BY <3>1, <3>3, <3>4, <4>1, <2>11, <2>9
    <3>5. CASE p # b
      <4>1. ~J[p].used /\ EndOf(J, p) \in DOMAIN J /\ EndOf(J, p) # at /\ EndOf(R, p) = EndOf(J, p)
        BY <3>1, <3>5, <2>9
      <4>2. J[EndOf(J, p)].used
        BY <4>1, <1>1, <2>9 DEF ApartBut
      <4>3. EndOf(J, p) # b
        BY <4>2, <2>8, <2>2
      <4> QED
        BY <4>1, <4>2, <4>3, <3>1, <2>9
    <3> QED
      BY <3>4, <3>5
  <2>13. /\ R[b] = FreeBlock(R[b].size) /\ b <= at /\ EndOf(B, at) <= EndOf(R, b)
    BY <1>1, <1>2, <2>2, <2>7, <2>9, <2>11
  <2>14. \A p \in DOMAIN B : p # at /\ B[p].used => p \in DOMAIN R /\ R[p] = B[p]
    BY <2>2, <2>9, <1>4, <1>5
  <2> QED
    BY <2>9, <2>10, <2>11, <2>12, <2>13, <2>14 DEF R
<1> QED
  BY <1>7, <1>8

-------------------------------------------------------------------------------
(***************************************************************************)
(* Split and Finished: a block trimmed to what was asked for and handed    *)
(* out, with its checksum.                                                 *)
(***************************************************************************)
LEMMA SplitOK ==
  ASSUME NEW B \in BlocksType, NEW hi, Tiled(B, hi), Apart(B),
         NEW at \in DOMAIN B, B[at].used,
         NEW need \in Nat, need >= MM_MIN_BLOCK, need <= B[at].size
  PROVE  LET S == Split(B, at, need)
         IN  /\ S \in BlocksType /\ Tiled(S, hi) /\ Apart(S)
             /\ at \in DOMAIN S /\ S[at].size >= need /\ S[at].used
             /\ \A p \in DOMAIN S : p # at => \/ S[p] = FreeBlock(S[p].size)
                                              \/ p \in DOMAIN B /\ S[p] = B[p]
             /\ \A p \in DOMAIN B : p # at /\ B[p].used => p \in DOMAIN S /\ S[p] = B[p]
<1> DEFINE left == B[at].size - need
           cut  == at + need
           C    == [p \in DOMAIN B \cup {cut} |->
                      IF p = at THEN [B[at] EXCEPT !.size = need]
                      ELSE IF p = cut THEN UsedBlock(left, 0) ELSE B[p]]
           S    == Split(B, at, need)
<1>1. at \in Nat /\ B[at].size \in Nat /\ B[at] \in BlockType /\ DOMAIN B \subseteq Nat
  BY BlocksElim
<1>2. CASE left < MM_MIN_BLOCK
  <2>1. S = B
    BY <1>2 DEF Split
  <2> QED
    BY <2>1
<1>3. CASE ~(left < MM_MIN_BLOCK)
  <2>1. S = Released(C, cut)
    BY <1>3 DEF Split
  <2>2. left \in Nat /\ left >= MM_MIN_BLOCK /\ need > 0 /\ cut \in Nat /\ cut # at
    BY <1>1, <1>3, Sizes
  <2>3. /\ UsedBlock(left, 0) \in BlockType /\ UsedBlock(left, 0).size = left
        /\ UsedBlock(left, 0).used = TRUE
    BY <2>2, NewBlocks
  <2>4. [B[at] EXCEPT !.size = need] \in BlockType /\ [B[at] EXCEPT !.size = need].size = need
        /\ [B[at] EXCEPT !.size = need].used = TRUE
    BY <1>1 DEF BlockType
  <2>5. /\ DOMAIN C = DOMAIN B \cup {cut} /\ at \in DOMAIN C /\ cut \in DOMAIN C
        /\ C[at] = [B[at] EXCEPT !.size = need] /\ C[cut] = UsedBlock(left, 0)
        /\ \A x \in DOMAIN B : x # at /\ x # cut => C[x] = B[x]
        /\ C = [p \in DOMAIN C |-> C[p]]
    BY <2>2
  <2> HIDE DEF C
  <2>6. C \in BlocksType
    <3>1. DOMAIN C \subseteq Nat
      BY <1>1, <2>2, <2>5
    <3>2. \A p \in DOMAIN C : C[p] \in BlockType
      BY <2>3, <2>4, <2>5, BlocksElim
    <3> QED
      BY <3>1, <3>2, <2>5, BlocksIntro
  <2>7. Tiled(C, hi) /\ cut \notin DOMAIN B
    <3>1. C[at].size = need /\ C[cut].size = B[at].size - need
      BY <2>3, <2>4, <2>5
    <3>2. \A x \in DOMAIN B : x # at /\ x # cut => C[x].size = B[x].size
      BY <2>5
    <3>3. DOMAIN C = DOMAIN B \cup {at + need} /\ B[at].size - need >= MM_MIN_BLOCK
      BY <2>2, <2>5
    <3> HIDE DEF cut
    <3>4. cut = at + need
      BY DEF cut
    <3>5. C[at + need].size = B[at].size - need
          /\ \A x \in DOMAIN B : x # at /\ x # at + need => C[x].size = B[x].size
      BY <3>1, <3>2, <3>4
    <3>6. Tiled(C, hi) /\ at + need \notin DOMAIN B
      BY <3>1, <3>3, <3>5, <2>6, TiledCut
    <3> QED
      BY <3>4, <3>6
  <2>8. Apart(C)
    <3> SUFFICES ASSUME NEW p \in DOMAIN C, ~C[p].used, EndOf(C, p) \in DOMAIN C
                 PROVE  C[EndOf(C, p)].used
      BY DEF Apart
    <3>1. p \in DOMAIN B /\ p # at /\ p # cut /\ C[p] = B[p] /\ EndOf(C, p) = EndOf(B, p)
      BY <2>3, <2>4, <2>5 DEF EndOf
    <3>2. CASE EndOf(B, p) \in {at, cut}
      BY <3>1, <3>2, <2>3, <2>4, <2>5
    <3>3. CASE EndOf(B, p) \notin {at, cut}
      <4>1. EndOf(B, p) \in DOMAIN B /\ C[EndOf(B, p)] = B[EndOf(B, p)]
        BY <3>1, <3>3, <2>5
      <4> QED
        BY <3>1, <4>1 DEF Apart
    <3> QED
      BY <3>2, <3>3
  <2>9. C[cut].used
    BY <2>3, <2>5
  <2>10. /\ S \in BlocksType /\ Tiled(S, hi) /\ Apart(S)
         /\ \E f \in DOMAIN S :
              /\ S[f] = FreeBlock(S[f].size)
              /\ \A p \in DOMAIN S : p # f => p \in DOMAIN C /\ p # cut /\ S[p] = C[p]
         /\ \A p \in DOMAIN C : p # cut /\ C[p].used => p \in DOMAIN S /\ S[p] = C[p]
    <3> HIDE DEF S, cut
    <3> QED
      BY <2>1, <2>5, <2>6, <2>7, <2>8, <2>9, ReleasedOK
  <2> HIDE DEF S, cut
  <2>11. at \in DOMAIN S /\ S[at].size >= need /\ S[at].used
    <3>1. at \in DOMAIN C /\ at # cut /\ C[at].used /\ C[at].size = need
      BY <2>2, <2>4, <2>5 DEF cut
    <3>2. at \in DOMAIN S /\ S[at] = C[at]
      BY <3>1, <2>10
    <3> QED
      BY <3>1, <3>2
  <2>12. \A p \in DOMAIN S : p # at => \/ S[p] = FreeBlock(S[p].size)
                                       \/ p \in DOMAIN B /\ S[p] = B[p]
    BY <2>5, <2>10
  <2>13. \A p \in DOMAIN B : p # at /\ B[p].used => p \in DOMAIN S /\ S[p] = B[p]
    BY <2>5, <2>7, <2>10
  <2> QED
    BY <2>10, <2>11, <2>12, <2>13 DEF S
<1> QED
  BY <1>2, <1>3

LEMMA FinishedOK ==
  ASSUME NEW B \in BlocksType, NEW hi, Tiled(B, hi), Apart(B),
         NEW at \in DOMAIN B, B[at].used,
         NEW size \in Nat, NEW crc \in {"none", "good", "bad"},
         MM_HDR_SIZE + size + MM_TRAIL <= B[at].size
  PROVE  LET F == Finished(B, at, size, crc)
         IN  /\ F \in BlocksType /\ Tiled(F, hi) /\ Apart(F) /\ DOMAIN F = DOMAIN B
             /\ F[at].used /\ F[at].crc = crc /\ F[at].give >= size
             /\ Roomy(F[at]) /\ F[at].size = B[at].size
             /\ \A p \in DOMAIN B : p # at => F[p] = B[p]
<1> DEFINE total == B[at].size
           give  == IF mode = "libc" THEN total - MM_HDR_SIZE - MM_TRAIL ELSE size
           b     == [UsedBlock(total, give) EXCEPT !.crc = crc]
           F     == Finished(B, at, size, crc)
<1>1. total \in Nat
  BY BlocksElim
<1>2. give \in Nat /\ give >= size /\ MM_HDR_SIZE + give + MM_TRAIL <= total
  <2>1. MM_HDR_SIZE \in Nat /\ MM_TRAIL \in Nat
    BY Sizes
  <2> HIDE DEF total
  <2>2. MM_HDR_SIZE + size + MM_TRAIL <= total
    BY DEF total
  <2>3. CASE mode = "libc"
    <3>1. give = total - MM_HDR_SIZE - MM_TRAIL
      BY <2>3
    <3> QED
      BY <3>1, <1>1, <2>1, <2>2
  <2>4. CASE mode # "libc"
    <3>1. give = size
      BY <2>4
    <3> QED
      BY <3>1, <1>1, <2>1, <2>2
  <2> QED
    BY <2>3, <2>4
<1>3. F = [B EXCEPT ![at] = b]
  BY DEF Finished
<1> HIDE DEF give
<1>4. b \in BlockType /\ b.size = total /\ b.used = TRUE /\ b.give = give /\ b.crc = crc
  BY <1>1, <1>2 DEF UsedBlock, BlockType
<1> HIDE DEF b, F
<1>5. /\ DOMAIN F = DOMAIN B /\ F[at] = b /\ \A p \in DOMAIN B : p # at => F[p] = B[p]
      /\ F = [p \in DOMAIN F |-> F[p]]
  BY <1>3
<1>6. F \in BlocksType
  <2>1. \A p \in DOMAIN F : F[p] \in BlockType
    BY <1>4, <1>5, BlocksElim
  <2> QED
    BY <2>1, <1>5, BlocksElim, BlocksIntro
<1>7. Tiled(F, hi)
  <2>1. \A p \in DOMAIN B : F[p].size = B[p].size
    BY <1>4, <1>5
  <2> QED
    BY <2>1, <1>5, <1>6, TiledSame
<1>8. Apart(F)
  <2> SUFFICES ASSUME NEW p \in DOMAIN F, ~F[p].used, EndOf(F, p) \in DOMAIN F
               PROVE  F[EndOf(F, p)].used
    BY DEF Apart
  <2>1. p # at /\ F[p] = B[p] /\ p \in DOMAIN B /\ EndOf(F, p) = EndOf(B, p)
    BY <1>4, <1>5 DEF EndOf
  <2> QED
    BY <2>1, <1>4, <1>5 DEF Apart
<1>9. Roomy(F[at])
  BY <1>2, <1>4, <1>5 DEF Roomy
<1> QED
  BY <1>2, <1>4, <1>5, <1>6, <1>7, <1>8, <1>9 DEF F

\* Both: what malloc_unlocked, realloc_unlocked and memalign_unlocked do to the
\* block they answer with.
LEMMA FittedOK ==
  ASSUME NEW B \in BlocksType, NEW hi, Tiled(B, hi), Apart(B),
         NEW at \in DOMAIN B, B[at].used,
         NEW size \in Nat, NEW crc \in {"none", "good", "bad"},
         mm_size_for(size) <= B[at].size
  PROVE  LET F == Finished(Split(B, at, mm_size_for(size)), at, size, crc)
         IN  /\ F \in BlocksType /\ Tiled(F, hi) /\ Apart(F)
             /\ at \in DOMAIN F /\ F[at].used /\ F[at].crc = crc /\ F[at].give >= size
             /\ Roomy(F[at])
             /\ \A p \in DOMAIN F : p # at => \/ F[p] = FreeBlock(F[p].size)
                                              \/ p \in DOMAIN B /\ F[p] = B[p]
             /\ \A p \in DOMAIN B : p # at /\ B[p].used => p \in DOMAIN F /\ F[p] = B[p]
<1> DEFINE need == mm_size_for(size)
           S    == Split(B, at, need)
           F    == Finished(S, at, size, crc)
<1>1. need \in Nat /\ need >= MM_MIN_BLOCK /\ need >= MM_HDR_SIZE + size + MM_TRAIL
  BY SizeFor
<1> HIDE DEF need
<1>2. /\ S \in BlocksType /\ Tiled(S, hi) /\ Apart(S)
      /\ at \in DOMAIN S /\ S[at].size >= need /\ S[at].used
      /\ \A p \in DOMAIN S : p # at => \/ S[p] = FreeBlock(S[p].size)
                                       \/ p \in DOMAIN B /\ S[p] = B[p]
      /\ \A p \in DOMAIN B : p # at /\ B[p].used => p \in DOMAIN S /\ S[p] = B[p]
  BY <1>1, SplitOK DEF need
<1> HIDE DEF S
<1>3. MM_HDR_SIZE + size + MM_TRAIL <= S[at].size
  BY <1>1, <1>2, BlocksElim, Sizes
<1>4. /\ F \in BlocksType /\ Tiled(F, hi) /\ Apart(F) /\ DOMAIN F = DOMAIN S
      /\ F[at].used /\ F[at].crc = crc /\ F[at].give >= size
      /\ Roomy(F[at])
      /\ \A p \in DOMAIN S : p # at => F[p] = S[p]
  BY <1>2, <1>3, FinishedOK
<1> HIDE DEF F
<1>5. /\ \A p \in DOMAIN F : p # at => \/ F[p] = FreeBlock(F[p].size)
                                       \/ p \in DOMAIN B /\ F[p] = B[p]
      /\ \A p \in DOMAIN B : p # at /\ B[p].used => p \in DOMAIN F /\ F[p] = B[p]
  BY <1>2, <1>4
<1> QED
  BY <1>2, <1>4, <1>5 DEF F, S, need

-------------------------------------------------------------------------------
(***************************************************************************)
(* Where the metadata is.                                                  *)
(***************************************************************************)
LEMMA MetaWithin ==
  ASSUME NEW B \in BlocksType, NEW hi, Tiled(B, hi), NEW p \in DOMAIN B, Roomy(B[p])
  PROVE  /\ MetaOf(B, p) \subseteq p .. EndOf(B, p) - 1
         /\ B[p].used => Payload(p, B[p].give) \cap MetaOf(B, p) = {}
         /\ ~B[p].used => Interior(B, p) \cap MetaOf(B, p) = {}
<1>1. /\ p \in Nat /\ B[p].size \in Nat /\ EndOf(B, p) \in Nat /\ B[p].give \in Nat
      /\ B[p].size >= MM_MIN_BLOCK /\ EndOf(B, p) = p + B[p].size /\ B[p].used \in BOOLEAN
  BY BlockExtent, BlocksElim
<1> DEFINE in == p + MM_HDR_SIZE
           head == p .. in - 1
           usedMeta == (in + B[p].give .. in + B[p].give + MM_CANARY_SIZE - 1)
                       \cup (EndOf(B, p) - MM_MIRROR_SIZE .. EndOf(B, p) - 1)
           freeMeta == {in, in + 1, EndOf(B, p) - 1}
<1>2. MetaOf(B, p) = head \cup (IF B[p].used THEN usedMeta ELSE freeMeta)
  BY DEF MetaOf
<1>3. CASE B[p].used
  <2>1. MM_HDR_SIZE + B[p].give + MM_TRAIL <= B[p].size
    BY <1>3 DEF Roomy
  <2>2. MetaOf(B, p) = head \cup usedMeta
    BY <1>3, <1>2
  <2> QED
    BY <1>1, <1>3, <2>1, <2>2, Sizes DEF Payload
<1>4. CASE ~B[p].used
  <2>1. MetaOf(B, p) = head \cup freeMeta
    BY <1>4, <1>2
  <2> QED
    BY <1>1, <1>4, <2>1, Sizes DEF Interior
<1> QED
  BY <1>1, <1>3, <1>4

\* The words of one block and the metadata of another have none in common.
LEMMA MetaElsewhere ==
  ASSUME NEW B \in BlocksType, NEW hi, Tiled(B, hi),
         NEW p \in DOMAIN B, NEW q \in DOMAIN B, p # q, Roomy(B[q])
  PROVE  (p .. EndOf(B, p) - 1) \cap MetaOf(B, q) = {}
<1>1. MetaOf(B, q) \subseteq q .. EndOf(B, q) - 1
  BY MetaWithin
<1>2. /\ p \in Nat /\ q \in Nat /\ EndOf(B, p) \in Nat /\ EndOf(B, q) \in Nat
      /\ (p < q => EndOf(B, p) <= q) /\ (q < p => EndOf(B, q) <= p)
  BY BlockExtent DEF Tiled
<1>3. (p .. EndOf(B, p) - 1) \cap (q .. EndOf(B, q) - 1) = {}
  BY <1>2
<1> QED
  BY <1>1, <1>3

LEMMA PayloadClear ==
  ASSUME NEW B \in BlocksType, NEW hi, Tiled(B, hi), \A p \in DOMAIN B : Roomy(B[p]),
         NEW at \in DOMAIN B, B[at].used, NEW n \in Nat, n <= B[at].give
  PROVE  Payload(at, n) \cap Meta(B) = {}
<1>1. /\ at \in Nat /\ B[at].size \in Nat /\ EndOf(B, at) = at + B[at].size /\ B[at].give \in Nat
  BY BlockExtent, BlocksElim
<1>2. MM_HDR_SIZE + B[at].give + MM_TRAIL <= B[at].size
  BY DEF Roomy
<1>3. Payload(at, n) \subseteq at .. EndOf(B, at) - 1 /\ Payload(at, n) \subseteq Payload(at, B[at].give)
  BY <1>1, <1>2, Sizes DEF Payload
<1>4. Payload(at, n) \cap MetaOf(B, at) = {}
  BY <1>3, MetaWithin
<1>5. \A q \in DOMAIN B : q # at => Payload(at, n) \cap MetaOf(B, q) = {}
  BY <1>3, MetaElsewhere
<1> QED
  BY <1>4, <1>5 DEF Meta

LEMMA InteriorClear ==
  ASSUME NEW B \in BlocksType, NEW hi, Tiled(B, hi), \A p \in DOMAIN B : Roomy(B[p]),
         NEW at \in DOMAIN B, ~B[at].used
  PROVE  Interior(B, at) \cap Meta(B) = {}
<1>1. at \in Nat /\ EndOf(B, at) \in Nat
  BY BlockExtent
<1>2. Interior(B, at) \subseteq at .. EndOf(B, at) - 1
  BY <1>1, Sizes DEF Interior
<1>3. Interior(B, at) \cap MetaOf(B, at) = {}
  BY MetaWithin
<1>4. \A q \in DOMAIN B : q # at => Interior(B, at) \cap MetaOf(B, q) = {}
  BY <1>2, MetaElsewhere
<1> QED
  BY <1>3, <1>4 DEF Meta

-------------------------------------------------------------------------------
LEMMA NatLeast ==
  ASSUME NEW T \in SUBSET Nat, T # {}
  PROVE  \E x \in T : \A y \in T : x <= y
<1> DEFINE R == OpToRel(<, Nat)
<1>1. IsWellFoundedOn(R, Nat)
  BY NatLessThanWellFounded
<1>2. \A x, y \in Nat : x < y => <<x, y>> \in R
  BY DEF OpToRel
<1> HIDE DEF R
<1>3. PICK x \in T : \A y \in T : ~ (<<y, x>> \in R)
  BY <1>1, WFMin
<1>4. ASSUME NEW y \in T
      PROVE  x <= y
  <2>1. x \in Nat /\ y \in Nat /\ ~(y < x)
    BY <1>2, <1>3
  <2> QED
    BY <2>1
<1> QED
  BY <1>4

-------------------------------------------------------------------------------
(***************************************************************************)
(* Spans and heaps.                                                        *)
(***************************************************************************)
LEMMA MetaInt ==
  ASSUME NEW B \in BlocksType
  PROVE  Meta(B) \subseteq Int /\ Words(B) \subseteq Int
<1> SUFFICES ASSUME NEW p \in DOMAIN B
             PROVE  MetaOf(B, p) \subseteq Int /\ (p .. EndOf(B, p) - 1) \subseteq Int
  BY DEF Meta, Words
<1>1. p \in Nat /\ EndOf(B, p) \in Nat /\ B[p].give \in Nat
  BY BlocksElim
<1>2. EndOf(B, p) - 1 \in Int /\ p + MM_HDR_SIZE \in Int /\ p + MM_HDR_SIZE + 1 \in Int
  BY <1>1, Sizes
<1> QED
  BY <1>1, <1>2 DEF MetaOf

\* Checksums are not where metadata is.
LEMMA MetaSame ==
  ASSUME NEW B \in BlocksType, NEW C \in BlocksType, DOMAIN B = DOMAIN C,
         \A p \in DOMAIN B : /\ C[p].size = B[p].size /\ C[p].used = B[p].used
                             /\ C[p].give = B[p].give
  PROVE  Meta(C) = Meta(B)
<1>1. ASSUME NEW p \in DOMAIN B
      PROVE  MetaOf(C, p) = MetaOf(B, p)
  <2>1. C[p].size = B[p].size /\ C[p].used = B[p].used /\ C[p].give = B[p].give
    OBVIOUS
  <2>2. EndOf(C, p) = EndOf(B, p)
    BY <2>1 DEF EndOf
  <2> QED
    BY <2>1, <2>2 DEF MetaOf
<1> QED
  BY <1>1 DEF Meta

LEMMA SpanElim ==
  ASSUME NEW s \in SpanType
  PROVE  /\ s.kind \in {"chunk", "large"} /\ s.fresh \in BOOLEAN /\ s.blocks \in BlocksType
         /\ s.dirty \subseteq Int
         /\ s = [kind |-> s.kind, fresh |-> s.fresh, blocks |-> s.blocks, dirty |-> s.dirty]
  BY DEF SpanType

LEMMA SpanIntro ==
  ASSUME NEW kind \in {"chunk", "large"}, NEW fresh \in BOOLEAN, NEW blocks \in BlocksType,
         NEW dirty, dirty \subseteq Int
  PROVE  [kind |-> kind, fresh |-> fresh, blocks |-> blocks, dirty |-> dirty] \in SpanType
  BY DEF SpanType

LEMMA HeapElim ==
  ASSUME NEW h \in HeapType
  PROVE  /\ h.fresh \in Nat /\ DOMAIN h.spans \subseteq 1 .. MaxSpans
         /\ h.spans = [k \in DOMAIN h.spans |-> h.spans[k]]
         /\ \A k \in DOMAIN h.spans : h.spans[k] \in SpanType
         /\ h = [spans |-> h.spans, fresh |-> h.fresh]
<1>1. h.spans \in SpansType /\ h.fresh \in Nat /\ h = [spans |-> h.spans, fresh |-> h.fresh]
  BY DEF HeapType
<1>2. PICK K \in SUBSET (1 .. MaxSpans) : h.spans \in [K -> SpanType]
  BY <1>1 DEF SpansType
<1> QED
  BY <1>1, <1>2

LEMMA HeapIntro ==
  ASSUME NEW S, NEW fresh \in Nat, DOMAIN S \subseteq 1 .. MaxSpans,
         S = [k \in DOMAIN S |-> S[k]], \A k \in DOMAIN S : S[k] \in SpanType
  PROVE  [spans |-> S, fresh |-> fresh] \in HeapType
<1>1. S \in [DOMAIN S -> SpanType]
  OBVIOUS
<1>2. S \in SpansType
  BY <1>1 DEF SpansType
<1> QED
  BY <1>2 DEF HeapType

\* The fresh ones among finitely many spans can be counted.
LEMMA FreshFinite ==
  ASSUME NEW h \in HeapType
  PROVE  /\ IsFiniteSet({k \in DOMAIN h.spans : h.spans[k].fresh})
         /\ Cardinality({k \in DOMAIN h.spans : h.spans[k].fresh}) \in Nat
<1>1. MaxSpans \in Nat
  BY GrowthAssumption
<1>2. IsFiniteSet(1 .. MaxSpans)
  BY <1>1, FS_Interval
<1>3. {k \in DOMAIN h.spans : h.spans[k].fresh} \subseteq 1 .. MaxSpans
  BY HeapElim
<1> QED
  BY <1>2, <1>3, FS_Subset, FS_CardinalityType

LEMMA SoundBoth ==
  ASSUME NEW live \in BOOLEAN, NEW h, HeapSound(h, live), NEW k
  PROVE  /\ HeapBut(h, k, live)
         /\ k \in DOMAIN h.spans => \A at : SoundBut(h.spans[k], at, live)
<1>1. HeapBut(h, k, live)
  BY DEF HeapSound, HeapBut
<1>2. ASSUME k \in DOMAIN h.spans, NEW at
      PROVE  SoundBut(h.spans[k], at, live)
  <2>1. Sound(h.spans[k], live)
    BY <1>2 DEF HeapSound
  <2> QED
    BY <2>1 DEF Sound, SoundBut
<1> QED
  BY <1>1, <1>2

\* One span put in, or put in another's place.
Put(h, k, s, S, fresh) ==
  /\ S = [j \in DOMAIN h.spans \cup {k} |-> IF j = k THEN s ELSE h.spans[j]]
  /\ fresh = (h.fresh - (IF k \in DOMAIN h.spans /\ h.spans[k].fresh THEN 1 ELSE 0))
             + (IF s.fresh THEN 1 ELSE 0)

LEMMA PutSpan ==
  ASSUME NEW live \in BOOLEAN, NEW h, NEW k \in 1 .. MaxSpans, HeapBut(h, k, live),
         NEW s \in SpanType, Sound(s, live), NEW S, NEW fresh, Put(h, k, s, S, fresh)
  PROVE  HeapSound([spans |-> S, fresh |-> fresh], live)
<1> DEFINE g   == [spans |-> S, fresh |-> fresh]
           old == {j \in DOMAIN h.spans : h.spans[j].fresh}
           new == {j \in DOMAIN S : S[j].fresh}
<1>1. /\ h \in HeapType /\ h.fresh = Cardinality(old)
      /\ \A j \in DOMAIN h.spans : j # k => Sound(h.spans[j], live)
  BY DEF HeapBut
<1>2. /\ IsFiniteSet(old) /\ h.fresh \in Nat /\ DOMAIN h.spans \subseteq 1 .. MaxSpans
      /\ \A j \in DOMAIN h.spans : h.spans[j] \in SpanType
  BY <1>1, FreshFinite, HeapElim
<1>3. /\ DOMAIN S = DOMAIN h.spans \cup {k} /\ S[k] = s
      /\ \A j \in DOMAIN h.spans : j # k => S[j] = h.spans[j]
      /\ S = [j \in DOMAIN S |-> S[j]]
  BY DEF Put
<1>4. s.fresh \in BOOLEAN
  BY SpanElim
<1>5. new = (old \ {k}) \cup (IF s.fresh THEN {k} ELSE {})
  <2>1. ASSUME NEW j
        PROVE  j \in new <=> j \in (old \ {k}) \cup (IF s.fresh THEN {k} ELSE {})
    <3>1. CASE j = k
      BY <3>1, <1>3
    <3>2. CASE j # k
      BY <3>2, <1>3
    <3> QED
      BY <3>1, <3>2
  <2> QED
    BY <2>1
<1> DEFINE rest == old \ {k}
<1>6. IsFiniteSet(rest) /\ Cardinality(rest) \in Nat
      /\ Cardinality(rest) = h.fresh - (IF k \in old THEN 1 ELSE 0)
  <2> HIDE DEF old
  <2>1. /\ IsFiniteSet(rest)
        /\ Cardinality(rest) = IF k \in old THEN Cardinality(old) - 1 ELSE Cardinality(old)
    BY <1>2, FS_RemoveElement
  <2>2. Cardinality(rest) \in Nat
    BY <2>1, FS_CardinalityType
  <2> HIDE DEF rest
  <2>3. CASE k \in old
    BY <2>1, <2>2, <2>3, <1>1, <1>2
  <2>4. CASE k \notin old
    BY <2>1, <2>2, <2>4, <1>1, <1>2
  <2> QED
    BY <2>3, <2>4
<1>7. k \in old <=> k \in DOMAIN h.spans /\ h.spans[k].fresh
  OBVIOUS
<1>8. k \notin rest
  OBVIOUS
<1> HIDE DEF new, old, rest
<1>9. Cardinality(rest \cup {k}) = Cardinality(rest) + 1
  BY <1>6, <1>8, FS_AddElement
<1>10. Cardinality(new) = Cardinality(rest) + (IF s.fresh THEN 1 ELSE 0)
  <2>1. CASE s.fresh
    <3>1. new = rest \cup {k}
      BY <2>1, <1>5 DEF rest
    <3> QED
      BY <3>1, <2>1, <1>9
  <2>2. CASE ~s.fresh
    <3>1. new = rest
      BY <2>2, <1>5 DEF rest
    <3> QED
      BY <3>1, <2>2, <1>6
  <2> QED
    BY <2>1, <2>2
<1>11. fresh = Cardinality(new) /\ fresh \in Nat
  <2>1. Cardinality(rest) = h.fresh - (IF k \in DOMAIN h.spans /\ h.spans[k].fresh THEN 1 ELSE 0)
    BY <1>6, <1>7
  <2>2. fresh = Cardinality(rest) + (IF s.fresh THEN 1 ELSE 0)
    BY <2>1 DEF Put
  <2> QED
    BY <2>2, <1>6, <1>10
<1>12. g \in HeapType
  <2>1. \A j \in DOMAIN S : S[j] \in SpanType
    BY <1>2, <1>3
  <2> QED
    BY <2>1, <1>2, <1>3, <1>11, HeapIntro
<1>13. \A j \in DOMAIN S : Sound(S[j], live)
  BY <1>1, <1>3
<1> QED
  BY <1>11, <1>12, <1>13 DEF HeapSound, new

\* A mapping given back.
LEMMA DropSpan ==
  ASSUME NEW live \in BOOLEAN, NEW h, NEW k \in DOMAIN h.spans, HeapBut(h, k, live),
         ~h.spans[k].fresh
  PROVE  HeapSound([spans |-> [j \in DOMAIN h.spans \ {k} |-> h.spans[j]], fresh |-> h.fresh],
                   live)
<1> DEFINE S == [j \in DOMAIN h.spans \ {k} |-> h.spans[j]]
<1>1. /\ h \in HeapType /\ h.fresh = Cardinality({j \in DOMAIN h.spans : h.spans[j].fresh})
      /\ \A j \in DOMAIN h.spans : j # k => Sound(h.spans[j], live)
  BY DEF HeapBut
<1>2. {j \in DOMAIN S : S[j].fresh} = {j \in DOMAIN h.spans : h.spans[j].fresh}
  OBVIOUS
<1>3. [spans |-> S, fresh |-> h.fresh] \in HeapType
  <2>1. h.fresh \in Nat /\ DOMAIN S \subseteq 1 .. MaxSpans /\ \A j \in DOMAIN S : S[j] \in SpanType
    BY <1>1, HeapElim
  <2> QED
    BY <2>1, HeapIntro
<1>4. \A j \in DOMAIN S : Sound(S[j], live)
  BY <1>1
<1> HIDE DEF S
<1> QED
  BY <1>1, <1>2, <1>3, <1>4 DEF HeapSound, S

-------------------------------------------------------------------------------
(***************************************************************************)
(* Where a block comes from.                                               *)
(***************************************************************************)
LEMMA NewSpanOK ==
  ASSUME NEW live \in BOOLEAN, NEW need \in Nat, need >= MM_MIN_BLOCK, need % 2 = 0,
         NEW kind \in {"chunk", "large"}
  PROVE  LET s == NewSpan(need, kind)
         IN  /\ s \in SpanType /\ Sound(s, live) /\ s.fresh = TRUE /\ s.kind = kind
             /\ DOMAIN s.blocks = {MM_BLOCK_OFFSET}
             /\ ~s.blocks[MM_BLOCK_OFFSET].used /\ s.blocks[MM_BLOCK_OFFSET].size >= need
<1> DEFINE bytes  == RoundUp(MM_BLOCK_OFFSET + need, MM_CHUNK_SIZE)
           usable == bytes - MM_BLOCK_OFFSET
           size   == usable - (usable % MM_ALIGNMENT)
           B      == [at \in {MM_BLOCK_OFFSET} |-> FreeBlock(size)]
           s      == NewSpan(need, kind)
<1>1. MM_BLOCK_OFFSET \in Nat /\ MM_BLOCK_OFFSET + need \in Nat /\ MM_CHUNK_SIZE \in Nat \ {0}
  BY Sizes, GrowthAssumption
<1>2. bytes \in Nat /\ bytes >= MM_BLOCK_OFFSET + need
  BY <1>1, RoundUpCovers
<1> HIDE DEF bytes
<1>3. usable \in Nat /\ usable >= need
  BY <1>1, <1>2
<1> HIDE DEF usable
<1>4. size \in Nat /\ size >= need
  BY <1>3 DEF MM_ALIGNMENT
<1>5. s = [kind |-> kind, fresh |-> TRUE, blocks |-> B, dirty |-> Meta(B)]
  BY DEF NewSpan, bytes, usable
<1> HIDE DEF size, s
<1>6. FreeBlock(size) \in BlockType /\ FreeBlock(size).size = size /\ FreeBlock(size).used = FALSE
      /\ FreeBlock(size).crc = "none"
  BY <1>4, NewBlocks
<1>7. DOMAIN B = {MM_BLOCK_OFFSET} /\ B[MM_BLOCK_OFFSET] = FreeBlock(size)
      /\ B = [p \in DOMAIN B |-> B[p]]
  OBVIOUS
<1> HIDE DEF B
<1>8. B \in BlocksType
  BY <1>1, <1>6, <1>7, BlocksIntro
<1>9. Tiled(B, MM_BLOCK_OFFSET + size) /\ MM_BLOCK_OFFSET + size \in Nat
  <2>1. EndOf(B, MM_BLOCK_OFFSET) = MM_BLOCK_OFFSET + size
    BY <1>6, <1>7 DEF EndOf
  <2>2. size >= MM_MIN_BLOCK
    BY <1>4, Sizes
  <2> QED
    BY <1>1, <1>4, <1>6, <1>7, <2>1, <2>2 DEF Tiled
<1>10. Apart(B)
  <2>1. EndOf(B, MM_BLOCK_OFFSET) # MM_BLOCK_OFFSET
    BY <1>7, <1>8, <1>9, BlockExtent
  <2> QED
    BY <1>7, <2>1 DEF Apart
<1>11. \A p \in DOMAIN B : Roomy(B[p]) /\ Summed(B[p], live)
  BY <1>6, <1>7 DEF Roomy, Summed
<1>12. s.blocks = B /\ s.fresh = TRUE /\ s.kind = kind /\ s.dirty = Meta(B)
  BY <1>5
<1>13. s \in SpanType
  BY <1>5, <1>8, MetaInt, SpanIntro
<1>14. Untouched(s)
  BY <1>6, <1>7, <1>12 DEF Untouched
<1>15. Sound(s, live)
  BY <1>9, <1>10, <1>11, <1>12, <1>14 DEF Sound
<1>16. B[MM_BLOCK_OFFSET].size >= need
  BY <1>4, <1>6, <1>7
<1> QED
  BY <1>6, <1>7, <1>12, <1>13, <1>15, <1>16 DEF s

\* x names a free block of a heap that is sound if h is, holds what h holds and
\* no span more than that block's.
Source(h, x, need, live) ==
  /\ HeapSound(x.h, live)
  /\ x.k \in DOMAIN x.h.spans /\ x.at \in DOMAIN x.h.spans[x.k].blocks
  /\ ~x.h.spans[x.k].blocks[x.at].used /\ x.h.spans[x.k].blocks[x.at].size >= need
  /\ \A j \in DOMAIN h.spans : j \in DOMAIN x.h.spans /\ x.h.spans[j] = h.spans[j]
  /\ \A j \in DOMAIN x.h.spans : j # x.k => j \in DOMAIN h.spans

LEMMA MappedOK ==
  ASSUME NEW live \in BOOLEAN, NEW h, HeapSound(h, live),
         NEW need \in Nat, need >= MM_MIN_BLOCK, need % 2 = 0, NEW x \in Mapped(h, need)
  PROVE  Source(h, x, need, live)
<1> DEFINE k    == Min(Unmapped(h))
           kind == IF need > MM_LARGE_THRESHOLD THEN "large" ELSE "chunk"
           s    == NewSpan(need, kind)
           S    == [j \in DOMAIN h.spans \cup {k} |-> IF j = k THEN s ELSE h.spans[j]]
<1>1. Unmapped(h) # {} /\ x = [h |-> Grown(h, need, kind), k |-> k, at |-> MM_BLOCK_OFFSET]
  BY DEF Mapped
<1>2. k \in Unmapped(h)
  <2>1. Unmapped(h) \subseteq 1 .. MaxSpans
    BY DEF Unmapped
  <2>3. Unmapped(h) \in SUBSET Nat
    BY <2>1
  <2>4. \E z \in Unmapped(h) : \A y \in Unmapped(h) : z <= y
    BY <2>3, <1>1, NatLeast
  <2> QED
    BY <2>4 DEF Min
<1>3. k \in 1 .. MaxSpans /\ k \notin DOMAIN h.spans
  BY <1>2 DEF Unmapped
<1>4. kind \in {"chunk", "large"}
  OBVIOUS
<1>5. /\ s \in SpanType /\ Sound(s, live) /\ s.fresh = TRUE
      /\ DOMAIN s.blocks = {MM_BLOCK_OFFSET}
      /\ ~s.blocks[MM_BLOCK_OFFSET].used /\ s.blocks[MM_BLOCK_OFFSET].size >= need
  BY <1>4, NewSpanOK
<1>6. Grown(h, need, kind) = [spans |-> S, fresh |-> h.fresh + 1]
  BY DEF Grown
<1> HIDE DEF k, kind, s
<1>7. /\ DOMAIN S = DOMAIN h.spans \cup {k} /\ S[k] = s
      /\ \A j \in DOMAIN h.spans : S[j] = h.spans[j]
  BY <1>3
<1>8. h.fresh \in Nat
  BY HeapElim DEF HeapSound
<1>9. h.fresh + 1 = (h.fresh - (IF k \in DOMAIN h.spans /\ h.spans[k].fresh THEN 1 ELSE 0))
                    + (IF s.fresh THEN 1 ELSE 0)
  BY <1>3, <1>5, <1>8
<1>10. S = [j \in DOMAIN h.spans \cup {k} |-> IF j = k THEN s ELSE h.spans[j]]
  OBVIOUS
<1> HIDE DEF S
<1>11. HeapSound([spans |-> S, fresh |-> h.fresh + 1], live)
  <2>1. Put(h, k, s, S, h.fresh + 1)
    BY <1>9, <1>10 DEF Put
  <2> QED
    BY <2>1, <1>3, <1>5, PutSpan, SoundBoth
<1>12. x.h = [spans |-> S, fresh |-> h.fresh + 1] /\ x.h.spans = S /\ x.k = k /\ x.at = MM_BLOCK_OFFSET
  BY <1>1, <1>6
<1> QED
  BY <1>5, <1>7, <1>11, <1>12 DEF Source

LEMMA SourcesOK ==
  ASSUME NEW live \in BOOLEAN, NEW h, HeapSound(h, live),
         NEW need \in Nat, need >= MM_MIN_BLOCK, need % 2 = 0, NEW x \in Sources(h, need)
  PROVE  Source(h, x, need, live)
<1>1. x \in Mapped(h, need) \/ x \in Fits(h, need)
  BY DEF Sources
<1>2. CASE x \in Mapped(h, need)
  BY <1>2, MappedOK
<1>3. CASE x \in Fits(h, need)
  <2>1. PICK k \in DOMAIN h.spans : \E at \in DOMAIN h.spans[k].blocks :
          /\ IsFree(h.spans[k].blocks, at) /\ h.spans[k].blocks[at].size >= need
          /\ x = [h |-> h, k |-> k, at |-> at]
    BY <1>3 DEF Fits
  <2>2. PICK at \in DOMAIN h.spans[k].blocks :
          /\ IsFree(h.spans[k].blocks, at) /\ h.spans[k].blocks[at].size >= need
          /\ x = [h |-> h, k |-> k, at |-> at]
    BY <2>1
  <2>3. x.h = h /\ x.k = k /\ x.at = at
    BY <2>2
  <2> QED
    BY <2>2, <2>3 DEF Source, IsFree
<1> QED
  BY <1>1, <1>2, <1>3

-------------------------------------------------------------------------------
(***************************************************************************)
(* Carving.                                                                *)
(***************************************************************************)
LEMMA TakenOK ==
  ASSUME NEW B \in BlocksType, NEW hi, Tiled(B, hi), Apart(B), NEW at \in DOMAIN B
  PROVE  LET T == [B EXCEPT ![at].used = TRUE]
         IN  /\ T \in BlocksType /\ Tiled(T, hi) /\ Apart(T) /\ DOMAIN T = DOMAIN B
             /\ T[at].used /\ T[at].size = B[at].size
             /\ \A p \in DOMAIN B : p # at => T[p] = B[p]
<1> DEFINE b == [B[at] EXCEPT !.used = TRUE]
           T == [B EXCEPT ![at].used = TRUE]
<1>1. B[at] \in BlockType
  BY BlocksElim
<1>2. b \in BlockType /\ b.size = B[at].size /\ b.used = TRUE
  BY <1>1 DEF BlockType
<1>3. T = [B EXCEPT ![at] = b]
  OBVIOUS
<1> HIDE DEF T, b
<1>4. /\ DOMAIN T = DOMAIN B /\ T[at] = b /\ \A p \in DOMAIN B : p # at => T[p] = B[p]
      /\ T = [p \in DOMAIN T |-> T[p]]
  BY <1>3
<1>5. T \in BlocksType
  <2>1. \A p \in DOMAIN T : T[p] \in BlockType
    BY <1>2, <1>4, BlocksElim
  <2> QED
    BY <2>1, <1>4, BlocksElim, BlocksIntro
<1>6. Tiled(T, hi)
  <2>1. \A p \in DOMAIN B : T[p].size = B[p].size
    BY <1>2, <1>4
  <2> QED
    BY <2>1, <1>4, <1>5, TiledSame
<1>7. Apart(T)
  <2> SUFFICES ASSUME NEW p \in DOMAIN T, ~T[p].used, EndOf(T, p) \in DOMAIN T
               PROVE  T[EndOf(T, p)].used
    BY DEF Apart
  <2>1. p # at /\ T[p] = B[p] /\ p \in DOMAIN B /\ EndOf(T, p) = EndOf(B, p)
    BY <1>2, <1>4 DEF EndOf
  <2> QED
    BY <2>1, <1>2, <1>4 DEF Apart
<1> QED
  BY <1>2, <1>4, <1>5, <1>6, <1>7 DEF T

\* A span with another tiling, one no longer fresh, one with other words written.
LEMMA RetiledOK ==
  ASSUME NEW s \in SpanType, NEW C \in BlocksType
  PROVE  /\ Retiled(s, C) \in SpanType /\ Retiled(s, C).blocks = C
         /\ Retiled(s, C).kind = s.kind /\ Retiled(s, C).fresh = s.fresh
         /\ Retiled(s, C).dirty = s.dirty \cup Meta(C)
<1>1. s.dirty \cup Meta(C) \in SUBSET Int
  BY SpanElim, MetaInt
<1> DEFINE D == s.dirty \cup Meta(C)
           r == [s EXCEPT !.blocks = C, !.dirty = D]
<1>2. Retiled(s, C) = r
  BY DEF Retiled
<1> HIDE DEF D
<1>3. D \in SUBSET Int
  BY <1>1 DEF D
<1>4. r \in SpanType
  BY <1>3 DEF SpanType
<1>5. r.blocks = C /\ r.dirty = D
  BY <1>3 DEF SpanType
<1>6. r.kind = s.kind
  BY <1>3 DEF SpanType
<1>7. r.fresh = s.fresh
  BY <1>3 DEF SpanType
<1> HIDE DEF r
<1> QED
  BY <1>2, <1>4, <1>5, <1>6, <1>7 DEF D

LEMMA ConsumedOK ==
  ASSUME NEW s \in SpanType
  PROVE  /\ Consumed(s) \in SpanType /\ Consumed(s).blocks = s.blocks
         /\ Consumed(s).dirty = s.dirty /\ Consumed(s).kind = s.kind
         /\ Consumed(s).fresh = FALSE
<1> DEFINE r == [s EXCEPT !.fresh = FALSE]
<1>1. r \in SpanType /\ r.blocks = s.blocks /\ r.dirty = s.dirty /\ r.kind = s.kind
  BY DEF SpanType
<1>2. r.fresh = FALSE
  BY DEF SpanType
<1>3. Consumed(s) = r
  BY DEF Consumed
<1> QED
  BY <1>1, <1>2, <1>3

LEMMA WithBlocks ==
  ASSUME NEW s \in SpanType, NEW C \in BlocksType
  PROVE  LET r == [s EXCEPT !.blocks = C]
         IN  /\ r \in SpanType /\ r.blocks = C /\ r.dirty = s.dirty /\ r.kind = s.kind
             /\ r.fresh = s.fresh
  BY DEF SpanType

LEMMA WithDirty ==
  ASSUME NEW s \in SpanType, NEW D \in SUBSET Int
  PROVE  LET r == [s EXCEPT !.dirty = D]
         IN  /\ r \in SpanType /\ r.dirty = D /\ r.kind = s.kind /\ r.fresh = s.fresh
             /\ r.blocks = s.blocks
  BY DEF SpanType

\* g is h with a block of at least size words handed out at position at of span
\* k, and nothing in use in h is touched.
HandedOut(h, g, k, at, size, crc, live) ==
  /\ HeapSound(g, live)
  /\ k \in DOMAIN g.spans /\ at \in DOMAIN g.spans[k].blocks /\ ~g.spans[k].fresh
  /\ g.spans[k].blocks[at].used /\ g.spans[k].blocks[at].give >= size
  /\ g.spans[k].blocks[at].crc = crc
  /\ \A j \in DOMAIN g.spans : j # k => j \in DOMAIN h.spans /\ g.spans[j] = h.spans[j]
  /\ \A j \in DOMAIN h.spans : \A p \in DOMAIN h.spans[j].blocks : h.spans[j].blocks[p].used =>
       /\ j \in DOMAIN g.spans /\ p \in DOMAIN g.spans[j].blocks
       /\ g.spans[j].blocks[p] = h.spans[j].blocks[p]
       /\ ~(j = k /\ p = at)

\* What mm_malloc_fresh says was written is all that was: the rest of the payload
\* is as the kernel supplied it.
Clean(y, size) ==
  (Payload(y.at, size) \ Payload(y.at, y.prefix)) \cap y.h.spans[y.k].dirty = {}

\* What malloc_unlocked makes of the blocks of a span, and of the span.
CarvedOut(s, at, size) ==
  Finished(Split([s.blocks EXCEPT ![at].used = TRUE], at, mm_size_for(size)), at, size, "none")
SpanCarved(s, at, size) == Retiled(Consumed(s), CarvedOut(s, at, size))

CarvedWell(s, at, size, live) ==
  /\ SpanCarved(s, at, size) \in SpanType /\ Sound(SpanCarved(s, at, size), live)
  /\ SpanCarved(s, at, size).fresh = FALSE
  /\ SpanCarved(s, at, size).blocks = CarvedOut(s, at, size)
  /\ SpanCarved(s, at, size).dirty = s.dirty \cup Meta(CarvedOut(s, at, size))
  /\ CarvedOut(s, at, size) \in BlocksType
  /\ \E hi : Tiled(CarvedOut(s, at, size), hi)
  /\ \A p \in DOMAIN CarvedOut(s, at, size) : Roomy(CarvedOut(s, at, size)[p])
  /\ at \in DOMAIN CarvedOut(s, at, size)
  /\ CarvedOut(s, at, size)[at].used /\ CarvedOut(s, at, size)[at].give >= size
  /\ CarvedOut(s, at, size)[at].crc = "none"
  /\ \A p \in DOMAIN s.blocks : s.blocks[p].used =>
       /\ p # at /\ p \in DOMAIN CarvedOut(s, at, size)
       /\ CarvedOut(s, at, size)[p] = s.blocks[p]

LEMMA CarvedBlocks ==
  ASSUME NEW live \in BOOLEAN, NEW s \in SpanType, Sound(s, live), NEW size \in Nat,
         NEW at \in DOMAIN s.blocks, ~s.blocks[at].used,
         s.blocks[at].size >= mm_size_for(size)
  PROVE  CarvedWell(s, at, size, live)
<1> DEFINE B      == s.blocks
           taken  == [B EXCEPT ![at].used = TRUE]
           blocks == Finished(Split(taken, at, mm_size_for(size)), at, size, "none")
           c      == Consumed(s)
           r      == Retiled(c, blocks)
<1>1. B \in BlocksType
  BY SpanElim
<1>2. PICK hi \in Nat : Tiled(B, hi)
  BY DEF Sound
<1>3. Apart(B) /\ \A p \in DOMAIN B : Roomy(B[p]) /\ Summed(B[p], live)
  BY DEF Sound
<1>4. /\ taken \in BlocksType /\ Tiled(taken, hi) /\ Apart(taken) /\ DOMAIN taken = DOMAIN B
      /\ taken[at].used /\ taken[at].size = B[at].size
      /\ \A p \in DOMAIN B : p # at => taken[p] = B[p]
  <2> HIDE DEF B
  <2>1. at \in DOMAIN B
    BY DEF B
  <2> QED
    BY <2>1, <1>1, <1>2, <1>3, TakenOK
<1>5. mm_size_for(size) \in Nat /\ mm_size_for(size) <= taken[at].size
  <2>1. B[at].size \in Nat
    BY <1>1, BlocksElim
  <2> QED
    BY <2>1, <1>4, SizeFor
<1> HIDE DEF taken
<1>6. /\ blocks \in BlocksType /\ Tiled(blocks, hi) /\ Apart(blocks)
      /\ at \in DOMAIN blocks /\ blocks[at].used /\ blocks[at].crc = "none" /\ blocks[at].give >= size
      /\ Roomy(blocks[at])
      /\ \A p \in DOMAIN blocks : p # at => \/ blocks[p] = FreeBlock(blocks[p].size)
                                            \/ p \in DOMAIN taken /\ blocks[p] = taken[p]
      /\ \A p \in DOMAIN taken : p # at /\ taken[p].used => p \in DOMAIN blocks /\ blocks[p] = taken[p]
  BY <1>4, <1>5, FittedOK
<1> HIDE DEF blocks
<1>7. c \in SpanType
  BY ConsumedOK
<1>8. c.fresh = FALSE /\ c.dirty = s.dirty
  BY ConsumedOK
<1> HIDE DEF c
<1>9. r \in SpanType /\ r.blocks = blocks /\ r.fresh = FALSE /\ r.dirty = s.dirty \cup Meta(blocks)
  BY <1>6, <1>7, <1>8, RetiledOK
<1> HIDE DEF r
<1>10. ASSUME NEW p \in DOMAIN blocks
       PROVE  Roomy(blocks[p]) /\ Summed(blocks[p], live)
  <2>1. CASE p = at
    BY <2>1, <1>6 DEF Summed
  <2>2. CASE p # at /\ blocks[p] = FreeBlock(blocks[p].size)
    BY <2>2 DEF FreeBlock, Roomy, Summed
  <2>3. CASE p # at /\ p \in DOMAIN taken /\ blocks[p] = taken[p]
    BY <2>3, <1>3, <1>4
  <2> QED
    BY <2>1, <2>2, <2>3, <1>6
<1>11. Sound(r, live)
  BY <1>6, <1>9, <1>10 DEF Sound, Untouched
<1>12. \A p \in DOMAIN B : B[p].used => p # at /\ p \in DOMAIN blocks /\ blocks[p] = B[p]
  BY <1>4, <1>6
<1>13. \A p \in DOMAIN blocks : Roomy(blocks[p])
  BY <1>10
<1> QED
  BY <1>6, <1>9, <1>11, <1>12, <1>13 DEF r, c, blocks, taken, CarvedOut, SpanCarved, CarvedWell

\* A payload carved from a span that was fresh, but for its first words.
LEMMA CarvedClean ==
  ASSUME NEW live \in BOOLEAN, NEW s \in SpanType, Sound(s, live),
         NEW size \in Nat, size <= SizeMax, Profile # "fast",
         NEW at \in DOMAIN s.blocks, s.blocks[at].size >= mm_size_for(size),
         NEW C \in BlocksType, NEW hi, Tiled(C, hi), \A p \in DOMAIN C : Roomy(C[p]),
         at \in DOMAIN C, C[at].used, C[at].give >= size
  PROVE  (Payload(at, size) \ Payload(at, FreshPrefix(s, at))) \cap (s.dirty \cup Meta(C)) = {}
<1>1. s.blocks \in BlocksType /\ at \in Nat /\ s.blocks[at].size \in Nat
  BY SpanElim, BlocksElim
<1>2. Payload(at, size) \cap Meta(C) = {}
  BY PayloadClear, BlocksElim
<1>3. CASE ~(s.fresh /\ at = MM_BLOCK_OFFSET)
  <2>1. FreshPrefix(s, at) = SizeMax
    BY <1>3 DEF FreshPrefix
  <2>2. SizeMax \in Nat
    BY GrowthAssumption
  <2>3. Payload(at, size) \subseteq Payload(at, SizeMax)
    BY <1>1, <2>2, Sizes DEF Payload
  <2> QED
    BY <2>1, <2>3
<1>4. CASE s.fresh /\ at = MM_BLOCK_OFFSET
  <2>1. FreshPrefix(s, at) = 2
    BY <1>4 DEF FreshPrefix, MM_FRESH_DIRTY_PREFIX
  <2>2. DOMAIN s.blocks = {at} /\ ~s.blocks[at].used /\ s.dirty = Meta(s.blocks)
    BY <1>4 DEF Sound, Untouched
  <2>3. s.dirty = MetaOf(s.blocks, at)
    BY <2>2 DEF Meta
  <2> DEFINE in  == at + MM_HDR_SIZE
             end == EndOf(s.blocks, at)
  <2>4. MetaOf(s.blocks, at) = (at .. in - 1) \cup {in, in + 1, end - 1}
    BY <2>2 DEF MetaOf
  <2>5. MM_CANARY_SIZE = 1 /\ MM_TRAIL >= 1 /\ MM_TRAIL \in Nat /\ MM_HDR_SIZE \in Nat
    BY Sizes
  <2>6. /\ mm_size_for(size) \in Nat
        /\ mm_size_for(size) >= MM_HDR_SIZE + size + MM_TRAIL
    BY SizeFor
  <2>7. end = at + s.blocks[at].size
    BY DEF EndOf
  <2> HIDE DEF end
  <2>8. end \in Nat /\ end >= at + MM_HDR_SIZE + size + 1
    BY <1>1, <2>5, <2>6, <2>7
  <2>9. Payload(at, size) \ Payload(at, 2) \subseteq in + 2 .. in + (size - 1)
    <3> HIDE DEF in
    <3>1. in \in Nat
      BY <1>1, <2>5 DEF in
    <3>2. Payload(at, size) = in .. in + (size - 1) /\ Payload(at, 2) = in .. in + (2 - 1)
      BY DEF Payload, in
    <3> QED
      BY <3>1, <3>2
  <2>10. (in + 2 .. in + (size - 1)) \cap ((at .. in - 1) \cup {in, in + 1, end - 1}) = {}
    BY <1>1, <2>5, <2>8
  <2>11. (Payload(at, size) \ Payload(at, 2)) \cap s.dirty = {}
    BY <2>3, <2>4, <2>9, <2>10
  <2> QED
    BY <1>2, <2>1, <2>11
<1> QED
  BY <1>3, <1>4

LEMMA CarvedOK ==
  ASSUME NEW live \in BOOLEAN, NEW h, NEW size \in Nat, NEW x,
         Source(h, x, mm_size_for(size), live)
  PROVE  LET y == Carved(x, size)
         IN  /\ HandedOut(h, y.h, y.k, y.at, size, "none", live)
             /\ Profile # "fast" /\ size <= SizeMax => Clean(y, size)
<1> DEFINE s      == x.h.spans[x.k]
           blocks == CarvedOut(s, x.at, size)
           r      == SpanCarved(s, x.at, size)
           S      == [x.h.spans EXCEPT ![x.k] = r]
           fresh  == x.h.fresh - (IF s.fresh THEN 1 ELSE 0)
           y      == Carved(x, size)
<1>1. y = [h |-> [spans |-> S, fresh |-> fresh], k |-> x.k, at |-> x.at, prefix |-> FreshPrefix(s, x.at)]
  BY DEF Carved, SpanCarved, CarvedOut
<1>2. /\ HeapSound(x.h, live)
      /\ x.k \in DOMAIN x.h.spans /\ x.at \in DOMAIN s.blocks
      /\ ~s.blocks[x.at].used /\ s.blocks[x.at].size >= mm_size_for(size)
      /\ \A j \in DOMAIN h.spans : j \in DOMAIN x.h.spans /\ x.h.spans[j] = h.spans[j]
      /\ \A j \in DOMAIN x.h.spans : j # x.k => j \in DOMAIN h.spans
  BY DEF Source
<1>3. /\ s \in SpanType /\ Sound(s, live) /\ x.k \in 1 .. MaxSpans
      /\ x.h.spans = [j \in DOMAIN x.h.spans |-> x.h.spans[j]]
  BY <1>2, HeapElim DEF HeapSound
<1>4. /\ r \in SpanType /\ Sound(r, live) /\ r.fresh = FALSE /\ r.blocks = blocks
      /\ r.dirty = s.dirty \cup Meta(blocks) /\ blocks \in BlocksType
      /\ \E hi : Tiled(blocks, hi)
      /\ \A p \in DOMAIN blocks : Roomy(blocks[p])
      /\ x.at \in DOMAIN blocks /\ blocks[x.at].used /\ blocks[x.at].give >= size
      /\ blocks[x.at].crc = "none"
      /\ \A p \in DOMAIN s.blocks : s.blocks[p].used =>
           p # x.at /\ p \in DOMAIN blocks /\ blocks[p] = s.blocks[p]
  <2> HIDE DEF s
  <2> QED
    <3> DEFINE at == x.at
    <3>1. /\ s \in SpanType /\ Sound(s, live) /\ at \in DOMAIN s.blocks /\ ~s.blocks[at].used
          /\ s.blocks[at].size >= mm_size_for(size)
      BY <1>2, <1>3
    <3> HIDE DEF at
    <3>2. ASSUME NEW z \in SpanType, Sound(z, live), NEW q \in DOMAIN z.blocks, ~z.blocks[q].used,
                 z.blocks[q].size >= mm_size_for(size)
          PROVE  CarvedWell(z, q, size, live)
      BY <3>2, CarvedBlocks
    <3>3. CarvedWell(s, at, size, live)
      BY <3>1, <3>2
    <3> QED
      BY <3>3 DEF at, CarvedWell
<1> HIDE DEF r, blocks, y
<1>5. /\ DOMAIN S = DOMAIN x.h.spans /\ S[x.k] = r
      /\ \A j \in DOMAIN S : j # x.k => S[j] = x.h.spans[j]
      /\ S = [j \in DOMAIN x.h.spans \cup {x.k} |-> IF j = x.k THEN r ELSE x.h.spans[j]]
  BY <1>2, <1>3
<1> HIDE DEF S
<1>6. fresh = (x.h.fresh - (IF x.k \in DOMAIN x.h.spans /\ x.h.spans[x.k].fresh THEN 1 ELSE 0))
              + (IF r.fresh THEN 1 ELSE 0)
  <2>1. x.h.fresh \in Nat
    BY <1>2, HeapElim DEF HeapSound
  <2> QED
    BY <2>1, <1>2, <1>4
<1> HIDE DEF fresh
<1>7. HeapSound([spans |-> S, fresh |-> fresh], live)
  <2> DEFINE xh == x.h
             k  == x.k
  <2>1. /\ HeapBut(xh, k, live) /\ k \in 1 .. MaxSpans /\ r \in SpanType /\ Sound(r, live)
        /\ Put(xh, k, r, S, fresh)
    BY <1>2, <1>3, <1>4, <1>5, <1>6, SoundBoth DEF Put
  <2> HIDE DEF xh, k
  <2> QED
    BY <2>1, PutSpan
<1>8. y.h.spans = S /\ y.k = x.k /\ y.at = x.at /\ y.prefix = FreshPrefix(s, x.at)
      /\ y.h = [spans |-> S, fresh |-> fresh]
  BY <1>1
<1>9. \A j \in DOMAIN S : j # x.k => j \in DOMAIN h.spans /\ S[j] = h.spans[j]
  BY <1>2, <1>5
<1>10. ASSUME NEW j \in DOMAIN h.spans, NEW p \in DOMAIN h.spans[j].blocks, h.spans[j].blocks[p].used
       PROVE  /\ j \in DOMAIN S /\ p \in DOMAIN S[j].blocks
              /\ S[j].blocks[p] = h.spans[j].blocks[p]
              /\ ~(j = x.k /\ p = x.at)
  <2>1. j \in DOMAIN S /\ x.h.spans[j] = h.spans[j]
    BY <1>2, <1>5
  <2>2. CASE j = x.k
    BY <2>1, <2>2, <1>4, <1>5, <1>10
  <2>3. CASE j # x.k
    BY <2>1, <2>3, <1>5
  <2> QED
    BY <2>2, <2>3
<1>11. HandedOut(h, y.h, y.k, y.at, size, "none", live)
  <2>1. HeapSound(y.h, live)
    BY <1>7, <1>8
  <2>2. /\ y.k \in DOMAIN y.h.spans /\ y.h.spans[y.k] = r /\ r.blocks = blocks
    BY <1>2, <1>4, <1>5, <1>8
  <2>3. /\ y.at \in DOMAIN r.blocks /\ ~r.fresh /\ r.blocks[y.at].used
        /\ r.blocks[y.at].give >= size /\ r.blocks[y.at].crc = "none"
    BY <1>4, <1>8
  <2>4. \A j \in DOMAIN y.h.spans : j # y.k => j \in DOMAIN h.spans /\ y.h.spans[j] = h.spans[j]
    BY <1>8, <1>9
  <2>5. \A j \in DOMAIN h.spans : \A p \in DOMAIN h.spans[j].blocks : h.spans[j].blocks[p].used =>
          /\ j \in DOMAIN y.h.spans /\ p \in DOMAIN y.h.spans[j].blocks
          /\ y.h.spans[j].blocks[p] = h.spans[j].blocks[p]
          /\ ~(j = y.k /\ p = y.at)
    BY <1>8, <1>10
  <2> QED
    BY <2>1, <2>2, <2>3, <2>4, <2>5 DEF HandedOut
<1>12. Profile # "fast" /\ size <= SizeMax => Clean(y, size)
  <2> HIDE DEF s
  <2>1. PICK hi : Tiled(blocks, hi)
    BY <1>4
  <2>2. y.h.spans[y.k].dirty = s.dirty \cup Meta(blocks)
    BY <1>4, <1>5, <1>8
  <2> SUFFICES ASSUME Profile # "fast", size <= SizeMax
               PROVE  Clean(y, size)
    OBVIOUS
  <2>3. (Payload(x.at, size) \ Payload(x.at, FreshPrefix(s, x.at))) \cap (s.dirty \cup Meta(blocks)) = {}
    BY <2>1, <1>2, <1>3, <1>4, CarvedClean
  <2> QED
    BY <2>2, <2>3, <1>8 DEF Clean
<1> QED
  BY <1>11, <1>12 DEF y

LEMMA MallocOK ==
  ASSUME NEW live \in BOOLEAN, NEW h, HeapSound(h, live), NEW size \in Nat,
         NEW y \in malloc_unlocked(h, size)
  PROVE  /\ HandedOut(h, y.h, y.k, y.at, size, "none", live)
         /\ Profile # "fast" /\ size <= SizeMax => Clean(y, size)
<1>1. PICK x \in Sources(h, mm_size_for(size)) : y = Carved(x, size)
  BY DEF malloc_unlocked
<1>2. /\ mm_size_for(size) \in Nat /\ mm_size_for(size) % 2 = 0 /\ mm_size_for(size) >= MM_MIN_BLOCK
  BY SizeFor
<1>3. Source(h, x, mm_size_for(size), live)
  BY <1>2, SourcesOK
<1> QED
  BY <1>1, <1>3, CarvedOK

-------------------------------------------------------------------------------
(***************************************************************************)
(* Releasing.                                                              *)
(***************************************************************************)

\* A tiling without two free blocks in a row has one in use, or is one block.
LEMMA OneFree ==
  ASSUME NEW B \in BlocksType, NEW hi, Tiled(B, hi), Apart(B), NEW f \in DOMAIN B,
         \A p \in DOMAIN B : ~B[p].used
  PROVE  DOMAIN B = {f}
<1>1. \A p \in DOMAIN B : EndOf(B, p) \notin DOMAIN B
  BY DEF Apart
<1>2. \A p \in DOMAIN B : p = MM_BLOCK_OFFSET
  BY <1>1 DEF Tiled
<1> QED
  BY <1>2

\* r is what is left of h and what went with it when a block was freed.
FreedWell(h, r, k, at, live) ==
  /\ HeapSound(r.h, live) /\ r.lost = {}
  /\ \A j \in DOMAIN r.h.spans : j \in DOMAIN h.spans /\ (j # k => r.h.spans[j] = h.spans[j])
  /\ \A j \in DOMAIN h.spans : j # k => j \in DOMAIN r.h.spans
  /\ k \in DOMAIN r.h.spans => Inhabited(r.h.spans[k]) /\ r.h.spans[k].fresh = FALSE
  /\ \A p \in DOMAIN h.spans[k].blocks : p # at /\ h.spans[k].blocks[p].used =>
       /\ k \in DOMAIN r.h.spans /\ p \in DOMAIN r.h.spans[k].blocks
       /\ r.h.spans[k].blocks[p] = h.spans[k].blocks[p]

\* The span after the release, before it is known whether its mapping stays.
ReleasedWell(s, a, at, live) ==
  /\ a \in SpanType /\ Sound(a, live) /\ a.fresh = FALSE /\ a.kind = s.kind
  /\ \E hi : Tiled(a.blocks, hi)
  /\ \E f \in DOMAIN a.blocks : ~a.blocks[f].used /\ f <= at /\ at < EndOf(a.blocks, f)
  /\ \A p \in DOMAIN s.blocks : p # at /\ s.blocks[p].used =>
       p \in DOMAIN a.blocks /\ a.blocks[p] = s.blocks[p]

LEMMA ReleasedSpan ==
  ASSUME NEW live \in BOOLEAN, NEW s \in SpanType, NEW at \in DOMAIN s.blocks,
         SoundBut(s, at, live), s.blocks[at].used
  PROVE  ReleasedWell(s, Retiled(s, Released(s.blocks, at)), at, live)
<1> DEFINE B == s.blocks
           R == Released(B, at)
           a == Retiled(s, R)
<1>1. B \in BlocksType /\ s.fresh \in BOOLEAN
  BY SpanElim
<1>2. PICK hi \in Nat : Tiled(B, hi)
  BY DEF SoundBut
<1>3. Apart(B) /\ \A p \in DOMAIN B : p # at => Roomy(B[p]) /\ Summed(B[p], live)
  BY DEF SoundBut
<1>4. s.fresh = FALSE
  <2>1. ~s.fresh
    BY DEF SoundBut, Untouched
  <2> QED
    BY <1>1, <2>1
<1> HIDE DEF B
<1>5. at \in DOMAIN B /\ B[at].used
  BY DEF B
<1>6. /\ R \in BlocksType /\ Tiled(R, hi) /\ Apart(R)
      /\ \E f \in DOMAIN R :
           /\ R[f] = FreeBlock(R[f].size) /\ f <= at /\ EndOf(B, at) <= EndOf(R, f)
           /\ \A p \in DOMAIN R : p # f => p \in DOMAIN B /\ p # at /\ R[p] = B[p]
      /\ \A p \in DOMAIN B : p # at /\ B[p].used => p \in DOMAIN R /\ R[p] = B[p]
  BY <1>1, <1>2, <1>3, <1>5, ReleasedOK
<1> HIDE DEF R
<1>7. PICK f \in DOMAIN R :
           /\ R[f] = FreeBlock(R[f].size) /\ f <= at /\ EndOf(B, at) <= EndOf(R, f)
           /\ \A p \in DOMAIN R : p # f => p \in DOMAIN B /\ p # at /\ R[p] = B[p]
  BY <1>6
<1>8. /\ a \in SpanType /\ a.blocks = R /\ a.kind = s.kind /\ a.fresh = FALSE
  BY <1>4, <1>6, RetiledOK
<1>9. \A p \in DOMAIN R : Roomy(R[p]) /\ Summed(R[p], live)
  <2>1. Roomy(R[f]) /\ Summed(R[f], live)
    BY <1>7 DEF FreeBlock, Roomy, Summed
  <2> QED
    BY <2>1, <1>3, <1>7
<1> HIDE DEF a
<1>10. Sound(a, live)
  BY <1>6, <1>8, <1>9 DEF Sound, Untouched
<1>11. ~R[f].used /\ at < EndOf(R, f)
  <2>1. ~R[f].used
    BY <1>7 DEF FreeBlock
  <2>2. at \in Nat /\ EndOf(B, at) \in Nat /\ EndOf(B, at) > at
    BY <1>1, <1>2, <1>5, BlockExtent
  <2>3. EndOf(R, f) \in Nat
    BY <1>6, BlockExtent
  <2> QED
    BY <1>7, <2>1, <2>2, <2>3
<1>12. ReleasedWell(s, a, at, live)
  <2>1. \E hi2 : Tiled(a.blocks, hi2)
    BY <1>6, <1>8
  <2>2. \E f2 \in DOMAIN a.blocks : ~a.blocks[f2].used /\ f2 <= at /\ at < EndOf(a.blocks, f2)
    BY <1>7, <1>8, <1>11
  <2>3. \A p \in DOMAIN s.blocks : p # at /\ s.blocks[p].used =>
           p \in DOMAIN a.blocks /\ a.blocks[p] = s.blocks[p]
    BY <1>6, <1>8 DEF B
  <2> QED
    BY <1>8, <1>10, <2>1, <2>2, <2>3 DEF ReleasedWell
<1> QED
  BY <1>12 DEF a, R, B

\* Only whole pages of words without metadata are given back.
LEMMA PagesClear ==
  ASSUME NEW live \in BOOLEAN, NEW s, NEW a, NEW at \in Nat, ReleasedWell(s, a, at, live)
  PROVE  Pages(Interior(a.blocks,
                        CHOOSE p \in DOMAIN a.blocks : p <= at /\ at < EndOf(a.blocks, p)))
           \cap Meta(a.blocks) = {}
<1> DEFINE A   == a.blocks
           run == CHOOSE p \in DOMAIN A : p <= at /\ at < EndOf(A, p)
<1>1. A \in BlocksType
  BY SpanElim DEF ReleasedWell
<1>2. PICK hi : Tiled(A, hi)
  BY DEF ReleasedWell
<1>3. PICK f \in DOMAIN A : ~A[f].used /\ f <= at /\ at < EndOf(A, f)
  BY DEF ReleasedWell
<1>4. \A p \in DOMAIN A : Roomy(A[p])
  BY DEF ReleasedWell, Sound
<1> HIDE DEF A
<1>5. run \in DOMAIN A /\ run <= at /\ at < EndOf(A, run)
  BY <1>3
<1> HIDE DEF run
<1>6. run = f
  <2>1. run \in Nat /\ f \in Nat /\ EndOf(A, run) \in Nat /\ EndOf(A, f) \in Nat
    BY <1>1, <1>2, <1>5, BlockExtent
  <2>2. (run < f => EndOf(A, run) <= f) /\ (f < run => EndOf(A, f) <= run)
    BY <1>2, <1>5 DEF Tiled
  <2> QED
    BY <1>3, <1>5, <2>1, <2>2
<1>7. Interior(A, run) \cap Meta(A) = {}
  BY <1>1, <1>2, <1>3, <1>4, <1>6, InteriorClear
<1>8. Pages(Interior(A, run)) \subseteq Interior(A, run)
  BY DEF Pages
<1>9. Pages(Interior(A, run)) \cap Meta(A) = {}
  BY <1>7, <1>8
<1> QED
  BY <1>9 DEF run, A

LEMMA FreeOK ==
  ASSUME NEW live \in BOOLEAN, NEW h, NEW k \in DOMAIN h.spans, HeapBut(h, k, live),
         NEW at \in DOMAIN h.spans[k].blocks, SoundBut(h.spans[k], at, live),
         h.spans[k].blocks[at].used, NEW trim \in BOOLEAN
  PROVE  FreedWell(h, free_unlocked(h, k, at, trim), k, at, live)
<1> DEFINE s     == h.spans[k]
           after == Retiled(s, Released(s.blocks, at))
           run   == CHOOSE p \in DOMAIN after.blocks : p <= at /\ at < EndOf(after.blocks, p)
           pages == IF trim /\ after.blocks[run].size >= MM_DONTNEED_MIN
                    THEN Pages(Interior(after.blocks, run)) ELSE {}
           r     == free_unlocked(h, k, at, trim)
<1>1. r = IF Returnable(after)
          THEN [h |-> [spans |-> [j \in DOMAIN h.spans \ {k} |-> h.spans[j]],
                       fresh |-> h.fresh - (IF s.fresh THEN 1 ELSE 0)], lost |-> {}]
          ELSE [h |-> [h EXCEPT !.spans[k] = after],
                lost |-> pages \cap Meta(after.blocks)]
  BY DEF free_unlocked
<1>2. /\ h \in HeapType /\ s \in SpanType /\ SoundBut(s, at, live) /\ k \in 1 .. MaxSpans
      /\ h.fresh \in Nat /\ h.spans = [j \in DOMAIN h.spans |-> h.spans[j]]
      /\ h = [spans |-> h.spans, fresh |-> h.fresh]
  BY HeapElim DEF HeapBut
<1>3. /\ s.blocks \in BlocksType /\ at \in Nat /\ s.fresh \in BOOLEAN
  BY <1>2, SpanElim, BlocksElim
<1>4. ReleasedWell(s, after, at, live)
  <2>1. at \in DOMAIN s.blocks /\ s.blocks[at].used
    OBVIOUS
  <2> HIDE DEF s
  <2> QED
    BY <1>2, <2>1, ReleasedSpan
<1>5. Pages(Interior(after.blocks, run)) \cap Meta(after.blocks) = {}
  <2> HIDE DEF after
  <2> QED
    BY <1>3, <1>4, PagesClear
<1> HIDE DEF run
<1>6. pages \cap Meta(after.blocks) = {}
  BY <1>5
<1> HIDE DEF pages, after, r
<1>7. s.fresh = FALSE
  BY <1>2, <1>3 DEF SoundBut, Untouched
<1>8. \A p \in DOMAIN s.blocks : p # at /\ s.blocks[p].used =>
         p \in DOMAIN after.blocks /\ after.blocks[p] = s.blocks[p]
  BY <1>4 DEF ReleasedWell
<1>9. CASE Returnable(after)
  <2> DEFINE S == [j \in DOMAIN h.spans \ {k} |-> h.spans[j]]
  <2>1. h.fresh - (IF s.fresh THEN 1 ELSE 0) = h.fresh
    BY <1>2, <1>7
  <2>2. r.h = [spans |-> S, fresh |-> h.fresh] /\ r.h.spans = S /\ r.lost = {}
    BY <1>1, <1>9, <2>1
  <2>3. ~h.spans[k].fresh
    BY <1>7
  <2>4. HeapSound([spans |-> S, fresh |-> h.fresh], live)
    BY <2>3, DropSpan
  <2>5. \A p \in DOMAIN s.blocks : ~(p # at /\ s.blocks[p].used)
    <3>1. PICK q \in DOMAIN after.blocks : DOMAIN after.blocks = {q} /\ ~after.blocks[q].used
      BY <1>9 DEF Returnable
    <3> QED
      BY <3>1, <1>8
  <2>6. DOMAIN S = DOMAIN h.spans \ {k} /\ \A j \in DOMAIN S : S[j] = h.spans[j]
    OBVIOUS
  <2> HIDE DEF S
  <2> QED
    <3>1. HeapSound(r.h, live) /\ r.lost = {}
      BY <2>2, <2>4
    <3>2. /\ \A j \in DOMAIN r.h.spans : j \in DOMAIN h.spans /\ (j # k => r.h.spans[j] = h.spans[j])
          /\ \A j \in DOMAIN h.spans : j # k => j \in DOMAIN r.h.spans
          /\ k \notin DOMAIN r.h.spans
      BY <2>2, <2>6
    <3>3. \A p \in DOMAIN h.spans[k].blocks : ~(p # at /\ h.spans[k].blocks[p].used)
      BY <2>5
    <3> HIDE DEF s
    <3> QED
      BY <3>1, <3>2, <3>3 DEF FreedWell, r
<1>10. CASE ~Returnable(after)
  <2> DEFINE S == [h.spans EXCEPT ![k] = after]
  <2>1. r.h = [h EXCEPT !.spans[k] = after] /\ r.lost = {}
    BY <1>1, <1>6, <1>10
  <2>2. [h EXCEPT !.spans[k] = after] = [spans |-> S, fresh |-> h.fresh]
    BY <1>2
  <2>3. r.h = [spans |-> S, fresh |-> h.fresh] /\ r.h.spans = S
    BY <2>1, <2>2
  <2>4. /\ DOMAIN S = DOMAIN h.spans /\ S[k] = after
        /\ \A j \in DOMAIN S : j # k => S[j] = h.spans[j]
        /\ S = [j \in DOMAIN h.spans \cup {k} |-> IF j = k THEN after ELSE h.spans[j]]
    BY <1>2
  <2> HIDE DEF S
  <2>5. /\ after \in SpanType /\ Sound(after, live) /\ after.fresh = FALSE /\ after.kind = s.kind
    BY <1>4 DEF ReleasedWell
  <2>6. h.fresh = (h.fresh - (IF k \in DOMAIN h.spans /\ h.spans[k].fresh THEN 1 ELSE 0))
                  + (IF after.fresh THEN 1 ELSE 0)
    BY <1>2, <1>7, <2>5
  <2>7. HeapSound([spans |-> S, fresh |-> h.fresh], live)
    <3>1. Put(h, k, after, S, h.fresh)
      BY <2>4, <2>6 DEF Put
    <3> QED
      BY <3>1, <1>2, <2>5, PutSpan
  <2>8. Inhabited(after)
    <3> SUFFICES ASSUME after.kind = "large", \A p \in DOMAIN after.blocks : ~after.blocks[p].used
                 PROVE  FALSE
      BY DEF Inhabited
    <3>1. PICK hi : Tiled(after.blocks, hi)
      BY <1>4 DEF ReleasedWell
    <3>2. PICK f \in DOMAIN after.blocks : ~after.blocks[f].used
      BY <1>4 DEF ReleasedWell
    <3>3. after.blocks \in BlocksType /\ Apart(after.blocks)
      BY <2>5, SpanElim DEF Sound
    <3>4. DOMAIN after.blocks = {f}
      BY <3>1, <3>2, <3>3, OneFree
    <3> QED
      BY <3>2, <3>4, <1>10 DEF Returnable
  <2> QED
    <3>1. HeapSound(r.h, live) /\ r.lost = {}
      BY <2>1, <2>3, <2>7
    <3>2. /\ \A j \in DOMAIN r.h.spans : j \in DOMAIN h.spans /\ (j # k => r.h.spans[j] = h.spans[j])
          /\ \A j \in DOMAIN h.spans : j # k => j \in DOMAIN r.h.spans
      BY <2>3, <2>4
    <3>3. k \in DOMAIN r.h.spans /\ r.h.spans[k] = after
      BY <2>3, <2>4
    <3>4. Inhabited(r.h.spans[k]) /\ r.h.spans[k].fresh = FALSE
      BY <3>3, <2>5, <2>8
    <3>5. \A p \in DOMAIN h.spans[k].blocks : p # at /\ h.spans[k].blocks[p].used =>
            /\ k \in DOMAIN r.h.spans /\ p \in DOMAIN r.h.spans[k].blocks
            /\ r.h.spans[k].blocks[p] = h.spans[k].blocks[p]
      BY <3>3, <1>8
    <3> HIDE DEF s
    <3> QED
      BY <3>1, <3>2, <3>3, <3>4, <3>5 DEF FreedWell, r
<1> QED
  BY <1>9, <1>10 DEF r

-------------------------------------------------------------------------------
(***************************************************************************)
(* Handing out, and resizing.                                              *)
(***************************************************************************)

\* h with another span k.
Replaced(h, k, r) == [h EXCEPT !.spans[k] = r]

LEMMA ReplacedIs ==
  ASSUME NEW h \in HeapType, NEW k \in DOMAIN h.spans, NEW r
  PROVE  /\ Replaced(h, k, r) = [spans |-> [h.spans EXCEPT ![k] = r], fresh |-> h.fresh]
         /\ Replaced(h, k, r).fresh = h.fresh
         /\ DOMAIN Replaced(h, k, r).spans = DOMAIN h.spans
         /\ Replaced(h, k, r).spans[k] = r
         /\ Replaced(h, k, r).spans = [j \in DOMAIN h.spans |-> IF j = k THEN r ELSE h.spans[j]]
         /\ \A j \in DOMAIN h.spans : j # k => Replaced(h, k, r).spans[j] = h.spans[j]
<1> DEFINE S == [h.spans EXCEPT ![k] = r]
<1>1. h = [spans |-> h.spans, fresh |-> h.fresh] /\ h.spans = [j \in DOMAIN h.spans |-> h.spans[j]]
  BY HeapElim
<1>2. Replaced(h, k, r) = [spans |-> S, fresh |-> h.fresh]
  BY <1>1 DEF Replaced
<1>3. /\ DOMAIN S = DOMAIN h.spans /\ S[k] = r /\ \A j \in DOMAIN h.spans : j # k => S[j] = h.spans[j]
      /\ S = [j \in DOMAIN h.spans |-> IF j = k THEN r ELSE h.spans[j]]
  BY <1>1
<1>4. Replaced(h, k, r).spans = S /\ Replaced(h, k, r).fresh = h.fresh
  BY <1>2
<1> HIDE DEF S
<1> QED
  BY <1>2, <1>3, <1>4 DEF S

LEMMA ReplacedFields ==
  ASSUME NEW h \in HeapType, NEW k \in DOMAIN h.spans, NEW r
  PROVE  /\ DOMAIN Replaced(h, k, r).spans = DOMAIN h.spans
         /\ Replaced(h, k, r).spans[k] = r
         /\ \A j \in DOMAIN h.spans : j # k => Replaced(h, k, r).spans[j] = h.spans[j]
<1> DEFINE g == Replaced(h, k, r)
<1>1. /\ g = [spans |-> [h.spans EXCEPT ![k] = r], fresh |-> h.fresh]
      /\ g.fresh = h.fresh /\ DOMAIN g.spans = DOMAIN h.spans /\ g.spans[k] = r
      /\ g.spans = [j \in DOMAIN h.spans |-> IF j = k THEN r ELSE h.spans[j]]
      /\ \A j \in DOMAIN h.spans : j # k => g.spans[j] = h.spans[j]
  BY ReplacedIs
<1> HIDE DEF g
<1> QED
  BY <1>1 DEF g

LEMMA ReplacedSound ==
  ASSUME NEW live \in BOOLEAN, NEW h, NEW k \in DOMAIN h.spans, HeapBut(h, k, live),
         NEW r \in SpanType, Sound(r, live), r.fresh = h.spans[k].fresh
  PROVE  HeapSound(Replaced(h, k, r), live)
<1>1. /\ h \in HeapType /\ k \in 1 .. MaxSpans /\ h.fresh \in Nat /\ h.spans[k] \in SpanType
  BY HeapElim DEF HeapBut
<1> DEFINE S == [h.spans EXCEPT ![k] = r]
<1>2. /\ Replaced(h, k, r) = [spans |-> S, fresh |-> h.fresh]
      /\ Replaced(h, k, r).spans = S
  BY <1>1, ReplacedIs
<1>3. S = [j \in DOMAIN h.spans \cup {k} |-> IF j = k THEN r ELSE h.spans[j]]
  BY <1>1, HeapElim
<1> HIDE DEF S
<1>4. h.spans[k].fresh \in BOOLEAN
  BY <1>1, SpanElim
<1>5. h.fresh = (h.fresh - (IF k \in DOMAIN h.spans /\ h.spans[k].fresh THEN 1 ELSE 0))
                + (IF r.fresh THEN 1 ELSE 0)
  BY <1>1, <1>4
<1>6. Put(h, k, r, S, h.fresh)
  BY <1>3, <1>5 DEF Put
<1>7. HeapSound([spans |-> S, fresh |-> h.fresh], live)
  BY <1>1, <1>6, PutSpan
<1> QED
  BY <1>2, <1>7

LEMMA ReplacedBut ==
  ASSUME NEW live \in BOOLEAN, NEW h, NEW k \in DOMAIN h.spans, HeapBut(h, k, live),
         NEW r \in SpanType, r.fresh = h.spans[k].fresh
  PROVE  HeapBut(Replaced(h, k, r), k, live)
<1> DEFINE g == Replaced(h, k, r)
<1>1. h \in HeapType /\ h.fresh \in Nat /\ DOMAIN h.spans \subseteq 1 .. MaxSpans
      /\ \A j \in DOMAIN h.spans : h.spans[j] \in SpanType
  BY HeapElim DEF HeapBut
<1>2. /\ g = [spans |-> [h.spans EXCEPT ![k] = r], fresh |-> h.fresh]
      /\ g.fresh = h.fresh /\ DOMAIN g.spans = DOMAIN h.spans /\ g.spans[k] = r
      /\ g.spans = [j \in DOMAIN h.spans |-> IF j = k THEN r ELSE h.spans[j]]
      /\ \A j \in DOMAIN h.spans : j # k => g.spans[j] = h.spans[j]
  BY <1>1, ReplacedIs
<1> HIDE DEF g
<1>3. g = [spans |-> g.spans, fresh |-> h.fresh]
  BY <1>2
<1>4. g \in HeapType
  <2>1. \A j \in DOMAIN g.spans : g.spans[j] \in SpanType
    BY <1>1, <1>2
  <2>2. DOMAIN g.spans \subseteq 1 .. MaxSpans /\ g.spans = [j \in DOMAIN g.spans |-> g.spans[j]]
    BY <1>1, <1>2
  <2>3. [spans |-> g.spans, fresh |-> h.fresh] \in HeapType
    BY <2>1, <2>2, <1>1, HeapIntro
  <2> QED
    BY <2>3, <1>3
<1>5. {j \in DOMAIN g.spans : g.spans[j].fresh} = {j \in DOMAIN h.spans : h.spans[j].fresh}
  BY <1>2
<1>6. \A j \in DOMAIN g.spans : j # k => Sound(g.spans[j], live)
  BY <1>2 DEF HeapBut
<1>7. g.fresh = Cardinality({j \in DOMAIN g.spans : g.spans[j].fresh})
  BY <1>2, <1>5 DEF HeapBut
<1> QED
  BY <1>4, <1>6, <1>7 DEF HeapBut, g

\* An arena that has a block for the program in span k.
Served(g, k, live) ==
  /\ HeapSound(g, live) /\ k \in DOMAIN g.spans /\ ~g.spans[k].fresh
  /\ \A j \in DOMAIN g.spans : Inhabited(g.spans[j])

LEMMA MallocServes ==
  ASSUME NEW live \in BOOLEAN, NEW h, NEW g, NEW k, NEW at, NEW size, NEW crc,
         HandedOut(h, g, k, at, size, crc, live),
         \A j \in DOMAIN h.spans : Inhabited(h.spans[j])
  PROVE  Served(g, k, live)
<1>1. \A j \in DOMAIN g.spans : Inhabited(g.spans[j])
  BY DEF HandedOut, Inhabited
<1> QED
  BY <1>1 DEF HandedOut, Served

\* The program may write anything into it.
Written(h, k) == [h.spans[k] EXCEPT !.dirty = Words(h.spans[k].blocks)]

LEMMA WrittenServes ==
  ASSUME NEW live \in BOOLEAN, NEW h, NEW k, Served(h, k, live)
  PROVE  /\ HeapSound(Replaced(h, k, Written(h, k)), live)
         /\ \A j \in DOMAIN Replaced(h, k, Written(h, k)).spans :
              Inhabited(Replaced(h, k, Written(h, k)).spans[j])
<1> DEFINE D == Words(h.spans[k].blocks)
           r == Written(h, k)
<1>1. h \in HeapType /\ k \in DOMAIN h.spans /\ h.spans[k] \in SpanType /\ HeapBut(h, k, live)
      /\ Sound(h.spans[k], live) /\ ~h.spans[k].fresh
  BY HeapElim, SoundBoth DEF Served, HeapSound
<1>2. D \in SUBSET Int
  BY <1>1, SpanElim, MetaInt
<1>3. /\ r \in SpanType /\ r.kind = h.spans[k].kind /\ r.fresh = h.spans[k].fresh
      /\ r.blocks = h.spans[k].blocks
  BY <1>1, <1>2, WithDirty DEF Written
<1> HIDE DEF r, D
<1>4. Sound(r, live)
  BY <1>1, <1>3 DEF Sound, Untouched
<1>5. \A j \in DOMAIN h.spans : Inhabited(h.spans[j])
  BY DEF Served
<1>6. HeapSound(Replaced(h, k, r), live)
  BY <1>1, <1>3, <1>4, ReplacedSound
<1>7. Inhabited(r)
  BY <1>1, <1>3, <1>5 DEF Inhabited
<1>8. /\ DOMAIN Replaced(h, k, r).spans = DOMAIN h.spans
      /\ Replaced(h, k, r).spans[k] = r
      /\ \A j \in DOMAIN h.spans : j # k => Replaced(h, k, r).spans[j] = h.spans[j]
  BY <1>1, ReplacedFields
<1>9. \A j \in DOMAIN Replaced(h, k, r).spans : Inhabited(Replaced(h, k, r).spans[j])
  BY <1>5, <1>7, <1>8
<1> QED
  BY <1>6, <1>9 DEF r

LEMMA HandedServes ==
  ASSUME NEW live \in BOOLEAN, NEW y, Served(y.h, y.k, live)
  PROVE  /\ HeapSound(Handed(y), live)
         /\ \A j \in DOMAIN Handed(y).spans : Inhabited(Handed(y).spans[j])
<1>1. Handed(y) = Replaced(y.h, y.k, Written(y.h, y.k))
  BY DEF Handed, Replaced, Written
<1> QED
  BY <1>1, WrittenServes

-------------------------------------------------------------------------------
\* A tiling whose block at `at` can be trimmed and handed out with a checksum;
\* gone is a block that is about to be released.
Fittable(B, at, gone, size, crc, live) ==
  /\ B \in BlocksType /\ (\E hi \in Nat : Tiled(B, hi)) /\ Apart(B)
  /\ at \in DOMAIN B /\ B[at].used
  /\ \A p \in DOMAIN B : p \notin {at, gone} => Roomy(B[p]) /\ Summed(B[p], live)
  /\ size \in Nat /\ mm_size_for(size) <= B[at].size
  /\ crc \in {"none", "good"} /\ (crc = "good" => live)

\* What span s becomes then.
Fitted(s, B, at, size, crc) ==
  Retiled(s, Finished(Split(B, at, mm_size_for(size)), at, size, crc))

FittedWell(s, B, f, at, gone, live) ==
  /\ f \in SpanType /\ f.fresh = FALSE /\ f.kind = s.kind
  /\ SoundBut(f, gone, live) /\ (gone \in {at} \/ gone \notin DOMAIN B => Sound(f, live))
  /\ at \in DOMAIN f.blocks /\ f.blocks[at].used
  /\ \A p \in DOMAIN B : p # at /\ B[p].used => p \in DOMAIN f.blocks /\ f.blocks[p] = B[p]

LEMMA FittedSpan ==
  ASSUME NEW live \in BOOLEAN, NEW s \in SpanType, s.fresh = FALSE,
         NEW B, NEW at, NEW gone, NEW size, NEW crc, Fittable(B, at, gone, size, crc, live)
  PROVE  FittedWell(s, B, Fitted(s, B, at, size, crc), at, gone, live)
<1> DEFINE F == Finished(Split(B, at, mm_size_for(size)), at, size, crc)
           f == Fitted(s, B, at, size, crc)
<1>0. PICK hi \in Nat : Tiled(B, hi)
  BY DEF Fittable
<1>1. /\ F \in BlocksType /\ Tiled(F, hi) /\ Apart(F)
      /\ at \in DOMAIN F /\ F[at].used /\ F[at].crc = crc
      /\ Roomy(F[at])
      /\ \A p \in DOMAIN F : p # at => \/ F[p] = FreeBlock(F[p].size)
                                       \/ p \in DOMAIN B /\ F[p] = B[p]
      /\ \A p \in DOMAIN B : p # at /\ B[p].used => p \in DOMAIN F /\ F[p] = B[p]
  <2>1. /\ B \in BlocksType /\ Apart(B) /\ at \in DOMAIN B /\ B[at].used /\ size \in Nat
        /\ mm_size_for(size) <= B[at].size /\ crc \in {"none", "good", "bad"}
    BY DEF Fittable
  <2> QED
    BY <1>0, <2>1, FittedOK
<1>2. f = Retiled(s, F)
  BY DEF Fitted
<1> HIDE DEF F, f
<1>3. f \in SpanType /\ f.blocks = F /\ f.kind = s.kind /\ f.fresh = FALSE
  BY <1>1, <1>2, RetiledOK
<1>4. Roomy(F[at]) /\ Summed(F[at], live)
  BY <1>1 DEF Summed, Fittable
<1>5. ASSUME NEW p \in DOMAIN F, p # at, ~(p = gone /\ p \in DOMAIN B)
      PROVE  Roomy(F[p]) /\ Summed(F[p], live)
  <2>1. CASE F[p] = FreeBlock(F[p].size)
    BY <2>1 DEF FreeBlock, Roomy, Summed
  <2>2. CASE p \in DOMAIN B /\ F[p] = B[p]
    BY <2>2, <1>5 DEF Fittable
  <2> QED
    BY <2>1, <2>2, <1>1, <1>5
<1>6. SoundBut(f, gone, live)
  BY <1>0, <1>1, <1>3, <1>4, <1>5 DEF SoundBut, Untouched
<1>7. gone \in {at} \/ gone \notin DOMAIN B => Sound(f, live)
  BY <1>0, <1>1, <1>3, <1>4, <1>5 DEF Sound, Untouched
<1> QED
  BY <1>1, <1>3, <1>6, <1>7 DEF f, FittedWell

LEMMA CarryOK ==
  ASSUME NEW old, NEW a, NEW b
  PROVE  /\ carry_payload_crc(old, a, b) \in {"none", "good"}
         /\ carry_payload_crc(old, a, b) = "good" => mm_payload_crc_live
  BY DEF carry_payload_crc

\* The block behind taken in.
LEMMA JoinedOK ==
  ASSUME NEW B \in BlocksType, NEW hi, Tiled(B, hi), Apart(B), NEW at \in DOMAIN B, B[at].used,
         IsFree(B, EndOf(B, at))
  PROVE  LET next == EndOf(B, at)
             J    == [p \in DOMAIN B \ {next} |->
                        IF p = at THEN [B[at] EXCEPT !.size = @ + B[next].size] ELSE B[p]]
         IN  /\ J \in BlocksType /\ Tiled(J, hi) /\ Apart(J)
             /\ at \in DOMAIN J /\ J[at].used /\ J[at].size = B[at].size + B[next].size
             /\ \A p \in DOMAIN J : p # at => p \in DOMAIN B /\ J[p] = B[p]
<1> DEFINE next == EndOf(B, at)
           b == [B[at] EXCEPT !.size = @ + B[next].size]
           J == [p \in DOMAIN B \ {next} |-> IF p = at THEN b ELSE B[p]]
<1>1. next \in DOMAIN B /\ ~B[next].used /\ B[next].size \in Nat /\ B[at].size \in Nat
      /\ B[at] \in BlockType /\ next # at /\ DOMAIN B \subseteq Nat
  BY BlocksElim, BlockExtent DEF IsFree
<1> HIDE DEF next
<1>2. b \in BlockType /\ b.size = B[at].size + B[next].size /\ b.used
  <2> DEFINE n == B[at].size + B[next].size
  <2>1. n \in Nat /\ b = [B[at] EXCEPT !.size = n]
    BY <1>1
  <2> HIDE DEF n
  <2>2. [B[at] EXCEPT !.size = n] \in BlockType /\ [B[at] EXCEPT !.size = n].size = n
    BY <2>1, <1>1 DEF BlockType
  <2>3. [B[at] EXCEPT !.size = n].used = B[at].used
    BY <2>1, <1>1 DEF BlockType
  <2> QED
    BY <2>1, <2>2, <2>3 DEF n
<1> HIDE DEF b
<1>3. /\ DOMAIN J = DOMAIN B \ {next} /\ at \in DOMAIN J /\ J[at] = b
      /\ \A p \in DOMAIN J : p # at => p \in DOMAIN B /\ J[p] = B[p]
      /\ J = [p \in DOMAIN J |-> J[p]]
  BY <1>1
<1> HIDE DEF J
<1>4. J \in BlocksType
  <2>1. \A p \in DOMAIN J : J[p] \in BlockType
    BY <1>2, <1>3, BlocksElim
  <2> QED
    BY <2>1, <1>1, <1>3, BlocksIntro
<1>5. Tiled(J, hi)
  <2>1. J[at].size = B[at].size + B[next].size /\ next = EndOf(B, at)
        /\ \A x \in DOMAIN J : x # at => J[x].size = B[x].size
    BY <1>2, <1>3 DEF next
  <2> QED
    BY <2>1, <1>1, <1>3, <1>4, TiledJoin
<1>6. Apart(J)
  <2> SUFFICES ASSUME NEW p \in DOMAIN J, ~J[p].used, EndOf(J, p) \in DOMAIN J
               PROVE  J[EndOf(J, p)].used
    BY DEF Apart
  <2>1. p # at /\ J[p] = B[p] /\ p \in DOMAIN B /\ EndOf(J, p) = EndOf(B, p)
    BY <1>2, <1>3 DEF EndOf
  <2> QED
    BY <2>1, <1>2, <1>3 DEF Apart
<1> QED
  BY <1>2, <1>3, <1>4, <1>5, <1>6 DEF J, b, next

-------------------------------------------------------------------------------
\* A checksum set.
CrcSet(B, at, crc) == [B EXCEPT ![at].crc = crc]
WithCrc(s, at, crc) == [s EXCEPT !.blocks[at].crc = crc]

CrcOnly(B, C, at, crc) ==
  /\ C \in BlocksType /\ DOMAIN C = DOMAIN B /\ C[at].crc = crc
  /\ \A p \in DOMAIN B : /\ C[p].size = B[p].size /\ C[p].used = B[p].used
                         /\ C[p].give = B[p].give
  /\ \A p \in DOMAIN B : p # at => C[p] = B[p]

LEMMA CrcBlocks ==
  ASSUME NEW B \in BlocksType, NEW at \in DOMAIN B, NEW crc \in {"none", "good", "bad"}
  PROVE  CrcOnly(B, CrcSet(B, at, crc), at, crc)
<1> DEFINE b == [B[at] EXCEPT !.crc = crc]
           C == CrcSet(B, at, crc)
<1>1. B[at] \in BlockType
  BY BlocksElim
<1>2. b \in BlockType /\ b.size = B[at].size /\ b.give = B[at].give /\ b.crc = crc
  BY <1>1 DEF BlockType
<1>3. b.used = B[at].used
  BY <1>1 DEF BlockType
<1>4. C = [B EXCEPT ![at] = b]
  BY DEF CrcSet
<1> HIDE DEF b, C
<1>5. /\ DOMAIN C = DOMAIN B /\ C[at] = b /\ \A p \in DOMAIN B : p # at => C[p] = B[p]
      /\ C = [p \in DOMAIN C |-> C[p]]
  BY <1>4
<1>6. C \in BlocksType
  <2>1. \A p \in DOMAIN C : C[p] \in BlockType
    BY <1>2, <1>5, BlocksElim
  <2> QED
    BY <2>1, <1>5, BlocksElim, BlocksIntro
<1> QED
  BY <1>2, <1>3, <1>5, <1>6 DEF C, CrcOnly

\* Tilings do not depend on checksums.
LEMMA SameShape ==
  ASSUME NEW B \in BlocksType, NEW C \in BlocksType, DOMAIN C = DOMAIN B,
         \A p \in DOMAIN B : /\ C[p].size = B[p].size /\ C[p].used = B[p].used
                             /\ C[p].give = B[p].give
  PROVE  /\ \A hi : Tiled(B, hi) => Tiled(C, hi)
         /\ Apart(B) => Apart(C)
         /\ \A p \in DOMAIN B : Roomy(B[p]) => Roomy(C[p])
<1>1. \A p \in DOMAIN B : EndOf(C, p) = EndOf(B, p)
  BY DEF EndOf
<1>2. \A hi : Tiled(B, hi) => Tiled(C, hi)
  BY TiledSame
<1>3. Apart(B) => Apart(C)
  BY <1>1 DEF Apart
<1>4. \A p \in DOMAIN B : Roomy(B[p]) => Roomy(C[p])
  BY DEF Roomy
<1> QED
  BY <1>2, <1>3, <1>4

CrcWell(s, r, live) ==
  /\ r \in SpanType /\ Sound(r, live) /\ r.fresh = s.fresh /\ r.kind = s.kind
  /\ DOMAIN r.blocks = DOMAIN s.blocks /\ r.fresh = FALSE
  /\ \A p \in DOMAIN s.blocks : r.blocks[p].used = s.blocks[p].used

LEMMA CrcSpan ==
  ASSUME NEW live \in BOOLEAN, NEW s \in SpanType, Sound(s, live),
         NEW at \in DOMAIN s.blocks, s.blocks[at].used,
         NEW crc \in {"none", "good"}, crc = "good" => live
  PROVE  CrcWell(s, WithCrc(s, at, crc), live)
<1> DEFINE B == s.blocks
           C == CrcSet(B, at, crc)
           r == WithCrc(s, at, crc)
<1>1. B \in BlocksType /\ s.fresh \in BOOLEAN
  BY SpanElim
<1>2. /\ \E hi \in Nat : Tiled(B, hi)
      /\ Apart(B) /\ \A p \in DOMAIN B : Roomy(B[p]) /\ Summed(B[p], live)
  BY DEF Sound
<1>3. s.fresh = FALSE
  BY <1>1 DEF Sound, Untouched
<1>4. r = [s EXCEPT !.blocks = C]
  BY DEF WithCrc, CrcSet
<1>5. /\ C \in BlocksType /\ DOMAIN C = DOMAIN B /\ C[at].crc = crc
      /\ \A p \in DOMAIN B : /\ C[p].size = B[p].size /\ C[p].used = B[p].used
                             /\ C[p].give = B[p].give
      /\ \A p \in DOMAIN B : p # at => C[p] = B[p]
  <2> HIDE DEF B
  <2>1. at \in DOMAIN B
    BY DEF B
  <2>2. CrcOnly(B, C, at, crc)
    BY <2>1, <1>1, CrcBlocks
  <2> QED
    BY <2>2 DEF CrcOnly
<1> HIDE DEF C
<1>6. r \in SpanType /\ r.blocks = C /\ r.kind = s.kind /\ r.fresh = s.fresh
  BY <1>4, <1>5, WithBlocks
<1> HIDE DEF B, r
<1>7. /\ \E hi \in Nat : Tiled(C, hi)
      /\ Apart(C) /\ \A p \in DOMAIN C : Roomy(C[p])
  BY <1>1, <1>2, <1>5, SameShape
<1>8. \A p \in DOMAIN C : Summed(C[p], live)
  BY <1>2, <1>5 DEF Summed
<1>9. Sound(r, live)
  BY <1>3, <1>6, <1>7, <1>8 DEF Sound, Untouched
<1> QED
  BY <1>3, <1>5, <1>6, <1>9 DEF r, B, CrcWell

\* Freeing a block of an arena that has another for the program.
LEMMA FreeServes ==
  ASSUME NEW live \in BOOLEAN, NEW g, NEW r, NEW k, NEW at, NEW k2, NEW at2,
         \A j \in DOMAIN g.spans : j # k => Inhabited(g.spans[j]),
         FreedWell(g, r, k, at, live),
         k2 \in DOMAIN g.spans, ~g.spans[k2].fresh,
         at2 \in DOMAIN g.spans[k2].blocks, g.spans[k2].blocks[at2].used,
         ~(k2 = k /\ at2 = at)
  PROVE  Served(r.h, k2, live)
<1>1. k2 \in DOMAIN r.h.spans /\ ~r.h.spans[k2].fresh
  <2>1. CASE k2 = k
    BY <2>1 DEF FreedWell
  <2>2. CASE k2 # k
    BY <2>2 DEF FreedWell
  <2> QED
    BY <2>1, <2>2
<1>2. ASSUME NEW j \in DOMAIN r.h.spans
      PROVE  Inhabited(r.h.spans[j])
  <2>1. CASE j = k
    BY <2>1 DEF FreedWell
  <2>2. CASE j # k
    BY <2>2 DEF FreedWell
  <2> QED
    BY <2>1, <2>2
<1>3. HeapSound(r.h, live)
  BY DEF FreedWell
<1> QED
  BY <1>1, <1>2, <1>3 DEF Served

\* A block resized where it is.
LEMMA WithinOK ==
  ASSUME NEW live \in BOOLEAN, NEW h, HeapSound(h, live),
         \A j \in DOMAIN h.spans : Inhabited(h.spans[j]),
         NEW k \in DOMAIN h.spans, ~h.spans[k].fresh,
         NEW B, NEW at, NEW size, NEW crc, Fittable(B, at, at, size, crc, live)
  PROVE  Served(Replaced(h, k, Fitted(h.spans[k], B, at, size, crc)), k, live)
<1> DEFINE s == h.spans[k]
           f == Fitted(s, B, at, size, crc)
           g == Replaced(h, k, f)
<1>1. h \in HeapType /\ s \in SpanType /\ HeapBut(h, k, live) /\ s.fresh = FALSE
  <2>1. h \in HeapType /\ s \in SpanType /\ HeapBut(h, k, live)
    BY HeapElim, SoundBoth DEF HeapSound
  <2>2. s.fresh \in BOOLEAN
    BY <2>1, SpanElim
  <2> QED
    BY <2>1, <2>2
<1> HIDE DEF s
<1>2. FittedWell(s, B, f, at, at, live)
  BY <1>1, FittedSpan
<1>3. /\ f \in SpanType /\ f.fresh = FALSE /\ f.kind = s.kind /\ Sound(f, live)
      /\ at \in DOMAIN f.blocks /\ f.blocks[at].used
  BY <1>2 DEF FittedWell
<1> HIDE DEF f
<1>4. HeapSound(g, live)
  <2>1. f.fresh = h.spans[k].fresh
    BY <1>1, <1>3 DEF s
  <2> QED
    BY <2>1, <1>1, <1>3, ReplacedSound
<1>5. /\ DOMAIN g.spans = DOMAIN h.spans /\ g.spans[k] = f
      /\ \A j \in DOMAIN h.spans : j # k => g.spans[j] = h.spans[j]
  BY <1>1, ReplacedFields
<1> HIDE DEF g
<1>6. \A j \in DOMAIN g.spans : Inhabited(g.spans[j])
  <2>1. Inhabited(f)
    BY <1>3 DEF Inhabited
  <2> QED
    BY <2>1, <1>5
<1> QED
  BY <1>3, <1>4, <1>5, <1>6 DEF Served, g, f, s

-------------------------------------------------------------------------------
\* What a call of the arena answers with.
Answer(y, live) == Served(y.h, y.k, live) /\ y.lost = {}

\* A block of an arena that is in use.
InUse(h, k, at) ==
  k \in DOMAIN h.spans /\ at \in DOMAIN h.spans[k].blocks /\ h.spans[k].blocks[at].used

AllInhabited(h) == \A j \in DOMAIN h.spans : Inhabited(h.spans[j])

Moved(z, k, at, crc, trim) ==
  free_unlocked([z.h EXCEPT !.spans[z.k].blocks[z.at].crc = crc], k, at, trim)

\* realloc_unlocked by moving: the new block gets the checksum, the old one goes.
LEMMA MovedOK ==
  ASSUME NEW live \in BOOLEAN, NEW h, AllInhabited(h),
         NEW k, NEW at, InUse(h, k, at), NEW size, NEW trim \in BOOLEAN,
         NEW crc \in {"none", "good"}, crc = "good" => live,
         NEW z, HandedOut(h, z.h, z.k, z.at, size, "none", live)
  PROVE  LET r == Moved(z, k, at, crc, trim)
         IN  Served(r.h, z.k, live) /\ r.lost = {}
<1> DEFINE zh  == z.h
           zk  == z.k
           zat == z.at
           s   == zh.spans[zk]
           f   == WithCrc(s, zat, crc)
           g   == Replaced(zh, zk, f)
           r   == free_unlocked(g, k, at, trim)
<1>1. r = Moved(z, k, at, crc, trim)
  BY DEF Replaced, WithCrc, Moved
<1>2. /\ HeapSound(zh, live) /\ zk \in DOMAIN zh.spans /\ zat \in DOMAIN s.blocks /\ ~s.fresh
      /\ s.blocks[zat].used
      /\ \A j \in DOMAIN zh.spans : j # zk => j \in DOMAIN h.spans /\ zh.spans[j] = h.spans[j]
      /\ \A j \in DOMAIN h.spans : \A p \in DOMAIN h.spans[j].blocks : h.spans[j].blocks[p].used =>
           /\ j \in DOMAIN zh.spans /\ p \in DOMAIN zh.spans[j].blocks
           /\ zh.spans[j].blocks[p] = h.spans[j].blocks[p]
           /\ ~(j = zk /\ p = zat)
  BY DEF HandedOut
<1> HIDE DEF zh, zk, zat
<1>3. zh \in HeapType /\ s \in SpanType /\ Sound(s, live) /\ HeapBut(zh, zk, live)
  BY <1>2, HeapElim, SoundBoth DEF HeapSound
<1>4. /\ f \in SpanType /\ Sound(f, live) /\ f.fresh = s.fresh /\ f.kind = s.kind
      /\ DOMAIN f.blocks = DOMAIN s.blocks /\ f.fresh = FALSE
      /\ \A p \in DOMAIN s.blocks : f.blocks[p].used = s.blocks[p].used
  <2> HIDE DEF s
  <2>1. CrcWell(s, f, live)
    BY <1>2, <1>3, CrcSpan
  <2> QED
    BY <2>1 DEF CrcWell
<1> HIDE DEF f
<1>5. HeapSound(g, live)
  BY <1>2, <1>3, <1>4, ReplacedSound
<1>6. /\ DOMAIN g.spans = DOMAIN zh.spans /\ g.spans[zk] = f
      /\ \A j \in DOMAIN zh.spans : j # zk => g.spans[j] = zh.spans[j]
  BY <1>2, <1>3, ReplacedFields
<1> HIDE DEF g, r
<1>7. k \in DOMAIN zh.spans /\ at \in DOMAIN zh.spans[k].blocks /\ zh.spans[k].blocks[at].used
      /\ ~(k = zk /\ at = zat)
  BY <1>2 DEF InUse
<1>8. k \in DOMAIN g.spans /\ at \in DOMAIN g.spans[k].blocks /\ g.spans[k].blocks[at].used
  <2>1. CASE k = zk
    BY <2>1, <1>4, <1>6, <1>7
  <2>2. CASE k # zk
    BY <2>2, <1>6, <1>7
  <2> QED
    BY <2>1, <2>2
<1>9. HeapBut(g, k, live) /\ SoundBut(g.spans[k], at, live)
  BY <1>5, <1>8, SoundBoth
<1>10. FreedWell(g, r, k, at, live)
  BY <1>8, <1>9, FreeOK DEF r
<1>11. \A j \in DOMAIN g.spans : Inhabited(g.spans[j])
  <2>1. Inhabited(f)
    BY <1>2, <1>4 DEF Inhabited
  <2>2. \A j \in DOMAIN zh.spans : j # zk => Inhabited(zh.spans[j])
    BY <1>2 DEF AllInhabited
  <2> QED
    BY <2>1, <2>2, <1>6
<1>12. /\ zk \in DOMAIN g.spans /\ ~g.spans[zk].fresh
       /\ zat \in DOMAIN g.spans[zk].blocks /\ g.spans[zk].blocks[zat].used
       /\ ~(zk = k /\ zat = at)
  BY <1>2, <1>4, <1>6, <1>7
<1>13. Served(r.h, zk, live)
  BY <1>10, <1>11, <1>12, FreeServes
<1>14. r.lost = {}
  BY <1>10 DEF FreedWell
<1> QED
  BY <1>1, <1>13, <1>14 DEF r, zk

LEMMA ReallocOK ==
  ASSUME NEW live \in BOOLEAN, mm_payload_crc_live => live,
         NEW h, HeapSound(h, live), AllInhabited(h),
         NEW k, NEW at, InUse(h, k, at), NEW size \in Nat, NEW trim \in BOOLEAN,
         NEW y \in realloc_unlocked(h, k, at, size, trim)
  PROVE  Answer(y, live)
<1> DEFINE s      == h.spans[k]
           B      == s.blocks
           b      == B[at]
           next   == EndOf(B, at)
           need   == mm_size_for(size)
           crc    == carry_payload_crc(b.crc, b.give, size)
           joined == [p \in DOMAIN B \ {next} |->
                        IF p = at THEN [b EXCEPT !.size = @ + B[next].size] ELSE B[p]]
           grown(bs) == [h EXCEPT !.spans[k] = Retiled(@, Finished(Split(bs, at, need), at, size, crc))]
           fitted(bs) == Replaced(h, k, Fitted(s, bs, at, size, crc))
           moved(z)  == Moved(z, k, at, crc, trim)
<1>0. ~TooLarge(size)
  BY DEF realloc_unlocked
<1>1. y \in (IF b.size >= need THEN {[h |-> grown(B), k |-> k, at |-> at, lost |-> {}]}
             ELSE IF IsFree(B, next) /\ b.size + B[next].size >= need
                  THEN {[h |-> grown(joined), k |-> k, at |-> at, lost |-> {}]}
                  ELSE {[h |-> moved(z).h, k |-> z.k, at |-> z.at, lost |-> moved(z).lost] :
                          z \in malloc_unlocked(h, size)})
  BY <1>0 DEF realloc_unlocked, Moved, Joinable
<1>2. k \in DOMAIN h.spans /\ at \in DOMAIN B /\ b.used
  BY DEF InUse
<1>3. /\ h \in HeapType /\ s \in SpanType /\ Sound(s, live)
  BY <1>2, HeapElim DEF HeapSound
<1>4. B \in BlocksType /\ s.fresh \in BOOLEAN
  BY <1>3, SpanElim
<1>5. PICK hi \in Nat : Tiled(B, hi)
  BY <1>3 DEF Sound
<1>6. Apart(B) /\ \A p \in DOMAIN B : Roomy(B[p]) /\ Summed(B[p], live)
  BY <1>3 DEF Sound
<1>7. ~s.fresh
  BY <1>2, <1>3 DEF Sound, Untouched
<1>8. crc \in {"none", "good"} /\ (crc = "good" => live)
  BY CarryOK
<1>9. need \in Nat
  BY SizeFor
<1>10. grown(B) = fitted(B) /\ grown(joined) = fitted(joined)
  BY DEF Replaced, Fitted
<1> HIDE DEF crc
<1>11. CASE b.size >= need
  <2>1. y = [h |-> grown(B), k |-> k, at |-> at, lost |-> {}]
    BY <1>1, <1>11
  <2>2. Fittable(B, at, at, size, crc, live)
    <3> HIDE DEF B
    <3>1. B[at].size \in Nat /\ need <= B[at].size
      BY <1>2, <1>4, <1>9, <1>11, BlocksElim
    <3> QED
      BY <3>1, <1>2, <1>4, <1>5, <1>6, <1>8 DEF Fittable
  <2>3. Served(fitted(B), k, live)
    <3> HIDE DEF B
    <3> QED
      BY <2>2, <1>2, <1>7, WithinOK DEF AllInhabited
  <2>4. y.h = fitted(B) /\ y.k = k /\ y.lost = {}
    BY <2>1, <1>10
  <2> HIDE DEF fitted
  <2> QED
    BY <2>3, <2>4 DEF Answer
<1>12. CASE ~(b.size >= need) /\ IsFree(B, next) /\ b.size + B[next].size >= need
  <2>1. y = [h |-> grown(joined), k |-> k, at |-> at, lost |-> {}]
    BY <1>1, <1>12
  <2>2. /\ joined \in BlocksType /\ Tiled(joined, hi) /\ Apart(joined)
        /\ at \in DOMAIN joined /\ joined[at].used /\ joined[at].size = B[at].size + B[next].size
        /\ \A p \in DOMAIN joined : p # at => p \in DOMAIN B /\ joined[p] = B[p]
    <3> HIDE DEF B
    <3> QED
      BY <1>2, <1>4, <1>5, <1>6, <1>12, JoinedOK
  <2> HIDE DEF joined
  <2>3. Fittable(joined, at, at, size, crc, live)
    <3>1. joined[at].size \in Nat /\ need <= joined[at].size
      BY <2>2, <1>9, <1>12, BlocksElim
    <3>2. \A p \in DOMAIN joined : p \notin {at, at} => Roomy(joined[p]) /\ Summed(joined[p], live)
      BY <2>2, <1>6
    <3> QED
      BY <2>2, <3>1, <3>2, <1>5, <1>8 DEF Fittable
  <2>4. Served(fitted(joined), k, live)
    BY <2>3, <1>2, <1>7, WithinOK DEF AllInhabited
  <2>5. y.h = fitted(joined) /\ y.k = k /\ y.lost = {}
    BY <2>1, <1>10
  <2> HIDE DEF fitted
  <2> QED
    BY <2>4, <2>5 DEF Answer
<1>13. CASE ~(b.size >= need) /\ ~(IsFree(B, next) /\ b.size + B[next].size >= need)
  <2>1. PICK z \in malloc_unlocked(h, size) :
          y = [h |-> moved(z).h, k |-> z.k, at |-> z.at, lost |-> moved(z).lost]
    BY <1>1, <1>13
  <2>2. HandedOut(h, z.h, z.k, z.at, size, "none", live)
    BY MallocOK
  <2>3. Served(moved(z).h, z.k, live) /\ moved(z).lost = {}
    BY <2>2, <1>8, MovedOK
  <2>4. y.h = moved(z).h /\ y.k = z.k /\ y.lost = moved(z).lost
    BY <2>1
  <2> HIDE DEF moved
  <2> QED
    BY <2>3, <2>4 DEF Answer
<1> QED
  BY <1>11, <1>12, <1>13

-------------------------------------------------------------------------------
\* A block for a request is not much larger than the request.
LEMMA SizeForAtMost ==
  ASSUME NEW size \in Nat \ {0}
  PROVE  mm_size_for(size) <= MM_HDR_SIZE + size + MM_TRAIL + 3
<1> DEFINE n  == MM_HDR_SIZE + size + MM_TRAIL
           m  == RoundUp(n, 2)
           n2 == Max({MM_HDR_SIZE + 3, MM_HDR_SIZE + 1 + MM_TRAIL})
<1>1. MM_HDR_SIZE \in Nat /\ MM_TRAIL \in Nat
  BY Sizes
<1>2. n \in Nat /\ m \in Nat /\ m <= n + 1
  BY <1>1, RoundUp2
<1>3. n2 \in {MM_HDR_SIZE + 3, MM_HDR_SIZE + 1 + MM_TRAIL}
  BY <1>1, Max2
<1>4. n2 \in Nat /\ n2 <= n + 2
  BY <1>1, <1>3
<1> HIDE DEF n2
<1>5. MM_MIN_BLOCK = RoundUp(n2, 2)
  BY DEF MM_MIN_BLOCK, MM_ALIGNMENT, n2
<1>6. MM_MIN_BLOCK \in Nat /\ MM_MIN_BLOCK <= n2 + 1
  BY <1>4, <1>5, RoundUp2
<1>7. mm_size_for(size) = Max({MM_MIN_BLOCK, m})
  BY DEF mm_size_for, MM_ALIGNMENT
<1> HIDE DEF m
<1>8. Max({MM_MIN_BLOCK, m}) \in {MM_MIN_BLOCK, m}
  <2>1. MM_MIN_BLOCK \in Int /\ m \in Int
    BY <1>2, <1>6
  <2> QED
    BY <2>1, Max2
<1> HIDE DEF n
<1>9. mm_size_for(size) <= n + 3
  BY <1>2, <1>4, <1>6, <1>7, <1>8
<1> QED
  BY <1>9 DEF n

\* The aligned payload leaves room for a block in front of it, and is near.
LEMMA AlignedAtOK ==
  ASSUME NEW raw \in Nat, NEW align \in Nat \ {0}
  PROVE  /\ AlignedAt(raw, align) \in Int
         /\ AlignedAt(raw, align) + MM_HDR_SIZE >= raw + MM_MIN_BLOCK
         /\ AlignedAt(raw, align) + MM_HDR_SIZE <= raw + MM_MIN_BLOCK + align
<1> DEFINE S == {w \in raw .. raw + 2 * align + MM_MIN_BLOCK :
                   w % align = 0 /\ w - raw >= MM_MIN_BLOCK}
<1>1. MM_MIN_BLOCK \in Nat /\ MM_HDR_SIZE \in Nat
  BY Sizes
<1>2. PICK w \in raw + MM_MIN_BLOCK .. raw + MM_MIN_BLOCK + align : w % align = 0
  <2>1. raw + MM_MIN_BLOCK \in Nat
    BY <1>1
  <2> QED
    BY <2>1, MultipleNear
<1>3. w \in S
  BY <1>1, <1>2
<1>4. S \in SUBSET Nat
  BY <1>1
<1>5. \A z \in S : z - raw >= MM_MIN_BLOCK
  OBVIOUS
<1>6. AlignedAt(raw, align) = Min(S) - MM_HDR_SIZE
  BY DEF AlignedAt
<1> HIDE DEF S
<1>7. \E z \in S : \A v \in S : z <= v
  BY <1>3, <1>4, NatLeast
<1>8. Min(S) \in S /\ Min(S) <= w
  BY <1>3, <1>7 DEF Min
<1>9. Min(S) \in Nat /\ Min(S) - raw >= MM_MIN_BLOCK
  BY <1>4, <1>5, <1>8
<1> QED
  BY <1>1, <1>2, <1>6, <1>8, <1>9

\* The larger block cut in two before the aligned payload.
CutAt(B, p, at) ==
  [x \in DOMAIN B \cup {at} |-> IF x = p THEN [B[x] EXCEPT !.size = at - p]
                                ELSE IF x = at THEN UsedBlock(B[p].size - (at - p), 0)
                                ELSE B[x]]

LEMMA CutOK ==
  ASSUME NEW live \in BOOLEAN, NEW B \in BlocksType, NEW hi \in Nat, Tiled(B, hi), Apart(B),
         NEW p \in DOMAIN B, B[p].used,
         \A q \in DOMAIN B : Roomy(B[q]) /\ Summed(B[q], live),
         NEW size \in Nat \ {0}, NEW at \in Nat, at - p >= MM_MIN_BLOCK,
         B[p].size - (at - p) >= mm_size_for(size)
  PROVE  /\ Fittable(CutAt(B, p, at), at, p, size, "none", live)
         /\ p # at /\ p \in DOMAIN CutAt(B, p, at) /\ CutAt(B, p, at)[p].used
<1> DEFINE front == at - p
           left  == B[p].size - front
           b     == [B[p] EXCEPT !.size = front]
           C     == CutAt(B, p, at)
<1>1. p \in Nat /\ B[p].size \in Nat /\ B[p] \in BlockType /\ DOMAIN B \subseteq Nat
      /\ MM_MIN_BLOCK \in Nat /\ MM_MIN_BLOCK > 0
      /\ mm_size_for(size) \in Nat /\ mm_size_for(size) >= MM_MIN_BLOCK
  BY BlocksElim, Sizes, SizeFor
<1>2. front \in Nat /\ front >= MM_MIN_BLOCK /\ at = p + front /\ at # p
  BY <1>1
<1>3. left \in Nat /\ left >= MM_MIN_BLOCK /\ left >= mm_size_for(size)
  BY <1>1, <1>2
<1> HIDE DEF front
<1>4. /\ UsedBlock(left, 0) \in BlockType /\ UsedBlock(left, 0).size = left
      /\ UsedBlock(left, 0).used = TRUE
  BY <1>3, NewBlocks
<1> HIDE DEF left
<1>5. b \in BlockType /\ b.size = front
  BY <1>1, <1>2 DEF BlockType
<1>6. b.used = B[p].used
  BY <1>1, <1>2 DEF BlockType
<1>7. C = [x \in DOMAIN B \cup {at} |-> IF x = p THEN b
                                        ELSE IF x = at THEN UsedBlock(left, 0) ELSE B[x]]
  BY DEF CutAt, front, left
<1> HIDE DEF b, C
<1>8. /\ DOMAIN C = DOMAIN B \cup {at} /\ C[p] = b /\ C[at] = UsedBlock(left, 0)
      /\ \A x \in DOMAIN B : x # p /\ x # at => C[x] = B[x]
      /\ C = [x \in DOMAIN C |-> C[x]]
  BY <1>2, <1>7
<1>9. C \in BlocksType
  <2>1. \A x \in DOMAIN C : C[x] \in BlockType
    BY <1>4, <1>5, <1>8, BlocksElim
  <2>2. DOMAIN C \subseteq Nat
    BY <1>1, <1>8
  <2> QED
    BY <2>1, <2>2, <1>8, BlocksIntro
<1>10. Tiled(C, hi)
  <2>1. C[p].size = front
    BY <1>5, <1>8
  <2>2. DOMAIN C = DOMAIN B \cup {p + front}
    BY <1>2, <1>8
  <2>3. C[p + front].size = B[p].size - front
    BY <1>2, <1>4, <1>8 DEF left
  <2>4. B[p].size - front >= MM_MIN_BLOCK /\ front \in Nat /\ front >= MM_MIN_BLOCK
    BY <1>2, <1>3 DEF left
  <2>5. \A x \in DOMAIN B : x # p /\ x # p + front => C[x].size = B[x].size
    BY <1>2, <1>8
  <2>6. Tiled(C, hi) /\ p + front \notin DOMAIN B
    BY <2>1, <2>2, <2>3, <2>4, <2>5, <1>9, TiledCut
  <2> QED
    BY <2>6
<1>11. Apart(C)
  <2> SUFFICES ASSUME NEW x \in DOMAIN C, ~C[x].used, EndOf(C, x) \in DOMAIN C
               PROVE  C[EndOf(C, x)].used
    BY DEF Apart
  <2>1. x \in DOMAIN B /\ x # p /\ x # at /\ C[x] = B[x] /\ EndOf(C, x) = EndOf(B, x)
    BY <1>4, <1>6, <1>8 DEF EndOf
  <2>2. CASE EndOf(B, x) \in {p, at}
    BY <2>1, <2>2, <1>4, <1>6, <1>8
  <2>3. CASE EndOf(B, x) \notin {p, at}
    <3>1. EndOf(B, x) \in DOMAIN B /\ C[EndOf(B, x)] = B[EndOf(B, x)]
      BY <2>1, <2>3, <1>8
    <3> QED
      BY <2>1, <3>1 DEF Apart
  <2> QED
    BY <2>2, <2>3
<1>12. \A x \in DOMAIN C : x \notin {at, p} => Roomy(C[x]) /\ Summed(C[x], live)
  BY <1>8
<1>13. C[at].used /\ C[at].size = left
  BY <1>4, <1>8
<1>14. Fittable(C, at, p, size, "none", live)
  BY <1>1, <1>3, <1>8, <1>9, <1>10, <1>11, <1>12, <1>13 DEF Fittable
<1> QED
  BY <1>2, <1>6, <1>8, <1>14 DEF C

\* memalign_unlocked: the front of a larger block goes back before the rest is
\* handed out.
FrontFreed(z, at, size, trim) ==
  free_unlocked(Replaced(z.h, z.k, Fitted(z.h.spans[z.k],
                                          CutAt(z.h.spans[z.k].blocks, z.at, at), at, size, "none")),
                z.k, z.at, trim)

LEMMA FrontFreedOK ==
  ASSUME NEW live \in BOOLEAN, NEW h, AllInhabited(h), NEW size \in Nat \ {0},
         NEW trim \in BOOLEAN, NEW align \in Nat, align > MM_ALIGNMENT,
         NEW z, HandedOut(h, z.h, z.k, z.at, size + 2 * align + MM_MIN_BLOCK, "none", live)
  PROVE  LET r == FrontFreed(z, AlignedAt(z.at + MM_HDR_SIZE, align), size, trim)
         IN  Served(r.h, z.k, live) /\ r.lost = {}
<1> DEFINE zh == z.h
           k  == z.k
           p  == z.at
           s  == zh.spans[k]
           B  == s.blocks
           at == AlignedAt(p + MM_HDR_SIZE, align)
           C  == CutAt(B, p, at)
           f  == Fitted(s, C, at, size, "none")
           g  == Replaced(zh, k, f)
           r  == free_unlocked(g, k, p, trim)
<1>1. r = FrontFreed(z, AlignedAt(z.at + MM_HDR_SIZE, align), size, trim)
  BY DEF FrontFreed
<1>2. /\ HeapSound(zh, live) /\ k \in DOMAIN zh.spans /\ p \in DOMAIN B /\ ~s.fresh
      /\ B[p].used /\ B[p].give >= size + 2 * align + MM_MIN_BLOCK
      /\ \A j \in DOMAIN zh.spans : j # k => j \in DOMAIN h.spans /\ zh.spans[j] = h.spans[j]
  BY DEF HandedOut
<1> HIDE DEF zh, k, p
<1>3. zh \in HeapType /\ s \in SpanType /\ Sound(s, live) /\ HeapBut(zh, k, live)
  BY <1>2, HeapElim, SoundBoth DEF HeapSound
<1>4. B \in BlocksType /\ s.fresh = FALSE
  BY <1>2, <1>3, SpanElim
<1>5. PICK hi \in Nat : Tiled(B, hi)
  BY <1>3 DEF Sound
<1>6. Apart(B) /\ \A q \in DOMAIN B : Roomy(B[q]) /\ Summed(B[q], live)
  BY <1>3 DEF Sound
<1> HIDE DEF B
<1>7. /\ p \in Nat /\ B[p].size \in Nat /\ B[p].give \in Nat /\ MM_HDR_SIZE \in Nat
      /\ MM_TRAIL \in Nat /\ MM_MIN_BLOCK \in Nat /\ align >= 3
  <2>1. p \in DOMAIN B
    BY <1>2
  <2>2. p \in Nat /\ B[p].size \in Nat /\ B[p].give \in Nat
    BY <2>1, <1>4, BlocksElim
  <2>3. MM_HDR_SIZE \in Nat /\ MM_TRAIL \in Nat /\ MM_MIN_BLOCK \in Nat
    BY Sizes
  <2>4. align >= 3
    BY DEF MM_ALIGNMENT
  <2> QED
    BY <2>2, <2>3, <2>4
<1>8. /\ at \in Int /\ at + MM_HDR_SIZE >= p + MM_HDR_SIZE + MM_MIN_BLOCK
      /\ at + MM_HDR_SIZE <= p + MM_HDR_SIZE + MM_MIN_BLOCK + align
  <2>1. p + MM_HDR_SIZE \in Nat /\ align \in Nat \ {0}
    BY <1>7
  <2> QED
    BY <2>1, AlignedAtOK
<1> HIDE DEF at
<1>9. at \in Nat /\ at - p >= MM_MIN_BLOCK /\ at - p <= MM_MIN_BLOCK + align /\ at # p
      /\ at - p \in Nat
  <2>1. MM_MIN_BLOCK > 0
    BY Sizes
  <2> QED
    BY <2>1, <1>7, <1>8
<1>10. B[p].size - (at - p) >= mm_size_for(size)
  <2>1. MM_HDR_SIZE + B[p].give + MM_TRAIL <= B[p].size
    BY <1>2, <1>6 DEF Roomy
  <2>2. mm_size_for(size) <= MM_HDR_SIZE + size + MM_TRAIL + 3
    BY SizeForAtMost
  <2>3. mm_size_for(size) \in Nat
    BY SizeFor
  <2>4. B[p].size - (at - p) >= MM_HDR_SIZE + size + MM_TRAIL + align
    BY <2>1, <1>2, <1>7, <1>9
  <2> QED
    BY <2>2, <2>3, <2>4, <1>7, <1>9
<1>11. /\ Fittable(C, at, p, size, "none", live) /\ p \in DOMAIN C /\ C[p].used
  <2> HIDE DEF C
  <2> QED
    BY <1>2, <1>4, <1>5, <1>6, <1>9, <1>10, CutOK DEF C
<1> HIDE DEF C, s
<1>12. FittedWell(s, C, f, at, p, live)
  BY <1>3, <1>4, <1>11, FittedSpan
<1> HIDE DEF f
<1>13. /\ f \in SpanType /\ f.fresh = FALSE
       /\ SoundBut(f, p, live) /\ at \in DOMAIN f.blocks /\ f.blocks[at].used
       /\ p \in DOMAIN f.blocks /\ f.blocks[p].used
  BY <1>9, <1>11, <1>12 DEF FittedWell
<1>14. HeapBut(g, k, live)
  <2>1. f.fresh = zh.spans[k].fresh
    BY <1>4, <1>13 DEF s
  <2> QED
    BY <2>1, <1>2, <1>3, <1>13, ReplacedBut
<1>15. /\ DOMAIN g.spans = DOMAIN zh.spans /\ g.spans[k] = f
       /\ \A j \in DOMAIN zh.spans : j # k => g.spans[j] = zh.spans[j]
  BY <1>2, <1>3, ReplacedFields
<1> HIDE DEF g, r
<1>16. FreedWell(g, r, k, p, live)
  <2>1. /\ k \in DOMAIN g.spans /\ p \in DOMAIN g.spans[k].blocks
        /\ SoundBut(g.spans[k], p, live) /\ g.spans[k].blocks[p].used
    BY <1>2, <1>13, <1>15
  <2> QED
    BY <2>1, <1>14, FreeOK DEF r
<1>17. \A j \in DOMAIN g.spans : j # k => Inhabited(g.spans[j])
  BY <1>2, <1>15 DEF AllInhabited
<1>18. /\ k \in DOMAIN g.spans /\ ~g.spans[k].fresh
       /\ at \in DOMAIN g.spans[k].blocks /\ g.spans[k].blocks[at].used /\ ~(k = k /\ at = p)
  BY <1>2, <1>9, <1>13, <1>15
<1>19. Served(r.h, k, live)
  BY <1>16, <1>17, <1>18, FreeServes
<1>20. r.lost = {}
  BY <1>16 DEF FreedWell
<1> QED
  BY <1>1, <1>19, <1>20 DEF k

LEMMA MemalignOK ==
  ASSUME NEW live \in BOOLEAN, NEW h, HeapSound(h, live), AllInhabited(h),
         NEW align \in Nat, NEW size \in Nat \ {0}, NEW trim \in BOOLEAN,
         NEW y \in memalign_unlocked(h, align, size, trim)
  PROVE  Answer(y, live)
<1>1. CASE align <= MM_ALIGNMENT
  <2>1. PICK z \in malloc_unlocked(h, size) : y = [h |-> z.h, k |-> z.k, at |-> z.at, lost |-> {}]
    BY <1>1 DEF memalign_unlocked
  <2>2. HandedOut(h, z.h, z.k, z.at, size, "none", live)
    BY MallocOK
  <2>3. Served(z.h, z.k, live)
    BY <2>2, MallocServes DEF AllInhabited
  <2>4. y.h = z.h /\ y.k = z.k /\ y.lost = {}
    BY <2>1
  <2> QED
    BY <2>3, <2>4 DEF Answer
<1>2. CASE ~(align <= MM_ALIGNMENT)
  <2> DEFINE n == size + 2 * align + MM_MIN_BLOCK
             A(z) == AlignedAt(z.at + MM_HDR_SIZE, align)
             R(z) == FrontFreed(z, A(z), size, trim)
  <2>0. Padded(align, size) = n
    BY <1>2 DEF Padded
  <2>1. PICK z \in malloc_unlocked(h, n) : y = [h |-> R(z).h, k |-> z.k, at |-> A(z), lost |-> R(z).lost]
    BY <1>2, <2>0 DEF memalign_unlocked, FrontFreed, Replaced, Fitted, CutAt
  <2>2. n \in Nat /\ align > MM_ALIGNMENT
    BY <1>2, Sizes DEF MM_ALIGNMENT
  <2>3. HandedOut(h, z.h, z.k, z.at, n, "none", live)
    BY <2>2, MallocOK
  <2>4. Served(R(z).h, z.k, live) /\ R(z).lost = {}
    BY <2>2, <2>3, FrontFreedOK
  <2>5. y.h = R(z).h /\ y.k = z.k /\ y.lost = R(z).lost
    BY <2>1
  <2> HIDE DEF R
  <2> QED
    BY <2>4, <2>5 DEF Answer
<1> QED
  BY <1>1, <1>2

===============================================================================
