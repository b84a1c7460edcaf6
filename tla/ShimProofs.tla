------------------------------ MODULE ShimProofs ------------------------------
(***************************************************************************)
(* Whatever sequence of calls a program makes, through the shim or the     *)
(* managed interface, and for every profile, chunk and page size, number   *)
(* of mappings and size of the bootstrap pool, the arena stays sound and   *)
(* no call does what `seen` records.                                       *)
(***************************************************************************)
EXTENDS Shim, GrowthProofs, SequenceTheorems

-------------------------------------------------------------------------------
(***************************************************************************)
(* The inductive invariant.                                                *)
(***************************************************************************)

\* The arena between two calls.
Steady == HeapSound(Arena, mm_payload_crc_live) /\ AllInhabited(Arena)

\* What the last call did not do.
Harmless ==
  /\ seen.lost = {} /\ seen.wild = {} /\ seen.alarm = FALSE
  /\ Profile # "fast" => seen.dirt = {}

Inv ==
  /\ Steady /\ Harmless
  /\ mode \in {"managed", "libc"}
  /\ caller \in PoolRequests \cup {none}

-------------------------------------------------------------------------------
(***************************************************************************)
(* One call at a time.                                                     *)
(***************************************************************************)
LEMMA LiveBoolean == mm_payload_crc_live \in BOOLEAN
  BY DEF mm_payload_crc_live

LEMMA NothingIs ==
  /\ Nothing.dirt = {} /\ Nothing.lost = {} /\ Nothing.wild = {} /\ Nothing.alarm = FALSE
  BY DEF Nothing

LEMMA NothingLost ==
  ASSUME NEW x
  PROVE  LET r == [Nothing EXCEPT !.lost = x]
         IN  r.dirt = {} /\ r.lost = x /\ r.wild = {} /\ r.alarm = FALSE
  BY DEF Nothing

LEMMA QuietHarmless ==
  ASSUME seen' = Nothing
  PROVE  Harmless'
  BY NothingIs DEF Harmless

LEMMA LostHarmless ==
  ASSUME seen' = [Nothing EXCEPT !.lost = {}]
  PROVE  Harmless'
<1> DEFINE r == [Nothing EXCEPT !.lost = {}]
<1>1. r.dirt = {} /\ r.lost = {} /\ r.wild = {} /\ r.alarm = FALSE
  BY NothingLost
<1> HIDE DEF r
<1>2. seen' = r
  BY DEF r
<1> QED
  BY <1>1, <1>2 DEF Harmless

\* The arena becomes a sound heap.
LEMMA BecomesSteady ==
  ASSUME NEW h, HeapSound(h, mm_payload_crc_live), AllInhabited(h), Becomes(h), mode' = mode
  PROVE  Steady'
<1>1. h \in HeapType
  BY DEF HeapSound
<1>2. h = [spans |-> h.spans, fresh |-> h.fresh]
  BY <1>1, HeapElim
<1>3. Arena' = h
  BY <1>2 DEF Arena, Becomes
<1>4. mm_payload_crc_live' = mm_payload_crc_live
  BY DEF mm_payload_crc_live
<1> QED
  BY <1>3, <1>4 DEF Steady

LEMMA SameSteady ==
  ASSUME Steady, UNCHANGED arenaVars, UNCHANGED mode
  PROVE  Steady'
<1>1. Arena' = Arena /\ mm_payload_crc_live' = mm_payload_crc_live
  BY DEF Arena, arenaVars, mm_payload_crc_live
<1> QED
  BY <1>1 DEF Steady

LEMMA HandedSteady ==
  ASSUME NEW y, Served(y.h, y.k, mm_payload_crc_live), Becomes(Handed(y)), mode' = mode
  PROVE  Steady'
<1>1. HeapSound(Handed(y), mm_payload_crc_live) /\ AllInhabited(Handed(y))
  BY LiveBoolean, HandedServes DEF AllInhabited
<1> QED
  BY <1>1, BecomesSteady

LEMMA MallocStep ==
  ASSUME Steady, NEW size \in Nat, mm_malloc(size)
  PROVE  Steady' /\ Harmless'
<1>1. Harmless'
  BY QuietHarmless DEF mm_malloc
<1>2. CASE UNCHANGED arenaVars
  BY <1>1, <1>2, SameSteady DEF mm_malloc
<1>3. ASSUME NEW y \in malloc_unlocked(Arena, size), Becomes(Handed(y))
      PROVE  Steady'
  <2>1. HandedOut(Arena, y.h, y.k, y.at, size, "none", mm_payload_crc_live)
    BY <1>3, LiveBoolean, MallocOK DEF Steady
  <2>2. Served(y.h, y.k, mm_payload_crc_live)
    BY <2>1, LiveBoolean, MallocServes DEF Steady, AllInhabited
  <2> QED
    BY <1>3, <2>2, HandedSteady DEF mm_malloc
<1> QED
  BY <1>1, <1>2, <1>3 DEF mm_malloc

LEMMA MemalignStep ==
  ASSUME Steady, NEW align \in Nat, NEW size \in Nat \ {0}, mm_memalign(align, size)
  PROVE  Steady' /\ Harmless'
<1>1. CASE seen' = Nothing /\ UNCHANGED arenaVars
  BY <1>1, QuietHarmless, SameSteady DEF mm_memalign
<1>2. ASSUME NEW trim \in BOOLEAN, NEW y \in memalign_unlocked(Arena, align, size, trim),
             Becomes(Handed(y)), seen' = [Nothing EXCEPT !.lost = y.lost]
      PROVE  Steady' /\ Harmless'
  <2>1. Answer(y, mm_payload_crc_live)
    BY LiveBoolean, MemalignOK DEF Steady
  <2>2. Steady'
    BY <1>2, <2>1, HandedSteady DEF mm_memalign, Answer
  <2>3. Harmless'
    BY <1>2, <2>1, LostHarmless DEF Answer
  <2> QED
    BY <2>2, <2>3
<1> QED
  BY <1>1, <1>2 DEF mm_memalign

\* A pointer the program holds is a block in use.
LEMMA HeldInUse ==
  ASSUME NEW p \in Held
  PROVE  InUse(Arena, p[1], p[2])
<1>1. PICK k \in DOMAIN spans : \E at \in DOMAIN spans[k].blocks :
        spans[k].blocks[at].used /\ p = <<k, at>>
  BY DEF Held
<1> QED
  BY <1>1 DEF InUse, Arena

LEMMA ReallocStep ==
  ASSUME Steady, NEW p \in Held, NEW size \in Nat, mm_realloc(p, size)
  PROVE  Steady' /\ Harmless'
<1>1. CASE seen' = Nothing /\ UNCHANGED arenaVars
  BY <1>1, QuietHarmless, SameSteady DEF mm_realloc
<1>2. ASSUME NEW trim \in BOOLEAN,
             NEW y \in realloc_unlocked(Arena, p[1], p[2], size, trim),
             Becomes(Handed(y)), seen' = [Nothing EXCEPT !.lost = y.lost]
      PROVE  Steady' /\ Harmless'
  <2>1. Answer(y, mm_payload_crc_live)
    BY LiveBoolean, HeldInUse, ReallocOK DEF Steady
  <2>2. Steady'
    BY <1>2, <2>1, HandedSteady DEF mm_realloc, Answer
  <2>3. Harmless'
    BY <1>2, <2>1, LostHarmless DEF Answer
  <2> QED
    BY <2>2, <2>3
<1> QED
  BY <1>1, <1>2 DEF mm_realloc

LEMMA FreeStep ==
  ASSUME Steady, NEW p \in Held, mm_free(p)
  PROVE  Steady' /\ Harmless'
<1> DEFINE k  == p[1]
           at == p[2]
<1>1. PICK trim \in BOOLEAN :
        /\ Becomes(free_unlocked(Arena, k, at, trim).h)
        /\ seen' = [Nothing EXCEPT !.lost = free_unlocked(Arena, k, at, trim).lost]
        /\ mode' = mode
  BY DEF mm_free
<1> DEFINE r == free_unlocked(Arena, k, at, trim)
<1>2. /\ k \in DOMAIN Arena.spans /\ at \in DOMAIN Arena.spans[k].blocks
      /\ Arena.spans[k].blocks[at].used
  BY HeldInUse DEF InUse
<1> HIDE DEF k, at
<1>3. HeapBut(Arena, k, mm_payload_crc_live) /\ SoundBut(Arena.spans[k], at, mm_payload_crc_live)
  BY <1>2, LiveBoolean, SoundBoth DEF Steady
<1>4. FreedWell(Arena, r, k, at, mm_payload_crc_live)
  BY <1>2, <1>3, LiveBoolean, FreeOK
<1> HIDE DEF r
<1>5. HeapSound(r.h, mm_payload_crc_live) /\ r.lost = {}
  BY <1>4 DEF FreedWell
<1>6. AllInhabited(r.h)
  BY <1>4 DEF FreedWell, Steady, AllInhabited
<1>7. Becomes(r.h) /\ seen' = [Nothing EXCEPT !.lost = r.lost] /\ mode' = mode
  BY <1>1 DEF r
<1>8. Steady'
  BY <1>5, <1>6, <1>7, BecomesSteady
<1>9. Harmless'
  BY <1>5, <1>7, LostHarmless
<1> QED
  BY <1>8, <1>9

LEMMA CallocStep ==
  ASSUME Steady, NEW total \in Nat, total <= SizeMax, calloc_block(total)
  PROVE  Steady' /\ Harmless'
<1>1. CASE seen' = Nothing /\ UNCHANGED arenaVars
  BY <1>1, QuietHarmless, SameSteady DEF calloc_block
<1>2. ASSUME NEW y \in malloc_unlocked(Arena, total), Becomes(Handed(y)),
             seen' = [Nothing EXCEPT !.dirt =
               (Payload(y.at, total) \ Payload(y.at, y.prefix)) \cap y.h.spans[y.k].dirty]
      PROVE  Steady' /\ Harmless'
  <2> DEFINE D == (Payload(y.at, total) \ Payload(y.at, y.prefix)) \cap y.h.spans[y.k].dirty
  <2>1. /\ HandedOut(Arena, y.h, y.k, y.at, total, "none", mm_payload_crc_live)
        /\ Profile # "fast" => Clean(y, total)
    BY <1>2, LiveBoolean, MallocOK DEF Steady
  <2>2. Served(y.h, y.k, mm_payload_crc_live)
    BY <2>1, LiveBoolean, MallocServes DEF Steady, AllInhabited
  <2>3. Steady'
    BY <1>2, <2>2, HandedSteady DEF calloc_block
  <2>4. Profile # "fast" => D = {}
    BY <2>1 DEF Clean
  <2>5. seen' = [Nothing EXCEPT !.dirt = D]
    BY <1>2
  <2> HIDE DEF D
  <2>6. seen'.dirt = D /\ seen'.lost = {} /\ seen'.wild = {} /\ seen'.alarm = FALSE
    BY <2>5 DEF Nothing
  <2>7. Harmless'
    BY <2>4, <2>6 DEF Harmless
  <2> QED
    BY <2>3, <2>7
<1> QED
  BY <1>1, <1>2 DEF calloc_block

-------------------------------------------------------------------------------
(***************************************************************************)
(* The modes and validated access.                                         *)
(***************************************************************************)

\* A span without its payload checksums.
Unsummed(s) == [s EXCEPT !.blocks = [at \in DOMAIN @ |-> [@[at] EXCEPT !.crc = "none"]]]

UnsummedWell(s, r) ==
  /\ r \in SpanType /\ Sound(r, FALSE) /\ r.fresh = s.fresh /\ r.kind = s.kind
  /\ DOMAIN r.blocks = DOMAIN s.blocks
  /\ \A p \in DOMAIN s.blocks : r.blocks[p].used = s.blocks[p].used

LEMMA UnsummedOK ==
  ASSUME NEW live \in BOOLEAN, NEW s \in SpanType, Sound(s, live)
  PROVE  UnsummedWell(s, Unsummed(s))
<1> DEFINE B == s.blocks
           C == [at \in DOMAIN B |-> [B[at] EXCEPT !.crc = "none"]]
           r == [s EXCEPT !.blocks = C]
<1>1. Unsummed(s) = r
  BY DEF Unsummed
<1>2. B \in BlocksType /\ s.dirty \subseteq Int
  BY SpanElim
<1> HIDE DEF B
<1>3. \A p \in DOMAIN B : /\ C[p] \in BlockType /\ C[p].size = B[p].size
                          /\ C[p].give = B[p].give /\ C[p].crc = "none"
  <2> SUFFICES ASSUME NEW p \in DOMAIN B
               PROVE  /\ C[p] \in BlockType /\ C[p].size = B[p].size
                      /\ C[p].give = B[p].give /\ C[p].crc = "none"
    OBVIOUS
  <2>1. B[p] \in BlockType /\ C[p] = [B[p] EXCEPT !.crc = "none"]
    BY <1>2, BlocksElim
  <2> QED
    BY <2>1 DEF BlockType
<1>4. \A p \in DOMAIN B : C[p].used = B[p].used
  <2> SUFFICES ASSUME NEW p \in DOMAIN B
               PROVE  C[p].used = B[p].used
    OBVIOUS
  <2>1. B[p] \in BlockType /\ C[p] = [B[p] EXCEPT !.crc = "none"]
    BY <1>2, BlocksElim
  <2> QED
    BY <2>1 DEF BlockType
<1>5. DOMAIN C = DOMAIN B /\ C = [p \in DOMAIN C |-> C[p]]
  OBVIOUS
<1> HIDE DEF C
<1>6. C \in BlocksType
  <2>1. DOMAIN C \subseteq Nat /\ \A p \in DOMAIN C : C[p] \in BlockType
    BY <1>2, <1>3, <1>5, BlocksElim
  <2> QED
    BY <2>1, <1>5, BlocksIntro
<1>7. \A p \in DOMAIN B : /\ C[p].size = B[p].size /\ C[p].used = B[p].used
                          /\ C[p].give = B[p].give
  BY <1>3, <1>4
<1>8. Meta(C) = Meta(B)
  BY <1>2, <1>5, <1>6, <1>7, MetaSame
<1>9. /\ \A hi : Tiled(B, hi) => Tiled(C, hi)
      /\ Apart(B) => Apart(C)
      /\ \A p \in DOMAIN B : Roomy(B[p]) => Roomy(C[p])
  BY <1>2, <1>5, <1>6, <1>7, SameShape
<1>10. /\ r \in SpanType /\ r.blocks = C /\ r.dirty = s.dirty /\ r.kind = s.kind
       /\ r.fresh = s.fresh
  BY <1>6, WithBlocks
<1> HIDE DEF r
<1>11. Untouched(r)
  <2>1. Untouched(s)
    BY DEF Sound
  <2>2. s.fresh => DOMAIN B = {MM_BLOCK_OFFSET} /\ ~B[MM_BLOCK_OFFSET].used /\ s.dirty = Meta(B)
    BY <2>1 DEF Untouched, B
  <2>3. s.fresh => ~C[MM_BLOCK_OFFSET].used
    BY <2>2, <1>4
  <2> QED
    BY <2>2, <2>3, <1>5, <1>8, <1>10 DEF Untouched
<1>12. \A p \in DOMAIN C : Roomy(C[p]) /\ Summed(C[p], FALSE)
  <2>1. \A p \in DOMAIN B : Roomy(B[p])
    BY DEF Sound, B
  <2> QED
    BY <2>1, <1>3, <1>5, <1>9 DEF Summed
<1>13. Sound(r, FALSE)
  <2>1. (\E hi \in Nat : Tiled(B, hi)) /\ Apart(B)
    BY DEF Sound, B
  <2> QED
    BY <2>1, <1>9, <1>10, <1>11, <1>12 DEF Sound
<1> QED
  BY <1>1, <1>4, <1>5, <1>10, <1>13 DEF UnsummedWell, B

\* Where no checksum is kept a heap is as sound when they are kept.
LEMMA SilentSound ==
  ASSUME NEW live \in BOOLEAN, NEW h, HeapSound(h, FALSE)
  PROVE  HeapSound(h, live)
  BY DEF HeapSound, Sound, Summed

\* Every span of the arena replaced by one of the same kind and freshness.
LEMMA AllReplaced ==
  ASSUME NEW live \in BOOLEAN, NEW l \in BOOLEAN, NEW h, HeapSound(h, l), AllInhabited(h),
         NEW S, DOMAIN S = DOMAIN h.spans, S = [k \in DOMAIN S |-> S[k]],
         \A k \in DOMAIN S : /\ S[k] \in SpanType /\ Sound(S[k], live)
                             /\ S[k].fresh = h.spans[k].fresh /\ Inhabited(S[k])
  PROVE  HeapSound([spans |-> S, fresh |-> h.fresh], live)
         /\ AllInhabited([spans |-> S, fresh |-> h.fresh])
<1> DEFINE g == [spans |-> S, fresh |-> h.fresh]
<1>1. h.fresh \in Nat /\ DOMAIN h.spans \subseteq 1 .. MaxSpans
  BY HeapElim DEF HeapSound
<1>2. g \in HeapType
  BY <1>1, HeapIntro
<1>3. {k \in DOMAIN S : S[k].fresh} = {k \in DOMAIN h.spans : h.spans[k].fresh}
  OBVIOUS
<1>4. h.fresh = Cardinality({k \in DOMAIN S : S[k].fresh})
  BY <1>3 DEF HeapSound
<1>5. g.spans = S /\ g.fresh = h.fresh
  OBVIOUS
<1> HIDE DEF g
<1>6. HeapSound(g, live)
  BY <1>2, <1>4, <1>5 DEF HeapSound
<1>7. AllInhabited(g)
  BY <1>5 DEF AllInhabited
<1> QED
  BY <1>6, <1>7 DEF g

LEMMA BothSteady ==
  ASSUME HeapSound([spans |-> spans', fresh |-> fresh_spans'], mm_payload_crc_live'),
         AllInhabited([spans |-> spans', fresh |-> fresh_spans'])
  PROVE  Steady'
  BY DEF Steady, Arena

LEMMA SetModeStep ==
  ASSUME Steady, mode \in {"managed", "libc"}, NEW m \in {"managed", "libc"}, m # mode,
         mm_set_mode(m)
  PROVE  Steady' /\ Harmless' /\ mode' \in {"managed", "libc"}
<1>1. Harmless' /\ mode' = m /\ fresh_spans' = fresh_spans
  BY QuietHarmless DEF mm_set_mode
<1>2. HeapSound(Arena, mm_payload_crc_live) /\ AllInhabited(Arena)
  BY DEF Steady
<1>3. Arena.spans = spans /\ Arena.fresh = fresh_spans /\ Arena = [spans |-> spans, fresh |-> fresh_spans]
  BY DEF Arena
<1>4. mm_payload_crc_live' \in BOOLEAN
  BY DEF mm_payload_crc_live
<1>5. CASE m = "libc" /\ MM_HAS_CRC
  <2>1. spans' = Forgotten /\ mm_payload_crc_live' = FALSE
    BY <1>1, <1>5 DEF mm_set_mode, mm_payload_crc_live
  <2>2. /\ DOMAIN spans' = DOMAIN spans /\ spans' = [k \in DOMAIN spans' |-> spans'[k]]
        /\ \A k \in DOMAIN spans : spans'[k] = Unsummed(spans[k])
    BY <2>1 DEF Forgotten, Unsummed
  <2>3. \A k \in DOMAIN spans : /\ spans'[k] \in SpanType /\ Sound(spans'[k], FALSE)
                                /\ spans'[k].fresh = spans[k].fresh /\ Inhabited(spans'[k])
    <3> SUFFICES ASSUME NEW k \in DOMAIN spans
                 PROVE  /\ spans'[k] \in SpanType /\ Sound(spans'[k], FALSE)
                        /\ spans'[k].fresh = spans[k].fresh /\ Inhabited(spans'[k])
      OBVIOUS
    <3>1. spans[k] \in SpanType /\ Sound(spans[k], mm_payload_crc_live) /\ Inhabited(spans[k])
      BY <1>2, <1>3, HeapElim DEF HeapSound, AllInhabited
    <3>2. UnsummedWell(spans[k], spans'[k])
      BY <2>2, <3>1, LiveBoolean, UnsummedOK
    <3> QED
      BY <3>1, <3>2 DEF UnsummedWell, Inhabited
  <2>4. /\ HeapSound([spans |-> spans', fresh |-> Arena.fresh], FALSE)
        /\ AllInhabited([spans |-> spans', fresh |-> Arena.fresh])
    <3>1. /\ DOMAIN spans' = DOMAIN Arena.spans
          /\ \A k \in DOMAIN spans' : /\ spans'[k] \in SpanType /\ Sound(spans'[k], FALSE)
                                      /\ spans'[k].fresh = Arena.spans[k].fresh
                                      /\ Inhabited(spans'[k])
      BY <1>3, <2>2, <2>3
    <3> QED
      BY <3>1, <1>2, <2>2, LiveBoolean, AllReplaced
  <2>5. Steady'
    BY <1>1, <1>3, <2>1, <2>4, BothSteady
  <2> QED
    BY <1>1, <2>5
<1>6. CASE ~(m = "libc" /\ MM_HAS_CRC)
  <2>1. spans' = spans /\ mm_payload_crc_live = FALSE
    BY <1>6 DEF mm_set_mode, mm_payload_crc_live
  <2>2. HeapSound(Arena, mm_payload_crc_live')
    BY <1>2, <1>4, <2>1, SilentSound
  <2>3. Steady'
    BY <1>1, <1>2, <1>3, <2>1, <2>2, BothSteady
  <2> QED
    BY <1>1, <2>3
<1> QED
  BY <1>5, <1>6

\* The block's checksum is taken.
LEMMA SetCrcSteady ==
  ASSUME Steady, NEW p \in Held, mm_payload_crc_live, SetCrc(p, "good"),
         UNCHANGED <<fresh_spans, mode>>
  PROVE  Steady'
<1> DEFINE k  == p[1]
           at == p[2]
<1>1. k \in DOMAIN spans /\ at \in DOMAIN spans[k].blocks /\ spans[k].blocks[at].used
  BY HeldInUse DEF InUse, Arena
<1>2. spans' = [spans EXCEPT ![k].blocks[at].crc = "good"]
  BY DEF SetCrc
<1> HIDE DEF k, at
<1>3. HeapSound(Arena, mm_payload_crc_live) /\ AllInhabited(Arena)
  BY DEF Steady
<1>4. Arena.spans = spans /\ Arena.fresh = fresh_spans
  BY DEF Arena
<1>5. /\ spans = [j \in DOMAIN spans |-> spans[j]]
      /\ \A j \in DOMAIN spans : /\ spans[j] \in SpanType /\ Inhabited(spans[j])
                                 /\ Sound(spans[j], mm_payload_crc_live)
  BY <1>3, <1>4, HeapElim DEF HeapSound, AllInhabited
<1>6. CrcWell(spans[k], WithCrc(spans[k], at, "good"), mm_payload_crc_live)
  BY <1>1, <1>5, CrcSpan DEF mm_payload_crc_live
<1>7. /\ DOMAIN spans' = DOMAIN spans /\ spans' = [j \in DOMAIN spans' |-> spans'[j]]
      /\ spans'[k] = WithCrc(spans[k], at, "good")
      /\ \A j \in DOMAIN spans : j # k => spans'[j] = spans[j]
  BY <1>1, <1>2, <1>5 DEF WithCrc
<1>8. spans[k].fresh = spans'[k].fresh
  BY <1>6, <1>7 DEF CrcWell
<1>9. Inhabited(spans'[k])
  BY <1>1, <1>6, <1>7 DEF CrcWell, Inhabited
<1>10. spans'[k] \in SpanType /\ Sound(spans'[k], mm_payload_crc_live)
  BY <1>6, <1>7 DEF CrcWell
<1>11. /\ DOMAIN spans' = DOMAIN Arena.spans
       /\ \A j \in DOMAIN spans' : /\ spans'[j] \in SpanType
                                   /\ Sound(spans'[j], mm_payload_crc_live)
                                   /\ spans'[j].fresh = Arena.spans[j].fresh
                                   /\ Inhabited(spans'[j])
  BY <1>4, <1>5, <1>7, <1>8, <1>9, <1>10
<1>12. /\ HeapSound([spans |-> spans', fresh |-> Arena.fresh], mm_payload_crc_live)
       /\ AllInhabited([spans |-> spans', fresh |-> Arena.fresh])
  BY <1>3, <1>7, <1>11, LiveBoolean, AllReplaced
<1>13. mm_payload_crc_live' = mm_payload_crc_live /\ fresh_spans' = Arena.fresh
  BY <1>4 DEF mm_payload_crc_live
<1> QED
  BY <1>12, <1>13, BothSteady

\* What is known of the checksum of a block the program holds.
LEMMA HeldSummed ==
  ASSUME Steady, NEW p \in Held
  PROVE  Summed(BlockAt(p), mm_payload_crc_live) /\ BlockAt(p).give \in Nat
<1>1. InUse(Arena, p[1], p[2]) /\ Arena.spans = spans
  BY HeldInUse DEF Arena
<1>2. /\ p[1] \in DOMAIN spans /\ p[2] \in DOMAIN spans[p[1]].blocks
      /\ spans[p[1]] \in SpanType /\ Sound(spans[p[1]], mm_payload_crc_live)
  BY <1>1, HeapElim DEF InUse, Steady, HeapSound
<1>3. spans[p[1]].blocks \in BlocksType
  BY <1>2, SpanElim
<1>4. BlockAt(p).give \in Nat
  BY <1>2, <1>3, BlocksElim DEF BlockAt
<1> QED
  BY <1>2, <1>4 DEF BlockAt, Sound

LEMMA WriteStep ==
  ASSUME Steady, NEW p \in Held, NEW offset \in Nat, NEW len \in Nat, mm_write(p, offset, len)
  PROVE  Steady' /\ Harmless'
<1>1. CASE ~InRange(offset, len, BlockAt(p).give)
  BY <1>1, QuietHarmless, SameSteady DEF mm_write, arenaVars
<1>2. CASE InRange(offset, len, BlockAt(p).give)
  <2> DEFINE W == {w \in offset .. offset + len - 1 : w >= BlockAt(p).give}
  <2>1. BlockAt(p).give \in Nat
    BY HeldSummed
  <2>2. W = {}
    BY <1>2, <2>1 DEF InRange
  <2>3. seen' = [Nothing EXCEPT !.wild = W]
    BY <1>2 DEF mm_write
  <2> HIDE DEF W
  <2>4. seen'.dirt = {} /\ seen'.lost = {} /\ seen'.wild = W /\ seen'.alarm = FALSE
    BY <2>3 DEF Nothing
  <2>5. Harmless'
    BY <2>2, <2>4 DEF Harmless
  <2>6. CASE mm_payload_crc_live
    <3>1. SetCrc(p, "good") /\ UNCHANGED <<fresh_spans, mode>>
      BY <1>2, <2>6 DEF mm_write
    <3> QED
      BY <2>5, <2>6, <3>1, SetCrcSteady
  <2>7. CASE ~mm_payload_crc_live
    <3>1. UNCHANGED arenaVars /\ UNCHANGED mode
      BY <1>2, <2>7 DEF mm_write, arenaVars
    <3> QED
      BY <2>5, <3>1, SameSteady
  <2> QED
    BY <2>6, <2>7
<1> QED
  BY <1>1, <1>2

LEMMA ReadStep ==
  ASSUME Steady, NEW p \in Held, NEW offset, NEW len, mm_read(p, offset, len)
  PROVE  Steady' /\ Harmless'
<1>1. Steady'
  BY SameSteady DEF mm_read
<1>2. BlockAt(p).crc # "bad"
  BY HeldSummed DEF Summed
<1>3. seen' = [Nothing EXCEPT !.alarm = FALSE]
  BY <1>2 DEF mm_read
<1>4. seen'.dirt = {} /\ seen'.lost = {} /\ seen'.wild = {} /\ seen'.alarm = FALSE
  BY <1>3 DEF Nothing
<1> QED
  BY <1>1, <1>4 DEF Harmless

LEMMA StoreStep ==
  ASSUME Steady, NEW p \in Held, Store(p)
  PROVE  Steady' /\ Harmless'
<1>1. ~mm_payload_crc_live
  BY DEF Store, mm_payload_crc_live
<1>2. BlockAt(p).crc = "none"
  BY <1>1, HeldSummed DEF Summed
<1> QED
  BY <1>2, QuietHarmless, SameSteady DEF Store, arenaVars

-------------------------------------------------------------------------------
(***************************************************************************)
(* The invariant holds from the start and across every call.               *)
(***************************************************************************)

\* An arena of one new chunk.
LEMMA FirstSpan ==
  ASSUME NEW live \in BOOLEAN
  PROVE  LET h == [spans |-> [k \in {1} |-> NewSpan(MM_MIN_BLOCK, "chunk")], fresh |-> 1]
         IN  HeapSound(h, live) /\ AllInhabited(h)
<1> DEFINE s == NewSpan(MM_MIN_BLOCK, "chunk")
           S == [k \in {1} |-> s]
           h == [spans |-> S, fresh |-> 1]
<1>1. s \in SpanType /\ Sound(s, live) /\ s.fresh = TRUE /\ s.kind = "chunk"
  <2>1. MM_MIN_BLOCK \in Nat /\ MM_MIN_BLOCK >= MM_MIN_BLOCK /\ MM_MIN_BLOCK % 2 = 0
    BY Sizes
  <2> QED
    BY <2>1, NewSpanOK
<1> HIDE DEF s
<1>2. DOMAIN S = {1} /\ S[1] = s /\ S = [k \in DOMAIN S |-> S[k]]
  OBVIOUS
<1> HIDE DEF S
<1>3. h \in HeapType
  <2>1. DOMAIN S \subseteq 1 .. MaxSpans
    BY <1>2, GrowthAssumption
  <2>2. \A k \in DOMAIN S : S[k] \in SpanType
    BY <1>1, <1>2
  <2> QED
    BY <1>2, <2>1, <2>2, HeapIntro
<1>4. h.spans = S /\ h.fresh = 1
  OBVIOUS
<1> HIDE DEF h
<1>5. {k \in DOMAIN h.spans : h.spans[k].fresh} = {1}
  BY <1>1, <1>2, <1>4
<1>6. HeapSound(h, live)
  <2>1. Cardinality({1}) = 1
    BY FS_Singleton
  <2>2. h.fresh = Cardinality({k \in DOMAIN h.spans : h.spans[k].fresh})
    BY <1>4, <1>5, <2>1
  <2>3. \A k \in DOMAIN h.spans : Sound(h.spans[k], live)
    BY <1>1, <1>2, <1>4
  <2> QED
    BY <1>3, <2>2, <2>3 DEF HeapSound
<1>7. AllInhabited(h)
  BY <1>1, <1>2, <1>4 DEF AllInhabited, Inhabited
<1> QED
  BY <1>6, <1>7 DEF h, S, s

\* No arena at all.
LEMMA NoSpan ==
  ASSUME NEW live \in BOOLEAN
  PROVE  LET h == [spans |-> [k \in {} |-> none], fresh |-> 0]
         IN  HeapSound(h, live) /\ AllInhabited(h)
<1> DEFINE S == [k \in {} |-> none]
           h == [spans |-> S, fresh |-> 0]
<1>1. DOMAIN S = {} /\ S = [k \in DOMAIN S |-> S[k]]
  OBVIOUS
<1> HIDE DEF S
<1>2. h \in HeapType
  BY <1>1, HeapIntro
<1>3. h.spans = S /\ h.fresh = 0
  OBVIOUS
<1> HIDE DEF h
<1>4. {k \in DOMAIN h.spans : h.spans[k].fresh} = {}
  BY <1>1, <1>3
<1>5. HeapSound(h, live)
  BY <1>1, <1>2, <1>3, <1>4, FS_EmptySet DEF HeapSound
<1>6. AllInhabited(h)
  BY <1>1, <1>3 DEF AllInhabited
<1> QED
  BY <1>5, <1>6 DEF h, S

LEMMA InitInv == Init => Inv
<1> SUFFICES ASSUME Init
             PROVE  Inv
  OBVIOUS
<1>1. mode = "managed" /\ seen = Nothing /\ caller = none
  BY DEF Init
<1>2. Harmless
  BY <1>1, NothingIs DEF Harmless
<1>3. Steady
  <2>1. CASE spans = [k \in {} |-> none] /\ fresh_spans = 0
    BY <2>1, LiveBoolean, NoSpan DEF Steady, Arena
  <2>2. CASE spans = [k \in {1} |-> NewSpan(MM_MIN_BLOCK, "chunk")] /\ fresh_spans = 1
    BY <2>2, LiveBoolean, FirstSpan DEF Steady, Arena
  <2> QED
    BY <2>1, <2>2 DEF Init
<1> QED
  BY <1>1, <1>2, <1>3 DEF Inv

LEMMA AtLeastOne ==
  ASSUME NEW n \in 0 .. SizeMax
  PROVE  Max({n, 1}) \in Nat \ {0} /\ Max({n, 1}) <= SizeMax
<1>1. n \in Int /\ SizeMax \in Nat \ {0}
  BY GrowthAssumption
<1>2. Max({n, 1}) \in {n, 1} /\ Max({n, 1}) >= 1
  BY <1>1, Max2
<1> QED
  BY <1>1, <1>2

LEMMA NextInv == Inv /\ [Next]_vars => Inv'
<1> SUFFICES ASSUME Inv, [Next]_vars
             PROVE  Inv'
  OBVIOUS
<1>0. /\ Steady /\ Harmless /\ mode \in {"managed", "libc"}
      /\ caller \in PoolRequests \cup {none}
  BY DEF Inv
<1>sz. /\ Requests \subseteq Nat \ {0} /\ Requests \subseteq 0 .. SizeMax
       /\ Alignments \subseteq Nat /\ SizeMax \in Nat
       /\ PoolRequests \subseteq 0 .. SizeMax /\ none \notin PoolRequests
  BY GrowthAssumption, ShimAssumption
<1>st. ASSUME Steady', Harmless', mode' = mode, UNCHANGED caller
       PROVE  Inv'
  BY <1>0, <1>st DEF Inv
<1>1. ASSUME NEW size \in PoolRequests \cup {none}, Startup(size)
      PROVE  Inv'
  <2>1. UNCHANGED arenaVars /\ UNCHANGED mode /\ seen' = seen /\ caller' = size
    BY <1>1 DEF Startup, arenaVars
  <2>2. Steady'
    BY <1>0, <2>1, SameSteady
  <2> QED
    BY <1>0, <2>1, <2>2 DEF Inv, Harmless
<1>2. ASSUME NEW size \in PoolRequests, Nested(size)
      PROVE  Inv'
  <2>1. UNCHANGED arenaVars /\ mode' = mode /\ seen' = Nothing
    BY <1>2 DEF Nested, pool_alloc
  <2>2. Steady' /\ Harmless' /\ caller' = caller
    BY <1>0, <1>2, <2>1, SameSteady, QuietHarmless DEF Nested
  <2> QED
    BY <1>0, <2>1, <2>2 DEF Inv
<1>3. CASE Up
  <2>1. /\ mode' = "libc" /\ seen' = seen /\ caller' = caller
        /\ spans' = [k \in {1} |-> NewSpan(MM_MIN_BLOCK, "chunk")] /\ fresh_spans' = 1
    BY <1>3 DEF Up
  <2>2. mm_payload_crc_live' \in BOOLEAN
    BY DEF mm_payload_crc_live
  <2>3. Steady'
    BY <2>1, <2>2, FirstSpan, BothSteady
  <2> QED
    BY <1>0, <2>1, <2>3 DEF Inv, Harmless
<1>4. CASE StaysDown
  <2>1. UNCHANGED arenaVars /\ UNCHANGED mode /\ UNCHANGED caller /\ seen' = seen
    BY <1>4 DEF StaysDown, arenaVars
  <2>2. Steady' /\ Harmless'
    BY <1>0, <2>1, SameSteady DEF Harmless
  <2> QED
    BY <1>st, <2>1, <2>2
<1>5. CASE Resume
  <2>1. caller \in PoolRequests /\ caller' = none
    BY <1>0, <1>5 DEF Resume
  <2>2. CASE state = "ready"
    <3>1. mm_malloc(Max({caller, 1})) /\ mode' = mode
      BY <1>5, <2>2 DEF Resume, mm_malloc
    <3>2. Max({caller, 1}) \in Nat
      BY <1>sz, <2>1, AtLeastOne
    <3>3. Steady' /\ Harmless'
      BY <1>0, <3>1, <3>2, MallocStep
    <3> QED
      BY <1>0, <2>1, <3>1, <3>3 DEF Inv
  <2>3. CASE state # "ready"
    <3>1. UNCHANGED arenaVars /\ mode' = mode /\ seen' = Nothing
      BY <1>5, <2>3 DEF Resume, pool_alloc
    <3>2. Steady' /\ Harmless'
      BY <1>0, <3>1, SameSteady, QuietHarmless
    <3> QED
      BY <1>0, <2>1, <3>1, <3>2 DEF Inv
  <2> QED
    BY <2>2, <2>3
<1>6. ASSUME NEW size \in Requests \cup {0}, malloc(size)
      PROVE  Inv'
  <2>1. /\ mm_malloc(Max({size, 1})) /\ mode' = mode /\ UNCHANGED caller
        /\ Max({size, 1}) \in Nat
    BY <1>6, <1>sz, AtLeastOne DEF malloc, mm_malloc
  <2> QED
    BY <1>0, <1>st, <2>1, MallocStep
<1>7. ASSUME NEW size \in Requests \cup {0}, calloc(size)
      PROVE  Inv'
  <2>1. /\ calloc_block(Max({size, 1})) /\ mode' = mode /\ UNCHANGED caller
        /\ Max({size, 1}) \in Nat /\ Max({size, 1}) <= SizeMax
    <3>1. calloc_block(Max({size, 1})) /\ UNCHANGED caller
      BY <1>7 DEF calloc
    <3>2. mode' = mode
      BY <3>1 DEF calloc_block
    <3>3. size \in 0 .. SizeMax
      BY <1>sz
    <3> QED
      BY <3>1, <3>2, <3>3, AtLeastOne
  <2> QED
    BY <1>0, <1>st, <2>1, CallocStep
<1>8. ASSUME NEW align \in Alignments, NEW size \in Requests, aligned_alloc(align, size)
      PROVE  Inv'
  <2>1. /\ mm_memalign(align, Max({size, 1})) /\ mode' = mode /\ UNCHANGED caller
        /\ Max({size, 1}) \in Nat \ {0} /\ align \in Nat
    BY <1>8, <1>sz, AtLeastOne DEF aligned_alloc, mm_memalign
  <2> QED
    BY <1>0, <1>st, <2>1, MemalignStep
<1>9. ASSUME NEW p \in Held, mm_free(p), UNCHANGED caller
      PROVE  Inv'
  <2>1. mode' = mode
    BY <1>9 DEF mm_free
  <2> QED
    BY <1>0, <1>9, <1>st, <2>1, FreeStep
<1>10. ASSUME NEW p \in Held, NEW size \in Nat, mm_realloc(p, size), UNCHANGED caller
       PROVE  Inv'
  <2>1. mode' = mode
    BY <1>10 DEF mm_realloc
  <2> QED
    BY <1>0, <1>10, <1>st, <2>1, ReallocStep
<1>11. ASSUME NEW p \in Held, NEW size \in Requests \cup {0}, realloc(p, size)
       PROVE  Inv'
  <2>1. CASE size = 0
    BY <1>9, <1>11, <2>1 DEF realloc
  <2>2. CASE size # 0
    <3>1. size \in Nat
      BY <1>sz, <2>2
    <3> QED
      BY <1>10, <1>11, <2>2, <3>1 DEF realloc
  <2> QED
    BY <2>1, <2>2
<1>12. ASSUME NEW size \in Nat, mm_malloc(size), UNCHANGED caller
       PROVE  Inv'
  <2>1. mode' = mode
    BY <1>12 DEF mm_malloc
  <2> QED
    BY <1>0, <1>12, <1>st, <2>1, MallocStep
<1>13. ASSUME NEW m \in {"managed", "libc"} \ {mode}, mm_set_mode(m), Managed
       PROVE  Inv'
  <2>1. Steady' /\ Harmless' /\ mode' \in {"managed", "libc"}
    BY <1>0, <1>13, SetModeStep
  <2>2. caller' = caller
    BY <1>13 DEF Managed
  <2> QED
    BY <1>0, <2>1, <2>2 DEF Inv
<1>14. ASSUME NEW p \in Held, Store(p), Managed
       PROVE  Inv'
  <2>1. mode' = mode /\ UNCHANGED caller
    BY <1>14 DEF Store, Managed
  <2> QED
    BY <1>0, <1>14, <1>st, <2>1, StoreStep
<1>15. ASSUME NEW p \in Held, NEW offset \in Extents(p), NEW len \in Extents(p), Managed,
              mm_write(p, offset, len) \/ mm_read(p, offset, len)
       PROVE  Inv'
  <2>1. offset \in Nat /\ len \in Nat
    BY <1>0, <1>sz, HeldSummed DEF Extents
  <2>2. mode' = mode /\ UNCHANGED caller
    BY <1>15 DEF mm_write, mm_read, Managed
  <2> QED
    BY <1>0, <1>15, <1>st, <2>1, <2>2, WriteStep, ReadStep
<1>16. CASE UNCHANGED vars
  <2>1. /\ UNCHANGED arenaVars /\ UNCHANGED mode /\ UNCHANGED caller /\ seen' = seen
    BY <1>16 DEF vars, arenaVars
  <2>2. Steady' /\ Harmless'
    BY <1>0, <2>1, SameSteady DEF Harmless
  <2> QED
    BY <1>st, <2>1, <2>2
<1>17. ASSUME NEW p \in Held, free(p)
       PROVE  Inv'
  BY <1>9, <1>17 DEF free
<1>18. ASSUME NEW i \in DOMAIN pool, NEW size \in Requests, realloc_pool(i, size)
       PROVE  Inv'
  BY <1>12, <1>18, <1>sz DEF realloc_pool
<1>19. CASE /\ Managed
            /\ \/ \E size \in Requests : mm_malloc(size)
               \/ \E m \in {"managed", "libc"} \ {mode} : mm_set_mode(m)
               \/ \E p \in Held :
                    \/ mm_free(p) \/ Store(p)
                    \/ \E size \in Requests : mm_realloc(p, size)
                    \/ \E offset, len \in Extents(p) :
                         mm_write(p, offset, len) \/ mm_read(p, offset, len)
  <2>1. UNCHANGED caller
    BY <1>19 DEF Managed
  <2>2. ASSUME NEW size \in Requests, mm_malloc(size)
        PROVE  Inv'
    BY <1>12, <1>sz, <2>1, <2>2
  <2>3. ASSUME NEW p \in Held, mm_free(p)
        PROVE  Inv'
    BY <1>9, <2>1, <2>3
  <2>4. ASSUME NEW p \in Held, NEW size \in Requests, mm_realloc(p, size)
        PROVE  Inv'
    BY <1>10, <1>sz, <2>1, <2>4
  <2> QED
    BY <1>13, <1>14, <1>15, <1>19, <2>2, <2>3, <2>4
<1> QED
  BY <1>1, <1>2, <1>3, <1>4, <1>5, <1>6, <1>7, <1>8, <1>11, <1>16, <1>17, <1>18, <1>19 DEF Next

\* The arena is sound between any two calls: its blocks tile every mapping, no two
\* free ones adjoin, what the program may use stays clear of headers, canaries and
\* mirrors, and checksums are kept only in the mode that keeps them (mm_core.c,
\* mm_arena.c, mm_integrity.c).
THEOREM AlwaysInv == Spec => []Inv
  BY InitInv, NextInv, PTL DEF Spec

-------------------------------------------------------------------------------
(***************************************************************************)
(* What the invariant gives.                                               *)
(***************************************************************************)

\* In the profiles with canaries a block from calloc is zero although only the
\* part mm_span_take_fresh names was cleared, whatever was carved, split, merged
\* and unmapped before (mm_malloc_fresh, calloc).  In the fast profile it is not:
\* without a trailer the boundary tag of the free block was the payload's last word.
THEOREM CallocAlwaysZeroed == Spec => [](Profile # "fast" => CallocZeroed)
<1>1. Inv => (Profile # "fast" => CallocZeroed)
  BY DEF Inv, Harmless, CallocZeroed
<1> QED
  BY AlwaysInv, <1>1, PTL

\* No page given back by reclaim holds metadata of any block, for every page size
\* and every place a merged block comes to lie (mm_arena_release_pages).
THEOREM MetaAlwaysKept == Spec => []MetaKept
<1>1. Inv => MetaKept
  BY DEF Inv, Harmless, MetaKept
<1> QED
  BY AlwaysInv, <1>1, PTL

\* A checked write stays in the block it names, for positions and lengths up to
\* the largest size_t, where their sum would wrap (checked_block).
THEOREM AccessAlwaysConfined == Spec => []AccessConfined
<1>1. Inv => AccessConfined
  BY DEF Inv, Harmless, AccessConfined
<1> QED
  BY AlwaysInv, <1>1, PTL

\* No block of a program that keeps to its mode's interface is taken for damaged,
\* however it resizes blocks and switches modes (mm_set_mode, carry_payload_crc,
\* write_unlocked, read_unlocked).
THEOREM NeverFalseAlarm == Spec => []NoFalseAlarm
<1>1. ASSUME Inv
      PROVE  NoFalseAlarm
  <2>1. ~seen.alarm /\ Steady
    BY <1>1 DEF Inv, Harmless
  <2>2. \A p \in Held : BlockAt(p).crc # "bad"
    BY <2>1, HeldSummed DEF Summed
  <2> QED
    BY <2>1, <2>2 DEF NoFalseAlarm
<1> QED
  BY AlwaysInv, <1>1, PTL

\* The count of fresh spans is right, and a fresh span is one free block in words
\* nobody else has written: the count never goes below zero and mm_malloc_fresh
\* never takes a used span for a new one (mm_span_take_fresh,
\* mm_arena_release_span).
THEOREM FreshAlwaysExact == Spec => []FreshExact
<1>1. ASSUME Inv
      PROVE  FreshExact
  <2>1. HeapSound(Arena, mm_payload_crc_live) /\ Arena.spans = spans /\ Arena.fresh = fresh_spans
    BY <1>1 DEF Inv, Steady, Arena
  <2>2. fresh_spans = Cardinality({k \in DOMAIN spans : spans[k].fresh})
    BY <2>1 DEF HeapSound
  <2>3. ASSUME NEW k \in DOMAIN spans, spans[k].fresh
        PROVE  Cardinality(DOMAIN spans[k].blocks) = 1 /\ spans[k].dirty = Meta(spans[k].blocks)
    <3>1. Untouched(spans[k])
      BY <2>1 DEF HeapSound, Sound
    <3>2. DOMAIN spans[k].blocks = {MM_BLOCK_OFFSET} /\ spans[k].dirty = Meta(spans[k].blocks)
      BY <2>3, <3>1 DEF Untouched
    <3>3. Cardinality({MM_BLOCK_OFFSET}) = 1
      BY FS_Singleton
    <3> QED
      BY <3>2, <3>3
  <2> QED
    BY <2>2, <2>3 DEF FreshExact
<1> QED
  BY AlwaysInv, <1>1, PTL

\* A mapping made for one allocation is never left without a block in use: frees,
\* moves and aligned allocations that empty it give it back (reclaim,
\* memalign_unlocked, realloc_unlocked).
THEOREM DedicatedAlwaysReturned == Spec => []DedicatedReturned
<1>1. Inv => DedicatedReturned
  BY DEF Inv, Steady, AllInhabited, Inhabited, Arena, DedicatedReturned
<1> QED
  BY AlwaysInv, <1>1, PTL

-------------------------------------------------------------------------------
(***************************************************************************)
(* The bootstrap pool.  Its bound test adds in size_t: a request within    *)
(* the pool's size of the largest size_t, but too small to wrap when it is *)
(* padded, passes it.  Until one is served the pool is a stack.            *)
(***************************************************************************)

\* Sizes whose sum with any cursor does not wrap.
Plain == {size \in 0 .. SizeMax : size + pool_hdr + 1 + BOOTSTRAP_BYTES <= SizeMax}

\* The blocks of the pool, such requests or not.
PoolType == Seq([at : Nat, size : 0 .. SizeMax])

\* None of them is for a request that adding to the cursor wrapped.
Unreached(blocks) == \A i \in 1 .. Len(blocks) : ~Overreaching(blocks[i].size)

\* Where a block of the pool ends, with the padding behind it.
PoolEnd(b) == b.at + RoundUp(b.size, 2)

\* The pool is a sequence of blocks behind one another, each behind its header.
Stacked(blocks) ==
  /\ blocks \in Seq([at : Nat, size : Plain])
  /\ \A i \in 1 .. Len(blocks) : PoolEnd(blocks[i]) <= BOOTSTRAP_BYTES
  /\ \A i \in 1 .. Len(blocks) : blocks[i].at >= pool_hdr
  /\ \A i, j \in 1 .. Len(blocks) : j < i => PoolEnd(blocks[j]) + pool_hdr <= blocks[i].at

LEMMA WrapType ==
  ASSUME NEW n \in Int
  PROVE  Wrap(n) \in 0 .. SizeMax
<1> DEFINE m == SizeMax + 1
<1>1. m \in Nat \ {0} /\ SizeMax \in Nat
  BY GrowthAssumption
<1> HIDE DEF m
<1>2. n % m \in 0 .. m - 1
  BY <1>1
<1> QED
  BY <1>1, <1>2 DEF Wrap, m

LEMMA WrapSmall ==
  ASSUME NEW n \in 0 .. SizeMax
  PROVE  Wrap(n) = n
<1> DEFINE m == SizeMax + 1
           q == n \div m
           r == n % m
<1>1. m \in Nat \ {0} /\ n \in Nat /\ n < m
  BY GrowthAssumption
<1> HIDE DEF m
<1>2. q \in Int /\ r \in Int /\ n = m * q + r /\ 0 <= r /\ r < m
  BY <1>1
<1> HIDE DEF q, r
<1>3. q < 1
  <2>1. q >= 1 => m * q >= m
    BY <1>1, <1>2
  <2> QED
    BY <1>1, <1>2, <2>1
<1>4. q > -1
  <2>1. q <= -1 => m * q <= -m
    BY <1>1, <1>2
  <2> QED
    BY <1>1, <1>2, <2>1
<1>5. q = 0
  BY <1>2, <1>3, <1>4
<1>6. r = n
  BY <1>1, <1>2, <1>5
<1> QED
  BY <1>6 DEF r, m, Wrap

LEMMA PlainIs ==
  ASSUME NEW size \in Plain
  PROVE  /\ size \in Nat /\ size + 3 + BOOTSTRAP_BYTES <= SizeMax
         /\ SizeMax \in Nat /\ BOOTSTRAP_BYTES \in Nat
  BY GrowthAssumption, ShimAssumption DEF Plain, pool_hdr

\* Such a request needs its header and its padded size.
LEMMA PlainNeed ==
  ASSUME NEW size \in Plain
  PROVE  /\ pool_need(size) = pool_hdr + RoundUp(size, 2)
         /\ RoundUp(size, 2) \in Nat /\ RoundUp(size, 2) <= size + 1
<1>1. /\ size \in Nat /\ size + 3 + BOOTSTRAP_BYTES <= SizeMax
      /\ SizeMax \in Nat /\ BOOTSTRAP_BYTES \in Nat
  BY PlainIs
<1>2. RoundUp(size, 2) \in Nat /\ RoundUp(size, 2) <= size + 1
  BY <1>1, RoundUp2
<1>3. Wrap(size + 1) = size + 1
  BY <1>1, WrapSmall
<1>4. (size + 1) - ((size + 1) % 2) = RoundUp(size, 2)
  BY <1>1 DEF RoundUp
<1>5. Wrap(pool_hdr + RoundUp(size, 2)) = pool_hdr + RoundUp(size, 2)
  BY <1>1, <1>2, WrapSmall DEF pool_hdr
<1> QED
  BY <1>2, <1>3, <1>4, <1>5 DEF pool_need

LEMMA PoolEndIs ==
  ASSUME NEW b \in [at : Nat, size : Plain]
  PROVE  /\ PoolEnd(b) \in Nat /\ b.at + b.size <= PoolEnd(b) /\ b.at \in Nat /\ b.size \in Nat
         /\ b.at - pool_hdr + pool_need(b.size) = PoolEnd(b)
<1>1. b.at \in Nat /\ b.size \in Plain
  OBVIOUS
<1>2. b.size \in Nat
  BY <1>1, PlainIs
<1>3. RoundUp(b.size, 2) \in Nat /\ RoundUp(b.size, 2) >= b.size
  BY <1>2, RoundUp2
<1>4. pool_need(b.size) = pool_hdr + RoundUp(b.size, 2)
  BY <1>1, PlainNeed
<1> QED
  BY <1>1, <1>2, <1>3, <1>4 DEF PoolEnd, pool_hdr

LEMMA StackedElim ==
  ASSUME Stacked(pool)
  PROVE  /\ Len(pool) \in Nat /\ DOMAIN pool = 1 .. Len(pool)
         /\ \A i \in 1 .. Len(pool) : /\ pool[i] \in [at : Nat, size : Plain]
                                      /\ PoolEnd(pool[i]) \in Nat
                                      /\ pool[i].at \in Nat /\ pool[i].size \in Nat
                                      /\ pool[i].at + pool[i].size <= PoolEnd(pool[i])
<1>1. pool \in Seq([at : Nat, size : Plain])
  BY DEF Stacked
<1>2. Len(pool) \in Nat /\ DOMAIN pool = 1 .. Len(pool)
  BY <1>1
<1>3. \A i \in 1 .. Len(pool) : pool[i] \in [at : Nat, size : Plain]
  BY <1>1, ElementOfSeq
<1> QED
  BY <1>2, <1>3, PoolEndIs

\* What is used ends behind every block.
LEMMA UsedEnds ==
  ASSUME Stacked(pool)
  PROVE  /\ g_pool_used \in Nat /\ g_pool_used <= BOOTSTRAP_BYTES
         /\ \A i \in 1 .. Len(pool) : PoolEnd(pool[i]) <= g_pool_used
<1>1. CASE pool = <<>>
  BY <1>1, ShimAssumption DEF g_pool_used
<1>2. CASE pool # <<>>
  <2> DEFINE n == Len(pool)
  <2>1. n \in Nat /\ n > 0
    BY <1>2, StackedElim DEF Stacked
  <2>2. g_pool_used = PoolEnd(pool[n])
    <3>1. pool[n] \in [at : Nat, size : Plain] /\ PoolEnd(pool[n]) <= BOOTSTRAP_BYTES
      BY <2>1, StackedElim DEF Stacked
    <3>2. /\ PoolEnd(pool[n]) \in Nat
          /\ pool[n].at - pool_hdr + pool_need(pool[n].size) = PoolEnd(pool[n])
      BY <3>1, PoolEndIs
    <3>3. pool[n].size \in Plain
      BY <3>1
    <3>4. BOOTSTRAP_BYTES \in Nat /\ SizeMax \in Nat /\ BOOTSTRAP_BYTES <= SizeMax
      BY <3>3, PlainIs
    <3>5. Wrap(PoolEnd(pool[n])) = PoolEnd(pool[n])
      BY <3>1, <3>2, <3>4, WrapSmall
    <3> QED
      BY <1>2, <3>2, <3>5 DEF g_pool_used
  <2>3. \A i \in 1 .. n : i = n \/ i < n
    BY <2>1
  <2>4. \A i \in 1 .. n : i < n => PoolEnd(pool[i]) <= PoolEnd(pool[n])
    <3> SUFFICES ASSUME NEW i \in 1 .. n, i < n
                 PROVE  PoolEnd(pool[i]) <= PoolEnd(pool[n])
      OBVIOUS
    <3>1. PoolEnd(pool[i]) + pool_hdr <= pool[n].at
      BY <2>1 DEF Stacked
    <3>2. /\ PoolEnd(pool[i]) \in Nat /\ PoolEnd(pool[n]) \in Nat /\ pool[n].at \in Nat
          /\ pool[n].size \in Nat /\ pool[n].at + pool[n].size <= PoolEnd(pool[n])
      BY <2>1, StackedElim
    <3> QED
      BY <3>1, <3>2 DEF pool_hdr
  <2>5. PoolEnd(pool[n]) \in Nat /\ PoolEnd(pool[n]) <= BOOTSTRAP_BYTES
    BY <2>1, StackedElim DEF Stacked
  <2> HIDE DEF n
  <2> QED
    BY <2>2, <2>3, <2>4, <2>5 DEF n
<1> QED
  BY <1>1, <1>2

LEMMA NeedType ==
  ASSUME NEW size \in Nat
  PROVE  pool_need(size) \in Nat
<1>1. SizeMax \in Nat
  BY GrowthAssumption
<1> DEFINE w == Wrap(size + 1)
<1>2. w \in 0 .. SizeMax
  BY WrapType
<1> HIDE DEF w
<1>3. pool_hdr + (w - (w % 2)) \in Int
  BY <1>1, <1>2 DEF pool_hdr
<1>4. Wrap(pool_hdr + (w - (w % 2))) \in 0 .. SizeMax
  BY <1>3, WrapType
<1> QED
  BY <1>1, <1>4 DEF pool_need, w

LEMMA UsedType ==
  ASSUME pool \in PoolType
  PROVE  g_pool_used \in Nat
<1>1. CASE pool = <<>>
  BY <1>1 DEF g_pool_used
<1>2. CASE pool # <<>>
  <2> DEFINE last == pool[Len(pool)]
             x    == last.at - pool_hdr + pool_need(last.size)
  <2>0. Len(pool) \in 1 .. Len(pool)
    BY <1>2, EmptySeq DEF PoolType
  <2>1. last \in [at : Nat, size : 0 .. SizeMax]
    BY <2>0, ElementOfSeq DEF PoolType
  <2>2. last.at \in Nat /\ last.size \in Nat
    BY <2>1
  <2> HIDE DEF last
  <2>3. pool_need(last.size) \in Nat
    BY <2>2, NeedType
  <2>4. x \in Int
    BY <2>2, <2>3 DEF pool_hdr
  <2>5. g_pool_used = Wrap(x)
    BY <1>2 DEF g_pool_used, last
  <2> HIDE DEF x
  <2> QED
    BY <2>4, <2>5, WrapType
<1> QED
  BY <1>1, <1>2

LEMMA PoolStep ==
  ASSUME Stacked(pool), NEW size \in PoolRequests, pool_alloc(size),
         ~Overreaching(size)
  PROVE  Stacked(pool')
<1> DEFINE b == [at |-> g_pool_used + pool_hdr, size |-> size]
           n == Len(pool)
<1>1. CASE pool' = pool
  BY <1>1
<1>2. CASE pool' = Append(pool, b) /\ ~PoolRefuses(size)
  <2>1. size \in Plain
    <3>1. size \in 0 .. SizeMax /\ SizeMax \in Nat /\ BOOTSTRAP_BYTES \in Nat
      BY ShimAssumption, GrowthAssumption
    <3>2. pool_need(size) \in Nat
      BY <3>1, NeedType
    <3>3. pool_need(size) >= size
      BY <1>2, <3>1, <3>2 DEF PoolRefuses
    <3> QED
      BY <3>1, <3>3 DEF Overreaching, Plain, pool_hdr
  <2>2. g_pool_used \in Nat /\ \A i \in 1 .. n : PoolEnd(pool[i]) <= g_pool_used
    BY UsedEnds
  <2>3. b \in [at : Nat, size : Plain] /\ b.at = g_pool_used + pool_hdr /\ b.size = size
    BY <2>1, <2>2 DEF pool_hdr
  <2>4. PoolEnd(b) <= BOOTSTRAP_BYTES
    <3>1. pool_need(size) = pool_hdr + RoundUp(size, 2) /\ RoundUp(size, 2) \in Nat
          /\ RoundUp(size, 2) <= size + 1
      BY <2>1, PlainNeed
    <3>2. /\ size \in Nat /\ size + 3 + BOOTSTRAP_BYTES <= SizeMax
          /\ SizeMax \in Nat /\ BOOTSTRAP_BYTES \in Nat
      BY <2>1, PlainIs
    <3>3. g_pool_used <= BOOTSTRAP_BYTES
      BY UsedEnds
    <3>4. g_pool_used + pool_need(size) \in 0 .. SizeMax
      BY <2>2, <3>1, <3>2, <3>3 DEF pool_hdr
    <3>5. Wrap(g_pool_used + pool_need(size)) = g_pool_used + pool_need(size)
      BY <3>4, WrapSmall
    <3>6. g_pool_used + pool_need(size) <= BOOTSTRAP_BYTES
      BY <1>2, <3>2, <3>4, <3>5 DEF PoolRefuses
    <3> QED
      BY <2>2, <2>3, <3>1, <3>6 DEF PoolEnd, pool_hdr
  <2> HIDE DEF b
  <2>6. /\ Append(pool, b) \in Seq([at : Nat, size : Plain])
        /\ Len(Append(pool, b)) = n + 1 /\ n \in Nat
        /\ Append(pool, b)[n + 1] = b
        /\ \A i \in 1 .. n : Append(pool, b)[i] = pool[i]
    BY <2>3 DEF Stacked
  <2> DEFINE q == Append(pool, b)
  <2> HIDE DEF q
  <2>7. /\ q \in Seq([at : Nat, size : Plain]) /\ Len(q) = n + 1 /\ n \in Nat
        /\ q[n + 1] = b /\ \A i \in 1 .. n : q[i] = pool[i]
    BY <2>6 DEF q
  <2>8. /\ \A i \in 1 .. n : PoolEnd(pool[i]) <= BOOTSTRAP_BYTES /\ pool[i].at >= pool_hdr
        /\ \A i, j \in 1 .. n : j < i => PoolEnd(pool[j]) + pool_hdr <= pool[i].at
    BY DEF Stacked
  <2>9. \A i \in 1 .. n : PoolEnd(pool[i]) \in Nat
    BY StackedElim
  <2> HIDE DEF n
  <2>10. \A i \in 1 .. n + 1 : i = n + 1 \/ i \in 1 .. n
    BY <2>7
  <2>11. \A i \in 1 .. n + 1 : PoolEnd(q[i]) <= BOOTSTRAP_BYTES
    BY <2>4, <2>7, <2>8, <2>10
  <2>12. \A i \in 1 .. n + 1 : q[i].at >= pool_hdr
    <3>1. b.at >= pool_hdr
      BY <2>2, <2>3 DEF pool_hdr
    <3> QED
      BY <3>1, <2>7, <2>8, <2>10
  <2>13. \A i, j \in 1 .. n + 1 : j < i => PoolEnd(q[j]) + pool_hdr <= q[i].at
    <3> SUFFICES ASSUME NEW i \in 1 .. n + 1, NEW j \in 1 .. n + 1, j < i
                 PROVE  PoolEnd(q[j]) + pool_hdr <= q[i].at
      OBVIOUS
    <3>1. j \in 1 .. n /\ q[j] = pool[j]
      BY <2>7
    <3>2. CASE i = n + 1
      <4>1. PoolEnd(pool[j]) <= g_pool_used /\ PoolEnd(pool[j]) \in Nat
        BY <3>1, <2>2, <2>9 DEF n
      <4>2. PoolEnd(pool[j]) + pool_hdr <= g_pool_used + pool_hdr
        BY <4>1, <2>2 DEF pool_hdr
      <4> QED
        BY <3>1, <3>2, <4>2, <2>3, <2>7
    <3>3. CASE i \in 1 .. n
      BY <3>1, <3>3, <2>7, <2>8
    <3> QED
      BY <2>10, <3>2, <3>3
  <2>14. Stacked(q)
    BY <2>7, <2>11, <2>12, <2>13 DEF Stacked
  <2> QED
    BY <1>2, <2>14 DEF q
<1> QED
  BY <1>1, <1>2 DEF pool_alloc

\* Only pool_alloc changes the pool.
LEMMA PoolMoves ==
  ASSUME Inv, [Next]_vars
  PROVE  pool' = pool \/ \E size \in PoolRequests : pool_alloc(size)
<1>1. ASSUME NEW size \in PoolRequests, Nested(size)
      PROVE  \E sz \in PoolRequests : pool_alloc(sz)
  BY <1>1 DEF Nested
<1>2. CASE Resume
  BY <1>2 DEF Resume, Inv
<1>3. CASE \/ \E size \in PoolRequests \cup {none} : Startup(size)
           \/ Up \/ StaysDown
  BY <1>3 DEF Startup, Up, StaysDown
<1>4. CASE \/ \E size \in Requests \cup {0} : malloc(size) \/ calloc(size)
           \/ \E align \in Alignments, size \in Requests : aligned_alloc(align, size)
           \/ \E p \in Held : free(p) \/ \E size \in Requests \cup {0} : realloc(p, size)
           \/ \E i \in DOMAIN pool, size \in Requests : realloc_pool(i, size)
  BY <1>4 DEF malloc, calloc, aligned_alloc, free, realloc, realloc_pool
<1>5. CASE Managed
  BY <1>5 DEF Managed
<1>6. CASE UNCHANGED vars
  BY <1>6 DEF vars
<1> QED
  BY <1>1, <1>2, <1>3, <1>4, <1>5, <1>6 DEF Next

\* The pool is a stack as long as no such request was served.
PoolInv(blocks) == blocks \in PoolType /\ (Unreached(blocks) => Stacked(blocks))

LEMMA PoolInvStep ==
  ASSUME PoolInv(pool), NEW size \in PoolRequests, pool_alloc(size)
  PROVE  PoolInv(pool')
<1> DEFINE b == [at |-> g_pool_used + pool_hdr, size |-> size]
           n == Len(pool)
<1>1. CASE pool' = pool
  BY <1>1
<1>2. CASE pool' = Append(pool, b)
  <2>1. pool \in PoolType /\ g_pool_used \in Nat
    BY UsedType DEF PoolInv
  <2>2. b \in [at : Nat, size : 0 .. SizeMax] /\ b.size = size
    BY <2>1, ShimAssumption DEF pool_hdr
  <2> HIDE DEF b
  <2>3. /\ pool' \in PoolType /\ Len(pool') = n + 1 /\ n \in Nat /\ pool'[n + 1] = b
        /\ \A i \in 1 .. n : pool'[i] = pool[i]
    BY <1>2, <2>1, <2>2 DEF PoolType
  <2> HIDE DEF n
  <2>4. ASSUME Unreached(pool')
        PROVE  Stacked(pool')
    <3>1. ~Overreaching(size)
      BY <2>2, <2>3, <2>4 DEF Unreached
    <3>2. \A i \in 1 .. n : i \in 1 .. n + 1
      BY <2>3
    <3>3. Unreached(pool)
      BY <2>3, <2>4, <3>2 DEF Unreached, n
    <3> QED
      BY <3>1, <3>3, PoolStep DEF PoolInv
  <2> QED
    BY <2>3, <2>4 DEF PoolInv
<1> QED
  BY <1>1, <1>2 DEF pool_alloc

LEMMA PoolInvPrimed ==
  ASSUME PoolInv(pool')
  PROVE  PoolInv(pool)'
  BY DEF PoolInv, PoolType, Unreached, Overreaching, pool_need, Wrap, Stacked, PoolEnd,
         RoundUp, pool_hdr, Plain

\* However many requests of whatever sizes are made of the pool, and however often
\* start-up is tried again, the blocks of the pool lie in it, clear of each other
\* and of each other's headers (pool_alloc, from_pool), until a request is served
\* that wraps when it is added to the cursor and not when it is padded.
THEOREM PoolAlwaysSound == Spec => []PoolSound
<1>1. Init => PoolInv(pool)
  BY DEF Init, PoolInv, PoolType, Stacked
<1>2. Inv /\ PoolInv(pool) /\ [Next]_vars => PoolInv(pool)'
  <2> SUFFICES ASSUME Inv, PoolInv(pool), [Next]_vars
               PROVE  PoolInv(pool)'
    OBVIOUS
  <2>1. PoolInv(pool')
    BY PoolMoves, PoolInvStep
  <2> QED
    BY <2>1, PoolInvPrimed
<1>3. ASSUME PoolInv(pool)
      PROVE  PoolSound
  <2> SUFFICES ASSUME \A i \in DOMAIN pool : ~Overreaching(pool[i].size)
               PROVE  \A i \in DOMAIN pool :
                        /\ pool[i].at + pool[i].size <= BOOTSTRAP_BYTES
                        /\ pool[i].size > 0 => from_pool(pool[i].at)
                        /\ \A j \in 1 .. i - 1 :
                             pool[j].at + pool[j].size <= pool[i].at - pool_hdr
    BY DEF PoolSound
  <2>0. DOMAIN pool = 1 .. Len(pool)
    BY <1>3 DEF PoolInv, PoolType
  <2>1. Stacked(pool)
    BY <1>3, <2>0 DEF PoolInv, Unreached
  <2> SUFFICES ASSUME NEW i \in DOMAIN pool
               PROVE  /\ pool[i].at + pool[i].size <= BOOTSTRAP_BYTES
                      /\ pool[i].size > 0 => from_pool(pool[i].at)
                      /\ \A j \in 1 .. i - 1 : pool[j].at + pool[j].size <= pool[i].at - pool_hdr
    OBVIOUS
  <2>2. /\ Len(pool) \in Nat /\ i \in 1 .. Len(pool)
        /\ \A j \in 1 .. Len(pool) : /\ PoolEnd(pool[j]) \in Nat
                                     /\ pool[j].at \in Nat /\ pool[j].size \in Nat
                                     /\ pool[j].at + pool[j].size <= PoolEnd(pool[j])
    BY <2>1, StackedElim
  <2>3. PoolEnd(pool[i]) <= BOOTSTRAP_BYTES /\ BOOTSTRAP_BYTES \in Nat
    BY <2>1, <2>2, ShimAssumption DEF Stacked
  <2>4. pool[i].at + pool[i].size <= BOOTSTRAP_BYTES
    BY <2>2, <2>3
  <2>5. pool[i].size > 0 => from_pool(pool[i].at)
    BY <2>2, <2>4, <2>3 DEF from_pool
  <2>6. ASSUME NEW j \in 1 .. i - 1
        PROVE  pool[j].at + pool[j].size <= pool[i].at - pool_hdr
    <3>1. j \in 1 .. Len(pool) /\ j < i
      BY <2>2
    <3>2. PoolEnd(pool[j]) + pool_hdr <= pool[i].at
      BY <2>1, <2>2, <3>1 DEF Stacked
    <3>3. /\ PoolEnd(pool[j]) \in Nat /\ pool[j].at \in Nat /\ pool[j].size \in Nat
          /\ pool[j].at + pool[j].size <= PoolEnd(pool[j]) /\ pool[i].at \in Nat
      BY <2>2, <3>1
    <3> QED
      BY <3>2, <3>3 DEF pool_hdr
  <2> QED
    BY <2>4, <2>5, <2>6
<1> QED
  BY AlwaysInv, <1>1, <1>2, <1>3, PTL DEF Spec

===============================================================================
