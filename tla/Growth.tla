-------------------------------- MODULE Growth --------------------------------
(***************************************************************************)
(* An arena that maps its own memory (mm_arena.c, grow_for and reclaim in  *)
(* mm_core.c), the two modes (mm_integrity.c) and validated access         *)
(* (mm_access.c), for one thread and without faults.                       *)
(*                                                                         *)
(* The subject is what a span has been used for: which of its words are    *)
(* still the zeroes the kernel supplied, when its mapping goes back, and   *)
(* whether a block's payload checksum is that of its payload.  Headers,    *)
(* tags and bins are Heap's subject: here a span maps starts to blocks,    *)
(* and mm_bin_find may answer with any free block that fits.  Sizes are in *)
(* 8-byte words.                                                           *)
(***************************************************************************)
EXTENDS Naturals, FiniteSetsExt

CONSTANTS Profile,        \* "fast", "hardened" or "paranoid"
          MM_CHUNK_SIZE,  \* words in a chunk
          Page,           \* words in a page
          Requests,       \* sizes asked for
          Alignments,     \* alignments asked for
          MaxSpans,       \* bound: mappings at one time
          SizeMax         \* the largest size_t

ASSUME GrowthAssumption ==
  /\ Profile \in {"fast", "hardened", "paranoid"}
  /\ MM_CHUNK_SIZE \in Nat \ {0} /\ Page \in Nat \ {0}
  /\ MM_CHUNK_SIZE % 2 = 0 /\ MM_CHUNK_SIZE % Page = 0
  /\ Requests \subseteq 1 .. SizeMax /\ Alignments \subseteq 1 .. SizeMax \div 2
  /\ MaxSpans \in Nat \ {0} /\ SizeMax \in Nat \ {0}

RoundUp(n, to) == ((n + to - 1) \div to) * to

MM_ALIGNMENT       == 2
MM_HDR_SIZE        == IF Profile = "fast" THEN 1 ELSE 2
MM_CANARY_SIZE     == IF Profile = "fast" THEN 0 ELSE 1
MM_MIRROR_SIZE     == IF Profile = "paranoid" THEN MM_HDR_SIZE ELSE 0
MM_TRAIL           == MM_CANARY_SIZE + MM_MIRROR_SIZE
MM_MIN_BLOCK       == RoundUp(Max({MM_HDR_SIZE + 3, MM_HDR_SIZE + 1 + MM_TRAIL}), MM_ALIGNMENT)
MM_BLOCK_OFFSET    == (MM_ALIGNMENT - (MM_HDR_SIZE % MM_ALIGNMENT)) % MM_ALIGNMENT
MM_LARGE_THRESHOLD == MM_CHUNK_SIZE \div 2
MM_DONTNEED_MIN    == MM_CHUNK_SIZE \div 2
MM_HAS_CRC         == Profile # "fast"

\* Words of a fresh block's payload the allocator has written.
MM_FRESH_DIRTY_PREFIX == 2

\* mm_size_for answers 0: the block's size would wrap.
TooLarge(size) == size + MM_HDR_SIZE + MM_TRAIL + MM_ALIGNMENT > SizeMax

mm_size_for(size) == Max({MM_MIN_BLOCK, RoundUp(MM_HDR_SIZE + size + MM_TRAIL, MM_ALIGNMENT)})

VARIABLES spans,        \* the arena's mappings, numbered, each with its blocks
          fresh_spans,  \* how many of them nothing was allocated from
          mode,         \* "managed" or "libc"
          seen          \* what the last call did that it must not do

arenaVars == <<spans, fresh_spans>>

\* Words a calloc returned that are not zero, words of metadata whose pages were
\* given back, words written outside the block named, a checksum that was wrong.
Nothing == [dirt |-> {}, lost |-> {}, wild |-> {}, alarm |-> FALSE]

-------------------------------------------------------------------------------
(***************************************************************************)
(* The blocks of a span, by the word they start at.  give: the words the   *)
(* program may use; crc: "none" (0), "good" or "bad".                      *)
(***************************************************************************)
FreeBlock(size)       == [size |-> size, used |-> FALSE, give |-> 0, crc |-> "none"]
UsedBlock(size, give) == [size |-> size, used |-> TRUE, give |-> give, crc |-> "none"]

EndOf(blocks, at)  == at + blocks[at].size
IsFree(blocks, at) == at \in DOMAIN blocks /\ ~blocks[at].used

Payload(at, n) == at + MM_HDR_SIZE .. at + MM_HDR_SIZE + n - 1

\* The words of a block that hold metadata: the header; a free block's links and
\* boundary tag; the canary behind a payload and the mirror at the block's end.
MetaOf(blocks, at) ==
  LET b   == blocks[at]
      in  == at + MM_HDR_SIZE
      end == EndOf(blocks, at)
  IN  (at .. in - 1) \cup
      (IF b.used THEN (in + b.give .. in + b.give + MM_CANARY_SIZE - 1)
                      \cup (end - MM_MIRROR_SIZE .. end - 1)
                 ELSE {in, in + 1, end - 1})
Meta(blocks) == UNION {MetaOf(blocks, at) : at \in DOMAIN blocks}

Words(blocks) == UNION {at .. EndOf(blocks, at) - 1 : at \in DOMAIN blocks}

\* absorb_neighbours and release_block: the block at `at` and its free neighbours
\* become one.
Released(blocks, at) ==
  LET before == {p \in DOMAIN blocks : EndOf(blocks, p) = at /\ ~blocks[p].used}
      next   == EndOf(blocks, at)
      gone   == before \cup {at} \cup (IF IsFree(blocks, next) THEN {next} ELSE {})
      first  == Min(gone)
      end    == IF IsFree(blocks, next) THEN EndOf(blocks, next) ELSE next
  IN  [p \in (DOMAIN blocks \ gone) \cup {first} |->
         IF p = first THEN FreeBlock(end - first) ELSE blocks[p]]

\* split_block: the block at `at` trimmed to need.
Split(blocks, at, need) ==
  LET left == blocks[at].size - need
  IN  IF left < MM_MIN_BLOCK THEN blocks
      ELSE Released([p \in DOMAIN blocks \cup {at + need} |->
                       IF p = at THEN [blocks[at] EXCEPT !.size = need]
                       ELSE IF p = at + need THEN UsedBlock(left, 0) ELSE blocks[p]],
                    at + need)

\* finish_allocation
Finished(blocks, at, size, crc) ==
  LET total == blocks[at].size
      give  == IF mode = "libc" THEN total - MM_HDR_SIZE - MM_TRAIL ELSE size
  IN  [blocks EXCEPT ![at] = [UsedBlock(total, give) EXCEPT !.crc = crc]]

\* A span whose tiling becomes blocks: what is written for that is written.
Retiled(s, blocks) == [s EXCEPT !.blocks = blocks, !.dirty = @ \cup Meta(blocks)]

-------------------------------------------------------------------------------
(***************************************************************************)
(* Growing.  A heap is [spans, fresh].                                     *)
(***************************************************************************)
Arena == [spans |-> spans, fresh |-> fresh_spans]

\* map_span and span_adopt: whole chunks, one free block, nothing else written.
NewSpan(need, kind) ==
  LET bytes  == RoundUp(MM_BLOCK_OFFSET + need, MM_CHUNK_SIZE)
      usable == bytes - MM_BLOCK_OFFSET
      whole  == [at \in {MM_BLOCK_OFFSET} |-> FreeBlock(usable - (usable % MM_ALIGNMENT))]
  IN  [kind |-> kind, fresh |-> TRUE, blocks |-> whole, dirty |-> Meta(whole)]

Unmapped(h) == (1 .. MaxSpans) \ DOMAIN h.spans

Grown(h, need, kind) ==
  LET k == Min(Unmapped(h))
  IN  [spans |-> [j \in DOMAIN h.spans \cup {k} |->
                    IF j = k THEN NewSpan(need, kind) ELSE h.spans[j]],
       fresh |-> h.fresh + 1]

\* mm_bin_find: any free block that is large enough.
Fits(h, need) ==
  UNION {{[h |-> h, k |-> k, at |-> at] :
            at \in {p \in DOMAIN h.spans[k].blocks :
                      IsFree(h.spans[k].blocks, p) /\ h.spans[k].blocks[p].size >= need}} :
         k \in DOMAIN h.spans}

\* map_chunk_aligned asks for a chunk more, and refuses a sum that wraps.
MapWraps(need) == RoundUp(MM_BLOCK_OFFSET + need, MM_CHUNK_SIZE) + MM_CHUNK_SIZE > SizeMax

\* grow_for, through mm_arena_grow or mm_arena_map_large, when the mapping is
\* granted.
Mapped(h, need) ==
  IF Unmapped(h) = {} \/ MapWraps(need) THEN {}
  ELSE {[h |-> Grown(h, need, IF need > MM_LARGE_THRESHOLD THEN "large" ELSE "chunk"),
         k |-> Min(Unmapped(h)), at |-> MM_BLOCK_OFFSET]}

\* Where malloc_unlocked takes the block from.  A large one has a mapping of its
\* own and looks at the bins only when that is refused, which may be at any time.
Sources(h, need) ==
  IF need > MM_LARGE_THRESHOLD THEN Mapped(h, need) \cup Fits(h, need)
  ELSE IF Fits(h, need) # {} THEN Fits(h, need) ELSE Mapped(h, need)

\* A slip: a span stays fresh.
ConsumedNever(s) == s

\* mm_span_take_fresh: once something was carved from it a span is not fresh.
Consumed(s) == [s EXCEPT !.fresh = FALSE]

\* And how much of the payload the allocator wrote itself: everything may be.
FreshPrefix(s, at) ==
  IF s.fresh /\ at = MM_BLOCK_OFFSET THEN MM_FRESH_DIRTY_PREFIX ELSE SizeMax

Carved(x, size) ==
  LET s      == x.h.spans[x.k]
      taken  == [s.blocks EXCEPT ![x.at].used = TRUE]
      blocks == Finished(Split(taken, x.at, mm_size_for(size)), x.at, size, "none")
  IN  [h |-> [spans |-> [x.h.spans EXCEPT ![x.k] = Retiled(Consumed(s), blocks)],
              fresh |-> x.h.fresh - (IF s.fresh THEN 1 ELSE 0)],
       k |-> x.k, at |-> x.at, prefix |-> FreshPrefix(s, x.at)]

malloc_unlocked(h, size) ==
  IF TooLarge(size) THEN {} ELSE {Carved(x, size) : x \in Sources(h, mm_size_for(size))}

\* It answers NULL: nothing fits and the mapping is refused.
MayFail(h, size) == TooLarge(size) \/ Fits(h, mm_size_for(size)) = {}

\* The arena once the program has the block: from then on the span's words may
\* hold anything.
Handed(y) == [y.h EXCEPT !.spans[y.k].dirty = Words(y.h.spans[y.k].blocks)]

-------------------------------------------------------------------------------
(***************************************************************************)
(* Releasing.                                                              *)
(***************************************************************************)

\* A slip: all of the payload.
InteriorWhole(blocks, at) == at + MM_HDR_SIZE .. EndOf(blocks, at) - 1

\* The words of a free block between its links and its boundary tag.
Interior(blocks, at) == at + MM_HDR_SIZE + 2 .. EndOf(blocks, at) - 2

\* mm_arena_release_pages: the whole pages among those words.
Pages(words) ==
  {w \in words : (Page * (w \div Page) .. Page * (w \div Page) + Page - 1) \subseteq words}

\* A slip: told by the size of the mapping.
ReturnableBySize(s) ==
  /\ s.kind = "large"
  /\ \E at \in DOMAIN s.blocks : IsFree(s.blocks, at) /\ s.blocks[at].size > MM_CHUNK_SIZE

\* A mapping made for one allocation, all of it free.
Returnable(s) ==
  /\ s.kind = "large"
  /\ \E at \in DOMAIN s.blocks : DOMAIN s.blocks = {at} /\ ~s.blocks[at].used

\* free_unlocked with reclaim.  Whether the pages of a large run are given back
\* depends on when that was last done (trim).
free_unlocked(h, k, at, trim) ==
  LET s      == h.spans[k]
      after  == Retiled(s, Released(s.blocks, at))
      run    == CHOOSE p \in DOMAIN after.blocks : p <= at /\ at < EndOf(after.blocks, p)
      pages  == IF trim /\ after.blocks[run].size >= MM_DONTNEED_MIN
                THEN Pages(Interior(after.blocks, run)) ELSE {}
  IN  IF Returnable(after)
      THEN [h |-> [spans |-> [j \in DOMAIN h.spans \ {k} |-> h.spans[j]],
                   fresh |-> h.fresh - (IF s.fresh THEN 1 ELSE 0)], lost |-> {}]
      ELSE [h |-> [h EXCEPT !.spans[k] = after],
            lost |-> pages \cap Meta(after.blocks)]

(***************************************************************************)
(* Resizing, and the payload checksum with it.                             *)
(***************************************************************************)
mm_payload_crc_live == MM_HAS_CRC /\ mode = "managed"

\* A slip: a checksum is kept in a block that grew.
carry_payload_crc_kept(old_sum, old_size, new_size) ==
  IF mm_payload_crc_live /\ old_sum # "none"
  THEN IF new_size <= old_size THEN "good" ELSE "bad"
  ELSE "none"

\* The checksum is taken anew over a payload that shrank or stayed.
carry_payload_crc(old_sum, old_size, new_size) ==
  IF mm_payload_crc_live /\ old_sum # "none" /\ new_size <= old_size THEN "good" ELSE "none"

\* The block at `at` has room for need once the free block behind it is added.
Joinable(blocks, at, need) ==
  LET next == EndOf(blocks, at)
  IN  IsFree(blocks, next) /\ blocks[at].size + blocks[next].size >= need

\* realloc_unlocked: within the block, into the block behind it, or by moving.
realloc_unlocked(h, k, at, size, trim) ==
  LET blocks == h.spans[k].blocks
      b      == blocks[at]
      next   == EndOf(blocks, at)
      need   == mm_size_for(size)
      crc    == carry_payload_crc(b.crc, b.give, size)
      joined == [p \in DOMAIN blocks \ {next} |->
                   IF p = at THEN [b EXCEPT !.size = @ + blocks[next].size] ELSE blocks[p]]
      fitted(bs) == Finished(Split(bs, at, need), at, size, crc)
      within(bs) == {[h |-> [h EXCEPT !.spans[k] = Retiled(@, fitted(bs))],
                      k |-> k, at |-> at, lost |-> {}]}
      moved(y)   == free_unlocked([y.h EXCEPT !.spans[y.k].blocks[y.at].crc = crc], k, at, trim)
  IN  IF TooLarge(size) THEN {}
      ELSE IF b.size >= need THEN within(blocks)
      ELSE IF Joinable(blocks, at, need) THEN within(joined)
      ELSE {[h |-> moved(y).h, k |-> y.k, at |-> y.at, lost |-> moved(y).lost] :
              y \in malloc_unlocked(h, size)}

ReallocMayFail(h, k, at, size) ==
  \/ TooLarge(size)
  \/ /\ h.spans[k].blocks[at].size < mm_size_for(size)
     /\ ~Joinable(h.spans[k].blocks, at, mm_size_for(size))
     /\ MayFail(h, size)

\* memalign_unlocked: from a larger block, whose front and back are released.
AlignedAt(raw, align) ==
  Min({w \in raw .. raw + 2 * align + MM_MIN_BLOCK : w % align = 0 /\ w - raw >= MM_MIN_BLOCK})
    - MM_HDR_SIZE

Padded(align, size) ==
  IF align <= MM_ALIGNMENT THEN size ELSE size + 2 * align + MM_MIN_BLOCK

memalign_unlocked(h, align, size, trim) ==
  IF align <= MM_ALIGNMENT
  THEN {[h |-> y.h, k |-> y.k, at |-> y.at, lost |-> {}] : y \in malloc_unlocked(h, size)}
  ELSE {LET s     == y.h.spans[y.k]
            at    == AlignedAt(y.at + MM_HDR_SIZE, align)
            front == at - y.at
            cut   == [p \in DOMAIN s.blocks \cup {at} |->
                        IF p = y.at THEN [s.blocks[p] EXCEPT !.size = front]
                        ELSE IF p = at THEN UsedBlock(s.blocks[y.at].size - front, 0)
                        ELSE s.blocks[p]]
            given == Finished(Split(cut, at, mm_size_for(size)), at, size, "none")
            rest  == free_unlocked([y.h EXCEPT !.spans[y.k] = Retiled(s, given)], y.k, y.at, trim)
        IN  [h |-> rest.h, k |-> y.k, at |-> at, lost |-> rest.lost] :
        y \in malloc_unlocked(h, Padded(align, size))}

-------------------------------------------------------------------------------
(***************************************************************************)
(* The calls.                                                              *)
(***************************************************************************)
Becomes(h) == spans' = h.spans /\ fresh_spans' = h.fresh

Held == UNION {{<<k, at>> : at \in {p \in DOMAIN spans[k].blocks : spans[k].blocks[p].used}} :
               k \in DOMAIN spans}
BlockAt(p) == spans[p[1]].blocks[p[2]]

mm_malloc(size) ==
  /\ \/ \E y \in malloc_unlocked(Arena, size) : Becomes(Handed(y))
     \/ MayFail(Arena, size) /\ UNCHANGED arenaVars
  /\ seen' = Nothing
  /\ UNCHANGED mode

mm_memalign(align, size) ==
  /\ \/ \E trim \in BOOLEAN : \E y \in memalign_unlocked(Arena, align, size, trim) :
          Becomes(Handed(y)) /\ seen' = [Nothing EXCEPT !.lost = y.lost]
     \/ /\ MayFail(Arena, Padded(align, size))
        /\ seen' = Nothing
        /\ UNCHANGED arenaVars
  /\ UNCHANGED mode

mm_free(p) ==
  \E trim \in BOOLEAN :
    /\ LET r == free_unlocked(Arena, p[1], p[2], trim)
       IN  Becomes(r.h) /\ seen' = [Nothing EXCEPT !.lost = r.lost]
    /\ UNCHANGED mode

mm_realloc(p, size) ==
  /\ \/ \E trim \in BOOLEAN : \E y \in realloc_unlocked(Arena, p[1], p[2], size, trim) :
          Becomes(Handed(y)) /\ seen' = [Nothing EXCEPT !.lost = y.lost]
     \/ /\ ReallocMayFail(Arena, p[1], p[2], size)
        /\ seen' = Nothing
        /\ UNCHANGED arenaVars
  /\ UNCHANGED mode

\* The calloc of the shim: mm_malloc_fresh, and as much clearing as its answer
\* calls for.
calloc_block(total) ==
  /\ \/ \E y \in malloc_unlocked(Arena, total) :
          /\ Becomes(Handed(y))
          /\ seen' = [Nothing EXCEPT !.dirt =
               (Payload(y.at, total) \ Payload(y.at, y.prefix)) \cap y.h.spans[y.k].dirty]
     \/ /\ MayFail(Arena, total)
        /\ seen' = Nothing
        /\ UNCHANGED arenaVars
  /\ UNCHANGED mode

(***************************************************************************)
(* Modes and validated access.                                             *)
(***************************************************************************)
SetCrc(p, crc) == spans' = [spans EXCEPT ![p[1]].blocks[p[2]].crc = crc]

\* forget_payload_crcs
Forgotten ==
  [k \in DOMAIN spans |->
     [spans[k] EXCEPT !.blocks = [at \in DOMAIN @ |-> [@[at] EXCEPT !.crc = "none"]]]]

mm_set_mode(m) ==
  /\ mode' = m
  /\ spans' = IF mode # m /\ m = "libc" /\ MM_HAS_CRC THEN Forgotten ELSE spans
  /\ seen' = Nothing
  /\ UNCHANGED fresh_spans

\* A slip: the sum may wrap.
InRangeSum(offset, len, requested) == (offset + len) % (SizeMax + 1) <= requested

\* checked_block's range check, in unsigned arithmetic.
InRange(offset, len, requested) == offset <= requested /\ len <= requested - offset

\* Positions and lengths a caller may name, far out of range too.
Extents(p) == {0, 1, BlockAt(p).give, BlockAt(p).give + 1, SizeMax}

mm_write(p, offset, len) ==
  /\ IF InRange(offset, len, BlockAt(p).give)
     THEN /\ seen' = [Nothing EXCEPT !.wild =
               {w \in offset .. offset + len - 1 : w >= BlockAt(p).give}]
          /\ IF mm_payload_crc_live THEN SetCrc(p, "good") ELSE UNCHANGED spans
     ELSE seen' = Nothing /\ UNCHANGED spans
  /\ UNCHANGED <<fresh_spans, mode>>

\* A mismatch is taken for damage, and the block given up.
mm_read(p, offset, len) ==
  /\ seen' = [Nothing EXCEPT !.alarm = /\ InRange(offset, len, BlockAt(p).give)
                                       /\ BlockAt(p).crc = "bad"]
  /\ UNCHANGED <<arenaVars, mode>>

\* The program writes through a pointer, which it does under MM_MODE_LIBC only.
Store(p) ==
  /\ mode = "libc"
  /\ IF BlockAt(p).crc = "none" THEN UNCHANGED spans ELSE SetCrc(p, "bad")
  /\ seen' = Nothing
  /\ UNCHANGED <<fresh_spans, mode>>
===============================================================================
