--------------------------------- MODULE Heap ---------------------------------
(***************************************************************************)
(* Allocation, release and resizing in a caller-supplied arena: one fixed  *)
(* span, one thread at a time under its lock (mm_core.c).  A public call   *)
(* is one step: the arena's lock is held from mm_enter to mm_leave.        *)
(*                                                                         *)
(* heap is the arena and its memory; live is what the program holds, as    *)
(* the program sees it: the payload address it was given, the size it      *)
(* asked for and how many leading payload words it has written.            *)
(***************************************************************************)
EXTENDS Integrity, FiniteSets

CONSTANTS Requests,   \* sizes the program asks for, in words
          Fills,      \* {TRUE}, {FALSE} or both: does the program write to it
          Aligns,     \* alignments asked of mm_memalign, in words
          Base,       \* the absolute address of lo, in words
          MaxLive     \* bound: how many blocks the program holds at once

ASSUME ClientAssumption ==
  /\ Requests \subseteq Nat \ {0} /\ Fills \subseteq BOOLEAN /\ Fills # {}
  /\ Aligns \subseteq Nat /\ MaxLive \in Nat
  /\ Base \in Nat /\ (Base + MM_HDR_SIZE) % MM_ALIGNMENT = 0

VARIABLES heap,    \* g_arena and the span's memory
          live,    \* the program's holdings
          tiling   \* what a walk of the span finds, for the properties below
vars == <<heap, live, tiling>>

lesser(m, n) == IF m < n THEN m ELSE n

-------------------------------------------------------------------------------
(***************************************************************************)
(* Splitting and coalescing.                                               *)
(***************************************************************************)

\* g is h after n was taken out of its bin: which of the two blocks no longer is
\* what it was before that, if any.
given_up(h, g, b, n) ==
  IF ~mm_unchanged(g, b, mm_block_size(h, b), TRUE) THEN b
  ELSE IF ~mm_unchanged(g, n, mm_block_size(h, n), FALSE) THEN n
  ELSE NULL

surrender(g, x) == mm_fail(mm_quarantine(g, x), "CORRUPT_HEADER")

is_free_block(h, n) == mm_header_ok(h, n) /\ ~mm_is_used(h, n)

\* The free block next to b on one side, or NULL: behind it by its own extent,
\* in front of it through the boundary tag.
free_neighbour(h, b, side) ==
  IF side = "prev" THEN mm_prev_free_block(h, b)
  ELSE IF is_free_block(h, mm_block_end(h, b)) THEN mm_block_end(h, b)
  ELSE NULL

\* The lower of b and n takes over both extents, still in use, and is sealed; the
\* boundary between them is gone, for the patrol's cursor too.
run_word(h, g, b, n) ==
  LET total == mm_block_size(h, b) + mm_block_size(h, n)
  IN  IF b < n THEN mm_set_block_size(g, b, total)
      ELSE mm_set_word(g, n, total, MM_TRAIL, TRUE, FALSE)

\* A slip: the patrol's cursor is left where a boundary used to be.
fuse_keep_cursor(h, g, b, n) == mm_seal(run_word(h, g, b, n), lesser(b, n))

fuse(h, g, b, n) ==
  LET forgotten(u, front) == mm_scrub_forget(u, front, mm_block_end(u, front))
  IN  mm_seal(forgotten(run_word(h, g, b, n), lesser(b, n)), lesser(b, n))

\* The outcomes are [h, b]: b is the run so far, NULL when the block being
\* released stopped standing up.
merge(h, g, b, n, lostOne) ==
  IF lostOne = NULL THEN [h |-> fuse(h, g, b, n), b |-> lesser(b, n)]
  ELSE [h |-> surrender(g, lostOne), b |-> IF lostOne = b THEN NULL ELSE b]

unlinked(h, g, b, n) == merge(h, g, b, n, given_up(h, g, b, n))

\* A slip: the neighbour is merged while it stays in its bin.
absorb_binned(h, b, side) ==
  LET n == free_neighbour(h, b, side)
  IN  IF n = NULL THEN [h |-> h, b |-> b]
      ELSE [h |-> fuse(h, h, b, n), b |-> lesser(b, n)]

\* Merges b with the free block on one side of it.
absorb(h, b, side) ==
  LET take(n) == IF n = NULL THEN [h |-> h, b |-> b]
                 ELSE unlinked(h, mm_bin_remove(h, n), b, n)
  IN  take(free_neighbour(h, b, side))

\* Forwards first, then backwards unless b was given up on the way.
absorb_neighbours(h, b) ==
  LET and_then(w) == IF w.r.b = NULL THEN w
                     ELSE [r |-> absorb(w.r.h, w.r.b, w.side), side |-> "prev"]
  IN  Iterate(and_then, [r |-> [h |-> h, b |-> b], side |-> "next"], 2).r

\* Marks the run free, publishes it and files it.
file(pub, b) == IF pub.ok THEN mm_bin_insert(pub.h, b) ELSE pub.h

release_block(h, b) ==
  file(mm_publish(mm_set_word(h, b, mm_block_size(h, b), 0, FALSE, FALSE), b), b)

release_run(r) == IF r.b = NULL THEN r.h ELSE release_block(r.h, r.b)

coalesce_and_release(h, b) == release_run(absorb_neighbours(h, b))

\* b is cut to need and sealed; the tail is born in use.
cut(h, b, need, tail) ==
  mm_seal(NewWord(mm_seal(mm_set_block_size(h, b, need), b),
                  tail, mm_block_size(h, b) - need, MM_TRAIL, TRUE, FALSE, TRUE),
          tail)

\* A slip: the remainder is released without looking at the block behind it.
split_block_no_merge(h, b, need) ==
  IF mm_block_size(h, b) - need < MM_MIN_BLOCK THEN h
  ELSE release_block(cut(h, b, need, b + need), b + need)

\* A slip: a remainder too small to be a block is split off all the same.
split_block_any_leftover(h, b, need) ==
  coalesce_and_release(cut(h, b, need, b + need), b + need)

\* Trims b to need; the tail absorbs the block behind it and is released.
split_block(h, b, need) ==
  IF mm_block_size(h, b) - need < MM_MIN_BLOCK THEN h
  ELSE coalesce_and_release(cut(h, b, need, b + need), b + need)

\* Stamps b as holding size words for the caller.  Under "libc" the payload is
\* the whole block less its trailer.
finish_allocation(h, b, size) ==
  LET total == mm_block_size(h, b)
      give  == IF Mode = "libc" THEN total - MM_HDR_SIZE - MM_TRAIL ELSE size
  IN  mm_publish(mm_write_canary(
                   mm_set_word(h, b, total, total - MM_HDR_SIZE - give, TRUE, FALSE), b),
                 b)

\* Trimmed to the request and handed out: the payload, unless publishing was
\* refused.
hand_out(pub, b) == [h |-> pub.h, p |-> IF pub.ok THEN mm_payload_of(b) ELSE NULL]

serve(h, b, size) ==
  hand_out(finish_allocation(split_block(h, b, mm_size_for(size)), b, size), b)

-------------------------------------------------------------------------------
(***************************************************************************)
(* The calls.  Each answers [h, p]: the heap after it and the payload      *)
(* address returned, or NULL.                                              *)
(***************************************************************************)
failed(h, status) == [h |-> mm_fail(h, status), p |-> NULL]

\* The call's turn of the patrol, the last thing it does.
ticked(r) == [r EXCEPT !.h = mm_scrub_tick(@)]

\* g is the heap with the block found out of its bin.
carve(f, g, size) ==
  LET n == mm_block_size(f.h, f.b)
  IN  IF mm_unchanged(g, f.b, n, FALSE)
      THEN serve(mm_seal(mm_set_word(g, f.b, n, 0, TRUE, FALSE), f.b), f.b, size)
      ELSE failed(mm_quarantine(g, f.b), "CORRUPT_LINKS")

take_found(f, size) ==
  IF f.b = NULL THEN failed(f.h, "NOMEM")
  ELSE carve(f, mm_bin_remove(f.h, f.b), size)

\* The fixed arena is not growable, so the bins are all there is.
malloc_unlocked(h, size) ==
  IF size = 0 THEN failed(h, "NOMEM")
  ELSE ticked(take_found(mm_bin_find(mm_fail(h, "OK"), mm_size_for(size)), size))

\* The block behind a caller's pointer, rescued if it needs to be: [h, b].
if_not_quarantined(r, b) ==
  IF ~r.ok THEN [h |-> r.h, b |-> NULL]
  ELSE IF mm_is_quarantined(r.h, b) THEN [h |-> mm_fail(r.h, "QUARANTINED"), b |-> NULL]
  ELSE [h |-> r.h, b |-> b]

live_block(h, ptr) ==
  LET b == mm_block_of(h, ptr)
  IN  IF b = NULL THEN [h |-> mm_fail(h, "INVALID_PTR"), b |-> NULL]
      ELSE if_not_quarantined(mm_rescue(h, b), b)

free_block(lb) ==
  IF lb.b = NULL THEN lb.h
  ELSE IF ~mm_is_used(lb.h, lb.b) THEN mm_fail(lb.h, "DOUBLE_FREE")
  ELSE IF ~mm_canary_ok(lb.h, lb.b) THEN mm_quarantine(lb.h, lb.b)
  ELSE mm_scrub_tick(coalesce_and_release(lb.h, lb.b))

free_unlocked(h, ptr) == free_block(live_block(mm_fail(h, "OK"), ptr))

\* The surviving words follow the program to the fresh block, then the old one
\* is released.
copy(h, from, to, n) ==
  [h EXCEPT !.mem = [a \in Addr |-> IF a - to \in 0 .. n - 1
                                    THEN At(h, from + (a - to)) ELSE h.mem[a]]]

\* A slip: the old block is released before its contents are copied.
move_free_first(fresh, ptr, carry) ==
  IF fresh.p = NULL THEN fresh
  ELSE [h |-> copy(free_unlocked(fresh.h, ptr), ptr, fresh.p, carry), p |-> fresh.p]

move(fresh, ptr, carry) ==
  IF fresh.p = NULL THEN fresh
  ELSE [h |-> free_unlocked(mm_seal(copy(fresh.h, ptr, fresh.p, carry),
                                    fresh.p - MM_HDR_SIZE), ptr),
        p |-> fresh.p]

\* r is b's own extent, or b after it took over its neighbour; when either of the
\* two stopped standing up there is less than need and the call fails.
resize_within(r, b, size) ==
  IF r.b = NULL \/ mm_block_size(r.h, b) < mm_size_for(size)
  THEN [h |-> r.h, p |-> NULL] ELSE ticked(serve(r.h, b, size))

\* What b can become without moving: own words now, or with the free block n.
reach(h, own, n) == IF is_free_block(h, n) THEN own + mm_block_size(h, n) ELSE own

\* Shrinks where it stands, grows over the free block behind, or moves.
resize(h, b, ptr, size) ==
  LET need == mm_size_for(size)
      own  == mm_block_size(h, b)
  IN  IF ~mm_is_used(h, b) THEN failed(h, "DOUBLE_FREE")
      ELSE IF ~mm_canary_ok(h, b) THEN [h |-> mm_quarantine(h, b), p |-> NULL]
      ELSE IF own >= need \/ reach(h, own, b + own) >= need
           THEN resize_within(IF own >= need THEN [h |-> h, b |-> b] ELSE absorb(h, b, "next"),
                              b, size)
      ELSE move(malloc_unlocked(h, size), ptr,
                lesser(mm_requested_size(h, b), size))

resize_live(lb, ptr, size) ==
  IF lb.b = NULL THEN [h |-> lb.h, p |-> NULL] ELSE resize(lb.h, lb.b, ptr, size)

\* Of a pointer and a size that are not 0: mm_realloc(NULL, n) is mm_malloc and
\* mm_realloc(p, 0) is mm_free.
realloc_unlocked(h, ptr, size) ==
  resize_live(live_block(mm_fail(h, "OK"), ptr), ptr, size)

\* How far into a payload at p the caller's aligned payload may start: the first
\* aligned address that leaves room for a block in front of it.
aligned_offset(p, align) ==
  LET up == mm_round_up(Base + p, align) - (Base + p)
      ok == {f \in {up + i * align : i \in 0 .. MM_MIN_BLOCK} : f >= MM_MIN_BLOCK}
  IN  CHOOSE f \in ok : \A g \in ok : f <= g

give_front(pub, b, tail) ==
  IF pub.ok THEN [h |-> coalesce_and_release(pub.h, b), p |-> mm_payload_of(tail)]
  ELSE [h |-> pub.h, p |-> NULL]

cut_aligned(raw, b, front, size) ==
  IF front + mm_size_for(size) > mm_block_size(raw.h, b)
  THEN failed(free_unlocked(raw.h, raw.p), "NOMEM")
  ELSE ticked(give_front(finish_allocation(
                           split_block(cut(raw.h, b, front, b + front), b + front,
                                       mm_size_for(size)),
                           b + front, size),
                         b, b + front))

align_within(raw, align, size) ==
  IF align <= MM_ALIGNMENT \/ raw.p = NULL \/ ~mm_is_block(raw.h, raw.p - MM_HDR_SIZE)
  THEN raw
  ELSE cut_aligned(raw, raw.p - MM_HDR_SIZE, aligned_offset(raw.p, align), size)

\* Over-allocates, cuts the block at the aligned address, trims the back half
\* for the caller and gives the front half away.
memalign_unlocked(h, align, size) ==
  align_within(malloc_unlocked(h, IF align <= MM_ALIGNMENT THEN size
                                  ELSE size + 2 * align + MM_MIN_BLOCK),
               align, size)

mm_scrub(h, budget) == scrub_run(mm_fail(h, "OK"), budget)

-------------------------------------------------------------------------------
(***************************************************************************)
(* The tiling, as a walk from lo finds it.                                 *)
(***************************************************************************)
Boundaries(h) ==
  LET visit(w) ==
        IF w.p >= Words \/ ~mm_header_ok(h, w.p) THEN w
        ELSE [p |-> mm_block_end(h, w.p), at |-> w.at \cup {w.p}]
  IN  Iterate(visit, [p |-> 0, at |-> {}], MaxBlocks).at

BlockState(h, b) == IF mm_is_quarantined(h, b) THEN "quar"
                    ELSE IF mm_is_used(h, b) THEN "used" ELSE "free"

AbstractTiling(h) ==
  LET tile(at) ==
        LET start(u) == u * MM_ALIGNMENT \in at
            units    == 0 .. (Words \div MM_ALIGNMENT) - 1
        IN  [st |-> [u \in units |->
                       IF start(u) THEN BlockState(h, u * MM_ALIGNMENT) ELSE "none"],
             sz |-> [u \in units |->
                       IF start(u) THEN mm_block_size(h, u * MM_ALIGNMENT) \div MM_ALIGNMENT
                       ELSE 0]]
  IN  Iterate(tile, Boundaries(h), 1)

-------------------------------------------------------------------------------
(***************************************************************************)
(* The arena as mm_init leaves it: cleared, one free block, in its bin.    *)
(***************************************************************************)
mm_init ==
  LET z == [mem |-> [a \in Addr |-> Zero], bins |-> [i \in Bins |-> NULL],
            bitmap |-> {}, lost |-> 0, at |-> 0, tick |-> 0, err |-> "OK",
            wild |-> FALSE]
  IN  mm_bin_insert(mm_publish(NewWord(z, 0, Words, 0, FALSE, FALSE, TRUE), 0).h, 0)

Init == heap = mm_init /\ live = {} /\ tiling = AbstractTiling(mm_init)

\* What the program may write to: what it asked for or, under "libc", what
\* mm_usable_size reports.
granted(h, p, size) ==
  IF Mode = "libc" THEN mm_requested_size(h, p - MM_HDR_SIZE) ELSE size

\* The program stores into every word of its payload.
store(h, p, n) ==
  [h EXCEPT !.mem = [a \in Addr |-> IF a - p \in 0 .. n - 1 THEN Data(a - p) ELSE h.mem[a]]]

\* The program receives the answer r to a request and perhaps writes to it; kept
\* words of its contents came along.
Receive(r, others, size, align, kept, fill) ==
  IF r.p = NULL THEN heap' = r.h /\ live' = live
  ELSE LET n == granted(r.h, r.p, size)
       IN  /\ heap' = IF fill THEN store(r.h, r.p, n) ELSE r.h
           /\ live' = others \cup {[p |-> r.p, req |-> n, align |-> align,
                                    w |-> IF fill THEN n ELSE kept]}

Malloc(size, fill) ==
  /\ Cardinality(live) < MaxLive
  /\ Receive(malloc_unlocked(heap, size), live, size, MM_ALIGNMENT, 0, fill)

Memalign(align, size, fill) ==
  /\ Cardinality(live) < MaxLive
  /\ Receive(memalign_unlocked(heap, align, size), live, size, align, 0, fill)

Free(l) == /\ heap' = free_unlocked(heap, l.p)
           /\ live' = live \ {l}

Realloc(l, size) ==
  Receive(realloc_unlocked(heap, l.p, size), live \ {l}, size, MM_ALIGNMENT,
          lesser(l.w, size), FALSE)

Scrub == /\ heap' = mm_scrub(heap, ScrubBudget)
         /\ live' = live

Call ==
  \/ \E size \in Requests, fill \in Fills :
       \/ Malloc(size, fill)
       \/ \E align \in Aligns : Memalign(align, size, fill)
  \/ \E l \in live : Free(l) \/ \E size \in Requests : Realloc(l, size)
  \/ Scrub

Next == Call /\ tiling' = AbstractTiling(heap')

Spec == Init /\ [][Next]_vars

T == INSTANCE Tiling WITH Units    <- Words \div MM_ALIGNMENT,
                          MinBlock <- MM_MIN_BLOCK \div MM_ALIGNMENT

-------------------------------------------------------------------------------
Statuses == {"OK", "INVALID_PTR", "CORRUPT_HEADER", "CORRUPT_CANARY",
             "CORRUPT_LINKS", "DOUBLE_FREE", "NOMEM", "QUARANTINED"}

\* Every cell holds what some writer of mm_layout.h stores; a recorded extent and
\* its slack fit the span and the block; the cursor and the bins stay inside it.
TypeOK ==
  /\ \A a \in Addr : heap.mem[a].k \in {"zero", "data", "word", "crc", "link",
                                        "tag", "canary"}
  /\ \A a \in Addr : heap.mem[a].k = "word" =>
       /\ heap.mem[a].size \in MM_MIN_BLOCK .. Words
       /\ heap.mem[a].slack \in 0 .. heap.mem[a].size - MM_HDR_SIZE
  /\ heap.bins \in [Bins -> Addr \cup {NULL}]
  /\ heap.bitmap \subseteq Bins
  /\ heap.lost \in 0 .. Words
  /\ heap.at \in 0 .. Words
  /\ heap.err \in Statuses
  /\ \A l \in live : l.p \in Addr /\ l.w <= l.req

\* The allocator's own consistency check never finds anything in a program that
\* uses it correctly: after every call the tiling, the PREV_IN_USE bits, the
\* boundary tags, the canaries, lost_bytes, the bins and the bitmap all agree.
HeapConsistent == mm_check_heap(heap) = "OK"

\* Every block the program holds is a block of the tiling, verifies, records
\* exactly the size asked for, lies inside its block before the trailer, and is
\* aligned as asked.
LiveIntact ==
  \A l \in live :
    LET b == l.p - MM_HDR_SIZE
    IN  /\ b \in Boundaries(heap)
        /\ mm_is_used(heap, b)
        /\ mm_verify(heap, l.p) \in {"OK", "DEGRADED"}
        /\ mm_requested_size(heap, b) = l.req
        /\ l.p + l.req + MM_TRAIL <= mm_block_end(heap, b)
        /\ (Base + l.p) % l.align = 0

\* No call changes a word the program wrote to a payload it still holds, whoever
\* the call was for; a resize carries the surviving words along.
ContentsKept ==
  \A l \in live : \A i \in 0 .. l.w - 1 : heap.mem[l.p + i] = Data(i)

\* No write of the allocator ever lands outside the span.
NoWildWrite == ~heap.wild

\* Between calls the patrol's cursor is at a block boundary or at the end of the
\* span: mm_scrub_forget moved it off every boundary that stopped being one.
CursorOnBoundary == heap.at \in Boundaries(heap) \cup {Words}

\* A request is refused exactly when no free block can hold it, and the block
\* the bins answer with is a free block that does.
FitFound ==
  \A size \in Requests :
    LET need == mm_size_for(size)
        fits == {b \in Boundaries(heap) :
                   ~mm_is_used(heap, b) /\ mm_block_size(heap, b) >= need}
        f    == mm_bin_find(heap, need).b
    IN  IF fits = {} THEN f = NULL ELSE f \in fits

\* Every call re-tiles the span the way Tiling allows.
ImplementsTiling == T!Spec
===============================================================================
