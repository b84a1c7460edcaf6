------------------------------- MODULE Integrity ------------------------------
(***************************************************************************)
(* Publishing, quarantine, recovery from lost headers, the patrol and the  *)
(* consistency checks (mm_integrity.c) over one span.                      *)
(***************************************************************************)
EXTENDS FreeList

CONSTANTS Mode,           \* "managed" or "libc": mm_mode_t, fixed for a run
          ScrubInterval,  \* mm_set_scrub_interval: calls between two patrols
          ScrubBudget,    \* blocks one automatic patrol looks at
          RecoverySteps   \* MM_RECOVERY_STEPS

ASSUME PatrolConfiguration ==
  /\ Mode \in {"managed", "libc"}
  /\ ScrubInterval \in Nat /\ ScrubBudget \in Nat \ {0}
  /\ RecoverySteps \in Nat \ {0}

-------------------------------------------------------------------------------
(***************************************************************************)
(* Recovery primitives.                                                    *)
(***************************************************************************)

\* The seal and, on a free block, the boundary tag.
tag_and_seal(h, b) ==
  mm_seal(IF mm_is_used(h, b) THEN h ELSE mm_write_free_footer(h, b), b)

\* r is the heap and the block after b, or NULL: its PREV_IN_USE is brought into
\* agreement with b.
link_next(r, b) ==
  IF r.n # NULL /\ mm_prev_in_use(r.h, r.n) # mm_is_used(r.h, b)
  THEN mm_seal(mm_set_prev_in_use(r.h, r.n, mm_is_used(r.h, b)), r.n)
  ELSE r.h

next_if_ok(g, n) == [h |-> g, n |-> IF mm_header_ok(g, n) THEN n ELSE NULL]

\* What recovery itself uses: a neighbour that fails validation is left alone.
seal_and_link(h, b) ==
  link_next(next_if_ok(tag_and_seal(h, b), mm_block_end(h, b)), b)

tiling_agrees(h, b) ==
  \E end \in {mm_block_end(h, b)} :
    end = Words \/ (Words - end >= MM_MIN_BLOCK /\ mm_extent_corroborated(h, end))

\* A slip: the walk is truncated at the damage.
scan_resync_truncate(h, start) == NULL

\* The next address that carries a header which stands up and tiles with what
\* follows it, or NULL.
scan_resync(h, start) ==
  LET cands == {c \in Addr : /\ c >= start + MM_MIN_BLOCK
                             /\ Words - c >= MM_MIN_BLOCK
                             /\ (c - start) % MM_ALIGNMENT = 0
                             /\ c < start + MM_MIN_BLOCK + RecoverySteps * MM_ALIGNMENT
                             /\ mm_extent_corroborated(h, c)
                             /\ tiling_agrees(h, c)}
  IN  IF cands = {} THEN NULL ELSE CHOOSE c \in cands : \A d \in cands : c <= d

\* [start, start + span) becomes a block that exists only so the span keeps
\* tiling.
abandon(h, start, span, prev_used) ==
  IF span < MM_MIN_BLOCK THEN mm_fail(h, "CORRUPT_LINKS")
  ELSE mm_fail([seal_and_link(
                  mm_scrub_forget(NewWord(h, start, span, 0, TRUE, TRUE, prev_used),
                                  start, start + span),
                  start) EXCEPT !.lost = @ + span],
               "CORRUPT_LINKS")

\* The start of the block whose tail mirror ends at resync, or NULL when what
\* is there is not a mirror that belongs between lo_bound and resync.
mirror_says(h, lo_bound, resync) ==
  LET origin(w) ==
        IF /\ MM_HAS_MIRROR
           /\ w.used
           /\ w.size \in MM_MIN_BLOCK .. resync - lo_bound
           /\ (resync - w.size) % MM_ALIGNMENT = 0
           /\ At(h, resync - MM_MIRROR_SIZE + 1) = Crc(w, resync - w.size)
        THEN resync - w.size ELSE NULL
  IN  origin(Word(h, resync - MM_MIRROR_SIZE))

\* The mirror's copy goes back over the header at `at`.
restore(h, at, resync, prev_used) ==
  seal_and_link(Put(h, at, [Word(h, resync - MM_MIRROR_SIZE) EXCEPT !.prev = prev_used]),
                at)

surrender_end(resync) == IF resync # NULL THEN resync ELSE Words

\* Puts a header back from its mirror (ok), or surrenders the block's span.
rescue_at(h, b, resync, prev_used) ==
  IF resync # NULL /\ mirror_says(h, b, resync) = b
  THEN [h |-> mm_fail(restore(h, b, resync, prev_used), "CORRUPT_HEADER"), ok |-> TRUE]
  ELSE [h |-> abandon(h, b, surrender_end(resync) - b, prev_used), ok |-> FALSE]

mm_rescue(h, b) ==
  IF mm_header_ok(h, b) THEN [h |-> h, ok |-> TRUE]
  ELSE IF ~mm_is_block_start(b) THEN [h |-> h, ok |-> FALSE]
  ELSE rescue_at(h, b, scan_resync(h, b), mm_prev_in_use(h, b))

\* The lost block at start: rebuilt from its mirror; or the run up to the block
\* a mirror does describe is surrendered; or the run up to resync is.
surrender_run(h, start, end, used) ==
  [h |-> abandon(h, start, end - start, used),
   n |-> IF end - start < MM_MIN_BLOCK THEN NULL ELSE start]

recover_at(h, start, resync, used, at) ==
  IF at = start
  THEN [h |-> mm_fail(restore(h, start, resync, used), "CORRUPT_HEADER"), n |-> start]
  ELSE LET rebuilt == at # NULL /\ at - start >= MM_MIN_BLOCK
       IN  surrender_run(IF rebuilt THEN restore(h, at, resync, TRUE) ELSE h, start,
                         IF rebuilt THEN at ELSE surrender_end(resync), used)

recover_from(h, start, used, resync) ==
  recover_at(h, start, resync, used,
             IF resync = NULL THEN NULL ELSE mirror_says(h, start, resync))

\* The block that should follow owner: [h, n], n = NULL when nothing follows.
mm_recover_next(h, owner) ==
  LET follow(start) ==
        IF Words - start < MM_MIN_BLOCK THEN [h |-> h, n |-> NULL]
        ELSE IF mm_header_ok(h, start) THEN [h |-> h, n |-> start]
        ELSE recover_from(h, start, mm_is_used(h, owner), scan_resync(h, start))
  IN  follow(mm_block_end(h, owner))

-------------------------------------------------------------------------------
(***************************************************************************)
(* Publishing and quarantine.                                              *)
(***************************************************************************)

\* A slip: the successor is not told whether its predecessor is in use.
mm_publish_no_link(h, b) == [h |-> tag_and_seal(h, b), ok |-> TRUE]

\* The boundary tag, the seal and the successor's PREV_IN_USE; refused when the
\* recorded extent is not inside the span.
mm_publish(h, b) ==
  IF mm_is_block(h, b)
  THEN [h |-> link_next(mm_recover_next(tag_and_seal(h, b), b), b), ok |-> TRUE]
  ELSE [h |-> mm_rescue(mm_fail(h, "CORRUPT_HEADER"), b).h, ok |-> FALSE]

count_lost(pub, n) ==
  IF pub.ok THEN mm_fail([pub.h EXCEPT !.lost = @ + n], "QUARANTINED") ELSE pub.h

\* g is h with b out of its bin, if it was in one.
retire(h, g, b, n) ==
  IF mm_unchanged(g, b, n, mm_is_used(h, b))
  THEN count_lost(mm_publish(mm_set_word(g, b, n, 0, TRUE, TRUE), b), n)
  ELSE mm_rescue(mm_fail(g, "CORRUPT_LINKS"), b).h

\* The block stays in the tiling and is never handed out again.
mm_quarantine(h, b) ==
  IF ~mm_is_block_start(b) THEN h
  ELSE IF ~mm_header_ok(h, b) THEN mm_rescue(h, b).h
  ELSE IF mm_is_quarantined(h, b) THEN mm_fail(h, "QUARANTINED")
  ELSE retire(h, IF mm_is_used(h, b) THEN h ELSE mm_bin_remove(h, b), b,
              mm_block_size(h, b))

-------------------------------------------------------------------------------
(***************************************************************************)
(* The patrol.                                                             *)
(***************************************************************************)

\* One block: a broken canary quarantines it, a boundary tag is put back from
\* the extent the checksum vouches for.
scrub_block(h, b) ==
  IF ~mm_canary_ok(h, b)
  THEN [h |-> mm_quarantine(h, b), found |-> "CORRUPT_CANARY"]
  ELSE IF mm_is_used(h, b) \/ TagAt(h, mm_block_end(h, b) - 1) = mm_block_size(h, b)
  THEN [h |-> h, found |-> "OK"]
  ELSE [h |-> IF MM_HAS_CRC THEN mm_write_free_footer(h, b) ELSE h,
        found |-> "CORRUPT_LINKS"]

first_of(s, t) == IF s = "OK" THEN t ELSE s

\* A bounded lap from where the last patrol stopped.  The bound on iterations
\* is the number of blocks the span can hold, plus one for the single span.
scrub_past(w, p, s, found) ==
  [h |-> s.h, p |-> p + mm_block_size(s.h, p), visited |-> w.visited + 1,
   found |-> first_of(found, s.found)]

\* g is the heap after the header at p was rescued, if it had to be.
scrub_at(w, p, g, found) ==
  IF mm_header_ok(g, p) THEN scrub_past(w, p, scrub_block(g, p), found)
  ELSE [w EXCEPT !.h = g, !.p = 0, !.found = found]

\* The patrol rescues a header only if its recorded extent is legible.
scrub_turn(w, p) ==
  scrub_at(w, p, IF mm_is_block(w.h, p) THEN mm_rescue(w.h, p).h ELSE w.h,
           IF mm_header_ok(w.h, p) THEN w.found ELSE first_of(w.found, "CORRUPT_HEADER"))

scrub_end(w) == [w.h EXCEPT !.at = w.p, !.err = first_of(w.found, @)]

scrub_run(h, budget) ==
  LET turn(w) == IF w.visited >= budget THEN w
                 ELSE scrub_turn(w, IF w.p >= Words THEN 0 ELSE w.p)
      start == [h |-> h, p |-> IF h.at \in Addr THEN h.at ELSE 0,
                visited |-> 0, found |-> "OK"]
  IN  scrub_end(Iterate(turn, start, MaxBlocks + 1))

\* The last thing every public call does.
mm_scrub_tick(h) ==
  IF ScrubInterval = 0 THEN h
  ELSE IF h.tick + 1 < ScrubInterval THEN [h EXCEPT !.tick = @ + 1]
  ELSE scrub_run([h EXCEPT !.tick = 0], ScrubBudget)

-------------------------------------------------------------------------------
(***************************************************************************)
(* Pointers and checks.                                                    *)
(***************************************************************************)

\* The header a payload pointer belongs to: mm_block_of, NULL when the pointer
\* is not ours.
mm_block_of(h, ptr) ==
  LET b == ptr - MM_HDR_SIZE
  IN  IF /\ ptr \in Addr /\ ptr >= MM_HDR_SIZE
         /\ b % MM_ALIGNMENT = 0
         /\ mm_is_block(h, b)
      THEN b ELSE NULL

mm_verify(h, ptr) ==
  LET b == mm_block_of(h, ptr)
  IN  IF b = NULL THEN "INVALID_PTR"
      ELSE IF ~mm_header_ok(h, b) THEN "CORRUPT_HEADER"
      ELSE IF mm_is_quarantined(h, b) THEN "QUARANTINED"
      ELSE IF ~mm_canary_ok(h, b) THEN "CORRUPT_CANARY"
      ELSE IF Mode = "libc" THEN "DEGRADED"
      ELSE "OK"

\* A walk of the tiling: every block in step, PREV_IN_USE and the boundary tags
\* agreeing with it, no two free blocks adjacent, the surrendered extents adding
\* up to lost_bytes; then the bins against the free blocks seen.
mm_check_heap(h) ==
  LET visit(w) ==
        LET b == w.p
            n == mm_block_size(h, b)
            isfree == ~mm_is_used(h, b)
        IN  IF w.p >= Words \/ w.st # "OK" THEN w
            ELSE IF ~mm_header_ok(h, b) THEN [w EXCEPT !.st = "CORRUPT_HEADER"]
            ELSE IF mm_prev_in_use(h, b) # ~w.prev_free
                 THEN [w EXCEPT !.st = "CORRUPT_LINKS"]
            ELSE IF ~mm_canary_ok(h, b) THEN [w EXCEPT !.st = "CORRUPT_CANARY"]
            ELSE IF isfree /\ (TagAt(h, b + n - 1) # n \/ w.prev_free)
                 THEN [w EXCEPT !.st = "CORRUPT_LINKS"]
            ELSE [w EXCEPT
                    !.p = b + n,
                    !.prev_free = isfree,
                    !.lost = IF mm_is_quarantined(h, b) THEN @ + n ELSE @,
                    !.counts = IF isfree
                               THEN [@ EXCEPT ![mm_bin_of(n)] = @ + 1] ELSE @]
      start == [p |-> 0, st |-> "OK", prev_free |-> FALSE, lost |-> 0,
                counts |-> [j \in Bins |-> 0]]
      verdict(end) ==
        IF end.st # "OK" THEN end.st
        ELSE IF end.p # Words \/ end.lost # h.lost THEN "CORRUPT_LINKS"
        ELSE mm_bins_check(h, end.counts)
  IN  verdict(Iterate(visit, start, MaxBlocks))
===============================================================================
