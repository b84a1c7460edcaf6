------------------------------- MODULE FreeList -------------------------------
(***************************************************************************)
(* Size-classed free lists (mm_freelist.c, mm_freelist.h): the bins, their *)
(* bitmap, the hardened unlink, the rebuild from the tiling and the search.*)
(* The bins are doubly linked through the free blocks' own words.          *)
(***************************************************************************)
EXTENDS Block

CONSTANTS SmallBins,  \* MM_SMALL_BINS: exact classes, one per alignment unit
          Octave0,    \* MM_LARGE_OCTAVE0, for sizes counted in words
          BinCount,   \* MM_BIN_COUNT
          ScanCap     \* MM_BIN_SCAN_CAP

Bins == 0 .. BinCount - 1

MM_LARGE_MIN == MM_MIN_BLOCK + MM_ALIGNMENT * SmallBins

\* The static assertion of mm_freelist.h: the exact classes stop inside the
\* octave the log-spaced bins start from.
ASSUME BinGeometry ==
  /\ Words \in Nat /\ Words % MM_ALIGNMENT = 0 /\ Words >= MM_MIN_BLOCK
  /\ SmallBins \in Nat \ {0} /\ BinCount \in Nat /\ BinCount > SmallBins
  /\ Octave0 \in Nat /\ Octave0 >= 2
  /\ 2^Octave0 <= MM_LARGE_MIN /\ MM_LARGE_MIN < 2^(Octave0 + 1)
  /\ ScanCap \in Nat \ {0}

mm_floor_log2(n) == CHOOSE k \in 0 .. n : 2^k <= n /\ n < 2^(k + 1)

mm_bin_of(n) ==
  IF n < MM_LARGE_MIN
  THEN IF n <= MM_MIN_BLOCK THEN 0 ELSE (n - MM_MIN_BLOCK) \div MM_ALIGNMENT
  ELSE LET class(k)  == SmallBins + (k - Octave0) * 4 + ((n \div 2^(k - 2)) % 4)
           clamp(i)  == IF i < BinCount THEN i ELSE BinCount - 1
       IN  clamp(class(mm_floor_log2(n)))

\* The smallest non-empty bin at or above from, or BinCount.
next_nonempty(h, from) ==
  LET up == {j \in h.bitmap : j >= from}
  IN  IF up = {} THEN BinCount ELSE CHOOSE j \in up : \A i \in up : j <= i

MaxBlocks == Words \div MM_MIN_BLOCK + 1   \* mm_span_max_blocks

-------------------------------------------------------------------------------
(***************************************************************************)
(* Validation of a member of a bin.                                        *)
(***************************************************************************)
node_ok(h, b, bin) ==
  /\ mm_header_ok(h, b)
  /\ ~mm_is_used(h, b)
  /\ mm_bin_of(mm_block_size(h, b)) = bin

links_ok(h, b, bin) ==
  LET points_back(which) ==
        \A p \in {mm_free_link_get(h, b, which)} :
          IF p # NULL
          THEN node_ok(h, p, bin) /\ mm_free_link_get(h, p, 1 - which) = b
          ELSE which = MM_LINK_PREV => h.bins[bin] = b
  IN  /\ node_ok(h, b, bin)
      /\ \A which \in {MM_LINK_NEXT, MM_LINK_PREV} : points_back(which)

-------------------------------------------------------------------------------
(***************************************************************************)
(* Insert, rebuild and remove.                                             *)
(***************************************************************************)
bin_push(h, b, bin) ==
  LET head == h.bins[bin]
      linked == mm_free_link_set(mm_free_link_set(h, b, MM_LINK_NEXT, head),
                                 b, MM_LINK_PREV, NULL)
      behind(g) == IF head = NULL THEN g ELSE mm_free_link_set(g, head, MM_LINK_PREV, b)
  IN  [behind(linked) EXCEPT !.bins[bin] = b, !.bitmap = @ \cup {bin}]

mm_bins_reset(h) == [h EXCEPT !.bins = [i \in Bins |-> NULL], !.bitmap = {}]

\* Files every free block a walk of the tiling meets; stops at the first header
\* that does not stand up or, under "fast", whose tag disagrees with it.
mm_bins_rebuild(h) ==
  LET visit(w) ==
        LET b == w.p
        IN  IF b >= Words \/ ~mm_header_ok(w.h, b) THEN [w EXCEPT !.p = Words]
            ELSE IF mm_is_used(w.h, b) THEN [w EXCEPT !.p = mm_block_end(w.h, b)]
            ELSE IF ~mm_extent_corroborated(w.h, b)
                 THEN [h |-> mm_fail(w.h, "CORRUPT_LINKS"), p |-> Words]
            ELSE [h |-> bin_push(w.h, b, mm_bin_of(mm_block_size(w.h, b))),
                  p |-> mm_block_end(w.h, b)]
  IN  Iterate(visit, [h |-> mm_bins_reset(h), p |-> 0], MaxBlocks).h

mm_bin_insert(h, b) ==
  LET insert(bin) ==
        IF h.bins[bin] # NULL /\ ~node_ok(h, h.bins[bin], bin)
        THEN mm_bins_rebuild(mm_fail(h, "CORRUPT_LINKS"))
        ELSE bin_push(h, b, bin)
  IN  insert(mm_bin_of(mm_block_size(h, b)))

\* b leaves a bin whose list runs prev, b, next.
bypass(h, bin, prev, next) ==
  IF prev # NULL THEN mm_free_link_set(h, prev, MM_LINK_NEXT, next)
  ELSE [h EXCEPT !.bins[bin] = next,
                 !.bitmap = IF next = NULL THEN @ \ {bin} ELSE @]

relink(g, prev, next) ==
  IF next # NULL THEN mm_free_link_set(g, next, MM_LINK_PREV, prev) ELSE g

unlink_between(h, bin, prev, next) == relink(bypass(h, bin, prev, next), prev, next)

\* A slip: the last block leaves its bin and the bitmap still says it is there.
unlink_stale_bitmap(h, b, bin) ==
  [unlink_between(h, bin, mm_free_link_get(h, b, MM_LINK_PREV),
                  mm_free_link_get(h, b, MM_LINK_NEXT)) EXCEPT !.bitmap = h.bitmap]

unlink(h, b, bin) ==
  unlink_between(h, bin, mm_free_link_get(h, b, MM_LINK_PREV),
                 mm_free_link_get(h, b, MM_LINK_NEXT))

\* The second try, against rebuilt bins.  A block the rebuild did not reach has
\* its links cleared, unless the words they sit in are somebody's payload.
remove_rebuilt(g, b, bin) ==
  IF links_ok(g, b, bin) THEN unlink(g, b, bin)
  ELSE IF mm_is_used(g, b) THEN g
  ELSE mm_free_link_set(mm_free_link_set(g, b, MM_LINK_NEXT, NULL), b, MM_LINK_PREV, NULL)

\* A slip: the links are followed as they are.
mm_bin_remove_trusting(h, b) == unlink(h, b, mm_bin_of(mm_block_size(h, b)))

\* Damaged links are answered by a rebuild and one more try.
mm_bin_remove(h, b) ==
  LET remove(bin) ==
        IF links_ok(h, b, bin) THEN unlink(h, b, bin)
        ELSE remove_rebuilt(mm_bins_rebuild(mm_fail(h, "CORRUPT_LINKS")), b, bin)
  IN  remove(mm_bin_of(mm_block_size(h, b)))

-------------------------------------------------------------------------------
(***************************************************************************)
(* Search.  Both probes answer the block found, NULL, or Junk when the bin *)
(* turned out to be damaged.                                               *)
(***************************************************************************)
scan_bin(h, bin, need) ==
  LET visit(w) ==
        IF w.found # NULL \/ w.cur = NULL THEN w
        ELSE IF \/ ~node_ok(h, w.cur, bin)
                \/ mm_free_link_get(h, w.cur, MM_LINK_PREV) # w.back
             THEN [w EXCEPT !.found = Junk]
        ELSE IF mm_block_size(h, w.cur) >= need THEN [w EXCEPT !.found = w.cur]
        ELSE [w EXCEPT !.back = w.cur,
                       !.cur = mm_free_link_get(h, w.cur, MM_LINK_NEXT)]
  IN  Iterate(visit, [cur |-> h.bins[bin], back |-> NULL, found |-> NULL],
              ScanCap).found

bin_head(h, bin) ==
  LET vetted(b) == IF \/ b = NULL
                      \/ ~node_ok(h, b, bin)
                      \/ mm_free_link_get(h, b, MM_LINK_PREV) # NULL
                   THEN Junk ELSE b
  IN  vetted(h.bins[bin])

above(h, j) == IF j < BinCount THEN bin_head(h, j) ELSE NULL

\* A slip: the bin right above the request's own is passed over.
probe_skip_bin(h, need) ==
  LET found == scan_bin(h, mm_bin_of(need), need)
  IN  IF found # NULL THEN found ELSE above(h, next_nonempty(h, mm_bin_of(need) + 2))

\* One attempt: the request's own bin by scan, then the smallest bin above it.
probe(h, need) ==
  LET settle(found, bin) ==
        IF found # NULL THEN found ELSE above(h, next_nonempty(h, bin + 1))
      from(bin) == settle(scan_bin(h, bin, need), bin)
  IN  from(mm_bin_of(need))

\* The attempt against rebuilt bins; if that fails too they are rebuilt once
\* more and the search gives up.
find_rebuilt(g, found) ==
  IF found # Junk THEN [h |-> g, b |-> found]
  ELSE [h |-> mm_bins_rebuild(mm_fail(g, "CORRUPT_LINKS")), b |-> NULL]

retry_find(g, need) == find_rebuilt(g, probe(g, need))

first_find(h, need, found) ==
  IF found # Junk THEN [h |-> h, b |-> found]
  ELSE retry_find(mm_bins_rebuild(mm_fail(h, "CORRUPT_LINKS")), need)

mm_bin_find(h, need) == first_find(h, need, probe(h, need))

-------------------------------------------------------------------------------
(***************************************************************************)
(* mm_bins_check: the bins against what a walk of the tiling found.        *)
(***************************************************************************)
mm_bins_check(h, counts) ==
  LET visit(w) ==
        IF ~w.ok \/ w.cur = NULL THEN w
        ELSE IF \/ ~node_ok(h, w.cur, w.bin)
                \/ mm_free_link_get(h, w.cur, MM_LINK_PREV) # w.back
             THEN [w EXCEPT !.ok = FALSE]
        ELSE [w EXCEPT !.back = w.cur, !.seen = @ + 1,
                       !.cur = mm_free_link_get(h, w.cur, MM_LINK_NEXT)]
      list(i) == Iterate(visit, [bin |-> i, cur |-> h.bins[i], back |-> NULL,
                                 seen |-> 0, ok |-> TRUE], MaxBlocks)
      sound(i, w) == w.ok /\ w.cur = NULL /\ w.seen = counts[i]
  IN  IF \A i \in Bins : /\ (i \in h.bitmap) = (h.bins[i] # NULL)
                         /\ \A w \in {list(i)} : sound(i, w)
      THEN "OK" ELSE "CORRUPT_LINKS"
===============================================================================
