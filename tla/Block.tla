-------------------------------- MODULE Block ---------------------------------
(***************************************************************************)
(* The memory of one span and the metadata of a block (mm_layout.h, and    *)
(* the validation half of mm_integrity.c).                                 *)
(*                                                                         *)
(* Memory is a function from word addresses (8 bytes each, counted from    *)
(* the span's lo) to cells.  A cell holds what was last written there, so  *)
(* a header that stopped being a block boundary is still in memory, sealed,*)
(* until something overwrites it.  Checksums are ideal: a "crc" cell holds *)
(* the control word and the block index it was computed over and vouches   *)
(* for exactly those.  Bytes the program wrote ("data") and zeroes decode  *)
(* as a control word of extent 0, as a tag of 0 and as a wild link.  The   *)
(* payload checksum travels in the "crc" cell and is not modelled here.    *)
(*                                                                         *)
(* Every operator that changes the heap takes it as the record h and       *)
(* returns it: h.mem, the bins and their bitmap, lost_bytes, the patrol's  *)
(* cursor and tick, the thread's status, and whether a write ever left the *)
(* span (wild).                                                            *)
(***************************************************************************)
EXTENDS Integers

CONSTANTS Words,          \* hi - lo of the span, in words
          MM_HAS_CRC,     \* the profile: "fast" has none of the three, "hardened"
          MM_HAS_CANARY,  \* checksums and canaries, "paranoid" header mirrors
          MM_HAS_MIRROR,  \* as well
          MM_HDR_SIZE,    \* the sizes mm_layout.h derives from the profile, in
          MM_TRAIL,       \* words: header, trailer and smallest block
          MM_MIN_BLOCK

\* F applied n times to x: the shape of every bounded walk in the allocator.
\* (The singleton set has each intermediate result computed once.)
Iterate(F(_), x, n) ==
  LET it[i \in 0 .. n] ==
        IF i = 0 THEN x ELSE CHOOSE r \in {F(v) : v \in {it[i - 1]}} : TRUE
  IN  it[n]

Addr  == 0 .. Words - 1
NULL  == -100   \* a null pointer
Junk  == -200   \* a pointer decoded from bytes nobody stored as one

MM_ALIGNMENT   == 2
MM_CANARY_SIZE == IF MM_HAS_CANARY THEN 1 ELSE 0
MM_MIRROR_SIZE == IF MM_HAS_MIRROR THEN MM_HDR_SIZE ELSE 0

mm_round_up(n, to) == ((n + to - 1) \div to) * to

\* A free block holds a header, two links and a boundary tag; an allocated one
\* a header, some payload and its trailer.
MM_FREE_MIN == MM_HDR_SIZE + 3
MM_USED_MIN == MM_HDR_SIZE + 1 + MM_TRAIL

ASSUME ProfileLayout ==
  /\ <<MM_HAS_CRC, MM_HAS_CANARY, MM_HAS_MIRROR>> \in
       {<<FALSE, FALSE, FALSE>>, <<TRUE, TRUE, FALSE>>, <<TRUE, TRUE, TRUE>>}
  /\ MM_HDR_SIZE = IF MM_HAS_CRC THEN 2 ELSE 1
  /\ MM_TRAIL = MM_CANARY_SIZE + MM_MIRROR_SIZE
  /\ MM_MIN_BLOCK = mm_round_up(IF MM_FREE_MIN > MM_USED_MIN THEN MM_FREE_MIN
                                ELSE MM_USED_MIN, MM_ALIGNMENT)

\* A slip: the trailer is left out of the block's extent.
mm_size_for_no_trailer(payload) ==
  LET need == mm_round_up(payload + MM_HDR_SIZE, MM_ALIGNMENT)
  IN  IF need < MM_MIN_BLOCK THEN MM_MIN_BLOCK ELSE need

mm_size_for(payload) ==
  LET need == mm_round_up(payload + MM_HDR_SIZE + MM_TRAIL, MM_ALIGNMENT)
  IN  IF need < MM_MIN_BLOCK THEN MM_MIN_BLOCK ELSE need

-------------------------------------------------------------------------------
(***************************************************************************)
(* Cells.                                                                  *)
(***************************************************************************)
Zero     == [k |-> "zero"]
Data(i)  == [k |-> "data", i |-> i]   \* the program's i-th payload word
NoWord   == [k |-> "word", size |-> 0, slack |-> 0, used |-> FALSE,
             quar |-> FALSE, prev |-> FALSE]
Link(p)  == [k |-> "link", to |-> p]
Tag(n)   == [k |-> "tag", n |-> n]
Canary(b)  == [k |-> "canary", at |-> b]
Crc(w, b)  == [k |-> "crc", of |-> w, at |-> b]

At(h, a) == IF a \in DOMAIN h.mem THEN h.mem[a] ELSE Zero

\* Every write of the allocator goes through Put, which notices one that would
\* land outside the span.
Put(h, a, c) ==
  IF a \in DOMAIN h.mem THEN [h EXCEPT !.mem[a] = c] ELSE [h EXCEPT !.wild = TRUE]

mm_fail(h, status) == [h EXCEPT !.err = status]

-------------------------------------------------------------------------------
(***************************************************************************)
(* The control word.                                                       *)
(***************************************************************************)
Decoded(c) == IF c.k = "word" THEN c ELSE NoWord
Word(h, b) == Decoded(At(h, b))

Field(c, f, none) == IF c.k = "word" THEN c[f] ELSE none

mm_block_size(h, b)     == Field(At(h, b), "size", 0)
mm_is_used(h, b)        == Field(At(h, b), "used", FALSE)
mm_prev_in_use(h, b)    == Field(At(h, b), "prev", FALSE)
mm_is_quarantined(h, b) == Field(At(h, b), "quar", FALSE)
mm_block_end(h, b)      == b + mm_block_size(h, b)
mm_payload_of(b)        == b + MM_HDR_SIZE

mm_requested_size(h, b) ==
  LET requested(w) == IF w.used /\ w.slack <= w.size - MM_HDR_SIZE
                      THEN w.size - MM_HDR_SIZE - w.slack ELSE 0
  IN  requested(Word(h, b))

mm_set_block_size(h, b, n) == Put(h, b, [Word(h, b) EXCEPT !.size = n])

mm_set_prev_in_use(h, b, used) == Put(h, b, [Word(h, b) EXCEPT !.prev = used])

\* PREV_IN_USE belongs to the neighbour on the left and survives.
mm_set_word(h, b, size, slack, used, quar) ==
  Put(h, b, [k |-> "word", size |-> size, slack |-> slack, used |-> used,
             quar |-> quar, prev |-> mm_prev_in_use(h, b)])

\* A header written where there was none: word = 0 and then the two setters.
NewWord(h, b, size, slack, used, quar, prev) ==
  Put(h, b, [k |-> "word", size |-> size, slack |-> slack, used |-> used,
             quar |-> quar, prev |-> prev])

-------------------------------------------------------------------------------
(***************************************************************************)
(* The free block's interior: two links at the front, a tag at the end.    *)
(***************************************************************************)
MM_LINK_NEXT == 0
MM_LINK_PREV == 1

mm_free_link_get(h, b, which) ==
  LET target(c) == IF c.k = "link" THEN c.to ELSE Junk
  IN  target(At(h, mm_payload_of(b) + which))

mm_free_link_set(h, b, which, p) == Put(h, mm_payload_of(b) + which, Link(p))

mm_write_free_footer(h, b) ==
  Put(h, mm_block_end(h, b) - 1, Tag(mm_block_size(h, b)))

TagAt(h, a) ==
  LET extent(c) == IF c.k = "tag" THEN c.n ELSE 0 IN extent(At(h, a))

mm_read_prev_footer(h, b) == TagAt(h, b - 1)

-------------------------------------------------------------------------------
(***************************************************************************)
(* Validation.                                                             *)
(***************************************************************************)
mm_is_block_start(b) ==
  b \in Addr /\ b % MM_ALIGNMENT = 0 /\ Words - b >= MM_MIN_BLOCK

mm_is_block(h, b) ==
  mm_is_block_start(b) /\ mm_block_size(h, b) \in MM_MIN_BLOCK .. Words - b

\* A slip: the header is believed if its extent is in bounds.
mm_header_ok_bounds(h, b) == mm_is_block(h, b)

mm_header_ok(h, b) ==
  /\ mm_is_block(h, b)
  /\ MM_HAS_CRC => At(h, b + 1) = Crc(At(h, b), b)

mm_extent_corroborated(h, b) ==
  /\ mm_header_ok(h, b)
  /\ \/ MM_HAS_CRC
     \/ mm_is_used(h, b)
     \/ TagAt(h, mm_block_end(h, b) - 1) = mm_block_size(h, b)

mm_unchanged(h, b, size, used) ==
  /\ mm_header_ok(h, b)
  /\ mm_block_size(h, b) = size
  /\ mm_is_used(h, b) = used

mm_write_canary(h, b) ==
  IF MM_HAS_CANARY
  THEN Put(h, mm_payload_of(b) + mm_requested_size(h, b), Canary(b))
  ELSE h

mm_canary_ok(h, b) ==
  \/ ~MM_HAS_CANARY
  \/ ~mm_is_used(h, b)
  \/ mm_is_quarantined(h, b)
  \/ At(h, mm_payload_of(b) + mm_requested_size(h, b)) = Canary(b)

\* A slip: the checksum is computed without the block's index.
mm_seal_unbound(h, b) ==
  IF MM_HAS_CRC THEN Put(h, b + 1, Crc(At(h, b), 0)) ELSE h

\* The header checksum and, on an allocated block under "paranoid", the copy of
\* the header in the block's last words.
mm_write_mirror(h, b, end) ==
  IF MM_HAS_MIRROR /\ mm_is_used(h, b)
  THEN Put(Put(h, end - 2, At(h, b)), end - 1, At(h, b + 1))
  ELSE h

\* A slip: the mirror is only as fresh as the last seal that thought of it.
mm_seal_no_mirror(h, b) ==
  IF MM_HAS_CRC THEN Put(h, b + 1, Crc(At(h, b), b)) ELSE h

mm_seal(h, b) ==
  mm_write_mirror(IF MM_HAS_CRC THEN Put(h, b + 1, Crc(At(h, b), b)) ELSE h,
                  b, mm_block_end(h, b))

\* The block before b, reached through its boundary tag.
mm_prev_free_block(h, b) ==
  LET before(n) ==
        IF /\ ~mm_prev_in_use(h, b)
           /\ n \in MM_MIN_BLOCK .. b /\ n % MM_ALIGNMENT = 0
           /\ mm_unchanged(h, b - n, n, FALSE)
        THEN b - n
        ELSE NULL
  IN  before(mm_read_prev_footer(h, b))

-------------------------------------------------------------------------------
(***************************************************************************)
(* Moves the patrol's cursor off boundaries that are about to vanish.      *)
(***************************************************************************)
mm_scrub_forget(h, from, to) ==
  IF h.at > from /\ h.at < to THEN [h EXCEPT !.at = from] ELSE h
===============================================================================
