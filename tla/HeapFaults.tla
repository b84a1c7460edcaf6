------------------------------ MODULE HeapFaults ------------------------------
(***************************************************************************)
(* The heap under soft errors: a word of the allocator's own metadata      *)
(* changes underneath it (docs/FAULT_MODEL.md).  The calls are those of    *)
(* Heap; nothing tells them that anything happened.                        *)
(***************************************************************************)
EXTENDS Heap

CONSTANT MaxHits   \* bound: soft errors in one behaviour

ASSUME FaultBound == MaxHits \in Nat

VARIABLE hit   \* what was struck: the word, and the block it belonged to
fvars == <<vars, hit>>

FInit == Init /\ hit = {}

-------------------------------------------------------------------------------
\* What a flipped bit can leave of a cell.  A control word keeps its shape with
\* one field wrong; anything else no longer reads as what it was.
Damaged(c) ==
  IF c.k # "word" THEN {Zero}
  ELSE {[c EXCEPT !.size = n] : n \in {0, MM_MIN_BLOCK, Words} \ {c.size}}
       \cup {[c EXCEPT !.used = ~@], [c EXCEPT !.prev = ~@]}

HeaderWords(b) == b .. b + MM_HDR_SIZE - 1

\* The words of block b the allocator keeps for itself: the header, a free
\* block's links and boundary tag, an allocated block's canary and mirror.
Metadata(h, b) ==
  LET end == mm_block_end(h, b)
  IN  HeaderWords(b)
      \cup IF mm_is_used(h, b)
           THEN (end - MM_MIRROR_SIZE .. end - 1)
                \cup {mm_payload_of(b) + mm_requested_size(h, b) : i \in 1 .. MM_CANARY_SIZE}
           ELSE {b + MM_HDR_SIZE, b + MM_HDR_SIZE + 1, end - 1}

\* A soft error strikes one metadata word of one block.
Strike ==
  /\ Cardinality(hit) < MaxHits
  /\ \E b \in Boundaries(heap) : \E a \in Metadata(heap, b) :
       \E c \in Damaged(heap.mem[a]) :
         /\ heap' = Put(heap, a, c)
         /\ hit' = hit \cup {[a |-> a, b |-> b, size |-> mm_block_size(heap, b),
                              used |-> mm_is_used(heap, b)]}
  /\ live' = live

Use ==
  /\ \/ \E size \in Requests, fill \in Fills : Malloc(size, fill)
     \/ \E l \in live : Free(l)
     \/ Scrub
  /\ hit' = hit

FNext == (Strike \/ Use) /\ tiling' = AbstractTiling(heap')

FSpec == FInit /\ [][FNext]_fvars

-------------------------------------------------------------------------------
Struck(l) == \E s \in hit : s.b = l.p - MM_HDR_SIZE

\* A soft error costs at most the block it struck: every other block the program
\* holds stays a block in use that verifies, with its contents, and no block a
\* walk of the span finds reaches into it: recovery leaves the tiling in step
\* (scan_resync, mm_recover_next).
NeighboursIntact ==
  \A at \in {Boundaries(heap)}, l \in {k \in live : ~Struck(k)} :
    LET b == l.p - MM_HDR_SIZE
    IN  /\ mm_is_used(heap, b)
        /\ mm_verify(heap, l.p) \in {"OK", "DEGRADED"}
        /\ \A i \in 0 .. l.w - 1 : heap.mem[l.p + i] = Data(i)
        /\ \A c \in at :
             c = b \/ mm_block_end(heap, c) <= b \/ mm_block_end(heap, b) <= c

\* No word is ever part of two blocks the program holds, header, payload and
\* trailer, whatever recovery made of the tiling.
LiveDisjoint ==
  \A l, m \in live :
    l # m => \/ l.p + l.req + MM_TRAIL <= m.p - MM_HDR_SIZE
             \/ m.p + m.req + MM_TRAIL <= l.p - MM_HDR_SIZE

\* What is surrendered for good is at most the block that was struck.
LossBounded == \A s \in hit : MaxHits = 1 => heap.lost <= s.size

\* Under "paranoid" a block in use whose header was struck is put back from its
\* mirror and nothing is surrendered, whatever was allocated, split, merged and
\* relinked before.  The last block of a span is excepted: the scan for the next
\* header finds none there and the mirror is not looked at.
InnerHeaderRepaired ==
  (\A s \in hit : s.used /\ s.a \in HeaderWords(s.b) /\ s.b + s.size # Words)
    => heap.lost = 0
===============================================================================
