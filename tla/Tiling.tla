-------------------------------- MODULE Tiling --------------------------------
(***************************************************************************)
(* What the heap of one span promises: blocks tile the span exactly, every *)
(* call re-tiles it, two free blocks never stay side by side, and space    *)
(* the allocator gives up on stays where it is.                            *)
(*                                                                         *)
(* This is the implicit list of mm_core.c with everything that implements  *)
(* it left out: no headers, no checksums, no boundary tags and no bins.    *)
(* An address is counted in alignment units (MM_ALIGNMENT bytes) from the  *)
(* start of the span.  Which free block serves a request is left open; the *)
(* bins decide that, and Heap is shown to implement this module.           *)
(***************************************************************************)
EXTENDS Integers

CONSTANTS Units,     \* the length of the span, in alignment units
          MinBlock   \* MM_MIN_BLOCK, in alignment units

ASSUME GeometryAssumption ==
  /\ MinBlock \in Nat \ {0}
  /\ Units \in Nat
  /\ Units >= MinBlock

VARIABLE tiling  \* [st |-> state of the block at an address, sz |-> its extent]

Addr   == 0 .. Units - 1
Sizes  == MinBlock .. Units
States == {"none", "free", "used", "quar"}
Tilings == [st : [Addr -> States], sz : [Addr -> 0 .. Units]]

(***************************************************************************)
(* "none" is an address at which no block starts.                          *)
(***************************************************************************)
IsBlock(t, a) == a \in Addr /\ t.st[a] # "none"
IsFree(t, a)  == a \in Addr /\ t.st[a] = "free"
IsUsed(t, a)  == a \in Addr /\ t.st[a] = "used"
End(t, a)     == a + t.sz[a]

-------------------------------------------------------------------------------
(***************************************************************************)
(* The three ways a tiling changes.                                        *)
(***************************************************************************)

\* The block at a changes state and keeps its extent.
Mark(t, a, s) == [st |-> [t.st EXCEPT ![a] = s], sz |-> t.sz]

\* The block at a keeps n units; what is left becomes a block in state s.
Cut(t, a, n, s) ==
  [st |-> [t.st EXCEPT ![a + n] = s],
   sz |-> [t.sz EXCEPT ![a] = n, ![a + n] = t.sz[a] - n]]

\* The block at a swallows the block that follows it.
Fuse(t, a) ==
  [st |-> [t.st EXCEPT ![End(t, a)] = "none"],
   sz |-> [t.sz EXCEPT ![a] = t.sz[a] + t.sz[End(t, a)], ![End(t, a)] = 0]]

-------------------------------------------------------------------------------
(***************************************************************************)
(* The operations the allocator's calls are made of.                       *)
(***************************************************************************)

\* Slips: a neighbour is merged without looking at whose it is, or because it
\* is merely not allocated.
AbsorbNextUnchecked(t, a) == IF End(t, a) \in Addr THEN Fuse(t, a) ELSE t
AbsorbNextUnowned(t, a) ==
  IF End(t, a) \in Addr /\ ~IsUsed(t, End(t, a)) THEN Fuse(t, a) ELSE t

AbsorbNext(t, a) == IF IsFree(t, End(t, a)) THEN Fuse(t, a) ELSE t

\* The free blocks that end where a begins; there is at most one.
FreeBefore(t, a) == {p \in Addr : IsFree(t, p) /\ End(t, p) = a}

\* A slip: the backward half of coalescing is missing.
ReleaseForwardOnly(t, a) == Mark(AbsorbNext(t, a), a, "free")

\* absorb_neighbours then release_block: forwards first, then backwards.
Release(t, a) ==
  LET u == AbsorbNext(t, a)
  IN  IF FreeBefore(u, a) = {}
      THEN Mark(u, a, "free")
      ELSE Fuse(u, CHOOSE p \in FreeBefore(u, a) : TRUE)

\* A slip: a remainder too short to be a block is split off all the same.
TrimAnySurplus(t, a, need) ==
  IF t.sz[a] <= need
  THEN t
  ELSE Mark(AbsorbNext(Cut(t, a, need, "used"), a + need), a + need, "free")

\* split_block: the surplus over need goes back as free space, together with
\* the free block behind it if there is one.
Trim(t, a, need) ==
  IF t.sz[a] - need < MinBlock
  THEN t
  ELSE Mark(AbsorbNext(Cut(t, a, need, "used"), a + need), a + need, "free")

\* A free block leaves its place on the free lists and is cut to size.
Take(t, a, need) == Trim(Mark(t, a, "used"), a, need)

-------------------------------------------------------------------------------
\* A slip: the first block is given an extent beyond the end of the span.
InitUnrounded ==
  tiling = [st |-> [a \in Addr |-> IF a = 0 THEN "free" ELSE "none"],
            sz |-> [a \in Addr |-> IF a = 0 THEN Units + 1 ELSE 0]]

Init == tiling = [st |-> [a \in Addr |-> IF a = 0 THEN "free" ELSE "none"],
                  sz |-> [a \in Addr |-> IF a = 0 THEN Units ELSE 0]]

Alloc(a, need) ==
  /\ IsFree(tiling, a)
  /\ tiling.sz[a] >= need
  /\ tiling' = Take(tiling, a, need)

Free(a) ==
  /\ IsUsed(tiling, a)
  /\ tiling' = Release(tiling, a)

\* realloc where the block stands: shrunk, or grown over the free block behind.
Resize(a, need) ==
  /\ IsUsed(tiling, a)
  /\ LET g == IF tiling.sz[a] >= need THEN tiling ELSE AbsorbNext(tiling, a)
     IN  /\ g.sz[a] >= need
         /\ tiling' = Trim(g, a, need)

\* realloc by allocate, copy, release.
Move(a, b, need) ==
  /\ IsUsed(tiling, a)
  /\ IsFree(tiling, b)
  /\ tiling.sz[b] >= need
  /\ tiling' = Release(Take(tiling, b, need), a)

\* memalign: over-allocate, cut at the aligned address, trim the back half and
\* give the front half away.
AllocAligned(b, need) ==
  /\ IsFree(tiling, b)
  /\ \E whole \in MinBlock .. tiling.sz[b] :
       LET t == Take(tiling, b, whole)
       IN  \E front \in MinBlock .. t.sz[b] - need :
             tiling' = Release(Trim(Cut(t, b, front, "used"), b + front, need), b)

\* The allocator gives up on a block.
Quarantine(a) ==
  /\ IsFree(tiling, a) \/ IsUsed(tiling, a)
  /\ tiling' = Mark(tiling, a, "quar")

Next ==
  \E a \in Addr :
    \/ Free(a)
    \/ Quarantine(a)
    \/ \E need \in Sizes :
         \/ Alloc(a, need)
         \/ Resize(a, need)
         \/ AllocAligned(a, need)
         \/ \E b \in Addr : Move(a, b, need)

Spec == Init /\ [][Next]_tiling

-------------------------------------------------------------------------------
\* A state and an extent for every address of the span.
TypeOK == tiling \in Tilings

(***************************************************************************)
(* Blocks tile the span exactly.  Said locally, without a walk: a block    *)
(* starts at 0, every block ends where another starts or at the end of the *)
(* span, and no block starts inside another.                               *)
(***************************************************************************)
TiledFrom(t, a) ==
  /\ t.sz[a] >= MinBlock
  /\ End(t, a) = Units \/ IsBlock(t, End(t, a))
  /\ \A b \in Addr : a < b /\ b < End(t, a) => t.st[b] = "none"

Tiles(t) == /\ IsBlock(t, 0)
            /\ \A a \in Addr : IsBlock(t, a) => TiledFrom(t, a)

NoFreeNeighbours(t) ==
  \A a \in Addr : IsFree(t, a) => ~IsFree(t, End(t, a))

\* Blocks tile the span exactly after every call: no gap, no overlap, no block
\* shorter than MM_MIN_BLOCK.  It is what lets every walk in mm_integrity.c
\* step from block to block by extent alone.
Tiled == Tiles(tiling)

\* Two free blocks are never left side by side: absorb_neighbours merges in
\* both directions, so the arena does not fragment permanently.
Coalesced == NoFreeNeighbours(tiling)

\* Space the allocator gave up on is never merged and never handed out again.
QuarantineForever ==
  [][\A a \in Addr :
       tiling.st[a] = "quar" =>
         tiling'.st[a] = "quar" /\ tiling'.sz[a] = tiling.sz[a]]_tiling

\* A call disturbs at most one live block: the one it was called on.
OneBlockPerCall ==
  [][\E a \in Addr : \A b \in Addr \ {a} :
       tiling.st[b] = "used" =>
         tiling'.st[b] = "used" /\ tiling'.sz[b] = tiling.sz[b]]_tiling
===============================================================================
