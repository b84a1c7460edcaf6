----------------------------- MODULE TilingProofs -----------------------------
(***************************************************************************)
(* The tiling's properties for every span and every smallest block.        *)
(*                                                                         *)
(* The inductive invariant is Good: well typed, tiled and coalesced.  Each *)
(* operator of Tiling keeps it and leaves every block in use or in         *)
(* quarantine alone, but for the one it works on (Keeps); a call is a      *)
(* composition of those operators.                                         *)
(***************************************************************************)
EXTENDS Tiling, TLAPS

Good(t) == t \in Tilings /\ Tiles(t) /\ NoFreeNeighbours(t)

Taken == {"used", "quar"}

\* From t to u no block in use or in quarantine changes, except the one at a.
Keeps(t, u, a) ==
  \A b \in Addr \ {a} :
    t.st[b] \in Taken => u.st[b] = t.st[b] /\ u.sz[b] = t.sz[b]

-------------------------------------------------------------------------------
(***************************************************************************)
(* Marking, cutting and fusing.                                            *)
(***************************************************************************)

\* A block ends inside the span or at its end.
LEMMA EndInSpan ==
  ASSUME NEW t \in Tilings, Tiles(t), NEW a \in Addr, IsBlock(t, a)
  PROVE  /\ End(t, a) \in 0 .. Units
         /\ a + MinBlock <= End(t, a)
         /\ End(t, a) # Units => IsBlock(t, End(t, a))
  BY GeometryAssumption DEF Tilings, Tiles, TiledFrom, IsBlock, End, Addr

\* Blocks do not overlap: one that starts earlier ends before the other starts.
LEMMA BlocksApart ==
  ASSUME NEW t \in Tilings, Tiles(t),
         NEW a \in Addr, IsBlock(t, a), NEW b \in Addr, IsBlock(t, b), a < b
  PROVE  End(t, a) <= b
  BY GeometryAssumption DEF Tilings, Tiles, TiledFrom, IsBlock, End, Addr

\* Changing a block's state does not change the tiling.
LEMMA MarkTiles ==
  ASSUME NEW t \in Tilings, Tiles(t), NEW a \in Addr, IsBlock(t, a),
         NEW s \in States \ {"none"}
  PROVE  /\ Mark(t, a, s) \in Tilings
         /\ Tiles(Mark(t, a, s))
         /\ Mark(t, a, s).sz = t.sz
         /\ Mark(t, a, s).st[a] = s
         /\ \A b \in Addr \ {a} : Mark(t, a, s).st[b] = t.st[b]
  BY GeometryAssumption DEF Tilings, Tiles, TiledFrom, IsBlock, End, Addr, Mark, States

\* Both halves of a cut are long enough to be blocks, so the cut tiles.
LEMMA CutTiles ==
  ASSUME NEW t \in Tilings, Tiles(t), NEW a \in Addr, IsBlock(t, a),
         NEW n \in MinBlock .. (t.sz[a] - MinBlock), NEW s \in States \ {"none"}
  PROVE  /\ a + n \in Addr
         /\ t.st[a + n] = "none"
         /\ Cut(t, a, n, s) \in Tilings
         /\ Tiles(Cut(t, a, n, s))
         /\ \A b \in Addr \ {a + n} : Cut(t, a, n, s).st[b] = t.st[b]
         /\ \A b \in Addr \ {a, a + n} : Cut(t, a, n, s).sz[b] = t.sz[b]
         /\ Cut(t, a, n, s).st[a + n] = s
         /\ Cut(t, a, n, s).sz[a] = n
         /\ Cut(t, a, n, s).sz[a + n] = t.sz[a] - n
<1>0. /\ t.sz[a] \in 0 .. Units /\ n \in 0 .. Units /\ t.sz[a] - n \in 0 .. Units
      /\ n >= MinBlock /\ n <= t.sz[a] - MinBlock
  BY GeometryAssumption DEF Addr, Tilings
<1>1. a + n \in Addr /\ a + n > a /\ a + n < End(t, a)
  BY <1>0, EndInSpan, GeometryAssumption DEF End, Addr
<1>2. t.st[a + n] = "none"
  BY <1>1 DEF Tiles, TiledFrom
<1>3. Cut(t, a, n, s) \in Tilings
  BY <1>0, <1>1, SMTT(30) DEF Cut, Tilings
<1> DEFINE u == Cut(t, a, n, s)
<1>4. /\ \A b \in Addr \ {a + n} : u.st[b] = t.st[b]
      /\ \A b \in Addr \ {a, a + n} : u.sz[b] = t.sz[b]
      /\ u.st[a + n] = s /\ u.sz[a] = n /\ u.sz[a + n] = t.sz[a] - n
  <2>1. u.st = [t.st EXCEPT ![a + n] = s] /\ t.st \in [Addr -> States]
    BY DEF Cut, Tilings
  <2>2. /\ u.sz = [t.sz EXCEPT ![a] = n, ![a + n] = t.sz[a] - n]
        /\ t.sz \in [Addr -> 0 .. Units]
    BY DEF Cut, Tilings
  <2>3. a # a + n
    BY <1>0, <1>1 DEF Addr
  <2>4. QED
    BY <2>1, <2>2, <2>3, <1>1
<1> HIDE DEF u
<1>5. IsBlock(u, 0)
  BY <1>1, <1>4 DEF IsBlock, Tiles, Addr
<1>6. ASSUME NEW b \in Addr, IsBlock(u, b)
      PROVE  TiledFrom(u, b)
  <2>1. CASE b = a
    BY <2>1, <1>0, <1>1, <1>4, GeometryAssumption DEF TiledFrom, Tiles, IsBlock, End, Addr, States
  <2>2. CASE b = a + n
    BY <2>2, <1>0, <1>1, <1>4, GeometryAssumption DEF TiledFrom, Tiles, IsBlock, End, Addr, States
  <2>3. CASE b # a /\ b # a + n
    <3>1. IsBlock(t, b) /\ End(u, b) = End(t, b) /\ TiledFrom(t, b)
      BY <2>3, <1>4, <1>6 DEF IsBlock, End, Tiles
    <3>2. ~(b < a + n /\ a + n < End(t, b))
      <4>1. CASE b < a
        BY <4>1, <3>1, <1>0, <1>1, BlocksApart, EndInSpan DEF Addr
      <4>2. CASE a < b
        BY <4>2, <3>1, <1>0, <1>1, BlocksApart, EndInSpan DEF Addr
      <4>3. QED
        BY <4>1, <4>2, <2>3 DEF Addr
    <3>3. QED
      BY <3>1, <3>2, <2>3, <1>1, <1>4 DEF TiledFrom, IsBlock, End, States
  <2>4. QED
    BY <2>1, <2>2, <2>3
<1>7. QED
  <2>1. Tiles(u)
    BY <1>5, <1>6 DEF Tiles
  <2>2. QED
    BY <1>1, <1>2, <1>3, <1>4, <2>1 DEF u

\* Two blocks side by side can be made one.
LEMMA FuseTiles ==
  ASSUME NEW t \in Tilings, Tiles(t), NEW a \in Addr, IsBlock(t, a),
         IsBlock(t, End(t, a))
  PROVE  /\ End(t, a) \in Addr /\ End(t, a) # a
         /\ Fuse(t, a) \in Tilings
         /\ Tiles(Fuse(t, a))
         /\ End(Fuse(t, a), a) = End(t, End(t, a))
         /\ \A b \in Addr \ {End(t, a)} : Fuse(t, a).st[b] = t.st[b]
         /\ \A b \in Addr \ {a, End(t, a)} : Fuse(t, a).sz[b] = t.sz[b]
         /\ Fuse(t, a).st[End(t, a)] = "none"
<1> DEFINE e == End(t, a)
           u == Fuse(t, a)
<1>1. /\ e \in Addr /\ a < e /\ e = a + t.sz[a]
      /\ t.sz[a] \in 0 .. Units /\ t.sz[e] \in 0 .. Units
  BY EndInSpan, GeometryAssumption DEF Addr, Tilings, End, IsBlock
<1>2. End(t, e) \in 0 .. Units /\ e < End(t, e) /\ End(t, e) = e + t.sz[e]
  BY <1>1, EndInSpan, GeometryAssumption DEF End, Addr
<1>3. t.sz[a] + t.sz[e] \in 0 .. Units
  BY <1>1, <1>2, GeometryAssumption DEF Addr
<1>0. /\ u.st = [t.st EXCEPT ![e] = "none"] /\ t.st \in [Addr -> States]
      /\ u.sz = [t.sz EXCEPT ![a] = t.sz[a] + t.sz[e], ![e] = 0]
      /\ t.sz \in [Addr -> 0 .. Units]
      /\ u = [st |-> u.st, sz |-> u.sz]
  BY DEF Fuse, Tilings
<1>4. u \in Tilings
  <2>1. u.st \in [Addr -> States]
    BY <1>0, <1>1 DEF States
  <2>2. u.sz \in [Addr -> 0 .. Units]
    BY <1>0, <1>1, <1>3, GeometryAssumption
  <2>3. QED
    BY <1>0, <2>1, <2>2 DEF Tilings
<1>5. /\ \A b \in Addr \ {e} : u.st[b] = t.st[b]
      /\ \A b \in Addr \ {a, e} : u.sz[b] = t.sz[b]
      /\ u.st[e] = "none" /\ u.sz[a] = t.sz[a] + t.sz[e]
  <2>1. a # e /\ e \in Addr
    BY <1>1 DEF Addr
  <2> HIDE DEF e, u
  <2>2. QED
    BY <1>0, <2>1
<1>5a. IsBlock(t, e) /\ e = End(t, a) /\ TiledFrom(t, a) /\ TiledFrom(t, e)
  BY <1>1 DEF Tiles
<1> HIDE DEF e, u
<1>6. End(u, a) = End(t, e)
  BY <1>1, <1>2, <1>5 DEF End, Addr
<1>7. IsBlock(u, 0)
  BY <1>1, <1>5 DEF IsBlock, Tiles, Addr
<1>8. ASSUME NEW b \in Addr, IsBlock(u, b)
      PROVE  TiledFrom(u, b)
  <2>1. CASE b = a
    <3>1. u.sz[a] >= MinBlock
      BY <1>1, <1>5, EndInSpan, GeometryAssumption DEF End, Addr
    <3>2. End(u, a) = Units \/ IsBlock(u, End(u, a))
      BY <1>5a, <1>1, <1>2, <1>5, <1>6 DEF IsBlock, Addr, TiledFrom
    <3>3. ASSUME NEW c \in Addr, a < c, c < End(u, a)
          PROVE  u.st[c] = "none"
      BY <3>3, <1>5a, <1>1, <1>2, <1>5, <1>6 DEF TiledFrom, Addr
    <3>4. QED
      BY <2>1, <3>1, <3>2, <3>3 DEF TiledFrom
  <2>2. CASE b # a
    <3>1. b # e /\ IsBlock(t, b) /\ End(u, b) = End(t, b) /\ TiledFrom(t, b)
      BY <2>2, <1>5, <1>8 DEF IsBlock, End, Tiles
    <3>2. End(t, b) # e
      <4>1. CASE b < a
        BY <4>1, <3>1, <1>5a, <1>1, BlocksApart, EndInSpan DEF Addr
      <4>2. CASE a < b
        <5>1. e <= b
          BY <4>2, <3>1, <1>5a, BlocksApart
        <5>2. b + MinBlock <= End(t, b) /\ End(t, b) \in 0 .. Units
          BY <3>1, EndInSpan
        <5>3. QED
          BY <5>1, <5>2, <1>1, GeometryAssumption DEF Addr
      <4>3. QED
        BY <4>1, <4>2, <2>2 DEF Addr
    <3>3. QED
      BY <3>1, <3>2, <2>2, <1>1, <1>5 DEF TiledFrom, IsBlock
  <2>3. QED
    BY <2>1, <2>2
<1>9. Tiles(u)
  BY <1>7, <1>8 DEF Tiles
<1>10. a # e
  BY <1>1 DEF Addr
<1>11. QED
  BY <1>1, <1>4, <1>5, <1>6, <1>9, <1>10 DEF e, u
\* At most one block ends at an address.
LEMMA OneBefore ==
  ASSUME NEW t \in Tilings, Tiles(t), NEW p \in Addr, IsBlock(t, p),
         NEW q \in Addr, IsBlock(t, q), End(t, p) = End(t, q)
  PROVE  p = q
<1>1. p + MinBlock <= End(t, p) /\ q + MinBlock <= End(t, q) /\ End(t, p) \in 0 .. Units
  BY EndInSpan
<1>2. ~(p < q) /\ ~(q < p)
  BY <1>1, BlocksApart, GeometryAssumption DEF Addr
<1>3. QED
  BY <1>2 DEF Addr

-------------------------------------------------------------------------------
(***************************************************************************)
(* The operations.                                                         *)
(***************************************************************************)

\* A used block that swallows the free block behind it has no free block
\* behind it any more.
LEMMA AbsorbNextGood ==
  ASSUME NEW t, Good(t), NEW a \in Addr, IsUsed(t, a)
  PROVE  /\ Good(AbsorbNext(t, a))
         /\ IsUsed(AbsorbNext(t, a), a)
         /\ ~IsFree(AbsorbNext(t, a), End(AbsorbNext(t, a), a))
         /\ Keeps(t, AbsorbNext(t, a), a)
<1> DEFINE e == End(t, a)
           u == AbsorbNext(t, a)
<1>1. t \in Tilings /\ Tiles(t) /\ NoFreeNeighbours(t) /\ IsBlock(t, a)
  BY DEF Good, IsUsed, IsBlock
<1>2. CASE ~IsFree(t, e)
  <2>1. u = t
    BY <1>2 DEF AbsorbNext
  <2>2. QED
    BY <2>1, <1>2 DEF Keeps
<1>3. CASE IsFree(t, e)
  <2>1. u = Fuse(t, a) /\ IsBlock(t, e)
    BY <1>3 DEF AbsorbNext, IsFree, IsBlock
  <2>2. /\ u \in Tilings /\ Tiles(u) /\ e \in Addr /\ e # a
        /\ End(u, a) = End(t, e)
        /\ \A b \in Addr \ {e} : u.st[b] = t.st[b]
        /\ \A b \in Addr \ {a, e} : u.sz[b] = t.sz[b]
        /\ u.st[e] = "none"
    BY <1>1, <2>1, FuseTiles
  <2> HIDE DEF u
  <2>3. \A b : IsFree(u, b) => IsFree(t, b) /\ b # a /\ b # e
    BY <2>2 DEF IsFree, IsUsed
  <2>4. \A b \in Addr : IsFree(u, b) => End(u, b) = End(t, b)
    BY <2>2, <2>3 DEF End
  <2>5. NoFreeNeighbours(u)
    BY <1>1, <2>3, <2>4 DEF NoFreeNeighbours
  <2>6. ~IsFree(u, End(u, a))
    BY <1>1, <1>3, <2>2, <2>3 DEF NoFreeNeighbours
  <2>7. IsUsed(u, a) /\ Keeps(t, u, a)
    BY <1>3, <2>2 DEF IsUsed, IsFree, Keeps, Taken
  <2>8. QED
    BY <2>2, <2>5, <2>6, <2>7 DEF Good, u
<1>4. QED
  BY <1>2, <1>3

\* A used block with no free block on either side may be marked free.
LEMMA MarkFreeGood ==
  ASSUME NEW t, Good(t), NEW a \in Addr, IsUsed(t, a),
         ~IsFree(t, End(t, a)), FreeBefore(t, a) = {}
  PROVE  Good(Mark(t, a, "free")) /\ Keeps(t, Mark(t, a, "free"), a)
<1> DEFINE u == Mark(t, a, "free")
<1>1. t \in Tilings /\ Tiles(t) /\ NoFreeNeighbours(t) /\ IsBlock(t, a)
  BY DEF Good, IsUsed, IsBlock
<1>2. /\ u \in Tilings /\ Tiles(u) /\ u.sz = t.sz
      /\ \A b \in Addr \ {a} : u.st[b] = t.st[b]
  BY <1>1, MarkTiles DEF States
<1> HIDE DEF u
<1>3. /\ \A b : IsFree(u, b) => b = a \/ IsFree(t, b)
      /\ \A b : End(u, b) = End(t, b)
  BY <1>2 DEF IsFree, End
<1>4. End(t, a) # a
  BY <1>1, EndInSpan, GeometryAssumption DEF Addr
<1>5. \A b \in Addr : IsFree(t, b) => End(t, b) # a
  BY DEF FreeBefore
<1>6. NoFreeNeighbours(u)
  BY <1>1, <1>3, <1>4, <1>5 DEF NoFreeNeighbours
<1>7. QED
  BY <1>2, <1>6 DEF Good, Keeps, u

\* Cutting a used block in two used blocks puts no free block next to another.
LEMMA CutGood ==
  ASSUME NEW t, Good(t), NEW a \in Addr, IsUsed(t, a),
         NEW n \in MinBlock .. (t.sz[a] - MinBlock)
  PROVE  /\ Good(Cut(t, a, n, "used"))
         /\ a + n \in Addr /\ a + n # a
         /\ t.st[a + n] = "none"
         /\ IsUsed(Cut(t, a, n, "used"), a)
         /\ IsUsed(Cut(t, a, n, "used"), a + n)
         /\ Cut(t, a, n, "used").sz[a] = n
         /\ Cut(t, a, n, "used").sz[a + n] = t.sz[a] - n
         /\ Keeps(t, Cut(t, a, n, "used"), a)
<1> DEFINE u == Cut(t, a, n, "used")
<1>1. t \in Tilings /\ Tiles(t) /\ NoFreeNeighbours(t) /\ IsBlock(t, a)
  BY DEF Good, IsUsed, IsBlock
<1>2. /\ a + n \in Addr /\ t.st[a + n] = "none" /\ u \in Tilings /\ Tiles(u)
      /\ \A b \in Addr \ {a + n} : u.st[b] = t.st[b]
      /\ \A b \in Addr \ {a, a + n} : u.sz[b] = t.sz[b]
      /\ u.st[a + n] = "used" /\ u.sz[a] = n /\ u.sz[a + n] = t.sz[a] - n
  BY <1>1, CutTiles DEF States
<1> HIDE DEF u
<1>3. a + n # a
  BY <1>2 DEF IsUsed
<1>4. \A b : IsFree(u, b) => IsFree(t, b) /\ b # a /\ b # a + n
  BY <1>2, <1>3 DEF IsFree, IsUsed
<1>5. \A b \in Addr : IsFree(u, b) => End(u, b) = End(t, b)
  BY <1>2, <1>4 DEF End
<1>6. NoFreeNeighbours(u)
  BY <1>1, <1>4, <1>5 DEF NoFreeNeighbours
<1>7. IsUsed(u, a) /\ IsUsed(u, a + n) /\ Keeps(t, u, a)
  BY <1>2, <1>3 DEF IsUsed, Keeps, Taken
<1>8. QED
  BY <1>2, <1>3, <1>6, <1>7 DEF Good, u
\* split_block cuts a used block down to size: what it needs stays, the surplus
\* goes back as one free block.
LEMMA TrimGood ==
  ASSUME NEW t, Good(t), NEW a \in Addr, IsUsed(t, a),
         NEW need \in Sizes, t.sz[a] >= need
  PROVE  /\ Good(Trim(t, a, need))
         /\ IsUsed(Trim(t, a, need), a)
         /\ Keeps(t, Trim(t, a, need), a)
<1>0. t.sz[a] \in 0 .. Units /\ need \in MinBlock .. Units
  BY DEF Good, Tilings, Sizes
<1>1. CASE t.sz[a] - need < MinBlock
  BY <1>1 DEF Trim, Keeps
<1>2. CASE ~(t.sz[a] - need < MinBlock)
  <2> DEFINE b == a + need
             c == Cut(t, a, need, "used")
             u == AbsorbNext(c, b)
             v == Mark(u, b, "free")
  <2>1. Trim(t, a, need) = v
    BY <1>2 DEF Trim
  <2>2. need \in MinBlock .. (t.sz[a] - MinBlock)
    BY <1>0, <1>2, GeometryAssumption
  <2>3. /\ Good(c) /\ b \in Addr /\ b # a /\ t.st[b] = "none"
        /\ IsUsed(c, a) /\ IsUsed(c, b) /\ c.sz[a] = need /\ Keeps(t, c, a)
    BY <2>2, CutGood
  <2> HIDE DEF b, c
  <2>4. Good(u) /\ IsUsed(u, b) /\ ~IsFree(u, End(u, b)) /\ Keeps(c, u, b)
    BY <2>3, AbsorbNextGood
  <2> HIDE DEF u
  <2>5. u.st[a] = "used" /\ u.sz[a] = need
    BY <2>3, <2>4 DEF Keeps, IsUsed, Taken
  <2>6. FreeBefore(u, b) = {}
    <3> SUFFICES ASSUME NEW p \in Addr, IsFree(u, p), End(u, p) = b
                 PROVE  FALSE
      BY DEF FreeBefore
    <3>1. End(u, a) = b
      BY <2>5 DEF End, b
    <3>2. u \in Tilings /\ Tiles(u) /\ IsBlock(u, a) /\ IsBlock(u, p)
      BY <2>4, <2>5 DEF Good, IsBlock, IsFree
    <3>3. p = a
      BY <3>1, <3>2, OneBefore
    <3>4. QED
      BY <3>3, <2>5 DEF IsFree
  <2>7. Good(v) /\ Keeps(u, v, b)
    BY <2>3, <2>4, <2>6, MarkFreeGood
  <2> HIDE DEF v
  <2>8. IsUsed(v, a)
    BY <2>3, <2>5, <2>7 DEF Keeps, Taken, IsUsed
  <2>9. Keeps(t, v, a)
    BY <2>3, <2>4, <2>7 DEF Keeps, Taken
  <2>10. QED
    BY <2>1, <2>7, <2>8, <2>9
<1>3. QED
  BY <1>1, <1>2

\* A released block ends up in one free block with the free blocks on both
\* sides of it.
LEMMA ReleaseGood ==
  ASSUME NEW t, Good(t), NEW a \in Addr, IsUsed(t, a)
  PROVE  Good(Release(t, a)) /\ Keeps(t, Release(t, a), a)
<1> DEFINE u == AbsorbNext(t, a)
<1>1. Good(u) /\ IsUsed(u, a) /\ ~IsFree(u, End(u, a)) /\ Keeps(t, u, a)
  BY AbsorbNextGood
<1>2. CASE FreeBefore(u, a) = {}
  <2>1. Release(t, a) = Mark(u, a, "free")
    BY <1>2 DEF Release
  <2> HIDE DEF u
  <2>2. QED
    BY <1>1, <1>2, <2>1, MarkFreeGood DEF Keeps
<1>3. CASE FreeBefore(u, a) # {}
  <2> DEFINE p == CHOOSE q \in FreeBefore(u, a) : TRUE
             v == Fuse(u, p)
  <2>1. Release(t, a) = v
    BY <1>3 DEF Release
  <2>2. p \in Addr /\ IsFree(u, p) /\ End(u, p) = a
    BY <1>3 DEF FreeBefore
  <2> HIDE DEF u, p
  <2>3. u \in Tilings /\ Tiles(u) /\ NoFreeNeighbours(u) /\ IsBlock(u, p) /\ IsBlock(u, a)
    BY <1>1, <2>2 DEF Good, IsUsed, IsFree, IsBlock
  <2>4. /\ v \in Tilings /\ Tiles(v) /\ a # p /\ End(v, p) = End(u, a)
        /\ \A b \in Addr \ {a} : v.st[b] = u.st[b]
        /\ \A b \in Addr \ {p, a} : v.sz[b] = u.sz[b]
        /\ v.st[a] = "none"
    BY <2>2, <2>3, FuseTiles
  <2> HIDE DEF v
  <2>5. \A b : IsFree(v, b) => IsFree(u, b) /\ b # a
    BY <2>4 DEF IsFree
  <2>6. \A b \in Addr \ {p} : IsFree(v, b) => End(v, b) = End(u, b)
    BY <2>4, <2>5 DEF End
  <2>7. NoFreeNeighbours(v)
    BY <1>1, <2>3, <2>4, <2>5, <2>6 DEF NoFreeNeighbours
  <2>8. Keeps(u, v, a)
    BY <2>2, <2>4 DEF Keeps, Taken, IsFree
  <2>9. Keeps(t, v, a)
    BY <1>1, <2>8 DEF Keeps
  <2>10. QED
    BY <2>1, <2>4, <2>7, <2>9 DEF Good
<1>4. QED
  BY <1>2, <1>3

\* Any block may be taken off the free lists: marking one "used" or "quar"
\* leaves no new pair of free neighbours.
LEMMA MarkTakenGood ==
  ASSUME NEW t, Good(t), NEW a \in Addr, IsBlock(t, a), NEW s \in Taken
  PROVE  /\ Good(Mark(t, a, s))
         /\ Mark(t, a, s).st[a] = s
         /\ Mark(t, a, s).sz = t.sz
         /\ Keeps(t, Mark(t, a, s), a)
<1> DEFINE u == Mark(t, a, s)
<1>1. /\ u \in Tilings /\ Tiles(u) /\ u.sz = t.sz /\ u.st[a] = s
      /\ \A b \in Addr \ {a} : u.st[b] = t.st[b]
  BY MarkTiles DEF Good, Taken, States
<1> HIDE DEF u
<1>2. \A b : IsFree(u, b) => IsFree(t, b)
  BY <1>1 DEF IsFree, Taken
<1>3. NoFreeNeighbours(u)
  BY <1>1, <1>2 DEF Good, NoFreeNeighbours, End
<1>4. QED
  BY <1>1, <1>3 DEF Good, Keeps, u

\* malloc: a free block is taken and cut to size.
LEMMA TakeGood ==
  ASSUME NEW t, Good(t), NEW a \in Addr, IsFree(t, a),
         NEW need \in Sizes, t.sz[a] >= need
  PROVE  /\ Good(Take(t, a, need))
         /\ IsUsed(Take(t, a, need), a)
         /\ Keeps(t, Take(t, a, need), a)
<1> DEFINE m == Mark(t, a, "used")
<1>1. Good(m) /\ IsUsed(m, a) /\ m.sz[a] >= need /\ Keeps(t, m, a)
  BY MarkTakenGood DEF IsFree, IsBlock, Taken, IsUsed
<1>2. Take(t, a, need) = Trim(m, a, need)
  BY DEF Take
<1> HIDE DEF m
<1>3. /\ Good(Trim(m, a, need)) /\ IsUsed(Trim(m, a, need), a)
      /\ Keeps(m, Trim(m, a, need), a)
  BY <1>1, TrimGood
<1>4. QED
  BY <1>1, <1>2, <1>3 DEF Keeps
-------------------------------------------------------------------------------
(***************************************************************************)
(* The specification.                                                      *)
(***************************************************************************)

\* What a call does to the tiling: it stays good, and at most one block that
\* is in use, and none that is in quarantine, changes.
CallFrom(t, u) ==
  /\ Good(u)
  /\ \E a \in Addr : t.st[a] # "quar" /\ Keeps(t, u, a)

\* The fresh span is one free block, which tiles it.
LEMMA InitGood == Init => Good(tiling)
<1> SUFFICES ASSUME Init PROVE Good(tiling)
  OBVIOUS
<1>1. /\ tiling \in Tilings
      /\ 0 \in Addr
      /\ tiling.sz[0] = Units
      /\ \A a \in Addr : tiling.st[a] = IF a = 0 THEN "free" ELSE "none"
  BY GeometryAssumption DEF Init, Tilings, Addr, States
<1>2. Tiles(tiling)
  BY <1>1, GeometryAssumption DEF Tiles, TiledFrom, IsBlock, End, Addr
<1>3. NoFreeNeighbours(tiling)
  BY <1>1, GeometryAssumption DEF NoFreeNeighbours, IsFree, End, Addr
<1>4. QED
  BY <1>1, <1>2, <1>3 DEF Good

\* Every call, from a good tiling, is one.
LEMMA NextGood ==
  ASSUME Good(tiling), Next
  PROVE  CallFrom(tiling, tiling')
<1> DEFINE t == tiling
<1>0. \A x \in Addr : t.sz[x] \in 0 .. Units
  BY DEF Good, Tilings
<1>1. ASSUME NEW a \in Addr, Free(a) PROVE CallFrom(t, t')
  BY <1>1, ReleaseGood DEF Free, CallFrom, IsUsed
<1>2. ASSUME NEW a \in Addr, Quarantine(a) PROVE CallFrom(t, t')
  <2>1. IsBlock(t, a) /\ t.st[a] # "quar" /\ t' = Mark(t, a, "quar")
    BY <1>2 DEF Quarantine, IsFree, IsUsed, IsBlock
  <2>2. QED
    BY <2>1, MarkTakenGood DEF CallFrom, Taken
<1>3. ASSUME NEW a \in Addr, NEW need \in Sizes, Alloc(a, need)
      PROVE  CallFrom(t, t')
  BY <1>3, TakeGood DEF Alloc, CallFrom, IsFree
<1>4. ASSUME NEW a \in Addr, NEW need \in Sizes, Resize(a, need)
      PROVE  CallFrom(t, t')
  <2> DEFINE g == IF t.sz[a] >= need THEN t ELSE AbsorbNext(t, a)
  <2>1. IsUsed(t, a) /\ g.sz[a] >= need /\ t' = Trim(g, a, need)
    BY <1>4 DEF Resize
  <2>2. Good(g) /\ IsUsed(g, a) /\ Keeps(t, g, a)
    BY <2>1, AbsorbNextGood DEF Keeps
  <2> HIDE DEF g
  <2>3. Good(t') /\ Keeps(g, t', a)
    BY <2>1, <2>2, TrimGood
  <2>4. QED
    BY <2>1, <2>2, <2>3 DEF CallFrom, Keeps, IsUsed
<1>5. ASSUME NEW a \in Addr, NEW b \in Addr, NEW need \in Sizes, Move(a, b, need)
      PROVE  CallFrom(t, t')
  <2> DEFINE u == Take(t, b, need)
  <2>1. IsUsed(t, a) /\ IsFree(t, b) /\ t.sz[b] >= need /\ t' = Release(u, a)
    BY <1>5 DEF Move
  <2>2. Good(u) /\ Keeps(t, u, b)
    BY <2>1, TakeGood
  <2> HIDE DEF u
  <2>3. IsUsed(u, a)
    BY <2>1, <2>2 DEF Keeps, IsUsed, IsFree, Taken
  <2>4. Good(t') /\ Keeps(u, t', a)
    BY <2>1, <2>2, <2>3, ReleaseGood
  <2>5. QED
    BY <2>1, <2>2, <2>4 DEF CallFrom, Keeps, Taken, IsUsed, IsFree
<1>6. ASSUME NEW b \in Addr, NEW need \in Sizes, AllocAligned(b, need)
      PROVE  CallFrom(t, t')
  <2>1. PICK whole \in MinBlock .. t.sz[b] :
          \E front \in MinBlock .. (Take(t, b, whole).sz[b] - need) :
             t' = Release(Trim(Cut(Take(t, b, whole), b, front, "used"), b + front, need), b)
    BY <1>6 DEF AllocAligned
  <2> DEFINE u == Take(t, b, whole)
  <2>2. PICK front \in MinBlock .. (u.sz[b] - need) :
          t' = Release(Trim(Cut(u, b, front, "used"), b + front, need), b)
    BY <2>1
  <2> DEFINE c == Cut(u, b, front, "used")
             d == Trim(c, b + front, need)
  <2>3. IsFree(t, b)
    BY <1>6 DEF AllocAligned
  <2>4. whole \in Sizes /\ t.sz[b] >= whole
    BY <1>0, GeometryAssumption DEF Sizes
  <2>5. Good(u) /\ IsUsed(u, b) /\ Keeps(t, u, b)
    BY <2>3, <2>4, TakeGood
  <2>6. t' = Release(d, b)
    BY <2>2
  <2> HIDE DEF u
  <2>7. u.sz[b] \in 0 .. Units /\ need \in MinBlock .. Units
    BY <2>5 DEF Good, Tilings, Sizes
  <2>8. front \in MinBlock .. (u.sz[b] - MinBlock) /\ u.sz[b] - front >= need
    BY <2>7, GeometryAssumption
  <2>9. /\ Good(c) /\ b + front \in Addr /\ b + front # b /\ u.st[b + front] = "none"
        /\ IsUsed(c, b) /\ IsUsed(c, b + front) /\ c.sz[b + front] = u.sz[b] - front
        /\ Keeps(u, c, b)
    BY <2>5, <2>8, CutGood
  <2> HIDE DEF c
  <2>10. Good(d) /\ Keeps(c, d, b + front)
    BY <2>8, <2>9, TrimGood
  <2> HIDE DEF d
  <2>11. IsUsed(d, b)
    BY <2>9, <2>10 DEF Keeps, Taken, IsUsed
  <2>12. Good(t') /\ Keeps(d, t', b)
    BY <2>6, <2>10, <2>11, ReleaseGood
  <2>13. Keeps(t, t', b)
    <3> SUFFICES ASSUME NEW x \in Addr \ {b}, t.st[x] \in Taken
                 PROVE  t'.st[x] = t.st[x] /\ t'.sz[x] = t.sz[x]
      BY DEF Keeps
    <3>1. u.st[x] = t.st[x] /\ u.sz[x] = t.sz[x] /\ x # b + front
      BY <2>5, <2>9 DEF Keeps, Taken
    <3>2. QED
      BY <3>1, <2>9, <2>10, <2>12 DEF Keeps
  <2>14. QED
    BY <2>3, <2>12, <2>13 DEF CallFrom, IsFree
<1>7. QED
  BY <1>1, <1>2, <1>3, <1>4, <1>5, <1>6 DEF Next

\* The tiling stays well typed, exact and coalesced for any span and any
\* smallest block: the inductive invariant the theorems below rest on.
THEOREM AlwaysGood == Spec => []Good(tiling)
<1>1. Good(tiling) /\ [Next]_tiling => Good(tiling)'
  <2>1. ASSUME Good(tiling), Next PROVE Good(tiling)'
    BY <2>1, NextGood DEF CallFrom
  <2>2. ASSUME Good(tiling), UNCHANGED tiling PROVE Good(tiling)'
    BY <2>2
  <2>3. QED
    BY <2>1, <2>2
<1>2. QED
  BY InitGood, <1>1, PTL DEF Spec

\* Every tiling the calls of mm_core.c can reach is a state and an extent per
\* address, whatever the length of the span.
THEOREM TypeCorrect == Spec => []TypeOK
<1>1. Good(tiling) => TypeOK
  BY DEF Good, TypeOK
<1>2. QED
  BY AlwaysGood, <1>1, PTL

\* Blocks tile a span of any length exactly after any sequence of calls.
THEOREM AlwaysTiled == Spec => []Tiled
<1>1. Good(tiling) => Tiled
  BY DEF Good, Tiled
<1>2. QED
  BY AlwaysGood, <1>1, PTL

\* absorb_neighbours and split_block never leave two free blocks side by side.
THEOREM AlwaysCoalesced == Spec => []Coalesced
<1>1. Good(tiling) => Coalesced
  BY DEF Good, Coalesced
<1>2. QED
  BY AlwaysGood, <1>1, PTL

\* No call merges, moves or hands out a quarantined block.
THEOREM QuarantineIsForever == Spec => QuarantineForever
<1> DEFINE A == \A a \in Addr :
                  tiling.st[a] = "quar" =>
                    tiling'.st[a] = "quar" /\ tiling'.sz[a] = tiling.sz[a]
<1>1. Good(tiling) /\ [Next]_tiling => [A]_tiling
  <2>1. ASSUME Good(tiling), Next PROVE A
    BY <2>1, NextGood DEF CallFrom, Keeps, Taken
  <2>2. QED
    BY <2>1
<1>2. QED
  BY AlwaysGood, <1>1, PTL DEF Spec, QuarantineForever

\* No call changes a live block other than the one it was called on: a free, a
\* realloc or an allocation never touches a neighbour somebody else holds.
THEOREM OneBlockOnly == Spec => OneBlockPerCall
<1> DEFINE A == \E a \in Addr : \A b \in Addr \ {a} :
                  tiling.st[b] = "used" =>
                    tiling'.st[b] = "used" /\ tiling'.sz[b] = tiling.sz[b]
<1>1. Good(tiling) /\ [Next]_tiling => [A]_tiling
  <2>1. ASSUME Good(tiling), Next PROVE A
    BY <2>1, NextGood DEF CallFrom, Keeps, Taken
  <2>2. QED
    BY <2>1
<1>2. QED
  BY AlwaysGood, <1>1, PTL DEF Spec, OneBlockPerCall
===============================================================================
