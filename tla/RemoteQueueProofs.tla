--------------------------- MODULE RemoteQueueProofs --------------------------
(***************************************************************************)
(* RemoteQueue's accounting, for any number of producers and blocks, any   *)
(* number of slots above one and any range positions wrap in.              *)
(***************************************************************************)
EXTENDS RemoteQueue, FiniteSetTheorems, TLAPS

-------------------------------------------------------------------------------
(***************************************************************************)
(* Residues.                                                               *)
(***************************************************************************)
\* Division with remainder.
LEMMA DivMod ==
  ASSUME NEW n \in Int, NEW m \in Nat \ {0}
  PROVE  /\ n % m \in 0 .. m - 1 /\ n \div m \in Int
         /\ n = m * (n \div m) + (n % m)
  OBVIOUS

\* A multiple of m that is smaller than m is zero.
LEMMA SmallMultiple ==
  ASSUME NEW q \in Int, NEW m \in Nat \ {0}, m * q < m, -m < m * q
  PROVE  q = 0
<1>1. CASE q >= 1
  <2>1. m * q >= m
    BY <1>1
  <2> QED
    BY <2>1
<1>2. CASE q <= -1
  <2>1. m * q <= -m
    BY <1>2
  <2> QED
    BY <2>1
<1> QED
  BY <1>1, <1>2

\* A remainder is the only number below the divisor that leaves a multiple.
LEMMA UniqueResidue ==
  ASSUME NEW n \in Int, NEW m \in Nat \ {0}, NEW q \in Int, NEW r \in 0 .. m - 1, n = m * q + r
  PROVE  n % m = r
<1> DEFINE d == n \div m
           e == n % m
<1>1. e \in 0 .. m - 1 /\ d \in Int /\ n = m * d + e
  BY DivMod
<1> HIDE DEF d, e
<1>2. m * (d - q) = m * d - m * q
  BY <1>1
<1>3. m * (d - q) = r - e
  BY <1>1, <1>2
<1>4. d - q = 0
  BY <1>1, <1>3, SmallMultiple
<1>5. m * (d - q) = 0
  BY <1>1, <1>4
<1>6. e = r
  BY <1>1, <1>3, <1>5
<1> QED
  BY <1>6 DEF e

\* Numbers closer than the modulus are equal when their residues are.
LEMMA SameResidue ==
  ASSUME NEW a \in Int, NEW b \in Int, NEW m \in Nat \ {0}, a % m = b % m, a - b < m, b - a < m
  PROVE  a = b
<1> DEFINE d == a \div m
           e == b \div m
           r == a % m
           s == b % m
<1>1. /\ a = m * d + r /\ b = m * e + s
      /\ d \in Int /\ e \in Int /\ r \in Int /\ s = r
  BY DivMod
<1> HIDE DEF d, e, r, s
<1>2. m * (d - e) = m * d - m * e
  BY <1>1
<1>3. m * (d - e) = a - b
  BY <1>1, <1>2
<1>4. d - e = 0
  BY <1>1, <1>3, SmallMultiple
<1>5. m * (d - e) = 0
  BY <1>1, <1>4
<1> QED
  BY <1>1, <1>3, <1>5

\* A sum may be reduced before or after the addition.
LEMMA ShiftedResidue ==
  ASSUME NEW n \in Int, NEW k \in Int, NEW m \in Nat \ {0}
  PROVE  ((n % m) + k) % m = (n + k) % m
<1> DEFINE r == n % m
           q == n \div m
           s == (r + k) % m
           p == (r + k) \div m
<1>1. r \in Int /\ q \in Int /\ n = m * q + r
  BY DivMod
<1>2. s \in 0 .. m - 1 /\ p \in Int /\ r + k = m * p + s
  BY <1>1, DivMod
<1> HIDE DEF r, q, s, p
<1>3. m * (q + p) = m * q + m * p
  BY <1>1, <1>2
<1>4. n + k = m * (q + p) + s /\ q + p \in Int /\ n + k \in Int
  BY <1>1, <1>2, <1>3
<1>5. (n + k) % m = s
  BY <1>2, <1>4, UniqueResidue
<1> QED
  BY <1>5 DEF s, r

\* Reducing to a multiple of m first does not change the residue mod m.
LEMMA NestedResidue ==
  ASSUME NEW n \in Int, NEW m \in Nat \ {0}, NEW w \in Nat \ {0}, w % m = 0
  PROVE  (n % w) % m = n % m
<1> DEFINE r == n % w
           q == n \div w
           k == w \div m
           s == r % m
           p == r \div m
<1>1. r \in Int /\ q \in Int /\ n = w * q + r
  BY DivMod
<1>2. s \in 0 .. m - 1 /\ p \in Int /\ r = m * p + s
  BY <1>1, DivMod
<1>3. k \in Int /\ w = m * k
  BY DivMod
<1> HIDE DEF r, q, s, p, k
<1>4. w * q = m * (k * q)
  BY <1>1, <1>3
<1>5. m * (k * q + p) = m * (k * q) + m * p
  BY <1>1, <1>2, <1>3
<1>6. n = m * (k * q + p) + s
  BY <1>1, <1>2, <1>4, <1>5
<1>7. k * q + p \in Int
  BY <1>1, <1>2, <1>3
<1>8. n % m = s
  BY <1>2, <1>6, <1>7, UniqueResidue
<1> QED
  BY <1>8 DEF s, r

\* The residue is zero for the multiples.
LEMMA Multiple ==
  ASSUME NEW n \in Int, NEW m \in Nat \ {0}
  PROVE  n % m = 0 <=> \E q \in Int : n = m * q
<1> DEFINE d == n \div m
           e == n % m
<1>1. e \in 0 .. m - 1 /\ d \in Int /\ n = m * d + e
  BY DivMod
<1> HIDE DEF d, e
<1>2. e = 0 => \E q \in Int : n = m * q
  BY <1>1
<1>3. ASSUME NEW q \in Int, n = m * q
      PROVE  e = 0
  <2>1. m * (q - d) = m * q - m * d
    BY <1>1
  <2>2. m * (q - d) = e
    BY <1>1, <1>3, <2>1
  <2>3. q - d = 0
    BY <1>1, <2>2, SmallMultiple
  <2>4. m * (q - d) = 0
    BY <1>1, <2>3
  <2> QED
    BY <2>2, <2>4
<1> QED
  BY <1>2, <1>3 DEF e

\* A multiple of 2m is one of m.
LEMMA HalfResidue ==
  ASSUME NEW w \in Int, NEW m \in Nat \ {0}, NEW d \in Nat \ {0}, d = m + m, w % d = 0
  PROVE  w % m = 0
<1>1. PICK k \in Int : w = d * k
  BY Multiple
<1>2. d * k = m * (k + k)
  BY <1>1
<1>3. w = m * (k + k) /\ k + k \in Int
  BY <1>1, <1>2
<1> QED
  BY <1>3, Multiple

\* What the assumptions say of the ring.
LEMMA RingFacts ==
  /\ Slots \in Nat \ {0} /\ Slots > 1 /\ Wrap \in Nat \ {0} /\ Wrap % Slots = 0
  /\ MaxFrees \in Nat /\ MaxFrees + Slots < Wrap
<1>1. Slots \in Nat \ {0} /\ Slots > 1 /\ Wrap \in Nat /\ MaxFrees \in Nat
  BY RingAssumption
<1>2. MaxFrees + Slots < Wrap \div 2
  BY RingAssumption
<1>3. MaxFrees + Slots < Wrap
  BY <1>1, <1>2
<1>4. Wrap % (2 * Slots) = 0
  BY RingAssumption
<1>5. Wrap % Slots = 0
  <2> DEFINE d == 2 * Slots
  <2>1. d \in Nat \ {0} /\ d = Slots + Slots /\ Wrap \in Int
    BY <1>1
  <2>2. Wrap % d = 0
    BY <1>4
  <2> HIDE DEF d
  <2> QED
    BY <1>1, <2>1, <2>2, HalfResidue
<1> QED
  BY <1>1, <1>3, <1>5

\* A position that never wraps, as the 32-bit counter shows it.
Wrapped(n) == n % Wrap
Indices    == 0 .. Slots - 1

\* The slot of a position is the same before and after it wraps, its neighbour
\* has another one, and a lap later it comes round again.
LEMMA SlotOf ==
  ASSUME NEW n \in Nat
  PROVE  /\ Slot(Wrapped(n)) = Slot(n)
         /\ Slot(n) \in Indices /\ Wrapped(n) \in 0 .. Wrap - 1
         /\ Slot(n + 1) # Slot(n)
         /\ Slot(n + Slots) = Slot(n)
<1>0. n \in Int /\ Slots \in Nat \ {0} /\ Wrap \in Nat \ {0} /\ Wrap % Slots = 0
  BY RingFacts
<1>1. Slot(Wrapped(n)) = Slot(n)
  <2>1. (n % Wrap) % Slots = n % Slots
    BY <1>0, NestedResidue
  <2> QED
    BY <2>1 DEF Slot, Wrapped
<1>2. Slot(n) \in Indices /\ Wrapped(n) \in 0 .. Wrap - 1
  <2>1. n % Slots \in 0 .. Slots - 1
    BY <1>0, DivMod
  <2>2. n % Wrap \in 0 .. Wrap - 1
    BY <1>0, DivMod
  <2> QED
    BY <2>1, <2>2 DEF Slot, Wrapped, Indices
<1>3. Slot(n + 1) # Slot(n)
  BY RingFacts, SameResidue DEF Slot
<1>4. (n + Slots) % Slots = n % Slots
  <2> DEFINE q == n \div Slots
             r == n % Slots
  <2>1. q \in Int /\ r \in 0 .. Slots - 1 /\ n = Slots * q + r /\ Slots \in Nat \ {0}
    BY RingFacts, DivMod
  <2> HIDE DEF q, r
  <2>2. Slots * (q + 1) = Slots * q + Slots
    BY <2>1
  <2>3. n + Slots = Slots * (q + 1) + r /\ q + 1 \in Int /\ n + Slots \in Int
    BY <2>1, <2>2
  <2>4. (n + Slots) % Slots = r
    BY <2>1, <2>3, UniqueResidue
  <2> QED
    BY <2>4 DEF r
<1> QED
  BY <1>1, <1>2, <1>3, <1>4 DEF Slot

\* Arithmetic on the 32-bit counters is that of the positions, wrapped.
LEMMA PlusOf ==
  ASSUME NEW n \in Nat, NEW k \in Nat
  PROVE  Plus(Wrapped(n), k) = Wrapped(n + k)
<1>1. n \in Int /\ k \in Int /\ Wrap \in Nat \ {0}
  BY RingFacts
<1>2. ((n % Wrap) + k) % Wrap = (n + k) % Wrap
  BY <1>1, ShiftedResidue
<1> QED
  BY <1>2 DEF Plus, Wrapped

\* Positions that are at most the frees and a lap apart are told apart.
LEMMA EqualOf ==
  ASSUME NEW a \in Nat, NEW b \in Nat, Wrapped(a) = Wrapped(b),
         a - b <= MaxFrees + Slots, b - a <= MaxFrees + Slots
  PROVE  a = b
<1>1. a \in Int /\ b \in Int /\ Wrap \in Nat \ {0} /\ a - b < Wrap /\ b - a < Wrap
  BY RingFacts
<1> QED
  BY <1>1, SameResidue DEF Wrapped

\* The signed difference of two counters is zero only when they are equal.
LEMMA DiffZero ==
  ASSUME NEW a \in 0 .. Wrap - 1, NEW b \in 0 .. Wrap - 1, Diff(a, b) = 0
  PROVE  a = b
<1> DEFINE d == (a - b) % Wrap
<1>1. Wrap \in Nat \ {0} /\ a - b \in Int /\ 0 \in Int
  BY RingFacts
<1>2. d \in 0 .. Wrap - 1
  BY <1>1, DivMod
<1>3. d = 0 \/ d - Wrap = 0
  BY DEF Diff
<1> HIDE DEF d
<1>4. d = 0
  BY <1>1, <1>2, <1>3
<1>5. 0 % Wrap = 0
  BY <1>1, UniqueResidue
<1>6. a - b = 0
  BY <1>1, <1>4, <1>5, SameResidue DEF d
<1> QED
  BY <1>6

\* The signed difference of two counters is that of the positions, as long as they
\* are at most the frees and a lap apart.
LEMMA DiffAhead ==
  ASSUME NEW a \in Nat, NEW b \in Nat, b <= a, a - b <= MaxFrees + Slots
  PROVE  Diff(Wrapped(a), Wrapped(b)) = a - b
<1> DEFINE r == a % Wrap
           s == b % Wrap
           d == a \div Wrap
           e == b \div Wrap
<1>1. Wrap \in Nat \ {0} /\ a \in Int /\ b \in Int
  BY RingFacts
<1>2. r \in Int /\ d \in Int /\ a = Wrap * d + r
  BY <1>1, DivMod
<1>3. s \in Int /\ e \in Int /\ b = Wrap * e + s
  BY <1>1, DivMod
<1>4. a - b \in 0 .. Wrap - 1 /\ a - b < Wrap \div 2
  <2>1. MaxFrees + Slots < Wrap \div 2 /\ MaxFrees \in Nat /\ Slots \in Nat
    BY RingAssumption
  <2>2. Wrap \div 2 <= Wrap /\ Wrap \div 2 \in Int
    BY <1>1
  <2> QED
    BY <1>1, <2>1, <2>2
<1> HIDE DEF r, s, d, e
<1>5. Wrap * (e - d) = Wrap * e - Wrap * d
  BY <1>1, <1>2, <1>3
<1>6. r - s = Wrap * (e - d) + (a - b) /\ r - s \in Int /\ e - d \in Int
  BY <1>1, <1>2, <1>3, <1>5
<1>7. (r - s) % Wrap = a - b
  BY <1>1, <1>4, <1>6, UniqueResidue
<1>8. ((a % Wrap) - (b % Wrap)) % Wrap = a - b
  BY <1>7 DEF r, s
<1> QED
  BY <1>4, <1>8 DEF Diff, Wrapped

-------------------------------------------------------------------------------
(***************************************************************************)
(* The inductive invariant.                                                *)
(***************************************************************************)
PCs == {"idle", "load", "look", "claim", "fill", "publish", "full", "drain", "take",
        "advance", "release", "apply", "work"}
ThreadType == [pc : PCs, pos : Nat, arg : Blocks \cup {none}, got : Blocks \cup {none}]
CellType == [seq : Nat, ptr : Blocks \cup {none}]

Types ==
  /\ head \in Nat /\ tail \in Nat
  /\ cell \in [Indices -> CellType]
  /\ lock \in Threads \cup {none}
  /\ thr \in [Threads -> ThreadType]
  /\ where \in [Blocks -> {"heap", "held", "owed", "queued"}]
  /\ frees \in 0 .. MaxFrees

\* Whoever drains, frees or allocates holds the lock.
Section ==
  \A t \in Threads :
    thr[t].pc \in {"drain", "take", "advance", "release", "apply", "work"} => lock = t

\* A block that was popped is applied before anything else is, and a producer that
\* is not freeing holds no block to free.
Hands ==
  /\ \A t \in Threads : thr[t].pc \notin {"advance", "release", "apply"} => thr[t].got = none
  /\ \A t \in Producers : thr[t].pc = "idle" => thr[t].arg = none

\* The threads whose free has not claimed a position yet.
Pushing == {t \in Producers : thr[t].pc \in {"load", "look", "claim"}}

(***************************************************************************)
(* The positions as they would be if they did not wrap: h of the head, l   *)
(* of the tail, p of each thread, q of each cell's sequence number, and b, *)
(* where the ring stood when the behaviour began.                          *)
(***************************************************************************)
Unwrapped(h, l, p, q) ==
  /\ h \in Nat /\ l \in Nat /\ p \in [Threads -> Nat] /\ q \in [Indices -> Nat]
  /\ head = Wrapped(h) /\ tail = Wrapped(l)
  /\ \A t \in Threads : thr[t].pos = Wrapped(p[t])
  /\ \A i \in Indices : cell[i].seq = Wrapped(q[i])

\* Each free claims a position at most once.
Counted(b, h) == h + Cardinality(Pushing) <= b + frees

\* A cell whose number is not one of its own positions has been published.
Bounded(b, h, l, q) ==
  /\ b <= l /\ l <= h
  /\ \A i \in Indices :
       /\ b <= q[i] /\ q[i] <= h + Slots
       /\ Slot(q[i]) # i => q[i] <= h

\* What a thread may rely on where it is: a position that is still the head is
\* still free; a claimed cell keeps its number until its producer publishes it, a
\* published one until its consumer hands it back.
Station(r, n, b, h, l, q) ==
  /\ r.pc \in {"look", "claim"} => b <= n /\ n <= h
  /\ r.pc = "claim" /\ n = h => q[Slot(n)] = n
  /\ r.pc \in {"fill", "publish"} => b <= n /\ n < h /\ q[Slot(n)] = n
  /\ r.pc = "publish" => cell[Slot(n)].ptr = r.arg
  /\ r.pc \in {"take", "advance"} => n = l
  /\ r.pc = "release" => n + 1 = l
  /\ r.pc \in {"take", "advance", "release"} => q[Slot(n)] = n + 1
  /\ r.pc \in {"advance", "release"} => cell[Slot(n)].ptr = none

\* A position is claimed by one thread.
Distinct(p) ==
  \A t, u \in Threads :
    /\ thr[t].pc \in {"fill", "publish"} /\ thr[u].pc \in {"fill", "publish"}
    /\ p[t] = p[u]
    => t = u

\* A cell with a pointer is published or about to be.
Filled(p, q) ==
  \A i \in Indices : cell[i].ptr # none =>
    \/ Slot(q[i]) # i
    \/ \E t \in Threads : thr[t].pc = "publish" /\ Slot(p[t]) = i

\* One while a drain has passed a cell and not handed it back yet.
Held == IF \E t \in Threads : thr[t].pc = "release" THEN 1 ELSE 0

\* Every cell's number belongs to a position the drain has not handed back.
Floor(l, q) ==
  \A i \in Indices : \E m \in Nat :
    Slot(m) = i /\ l <= m + Held /\ (q[i] = m \/ q[i] = m + 1)

RingAt(b, h, l, p, q) ==
  /\ b \in Nat
  /\ Unwrapped(h, l, p, q)
  /\ Counted(b, h)
  /\ Bounded(b, h, l, q)
  /\ \A t \in Threads : Station(thr[t], p[t], b, h, l, q)
  /\ Distinct(p)
  /\ Filled(p, q)
  /\ Floor(l, q)

Ring == \E b, h, l, p, q : RingAt(b, h, l, p, q)

\* The pointers in the cells, the blocks threads are freeing and have not put into
\* a cell, and the blocks they popped.
Ptrs == [i \in Indices |-> cell[i].ptr]
Args == [t \in Threads |-> IF thr[t].pc = "publish" THEN none ELSE thr[t].arg]
Gots == [t \in Threads |-> thr[t].got]

Carried(x, c, a, g) ==
  (\E i \in Indices : c[i] = x) \/ (\E t \in Threads : a[t] = x) \/ (\E t \in Threads : g[t] = x)

\* A block is in at most one place, and in one exactly when it is on its way.
Single(x, c, a, g) ==
  /\ \A i, j \in Indices : c[i] = x /\ c[j] = x => i = j
  /\ \A t, u \in Threads : a[t] = x /\ a[u] = x => t = u
  /\ \A t, u \in Threads : g[t] = x /\ g[u] = x => t = u
  /\ \A i \in Indices, t \in Threads : ~(c[i] = x /\ a[t] = x) /\ ~(c[i] = x /\ g[t] = x)
  /\ \A t, u \in Threads : ~(a[t] = x /\ g[u] = x)
OnceIn(c, a, g, w) ==
  \A x \in Blocks :
    Single(x, c, a, g) /\ (w[x] \in {"owed", "queued"} <=> Carried(x, c, a, g))
Once == OnceIn(Ptrs, Args, Gots, where)

Inv == Types /\ Section /\ Hands /\ Ring /\ Once

-------------------------------------------------------------------------------
(***************************************************************************)
(* Types, and who is in a critical section.                                *)
(***************************************************************************)

\* Thread t's step, in full.
New(t, pc, pos, arg, got) ==
  thr' = [thr EXCEPT ![t] = [pc |-> pc, pos |-> pos, arg |-> arg, got |-> got]]

\* The fields of the thread that stepped, and of the others.
LEMMA NewFields ==
  ASSUME Types, NEW t \in Threads, NEW pc, NEW pos, NEW arg, NEW got, New(t, pc, pos, arg, got)
  PROVE  /\ thr'[t].pc = pc /\ thr'[t].pos = pos /\ thr'[t].arg = arg /\ thr'[t].got = got
         /\ \A u \in Threads : u # t => thr'[u] = thr[u]
<1>1. thr'[t] = [pc |-> pc, pos |-> pos, arg |-> arg, got |-> got]
  BY DEF New, Types
<1> QED
  BY <1>1 DEF New, Types

\* A thread that steps to typed fields stays typed.
LEMMA NewType ==
  ASSUME Types, NEW t \in Threads, NEW pc \in PCs, NEW pos \in Nat,
         NEW arg \in Blocks \cup {none}, NEW got \in Blocks \cup {none},
         New(t, pc, pos, arg, got)
  PROVE  thr' \in [Threads -> ThreadType]
<1>1. [pc |-> pc, pos |-> pos, arg |-> arg, got |-> got] \in ThreadType
  BY DEF ThreadType
<1> QED
  BY <1>1 DEF New, Types

\* A record of a thread with one or two fields replaced.
LEMMA Fields ==
  ASSUME NEW r \in ThreadType, NEW pc \in PCs, NEW x
  PROVE  /\ [r EXCEPT !.pc = pc] = [pc |-> pc, pos |-> r.pos, arg |-> r.arg, got |-> r.got]
         /\ x \in Nat => [r EXCEPT !.pc = pc, !.pos = x]
                           = [pc |-> pc, pos |-> x, arg |-> r.arg, got |-> r.got]
         /\ x \in Blocks \cup {none} => [r EXCEPT !.pc = pc, !.arg = x]
                           = [pc |-> pc, pos |-> r.pos, arg |-> x, got |-> r.got]
         /\ x \in Blocks \cup {none} => [r EXCEPT !.pc = pc, !.got = x]
                           = [pc |-> pc, pos |-> r.pos, arg |-> r.arg, got |-> x]
<1>1. [r EXCEPT !.pc = pc] = [pc |-> pc, pos |-> r.pos, arg |-> r.arg, got |-> r.got]
  BY DEF ThreadType
<1>2. ASSUME x \in Nat
      PROVE  [r EXCEPT !.pc = pc, !.pos = x] = [pc |-> pc, pos |-> x, arg |-> r.arg, got |-> r.got]
  <2> DEFINE s == [r EXCEPT !.pc = pc, !.pos = x]
  <2>1. s \in ThreadType
    BY <1>2 DEF ThreadType
  <2>2. s.pc = pc /\ s.pos = x /\ s.arg = r.arg /\ s.got = r.got
    BY DEF ThreadType
  <2> HIDE DEF s
  <2>3. s = [pc |-> pc, pos |-> x, arg |-> r.arg, got |-> r.got]
    BY <2>1, <2>2 DEF ThreadType
  <2> QED
    BY <2>3 DEF s
<1>3. ASSUME x \in Blocks \cup {none}
      PROVE  [r EXCEPT !.pc = pc, !.arg = x] = [pc |-> pc, pos |-> r.pos, arg |-> x, got |-> r.got]
  <2> DEFINE s == [r EXCEPT !.pc = pc, !.arg = x]
  <2>1. s \in ThreadType
    BY <1>3 DEF ThreadType
  <2>2. s.pc = pc /\ s.pos = r.pos /\ s.arg = x /\ s.got = r.got
    BY DEF ThreadType
  <2> HIDE DEF s
  <2>3. s = [pc |-> pc, pos |-> r.pos, arg |-> x, got |-> r.got]
    BY <2>1, <2>2 DEF ThreadType
  <2> QED
    BY <2>3 DEF s
<1>4. ASSUME x \in Blocks \cup {none}
      PROVE  [r EXCEPT !.pc = pc, !.got = x] = [pc |-> pc, pos |-> r.pos, arg |-> r.arg, got |-> x]
  <2> DEFINE s == [r EXCEPT !.pc = pc, !.got = x]
  <2>1. s \in ThreadType
    BY <1>4 DEF ThreadType
  <2>2. s.pc = pc /\ s.pos = r.pos /\ s.arg = r.arg /\ s.got = x
    BY DEF ThreadType
  <2> HIDE DEF s
  <2>3. s = [pc |-> pc, pos |-> r.pos, arg |-> r.arg, got |-> x]
    BY <2>1, <2>2 DEF ThreadType
  <2> QED
    BY <2>3 DEF s
<1> QED
  BY <1>1, <1>2, <1>3, <1>4

\* Where a step takes its thread.
LEMMA Moves ==
  ASSUME Types, NEW t \in Threads, NEW pc \in PCs
  PROVE  /\ Goto(t, pc) => New(t, pc, thr[t].pos, thr[t].arg, thr[t].got)
         /\ \A x \in Nat : Becomes(t, [thr[t] EXCEPT !.pc = pc, !.pos = x]) =>
              New(t, pc, x, thr[t].arg, thr[t].got)
         /\ \A x \in Blocks \cup {none} :
              /\ Becomes(t, [thr[t] EXCEPT !.pc = pc, !.arg = x]) =>
                   New(t, pc, thr[t].pos, x, thr[t].got)
              /\ Becomes(t, [thr[t] EXCEPT !.pc = pc, !.got = x]) =>
                   New(t, pc, thr[t].pos, thr[t].arg, x)
<1>1. thr[t] \in ThreadType
  BY DEF Types
<1>2. Goto(t, pc) => New(t, pc, thr[t].pos, thr[t].arg, thr[t].got)
  <2>1. [thr[t] EXCEPT !.pc = pc]
          = [pc |-> pc, pos |-> thr[t].pos, arg |-> thr[t].arg, got |-> thr[t].got]
    BY <1>1, Fields
  <2> QED
    BY <2>1 DEF Goto, Becomes, New
<1>3. ASSUME NEW x \in Nat
      PROVE  Becomes(t, [thr[t] EXCEPT !.pc = pc, !.pos = x]) =>
               New(t, pc, x, thr[t].arg, thr[t].got)
  <2>1. [thr[t] EXCEPT !.pc = pc, !.pos = x]
          = [pc |-> pc, pos |-> x, arg |-> thr[t].arg, got |-> thr[t].got]
    BY <1>1, Fields
  <2> QED
    BY <2>1 DEF Becomes, New
<1>4. ASSUME NEW x \in Blocks \cup {none}
      PROVE  /\ Becomes(t, [thr[t] EXCEPT !.pc = pc, !.arg = x]) =>
                  New(t, pc, thr[t].pos, x, thr[t].got)
             /\ Becomes(t, [thr[t] EXCEPT !.pc = pc, !.got = x]) =>
                  New(t, pc, thr[t].pos, thr[t].arg, x)
  <2>1. [thr[t] EXCEPT !.pc = pc, !.arg = x]
          = [pc |-> pc, pos |-> thr[t].pos, arg |-> x, got |-> thr[t].got]
    BY <1>1, Fields
  <2>2. [thr[t] EXCEPT !.pc = pc, !.got = x]
          = [pc |-> pc, pos |-> thr[t].pos, arg |-> thr[t].arg, got |-> x]
    BY <1>1, Fields
  <2> QED
    BY <2>1, <2>2 DEF Becomes, New
<1> QED
  BY <1>2, <1>3, <1>4

\* The same, action by action.
LEMMA Effects ==
  ASSUME Types, NEW t \in Threads
  PROVE  /\ \A b \in Blocks : Begin(t, b) => New(t, "load", thr[t].pos, b, thr[t].got)
         /\ Load(t) \/ ClaimFails(t) => New(t, "look", head, thr[t].arg, thr[t].got)
         /\ Look(t) => \E pc \in {"claim", "full", "load"} :
              /\ New(t, pc, thr[t].pos, thr[t].arg, thr[t].got)
              /\ pc = "claim" => Diff(cell[Slot(thr[t].pos)].seq, thr[t].pos) = 0
              /\ pc = "full" => Diff(cell[Slot(thr[t].pos)].seq, thr[t].pos) < 0
         /\ ClaimWins(t) => New(t, "fill", thr[t].pos, thr[t].arg, thr[t].got)
         /\ Fill(t) => New(t, "publish", thr[t].pos, thr[t].arg, thr[t].got)
         /\ Publish(t) \/ FreeDirectly(t) => New(t, "idle", thr[t].pos, none, thr[t].got)
         /\ Fall(t) => New(t, "drain", thr[t].pos, thr[t].arg, thr[t].got)
         /\ PopLook(t) => \E pc \in {"take", "work"} :
              /\ New(t, pc, tail, thr[t].arg, thr[t].got)
              /\ pc = "take" => cell[Slot(tail)].seq = Plus(tail, 1)
         /\ PopAdvance(t) => New(t, "release", thr[t].pos, thr[t].arg, thr[t].got)
         /\ PopRelease(t) => \E pc \in {"work", "apply"} :
              /\ New(t, pc, thr[t].pos, thr[t].arg, thr[t].got)
              /\ pc = "work" => thr[t].got = none
         /\ Apply(t) => New(t, "drain", thr[t].pos, thr[t].arg, none)
         /\ t = Owner /\ Enter => \E pc \in {"drain", "work"} :
              New(t, pc, thr[t].pos, thr[t].arg, thr[t].got)
         /\ t = Owner /\ Leave => New(t, "idle", thr[t].pos, thr[t].arg, thr[t].got)
<1>0. /\ head \in Nat /\ tail \in Nat /\ none \in Blocks \cup {none}
      /\ \A b \in Blocks : b \in Blocks \cup {none}
      /\ \A pc \in {"claim", "full", "load", "look", "fill", "publish", "idle", "drain",
                    "take", "work", "release", "apply"} : pc \in PCs
  BY DEF Types, PCs
<1>g. \A pc \in PCs : Goto(t, pc) => New(t, pc, thr[t].pos, thr[t].arg, thr[t].got)
  BY Moves
<1>p. \A pc \in PCs, x \in Nat : Becomes(t, [thr[t] EXCEPT !.pc = pc, !.pos = x]) =>
              New(t, pc, x, thr[t].arg, thr[t].got)
  BY Moves
<1>a. \A pc \in PCs, x \in Blocks \cup {none} :
         /\ Becomes(t, [thr[t] EXCEPT !.pc = pc, !.arg = x]) =>
              New(t, pc, thr[t].pos, x, thr[t].got)
         /\ Becomes(t, [thr[t] EXCEPT !.pc = pc, !.got = x]) =>
              New(t, pc, thr[t].pos, thr[t].arg, x)
  BY Moves
<1>1. \A b \in Blocks : Begin(t, b) => New(t, "load", thr[t].pos, b, thr[t].got)
  BY <1>0, <1>a DEF Begin
<1>2. Load(t) \/ ClaimFails(t) => New(t, "look", head, thr[t].arg, thr[t].got)
  BY <1>0, <1>p DEF Load, ClaimFails
<1>3. Look(t) => \E pc \in {"claim", "full", "load"} :
        /\ New(t, pc, thr[t].pos, thr[t].arg, thr[t].got)
        /\ pc = "claim" => Diff(cell[Slot(thr[t].pos)].seq, thr[t].pos) = 0
        /\ pc = "full" => Diff(cell[Slot(thr[t].pos)].seq, thr[t].pos) < 0
  BY <1>0, <1>g DEF Look
<1>4. ClaimWins(t) => New(t, "fill", thr[t].pos, thr[t].arg, thr[t].got)
  BY <1>0, <1>g DEF ClaimWins
<1>5. Fill(t) => New(t, "publish", thr[t].pos, thr[t].arg, thr[t].got)
  BY <1>0, <1>g DEF Fill
<1>6. Publish(t) \/ FreeDirectly(t) => New(t, "idle", thr[t].pos, none, thr[t].got)
  BY <1>0, <1>a DEF Publish, FreeDirectly
<1>7. Fall(t) => New(t, "drain", thr[t].pos, thr[t].arg, thr[t].got)
  BY <1>0, <1>g DEF Fall
<1>8. PopLook(t) => \E pc \in {"take", "work"} :
        /\ New(t, pc, tail, thr[t].arg, thr[t].got)
        /\ pc = "take" => cell[Slot(tail)].seq = Plus(tail, 1)
  BY <1>0, <1>p DEF PopLook
<1>9. PopAdvance(t) => New(t, "release", thr[t].pos, thr[t].arg, thr[t].got)
  BY <1>0, <1>g DEF PopAdvance
<1>10. PopRelease(t) => \E pc \in {"work", "apply"} :
         /\ New(t, pc, thr[t].pos, thr[t].arg, thr[t].got)
         /\ pc = "work" => thr[t].got = none
  BY <1>0, <1>g DEF PopRelease
<1>11. Apply(t) => New(t, "drain", thr[t].pos, thr[t].arg, none)
  BY <1>0, <1>a DEF Apply
<1>12. t = Owner /\ Enter => \E pc \in {"drain", "work"} :
         New(t, pc, thr[t].pos, thr[t].arg, thr[t].got)
  BY <1>0, <1>g DEF Enter
<1>13. t = Owner /\ Leave => New(t, "idle", thr[t].pos, thr[t].arg, thr[t].got)
  BY <1>0, <1>g DEF Leave
<1> QED
  BY <1>1, <1>2, <1>3, <1>4, <1>5, <1>6, <1>7, <1>8, <1>9, <1>10, <1>11, <1>12, <1>13

\* The pop takes what the cell of its position holds, a block or nothing.
LEMMA TakeEffect ==
  ASSUME Types, NEW t \in Threads, PopTake(t)
  PROVE  /\ cell[Slot(thr[t].pos)].ptr \in Blocks \cup {none}
         /\ New(t, "advance", thr[t].pos, thr[t].arg, cell[Slot(thr[t].pos)].ptr)
<1>1. thr[t].pos \in Nat
  BY DEF Types, ThreadType
<1>2. cell[Slot(thr[t].pos)] \in CellType
  BY <1>1, SlotOf DEF Types
<1>3. cell[Slot(thr[t].pos)].ptr \in Blocks \cup {none} /\ "advance" \in PCs
  BY <1>2 DEF CellType, PCs
<1>4. Becomes(t, [thr[t] EXCEPT !.pc = "advance", !.got = cell[Slot(thr[t].pos)].ptr])
  BY DEF PopTake
<1> QED
  BY <1>3, <1>4, Moves

Critical == {"drain", "take", "advance", "release", "apply", "work"}

\* A step that moves one thread, takes or gives up the lock at most, and leaves the
\* others alone keeps the types, the critical sections and the hands.
LEMMA Tidy ==
  ASSUME Types, Section, Hands, NEW t \in Threads, NEW pc \in PCs, NEW pos \in Nat,
         NEW arg \in Blocks \cup {none}, NEW got \in Blocks \cup {none},
         New(t, pc, pos, arg, got),
         head' \in Nat, tail' \in Nat, cell' \in [Indices -> CellType],
         where' \in [Blocks -> {"heap", "held", "owed", "queued"}], frees' \in 0 .. MaxFrees,
         lock' = lock \/ (lock = none /\ lock' = t) \/ (lock = t /\ lock' = none),
         pc \in Critical => lock' = t,
         pc \notin {"advance", "release", "apply"} => got = none,
         t \in Producers /\ pc = "idle" => arg = none
  PROVE  Types' /\ Section' /\ Hands'
<1>1. /\ thr'[t].pc = pc /\ thr'[t].pos = pos /\ thr'[t].arg = arg /\ thr'[t].got = got
      /\ \A u \in Threads : u # t => thr'[u] = thr[u]
  BY NewFields
<1>2. Types'
  <2>1. thr' \in [Threads -> ThreadType]
    BY NewType
  <2>2. lock' \in Threads \cup {none}
    BY DEF Types
  <2> QED
    BY <2>1, <2>2 DEF Types
<1>3. Section'
  <2> SUFFICES ASSUME NEW u \in Threads, thr'[u].pc \in Critical
               PROVE  lock' = u
    BY DEF Section, Critical
  <2>1. none \notin Threads
    BY RingAssumption DEF Threads
  <2>2. CASE u = t
    BY <1>1, <2>2
  <2>3. CASE u # t
    <3>1. lock = u
      BY <1>1, <2>3 DEF Section, Critical
    <3> QED
      BY <2>1, <2>3, <3>1
  <2> QED
    BY <2>2, <2>3
<1>4. Hands'
  BY <1>1 DEF Hands, Threads
<1> QED
  BY <1>2, <1>3, <1>4

\* The fields of thread t as it stands.
LEMMA Standing ==
  ASSUME Types, NEW t \in Threads
  PROVE  /\ thr[t].pc \in PCs /\ thr[t].pos \in Nat
         /\ thr[t].arg \in Blocks \cup {none} /\ thr[t].got \in Blocks \cup {none}
  BY DEF Types, ThreadType

\* A cell whose pointer is replaced is still a cell.
LEMMA PtrType ==
  ASSUME Types, NEW i, NEW x \in Blocks \cup {none}
  PROVE  [cell EXCEPT ![i].ptr = x] \in [Indices -> CellType]
  BY DEF Types, CellType

\* A cell whose sequence number is replaced is still a cell.
LEMMA SeqType ==
  ASSUME Types, NEW i, NEW x \in Nat
  PROVE  [cell EXCEPT ![i].seq = x] \in [Indices -> CellType]
  BY DEF Types, CellType

\* A wrapped sum is a position.
LEMMA PlusType ==
  ASSUME NEW n \in Nat, NEW k \in Nat
  PROVE  Plus(n, k) \in Nat
<1>1. n + k \in Int /\ Wrap \in Nat \ {0}
  BY RingFacts
<1> QED
  BY <1>1, DivMod DEF Plus

\* A producer's steps keep the types, the critical sections and the hands.
LEMMA TidyProducer ==
  ASSUME Types, Section, Hands, NEW t \in Producers, Push(t) \/ \E b \in Blocks : Begin(t, b)
  PROVE  Types' /\ Section' /\ Hands'
<1>0. t \in Threads /\ none \in Blocks \cup {none}
  BY DEF Threads
<1>1. /\ thr[t].pc \in PCs /\ thr[t].pos \in Nat
      /\ thr[t].arg \in Blocks \cup {none} /\ thr[t].got \in Blocks \cup {none}
  BY <1>0, Standing
<1>2. head \in Nat /\ tail \in Nat /\ cell \in [Indices -> CellType] /\ frees \in 0 .. MaxFrees
      /\ where \in [Blocks -> {"heap", "held", "owed", "queued"}]
  BY DEF Types
<1>3. {"load", "look", "claim", "full", "fill", "publish", "idle", "drain"} \subseteq PCs
  BY DEF PCs
<1>4. thr[t].pc \notin {"advance", "release", "apply"} => thr[t].got = none
  BY <1>0 DEF Hands
<1>5. thr[t].pc \in Critical => lock = t
  BY <1>0 DEF Section, Critical
<1>6. \A b \in Blocks : b \in Blocks \cup {none}
  OBVIOUS
<1>7. ASSUME NEW b \in Blocks, Begin(t, b) PROVE Types' /\ Section' /\ Hands'
  <2>1. New(t, "load", thr[t].pos, b, thr[t].got)
    BY <1>0, <1>7, Effects
  <2>2. /\ where' \in [Blocks -> {"heap", "held", "owed", "queued"}]
        /\ head' = head /\ tail' = tail /\ cell' = cell /\ lock' = lock /\ thr[t].pc = "idle"
    BY <1>2, <1>7 DEF Begin, At
  <2>3. frees' = frees + 1 /\ frees < MaxFrees
    BY <1>7 DEF Begin
  <2>4. frees' \in 0 .. MaxFrees
    BY <1>2, <2>3, RingFacts
  <2> QED
    BY <1>0, <1>1, <1>2, <1>3, <1>4, <1>6, <2>1, <2>2, <2>4, Tidy DEF Critical
<1>8. CASE Load(t) \/ ClaimFails(t)
  <2>1. New(t, "look", head, thr[t].arg, thr[t].got)
    BY <1>0, <1>8, Effects
  <2>2. UNCHANGED <<head, tail, cell, lock, where, frees>> /\ thr[t].pc \in {"load", "claim"}
    BY <1>8 DEF Load, ClaimFails, At
  <2> QED
    BY <1>0, <1>1, <1>2, <1>3, <1>4, <2>1, <2>2, Tidy DEF Critical
<1>9. CASE Look(t)
  <2>1. PICK pc \in {"claim", "full", "load"} : New(t, pc, thr[t].pos, thr[t].arg, thr[t].got)
    BY <1>0, <1>9, Effects
  <2>2. UNCHANGED <<head, tail, cell, lock, where, frees>> /\ thr[t].pc = "look" /\ pc \in PCs
    BY <1>3, <1>9 DEF Look, At
  <2>3. pc \notin Critical /\ pc # "idle"
    BY <2>1 DEF Critical
  <2> QED
    BY <1>0, <1>1, <1>2, <1>3, <1>4, <2>1, <2>2, <2>3, Tidy
<1>10. CASE ClaimWins(t)
  <2>1. New(t, "fill", thr[t].pos, thr[t].arg, thr[t].got)
    BY <1>0, <1>10, Effects
  <2>2. UNCHANGED <<tail, cell, lock, where, frees>> /\ thr[t].pc = "claim" /\ head' \in Nat
    BY <1>2, <1>10, PlusType DEF ClaimWins, At
  <2> QED
    BY <1>0, <1>1, <1>2, <1>3, <1>4, <2>1, <2>2, Tidy DEF Critical
<1>11. CASE Fill(t)
  <2>1. New(t, "publish", thr[t].pos, thr[t].arg, thr[t].got)
    BY <1>0, <1>11, Effects
  <2>2. UNCHANGED <<head, tail, lock, where, frees>> /\ thr[t].pc = "fill"
    BY <1>11 DEF Fill, At
  <2>3. cell' \in [Indices -> CellType]
    BY <1>1, <1>11, PtrType DEF Fill
  <2> QED
    BY <1>0, <1>1, <1>2, <1>3, <1>4, <2>1, <2>2, <2>3, Tidy DEF Critical
<1>12. CASE Publish(t)
  <2>1. New(t, "idle", thr[t].pos, none, thr[t].got)
    BY <1>0, <1>12, Effects
  <2>2. UNCHANGED <<head, tail, lock, frees>> /\ thr[t].pc = "publish"
        /\ where' \in [Blocks -> {"heap", "held", "owed", "queued"}]
    BY <1>2, <1>12 DEF Publish, At
  <2>3. cell' \in [Indices -> CellType]
    BY <1>1, <1>12, SeqType, PlusType DEF Publish
  <2> QED
    BY <1>0, <1>1, <1>2, <1>3, <1>4, <2>1, <2>2, <2>3, Tidy DEF Critical
<1>13. CASE Fall(t)
  <2>1. New(t, "drain", thr[t].pos, thr[t].arg, thr[t].got)
    BY <1>0, <1>13, Effects
  <2>2. UNCHANGED <<head, tail, cell, where, frees>> /\ thr[t].pc = "full"
        /\ lock = none /\ lock' = t
    BY <1>13 DEF Fall, At
  <2> QED
    BY <1>0, <1>1, <1>2, <1>3, <1>4, <2>1, <2>2, Tidy
<1>14. CASE FreeDirectly(t)
  <2>1. New(t, "idle", thr[t].pos, none, thr[t].got)
    BY <1>0, <1>14, Effects
  <2>2. UNCHANGED <<head, tail, cell, frees>> /\ thr[t].pc = "work"
        /\ where' \in [Blocks -> {"heap", "held", "owed", "queued"}] /\ lock' = none
    BY <1>2, <1>14 DEF FreeDirectly, At
  <2>3. lock = t
    BY <1>5, <2>2 DEF Critical
  <2> QED
    BY <1>0, <1>1, <1>2, <1>3, <1>4, <2>1, <2>2, <2>3, Tidy DEF Critical
<1> QED
  BY <1>7, <1>8, <1>9, <1>10, <1>11, <1>12, <1>13, <1>14 DEF Push

\* So do the steps of whoever holds the lock, and of the owner.
LEMMA TidyHolder ==
  ASSUME Types, Section, Hands, NEW t \in Threads, Pop(t) \/ (t = Owner /\ (Enter \/ Leave))
  PROVE  Types' /\ Section' /\ Hands'
<1>0. none \in Blocks \cup {none} /\ Owner \notin Producers
  BY RingAssumption
<1>1. /\ thr[t].pc \in PCs /\ thr[t].pos \in Nat
      /\ thr[t].arg \in Blocks \cup {none} /\ thr[t].got \in Blocks \cup {none}
  BY Standing
<1>2. head \in Nat /\ tail \in Nat /\ cell \in [Indices -> CellType] /\ frees \in 0 .. MaxFrees
      /\ where \in [Blocks -> {"heap", "held", "owed", "queued"}]
  BY DEF Types
<1>3. {"drain", "take", "advance", "release", "apply", "work", "idle"} \subseteq PCs
  BY DEF PCs
<1>4. thr[t].pc \notin {"advance", "release", "apply"} => thr[t].got = none
  BY DEF Hands
<1>5. thr[t].pc \in Critical => lock = t
  BY DEF Section, Critical
<1>6. CASE PopLook(t)
  <2>1. PICK pc \in {"take", "work"} : New(t, pc, tail, thr[t].arg, thr[t].got)
    BY <1>6, Effects
  <2>2. UNCHANGED <<head, tail, cell, lock, where, frees>> /\ thr[t].pc = "drain" /\ pc \in PCs
    BY <1>3, <1>6 DEF PopLook, At
  <2>3. pc \in Critical /\ pc # "idle" /\ lock = t
    BY <1>5, <2>1, <2>2 DEF Critical
  <2> QED
    BY <1>1, <1>2, <1>4, <2>1, <2>2, <2>3, Tidy
<1>7. CASE PopTake(t)
  <2>1. /\ cell[Slot(thr[t].pos)].ptr \in Blocks \cup {none}
        /\ New(t, "advance", thr[t].pos, thr[t].arg, cell[Slot(thr[t].pos)].ptr)
    BY <1>7, TakeEffect
  <2>2. UNCHANGED <<head, tail, lock, where, frees>> /\ thr[t].pc = "take"
        /\ cell' \in [Indices -> CellType]
    BY <1>0, <1>7, PtrType DEF PopTake, At
  <2>3. lock = t
    BY <1>5, <2>2 DEF Critical
  <2> QED
    BY <1>1, <1>2, <1>3, <2>1, <2>2, <2>3, Tidy
<1>8. CASE PopAdvance(t)
  <2>1. New(t, "release", thr[t].pos, thr[t].arg, thr[t].got)
    BY <1>8, Effects
  <2>2. UNCHANGED <<head, cell, lock, where, frees>> /\ thr[t].pc = "advance" /\ tail' \in Nat
    BY <1>1, <1>8, PlusType DEF PopAdvance, At
  <2>3. lock = t
    BY <1>5, <2>2 DEF Critical
  <2> QED
    BY <1>1, <1>2, <1>3, <2>1, <2>2, <2>3, Tidy
<1>9. CASE PopRelease(t)
  <2>1. PICK pc \in {"work", "apply"} : /\ New(t, pc, thr[t].pos, thr[t].arg, thr[t].got)
                                        /\ pc = "work" => thr[t].got = none
    BY <1>9, Effects
  <2>2. UNCHANGED <<head, tail, lock, where, frees>> /\ thr[t].pc = "release" /\ pc \in PCs
    BY <1>3, <1>9 DEF PopRelease, At
  <2>3. lock = t /\ pc \in Critical /\ pc # "idle"
    BY <1>5, <2>1, <2>2 DEF Critical
  <2>4. cell' \in [Indices -> CellType]
    BY <1>1, <1>9, SeqType, PlusType, RingFacts DEF PopRelease
  <2> QED
    BY <1>1, <1>2, <2>1, <2>2, <2>3, <2>4, Tidy
<1>10. CASE Apply(t)
  <2>1. New(t, "drain", thr[t].pos, thr[t].arg, none)
    BY <1>10, Effects
  <2>2. UNCHANGED <<head, tail, cell, lock, frees>> /\ thr[t].pc = "apply"
        /\ where' \in [Blocks -> {"heap", "held", "owed", "queued"}]
    BY <1>2, <1>10 DEF Apply, At
  <2>3. lock = t
    BY <1>5, <2>2 DEF Critical
  <2> QED
    BY <1>0, <1>1, <1>2, <1>3, <2>1, <2>2, <2>3, Tidy
<1>11. CASE t = Owner /\ Enter
  <2>1. PICK pc \in {"drain", "work"} : New(t, pc, thr[t].pos, thr[t].arg, thr[t].got)
    BY <1>11, Effects
  <2>2. UNCHANGED <<head, tail, cell, where, frees>> /\ thr[t].pc = "idle" /\ pc \in PCs
        /\ lock = none /\ lock' = t
    BY <1>3, <1>11 DEF Enter, At
  <2>3. pc # "idle"
    BY <2>1
  <2> QED
    BY <1>1, <1>2, <1>4, <2>1, <2>2, <2>3, Tidy
<1>12. CASE t = Owner /\ Leave
  <2>1. New(t, "idle", thr[t].pos, thr[t].arg, thr[t].got)
    BY <1>12, Effects
  <2>2. UNCHANGED <<head, tail, cell, frees>> /\ thr[t].pc = "work" /\ lock' = none
        /\ where' \in [Blocks -> {"heap", "held", "owed", "queued"}]
    BY <1>2, <1>12 DEF Leave, At
  <2>3. lock = t
    BY <1>5, <2>2 DEF Critical
  <2> QED
    BY <1>0, <1>1, <1>2, <1>3, <1>4, <1>12, <2>1, <2>2, <2>3, Tidy DEF Critical
<1> QED
  BY <1>6, <1>7, <1>8, <1>9, <1>10, <1>11, <1>12 DEF Pop

-------------------------------------------------------------------------------
(***************************************************************************)
(* The ring.  A step of thread t changes the positions of t alone; what    *)
(* the others rely on is disturbed by none of them.                        *)
(***************************************************************************)
Early == {"load", "look", "claim"}

\* One thread's step changes the number of unclaimed frees by one at most.
LEMMA Counting ==
  ASSUME Types, NEW t \in Threads, NEW pc, NEW pos, NEW arg, NEW got, New(t, pc, pos, arg, got)
  PROVE  /\ Cardinality(Pushing) \in Nat /\ Cardinality(Pushing') \in Nat
         /\ (pc \in Early => t \in Pushing) => Cardinality(Pushing') <= Cardinality(Pushing)
         /\ Cardinality(Pushing') <= Cardinality(Pushing) + 1
         /\ t \in Pushing /\ pc \notin Early => Cardinality(Pushing') + 1 = Cardinality(Pushing)
<1>1. /\ thr'[t].pc = pc
      /\ \A u \in Threads : u # t => thr'[u] = thr[u]
  BY NewFields
<1>2. Producers \subseteq Threads /\ IsFiniteSet(Producers)
  BY RingAssumption DEF Threads
<1>3. IsFiniteSet(Pushing) /\ IsFiniteSet(Pushing')
  <2>1. Pushing \subseteq Producers /\ Pushing' \subseteq Producers
    BY DEF Pushing
  <2> QED
    BY <1>2, <2>1, FS_Subset
<1>4. Cardinality(Pushing) \in Nat /\ Cardinality(Pushing') \in Nat
  BY <1>3, FS_CardinalityType
<1>5. ASSUME pc \in Early => t \in Pushing
      PROVE  Cardinality(Pushing') <= Cardinality(Pushing)
  <2>1. Pushing' \subseteq Pushing
    BY <1>1, <1>2, <1>5 DEF Pushing, Early
  <2> QED
    BY <1>3, <2>1, FS_Subset
<1>6. Cardinality(Pushing') <= Cardinality(Pushing) + 1
  <2>1. Pushing' \subseteq Pushing \cup {t}
    BY <1>1, <1>2 DEF Pushing
  <2>2. /\ IsFiniteSet(Pushing \cup {t})
        /\ Cardinality(Pushing \cup {t}) = IF t \in Pushing THEN Cardinality(Pushing)
                                           ELSE Cardinality(Pushing) + 1
    BY <1>3, FS_AddElement
  <2>3. Cardinality(Pushing') <= Cardinality(Pushing \cup {t})
    BY <2>1, <2>2, FS_Subset
  <2> QED
    BY <1>4, <2>2, <2>3
<1>7. ASSUME t \in Pushing, pc \notin Early
      PROVE  Cardinality(Pushing') + 1 = Cardinality(Pushing)
  <2>1. Pushing' = Pushing \ {t}
    BY <1>1, <1>2, <1>7 DEF Pushing, Early
  <2>2. Cardinality(Pushing \ {t}) = Cardinality(Pushing) - 1
    BY <1>3, <1>7, FS_RemoveElement
  <2> QED
    BY <1>4, <2>1, <2>2
<1> QED
  BY <1>4, <1>5, <1>6, <1>7

\* A free that has not claimed, or does not begin, claims no more than before.
LEMMA CountedKept ==
  ASSUME Types, NEW t \in Threads, NEW pc, NEW pos, NEW arg, NEW got, New(t, pc, pos, arg, got),
         NEW b \in Nat, NEW h \in Nat, Counted(b, h),
         \/ (pc \in Early => t \in Pushing) /\ frees' = frees
         \/ frees' = frees + 1
  PROVE  Counted(b, h)'
<1>1. /\ Cardinality(Pushing) \in Nat /\ Cardinality(Pushing') \in Nat
      /\ (pc \in Early => t \in Pushing) => Cardinality(Pushing') <= Cardinality(Pushing)
      /\ Cardinality(Pushing') <= Cardinality(Pushing) + 1
  BY Counting
<1>2. frees \in Nat
  BY RingFacts DEF Types
<1>3. h + Cardinality(Pushing) <= b + frees
  BY DEF Counted
<1>4. h + Cardinality(Pushing') <= b + frees'
  BY <1>1, <1>2, <1>3
<1> QED
  BY <1>4 DEF Counted

\* How far apart the positions of the ring are.
LEMMA Spread ==
  ASSUME Types, NEW b, NEW h, NEW l, NEW p, NEW q, RingAt(b, h, l, p, q)
  PROVE  /\ b \in Nat /\ h \in Nat /\ l \in Nat
         /\ p \in [Threads -> Nat] /\ q \in [Indices -> Nat]
         /\ b <= l /\ l <= h /\ h <= b + MaxFrees
         /\ \A i \in Indices : q[i] \in Nat /\ b <= q[i] /\ q[i] <= h + Slots
         /\ \A t \in Threads : p[t] \in Nat
<1>1. b \in Nat /\ h \in Nat /\ l \in Nat /\ p \in [Threads -> Nat] /\ q \in [Indices -> Nat]
  BY DEF RingAt, Unwrapped
<1>2. IsFiniteSet(Pushing)
  <2>1. Pushing \subseteq Producers
    BY DEF Pushing
  <2> QED
    BY <2>1, FS_Subset, RingAssumption
<1>3. Cardinality(Pushing) \in Nat
  BY <1>2, FS_CardinalityType
<1>4. h + Cardinality(Pushing) <= b + frees /\ frees \in 0 .. MaxFrees
  BY DEF RingAt, Counted, Types
<1>5. h <= b + MaxFrees
  BY <1>1, <1>3, <1>4, RingFacts
<1> QED
  BY <1>1, <1>5 DEF RingAt, Bounded

\* A step that neither passes a cell nor hands one back.
LEMMA FloorKept ==
  ASSUME Types, NEW t \in Threads, NEW pc, NEW pos, NEW arg, NEW got, New(t, pc, pos, arg, got),
         pc # "release", thr[t].pc # "release", NEW l, NEW q, Floor(l, q)
  PROVE  Floor(l, q)'
<1>1. thr'[t].pc = pc /\ \A u \in Threads : u # t => thr'[u] = thr[u]
  BY NewFields
<1>2. Held' = Held
  BY <1>1 DEF Held
<1> QED
  BY <1>2 DEF Floor

\* A step that only moves its thread, and claims nothing.
LEMMA QuietRing ==
  ASSUME Types, NEW t \in Threads, NEW pc, NEW pos, NEW arg, NEW got, New(t, pc, pos, arg, got),
         UNCHANGED <<head, tail, cell>>,
         NEW b, NEW h, NEW l, NEW p, NEW q, RingAt(b, h, l, p, q),
         NEW n \in Nat, pos = Wrapped(n),
         \/ (pc \in Early => t \in Pushing) /\ frees' = frees
         \/ frees' = frees + 1,
         Station([pc |-> pc, pos |-> pos, arg |-> arg, got |-> got], n, b, h, l, q),
         pc \notin {"fill", "publish", "release"}, thr[t].pc \notin {"publish", "release"}
  PROVE  RingAt(b, h, l, [p EXCEPT ![t] = n], q)'
<1> DEFINE m == [p EXCEPT ![t] = n]
<1>1. /\ thr'[t].pc = pc /\ thr'[t].pos = pos /\ thr'[t].arg = arg /\ thr'[t].got = got
      /\ \A u \in Threads : u # t => thr'[u] = thr[u]
  BY NewFields
<1>2. b \in Nat /\ h \in Nat /\ l \in Nat /\ p \in [Threads -> Nat] /\ q \in [Indices -> Nat]
  BY Spread
<1>3. m \in [Threads -> Nat] /\ m[t] = n /\ \A u \in Threads : u # t => m[u] = p[u]
  BY <1>2
<1> HIDE DEF m
<1>4. Unwrapped(h, l, m, q)'
  BY <1>1, <1>2, <1>3 DEF RingAt, Unwrapped
<1>5. Counted(b, h)'
  BY <1>2, CountedKept DEF RingAt
<1>6. Bounded(b, h, l, q)'
  BY DEF RingAt, Bounded
<1>7. ASSUME NEW u \in Threads
      PROVE  Station(thr[u], m[u], b, h, l, q)'
  <2>1. CASE u = t
    BY <1>1, <1>3, <2>1 DEF Station
  <2>2. CASE u # t
    BY <1>1, <1>3, <2>2 DEF Station, RingAt
  <2> QED
    BY <2>1, <2>2
<1>8. Distinct(m)'
  BY <1>1, <1>3 DEF RingAt, Distinct
<1>9. Filled(m, q)'
  <2> SUFFICES ASSUME NEW i \in Indices, cell'[i].ptr # none, Slot(q[i]) = i
               PROVE  \E u \in Threads : thr'[u].pc = "publish" /\ Slot(m[u]) = i
    BY DEF Filled
  <2>1. PICK u \in Threads : thr[u].pc = "publish" /\ Slot(p[u]) = i
    BY DEF RingAt, Filled
  <2> QED
    BY <1>1, <1>3, <2>1
<1>10. Floor(l, q)'
  BY FloorKept DEF RingAt
<1> QED
  BY <1>2, <1>4, <1>5, <1>6, <1>7, <1>8, <1>9, <1>10 DEF RingAt, m

\* A claim wins the position the head is at, and the cell there is free.
LEMMA ClaimRing ==
  ASSUME Types, NEW t \in Producers, ClaimWins(t),
         NEW b, NEW h, NEW l, NEW p, NEW q, RingAt(b, h, l, p, q)
  PROVE  RingAt(b, h + 1, l, p, q)'
<1>0. t \in Threads
  BY DEF Threads
<1>1. /\ thr'[t].pc = "fill" /\ thr'[t].pos = thr[t].pos /\ thr'[t].arg = thr[t].arg
      /\ \A u \in Threads : u # t => thr'[u] = thr[u]
  BY <1>0, NewFields, Effects
<1>2. /\ b \in Nat /\ h \in Nat /\ l \in Nat
      /\ p \in [Threads -> Nat] /\ q \in [Indices -> Nat]
      /\ b <= l /\ l <= h /\ h <= b + MaxFrees
      /\ \A i \in Indices : q[i] \in Nat /\ b <= q[i] /\ q[i] <= h + Slots
      /\ \A u \in Threads : p[u] \in Nat
  BY Spread
<1>3. Slots \in Nat /\ MaxFrees \in Nat
  BY RingFacts
<1>4. thr[t].pc = "claim" /\ head = thr[t].pos /\ UNCHANGED <<tail, cell, frees>>
  BY DEF ClaimWins, At
<1>5. p[t] = h
  <2>1. Wrapped(p[t]) = Wrapped(h)
    BY <1>0, <1>4 DEF RingAt, Unwrapped
  <2>2. b <= p[t] /\ p[t] <= h
    BY <1>0, <1>4 DEF RingAt, Station
  <2>3. p[t] - h <= MaxFrees + Slots /\ h - p[t] <= MaxFrees + Slots
    BY <1>0, <1>2, <1>3, <2>2
  <2> QED
    BY <1>0, <1>2, <2>1, <2>3, EqualOf
<1>6. q[Slot(h)] = h
  BY <1>0, <1>4, <1>5 DEF RingAt, Station
<1>7. Unwrapped(h + 1, l, p, q)'
  <2>1. head' = Wrapped(h + 1)
    BY <1>2, PlusOf DEF ClaimWins, RingAt, Unwrapped
  <2> QED
    BY <1>1, <1>2, <1>4, <2>1 DEF RingAt, Unwrapped
<1>8. Counted(b, h + 1)'
  <2>1. t \in Pushing
    BY <1>4 DEF Pushing
  <2>2. /\ Cardinality(Pushing) \in Nat /\ Cardinality(Pushing') \in Nat
        /\ Cardinality(Pushing') + 1 = Cardinality(Pushing)
    BY <1>0, <2>1, Effects, Counting DEF Early
  <2>3. h + Cardinality(Pushing) <= b + frees /\ frees \in Nat
    BY RingFacts DEF RingAt, Counted, Types
  <2>4. h + 1 + Cardinality(Pushing') <= b + frees
    BY <1>2, <2>2, <2>3
  <2> QED
    BY <1>4, <2>4 DEF Counted
<1>9. Bounded(b, h + 1, l, q)'
  BY <1>2, <1>3 DEF RingAt, Bounded
<1>10. ASSUME NEW u \in Threads
       PROVE  Station(thr[u], p[u], b, h + 1, l, q)'
  <2>1. CASE u = t
    BY <1>1, <1>2, <1>5, <1>6, <2>1 DEF Station
  <2>2. CASE u # t
    <3>1. Station(thr[u], p[u], b, h, l, q) /\ thr'[u] = thr[u] /\ p[u] \in Nat
      BY <1>1, <1>2, <2>2 DEF RingAt
    <3> QED
      BY <1>2, <1>4, <3>1 DEF Station
  <2> QED
    BY <2>1, <2>2
<1>11. Distinct(p)'
  <2>1. \A u \in Threads : thr[u].pc \in {"fill", "publish"} => p[u] < h
    BY DEF RingAt, Station
  <2> QED
    BY <1>1, <1>2, <1>5, <2>1 DEF RingAt, Distinct
<1>12. Filled(p, q)'
  <2> SUFFICES ASSUME NEW i \in Indices, cell'[i].ptr # none, Slot(q[i]) = i
               PROVE  \E u \in Threads : thr'[u].pc = "publish" /\ Slot(p[u]) = i
    BY DEF Filled
  <2>1. PICK u \in Threads : thr[u].pc = "publish" /\ Slot(p[u]) = i
    BY <1>4 DEF RingAt, Filled
  <2> QED
    BY <1>1, <1>4, <2>1
<1>13. Floor(l, q)'
  <2>1. Floor(l, q) /\ thr[t].pc # "release"
    BY <1>4 DEF RingAt
  <2> QED
    BY <1>0, <2>1, Effects, FloorKept
<1> QED
  BY <1>2, <1>7, <1>8, <1>9, <1>10, <1>11, <1>12, <1>13 DEF RingAt

\* What replacing a cell's pointer changes.
LEMMA PtrSet ==
  ASSUME Types, NEW i \in Indices, NEW x, cell' = [cell EXCEPT ![i].ptr = x]
  PROVE  /\ cell'[i].ptr = x
         /\ \A j \in Indices : cell'[j].seq = cell[j].seq
         /\ \A j \in Indices : j # i => cell'[j].ptr = cell[j].ptr
  BY DEF Types, CellType

\* What replacing a cell's sequence number changes.
LEMMA SeqSet ==
  ASSUME Types, NEW i \in Indices, NEW x, cell' = [cell EXCEPT ![i].seq = x]
  PROVE  /\ cell'[i].seq = x
         /\ \A j \in Indices : cell'[j].ptr = cell[j].ptr
         /\ \A j \in Indices : j # i => cell'[j].seq = cell[j].seq
  BY DEF Types, CellType

Claimant == {"fill", "publish"}
Taker    == {"take", "advance", "release"}

\* A claimed cell is nobody else's, and neither is one that is being handed back.
LEMMA Apart ==
  ASSUME Types, Section, NEW b, NEW h, NEW l, NEW p, NEW q, RingAt(b, h, l, p, q),
         NEW t \in Threads, NEW u \in Threads, t # u
  PROVE  /\ thr[t].pc \in Claimant =>
              /\ thr[u].pc \in Claimant \cup Taker => Slot(p[u]) # Slot(p[t])
              /\ thr[u].pc = "claim" /\ p[u] = h => Slot(p[u]) # Slot(p[t])
         /\ thr[t].pc \in Taker =>
              /\ thr[u].pc \notin Taker
              /\ thr[u].pc \in Claimant => Slot(p[u]) # Slot(p[t])
              /\ thr[u].pc = "claim" /\ p[u] = h => Slot(p[u]) # Slot(p[t])
<1>1. p[t] \in Nat /\ p[u] \in Nat /\ h \in Nat
  BY Spread
<1>2. Slot(p[t] + 1) # Slot(p[t]) /\ Slot(p[u] + 1) # Slot(p[u])
  BY <1>1, SlotOf
<1>3. /\ thr[t].pc \in Claimant => q[Slot(p[t])] = p[t] /\ p[t] < h
      /\ thr[u].pc \in Claimant => q[Slot(p[u])] = p[u] /\ p[u] < h
      /\ thr[t].pc \in Taker => q[Slot(p[t])] = p[t] + 1
      /\ thr[u].pc \in Taker => q[Slot(p[u])] = p[u] + 1
      /\ thr[u].pc = "claim" /\ p[u] = h => q[Slot(p[u])] = h
  BY DEF RingAt, Station, Claimant, Taker
<1>4. thr[t].pc \in Taker => thr[u].pc \notin Taker
  BY DEF Section, Taker
<1>5. thr[t].pc \in Claimant /\ thr[u].pc \in Claimant => p[t] # p[u]
  BY DEF RingAt, Distinct, Claimant
<1> QED
  BY <1>1, <1>2, <1>3, <1>4, <1>5

\* The cell of a thread's position.
LEMMA CellOf ==
  ASSUME Types, NEW b, NEW h, NEW l, NEW p, NEW q, RingAt(b, h, l, p, q), NEW t \in Threads
  PROVE  /\ p[t] \in Nat /\ thr[t].pos = Wrapped(p[t])
         /\ Slot(thr[t].pos) = Slot(p[t]) /\ Slot(p[t]) \in Indices
<1>1. p[t] \in Nat /\ thr[t].pos = Wrapped(p[t])
  BY Spread DEF RingAt, Unwrapped
<1> QED
  BY <1>1, SlotOf

\* Writing the pointer into the claimed cell disturbs no other thread's cell.
LEMMA FillRing ==
  ASSUME Types, Section, NEW t \in Producers, Fill(t),
         NEW b, NEW h, NEW l, NEW p, NEW q, RingAt(b, h, l, p, q)
  PROVE  RingAt(b, h, l, p, q)'
<1>0. t \in Threads
  BY DEF Threads
<1>1. /\ thr'[t].pc = "publish" /\ thr'[t].pos = thr[t].pos /\ thr'[t].arg = thr[t].arg
      /\ \A u \in Threads : u # t => thr'[u] = thr[u]
  BY <1>0, NewFields, Effects
<1>2. /\ b \in Nat /\ h \in Nat /\ l \in Nat
      /\ p \in [Threads -> Nat] /\ q \in [Indices -> Nat]
      /\ \A u \in Threads : p[u] \in Nat
  BY Spread
<1>3. thr[t].pc = "fill" /\ UNCHANGED <<head, tail, frees>>
  BY DEF Fill, At
<1>4. Slot(thr[t].pos) = Slot(p[t]) /\ Slot(p[t]) \in Indices
  BY <1>0, CellOf
<1>5. /\ cell'[Slot(p[t])].ptr = thr[t].arg
      /\ \A j \in Indices : cell'[j].seq = cell[j].seq
      /\ \A j \in Indices : j # Slot(p[t]) => cell'[j].ptr = cell[j].ptr
  BY <1>4, PtrSet DEF Fill
<1>6. Unwrapped(h, l, p, q)'
  BY <1>1, <1>2, <1>3, <1>5 DEF RingAt, Unwrapped
<1>7. Counted(b, h)'
  BY <1>0, <1>2, <1>3, Effects, CountedKept DEF RingAt, Early
<1>8. Bounded(b, h, l, q)'
  BY DEF RingAt, Bounded
<1>9. ASSUME NEW u \in Threads
      PROVE  Station(thr[u], p[u], b, h, l, q)'
  <2>1. CASE u = t
    <3>1. Station(thr[t], p[t], b, h, l, q)
      BY <1>0 DEF RingAt
    <3> QED
      BY <1>1, <1>3, <1>5, <2>1, <3>1 DEF Station
  <2>2. CASE u # t
    <3>1. Station(thr[u], p[u], b, h, l, q) /\ thr'[u] = thr[u] /\ Slot(p[u]) \in Indices
      BY <1>1, <2>2, CellOf DEF RingAt
    <3>2. thr[u].pc \in {"publish", "advance", "release"} => Slot(p[u]) # Slot(p[t])
      BY <1>0, <1>3, <2>2, Apart DEF Claimant, Taker
    <3> QED
      BY <1>5, <3>1, <3>2 DEF Station
  <2> QED
    BY <2>1, <2>2
<1>10. Distinct(p)'
  BY <1>1, <1>3 DEF RingAt, Distinct
<1>11. Filled(p, q)'
  <2> SUFFICES ASSUME NEW i \in Indices, cell'[i].ptr # none, Slot(q[i]) = i
               PROVE  \E u \in Threads : thr'[u].pc = "publish" /\ Slot(p[u]) = i
    BY DEF Filled
  <2>1. CASE i = Slot(p[t])
    BY <1>0, <1>1, <2>1
  <2>2. CASE i # Slot(p[t])
    <3>1. PICK u \in Threads : thr[u].pc = "publish" /\ Slot(p[u]) = i
      BY <1>5, <2>2 DEF RingAt, Filled
    <3> QED
      BY <1>1, <1>3, <3>1
  <2> QED
    BY <2>1, <2>2
<1>12. Floor(l, q)'
  <2>1. Floor(l, q) /\ thr[t].pc # "release"
    BY <1>3 DEF RingAt
  <2> QED
    BY <1>0, <2>1, Effects, FloorKept
<1> QED
  BY <1>2, <1>6, <1>7, <1>8, <1>9, <1>10, <1>11, <1>12 DEF RingAt

\* Publishing moves the cell's number one past its position.
LEMMA PublishRing ==
  ASSUME Types, Section, NEW t \in Producers, Publish(t),
         NEW b, NEW h, NEW l, NEW p, NEW q, RingAt(b, h, l, p, q)
  PROVE  RingAt(b, h, l, p, [q EXCEPT ![Slot(p[t])] = p[t] + 1])'
<1> DEFINE s == [q EXCEPT ![Slot(p[t])] = p[t] + 1]
<1>0. t \in Threads
  BY DEF Threads
<1>1. /\ thr'[t].pc = "idle" /\ thr'[t].pos = thr[t].pos
      /\ \A u \in Threads : u # t => thr'[u] = thr[u]
  BY <1>0, NewFields, Effects
<1>2. /\ b \in Nat /\ h \in Nat /\ l \in Nat
      /\ p \in [Threads -> Nat] /\ q \in [Indices -> Nat]
      /\ \A i \in Indices : q[i] \in Nat /\ b <= q[i] /\ q[i] <= h + Slots
      /\ \A u \in Threads : p[u] \in Nat
  BY Spread
<1>3. thr[t].pc = "publish" /\ UNCHANGED <<head, tail, frees>> /\ Slots \in Nat
  BY RingFacts DEF Publish, At
<1>4. /\ Slot(thr[t].pos) = Slot(p[t]) /\ Slot(p[t]) \in Indices
      /\ thr[t].pos = Wrapped(p[t]) /\ Slot(p[t] + 1) # Slot(p[t])
  BY <1>0, CellOf, SlotOf
<1>5. /\ cell'[Slot(p[t])].seq = Wrapped(p[t] + 1)
      /\ \A j \in Indices : cell'[j].ptr = cell[j].ptr
      /\ \A j \in Indices : j # Slot(p[t]) => cell'[j].seq = cell[j].seq
  <2>1. cell' = [cell EXCEPT ![Slot(p[t])].seq = Wrapped(p[t] + 1)]
    BY <1>0, <1>2, <1>4, PlusOf DEF Publish
  <2> QED
    BY <1>4, <2>1, SeqSet
<1>6. /\ s \in [Indices -> Nat] /\ s[Slot(p[t])] = p[t] + 1
      /\ \A j \in Indices : j # Slot(p[t]) => s[j] = q[j]
  BY <1>0, <1>2, <1>4
<1>7. b <= p[t] /\ p[t] < h
  BY <1>0, <1>3 DEF RingAt, Station
<1> HIDE DEF s
<1>8. Unwrapped(h, l, p, s)'
  BY <1>1, <1>2, <1>3, <1>5, <1>6 DEF RingAt, Unwrapped
<1>9. Counted(b, h)'
  BY <1>0, <1>2, <1>3, Effects, CountedKept DEF RingAt, Early
<1>10. Bounded(b, h, l, s)'
  <2>1. b <= l /\ l <= h
    BY DEF RingAt, Bounded
  <2>2. ASSUME NEW i \in Indices
        PROVE  b <= s[i] /\ s[i] <= h + Slots /\ (Slot(s[i]) # i => s[i] <= h)
    <3>1. CASE i = Slot(p[t])
      BY <1>0, <1>2, <1>3, <1>6, <1>7, <3>1
    <3>2. CASE i # Slot(p[t])
      BY <1>6, <3>2 DEF RingAt, Bounded
    <3> QED
      BY <3>1, <3>2
  <2> QED
    BY <2>1, <2>2 DEF Bounded
<1>11. ASSUME NEW u \in Threads
       PROVE  Station(thr[u], p[u], b, h, l, s)'
  <2>1. CASE u = t
    BY <1>1, <2>1 DEF Station
  <2>2. CASE u # t
    <3>1. Station(thr[u], p[u], b, h, l, q) /\ thr'[u] = thr[u] /\ Slot(p[u]) \in Indices
      BY <1>1, <2>2, CellOf DEF RingAt
    <3>2. /\ thr[u].pc \in Claimant \cup Taker => Slot(p[u]) # Slot(p[t])
          /\ thr[u].pc = "claim" /\ p[u] = h => Slot(p[u]) # Slot(p[t])
      BY <1>0, <1>3, <2>2, Apart DEF Claimant
    <3> QED
      BY <1>5, <1>6, <3>1, <3>2 DEF Station, Claimant, Taker
  <2> QED
    BY <2>1, <2>2
<1>12. Distinct(p)'
  BY <1>1 DEF RingAt, Distinct
<1>13. Filled(p, s)'
  <2> SUFFICES ASSUME NEW i \in Indices, cell'[i].ptr # none, Slot(s[i]) = i
               PROVE  \E u \in Threads : thr'[u].pc = "publish" /\ Slot(p[u]) = i
    BY DEF Filled
  <2>1. i # Slot(p[t])
    BY <1>4, <1>6
  <2>2. PICK u \in Threads : thr[u].pc = "publish" /\ Slot(p[u]) = i
    BY <1>5, <1>6, <2>1 DEF RingAt, Filled
  <2> QED
    BY <1>1, <2>1, <2>2
<1>14. Floor(l, s)'
  <2>1. Floor(l, s)
    <3> SUFFICES ASSUME NEW i \in Indices
                 PROVE  \E m \in Nat : Slot(m) = i /\ l <= m + Held /\ (s[i] = m \/ s[i] = m + 1)
      BY DEF Floor
    <3>1. PICK m \in Nat : Slot(m) = i /\ l <= m + Held /\ (q[i] = m \/ q[i] = m + 1)
      BY DEF RingAt, Floor
    <3>2. CASE i = Slot(p[t])
      <4>1. q[i] = p[t]
        BY <1>0, <1>3, <3>2 DEF RingAt, Station
      <4>2. m = p[t]
        BY <3>1, <3>2, <4>1, SlotOf
      <4> QED
        BY <1>6, <3>1, <3>2, <4>2
    <3>3. CASE i # Slot(p[t])
      BY <1>6, <3>1, <3>3
    <3> QED
      BY <3>2, <3>3
  <2>2. thr[t].pc # "release"
    BY <1>3
  <2> QED
    BY <1>0, <2>1, <2>2, Effects, FloorKept
<1> QED
  BY <1>2, <1>8, <1>9, <1>10, <1>11, <1>12, <1>13, <1>14 DEF RingAt, s

\* Emptying the cell at the tail disturbs nobody.
LEMMA TakeRing ==
  ASSUME Types, Section, NEW t \in Threads, PopTake(t),
         NEW b, NEW h, NEW l, NEW p, NEW q, RingAt(b, h, l, p, q)
  PROVE  RingAt(b, h, l, p, q)'
<1>1. /\ thr'[t].pc = "advance" /\ thr'[t].pos = thr[t].pos
      /\ \A u \in Threads : u # t => thr'[u] = thr[u]
  BY NewFields, TakeEffect
<1>2. /\ b \in Nat /\ h \in Nat /\ l \in Nat
      /\ p \in [Threads -> Nat] /\ q \in [Indices -> Nat]
      /\ \A u \in Threads : p[u] \in Nat
  BY Spread
<1>3. thr[t].pc = "take" /\ UNCHANGED <<head, tail, frees>>
  BY DEF PopTake, At
<1>4. Slot(thr[t].pos) = Slot(p[t]) /\ Slot(p[t]) \in Indices
  BY CellOf
<1>5. /\ cell'[Slot(p[t])].ptr = none
      /\ \A j \in Indices : cell'[j].seq = cell[j].seq
      /\ \A j \in Indices : j # Slot(p[t]) => cell'[j].ptr = cell[j].ptr
  BY <1>4, PtrSet DEF PopTake
<1>6. Unwrapped(h, l, p, q)'
  BY <1>1, <1>2, <1>3, <1>5 DEF RingAt, Unwrapped
<1>7. Counted(b, h)'
  BY <1>2, <1>3, TakeEffect, CountedKept DEF RingAt, Early
<1>8. Bounded(b, h, l, q)'
  BY DEF RingAt, Bounded
<1>9. ASSUME NEW u \in Threads
      PROVE  Station(thr[u], p[u], b, h, l, q)'
  <2>1. CASE u = t
    <3>1. Station(thr[t], p[t], b, h, l, q)
      BY DEF RingAt
    <3> QED
      BY <1>1, <1>3, <1>5, <2>1, <3>1 DEF Station
  <2>2. CASE u # t
    <3>1. Station(thr[u], p[u], b, h, l, q) /\ thr'[u] = thr[u] /\ Slot(p[u]) \in Indices
      BY <1>1, <2>2, CellOf DEF RingAt
    <3>2. /\ thr[u].pc \notin Taker
          /\ thr[u].pc = "publish" => Slot(p[u]) # Slot(p[t])
      BY <1>3, <2>2, Apart DEF Claimant, Taker
    <3> QED
      BY <1>5, <3>1, <3>2 DEF Station, Taker
  <2> QED
    BY <2>1, <2>2
<1>10. Distinct(p)'
  BY <1>1 DEF RingAt, Distinct
<1>11. Filled(p, q)'
  <2> SUFFICES ASSUME NEW i \in Indices, cell'[i].ptr # none, Slot(q[i]) = i
               PROVE  \E u \in Threads : thr'[u].pc = "publish" /\ Slot(p[u]) = i
    BY DEF Filled
  <2>1. PICK u \in Threads : thr[u].pc = "publish" /\ Slot(p[u]) = i
    BY <1>5 DEF RingAt, Filled
  <2> QED
    BY <1>1, <1>3, <2>1
<1>12. Floor(l, q)'
  <2>1. Floor(l, q) /\ thr[t].pc # "release"
    BY <1>3 DEF RingAt
  <2> QED
    BY <2>1, TakeEffect, FloorKept
<1> QED
  BY <1>2, <1>6, <1>7, <1>8, <1>9, <1>10, <1>11, <1>12 DEF RingAt

\* The tail passes a published cell, so it does not pass the head.
LEMMA AdvanceRing ==
  ASSUME Types, Section, NEW t \in Threads, PopAdvance(t),
         NEW b, NEW h, NEW l, NEW p, NEW q, RingAt(b, h, l, p, q)
  PROVE  RingAt(b, h, l + 1, p, q)'
<1>1. /\ thr'[t].pc = "release" /\ thr'[t].pos = thr[t].pos
      /\ \A u \in Threads : u # t => thr'[u] = thr[u]
  BY NewFields, Effects
<1>2. /\ b \in Nat /\ h \in Nat /\ l \in Nat
      /\ p \in [Threads -> Nat] /\ q \in [Indices -> Nat]
      /\ \A u \in Threads : p[u] \in Nat
  BY Spread
<1>3. thr[t].pc = "advance" /\ UNCHANGED <<head, cell, frees>>
  BY DEF PopAdvance, At
<1>4. /\ p[t] = l /\ q[Slot(l)] = l + 1 /\ cell[Slot(l)].ptr = none
      /\ thr[t].pos = Wrapped(l) /\ Slot(l) \in Indices /\ Slot(l + 1) # Slot(l)
  <2>1. p[t] = l /\ q[Slot(l)] = l + 1 /\ cell[Slot(l)].ptr = none
    BY <1>3 DEF RingAt, Station
  <2> QED
    BY <1>2, <2>1, CellOf, SlotOf
<1>5. Unwrapped(h, l + 1, p, q)'
  <2>1. tail' = Wrapped(l + 1)
    BY <1>2, <1>4, PlusOf DEF PopAdvance
  <2> QED
    BY <1>1, <1>2, <1>3, <2>1 DEF RingAt, Unwrapped
<1>6. Counted(b, h)'
  BY <1>2, <1>3, Effects, CountedKept DEF RingAt, Early
<1>7. Bounded(b, h, l + 1, q)'
  BY <1>2, <1>4 DEF RingAt, Bounded
<1>8. ASSUME NEW u \in Threads
      PROVE  Station(thr[u], p[u], b, h, l + 1, q)'
  <2>1. CASE u = t
    BY <1>1, <1>3, <1>4, <2>1 DEF Station
  <2>2. CASE u # t
    <3>1. Station(thr[u], p[u], b, h, l, q) /\ thr'[u] = thr[u]
      BY <1>1, <2>2 DEF RingAt
    <3>2. thr[u].pc \notin Taker
      BY <1>3, <2>2, Apart DEF Taker
    <3> QED
      BY <1>3, <3>1, <3>2 DEF Station, Taker
  <2> QED
    BY <2>1, <2>2
<1>9. Distinct(p)'
  BY <1>1 DEF RingAt, Distinct
<1>10. Filled(p, q)'
  <2> SUFFICES ASSUME NEW i \in Indices, cell'[i].ptr # none, Slot(q[i]) = i
               PROVE  \E u \in Threads : thr'[u].pc = "publish" /\ Slot(p[u]) = i
    BY DEF Filled
  <2>1. PICK u \in Threads : thr[u].pc = "publish" /\ Slot(p[u]) = i
    BY <1>3 DEF RingAt, Filled
  <2> QED
    BY <1>1, <1>3, <2>1
<1>11. Floor(l + 1, q)'
  <2>1. Held = 0 /\ Held' = 1
    <3>1. \A u \in Threads : thr[u].pc # "release"
      BY <1>3, Apart DEF Taker
    <3> QED
      BY <1>1, <3>1 DEF Held
  <2>2. ASSUME NEW i \in Indices
        PROVE  \E m \in Nat : Slot(m) = i /\ l + 1 <= m + 1 /\ (q[i] = m \/ q[i] = m + 1)
    <3>1. PICK m \in Nat : Slot(m) = i /\ l <= m + 0 /\ (q[i] = m \/ q[i] = m + 1)
      BY <2>1 DEF RingAt, Floor
    <3>2. l + 1 <= m + 1
      BY <1>2, <3>1
    <3> QED
      BY <3>1, <3>2
  <2> QED
    BY <2>1, <2>2 DEF Floor
<1> QED
  BY <1>2, <1>5, <1>6, <1>7, <1>8, <1>9, <1>10, <1>11 DEF RingAt

\* The cell goes back a lap ahead, empty.
LEMMA ReleaseRing ==
  ASSUME Types, Section, NEW t \in Threads, PopRelease(t),
         NEW b, NEW h, NEW l, NEW p, NEW q, RingAt(b, h, l, p, q)
  PROVE  RingAt(b, h, l, p, [q EXCEPT ![Slot(p[t])] = p[t] + Slots])'
<1> DEFINE s == [q EXCEPT ![Slot(p[t])] = p[t] + Slots]
<1>0. PICK pc \in {"work", "apply"} : New(t, pc, thr[t].pos, thr[t].arg, thr[t].got)
  BY Effects
<1>1. /\ thr'[t].pc \in {"work", "apply"} /\ thr'[t].pos = thr[t].pos
      /\ \A u \in Threads : u # t => thr'[u] = thr[u]
  BY <1>0, NewFields
<1>2. /\ b \in Nat /\ h \in Nat /\ l \in Nat
      /\ p \in [Threads -> Nat] /\ q \in [Indices -> Nat]
      /\ b <= l /\ l <= h
      /\ \A i \in Indices : q[i] \in Nat /\ b <= q[i] /\ q[i] <= h + Slots
      /\ \A u \in Threads : p[u] \in Nat
  BY Spread
<1>3. thr[t].pc = "release" /\ UNCHANGED <<head, tail, frees>> /\ Slots \in Nat /\ Slots > 1
  BY RingFacts DEF PopRelease, At
<1>4. /\ Slot(thr[t].pos) = Slot(p[t]) /\ Slot(p[t]) \in Indices
      /\ thr[t].pos = Wrapped(p[t]) /\ Slot(p[t] + Slots) = Slot(p[t])
  BY CellOf, SlotOf
<1>5. /\ cell'[Slot(p[t])].seq = Wrapped(p[t] + Slots)
      /\ \A j \in Indices : cell'[j].ptr = cell[j].ptr
      /\ \A j \in Indices : j # Slot(p[t]) => cell'[j].seq = cell[j].seq
  <2>1. cell' = [cell EXCEPT ![Slot(p[t])].seq = Wrapped(p[t] + Slots)]
    BY <1>2, <1>3, <1>4, PlusOf DEF PopRelease
  <2> QED
    BY <1>4, <2>1, SeqSet
<1>6. /\ s \in [Indices -> Nat] /\ s[Slot(p[t])] = p[t] + Slots
      /\ \A j \in Indices : j # Slot(p[t]) => s[j] = q[j]
  BY <1>2, <1>3, <1>4
<1>7. p[t] + 1 = l /\ cell[Slot(p[t])].ptr = none /\ q[Slot(p[t])] = p[t] + 1
  BY <1>3 DEF RingAt, Station
<1> HIDE DEF s
<1>8. Unwrapped(h, l, p, s)'
  BY <1>1, <1>2, <1>3, <1>5, <1>6 DEF RingAt, Unwrapped
<1>9. Counted(b, h)'
  BY <1>0, <1>2, <1>3, CountedKept DEF RingAt, Early
<1>10. Bounded(b, h, l, s)'
  <2>1. ASSUME NEW i \in Indices
        PROVE  b <= s[i] /\ s[i] <= h + Slots /\ (Slot(s[i]) # i => s[i] <= h)
    <3>1. CASE i = Slot(p[t])
      <4>1. b <= p[t] + 1
        BY <1>2, <1>4, <1>7
      <4> QED
        BY <1>2, <1>3, <1>4, <1>6, <1>7, <3>1, <4>1
    <3>2. CASE i # Slot(p[t])
      BY <1>6, <3>2 DEF RingAt, Bounded
    <3> QED
      BY <3>1, <3>2
  <2> QED
    BY <1>2, <2>1 DEF Bounded
<1>11. ASSUME NEW u \in Threads
       PROVE  Station(thr[u], p[u], b, h, l, s)'
  <2>1. CASE u = t
    BY <1>1, <2>1 DEF Station
  <2>2. CASE u # t
    <3>1. Station(thr[u], p[u], b, h, l, q) /\ thr'[u] = thr[u] /\ Slot(p[u]) \in Indices
      BY <1>1, <2>2, CellOf DEF RingAt
    <3>2. /\ thr[u].pc \notin Taker
          /\ thr[u].pc \in Claimant => Slot(p[u]) # Slot(p[t])
          /\ thr[u].pc = "claim" /\ p[u] = h => Slot(p[u]) # Slot(p[t])
      BY <1>3, <2>2, Apart DEF Taker
    <3> QED
      BY <1>5, <1>6, <3>1, <3>2 DEF Station, Claimant, Taker
  <2> QED
    BY <2>1, <2>2
<1>12. Distinct(p)'
  BY <1>1 DEF RingAt, Distinct
<1>13. Filled(p, s)'
  <2> SUFFICES ASSUME NEW i \in Indices, cell'[i].ptr # none, Slot(s[i]) = i
               PROVE  \E u \in Threads : thr'[u].pc = "publish" /\ Slot(p[u]) = i
    BY DEF Filled
  <2>1. i # Slot(p[t])
    BY <1>5, <1>7
  <2>2. PICK u \in Threads : thr[u].pc = "publish" /\ Slot(p[u]) = i
    BY <1>5, <1>6, <2>1 DEF RingAt, Filled
  <2> QED
    BY <1>1, <1>3, <2>1, <2>2
<1>14. Floor(l, s)'
  <2>1. Held = 1 /\ Held' = 0
    <3>1. \A u \in Threads : u # t => thr[u].pc # "release"
      BY <1>3, Apart DEF Taker
    <3> QED
      BY <1>1, <1>3, <3>1 DEF Held
  <2>2. ASSUME NEW i \in Indices
        PROVE  \E m \in Nat : Slot(m) = i /\ l <= m /\ (s[i] = m \/ s[i] = m + 1)
    <3>1. CASE i = Slot(p[t])
      <4>1. p[t] + Slots \in Nat /\ l <= p[t] + Slots
        BY <1>2, <1>3, <1>7
      <4> QED
        BY <1>4, <1>6, <3>1, <4>1
    <3>2. CASE i # Slot(p[t])
      <4>1. PICK m \in Nat : Slot(m) = i /\ l <= m + 1 /\ (q[i] = m \/ q[i] = m + 1)
        BY <2>1 DEF RingAt, Floor
      <4>2. m # p[t]
        BY <3>2, <4>1
      <4>3. l <= m
        BY <1>2, <1>7, <4>1, <4>2
      <4> QED
        BY <1>6, <3>2, <4>1, <4>3
    <3> QED
      BY <3>1, <3>2
  <2>3. \A i \in Indices : \E m \in Nat :
          Slot(m) = i /\ l <= m + 0 /\ (s[i] = m \/ s[i] = m + 1)
    BY <1>2, <2>2
  <2> QED
    BY <2>1, <2>3 DEF Floor
<1> QED
  BY <1>2, <1>8, <1>9, <1>10, <1>11, <1>12, <1>13, <1>14 DEF RingAt, s

\* A producer's steps keep the ring.
LEMMA RingProducer ==
  ASSUME Types, Section, Ring, NEW t \in Producers, Push(t) \/ \E x \in Blocks : Begin(t, x)
  PROVE  Ring'
<1>0. t \in Threads
  BY DEF Threads
<1>1. PICK b, h, l, p, q : RingAt(b, h, l, p, q)
  BY DEF Ring
<1>2. /\ b \in Nat /\ h \in Nat /\ l \in Nat
      /\ b <= l /\ l <= h /\ h <= b + MaxFrees
      /\ \A i \in Indices : q[i] \in Nat /\ b <= q[i] /\ q[i] <= h + Slots
  BY <1>1, Spread
<1>3. /\ p[t] \in Nat /\ thr[t].pos = Wrapped(p[t])
      /\ Slot(thr[t].pos) = Slot(p[t]) /\ Slot(p[t]) \in Indices
  BY <1>0, <1>1, CellOf
<1>4. ASSUME NEW x \in Blocks, Begin(t, x) PROVE Ring'
  <2>1. New(t, "load", thr[t].pos, x, thr[t].got)
    BY <1>0, <1>4, Effects
  <2>2. UNCHANGED <<head, tail, cell>> /\ frees' = frees + 1 /\ thr[t].pc \notin {"publish", "release"}
    BY <1>4 DEF Begin, At
  <2>3. Station([pc |-> "load", pos |-> thr[t].pos, arg |-> x, got |-> thr[t].got],
                p[t], b, h, l, q)
    BY DEF Station
  <2>4. RingAt(b, h, l, [p EXCEPT ![t] = p[t]], q)'
    BY <1>0, <1>1, <1>3, <2>1, <2>2, <2>3, QuietRing
  <2> QED
    BY <2>4 DEF Ring
<1>5. CASE Load(t) \/ ClaimFails(t)
  <2>1. New(t, "look", head, thr[t].arg, thr[t].got)
    BY <1>0, <1>5, Effects
  <2>2. UNCHANGED <<head, tail, cell, frees>> /\ thr[t].pc \in {"load", "claim"}
    BY <1>5 DEF Load, ClaimFails, At
  <2>3. head = Wrapped(h) /\ t \in Pushing
    BY <1>1, <2>2 DEF RingAt, Unwrapped, Pushing
  <2>4. Station([pc |-> "look", pos |-> head, arg |-> thr[t].arg, got |-> thr[t].got],
                h, b, h, l, q)
    BY <1>2 DEF Station
  <2>5. RingAt(b, h, l, [p EXCEPT ![t] = h], q)'
    BY <1>0, <1>1, <1>2, <2>1, <2>2, <2>3, <2>4, QuietRing
  <2> QED
    BY <2>5 DEF Ring
<1>6. CASE Look(t)
  <2>1. PICK pc \in {"claim", "full", "load"} :
          /\ New(t, pc, thr[t].pos, thr[t].arg, thr[t].got)
          /\ pc = "claim" => Diff(cell[Slot(thr[t].pos)].seq, thr[t].pos) = 0
    BY <1>0, <1>6, Effects
  <2>2. UNCHANGED <<head, tail, cell, frees>> /\ thr[t].pc = "look" /\ t \in Pushing
    BY <1>6 DEF Look, At, Pushing
  <2>3. b <= p[t] /\ p[t] <= h
    BY <1>0, <1>1, <2>2 DEF RingAt, Station
  <2>4. ASSUME pc = "claim" PROVE q[Slot(p[t])] = p[t]
    <3>1. cell[Slot(p[t])].seq = Wrapped(q[Slot(p[t])]) /\ q[Slot(p[t])] \in Nat
      BY <1>1, <1>2, <1>3 DEF RingAt, Unwrapped
    <3>2. Wrapped(q[Slot(p[t])]) \in 0 .. Wrap - 1 /\ Wrapped(p[t]) \in 0 .. Wrap - 1
      BY <1>3, <3>1, SlotOf
    <3>3. Diff(Wrapped(q[Slot(p[t])]), Wrapped(p[t])) = 0
      BY <1>3, <2>1, <2>4, <3>1
    <3>4. Wrapped(q[Slot(p[t])]) = Wrapped(p[t])
      BY <3>2, <3>3, DiffZero
    <3>5. /\ q[Slot(p[t])] - p[t] <= MaxFrees + Slots
          /\ p[t] - q[Slot(p[t])] <= MaxFrees + Slots
      <4>1. b <= q[Slot(p[t])] /\ q[Slot(p[t])] <= h + Slots
        BY <1>2, <1>3
      <4> QED
        BY <1>2, <1>3, <2>3, <3>1, <4>1, RingFacts
    <3> QED
      BY <1>3, <3>1, <3>4, <3>5, EqualOf
  <2>5. Station([pc |-> pc, pos |-> thr[t].pos, arg |-> thr[t].arg, got |-> thr[t].got],
                p[t], b, h, l, q)
    BY <2>1, <2>3, <2>4 DEF Station
  <2>6. pc \notin {"fill", "publish", "release"}
    BY <2>1
  <2>7. RingAt(b, h, l, [p EXCEPT ![t] = p[t]], q)'
    BY <1>0, <1>1, <1>3, <2>1, <2>2, <2>5, <2>6, QuietRing
  <2> QED
    BY <2>7 DEF Ring
<1>7. CASE ClaimWins(t)
  BY <1>1, <1>7, ClaimRing DEF Ring
<1>8. CASE Fill(t)
  BY <1>1, <1>8, FillRing DEF Ring
<1>9. CASE Publish(t)
  <2>1. RingAt(b, h, l, p, [q EXCEPT ![Slot(p[t])] = p[t] + 1])'
    BY <1>1, <1>9, PublishRing
  <2> QED
    BY <2>1 DEF Ring
<1>10. CASE Fall(t)
  <2>1. New(t, "drain", thr[t].pos, thr[t].arg, thr[t].got)
    BY <1>0, <1>10, Effects
  <2>2. UNCHANGED <<head, tail, cell, frees>> /\ thr[t].pc \notin {"publish", "release"}
    BY <1>10 DEF Fall, At
  <2>3. Station([pc |-> "drain", pos |-> thr[t].pos, arg |-> thr[t].arg, got |-> thr[t].got],
                p[t], b, h, l, q)
    BY DEF Station
  <2>4. RingAt(b, h, l, [p EXCEPT ![t] = p[t]], q)'
    BY <1>0, <1>1, <1>3, <2>1, <2>2, <2>3, QuietRing DEF Early
  <2> QED
    BY <2>4 DEF Ring
<1>11. CASE FreeDirectly(t)
  <2>1. New(t, "idle", thr[t].pos, none, thr[t].got)
    BY <1>0, <1>11, Effects
  <2>2. UNCHANGED <<head, tail, cell, frees>> /\ thr[t].pc \notin {"publish", "release"}
    BY <1>11 DEF FreeDirectly, At
  <2>3. Station([pc |-> "idle", pos |-> thr[t].pos, arg |-> none, got |-> thr[t].got],
                p[t], b, h, l, q)
    BY DEF Station
  <2>4. RingAt(b, h, l, [p EXCEPT ![t] = p[t]], q)'
    BY <1>0, <1>1, <1>3, <2>1, <2>2, <2>3, QuietRing DEF Early
  <2> QED
    BY <2>4 DEF Ring
<1> QED
  BY <1>4, <1>5, <1>6, <1>7, <1>8, <1>9, <1>10, <1>11 DEF Push

\* So do the drain's and the owner's.
LEMMA RingHolder ==
  ASSUME Types, Section, Ring, NEW t \in Threads, Pop(t) \/ (t = Owner /\ (Enter \/ Leave))
  PROVE  Ring'
<1>1. PICK b, h, l, p, q : RingAt(b, h, l, p, q)
  BY DEF Ring
<1>2. /\ b \in Nat /\ h \in Nat /\ l \in Nat
      /\ b <= l /\ l <= h /\ h <= b + MaxFrees
      /\ \A i \in Indices : q[i] \in Nat /\ b <= q[i] /\ q[i] <= h + Slots
  BY <1>1, Spread
<1>3. /\ p[t] \in Nat /\ thr[t].pos = Wrapped(p[t])
  BY <1>1, CellOf
<1>4. CASE PopLook(t)
  <2>1. PICK pc \in {"take", "work"} :
          /\ New(t, pc, tail, thr[t].arg, thr[t].got)
          /\ pc = "take" => cell[Slot(tail)].seq = Plus(tail, 1)
    BY <1>4, Effects
  <2>2. UNCHANGED <<head, tail, cell, frees>> /\ thr[t].pc = "drain"
    BY <1>4 DEF PopLook, At
  <2>3. tail = Wrapped(l)
    BY <1>1 DEF RingAt, Unwrapped
  <2>4. ASSUME pc = "take" PROVE q[Slot(l)] = l + 1
    <3>1. Slot(l) \in Indices /\ Slot(tail) = Slot(l)
      BY <1>2, <2>3, SlotOf
    <3>2. cell[Slot(l)].seq = Wrapped(q[Slot(l)]) /\ q[Slot(l)] \in Nat
          /\ b <= q[Slot(l)] /\ q[Slot(l)] <= h + Slots
      BY <1>1, <1>2, <3>1 DEF RingAt, Unwrapped
    <3>3. Wrapped(q[Slot(l)]) = Wrapped(l + 1)
      BY <1>2, <2>1, <2>3, <2>4, <3>1, <3>2, PlusOf
    <3>4. q[Slot(l)] - (l + 1) <= MaxFrees + Slots /\ (l + 1) - q[Slot(l)] <= MaxFrees + Slots
      BY <1>2, <3>2, RingFacts
    <3> QED
      BY <1>2, <3>2, <3>3, <3>4, EqualOf
  <2>5. Station([pc |-> pc, pos |-> tail, arg |-> thr[t].arg, got |-> thr[t].got],
                l, b, h, l, q)
    BY <2>1, <2>4 DEF Station
  <2>6. pc \notin {"fill", "publish", "release"} /\ pc \notin Early
    BY <2>1 DEF Early
  <2>7. RingAt(b, h, l, [p EXCEPT ![t] = l], q)'
    BY <1>1, <1>2, <2>1, <2>2, <2>3, <2>5, <2>6, QuietRing
  <2> QED
    BY <2>7 DEF Ring
<1>5. CASE PopTake(t)
  BY <1>1, <1>5, TakeRing DEF Ring
<1>6. CASE PopAdvance(t)
  BY <1>1, <1>6, AdvanceRing DEF Ring
<1>7. CASE PopRelease(t)
  <2>1. RingAt(b, h, l, p, [q EXCEPT ![Slot(p[t])] = p[t] + Slots])'
    BY <1>1, <1>7, ReleaseRing
  <2> QED
    BY <2>1 DEF Ring
<1>8. CASE Apply(t) \/ (t = Owner /\ (Enter \/ Leave))
  <2>1. PICK pc, got :
          pc \in {"drain", "work", "idle"} /\ New(t, pc, thr[t].pos, thr[t].arg, got)
    BY <1>8, Effects
  <2>2. UNCHANGED <<head, tail, cell, frees>> /\ thr[t].pc \notin {"publish", "release"}
    BY <1>8 DEF Apply, Enter, Leave, At
  <2>3. Station([pc |-> pc, pos |-> thr[t].pos, arg |-> thr[t].arg, got |-> got],
                p[t], b, h, l, q)
    BY <2>1 DEF Station
  <2>4. pc \notin {"fill", "publish", "release"} /\ pc \notin Early
    BY <2>1 DEF Early
  <2>5. RingAt(b, h, l, [p EXCEPT ![t] = p[t]], q)'
    BY <1>1, <1>3, <2>1, <2>2, <2>3, <2>4, QuietRing
  <2> QED
    BY <2>5 DEF Ring
<1> QED
  BY <1>4, <1>5, <1>6, <1>7, <1>8 DEF Pop

-------------------------------------------------------------------------------
(***************************************************************************)
(* The one place a block is in.                                            *)
(***************************************************************************)
Pointers == Blocks \cup {none}
Labels   == {"heap", "held", "owed", "queued"}

\* A free begins.
LEMMA OnceBegin ==
  ASSUME NEW c, NEW a \in [Threads -> Pointers], NEW g, NEW w \in [Blocks -> Labels],
         OnceIn(c, a, g, w),
         NEW t \in Threads, NEW x \in Blocks, a[t] = none, w[x] \notin {"owed", "queued"}
  PROVE  OnceIn(c, [a EXCEPT ![t] = x], g, [w EXCEPT ![x] = "owed"])
<1> DEFINE d == [a EXCEPT ![t] = x]
           v == [w EXCEPT ![x] = "owed"]
<1>1. d[t] = x /\ \A u \in Threads : u # t => d[u] = a[u]
  OBVIOUS
<1>2. v[x] = "owed" /\ \A y \in Blocks : y # x => v[y] = w[y]
  OBVIOUS
<1>3. none \notin Blocks /\ ~Carried(x, c, a, g)
  BY RingAssumption DEF OnceIn
<1> HIDE DEF d, v
<1>4. Single(x, c, d, g) /\ Carried(x, c, d, g)
  BY <1>1, <1>3 DEF Single, Carried
<1>5. ASSUME NEW y \in Blocks, y # x
      PROVE  Single(y, c, d, g) /\ (Carried(y, c, d, g) <=> Carried(y, c, a, g))
  BY <1>1, <1>3, <1>5 DEF OnceIn, Single, Carried
<1>6. OnceIn(c, d, g, v)
  BY <1>2, <1>4, <1>5 DEF OnceIn
<1> QED
  BY <1>6 DEF d, v

\* The pointer goes into a cell that is empty.
LEMMA OnceFill ==
  ASSUME NEW c \in [Indices -> Pointers], NEW a \in [Threads -> Pointers], NEW g, NEW w,
         OnceIn(c, a, g, w),
         NEW t \in Threads, NEW i \in Indices, c[i] = none
  PROVE  OnceIn([c EXCEPT ![i] = a[t]], [a EXCEPT ![t] = none], g, w)
<1> DEFINE e == [c EXCEPT ![i] = a[t]]
           d == [a EXCEPT ![t] = none]
<1>1. d[t] = none /\ \A u \in Threads : u # t => d[u] = a[u]
  OBVIOUS
<1>2. e[i] = a[t] /\ \A j \in Indices : j # i => e[j] = c[j]
  OBVIOUS
<1>3. none \notin Blocks
  BY RingAssumption
<1> HIDE DEF d, e
<1>4. ASSUME NEW y \in Blocks, Single(y, c, a, g)
      PROVE  Single(y, e, d, g) /\ (Carried(y, e, d, g) <=> Carried(y, c, a, g))
  <2>1. CASE y = a[t]
    BY <1>1, <1>2, <1>3, <1>4, <2>1 DEF Single, Carried
  <2>2. CASE y # a[t]
    BY <1>1, <1>2, <1>3, <1>4, <2>2 DEF Single, Carried
  <2> QED
    BY <2>1, <2>2
<1>5. OnceIn(e, d, g, w)
  BY <1>4 DEF OnceIn
<1> QED
  BY <1>5 DEF d, e

\* The thread that frees a block applies it itself.
LEMMA OnceFree ==
  ASSUME NEW c, NEW a \in [Threads -> Pointers], NEW g, NEW w \in [Blocks -> Labels],
         OnceIn(c, a, g, w), NEW t \in Threads
  PROVE  OnceIn(c, [a EXCEPT ![t] = none], g, [w EXCEPT ![a[t]] = "heap"])
<1> DEFINE d == [a EXCEPT ![t] = none]
           v == [w EXCEPT ![a[t]] = "heap"]
<1>1. d[t] = none /\ \A u \in Threads : u # t => d[u] = a[u]
  OBVIOUS
<1>2. \A y \in Blocks : v[y] = IF y = a[t] THEN "heap" ELSE w[y]
  OBVIOUS
<1>3. none \notin Blocks
  BY RingAssumption
<1> HIDE DEF d, v
<1>4. ASSUME NEW y \in Blocks, y = a[t]
      PROVE  Single(y, c, d, g) /\ ~Carried(y, c, d, g)
  BY <1>1, <1>3, <1>4 DEF OnceIn, Single, Carried
<1>5. ASSUME NEW y \in Blocks, y # a[t]
      PROVE  Single(y, c, d, g) /\ (Carried(y, c, d, g) <=> Carried(y, c, a, g))
  BY <1>1, <1>3, <1>5 DEF OnceIn, Single, Carried
<1>6. OnceIn(c, d, g, v)
  BY <1>2, <1>4, <1>5 DEF OnceIn
<1> QED
  BY <1>6 DEF d, v

\* A drain takes the pointer out of a cell.
LEMMA OncePop ==
  ASSUME NEW c \in [Indices -> Pointers], NEW a, NEW g \in [Threads -> Pointers], NEW w,
         OnceIn(c, a, g, w),
         NEW t \in Threads, NEW i \in Indices, g[t] = none
  PROVE  OnceIn([c EXCEPT ![i] = none], a, [g EXCEPT ![t] = c[i]], w)
<1> DEFINE e == [c EXCEPT ![i] = none]
           d == [g EXCEPT ![t] = c[i]]
<1>1. d[t] = c[i] /\ \A u \in Threads : u # t => d[u] = g[u]
  OBVIOUS
<1>2. e[i] = none /\ \A j \in Indices : j # i => e[j] = c[j]
  OBVIOUS
<1>3. none \notin Blocks
  BY RingAssumption
<1> HIDE DEF d, e
<1>4. ASSUME NEW y \in Blocks, Single(y, c, a, g)
      PROVE  Single(y, e, a, d) /\ (Carried(y, e, a, d) <=> Carried(y, c, a, g))
  <2>1. CASE y = c[i]
    BY <1>1, <1>2, <1>3, <1>4, <2>1 DEF Single, Carried
  <2>2. CASE y # c[i]
    BY <1>1, <1>2, <1>3, <1>4, <2>2 DEF Single, Carried
  <2> QED
    BY <2>1, <2>2
<1>5. OnceIn(e, a, d, w)
  BY <1>4 DEF OnceIn
<1> QED
  BY <1>5 DEF d, e

\* A drain applies the block it popped.
LEMMA OnceApply ==
  ASSUME NEW c, NEW a, NEW g \in [Threads -> Pointers], NEW w \in [Blocks -> Labels],
         OnceIn(c, a, g, w), NEW t \in Threads
  PROVE  OnceIn(c, a, [g EXCEPT ![t] = none], [w EXCEPT ![g[t]] = "heap"])
<1> DEFINE d == [g EXCEPT ![t] = none]
           v == [w EXCEPT ![g[t]] = "heap"]
<1>1. d[t] = none /\ \A u \in Threads : u # t => d[u] = g[u]
  OBVIOUS
<1>2. \A y \in Blocks : v[y] = IF y = g[t] THEN "heap" ELSE w[y]
  OBVIOUS
<1>3. none \notin Blocks
  BY RingAssumption
<1> HIDE DEF d, v
<1>4. ASSUME NEW y \in Blocks, y = g[t]
      PROVE  Single(y, c, a, d) /\ ~Carried(y, c, a, d)
  BY <1>1, <1>3, <1>4 DEF OnceIn, Single, Carried
<1>5. ASSUME NEW y \in Blocks, y # g[t]
      PROVE  Single(y, c, a, d) /\ (Carried(y, c, a, d) <=> Carried(y, c, a, g))
  BY <1>1, <1>3, <1>5 DEF OnceIn, Single, Carried
<1>6. OnceIn(c, a, d, v)
  BY <1>2, <1>4, <1>5 DEF OnceIn
<1> QED
  BY <1>6 DEF d, v

\* The three kinds of place a block can be in, and what they hold.
LEMMA Places ==
  ASSUME Types
  PROVE  /\ Ptrs \in [Indices -> Pointers] /\ \A i \in Indices : Ptrs[i] = cell[i].ptr
         /\ Args \in [Threads -> Pointers] /\ Gots \in [Threads -> Pointers]
         /\ \A t \in Threads : Gots[t] = thr[t].got
         /\ \A t \in Threads : Args[t] = IF thr[t].pc = "publish" THEN none ELSE thr[t].arg
  BY DEF Types, CellType, ThreadType, Ptrs, Args, Gots, Pointers

\* A step changes what its own thread holds.
LEMMA PlacesMoved ==
  ASSUME Types, NEW t \in Threads, NEW pc, NEW pos, NEW arg, NEW got, New(t, pc, pos, arg, got)
  PROVE  /\ Args' = [Args EXCEPT ![t] = IF pc = "publish" THEN none ELSE arg]
         /\ Gots' = [Gots EXCEPT ![t] = got]
<1>1. /\ thr'[t].pc = pc /\ thr'[t].arg = arg /\ thr'[t].got = got
      /\ \A u \in Threads : u # t => thr'[u] = thr[u]
  BY NewFields
<1>2. Args' = [Args EXCEPT ![t] = IF pc = "publish" THEN none ELSE arg]
  BY <1>1 DEF Args
<1>3. Gots' = [Gots EXCEPT ![t] = got]
  BY <1>1 DEF Gots
<1> QED
  BY <1>2, <1>3

\* A thread that keeps its blocks keeps its places.
LEMMA PlacesKept ==
  ASSUME Types, NEW t \in Threads, NEW pc, NEW pos, New(t, pc, pos, thr[t].arg, thr[t].got),
         pc # "publish", thr[t].pc # "publish"
  PROVE  Args' = Args /\ Gots' = Gots
<1>1. Args' = [Args EXCEPT ![t] = thr[t].arg] /\ Gots' = [Gots EXCEPT ![t] = thr[t].got]
  BY PlacesMoved
<1>2. Args \in [Threads -> Pointers] /\ Gots \in [Threads -> Pointers]
      /\ Args[t] = thr[t].arg /\ Gots[t] = thr[t].got
  BY Places
<1> QED
  BY <1>1, <1>2

\* A cell's pointer changes when it is written, and not with its number.
LEMMA PtrsSet ==
  ASSUME Types, NEW i \in Indices, NEW x
  PROVE  /\ cell' = [cell EXCEPT ![i].ptr = x] => Ptrs' = [Ptrs EXCEPT ![i] = x]
         /\ cell' = [cell EXCEPT ![i].seq = x] => Ptrs' = Ptrs
<1>1. ASSUME cell' = [cell EXCEPT ![i].ptr = x] PROVE Ptrs' = [Ptrs EXCEPT ![i] = x]
  BY <1>1, PtrSet DEF Ptrs
<1>2. ASSUME cell' = [cell EXCEPT ![i].seq = x] PROVE Ptrs' = Ptrs
  BY <1>2, SeqSet DEF Ptrs
<1> QED
  BY <1>1, <1>2

\* What a producer finds in the cell it claimed.
LEMMA Handover ==
  ASSUME Types, Section, Ring, NEW t \in Threads
  PROVE  /\ Slot(thr[t].pos) \in Indices
         /\ thr[t].pc = "fill" => cell[Slot(thr[t].pos)].ptr = none
         /\ thr[t].pc = "publish" => cell[Slot(thr[t].pos)].ptr = thr[t].arg
<1>1. PICK b, h, l, p, q : RingAt(b, h, l, p, q)
  BY DEF Ring
<1>2. Slot(thr[t].pos) = Slot(p[t]) /\ Slot(p[t]) \in Indices
  BY <1>1, CellOf
<1>3. thr[t].pc = "publish" => cell[Slot(p[t])].ptr = thr[t].arg
  BY <1>1 DEF RingAt, Station
<1>4. ASSUME thr[t].pc = "fill", cell[Slot(p[t])].ptr # none PROVE FALSE
  <2>1. q[Slot(p[t])] = p[t]
    BY <1>1, <1>4 DEF RingAt, Station
  <2>2. PICK u \in Threads : thr[u].pc = "publish" /\ Slot(p[u]) = Slot(p[t])
    BY <1>1, <1>2, <1>4, <2>1 DEF RingAt, Filled
  <2>3. t # u
    BY <1>4, <2>2
  <2> QED
    BY <1>1, <1>4, <2>2, <2>3, Apart DEF Claimant
<1> QED
  BY <1>2, <1>3, <1>4

\* A producer's steps keep every block in one place.
LEMMA OnceProducer ==
  ASSUME Types, Section, Hands, Ring, Once, NEW t \in Producers,
         Push(t) \/ \E x \in Blocks : Begin(t, x)
  PROVE  Once'
<1>0. t \in Threads /\ where \in [Blocks -> Labels]
  BY DEF Threads, Types, Labels
<1>1. /\ Ptrs \in [Indices -> Pointers] /\ \A i \in Indices : Ptrs[i] = cell[i].ptr
      /\ Args \in [Threads -> Pointers] /\ Gots \in [Threads -> Pointers]
      /\ Gots[t] = thr[t].got
      /\ Args[t] = IF thr[t].pc = "publish" THEN none ELSE thr[t].arg
  BY <1>0, Places
<1>2. OnceIn(Ptrs, Args, Gots, where)
  BY DEF Once
<1>3. [Gots EXCEPT ![t] = thr[t].got] = Gots
  BY <1>1
<1>4. ASSUME NEW x \in Blocks, Begin(t, x) PROVE Once'
  <2>1. Args' = [Args EXCEPT ![t] = x] /\ Gots' = Gots
    BY <1>0, <1>3, <1>4, Effects, PlacesMoved
  <2>2. thr[t].pc = "idle" /\ where[x] = "held" /\ cell' = cell
        /\ where' = [where EXCEPT ![x] = "owed"]
    BY <1>4 DEF Begin, At
  <2>3. Ptrs' = Ptrs
    BY <2>2 DEF Ptrs
  <2>4. Args[t] = none
    BY <1>1, <2>2 DEF Hands
  <2>5. OnceIn(Ptrs, [Args EXCEPT ![t] = x], Gots, [where EXCEPT ![x] = "owed"])
    BY <1>0, <1>1, <1>2, <2>2, <2>4, OnceBegin
  <2> QED
    BY <2>1, <2>2, <2>3, <2>5 DEF Once
<1>5. CASE Load(t) \/ ClaimFails(t) \/ Look(t) \/ ClaimWins(t) \/ Fall(t)
  <2>1. PICK pc, pos :
          /\ pc \in {"look", "claim", "full", "load", "fill", "drain"}
          /\ New(t, pc, pos, thr[t].arg, thr[t].got)
    BY <1>0, <1>5, Effects
  <2>2. thr[t].pc # "publish" /\ UNCHANGED <<cell, where>>
    BY <1>5 DEF Load, ClaimFails, Look, ClaimWins, Fall, At
  <2>3. Args' = Args /\ Gots' = Gots
    BY <1>0, <2>1, <2>2, PlacesKept
  <2>4. Ptrs' = Ptrs
    BY <2>2 DEF Ptrs
  <2> QED
    BY <1>2, <2>2, <2>3, <2>4 DEF Once
<1>6. CASE Fill(t)
  <2>1. Args' = [Args EXCEPT ![t] = none] /\ Gots' = Gots
    BY <1>0, <1>3, <1>6, Effects, PlacesMoved
  <2>2. thr[t].pc = "fill" /\ where' = where
        /\ cell' = [cell EXCEPT ![Slot(thr[t].pos)].ptr = thr[t].arg]
    BY <1>6 DEF Fill, At
  <2>3. Slot(thr[t].pos) \in Indices /\ cell[Slot(thr[t].pos)].ptr = none
    BY <1>0, <2>2, Handover
  <2>4. Ptrs' = [Ptrs EXCEPT ![Slot(thr[t].pos)] = Args[t]]
    BY <1>1, <2>2, <2>3, PtrsSet
  <2>5. Ptrs[Slot(thr[t].pos)] = none
    BY <1>1, <2>3
  <2>6. OnceIn([Ptrs EXCEPT ![Slot(thr[t].pos)] = Args[t]], [Args EXCEPT ![t] = none],
               Gots, where)
    BY <1>0, <1>1, <1>2, <2>3, <2>5, OnceFill
  <2> QED
    BY <2>1, <2>2, <2>4, <2>6 DEF Once
<1>7. CASE Publish(t)
  <2>1. Args' = [Args EXCEPT ![t] = none] /\ Gots' = Gots
    BY <1>0, <1>3, <1>7, Effects, PlacesMoved
  <2>2. thr[t].pc = "publish" /\ where' = [where EXCEPT ![thr[t].arg] = "queued"]
        /\ cell' = [cell EXCEPT ![Slot(thr[t].pos)].seq = Plus(thr[t].pos, 1)]
    BY <1>7 DEF Publish, At
  <2>3. Slot(thr[t].pos) \in Indices /\ cell[Slot(thr[t].pos)].ptr = thr[t].arg
    BY <1>0, <2>2, Handover
  <2>4. Ptrs' = Ptrs
    BY <2>2, <2>3, PtrsSet
  <2>5. Args' = Args
    BY <1>0, <1>1, <2>1, <2>2
  <2>6. ASSUME NEW x \in Blocks
        PROVE  Single(x, Ptrs, Args, Gots)
               /\ (where'[x] \in {"owed", "queued"} <=> Carried(x, Ptrs, Args, Gots))
    <3>1. where'[x] = IF x = thr[t].arg THEN "queued" ELSE where[x]
      BY <1>0, <2>2
    <3>2. x = thr[t].arg => Carried(x, Ptrs, Args, Gots)
      BY <1>1, <2>3 DEF Carried
    <3> QED
      BY <1>2, <3>1, <3>2 DEF OnceIn
  <2> QED
    BY <2>1, <2>4, <2>5, <2>6 DEF Once, OnceIn
<1>8. CASE FreeDirectly(t)
  <2>1. Args' = [Args EXCEPT ![t] = none] /\ Gots' = Gots
    BY <1>0, <1>3, <1>8, Effects, PlacesMoved
  <2>2. thr[t].pc = "work" /\ where' = [where EXCEPT ![thr[t].arg] = "heap"] /\ cell' = cell
    BY <1>8 DEF FreeDirectly, At
  <2>3. Ptrs' = Ptrs
    BY <2>2 DEF Ptrs
  <2>4. OnceIn(Ptrs, [Args EXCEPT ![t] = none], Gots, [where EXCEPT ![Args[t]] = "heap"])
    BY <1>0, <1>1, <1>2, OnceFree
  <2>5. Args[t] = thr[t].arg
    BY <1>1, <2>2
  <2> QED
    BY <2>1, <2>2, <2>3, <2>4, <2>5 DEF Once
<1> QED
  BY <1>4, <1>5, <1>6, <1>7, <1>8 DEF Push

\* So do the drain's and the owner's.
LEMMA OnceHolder ==
  ASSUME Types, Section, Hands, Ring, Once, NEW t \in Threads,
         Pop(t) \/ (t = Owner /\ (Enter \/ Leave))
  PROVE  Once'
<1>0. where \in [Blocks -> Labels]
  BY DEF Types, Labels
<1>1. /\ Ptrs \in [Indices -> Pointers] /\ \A i \in Indices : Ptrs[i] = cell[i].ptr
      /\ Args \in [Threads -> Pointers] /\ Gots \in [Threads -> Pointers]
      /\ Gots[t] = thr[t].got
      /\ Args[t] = IF thr[t].pc = "publish" THEN none ELSE thr[t].arg
  BY Places
<1>2. OnceIn(Ptrs, Args, Gots, where)
  BY DEF Once
<1>3. thr[t].pc # "publish" => [Args EXCEPT ![t] = thr[t].arg] = Args
  BY <1>1
<1>4. Slot(thr[t].pos) \in Indices
  BY Handover
<1>5. CASE PopLook(t) \/ PopAdvance(t) \/ PopRelease(t) \/ (t = Owner /\ Enter)
  <2>1. PICK pc, pos :
          /\ pc \in {"take", "work", "release", "apply", "drain"}
          /\ New(t, pc, pos, thr[t].arg, thr[t].got)
    BY <1>5, Effects
  <2>2. thr[t].pc # "publish" /\ where' = where
        /\ (cell' = cell \/ cell' = [cell EXCEPT ![Slot(thr[t].pos)].seq = Plus(thr[t].pos, Slots)])
    BY <1>5 DEF PopLook, PopAdvance, PopRelease, Enter, At
  <2>3. Args' = Args /\ Gots' = Gots
    BY <2>1, <2>2, PlacesKept
  <2>4. Ptrs' = Ptrs
    <3>1. CASE cell' = cell
      BY <3>1 DEF Ptrs
    <3>2. CASE cell' = [cell EXCEPT ![Slot(thr[t].pos)].seq = Plus(thr[t].pos, Slots)]
      BY <1>4, <3>2, PtrsSet
    <3> QED
      BY <2>2, <3>1, <3>2
  <2> QED
    BY <1>2, <2>2, <2>3, <2>4 DEF Once
<1>6. CASE PopTake(t)
  <2>1. thr[t].pc = "take" /\ where' = where
        /\ cell' = [cell EXCEPT ![Slot(thr[t].pos)].ptr = none]
    BY <1>6 DEF PopTake, At
  <2>2. Args' = Args /\ Gots' = [Gots EXCEPT ![t] = Ptrs[Slot(thr[t].pos)]]
    BY <1>1, <1>3, <1>4, <1>6, <2>1, TakeEffect, PlacesMoved
  <2>3. Ptrs' = [Ptrs EXCEPT ![Slot(thr[t].pos)] = none]
    BY <1>4, <2>1, PtrsSet
  <2>4. Gots[t] = none
    BY <1>1, <2>1 DEF Hands
  <2>5. OnceIn([Ptrs EXCEPT ![Slot(thr[t].pos)] = none], Args,
               [Gots EXCEPT ![t] = Ptrs[Slot(thr[t].pos)]], where)
    BY <1>1, <1>2, <1>4, <2>4, OncePop
  <2> QED
    BY <2>1, <2>2, <2>3, <2>5 DEF Once
<1>7. CASE Apply(t)
  <2>1. thr[t].pc = "apply" /\ where' = [where EXCEPT ![thr[t].got] = "heap"] /\ cell' = cell
    BY <1>7 DEF Apply, At
  <2>2. Args' = Args /\ Gots' = [Gots EXCEPT ![t] = none]
    BY <1>3, <1>7, <2>1, Effects, PlacesMoved
  <2>3. Ptrs' = Ptrs
    BY <2>1 DEF Ptrs
  <2>4. OnceIn(Ptrs, Args, [Gots EXCEPT ![t] = none], [where EXCEPT ![Gots[t]] = "heap"])
    BY <1>0, <1>1, <1>2, OnceApply
  <2> QED
    BY <1>1, <2>1, <2>2, <2>3, <2>4 DEF Once
<1>8. CASE t = Owner /\ Leave
  <2>1. thr[t].pc = "work" /\ cell' = cell
    BY <1>8 DEF Leave, At
  <2>2. Args' = Args /\ Gots' = Gots
    BY <1>8, <2>1, Effects, PlacesKept
  <2>3. Ptrs' = Ptrs
    BY <2>1 DEF Ptrs
  <2>4. \A x \in Blocks : where'[x] \in {"owed", "queued"} <=> where[x] \in {"owed", "queued"}
    BY <1>0, <1>8 DEF Leave
  <2> QED
    BY <1>2, <2>2, <2>3, <2>4 DEF Once, OnceIn
<1> QED
  BY <1>5, <1>6, <1>7, <1>8 DEF Pop

-------------------------------------------------------------------------------
\* Whatever position it starts from, every cell is numbered for its next use.
LEMMA RingInit == Init => Ring
<1> SUFFICES ASSUME Init PROVE Ring
  OBVIOUS
<1>1. PICK start \in Starts :
        /\ head = start /\ tail = start
        /\ cell = [i \in Indices |-> [seq |-> Plus(start, (i - start) % Slots), ptr |-> none]]
  BY DEF Init, Indices
<1>2. start \in Nat /\ start \in 0 .. Wrap - 1 /\ Slots \in Nat \ {0} /\ Wrap \in Nat \ {0}
  BY RingFacts, RingAssumption
<1> DEFINE p == [t \in Threads |-> 0]
           ahead(i) == (i - start) % Slots
           q == [i \in Indices |-> start + ahead(i)]
<1>3. \A i \in Indices : ahead(i) \in 0 .. Slots - 1
  <2> TAKE i \in Indices
  <2>1. i - start \in Int
    BY <1>2 DEF Indices
  <2> QED
    BY <1>2, <2>1, DivMod
<1>4. \A i \in Indices : Slot(start + ahead(i)) = i
  <2> TAKE i \in Indices
  <2>1. i - start \in Int /\ start \in Int /\ i \in 0 .. Slots - 1 /\ i \in Int
    BY <1>2 DEF Indices
  <2>2. (((i - start) % Slots) + start) % Slots = ((i - start) + start) % Slots
    BY <1>2, <2>1, ShiftedResidue
  <2>3. (i - start) + start = i /\ ahead(i) + start = start + ahead(i)
    BY <1>3, <2>1
  <2>4. i = Slots * 0 + i /\ 0 \in Int
    BY <1>2, <2>1
  <2>5. i % Slots = i
    BY <1>2, <2>1, <2>4, UniqueResidue
  <2> QED
    BY <2>2, <2>3, <2>5 DEF Slot
<1>5. Wrapped(start) = start /\ Wrapped(0) = 0
  <2>1. start = Wrap * 0 + start /\ 0 = Wrap * 0 + 0 /\ 0 \in Int /\ 0 \in 0 .. Wrap - 1
        /\ start \in Int
    BY <1>2
  <2>2. start % Wrap = start
    BY <1>2, <2>1, UniqueResidue
  <2>3. 0 % Wrap = 0
    BY <1>2, <2>1, UniqueResidue
  <2> QED
    BY <2>2, <2>3 DEF Wrapped
<1>6. \A i \in Indices : cell[i].ptr = none /\ cell[i].seq = Wrapped(start + ahead(i))
  BY <1>1 DEF Plus, Wrapped
<1> HIDE DEF ahead
<1>7. /\ p \in [Threads -> Nat] /\ \A t \in Threads : p[t] = 0
      /\ q \in [Indices -> Nat] /\ \A i \in Indices : q[i] = start + ahead(i)
  BY <1>2, <1>3
<1> HIDE DEF p, q
<1>8. \A t \in Threads : thr[t].pc = "idle" /\ thr[t].pos = 0
  BY DEF Init
<1>9. Unwrapped(start, start, p, q)
  BY <1>1, <1>2, <1>5, <1>6, <1>7, <1>8 DEF Unwrapped
<1>10. Counted(start, start)
  <2>1. Pushing = {}
    BY <1>8 DEF Pushing, Threads
  <2>2. Cardinality(Pushing) = 0 /\ frees = 0
    BY <2>1, FS_EmptySet DEF Init
  <2> QED
    BY <1>2, <2>2 DEF Counted
<1>11. Bounded(start, start, start, q)
  BY <1>2, <1>3, <1>4, <1>7 DEF Bounded
<1>12. \A t \in Threads : Station(thr[t], p[t], start, start, start, q)
  BY <1>8 DEF Station
<1>13. Distinct(p) /\ Filled(p, q)
  BY <1>6, <1>8 DEF Distinct, Filled
<1>14. Floor(start, q)
  <2> SUFFICES ASSUME NEW i \in Indices
               PROVE  \E m \in Nat : Slot(m) = i /\ start <= m + Held /\ (q[i] = m \/ q[i] = m + 1)
    BY DEF Floor
  <2>1. Held \in Nat /\ q[i] \in Nat
    BY <1>7 DEF Held
  <2>2. Slot(q[i]) = i /\ start <= q[i] + Held
    BY <1>2, <1>3, <1>4, <1>7, <2>1
  <2> QED
    BY <2>1, <2>2
<1>15. RingAt(start, start, start, p, q)
  BY <1>2, <1>9, <1>10, <1>11, <1>12, <1>13, <1>14 DEF RingAt
<1> QED
  BY <1>15 DEF Ring

\* The invariant holds at the start.
LEMMA InvInit == Init => Inv
<1> SUFFICES ASSUME Init PROVE Inv
  OBVIOUS
<1>1. PICK start \in Starts :
        /\ head = start /\ tail = start
        /\ cell = [i \in Indices |-> [seq |-> Plus(start, (i - start) % Slots), ptr |-> none]]
  BY DEF Init, Indices
<1>2. Types
  <2>1. start \in Nat
    BY RingFacts, RingAssumption
  <2>2. ASSUME NEW i \in Indices
        PROVE  Plus(start, (i - start) % Slots) \in Nat
    <3>1. i - start \in Int /\ Slots \in Nat \ {0}
      BY <2>1, RingFacts DEF Indices
    <3>2. (i - start) % Slots \in Nat
      BY <3>1, DivMod
    <3> QED
      BY <2>1, <3>2, PlusType
  <2>3. cell \in [Indices -> CellType]
    BY <1>1, <2>2 DEF CellType
  <2>4. thr \in [Threads -> ThreadType]
    BY DEF Init, ThreadType, PCs
  <2> QED
    BY <1>1, <2>1, <2>3, <2>4, RingFacts DEF Init, Types
<1>3. Section /\ Hands
  BY DEF Init, Section, Hands, Threads
<1>4. Once
  <2>1. none \notin Blocks
    BY RingAssumption
  <2>2. /\ \A i \in Indices : Ptrs[i] = none
        /\ \A t \in Threads : Args[t] = none /\ Gots[t] = none
    BY <1>1 DEF Init, Ptrs, Args, Gots
  <2>3. \A x \in Blocks : Single(x, Ptrs, Args, Gots) /\ ~Carried(x, Ptrs, Args, Gots)
    BY <2>1, <2>2 DEF Single, Carried
  <2> QED
    BY <2>3 DEF Init, Once, OnceIn
<1> QED
  BY <1>2, <1>3, <1>4, RingInit DEF Inv

\* Every step keeps the invariant.
LEMMA InvStep == Inv /\ [Next]_vars => Inv'
<1> SUFFICES ASSUME Inv, [Next]_vars PROVE Inv'
  OBVIOUS
<1>1. Types /\ Section /\ Hands /\ Ring /\ Once
  BY DEF Inv
<1>2. ASSUME NEW t \in Producers, Push(t) \/ \E x \in Blocks : Begin(t, x) PROVE Inv'
  BY <1>1, <1>2, TidyProducer, RingProducer, OnceProducer DEF Inv
<1>3. ASSUME NEW t \in Threads, Pop(t) \/ (t = Owner /\ (Enter \/ Leave)) PROVE Inv'
  BY <1>1, <1>3, TidyHolder, RingHolder, OnceHolder DEF Inv
<1>4. CASE UNCHANGED vars
  <2>1. Types' /\ Section' /\ Hands'
    BY <1>1, <1>4 DEF vars, Types, Section, Hands
  <2>2. Ring'
    <3>1. PICK b, h, l, p, q : RingAt(b, h, l, p, q)
      BY <1>1 DEF Ring
    <3>2. RingAt(b, h, l, p, q)'
      BY <1>4, <3>1 DEF vars, RingAt, Unwrapped, Counted, Pushing, Bounded, Station,
                        Distinct, Filled, Floor, Held
    <3> QED
      BY <3>2 DEF Ring
  <2>3. Once'
    <3>1. Ptrs' = Ptrs /\ Args' = Args /\ Gots' = Gots /\ where' = where
      BY <1>4 DEF vars, Ptrs, Args, Gots
    <3> QED
      BY <1>1, <3>1 DEF Once
  <2> QED
    BY <2>1, <2>2, <2>3 DEF Inv
<1>5. Owner \in Threads
  BY DEF Threads
<1> QED
  BY <1>2, <1>3, <1>4, <1>5 DEF Next

\* The ring keeps its invariant whatever the number of producers, blocks and slots,
\* wherever the positions start and whenever they wrap (mm_remote_push,
\* mm_remote_pop, mm_remote_drain).
THEOREM RingInvariant == Spec => []Inv
  BY InvInit, InvStep, PTL DEF Spec

\* A block in one place is counted once.
LEMMA OneCopy ==
  ASSUME Types, Once
  PROVE  Accounted
<1>1. SUFFICES ASSUME NEW x \in Blocks
               PROVE  Copies(x) = IF where[x] \in {"owed", "queued"} THEN 1 ELSE 0
  BY DEF Accounted
<1> DEFINE C == {i \in Indices : Ptrs[i] = x}
           A == {t \in Threads : Args[t] = x}
           G == {t \in Threads : Gots[t] = x}
<1>2. Single(x, Ptrs, Args, Gots)
      /\ (where[x] \in {"owed", "queued"} <=> Carried(x, Ptrs, Args, Gots))
  BY DEF Once, OnceIn
<1>3. /\ \A i \in Indices : Ptrs[i] = cell[i].ptr
      /\ \A t \in Threads : Gots[t] = thr[t].got
      /\ \A t \in Threads : Args[t] = IF thr[t].pc = "publish" THEN none ELSE thr[t].arg
  BY Places
<1>4. DOMAIN cell = Indices /\ x # none
  BY RingAssumption DEF Types
<1>5. /\ {i \in DOMAIN cell : cell[i].ptr = x} = C
      /\ {t \in Threads : thr[t].arg = x /\ ~At(t, "publish")} = A
      /\ {t \in Threads : thr[t].got = x} = G
  BY <1>3, <1>4 DEF At
<1>6. Copies(x) = Cardinality(C) + Cardinality(A) + Cardinality(G)
  BY <1>5 DEF Copies
<1>7. /\ Cardinality({}) = 0
      /\ \A y : Cardinality({y}) = 1
  BY FS_EmptySet, FS_Singleton
<1>8. CASE \E i \in Indices : Ptrs[i] = x
  <2>1. PICK i \in Indices : Ptrs[i] = x
    BY <1>8
  <2>2. C = {i} /\ A = {} /\ G = {}
    BY <1>2, <2>1 DEF Single
  <2>3. Cardinality(C) = 1 /\ Cardinality(A) = 0 /\ Cardinality(G) = 0
    BY <1>7, <2>2
  <2>4. where[x] \in {"owed", "queued"}
    BY <1>2, <2>1 DEF Carried
  <2> HIDE DEF C, A, G
  <2> QED
    BY <1>6, <2>3, <2>4
<1>9. CASE \E t \in Threads : Args[t] = x
  <2>1. PICK t \in Threads : Args[t] = x
    BY <1>9
  <2>2. C = {} /\ A = {t} /\ G = {}
    BY <1>2, <2>1 DEF Single
  <2>3. Cardinality(C) = 0 /\ Cardinality(A) = 1 /\ Cardinality(G) = 0
    BY <1>7, <2>2
  <2>4. where[x] \in {"owed", "queued"}
    BY <1>2, <2>1 DEF Carried
  <2> HIDE DEF C, A, G
  <2> QED
    BY <1>6, <2>3, <2>4
<1>10. CASE \E t \in Threads : Gots[t] = x
  <2>1. PICK t \in Threads : Gots[t] = x
    BY <1>10
  <2>2. C = {} /\ A = {} /\ G = {t}
    BY <1>2, <2>1 DEF Single
  <2>3. Cardinality(C) = 0 /\ Cardinality(A) = 0 /\ Cardinality(G) = 1
    BY <1>7, <2>2
  <2>4. where[x] \in {"owed", "queued"}
    BY <1>2, <2>1 DEF Carried
  <2> HIDE DEF C, A, G
  <2> QED
    BY <1>6, <2>3, <2>4
<1>11. CASE ~Carried(x, Ptrs, Args, Gots)
  <2>1. C = {} /\ A = {} /\ G = {}
    BY <1>11 DEF Carried
  <2> QED
    BY <1>2, <1>6, <1>7, <1>11, <2>1
<1> QED
  BY <1>8, <1>9, <1>10, <1>11 DEF Carried

\* No free that crosses a thread is lost and none is applied twice, however pushes,
\* pops, drains and fallbacks interleave.
THEOREM NeverLostNeverTwice == Spec => []Accounted
<1>1. Inv => Accounted
  BY OneCopy DEF Inv
<1> QED
  BY <1>1, RingInvariant, PTL

\* Two positions of one slot are a lap apart.
LEMMA LapApart ==
  ASSUME NEW m \in Nat, NEW n \in Nat, Slot(m) = Slot(n), m < n
  PROVE  m + Slots <= n
<1>1. m \in Int /\ n \in Int /\ Slots \in Nat \ {0} /\ m % Slots = n % Slots
  BY RingFacts DEF Slot
<1>2. ASSUME n < m + Slots PROVE FALSE
  <2>1. m - n < Slots /\ n - m < Slots
    BY <1>1, <1>2
  <2>2. m = n
    BY <1>1, <2>1, SameResidue
  <2> QED
    BY <2>2
<1> QED
  BY <1>1, <1>2

\* Only a look at a cell makes a producer give up.
LEMMA GivingUp ==
  ASSUME Types, Next, NEW t \in Producers, thr[t].pc # "full", thr'[t].pc = "full"
  PROVE  Look(t)
<1>0. t \in Threads /\ Owner \in Threads
  BY DEF Threads
<1>1. ASSUME NEW u \in Threads, NEW pc, NEW pos, NEW arg, NEW got, New(u, pc, pos, arg, got)
      PROVE  u = t /\ pc = "full"
  BY <1>0, <1>1, NewFields
<1>2. ASSUME NEW u \in Producers, Push(u) \/ \E x \in Blocks : Begin(u, x) PROVE Look(t)
  <2>0. u \in Threads
    BY DEF Threads
  <2>1. CASE Look(u)
    <3>1. PICK pc \in {"claim", "full", "load"} : New(u, pc, thr[u].pos, thr[u].arg, thr[u].got)
      BY <2>0, <2>1, Effects
    <3> QED
      BY <1>1, <2>0, <2>1, <3>1
  <2>2. CASE ~Look(u)
    <3>1. \E pc, pos, arg, got :
            /\ pc \in {"load", "look", "fill", "publish", "idle", "drain"}
            /\ New(u, pc, pos, arg, got)
      BY <1>2, <2>0, <2>2, Effects DEF Push
    <3> QED
      BY <1>1, <2>0, <3>1
  <2> QED
    BY <2>1, <2>2
<1>3. ASSUME NEW u \in Threads, Pop(u) \/ (u = Owner /\ (Enter \/ Leave)) PROVE FALSE
  <2>1. \E pc, pos, arg, got :
          /\ pc \in {"take", "work", "advance", "release", "apply", "drain", "idle"}
          /\ New(u, pc, pos, arg, got)
    BY <1>3, Effects, TakeEffect DEF Pop
  <2> QED
    BY <1>1, <2>1
<1> QED
  BY <1>0, <1>2, <1>3 DEF Next

\* The cell a producer gives up at is one the drain has not handed back, a lap
\* behind the producer's position.
LEMMA FullRing ==
  ASSUME Inv, NEW t \in Producers, Look(t), thr'[t].pc = "full"
  PROVE  Diff(head, tail) >= Slots - Cardinality({u \in Threads : At(u, "release")})
<1>0. t \in Threads /\ Types /\ Section /\ Slots \in Nat /\ Slots > 1 /\ MaxFrees \in Nat
  BY RingFacts DEF Inv, Threads
<1>1. PICK b, h, l, p, q : RingAt(b, h, l, p, q)
  BY DEF Inv, Ring
<1>2. /\ b \in Nat /\ h \in Nat /\ l \in Nat
      /\ b <= l /\ l <= h /\ h <= b + MaxFrees
      /\ \A i \in Indices : q[i] \in Nat /\ b <= q[i] /\ q[i] <= h + Slots
  BY <1>0, <1>1, Spread
<1>3. /\ p[t] \in Nat /\ thr[t].pos = Wrapped(p[t])
      /\ Slot(thr[t].pos) = Slot(p[t]) /\ Slot(p[t]) \in Indices
  BY <1>0, <1>1, CellOf
<1>4. Diff(cell[Slot(p[t])].seq, thr[t].pos) < 0 /\ thr[t].pc = "look"
  <2>1. PICK pc \in {"claim", "full", "load"} :
          /\ New(t, pc, thr[t].pos, thr[t].arg, thr[t].got)
          /\ pc = "full" => Diff(cell[Slot(thr[t].pos)].seq, thr[t].pos) < 0
    BY <1>0, Effects
  <2>2. pc = "full"
    BY <1>0, <2>1, NewFields
  <2> QED
    BY <1>3, <2>1, <2>2 DEF Look, At
<1>5. b <= p[t] /\ p[t] <= h
  BY <1>0, <1>1, <1>4 DEF RingAt, Station
<1> DEFINE k == q[Slot(p[t])]
<1>6. cell[Slot(p[t])].seq = Wrapped(k) /\ k \in Nat /\ b <= k /\ k <= h + Slots
  BY <1>1, <1>2, <1>3 DEF RingAt, Unwrapped
<1>7. PICK m \in Nat : Slot(m) = Slot(p[t]) /\ l <= m + Held /\ (k = m \/ k = m + 1)
  BY <1>1, <1>3 DEF RingAt, Floor
<1> HIDE DEF k
<1>8. k < p[t]
  <2> SUFFICES ASSUME p[t] <= k PROVE FALSE
    BY <1>3, <1>6
  <2>1. k - p[t] <= MaxFrees + Slots
    BY <1>0, <1>2, <1>3, <1>5, <1>6
  <2>2. Diff(Wrapped(k), Wrapped(p[t])) = k - p[t]
    BY <1>3, <1>6, <2>1, DiffAhead
  <2>3. k - p[t] < 0
    BY <1>3, <1>4, <1>6, <2>2
  <2> QED
    BY <1>3, <1>6, <2>3
<1>9. m + Slots <= p[t]
  <2>1. m < p[t]
    BY <1>3, <1>6, <1>7, <1>8
  <2> QED
    BY <1>3, <1>7, <2>1, LapApart
<1>10. Held \in Nat /\ h - l >= Slots - Held
  <2>1. Held \in Nat
    BY DEF Held
  <2> QED
    BY <1>0, <1>2, <1>3, <1>5, <1>7, <1>9, <2>1
<1>11. Diff(head, tail) = h - l
  <2>1. head = Wrapped(h) /\ tail = Wrapped(l)
    BY <1>1 DEF RingAt, Unwrapped
  <2>2. h - l <= MaxFrees + Slots
    BY <1>0, <1>2
  <2> QED
    BY <1>2, <2>1, <2>2, DiffAhead
<1>12. Cardinality({u \in Threads : At(u, "release")}) = Held
  <2> DEFINE R == {u \in Threads : At(u, "release")}
  <2>1. CASE \E u \in Threads : thr[u].pc = "release"
    <3>1. PICK u \in Threads : thr[u].pc = "release"
      BY <2>1
    <3>2. R = {u}
      BY <1>0, <3>1 DEF Section, At
    <3>3. Held = 1
      BY <2>1 DEF Held
    <3> QED
      BY <3>2, <3>3, FS_Singleton
  <2>2. CASE ~\E u \in Threads : thr[u].pc = "release"
    <3>1. R = {} /\ Held = 0
      BY <2>2 DEF Held, At
    <3> QED
      BY <3>1, FS_EmptySet
  <2> QED
    BY <2>1, <2>2
<1> QED
  BY <1>10, <1>11, <1>12

\* A push takes the owner's lock only when the ring is full but for the cell a drain
\* is handing back, wherever the counters wrap (the signed difference in
\* mm_remote_push).
THEOREM GivesUpOnlyWhenFull == Spec => FullOnlyWhenFull
<1>1. ASSUME Inv, [Next]_vars
      PROVE  [\A t \in Producers :
                ~At(t, "full") /\ At(t, "full")' =>
                  Diff(head, tail) >= Slots - Cardinality({u \in Threads : At(u, "release")})]_vars
  <2>1. CASE UNCHANGED vars
    BY <2>1
  <2>2. CASE Next
    <3> SUFFICES ASSUME NEW t \in Producers, thr[t].pc # "full", thr'[t].pc = "full"
                 PROVE  Diff(head, tail) >= Slots - Cardinality({u \in Threads : At(u, "release")})
      BY DEF At
    <3>1. Look(t)
      BY <1>1, <2>2, GivingUp DEF Inv
    <3> QED
      BY <1>1, <3>1, FullRing
  <2> QED
    BY <1>1, <2>1, <2>2
<1> QED
  BY <1>1, RingInvariant, PTL DEF Spec, FullOnlyWhenFull
===============================================================================
