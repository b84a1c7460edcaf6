--------------------------------- MODULE Shim ---------------------------------
(***************************************************************************)
(* The two ways into a growable arena: the LD_PRELOAD shim (mm_shim.c),    *)
(* which starts the allocator inside the first call of the malloc family   *)
(* and serves what its own start-up allocates from a static pool, and a    *)
(* program that uses the managed interface and switches modes.             *)
(*                                                                         *)
(* Real free and realloc, dlsym and the loader are external.  Diagnostics  *)
(* and the staged fault (MARS_SHIM_FLIP) are left out; MARS_SHIM_NOFRESH   *)
(* is off, it only makes calloc clear more.                                *)
(***************************************************************************)
EXTENDS Growth, Sequences, FiniteSets

CONSTANTS BOOTSTRAP_BYTES,  \* words in the pool
          PoolRequests,     \* sizes asked for before the arena is up
          MaxPool,          \* bound: blocks in the pool when one more is asked for
          none

ASSUME ShimAssumption ==
  /\ BOOTSTRAP_BYTES \in Nat /\ MaxPool \in Nat
  /\ PoolRequests \subseteq 0 .. SizeMax /\ none \notin PoolRequests

VARIABLES state,   \* "off", "starting" (g_starting), "ready" (g_ready); "managed":
                   \* no shim, the program set the arena up itself
          caller,  \* the call that runs start-up and goes on after it
          pool     \* the blocks of the bootstrap pool, in order
vars == <<spans, fresh_spans, mode, seen, state, caller, pool>>

pool_hdr == 2

\* Arithmetic in size_t.
Wrap(n) == n % (SizeMax + 1)

pool_need(size) ==
  LET padded == Wrap(size + 1)
  IN  Wrap(pool_hdr + (padded - (padded % 2)))

\* The cursor is where the last block's header is, moved on by its need.
g_pool_used ==
  IF pool = <<>> THEN 0
  ELSE LET last == pool[Len(pool)] IN Wrap(last.at - pool_hdr + pool_need(last.size))

from_pool(at) == 0 <= at /\ at < BOOTSTRAP_BYTES

\* A slip: a size that wraps when it is padded is not noticed.
PoolRefusesFull(size) == Wrap(g_pool_used + pool_need(size)) > BOOTSTRAP_BYTES

PoolRefuses(size) ==
  pool_need(size) < size \/ Wrap(g_pool_used + pool_need(size)) > BOOTSTRAP_BYTES

pool_alloc(size) ==
  /\ pool' = IF PoolRefuses(size) THEN pool
             ELSE Append(pool, [at |-> g_pool_used + pool_hdr, size |-> size])
  /\ seen' = Nothing
  /\ UNCHANGED <<arenaVars, mode>>

\* Nothing is there before the first call; or the managed program has begun with
\* mm_arena_init_growable.
Init ==
  /\ \/ /\ state = "off" /\ spans = [k \in {} |-> none] /\ fresh_spans = 0
     \/ /\ state = "managed" /\ spans = [k \in {1} |-> NewSpan(MM_MIN_BLOCK, "chunk")]
        /\ fresh_spans = 1
  /\ mode = "managed" /\ seen = Nothing /\ caller = none /\ pool = <<>>

-------------------------------------------------------------------------------
(***************************************************************************)
(* Start-up.                                                               *)
(***************************************************************************)

\* malloc(size), calloc, or realloc of a pool block finds the arena is not there;
\* so does the constructor, or free, which do not allocate (none).
Startup(size) ==
  /\ state = "off" /\ caller = none
  /\ size = none \/ Len(pool) < MaxPool
  /\ state' = "starting" /\ caller' = size
  /\ UNCHANGED <<spans, fresh_spans, mode, seen, pool>>

\* dlsym asks for memory, a little at a time.
Nested(size) ==
  /\ state = "starting" /\ size <= BOOTSTRAP_BYTES /\ Len(pool) < MaxPool
  /\ pool_alloc(size)
  /\ UNCHANGED <<state, caller>>

\* mm_arena_init_growable, and MM_MODE_LIBC for it.
Up ==
  /\ state = "starting"
  /\ state' = "ready" /\ mode' = "libc"
  /\ spans' = [k \in {1} |-> NewSpan(MM_MIN_BLOCK, "chunk")] /\ fresh_spans' = 1
  /\ UNCHANGED <<seen, caller, pool>>

\* No memory for the first chunk: the next call tries again.
StaysDown ==
  /\ state = "starting"
  /\ state' = "off"
  /\ UNCHANGED <<spans, fresh_spans, mode, seen, caller, pool>>

\* The call goes on, in the arena or, if there is still none, in the pool.
Resume ==
  /\ state \in {"off", "ready"} /\ caller # none
  /\ caller' = none
  /\ IF state = "ready" THEN mm_malloc(Max({caller, 1})) /\ UNCHANGED pool
                        ELSE pool_alloc(caller)
  /\ UNCHANGED state

-------------------------------------------------------------------------------
(***************************************************************************)
(* The malloc family once the arena is up.  free of a pool block does      *)
(* nothing and a foreign pointer goes to the real free.                    *)
(***************************************************************************)
Ready == state = "ready" /\ caller = none

malloc(size)   == Ready /\ mm_malloc(Max({size, 1})) /\ UNCHANGED <<state, caller, pool>>
calloc(total)  == Ready /\ calloc_block(Max({total, 1})) /\ UNCHANGED <<state, caller, pool>>
free(p)        == Ready /\ mm_free(p) /\ UNCHANGED <<state, caller, pool>>
realloc(p, size) ==
  /\ Ready
  /\ IF size = 0 THEN mm_free(p) ELSE mm_realloc(p, size)
  /\ UNCHANGED <<state, caller, pool>>
aligned_alloc(align, size) ==
  Ready /\ mm_memalign(align, Max({size, 1})) /\ UNCHANGED <<state, caller, pool>>

\* Out of the pool into the arena; the pool block stays where it is.
realloc_pool(i, size) ==
  Ready /\ from_pool(pool[i].at) /\ mm_malloc(size) /\ UNCHANGED <<state, caller, pool>>

(***************************************************************************)
(* The managed interface, which may be told that pointers are used.        *)
(***************************************************************************)
Managed == state = "managed" /\ UNCHANGED <<state, caller, pool>>

Next ==
  \/ \E size \in PoolRequests \cup {none} : Startup(size)
  \/ \E size \in PoolRequests : Nested(size)
  \/ Up \/ StaysDown \/ Resume
  \/ \E size \in Requests \cup {0} : malloc(size) \/ calloc(size)
  \/ \E align \in Alignments, size \in Requests : aligned_alloc(align, size)
  \/ \E p \in Held : free(p) \/ \E size \in Requests \cup {0} : realloc(p, size)
  \/ \E i \in DOMAIN pool, size \in Requests : realloc_pool(i, size)
  \/ /\ Managed
     /\ \/ \E size \in Requests : mm_malloc(size)
        \/ \E m \in {"managed", "libc"} \ {mode} : mm_set_mode(m)
        \/ \E p \in Held :
             \/ mm_free(p) \/ Store(p)
             \/ \E size \in Requests : mm_realloc(p, size)
             \/ \E offset, len \in Extents(p) : mm_write(p, offset, len) \/ mm_read(p, offset, len)

Spec == Init /\ [][Next]_vars

-------------------------------------------------------------------------------
\* What calloc returns is zero although it clears only what mm_span_take_fresh
\* says was written; spans, splits, merges and trims before it notwithstanding.
CallocZeroed == seen.dirt = {}

\* Giving pages back takes no link, boundary tag, header or canary with it:
\* reclaim and mm_arena_release_pages.
MetaKept == seen.lost = {}

\* mm_write never stores outside the payload of the block it was given, whatever
\* position and length it is told: checked_block.
AccessConfined == seen.wild = {}

\* A program that writes through mm_write, and through pointers only under
\* MM_MODE_LIBC, never has a block taken for damaged, whatever it resizes and
\* whenever it switches modes: mm_set_mode, carry_payload_crc, write_unlocked.
NoFalseAlarm ==
  ~seen.alarm /\ \A p \in Held : BlockAt(p).crc # "bad"

\* fresh_spans counts the spans nothing was allocated from, and in those nothing
\* but the one free block's own metadata was written: mm_span_take_fresh.
FreshExact ==
  /\ fresh_spans = Cardinality({k \in DOMAIN spans : spans[k].fresh})
  /\ \A k \in DOMAIN spans : spans[k].fresh =>
       Cardinality(DOMAIN spans[k].blocks) = 1 /\ spans[k].dirty = Meta(spans[k].blocks)

\* A mapping made for one large allocation goes back with the last block in it:
\* none is left standing empty between two calls.
DedicatedReturned ==
  \A k \in DOMAIN spans : spans[k].kind = "large" =>
    \E at \in DOMAIN spans[k].blocks : spans[k].blocks[at].used

\* Sizes that wrap when they are added to the cursor although their padding does
\* not: the bound test of pool_alloc lets them through.
Overreaching(size) ==
  pool_need(size) >= size /\ size + pool_hdr + 1 + BOOTSTRAP_BYTES > SizeMax

\* Until such a request was served the pool's blocks lie in it, what it has given
\* to one request, header and payload, it gives to no later one, and free and
\* realloc can tell a block of the pool: pool_alloc, from_pool.  (A block of size
\* 0 may end where the pool does, and its address is then not in it.)
PoolSound ==
  (\A i \in DOMAIN pool : ~Overreaching(pool[i].size)) =>
    \A i \in DOMAIN pool :
      /\ pool[i].at + pool[i].size <= BOOTSTRAP_BYTES
      /\ pool[i].size > 0 => from_pool(pool[i].at)
      /\ \A j \in 1 .. i - 1 : pool[j].at + pool[j].size <= pool[i].at - pool_hdr
===============================================================================
