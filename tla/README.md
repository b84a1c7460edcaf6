# A TLA+ model of the Mars memory allocator

Mars is a `malloc` that expects its own metadata to be damaged under it. It
keeps headers, boundary tags and free lists inside the arena, checks them before
every use, and recovers or gives up the damaged part instead of crashing. This
directory models the allocator in TLA+ and model-checks it with TLC on small
instances. With TLAPS it proves the abstract allocator correct for spans of every
size, the ring of remote frees and the arenas for any number of threads, the span
registry for any number of arenas and any hash, and the growable arena with its
shim for every profile, page size and sequence of calls.

Paths below are relative to the repository (`src/mm_core.c` is the allocator's
core). Sizes in the models are in words of 8 bytes.

## 1. The system

| Component | State | Operations | Hard because |
|---|---|---|---|
| Block layout (`mm_layout.h`, first part of `mm_integrity.c`) | the words of the arena: control word, header checksum, canary, mirror, links, boundary tag | setters, seal, validation | the meaning of a word depends on its neighbours; a header stays in memory after it stopped being one |
| Free lists (`mm_freelist.c`) | bin heads, bitmap, links inside free blocks | insert, remove, find, rebuild | links may be damaged; a rebuild may run in the middle of a merge |
| Integrity (`mm_integrity.c`) | lost bytes, patrol cursor and tick, thread status | publish, quarantine, rescue, recover, patrol, verify, check | each repairs what the others read; each can fail half-way |
| Core (`mm_core.c`) | the program's blocks | malloc, free, realloc, memalign | order of bin operations and tiling changes |
| Remote frees (`mm_lock.c`, `mm_free`, `mm_enter`) | a ring of sequenced cells per arena, the arena's lock | push, pop, drain, fallback when full | lock-free producers, wrapping counters, two kinds of consumer |
| Arenas (`mm_lock.c`) | list of arenas, orphan pool, epoch, per-thread pointer | adopt, thread exit, reset, guards | threads come and go; one-lock rule |
| Span registry and growth (`mm_arena.c`) | unit index, descriptor pool, span list | register, unregister, lock-free lookup, map, release | readers take no lock |
| Validated access and modes (`mm_access.c`, `mm_set_mode`) | payload checksums | read, write, switch mode | a stale checksum condemns a correct block |
| Shim (`shim/mm_shim.c`) | bootstrap pool, start-up flags | the libc entry points | starts itself while allocating |
| Statistics, CRC32C, fault injector, benchmarks | counters, tables | | pure or outside the allocator |

Calls run under the lock of the arena they work in (`mm_enter` .. `mm_leave`),
so one call is one step of the heap; what interleaves are calls of different
threads, the lock-free ring, the lock-free registry, and soft errors.

What makes it correct: the blocks tile the span exactly at every return; bins,
bitmap, boundary tags, PREV_IN_USE bits and lost bytes agree with the tiling; a
live block keeps its extent, contents and alignment until its holder gives it
up; a block given up on is never used again; damage to one block costs at most
that block and never causes a write outside the arena; a free handed to another
thread is applied exactly once.

`PROJECT.json` lists the hazards line by line with the properties aimed at them.

## 2. The modules

```
Tiling  <--- implements ---  Heap  --extends-->  Integrity --> FreeList --> Block
  ^                           ^  ^
TilingProofs         HeapFaults  HeapMisuse

RemoteQueue          Arenas <-- MCArenas     Registry <-- MCRegistry     Growth <------- Shim
  ^                    ^                       ^                           ^              ^
RemoteQueueProofs    ArenasProofs            RegistryTable            GrowthProofs <-- ShimProofs
                       ^                       ^
                     ArenasCustody           RegistryProofs
```

The heap is modelled at three levels of detail, each where its questions need it:
word by word for one span (Block to HeapMisuse), as extents for several mappings
(Growth), and as the arena a block belongs to for several threads (Arenas). The
lock-free structures (RemoteQueue, Registry) are modelled one access at a time.

**Block** is memory: a function from word addresses to cells. A cell remembers
what was written (`word`, `crc`, `link`, `tag`, `canary`, `data`, `zero`), so
remnants are visible to the code that scans for headers. The header checksum is
ideal: it holds the control word and block index it was made from, and matches
nothing else. Profiles are constants: `fast` (1-word header, nothing else),
`hardened` (checksum and canary), `paranoid` (mirrored header as well).
`ProfileLayout` states how `mm_layout.h` derives the sizes. Every write goes
through `Put`, which records one that leaves the span in `wild`.

**FreeList** is `mm_freelist.c`: `mm_bin_of`, the links inside free blocks,
`links_ok`, the rebuild from the tiling, and the search with its retry. The
code's geometry (64 exact and 64 logarithmic bins) is scaled to 2 + 2 under the
code's own static assertion (`BinGeometry`).

**Integrity** is the rest of `mm_integrity.c` over one span: publishing,
`scan_resync`, abandoning and restoring from mirrors, quarantine, the bounded
patrol, `mm_block_of`, `mm_verify`, `mm_check_heap`.

**Heap** is `mm_core.c` for a caller-supplied arena, its operators named after
the functions. `heap` is the arena with its memory, `live` what the program
holds: pointer, size asked for, alignment, words written. The actions `Malloc`,
`Memalign`, `Free`, `Realloc`, `Scrub` are whole public calls, the patrol's turn
at their end included. `tiling` is what a walk from `lo` finds; it is a function
of `heap` and only carries the refinement. The program writes all of what it was
given (`Fills`), under `libc` all of what `mm_usable_size` reports.

`absorb` is one half of `absorb_neighbours`, the half `realloc_unlocked`
repeats in its own body for growing in place.

**HeapFaults** adds `Strike`: a soft error in one metadata word of one block
(header, link, tag, canary, mirror), at any time between calls. A control word
gets one field wrong, any other word becomes illegible. The calls under faults
are malloc, free and scrub; realloc and memalign are not, which keeps
the state space within reach.

**HeapMisuse** adds a program that frees a pointer twice.

**Tiling** is what the allocator promises about space: every address carries a
state (no block, free, used, quarantined) and an extent, and a call is a
composition of marking, cutting and fusing blocks. It knows nothing of headers
or bins. `Alloc` may take any free block large enough; `Resize` is realloc in
place, `Move` realloc by copying, `AllocAligned` memalign.

**RemoteQueue** is the ring of `mm_remote_push` and `mm_remote_pop`, one atomic
access per step, with the drain of `mm_enter`, the fallback of `mm_free` when
the ring is full, and the arena's lock. The heap is abstracted to where each
block is. Acquire and release orders publish the pointer with its sequence
number, which makes an interleaving of these accesses adequate; a relaxed load
of an old value is the same load made earlier. The weak compare-exchange may
fail for no reason.

**Arenas** is `mm_lock.c` with the guards of `mm_internal.h`: `mm_enter`,
`mm_arena_adopt`, `on_thread_exit`, `mm_enter_for` and `mm_leave_for`, and the
calls that go through them (malloc, free of one's own and of somebody else's
block, the validated calls, `realloc_foreign`, `mm_set_mode`, `mm_init`,
`mm_arena_init_growable`). `thr` holds a thread's `mm_self`, its key and where it
is; `arena` the fields of each arena; `lock` and `listlock` their holders. A step
is an unlocked access or a critical section; a section that waits for a second
lock (`mm_arenas_reset` under the list lock) is split there. The heap is reduced
to the arena each block belongs to, the ring to a set. `Begin` is the program: a
pointer is in one call at a time, and none is in a call while `mm_init` discards
the arenas. `mixed` remembers whether an initialisation took arenas from running
threads, after which the code promises less (section 6).

**Registry** is the unit index of `mm_arena.c` and the life of spans around it:
registration of a span unit by unit with its rollback, release, reset, recycled
descriptors, tombstones, rehash and a rehash that cannot get memory, the
per-arena cache, and the lock-free lookup (`index_find` with its second read of
the slot), one visible access per step. The memory of an address being looked up
stays mapped: the caller owns it.

**Growth** is an arena that maps its own memory: `grow_for`, chunks and
dedicated mappings, `reclaim` and the trimming of pages, freshness and what
calloc may skip, the two modes, payload checksums and the validated access of
`mm_access.c`. A span maps block starts to blocks and words to what they hold.
**Shim** puts the entry points of `mm_shim.c` on top: start-up inside the first
call, its own allocations from the bootstrap pool, a start-up that fails and is
tried again; or a program that uses the managed interface.

Operators introduced by "A slip:" are plausible mistakes in the definition that
follows them. Nothing uses them; each one, put in the place of the definition,
makes TLC report the property it is paired with in `PROJECT.json`.

## 3. The runs

Run a configuration with `tlc -config X.cfg M` (names in `PROJECT.json`).

| Run | Module | Instance | States | Shows |
|---|---|---|---|---|
| `tiling` | Tiling | 10 units, blocks of 2 or more | 1 153 | exact tiling, no free neighbours, quarantine is forever, one live block per call |
| `heap_hardened` | Heap | 18 words, up to 3 blocks | 14 131 | consistency, live blocks intact, contents kept, cursor, fit found, implements Tiling |
| `heap_fast` | Heap | 14 words, up to 3 blocks, odd base | 7 929 | bins and tiling in step where no checksum helps |
| `faults_hardened` | HeapFaults | 18 words, 1 soft error, 2 live blocks | 86 024 | no wild write, neighbours intact, no overlap, loss bounded |
| `faults_paranoid` | HeapFaults | 18 words, `libc`, 1 soft error | 27 991 | headers are put back from mirrors |
| `remote_queue` | RemoteQueue | 2 producers, 3 blocks, 2 slots, positions modulo 16 | 96 663 | no free lost or applied twice, fallback only when full, queued frees applied |
| `arenas` | MCArenas | 3 threads, 3 arenas, 2 blocks, 1 queue slot, 6 programs | 995 285 | one lock, no deadlock, exact pool, private arenas, frees reach their arena, modes agree |
| `registry` | MCRegistry | 2 arenas, 2 units, 2 descriptors, tables of 4 slots | 1 577 946 | a standing span is always found, counters exact, what is filed is mapped, descriptors owned once |
| `shim` | Shim | chunks of 16 words, 2 mappings, `hardened` | 52 683 | calloc zeroed, trimming spares metadata, access confined, no false alarm, freshness exact, dedicated mappings returned, pool sound |
| `faults_unwritten`, `misuse_double_free`, `calloc_fresh` | | | | violations, section 4 |

**Bounds.** Behaviours are not bounded in length, except by `MaxFrees` in
`RemoteQueue`, `MaxHits` in `HeapFaults`, `MaxPool` in `Shim`, `MaxEpoch`
(rounds of initialisation) in `Arenas` and `MaxTables` in `Registry`; the state spaces are finite because
memory is. `MaxLive` is 4, more than fit, except in `faults_hardened` (2). A
span of three blocks is the smallest in which a block has a neighbour on both
sides, so that forward and backward merges, a merge of three, splitting with and
without a free block behind, moving, and the front, middle and tail of an
aligned allocation all occur. Request sizes are one that gives the smallest
block and one that gives the next, so that remainders too small to split
occur; bins are both exact and logarithmic. `Base` is 1 under `fast`, as
`MM_BLOCK_OFFSET` makes it. The ring has two slots so that it is full, lapped
and claimed-but-unfilled within four frees, and starts at 0 and at 14 of 16 so
that positions wrap in the middle of behaviours. `RingAssumption` states what
the choice of 16 for 2^32 must keep: frees in flight span less than half the
range. One soft error is what the fault model claims to survive per incident.

In `arenas` three threads and two arenas besides the main one are the least in
which one thread adopts what a second gave back while a third still frees into
it. All kinds of calls at once are out of reach, so the instance is a choice of
six programs, each mixing the calls that get in each other's way; threads and
extra arenas are interchangeable, which the symmetry uses. One queue slot makes
the queue full after one free. One epoch change is enough for a thread to find
its arena stale; the theorems have no such bounds. In `registry` all units hash
to the last slot of a four-slot table, so chains collide, wrap and run through
tombstones at once; three rehashes, two descriptors and spans of one and two
units let a descriptor be recycled under a reader, and a registration fail
half-way. Its view forgets old tables no lookup holds and the remains in pooled
descriptors, and only arenas are symmetric. In `shim` a chunk holds two blocks,
the requests give the smallest block, one that crosses a page, and one above
`MM_LARGE_THRESHOLD`; a mapping may be refused at any time. The pool has room for
one request of two words but not two, and is also asked for 63 words, the largest
`size_t` of the instance, which wraps when it is padded, and for 60, which wraps when
it is added to the cursor; `MaxPool` bounds how many blocks that can go on for. The `fast`
profile with all seven properties is too large for a run; `calloc_fresh` asks it
the one question whose answer differs.

**Deadlock** is checked in every run but `tiling`: there all space may be
quarantined and nothing is left to do. In `arenas` an idle thread can always
start a call, so TLC's own check would not see calls that block each other;
`NoDeadlock` is the property that does.

**Fairness** is only used in `remote_queue`. A thread inside the allocator is
scheduled again (weak fairness of its steps); the owner keeps calling, and each
call ends; a compare-exchange that keeps being tried with the right expected
value succeeds once (strong fairness of `ClaimWins`), since a weak one may fail
spuriously but not for ever. Nothing makes a producer begin a free. The lock
needs no fairness between its contenders: whichever of them gets in drains.
`QueuedApplied` does not hold, and is not claimed, for an owner that never
calls again: its queue waits for its next call or for a full ring.

## 4. Where code and documents disagree

Each is a run with one property taken from the document, which TLC refutes.

* **A second free is not always reported** (`misuse_double_free`).
  `include/mars/allocator.h:128` says freeing "a block already free, is reported
  through mm_last_error() and otherwise ignored". When a block is merged
  *backwards*, `absorb_neighbours` rewrites the predecessor's header and leaves
  the block's own one in memory, sealed and in use. Freed again, it passes every
  check, reports `MM_OK`, and a phantom block inside the free run is filed.
* **Resynchronising on a remnant** (`faults_unwritten`). `src/mm_integrity.c:381`
  says why a candidate must corroborate itself: one "that is not a block boundary does
  not merely surrender the wrong span -- it leaves the tiling permanently out of step,
  and every later walk then steps through blocks that are not there"; and
  `docs/FAULT_MODEL.md:302-308` that with a checksum the extent "has already been
  vouched for", so that "the tiling stays in step". The checksum vouches for a header
  that was sealed once, not for one that still is a boundary. In the trace `malloc(1)`
  and `free` leave a free header at word 6 with extent 12. `malloc(6)` takes [0,10)
  and the program does not write over the remnant; `malloc(1)` takes [10,18); the
  header at 0 is struck. `scan_resync` stops at the remnant, inside the damaged
  block's own payload: [0,6) is surrendered, and the block that follows is the stale
  free one, [6,18), over the live block. That no more than the span up to the
  resynchronisation point is surrendered (`docs/FAULT_MODEL.md:136`) is kept to the
  letter. `faults_hardened` shows that a program which writes what it asked for is safe
  from this at these sizes.
* **calloc of a whole fresh mapping** (`calloc_fresh`). `shim/mm_shim.c:398` says
  memory straight from the kernel is zero "except for the two words the allocator
  wrote into the free block this was carved from". The free block's size is in its
  last 8 bytes too; under `fast`, with no trailer, a request that takes the mapping
  whole has them at the end of its payload, and calloc does not clear them. Under
  the profiles with a trailer `CallocZeroed` holds (`shim`).

Seen while modelling, not runs of their own:

* The bootstrap pool can hand out memory twice, although `shim/mm_shim.c:139` says it
  "is never reused" and `:388` that it is therefore "zero by construction".
  `pool_alloc` refuses a size that wraps when it is padded (`need < size`), but
  `g_pool_used + need > BOOTSTRAP_BYTES` (`:163`) is a sum in `size_t` too. For 2^64-32
  bytes `need` is 2^64-16; with 16 bytes or more in use the sum wraps below the bound,
  the call returns a block instead of NULL, and the cursor has moved back by 16, so the
  next header is written into a block already given out. A program gets there with an
  ordinary `malloc` once start-up has failed to map its first chunk. `Overreaching`
  names these sizes, run `shim` has one, and `PoolSound` claims nothing once it has
  been served.
* `README.md:166` and `docs/BLOCK_LAYOUT.md:65` say `paranoid` repairs a header bit
  flip. `mm_rescue` looks at the mirror only when a header was found behind the
  damage, so the last block of a span is surrendered with its mirror intact;
  `InnerHeaderRepaired` is what does hold. `mm_verify` does not read the mirror,
  which `include/mars/allocator.h:196` lists among what it verifies.
* Comments in `mm_internal.h` say only the owner of a queue pops from it; the
  fallback in `mm_free` drains it from another thread, under the owner's lock.
  `RemoteQueue` models that and finds nothing wrong with it.
* `mm_lock.c:101` says the list lock is "never held while an arena's lock is held";
  `mm_arenas_reset` takes each arena's lock under the list lock. Nobody takes them
  the other way round, and `NoDeadlock` is proved with this order.
* When an initialisation takes arenas from running threads, two of them can come by
  the same arena and both find it empty, since `mm_arena_adopt` reads `a->spans`
  without the arena's lock; the second to fill it draws a new secret over blocks
  sealed with the first's (`mm_lock.c:229-236`; `torn` in the model).
  `mm_arena_init_growable` takes no lock on the main arena, and sets that arena's
  mode but not `g_mode_default`. A grow that fails at adoption leaves its thread
  an arena that never grows.
* Each rehash leaves the table it replaced mapped, for readers still in it; a
  program that maps and releases for ever leaks a table per round of tombstones.
* In `index_find` the second read of the slot, and in `index_put` the rule not to
  reuse a tombstone, are never needed for addresses the caller owns: a torn read
  of a recycled descriptor can only be met with a dangling pointer.
* `pool_alloc(0)` that exactly fills the bootstrap pool returns the pool's end,
  which `from_pool` does not recognise. A start-up that fails is tried again by
  every call, and each try takes from the pool.

## 5. The proofs

`TilingProofs` proves, for every `Units` and `MinBlock` that satisfy
`GeometryAssumption` (a smallest block of at least one unit, in a span that
holds one), and with no other assumption:

| Theorem | States |
|---|---|
| `AlwaysGood` | `Spec => []Good(tiling)`, the inductive invariant |
| `TypeCorrect`, `AlwaysTiled`, `AlwaysCoalesced` | the three invariants of run `tiling` |
| `QuarantineIsForever`, `OneBlockOnly` | its two action properties |

`Tiled` alone is not inductive in a usable form, and neither is `Coalesced`:
`Release` fuses with *the* free block that ends where the freed one begins, and
that there is one such block, and that the fused run has no free block on either
side, needs exact tiling and coalescing together. `Good` is their conjunction
with the type. The argument goes through the three primitives:

1. `MarkTiles`, `CutTiles`, `FuseTiles`: each keeps an exact tiling exact
   (`BlocksApart` and `EndInSpan` say that blocks do not overlap and end where
   another begins).
2. `OneBefore`: at most one block ends at an address. `AbsorbNextGood`,
   `TrimGood`, `ReleaseGood`, `TakeGood`: each operation takes a good tiling,
   apart from the one block in hand, to a good one.
3. `Keeps(t, u, a)` says every used or quarantined block of `t` but the one at
   `a` is the same block in `u`. Each operation lemma states what it keeps next to what
   it preserves, so the two action properties follow from the same case split.
4. `InitGood` and `NextGood` assemble them, one step per action.

`Heap` implements `Tiling` (property `ImplementsTiling`, TLC only), so on the
checked instances every call of the detailed model is a step the theorems cover.

### The arenas

`ArenasProofs` proves four theorems for every set of threads, arenas and blocks,
every queue length, every set of programs and without a bound on epochs, from
`ArenasAssumption` (the main arena is not one of the others, and `none` is no
arena, thread or block):

| Theorem | States |
|---|---|
| `AlwaysInv` | `Spec => []Inv`, the inductive invariant |
| `AlwaysOneLock`, `NeverStuck`, `PoolAlwaysExact` | `OneLock`, `NoDeadlock` and `PoolExact` of run `arenas` |

None of the three is inductive. `Inv` adds to `PoolExact`:

* `Types`, and `Placed`: a thread about to lock an arena has one in hand, one that
  walks the list stands on it. Without it nothing says that the lock a thread waits
  for is an arena's.
* `Locks` and `Resets`: a lock's holder is in the section it guards, and only the
  holder of the list lock discards arenas. `OneLock` follows at once: a thread in
  a section is in one arena. `NoDeadlock` follows too: if an arena's lock is held,
  its holder is inside a section and waits for nothing; else if the list lock is
  held, the arena its holder waits for is free; else nobody waits.
* `Lent`: a call's block is lent to it alone and is on no queue. It is what gives
  the owner's lock in the fallback of `mm_free` an arena to be of, and it is where
  the program's discipline (`Call`, `InitBegin`) is used.
* `ListExact` and `Discarded`: the list has every arena ever made, once; the part
  a reset has been through is unclaimed. While the list lock is held `PoolExact`
  says nothing, and these two carry it across: when the reset ends every arena but
  the main one is unclaimed, so the rest of the list is exactly the pool.

There is one lemma per conjunct (`TypesStep`, `LocksStep`, `ResetsStep`,
`PlacedStep`, `LentStep`, `PoolStep`), each split by action; `OthersStay` (a step
changes one thread), `LentKept` and `PoolKept` take the actions that disturb
nothing, `AdoptPool`, `ExitPool` and `RestartPool` those that move arenas.

`ArenasCustody` builds on `Inv` and proves the other three invariants of run
`arenas`, with the same generality. `MarkersAssumption` is added: the words that
stand for "mm_self is the thread's own" and for the kinds of calls are no arenas
and not `none`, which in the code are values of different types.

| Theorem | States |
|---|---|
| `AlwaysCustody` | `Spec => []Custody`, the inductive invariant |
| `AlwaysConfined`, `AlwaysPrivate`, `AlwaysModesAgree` | `Confined`, `PrivateArena`, `ModesAgree` |

`Custody` follows an arena through the hands it passes, from one access of a
thread to its next:

* `Threaded`: what a thread's own fields say of each other. `mm_self` is lent only
  inside a call under the owner's lock, so `Home`, where it will be afterwards, is
  the thread's arena or the main one. From the discarding of the main arena until
  the caller's buffer is installed that arena does not grow, which is why nobody
  is given an arena of his own in between.
* `Named`: every arena a thread has in hand, a block is in or that has memory is on
  the list, so that a walk over the list meets it. `Holding`: a section is inside
  the lock of its arena (`Locks` gives only the converse).
* `Epochs` and `Homed`: epochs never run ahead; a call that has passed the epoch
  test has a current arena, and a call about a block that block's, unless an
  initialisation overlapped it. While arenas are being discarded a block is in one
  the reset has yet to come to. `Confined` is what `Homed` says of a section.
* `Kept`: one thread keeps an arena, and one about to be filled has no memory.
* `Modal`: an arena in the wrong mode is ahead of the walk of `mm_set_mode`. The
  step to mind is adoption during the walk: a new arena takes the new default, an
  orphan is on the list already.

The actions' effects are first stated field by field (`Moves`); each conjunct then
has one lemma, split by action.

### The ring

`RemoteQueueProofs` proves three theorems for every finite set of producers, any
blocks, any number of slots above one, any wrap that is a multiple of twice the
slots, and any starting position, from `RingAssumption`. `MaxFrees` stays: it is
the assumption that the frees of one behaviour span less than half the wrap, so
that a producer does not sleep through 2^31 of them between two accesses.

| Theorem | States |
|---|---|
| `RingInvariant` | `Spec => []Inv`, the inductive invariant |
| `NeverLostNeverTwice`, `GivesUpOnlyWhenFull` | `Accounted` and `FullOnlyWhenFull` of run `remote_queue` |

The counters alone carry no order, so `Ring` says that there are *unwrapped*
positions behind them: `h` of the head, `l` of the tail, `p` of each thread and `q`
of each cell's number (`Unwrapped`), all within the frees and a lap of where the
ring stood at first (`Counted`, `Bounded`). `EqualOf` and `DiffAhead` then turn a
comparison of 32-bit values in the code into one of positions; they rest on the
lemmas about residues at the head of the module. What is true of the positions:

* `Station`: what a thread relies on between two of its accesses. A claimed cell
  keeps its number until it is published, a published one until it is handed back,
  and a position still at the head is still free when the compare-exchange wins.
* `Distinct`: a position is claimed by one thread. With `Station` it gives `Apart`:
  no two threads work on one cell, which is why no step disturbs another thread.
* `Filled`: a pointer in a cell is published or about to be, so the cell a producer
  claims is empty.
* `Floor`: every cell's number belongs to a position the drain has not handed back.
  It is what a full ring means.

`Once` says of every block that it is in at most one cell or hand, and in one
exactly when it is on its way; `Section` and `Hands` say who holds the lock and
what a thread may hold where. There is one lemma per step that changes the ring
(`ClaimRing`, `FillRing`, `PublishRing`, `TakeRing`, `AdvanceRing`, `ReleaseRing`),
`QuietRing` for the others, and one per way a block changes hands (`OnceBegin`,
`OnceFill`, `OnceFree`, `OncePop`, `OnceApply`).

### The growable arena and the shim

`GrowthProofs` and `ShimProofs` prove the seven invariants of run `shim` for every
profile, every even chunk size that is a multiple of the page size, every page
size, any requests up to `SizeMax` and alignments up to half of it, any number of
mappings above zero and any pool size (`GrowthAssumption`, `ShimAssumption`).

| Theorem of `ShimProofs` | States |
|---|---|
| `AlwaysInv` | `Spec => []Inv`, the inductive invariant |
| `CallocAlwaysZeroed` | `CallocZeroed` in the profiles other than `fast`, where run `calloc_fresh` refutes it |
| `MetaAlwaysKept`, `AccessAlwaysConfined`, `NeverFalseAlarm` | `MetaKept`, `AccessConfined`, `NoFalseAlarm` |
| `FreshAlwaysExact`, `DedicatedAlwaysReturned`, `PoolAlwaysSound` | `FreshExact`, `DedicatedReturned`, `PoolSound` |

What a call did wrong (`seen`) says nothing of the next call, so none of this is
inductive. `Inv` is about the arena between two calls:

* `Tiled` and `Apart`: the blocks of a span follow one another from
  `MM_BLOCK_OFFSET` to its end, none smaller than `MM_MIN_BLOCK`, and no two free
  ones adjoin. `Released` and `Split` need both: that the free block before the
  freed one is the only one, and that a merged run has no free neighbour.
* `Roomy`: what the program may use, which `finish_allocation` may make larger than
  what it asked for, leaves room for header, canary and mirror. With `Tiled` it
  keeps payloads (`PayloadClear`) and the pages of a free run (`InteriorClear`,
  `PagesClear`) clear of all metadata: `CallocZeroed` and `MetaKept`.
* `Summed`: a checksum is there only in the mode that keeps it up, and is right.
  `mm_set_mode` is the step that matters: `forget_payload_crcs` on the way to
  `libc` (`UnsummedOK`), nothing on the way back, because there is none left.
* `Untouched`: a span that counts as fresh is one free block and nothing but its
  metadata was written. `HeapSound` adds that the count is exact.
* `Inhabited`: a dedicated mapping has a block in use. It is broken inside
  `realloc_unlocked` and `memalign_unlocked` and restored by their end, so the
  lemmas about them speak of an arena that is sound but for one block
  (`SoundBut`) or one span (`HeapBut`).

The pool has an invariant of its own, `PoolInv`: as long as no `Overreaching` request
was served, its blocks are `Stacked` behind one another with their padding, and none
is so large that the cursor's arithmetic wraps. A request either wraps when it is
padded, which `need < size` notices (`PoolRefuses`), or is `Overreaching`, or stays
within `SizeMax` when a header and the size of the pool are added to it (`Plain`). For
the last kind `PlainNeed` and `UsedEnds` show that the `size_t` sums are the sums of
the numbers.

`GrowthProofs` has one lemma for each operator of Growth, in the order a call
composes them: tilings (`ReleasedOK`, `SplitOK`, `FinishedOK`), a span
(`CarvedBlocks`, `ReleasedSpan`, `FittedSpan`, `CrcSpan`, `CutOK`), the arena
(`MallocOK`, `FreeOK`, `ReallocOK`, `MemalignOK`). `ShimProofs` has one for each
call (`MallocStep` to `StoreStep`) and assembles them in `NextInv`; the pool comes
after it (`PoolMoves`, `PoolStep`, `PoolInvStep`). The
least address of a set and the aligned address of `memalign_unlocked` exist by
`NatLeast`, which the library's theorem about minimal elements gives.

### The registry

`RegistryTable` and `RegistryProofs` prove all four invariants of run `registry`
for any set of arenas, any number of units, tables and descriptors, any size of the
first table and any hash, from `RegistryAssumption`: the sizes are positive, `Mix`
gives every unit some natural number, addresses lie within the units, and `none` is
neither a number nor an arena. A mapping is of one or two units, as in the model.

| Theorem of `RegistryProofs` | States |
|---|---|
| `RegistryInvariant` | `Spec => []IInv`, the inductive invariant |
| `AlwaysAnswersRight` | `AnswersRight`: a lock-free lookup finds the span, or NULL where there is none |
| `AlwaysTableExact`, `AlwaysFiledIsMapped`, `AlwaysDescriptorsOwned` | `TableExact`, `FiledIsMapped`, `DescriptorsOwned` |

None of the four is inductive: `AnswersRight` says nothing of a lookup that has no
answer yet, `TableExact` nothing while somebody holds the lock, and neither says why
a probe reaches an entry at all. `IInv` has five parts:

* `Types`, and `Custody`: what the fields of an operation say of each other and of
  the lock (`ProcShape`), and that a descriptor is in the pool, in one list or in one
  hand (`Owned`). A reset has taken its arena's list over.
* `Mappings`: the spans that are mapped and their units are disjoint, their bounds
  and magic hold while they can be found, and how far a registration or its reversal
  has come (`Phase`).
* `Index`: every entry of the table in use is reached from where its unit's probe
  sequence starts (`Chained`) and is its unit's only one (`Single`); the entries are
  the units of the filed spans, and of the span at hand those the writer has filed or
  not yet removed (`Exact`); the counters count, and less than half of the slots are
  full (`Counted`).
* `Lookups`: `OnTheWay` says of a reader at the k-th slot that what its table has for
  the unit is right, and that the chain from there on leads to it if the address is
  covered. The table may be an old one. `Cached` is about `span_cache`.

The argument, in the order of the modules:

1. `RegistryTable` says what the code does to a table. `PutSlotEnd`: `index_put` of a
   new unit stores at the end of its chain. `EntryKept`, `TombstoneKept`: putting and
   deleting leave every other entry reached, which is what the tombstone is for.
   `DelFinds`: `index_del` finds what is filed. `RehashCapFits`, `RefilledRight`: a
   rehash chooses a table that has room, and it has the old one's entries, each
   reached and once. The last two are inductions over the recursive functions
   `Doubled` and `Refilled`, by the least counterexample (`NatLeast`).
2. One lemma per action says what it does to the operation (`FxAlloc` to `FxAnswer`)
   and to the table (`Rehashes`, `PutsUnit`, `PutsSpan`, `Deletes`). Each part of
   `IInv` then has its lemmas, split by action.
3. A writer and a reader. `Works`: no step of a writer changes which span covers an
   address that is being looked up, because a span is taken down only when nobody
   looks it up (`NotAtHand`). `Passes`: what a reader of unit `w` may see change in
   its table: its own entry stays, nothing new is entered for `w`, a full slot stays
   full and keeps its unit. `SeeksKept` concludes that the reader stays on its way;
   it needs that `index_put` stores the unit first and into an empty slot only, and
   that an old table is no longer written.
4. The reader's own steps (`SeeksPeek`): a slot passed over is not the entry
   (`Onward`), an empty slot or a full round means there is none (`DeadEnd`).

### What is only model-checked

* The refinement of Tiling by Heap, and everything about headers, bins, contents
  and faults in Heap and HeapFaults. Their operators walk memory from block to block
  (`Iterate` in Block), and every property depends on what such walks compute in
  memory of every size. The library's induction theorems take an operator as
  parameter, which the installed provers cannot instantiate. An induction by least
  counterexample, as for the registry's two functions, would have to be done for each
  walk in each state of memory that an operation goes through.
* That queued frees are applied in the end, which is liveness.

## 6. What is not modelled

* Faults in growable arenas, and the patrol over several spans. `mm_scrub`'s turn
  through `mm_scrub_leave` is in Heap, for one span.
* `MM_ZERO_ON_FREE`, a compile-time option that only adds a clear.
* The width of the slack field and of sizes in Block and Heap, with `mm_size_for`'s
  overflow test. Growth and Shim keep the width of sizes (`SizeMax`): in validated
  access, in `mm_size_for`, in the size of a mapping and in the pool. An alignment
  above half of `SizeMax`, whose double wraps in `memalign_unlocked`, is left out.
* Two calls of `mm_set_mode` that overlap. The mode is a statement about the whole
  program (`mm_integrity.c:93-95`), and nothing in the code makes two walks over the
  arenas agree: each sets every arena to its own argument.
* `map_chunk_aligned`'s over-mapping and the `madvise` calls, other than as what
  they leave mapped and zero.
* A producer that stalls while 2^32 others push: `RingAssumption` excludes it.
* Pointers used after they were freed, other than the double free of HeapMisuse.
* In the shim: diagnostics, the staged fault, the `pthread_create` warning,
  pointers of another allocator, and two threads in the bootstrap pool, whose cursor
  is unguarded. `mm_shim.c:28-34` counts on start-up being over before there is a
  second thread, which it is unless it failed.
* Statistics, which nothing decides on; CRC arithmetic, for which the models use an
  ideal checksum; Windows paths, which have the same control; tools, benchmarks
  and the fault injector, which are outside the allocator.

`PrivateArena` and `Confined` are claimed only while `mixed` is small enough: after
an `mm_init` that took arenas from running threads two threads may share one, and
one that overlapped other calls may find a block of the old heap on a queue. The
documentation asks for neither to be done. `Registry` has no caller-supplied span,
whose lookup compares two bounds before it reaches the table.
