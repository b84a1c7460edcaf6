-------------------------------- MODULE Arenas --------------------------------
(***************************************************************************)
(* One arena per thread (mm_lock.c, mm_enter and its guards in             *)
(* mm_internal.h, mm_free, realloc_foreign, mm_init, mm_set_mode): how a   *)
(* thread comes by an arena, how it works in somebody else's, what happens *)
(* to its arena when it ends, and how mm_init takes all of them away.      *)
(*                                                                         *)
(* What a call does to the heap is Heap's subject; here it is reduced to   *)
(* which arena a block belongs to.  The remote-free queue is a set of      *)
(* blocks; RemoteQueue has the ring.  A step is an unlocked access, or a   *)
(* critical section, or the part of one between two lock operations.       *)
(***************************************************************************)
EXTENDS Naturals, Sequences, FiniteSets

CONSTANTS Threads,
          Main,      \* g_main_arena
          Extra,     \* the arenas arena_new can map
          Blocks,
          Slots,     \* MM_REMOTE_SLOTS
          MaxEpoch,  \* bound: rounds of initialisation in one behaviour
          Programs,  \* per program: the kinds of calls it makes, the blocks it uses
          none       \* a null pointer, and nobody

Arenas == Extra \cup {Main}

ASSUME ArenasAssumption == Main \notin Extra /\ none \notin Arenas \cup Threads \cup Blocks

\* The markers of a thread's record are not mistaken for pointers.
ASSUME MarkersAssumption ==
  /\ "own" \notin Arenas \cup {none}
  /\ none \notin {"malloc", "free", "use", "size", "remalloc", "install"}

VARIABLES listed,       \* g_arenas, oldest first
          orphans,      \* g_orphans
          epoch,        \* g_arena_epoch
          listlock,     \* the thread that holds g_arenas_lock
          lock,         \* per arena: the thread that holds its lock
          arena,        \* per arena: the other fields
          thr,          \* per thread: mm_self, g_thread_key and the call it is in
          block,        \* per block: whether it is free, held by the program,
                        \* lent to a call or queued, and the arena of its span
          modeDefault,  \* g_mode_default
          mainModed,    \* Main's mode was set since Main was last initialised
          program,      \* the program that is running
          mixed         \* 1: arenas were taken from threads that had them;
                        \* 2: from threads that were inside a call
vars == <<listed, orphans, epoch, listlock, lock, arena, thr, block,
          modeDefault, mainModed, program, mixed>>

Modes == {"managed", "libc"}

\* memset(a, 0, sizeof(*a)); torn: given a new secret with blocks sealed under
\* the old one.
NewArena == [claimed |-> FALSE, epoch |-> 0, live |-> FALSE, growable |-> FALSE,
             mode |-> "managed", queue |-> {}, torn |-> FALSE]

\* A thread outside the allocator.
Idle(self, key) == [self |-> self, key |-> key, pc |-> "idle", op |-> none,
                    at |-> none, saved |-> "own", blk |-> none, i |-> 0]

At(t, label) == thr[t].pc = label

\* A process that has not called the allocator, or one in which start-up has
\* called mm_arena_init_growable and has ended since.
Init ==
  /\ listed = <<Main>> /\ orphans = <<>> /\ epoch = 0 /\ listlock = none
  /\ lock = [a \in Arenas |-> none]
  /\ \E up \in BOOLEAN :
       arena = [a \in Arenas |->
         IF a = Main THEN [NewArena EXCEPT !.claimed = up, !.live = up, !.growable = up]
                     ELSE NewArena]
  /\ thr = [t \in Threads |-> Idle(none, none)]
  /\ block = [b \in Blocks |-> [st |-> "free", arena |-> none]]
  /\ modeDefault = "managed" /\ mainModed = TRUE /\ mixed = 0
  /\ program \in Programs

heapVars == <<arena, block>>
poolVars == <<listed, orphans, epoch, mixed>>
modeVars == <<modeDefault, mainModed, program>>

Becomes(t, new) == thr' = [thr EXCEPT ![t] = new]
Goto(t, pc)     == Becomes(t, [thr[t] EXCEPT !.pc = pc])
Return(t)       == Becomes(t, Idle(thr[t].self, thr[t].key))

-------------------------------------------------------------------------------
(***************************************************************************)
(* mm_enter.                                                               *)
(***************************************************************************)

\* mm_self and the two epochs are read without a lock.
Enter(t) ==
  /\ At(t, "enter")
  /\ LET a == thr[t].self
     IN  IF a = none \/ arena[a].epoch # epoch
         THEN Goto(t, "adopt")
         ELSE Becomes(t, [thr[t] EXCEPT !.pc = "lock", !.at = a])
  /\ UNCHANGED <<listlock, lock, heapVars, poolVars, modeVars>>

\* mm_mutex_lock(&a->lock)
Acquire(t) ==
  /\ At(t, "lock") /\ lock[thr[t].at] = none
  /\ lock' = [lock EXCEPT ![thr[t].at] = t]
  /\ Goto(t, "in")
  /\ UNCHANGED <<listlock, heapVars, poolVars, modeVars>>

(***************************************************************************)
(* mm_arena_adopt.  Its critical section is one step: it waits for nothing *)
(* else while it holds the list lock.                                      *)
(***************************************************************************)

\* The arena is t's from here on; whether it needs memory is asked next.
Claimed(a) == [arena[a] EXCEPT !.claimed = TRUE, !.epoch = epoch,
                               !.queue = IF a = Main THEN {} ELSE @]

Claim(t, a) ==
  /\ arena' = [arena EXCEPT ![a] = Claimed(a)]
  /\ Becomes(t, [thr[t] EXCEPT !.self = a, !.key = a, !.at = a, !.pc = "empty"])

\* The main arena is shared, unclaimed: there is nothing to give t of its own.
Share(t) ==
  /\ Becomes(t, [thr[t] EXCEPT !.self = Main, !.at = Main, !.pc = "lock"])
  /\ UNCHANGED <<arena, listed, orphans>>

AdoptMain(t) ==
  /\ ~arena[Main].claimed
  /\ Claim(t, Main)
  /\ UNCHANGED <<listed, orphans>>

AdoptShared(t) ==
  /\ arena[Main].claimed /\ ~arena[Main].growable
  /\ Share(t)

AdoptOrphan(t) ==
  /\ arena[Main].claimed /\ arena[Main].growable /\ orphans # <<>>
  /\ Claim(t, Head(orphans))
  /\ orphans' = Tail(orphans)
  /\ UNCHANGED listed

\* arena_new, appended to the list; or nothing left to map.
AdoptNew(t) ==
  /\ arena[Main].claimed /\ arena[Main].growable /\ orphans = <<>>
  /\ \/ \E a \in Extra \ {listed[i] : i \in DOMAIN listed} :
          /\ Claim(t, a)
          /\ listed' = Append(listed, a)
          /\ UNCHANGED orphans
     \/ Share(t)

Adopt(t) ==
  /\ At(t, "adopt") /\ listlock = none
  /\ AdoptMain(t) \/ AdoptShared(t) \/ AdoptOrphan(t) \/ AdoptNew(t)
  /\ UNCHANGED <<epoch, listlock, lock, block, modeVars, mixed>>

\* a->spans == NULL, read without the lock.
IsEmpty(t) ==
  /\ At(t, "empty")
  /\ Goto(t, IF thr[t].at # Main /\ ~arena[thr[t].at].live THEN "fill" ELSE "lock")
  /\ UNCHANGED <<listlock, lock, heapVars, poolVars, modeVars>>

\* A slip: the mode an arena starts in is the one it had.
FillKeepingMode(t) ==
  LET a == thr[t].at
  IN  /\ At(t, "fill") /\ lock[a] = none
      /\ \E mapped \in BOOLEAN :
           arena' = [arena EXCEPT ![a] = [@ EXCEPT !.live = mapped \/ @, !.growable = mapped]]
      /\ Goto(t, "lock")
      /\ UNCHANGED <<listlock, lock, block, poolVars, modeVars>>

\* A secret, the mode and a first chunk, under the arena's lock; the mapping
\* may be refused.
Filled(a, mapped) ==
  [arena[a] EXCEPT !.live = mapped \/ @, !.growable = mapped, !.mode = modeDefault,
                   !.torn = @ \/ arena[a].live]

Fill(t) ==
  LET a == thr[t].at
  IN  /\ At(t, "fill") /\ lock[a] = none
      /\ \E mapped \in BOOLEAN : arena' = [arena EXCEPT ![a] = Filled(a, mapped)]
      /\ Goto(t, "lock")
      /\ UNCHANGED <<listlock, lock, block, poolVars, modeVars>>

(***************************************************************************)
(* on_thread_exit, and the end of the thread: its name goes to a new one.  *)
(* In between other destructors may still call the allocator.              *)
(***************************************************************************)

\* A slip: given back whether or not it is spoken for.
OnThreadExitAlways(t) ==
  /\ At(t, "idle") /\ thr[t].key # none /\ listlock = none
  /\ LET a == thr[t].key
     IN  IF a = Main
         THEN UNCHANGED <<arena, orphans>>
         ELSE /\ arena' = [arena EXCEPT ![a].claimed = FALSE]
              /\ orphans' = <<a>> \o orphans
  /\ Becomes(t, [thr[t] EXCEPT !.key = none])
  /\ UNCHANGED <<listed, epoch, listlock, lock, block, modeVars, mixed>>

OnThreadExit(t) ==
  /\ At(t, "idle") /\ thr[t].key # none /\ listlock = none
  /\ LET a == thr[t].key
     IN  IF a = Main \/ ~arena[a].claimed
         THEN UNCHANGED <<arena, orphans>>
         ELSE /\ arena' = [arena EXCEPT ![a].claimed = FALSE]
              /\ orphans' = <<a>> \o orphans
  /\ Becomes(t, [thr[t] EXCEPT !.key = none])
  /\ UNCHANGED <<listed, epoch, listlock, lock, block, modeVars, mixed>>

End(t) ==
  /\ At(t, "idle") /\ thr[t].key = none /\ thr[t].self # none
  /\ Becomes(t, [thr[t] EXCEPT !.self = none])
  /\ UNCHANGED <<listlock, lock, heapVars, poolVars, modeVars>>

-------------------------------------------------------------------------------
(***************************************************************************)
(* Calls.  The program hands a pointer to one call at a time, and to none  *)
(* while another thread's mm_init discards the arenas.                     *)
(***************************************************************************)
Resetting == \E t \in Threads : thr[t].pc \in {"init", "reset"}

\* t starts a call on block b, in its own arena or in the block's.
Call(t, op, b, pc) ==
  /\ At(t, "idle") /\ block[b].st = "held" /\ ~Resetting
  /\ block' = [block EXCEPT ![b].st = "lent"]
  /\ LET there == pc = "lock"
     IN  Becomes(t, [thr[t] EXCEPT !.pc = pc, !.op = op, !.blk = b,
                       !.at = IF there THEN block[b].arena ELSE none,
                       !.self = IF there THEN block[b].arena ELSE @,
                       !.saved = IF there THEN thr[t].self ELSE "own"])
  /\ UNCHANGED <<listlock, lock, arena, poolVars, modeVars>>

\* The critical section ends: the lock is given back and mm_self put back.
Leave(t, next) ==
  /\ lock' = [lock EXCEPT ![thr[t].at] = none]
  /\ Becomes(t, [next EXCEPT !.self = IF thr[t].saved = "own" THEN @ ELSE thr[t].saved])
  /\ UNCHANGED <<listlock, poolVars>>

\* mm_remote_drain
Drained(a) ==
  [b \in Blocks |-> IF b \in arena[a].queue THEN [st |-> "free", arena |-> none]
                                            ELSE block[b]]
EmptyQueue(a) == arena' = [arena EXCEPT ![a].queue = {}]

\* malloc_unlocked: a block of a live arena, or nothing.
Allocated(a, blocks) ==
  {blocks} \cup
  {[blocks EXCEPT ![b] = [st |-> "held", arena |-> a]] :
     b \in {c \in program.blocks : arena[a].live /\ blocks[c].st = "free"}}

Unlent(blocks, b) == [blocks EXCEPT ![b].st = "held"]
Freed(blocks, b)  == [blocks EXCEPT ![b] = [st |-> "free", arena |-> none]]

MallocBegin(t) ==
  /\ At(t, "idle")
  /\ Becomes(t, [thr[t] EXCEPT !.pc = "enter", !.op = "malloc"])
  /\ UNCHANGED <<listlock, lock, heapVars, poolVars, modeVars>>

Malloc(t) ==
  /\ At(t, "in") /\ thr[t].op = "malloc"
  /\ block' \in Allocated(thr[t].at, Drained(thr[t].at))
  /\ EmptyQueue(thr[t].at)
  /\ Leave(t, Idle(thr[t].self, thr[t].key))
  /\ UNCHANGED modeVars

(***************************************************************************)
(* mm_free.                                                                *)
(***************************************************************************)

\* A slip: nobody asks whose block it is.
WayBackOwn(t, b) == "enter"

\* mm_owner_of: somebody else's block goes on the owner's queue.
WayBack(t, b) == IF block[b].arena = thr[t].self THEN "enter" ELSE "push"

FreeBegin(t, b) == Call(t, "free", b, WayBack(t, b))

\* free_unlocked in the arena whose lock is held, after the drain.
Free(t) ==
  /\ At(t, "in") /\ thr[t].op = "free"
  /\ block' = Freed(Drained(thr[t].at), thr[t].blk)
  /\ EmptyQueue(thr[t].at)
  /\ Leave(t, Idle(thr[t].self, thr[t].key))
  /\ UNCHANGED modeVars

\* mm_remote_push; a full queue falls through to the owner's lock.
Push(t) ==
  LET b == thr[t].blk
      o == block[b].arena
  IN  /\ At(t, "push")
      /\ IF Cardinality(arena[o].queue) < Slots
         THEN /\ arena' = [arena EXCEPT ![o].queue = @ \cup {b}]
              /\ block' = [block EXCEPT ![b].st = "queued"]
              /\ Return(t)
         ELSE /\ Becomes(t, [thr[t] EXCEPT !.pc = "lock", !.at = o])
              /\ UNCHANGED heapVars
      /\ UNCHANGED <<listlock, lock, poolVars, modeVars>>

(***************************************************************************)
(* mm_read, mm_write, mm_verify, mm_usable_size: under the lock of the     *)
(* arena that owns the block, which mm_enter_for makes the thread's own    *)
(* for the duration.  Only a thread's own queue is drained on the way in.  *)
(***************************************************************************)
EnterFor(t, b) == IF block[b].arena = thr[t].self THEN "enter" ELSE "lock"

UseBegin(t, b) == Call(t, "use", b, EnterFor(t, b))

\* A slip: mm_leave_for does not put mm_self back.
UseKeepingSelf(t) ==
  /\ At(t, "in") /\ thr[t].op = "use"
  /\ LET blocks == IF thr[t].saved = "own" THEN Drained(thr[t].at) ELSE block
     IN  block' = Unlent(blocks, thr[t].blk)
  /\ IF thr[t].saved = "own" THEN EmptyQueue(thr[t].at) ELSE UNCHANGED arena
  /\ lock' = [lock EXCEPT ![thr[t].at] = none]
  /\ Return(t)
  /\ UNCHANGED <<listlock, poolVars, modeVars>>

Use(t) ==
  /\ At(t, "in") /\ thr[t].op = "use"
  /\ LET blocks == IF thr[t].saved = "own" THEN Drained(thr[t].at) ELSE block
     IN  block' = Unlent(blocks, thr[t].blk)
  /\ IF thr[t].saved = "own" THEN EmptyQueue(thr[t].at) ELSE UNCHANGED arena
  /\ Leave(t, Idle(thr[t].self, thr[t].key))
  /\ UNCHANGED modeVars

(***************************************************************************)
(* realloc_foreign: the size under the owner's lock, which is given back   *)
(* before this thread allocates; then a copy and an ordinary free.         *)
(***************************************************************************)
ReallocBegin(t, b) ==
  /\ block[b].arena # thr[t].self
  /\ Call(t, "size", b, "lock")

\* A slip: the owner's lock is kept until the new block is there.
SizeKeepingLock(t) ==
  /\ At(t, "in") /\ thr[t].op = "size"
  /\ Becomes(t, [thr[t] EXCEPT !.pc = "enter", !.op = "remalloc", !.saved = "own",
                               !.self = thr[t].saved])
  /\ UNCHANGED <<listlock, lock, heapVars, poolVars, modeVars>>

Size(t) ==
  /\ At(t, "in") /\ thr[t].op = "size"
  /\ Leave(t, [thr[t] EXCEPT !.pc = "enter", !.op = "remalloc", !.saved = "own",
                                  !.at = none])
  /\ UNCHANGED <<heapVars, modeVars>>

\* mm_malloc of the new size: without it the old block stays as it was.
Remalloc(t) ==
  LET b      == thr[t].blk
      blocks == Drained(thr[t].at)
  IN  /\ At(t, "in") /\ thr[t].op = "remalloc"
      /\ EmptyQueue(thr[t].at)
      /\ \/ /\ block' = Unlent(blocks, b)
            /\ Leave(t, Idle(thr[t].self, thr[t].key))
         \/ /\ block' \in Allocated(thr[t].at, blocks) \ {blocks}
            /\ Leave(t, [thr[t] EXCEPT !.op = "free", !.pc = WayBack(t, b), !.at = none])
      /\ UNCHANGED modeVars

(***************************************************************************)
(* mm_set_mode.  The list is walked without its lock, one arena's lock at  *)
(* a time.  The program switches modes from one thread at a time.          *)
(***************************************************************************)
Switching == \E t \in Threads : At(t, "walk")

SetModeBegin(t) ==
  /\ At(t, "idle") /\ ~Switching
  /\ modeDefault' \in Modes /\ mainModed' = TRUE
  /\ Becomes(t, [thr[t] EXCEPT !.pc = "walk", !.i = 1])
  /\ UNCHANGED <<listlock, lock, heapVars, poolVars, program>>

Walk(t) ==
  /\ At(t, "walk")
  /\ IF thr[t].i <= Len(listed)
     THEN LET a == listed[thr[t].i]
          IN  /\ lock[a] = none
              /\ arena' = [arena EXCEPT ![a].mode = modeDefault]
              /\ Becomes(t, [thr[t] EXCEPT !.i = @ + 1])
     ELSE Return(t) /\ UNCHANGED arena
  /\ UNCHANGED <<listlock, lock, block, poolVars, modeVars>>

(***************************************************************************)
(* mm_init, and mm_arenas_reset in it.  Calls that use a pointer are over  *)
(* by then; others may be under way.                                       *)
(***************************************************************************)
Mixing(t) ==
  IF \E u \in Threads \ {t} : ~At(u, "idle") THEN 2
  ELSE IF \E u \in Threads : thr[u].key \in Extra /\ mixed < 1 THEN 1
  ELSE mixed

InitBegin(t) ==
  /\ At(t, "idle") /\ epoch < MaxEpoch
  /\ \A u \in Threads : thr[u].blk = none /\ thr[u].pc \notin {"init", "reset"}
  /\ Goto(t, "init")
  /\ UNCHANGED <<listlock, lock, heapVars, poolVars, modeVars>>

InitLock(t) ==
  /\ At(t, "init") /\ listlock = none
  /\ listlock' = t /\ epoch' = epoch + 1 /\ mixed' = Mixing(t)
  /\ Becomes(t, [thr[t] EXCEPT !.pc = "reset", !.i = 1])
  /\ UNCHANGED <<listed, orphans, lock, heapVars, modeVars>>

\* mm_arena_reset and mm_remote_forget, of one arena and of those in S.
Discard(a) == [arena[a] EXCEPT !.live = FALSE, !.growable = FALSE, !.queue = {},
                               !.claimed = FALSE]

Emptied(S) ==
  /\ arena' = [a \in Arenas |-> IF a \in S THEN Discard(a) ELSE arena[a]]
  /\ block' = [b \in Blocks |->
       IF block[b].arena \in S THEN [st |-> "free", arena |-> none] ELSE block[b]]

ResetArena(t) ==
  /\ At(t, "reset") /\ thr[t].i <= Len(listed)
  /\ lock[listed[thr[t].i]] = none
  /\ Emptied({listed[thr[t].i]})
  /\ Becomes(t, [thr[t] EXCEPT !.i = @ + 1])
  /\ UNCHANGED <<listlock, lock, poolVars, modeVars>>

ResetEnd(t) ==
  /\ At(t, "reset") /\ thr[t].i > Len(listed)
  /\ orphans' = Tail(listed)
  /\ listlock' = none
  /\ arena' = [arena EXCEPT ![Main] = [@ EXCEPT !.claimed = TRUE, !.epoch = epoch]]
  /\ Becomes(t, [Idle(Main, thr[t].key) EXCEPT !.pc = "enter", !.op = "install"])
  /\ UNCHANGED <<listed, epoch, mixed, lock, block, modeVars>>

\* The caller's buffer becomes the arena, under its lock.
Install(t) ==
  /\ At(t, "in") /\ thr[t].op = "install"
  /\ arena' = [arena EXCEPT ![thr[t].at] =
                  [@ EXCEPT !.live = TRUE, !.mode = "managed", !.queue = {}]]
  /\ block' = Drained(thr[t].at)
  /\ mainModed' = FALSE
  /\ Leave(t, Idle(thr[t].self, thr[t].key))
  /\ UNCHANGED <<modeDefault, program>>

\* mm_arena_init_growable takes no arena's lock while it sets the main arena
\* up: it belongs to start-up, when no other call is under way.
InitGrowable(t) ==
  /\ \A u \in Threads : At(u, "idle")
  /\ epoch < MaxEpoch
  /\ epoch' = epoch + 1 /\ orphans' = Tail(listed) /\ mixed' = Mixing(t)
  /\ \E mapped \in BOOLEAN :
       arena' = [a \in Arenas |->
         IF a = Main
         THEN [arena[a] EXCEPT !.live = mapped, !.growable = mapped, !.queue = {},
                               !.claimed = TRUE, !.epoch = epoch + 1, !.mode = "managed"]
         ELSE Discard(a)]
  /\ block' = [b \in Blocks |-> [st |-> "free", arena |-> none]]
  /\ Becomes(t, [thr[t] EXCEPT !.self = Main])
  /\ mainModed' = FALSE
  /\ UNCHANGED <<listed, listlock, lock, modeDefault, program>>

-------------------------------------------------------------------------------
Step(t) ==
  \/ Enter(t) \/ Acquire(t) \/ Adopt(t) \/ IsEmpty(t) \/ Fill(t)
  \/ Malloc(t) \/ Free(t) \/ Push(t) \/ Use(t) \/ Size(t) \/ Remalloc(t)
  \/ Walk(t) \/ InitLock(t) \/ ResetArena(t) \/ ResetEnd(t) \/ Install(t)

Begin(t) ==
  \/ MallocBegin(t)
  \/ "mode" \in program.calls /\ SetModeBegin(t)
  \/ "init" \in program.calls /\ (InitBegin(t) \/ InitGrowable(t))
  \/ "exit" \in program.calls /\ (OnThreadExit(t) \/ End(t))
  \/ \E b \in Blocks :
       \/ "free" \in program.calls /\ FreeBegin(t, b)
       \/ "use" \in program.calls /\ UseBegin(t, b)
       \/ "realloc" \in program.calls /\ ReallocBegin(t, b)

Next == \E t \in Threads : Step(t) \/ Begin(t)

Spec == Init /\ [][Next]_vars

-------------------------------------------------------------------------------
(***************************************************************************)
(* The locks.                                                              *)
(***************************************************************************)

\* A thread that has to wait before its next step.
Blocked(t) ==
  \/ thr[t].pc \in {"lock", "fill"} /\ lock[thr[t].at] # none
  \/ thr[t].pc \in {"walk", "reset"} /\ thr[t].i <= Len(listed)
     /\ lock[listed[thr[t].i]] # none
  \/ thr[t].pc \in {"adopt", "init"} /\ listlock # none

\* At most one arena's lock is held by a thread at any time: mm_internal.h calls
\* this the whole deadlock argument.
OneLock ==
  \A t \in Threads : \A a, c \in Arenas : lock[a] = t /\ lock[c] = t => a = c

\* The threads never wait for each other in a circle: of the calls under way one
\* can go on, whatever mix of adoptions, foreign resizes, walks over all arenas
\* and resets it is.
NoDeadlock ==
  (\E t \in Threads : ~At(t, "idle")) =>
    \E t \in Threads : ~At(t, "idle") /\ ~Blocked(t)

(***************************************************************************)
(* The pool of arenas.                                                     *)
(***************************************************************************)

\* No arena is lost and none is given out twice: whenever the list lock is free,
\* an arena that was made is either claimed or in the pool, and there once.
PoolExact ==
  listlock = none =>
    /\ \A i, j \in DOMAIN orphans : orphans[i] = orphans[j] => i = j
    /\ \A i \in DOMAIN orphans : orphans[i] \in Extra
    /\ \A i \in 2 .. Len(listed) :
         arena[listed[i]].claimed <=> \A j \in DOMAIN orphans : orphans[j] # listed[i]

\* Unless mm_init took arenas from running threads, an arena other than the main
\* one serves one thread at a time; a thread that has worked in somebody else's
\* arena does not come out of it owning that arena; and an arena with blocks in
\* it is never given a new secret, which their checksums were made with.
PrivateArena ==
  mixed = 0 =>
    /\ \A t, u \in Threads : thr[t].key \in Extra /\ thr[u].key = thr[t].key => t = u
    /\ \A t \in Threads : At(t, "idle") /\ thr[t].key # none =>
         thr[t].self \in {thr[t].key, Main}
    /\ \A a \in Arenas : ~arena[a].torn

\* A free is applied to the arena its block belongs to, under that arena's lock,
\* and a block is on one queue at most, unless mm_init overlapped other calls.
Confined ==
  mixed < 2 =>
    /\ \A t \in Threads : At(t, "in") /\ thr[t].blk # none /\ thr[t].op # "remalloc" =>
         thr[t].at = block[thr[t].blk].arena /\ lock[thr[t].at] = t
    /\ \A a \in Arenas : \A b \in arena[a].queue :
         block[b] = [st |-> "queued", arena |-> a]

\* Once mm_set_mode has returned, every arena that has memory is in the mode it
\* was told, also one that was being adopted meanwhile.  mm_init sets the mode of
\* the main arena alone.
ModesAgree ==
  ~Switching =>
    \A a \in Arenas : arena[a].live /\ (a = Main => mainModed) =>
      arena[a].mode = modeDefault
===============================================================================
